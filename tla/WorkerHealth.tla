----------------------------- MODULE WorkerHealth -----------------------------
(* daemon/worker-health.c with the parts of library/queue.c and of            *)
(* daemon/decision-worker.c it looks at: the monitor thread that kills the    *)
(* daemon when a decision worker has stopped making progress.  The monitor    *)
(* takes no lock: it reads the depth, the consumer index and the time stamp   *)
(* of a ring, then the heartbeat and the start of the current decision, while *)
(* the dispatcher and the workers go on.  Each of its loads, and each store   *)
(* it can see, is a step.  Time is counted in units of which the stall        *)
(* timeout has Timeout.                                                       *)
EXTENDS Integers, FiniteSets

CONSTANTS
    Workers,
    num_entries,    \* slots of a worker's ring
    Timeout,        \* health_stall_timeout_ns()
    BACKLOG,        \* HEALTH_QUEUE_BACKLOG_THRESHOLD
    MaxTime         \* bound: the time at which the clock stops

VARIABLES
    now,            \* CLOCK_MONOTONIC, 1 at the start: 0 is "unset"
    queued_ns,      \* time stamps of the slots, 0 in one never used
    q_next, q_last, queue_length,
    w_pc,           \* where a worker stands
    heartbeat_ns, current_event_started_ns,
    m_pc, m_now,    \* where the monitor stands, and the time it began at
    view,           \* the metrics of each worker, collected before any is judged
    todo,           \* workers still to be collected, or to be judged
    healthy,
    pinged,         \* the m_now of the last check that refreshed the watchdog
    killed,         \* the workers the daemon was killed for
    reality         \* history: the state of each ring when its stamp was read

ring == <<queued_ns, q_next, q_last, queue_length>>
worker == <<w_pc, heartbeat_ns, current_event_started_ns>>
monitor == <<m_pc, m_now, view, todo, healthy, pinged, reality>>
wh_vars == <<now, ring, worker, monitor, killed>>

Slots == 0 .. num_entries - 1
NoView == [depth |-> 0, oldest_age |-> 0, heartbeat |-> 0]

Unread == [oldest |-> 0, empty |-> FALSE]

worker_health_init(w) == heartbeat_ns[w] = now /\ current_event_started_ns[w] = 0

Init ==
    /\ now = 1
    /\ queued_ns = [w \in Workers |-> [s \in Slots |-> 0]]
    /\ q_next = [w \in Workers |-> 0] /\ q_last = [w \in Workers |-> 0]
    /\ queue_length = [w \in Workers |-> 0]
    /\ w_pc = [w \in Workers |-> "wait"]
    /\ heartbeat_ns = [w \in Workers |-> now]
    /\ current_event_started_ns = [w \in Workers |-> 0]
    /\ \A w \in Workers : worker_health_init(w)
    /\ m_pc = "sleep" /\ m_now = 0 /\ view = [w \in Workers |-> NoView]
    /\ todo = {} /\ healthy = TRUE /\ pinged = 0 /\ killed = {}
    /\ reality = [w \in Workers |-> Unread]

Tick == /\ now < MaxTime
        /\ now' = now + 1
        /\ UNCHANGED <<ring, worker, monitor, killed>>

-----------------------------------------------------------------------------
(* The dispatcher and the workers. *)

\* q_enqueue(): the stamp is stored before the length is counted up; the
\* monitor reads a slot only through the consumer index and the length.
q_enqueue(w) ==
    /\ queue_length[w] < num_entries
    /\ queued_ns' = [queued_ns EXCEPT ![w][q_next[w]] = now]
    /\ q_next' = [q_next EXCEPT ![w] = (@ + 1) % num_entries]
    /\ queue_length' = [queue_length EXCEPT ![w] = @ + 1]
    /\ UNCHANGED <<now, q_last, worker, monitor, killed>>

\* q_dequeue(): the consumer index moves on, then the length is counted down.
\* The stamp of the slot is left as it is.
DequeueAdvance(w) ==
    /\ w_pc[w] = "wait" /\ queue_length[w] > 0
    /\ q_last' = [q_last EXCEPT ![w] = (@ + 1) % num_entries]
    /\ w_pc' = [w_pc EXCEPT ![w] = "count"]
    /\ UNCHANGED <<now, queued_ns, q_next, queue_length, heartbeat_ns,
                   current_event_started_ns, monitor, killed>>

DequeueCount(w) ==
    /\ w_pc[w] = "count"
    /\ queue_length' = [queue_length EXCEPT ![w] = @ - 1]
    /\ w_pc' = [w_pc EXCEPT ![w] = "beat"]
    /\ UNCHANGED <<now, queued_ns, q_next, q_last, heartbeat_ns,
                   current_event_started_ns, monitor, killed>>

\* The heartbeat of dispatch_dequeued_decision_event() after a dequeue, and of
\* decision_worker_main() after a timed wait that found nothing.
worker_health_heartbeat(w) ==
    /\ \/ w_pc[w] = "beat" /\ w_pc' = [w_pc EXCEPT ![w] = "begin"]
       \/ w_pc[w] = "wait" /\ queue_length[w] = 0 /\ UNCHANGED w_pc
    /\ heartbeat_ns' = [heartbeat_ns EXCEPT ![w] = now]
    /\ UNCHANGED <<now, ring, current_event_started_ns, monitor, killed>>

\* The event may also be parked behind a building subject, or answered at once.
Parked(w) ==
    /\ w_pc[w] = "begin"
    /\ w_pc' = [w_pc EXCEPT ![w] = "wait"]
    /\ UNCHANGED <<now, ring, heartbeat_ns, current_event_started_ns, monitor, killed>>

worker_health_event_begin(w) ==
    /\ w_pc[w] = "begin"
    /\ current_event_started_ns' = [current_event_started_ns EXCEPT ![w] = now]
    /\ heartbeat_ns' = [heartbeat_ns EXCEPT ![w] = now]
    /\ w_pc' = [w_pc EXCEPT ![w] = "decide"]
    /\ UNCHANGED <<now, ring, monitor, killed>>

\* Two stores: a monitor may see the worker idle with the old heartbeat.
worker_health_event_end(w) ==
    \/ /\ w_pc[w] = "decide"
       /\ current_event_started_ns' = [current_event_started_ns EXCEPT ![w] = 0]
       /\ w_pc' = [w_pc EXCEPT ![w] = "end"]
       /\ UNCHANGED <<now, ring, heartbeat_ns, monitor, killed>>
    \/ /\ w_pc[w] = "end"
       /\ heartbeat_ns' = [heartbeat_ns EXCEPT ![w] = now]
       /\ w_pc' = [w_pc EXCEPT ![w] = "wait"]
       /\ UNCHANGED <<now, ring, current_event_started_ns, monitor, killed>>

-----------------------------------------------------------------------------
(* The monitor thread. *)

health_age_ns(t, timestamp) == IF timestamp = 0 \/ t < timestamp THEN 0 ELSE t - timestamp

\* The workers are collected, and then judged, one after the other.
Visited(w) == w \in todo /\ w = CHOOSE v \in todo : TRUE

\* health_monitor_check_workers() reads the clock before it collects anything.
CheckBegin ==
    /\ m_pc = "sleep"
    /\ m_now' = now /\ todo' = Workers /\ healthy' = TRUE
    /\ m_pc' = "depth"
    /\ UNCHANGED <<now, ring, worker, view, pinged, killed, reality>>

\* decision_worker_collect_health() and q_metrics_snapshot(): the depth ...
CollectDepth(w) ==
    /\ m_pc = "depth" /\ Visited(w)
    /\ view' = [view EXCEPT ![w] = [NoView EXCEPT !.depth = queue_length[w]]]
    /\ m_pc' = "stamp"
    /\ UNCHANGED <<now, ring, worker, m_now, todo, healthy, pinged, killed, reality>>

\* ... then q_oldest_age_ns(): nothing for a depth of 0, else the stamp found
\* through the consumer index of this moment.
q_oldest_age_ns(w) ==
    IF view[w].depth = 0 THEN 0 ELSE health_age_ns(now, queued_ns[w][q_last[w]])

\* Events of the ring that no worker has taken.
Waiting(w) == queue_length[w] - (IF w_pc[w] = "count" THEN 1 ELSE 0)

CollectStamp(w) ==
    /\ m_pc = "stamp" /\ Visited(w)
    /\ view' = [view EXCEPT ![w].oldest_age = q_oldest_age_ns(w)]
    /\ reality' = [reality EXCEPT ![w] =
           [oldest |-> IF Waiting(w) = 0 THEN 0
                       ELSE health_age_ns(now, queued_ns[w][q_last[w]]),
            empty |-> Waiting(w) = 0]]
    /\ IF todo = {w} THEN todo' = Workers /\ m_pc' = "heartbeat"
       ELSE todo' = todo \ {w} /\ m_pc' = "depth"
    /\ UNCHANGED <<now, ring, worker, m_now, healthy, pinged, killed>>

\* worker_health_snapshot(): the heartbeat is loaded before the start of the
\* current decision.
SnapshotHeartbeat(w) ==
    /\ m_pc = "heartbeat" /\ Visited(w)
    /\ view' = [view EXCEPT ![w].heartbeat = health_age_ns(m_now, heartbeat_ns[w])]
    /\ m_pc' = "judge"
    /\ UNCHANGED <<now, ring, worker, m_now, todo, healthy, pinged, killed, reality>>

\* Mutant: old events in the queue of a deciding worker are not taken as pressure.
worker_health_is_stalled_DepthOnly(busy, current_age, v) ==
    \/ busy /\ current_age >= Timeout /\ v.depth > BACKLOG
    \/ ~busy /\ v.depth > 0 /\ v.oldest_age >= Timeout /\ v.heartbeat >= Timeout

worker_health_is_stalled(busy, current_age, v) ==
    \/ busy /\ current_age >= Timeout /\ (v.depth > BACKLOG \/ v.oldest_age >= Timeout)
    \/ ~busy /\ v.depth > 0 /\ v.oldest_age >= Timeout /\ v.heartbeat >= Timeout

\* The start of the decision is loaded and the worker judged.  A stall is
\* logged, counted and reported, and failure_action_execute() raises SIGKILL.
\* After the last worker the watchdog is refreshed when all were healthy.
Judge(w) ==
    LET current == current_event_started_ns[w]
        stalled == worker_health_is_stalled(current # 0, health_age_ns(m_now, current), view[w])
    IN  /\ m_pc = "judge" /\ Visited(w)
        /\ killed' = IF stalled THEN {w} ELSE {}
        /\ healthy' = (healthy /\ ~stalled)
        /\ IF todo = {w} THEN m_pc' = "sleep" /\ todo' = {}
           ELSE m_pc' = "heartbeat" /\ todo' = todo \ {w}
        /\ pinged' = IF todo = {w} /\ healthy' THEN m_now ELSE pinged
        /\ view' = IF m_pc' = "sleep" /\ ~stalled THEN [v \in Workers |-> NoView] ELSE view
        /\ reality' = IF m_pc' = "sleep" /\ ~stalled THEN [v \in Workers |-> Unread] ELSE reality
        /\ UNCHANGED <<now, ring, worker, m_now>>

Next ==
    /\ killed = {}
    /\ \/ Tick \/ CheckBegin
       \/ \E w \in Workers :
            \/ q_enqueue(w) \/ DequeueAdvance(w) \/ DequeueCount(w)
            \/ worker_health_heartbeat(w) \/ Parked(w)
            \/ worker_health_event_begin(w) \/ worker_health_event_end(w)
            \/ CollectDepth(w) \/ CollectStamp(w) \/ SnapshotHeartbeat(w) \/ Judge(w)

Spec == Init /\ [][Next]_wh_vars

-----------------------------------------------------------------------------
\* The daemon is killed only for a worker that made someone wait: when the
\* monitor read its ring an event had been queued there for the timeout, or the
\* worker was, with more than the threshold queued, in a decision that had begun
\* a timeout before the check.  The one other way there is that the worker took
\* the last event around the monitor's load of the depth: the monitor then found
\* an empty ring, and took the stamp an earlier event had left in the next slot
\* for the age of the queue.
KilledOnlyWhenStalled ==
    \A w \in killed :
        \/ reality[w].oldest >= Timeout
        \/ view[w].depth > BACKLOG /\ health_age_ns(m_now, current_event_started_ns[w]) >= Timeout
        \/ reality[w].empty

\* A check that refreshed the watchdog overlooked no worker that was stuck when
\* it began: one in the same decision for the timeout with an event queued behind
\* it for as long, or one idle and silent that leaves such an event in its queue.
StallNoticed ==
    \A w \in Workers :
        ~ /\ killed = {} /\ pinged > 0 /\ queue_length[w] > 0
          /\ w_pc[w] \in {"wait", "decide"}
          /\ health_age_ns(pinged, queued_ns[w][q_last[w]]) >= Timeout
          /\ health_age_ns(pinged, heartbeat_ns[w]) >= Timeout

=============================================================================
