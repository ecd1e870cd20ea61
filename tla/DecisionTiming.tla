--------------------------- MODULE DecisionTiming ---------------------------
(* library/decision-timing.c: the manual timing runs.  A signal handler and   *)
(* the reconfiguration leave requests in atomic flags, every decision worker  *)
(* drains them between two events and starts or stops the run, and a worker   *)
(* that began an event of a run records its stages in its own block.          *)
EXTENDS Integers, Sequences, FiniteSets, FiniteSetsExt, Functions

CONSTANTS Workers,      \* the decision workers
          ULLONG_MAX,   \* where the counters of a block end
          MaxSignals,   \* bound: timing signals
          MaxReloads,   \* bound: changes of timing_collection
          MaxEvents,    \* bound: events put in a queue
          q_size        \* bound: length of a queue

VARIABLES
    mode,           \* config.timing_collection
    timing_armed,
    requests,       \* arm and stop requests with the sender's privilege,
                    \* queue_depth_restore_requests, overflow_stop_requests
    stop_reason,
    queue_depth_active,
    saved,          \* timing_saved_queue_depth: per worker
    queue,          \* the enqueue time of the events queued, 0 when not taken
    max_depth,      \* max_depth of each queue
    peak,           \* history: the longest each queue has been
    rearmed,        \* history: a run began before the last one was wound up
    tls,            \* decision_timing_tls and the place of each worker
    blocks,         \* the metrics of each worker's stages
    report,         \* the last timing report
    signals, reloads, events

control == <<mode, timing_armed, requests, stop_reason>>
depth == <<queue_depth_active, saved, max_depth, peak, rearmed>>
bounds == <<signals, reloads, events>>
vars == <<control, depth, queue, tls, blocks, report, bounds>>

Stages == {"time_in_queue", "total"}
Durations == {0, 2}
Buckets == {0, 2}                   \* one for each duration

Empty == [count |-> 0, total_ns |-> 0, max_ns |-> 0, buckets |-> [b \in Buckets |-> 0]]
EmptyBlocks == [w \in Workers |-> [s \in Stages |-> Empty]]
NoReport == [count |-> 0, total_ns |-> 0, max_ns |-> 0, buckets |-> [b \in Buckets |-> 0], reason |-> "none"]

Init == /\ mode = "manual" /\ timing_armed = FALSE
        /\ requests = [arm |-> "none", stop |-> "none", restore |-> FALSE, overflow |-> FALSE]
        /\ stop_reason = "manual"
        /\ queue_depth_active = FALSE /\ saved = [w \in Workers |-> 0]
        /\ queue = [w \in Workers |-> <<>>]
        /\ max_depth = [w \in Workers |-> 0] /\ peak = [w \in Workers |-> 0] /\ rearmed = FALSE
        /\ tls = [w \in Workers |-> [pc |-> "restore", armed |-> FALSE]]
        /\ blocks = EmptyBlocks /\ report = NoReport
        /\ signals = 0 /\ reloads = 0 /\ events = 0

Goto(w, pc) == tls' = [tls EXCEPT ![w].pc = pc]

-----------------------------------------------------------------------------
(* The other threads. *)

\* SIGUSR1 with a timing intent: only the last sender of an intent is kept.
decision_timing_signal_request(intent, uid) ==
    /\ signals < MaxSignals /\ signals' = signals + 1
    /\ requests' = [requests EXCEPT ![intent] = uid]
    /\ UNCHANGED <<mode, timing_armed, stop_reason, depth, queue, tls, blocks, report, reloads, events>>

\* Mutant: switching timing off leaves the depth of the queues to the run.
decision_timing_apply_config_NoRestore(new) ==
    /\ reloads < MaxReloads /\ reloads' = reloads + 1
    /\ mode' = new
    /\ timing_armed' = (timing_armed /\ new # "off")
    /\ UNCHANGED <<requests, stop_reason, depth, queue, tls, blocks, report, signals, events>>

\* reload_configuration() stores the mode and applies it.
decision_timing_apply_config(new) ==
    /\ reloads < MaxReloads /\ reloads' = reloads + 1
    /\ mode' = new
    /\ timing_armed' = (timing_armed /\ new # "off")
    /\ requests' = [requests EXCEPT !.restore = @ \/ (new = "off" /\ timing_armed)]
    /\ UNCHANGED <<stop_reason, depth, queue, tls, blocks, report, signals, events>>

decision_timing_queue_enqueue_time == IF timing_armed THEN 1 ELSE 0

\* The dispatcher queues an event for worker w.
Enqueue(w) ==
    LET length == Len(queue[w]) + 1 IN
    /\ events < MaxEvents /\ Len(queue[w]) < q_size /\ events' = events + 1
    /\ queue' = [queue EXCEPT ![w] = Append(@, decision_timing_queue_enqueue_time)]
    /\ max_depth' = [max_depth EXCEPT ![w] = IF length > @ THEN length ELSE @]
    /\ peak' = [peak EXCEPT ![w] = IF length > @ THEN length ELSE @]
    /\ UNCHANGED <<control, queue_depth_active, saved, rearmed, tls, blocks, report, signals, reloads>>

-----------------------------------------------------------------------------
(* The depth of the queues during a run. *)

q_max_depth_snapshot_reset(w) == Len(queue[w])

q_max_depth_snapshot_restore(w, old) == IF old > max_depth[w] THEN old ELSE max_depth[w]

\* timing_queue_depth_reset(): what was saved for each queue is replaced.
timing_queue_depth_reset ==
    /\ saved' = max_depth
    /\ max_depth' = [w \in Workers |-> q_max_depth_snapshot_reset(w)]

\* timing_queue_depth_restore(): the aggregate it is given is not used.
timing_queue_depth_restore ==
    /\ max_depth' = [w \in Workers |-> q_max_depth_snapshot_restore(w, saved[w])]
    /\ saved' = [w \in Workers |-> 0]

decision_timing_queue_depth_start ==
    /\ timing_queue_depth_reset
    /\ queue_depth_active' = TRUE /\ rearmed' = (rearmed \/ queue_depth_active)

decision_timing_queue_depth_stop ==
    /\ queue_depth_active' = FALSE
    /\ IF queue_depth_active THEN timing_queue_depth_restore ELSE UNCHANGED <<saved, max_depth>>

-----------------------------------------------------------------------------
(* The report: the blocks of the workers added up. *)

metric_add(a, b) == (a + b) % (ULLONG_MAX + 1)

AddUp(f) == FoldFunction(metric_add, 0, f)

\* snapshot_stage() over every worker, for the stage decision:total.
snapshot_stage(stage) ==
    [count |-> AddUp([w \in Workers |-> blocks[w][stage].count]),
     total_ns |-> AddUp([w \in Workers |-> blocks[w][stage].total_ns]),
     max_ns |-> Max({blocks[w][stage].max_ns : w \in Workers}),
     buckets |-> [b \in Buckets |-> AddUp([w \in Workers |-> blocks[w][stage].buckets[b]])]]

\* The report names the counter overflow, or else no reason.
write_timing_report(reason) ==
    LET s == snapshot_stage("total")
    IN  report' = [count |-> s.count, total_ns |-> s.total_ns, max_ns |-> s.max_ns,
                   buckets |-> s.buckets, reason |-> reason]

write_unarmed_report == report' = [NoReport EXCEPT !.reason = "not armed"]

-----------------------------------------------------------------------------
(* decision_timing_process_requests(), one flag at a time. *)

DrainRestore(w) ==
    /\ tls[w].pc = "restore" /\ Goto(w, "overflow")
    /\ requests' = [requests EXCEPT !.restore = FALSE]
    /\ IF requests.restore THEN decision_timing_queue_depth_stop
                           ELSE UNCHANGED <<queue_depth_active, saved, max_depth>>
    /\ UNCHANGED <<mode, timing_armed, stop_reason, peak, rearmed, queue, blocks, report, bounds>>

DrainOverflow(w) ==
    /\ tls[w].pc = "overflow" /\ Goto(w, "arm")
    /\ requests' = [requests EXCEPT !.overflow = FALSE]
    /\ IF requests.overflow
       THEN decision_timing_queue_depth_stop /\ write_timing_report(stop_reason)
       ELSE UNCHANGED <<queue_depth_active, saved, max_depth, report>>
    /\ UNCHANGED <<mode, timing_armed, stop_reason, peak, rearmed, queue, blocks, bounds>>

\* A request of the configured mode, sent by root.
Honoured(request) == mode = "manual" /\ request = "root"

\* decision_timing_arm() up to its first effect: a run that goes on is kept.
DrainArm(w) ==
    /\ tls[w].pc = "arm"
    /\ requests' = [requests EXCEPT !.arm = "none"]
    /\ Goto(w, IF Honoured(requests.arm) /\ ~timing_armed THEN "reset" ELSE "stop")
    /\ UNCHANGED <<mode, timing_armed, stop_reason, depth, queue, blocks, report, bounds>>

reset_worker_blocks(w) ==
    /\ tls[w].pc = "reset" /\ Goto(w, "start")
    /\ blocks' = EmptyBlocks
    /\ UNCHANGED <<control, depth, queue, report, bounds>>

\* The rest of decision_timing_arm(); a pending overflow is forgotten.
decision_timing_arm(w) ==
    /\ tls[w].pc = "start" /\ Goto(w, "stop")
    /\ decision_timing_queue_depth_start
    /\ stop_reason' = "manual" /\ timing_armed' = TRUE
    /\ requests' = [requests EXCEPT !.overflow = FALSE]
    /\ UNCHANGED <<mode, peak, queue, blocks, report, bounds>>

decision_timing_stop ==
    /\ timing_armed' = FALSE
    /\ IF timing_armed
       THEN stop_reason' = "manual" /\ decision_timing_queue_depth_stop /\ write_timing_report("manual")
       ELSE write_unarmed_report /\ UNCHANGED <<stop_reason, queue_depth_active, saved, max_depth>>

DrainStop(w) ==
    /\ tls[w].pc = "stop" /\ Goto(w, "dequeue")
    /\ requests' = [requests EXCEPT !.stop = "none"]
    /\ IF Honoured(requests.stop) THEN decision_timing_stop
       ELSE UNCHANGED <<timing_armed, stop_reason, queue_depth_active, saved, max_depth, report>>
    /\ UNCHANGED <<mode, peak, rearmed, queue, blocks, bounds>>

-----------------------------------------------------------------------------
(* The stages of an event. *)

Fits(old, add) == old <= ULLONG_MAX - add       \* metric_add_unless_overflow()

bucket_for_duration(ns) == ns

Larger(a, b) == IF a > b THEN a ELSE b          \* update_max()

\* record_stage() on the metrics of one stage: it stops at the first counter
\* that would overflow, and what it added before stays.
Recorded(m, ns) ==
    LET b == bucket_for_duration(ns) IN
    IF ~Fits(m.count, 1) THEN m
    ELSE IF ~Fits(m.total_ns, ns) THEN [m EXCEPT !.count = @ + 1]
    ELSE IF ~Fits(m.buckets[b], 1) THEN [m EXCEPT !.count = @ + 1, !.total_ns = @ + ns]
    ELSE [m EXCEPT !.count = @ + 1, !.total_ns = @ + ns, !.buckets[b] = @ + 1, !.max_ns = Larger(@, ns)]

Overflows(m, ns) == ~(Fits(m.count, 1) /\ Fits(m.total_ns, ns) /\ Fits(m.buckets[bucket_for_duration(ns)], 1))

\* The first overflow of a run stops it and asks for the report.
decision_timing_overflow_stop ==
    /\ timing_armed' = FALSE
    /\ IF timing_armed THEN /\ stop_reason' = "overflow"
                            /\ requests' = [requests EXCEPT !.overflow = TRUE]
                       ELSE UNCHANGED <<stop_reason, requests>>

\* record_stage() by worker w, and the place it goes on to.
record_stage(w, stage, ns, pc) ==
    LET m == blocks[w][stage] IN
    /\ blocks' = [blocks EXCEPT ![w][stage] = Recorded(m, ns)]
    /\ IF Overflows(m, ns)
       THEN decision_timing_overflow_stop /\ tls' = [tls EXCEPT ![w] = [pc |-> pc, armed |-> FALSE]]
       ELSE UNCHANGED <<timing_armed, stop_reason, requests>> /\ Goto(w, pc)

\* decision_timing_decision_begin() and decision_timing_queue_dequeued(): the
\* event belongs to the run that is on now.  The clock may fail.
decision_timing_decision_begin(w) ==
    /\ tls[w].pc = "dequeue" /\ queue[w] # <<>>
    /\ queue' = [queue EXCEPT ![w] = Tail(@)]
    /\ \E armed \in {timing_armed, FALSE} :
           tls' = [tls EXCEPT ![w] = [pc |-> IF armed /\ Head(queue[w]) # 0 THEN "waited" ELSE "decide",
                                      armed |-> armed]]
    /\ UNCHANGED <<control, depth, blocks, report, bounds>>

decision_timing_queue_dequeued(w) ==
    /\ tls[w].pc = "waited"
    /\ \E ns \in Durations : record_stage(w, "time_in_queue", ns, "decide")
    /\ UNCHANGED <<mode, depth, queue, report, bounds>>

\* decision_timing_decision_end(): the worker looks at its own flag.
decision_timing_decision_end(w) ==
    /\ tls[w].pc = "decide"
    /\ IF tls[w].armed THEN \E ns \in Durations : record_stage(w, "total", ns, "restore")
       ELSE Goto(w, "restore") /\ UNCHANGED <<blocks, timing_armed, stop_reason, requests>>
    /\ UNCHANGED <<mode, depth, queue, report, bounds>>

\* The timed dequeue finds nothing.
TimedOut(w) ==
    /\ tls[w].pc = "dequeue" /\ queue[w] = <<>> /\ Goto(w, "restore")
    /\ UNCHANGED <<control, depth, queue, blocks, report, bounds>>

-----------------------------------------------------------------------------
Next ==
    \/ \E intent \in {"arm", "stop"}, uid \in {"root", "other"} : decision_timing_signal_request(intent, uid)
    \/ \E new \in {"off", "manual"} : decision_timing_apply_config(new)
    \/ \E w \in Workers :
          \/ Enqueue(w)
          \/ DrainRestore(w) \/ DrainOverflow(w)
          \/ DrainArm(w) \/ reset_worker_blocks(w) \/ decision_timing_arm(w)
          \/ DrainStop(w)
          \/ decision_timing_decision_begin(w) \/ decision_timing_queue_dequeued(w)
          \/ decision_timing_decision_end(w) \/ TimedOut(w)

Spec == Init /\ [][Next]_vars

-----------------------------------------------------------------------------
\* After every run, however it ended (a stop request, timing_collection=off, or a
\* counter about to overflow) and was wound up, each queue has its high-water mark
\* back: its maximum is the longest it has ever been, before, during or after the
\* run.  That is so until a run begins before the last one was wound up: then the
\* depth saved for each queue is overwritten, and the aggregate that
\* decision_timing_queue_depth_start() keeps for this case is not used.
HighWaterKept ==
    ~rearmed /\ ~timing_armed /\ ~requests.restore /\ ~requests.overflow => max_depth = peak

\* What the report says adds up: no more observations are in the buckets than
\* were counted, so that no tail count wraps below zero, and a run that was
\* stopped by hand misses none.
ReportAddsUp ==
    LET inBuckets == report.buckets[0] + report.buckets[2]
    IN  /\ inBuckets <= report.count
        /\ report.reason = "manual" => inBuckets = report.count /\ report.total_ns = 2 * report.buckets[2]

=============================================================================
