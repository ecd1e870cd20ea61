---------------------------- MODULE DecisionPool ----------------------------
(* The life of a permission event: raised by the kernel, read by the main     *)
(* loop (daemon/notify.c handle_events()), handed to a decision worker        *)
(* (daemon/decision-worker.c), answered (library/policy.c) or released by the *)
(* close of the fanotify group at shutdown (daemon/fapolicyd.c).              *)
(*                                                                            *)
(* An event is <<"ext", i>>, raised by a monitored process, or <<"worker", w>>*)
(* or <<"helper", h>>, raised when that thread of the daemon opens a watched  *)
(* file and is blocked by its own fanotify group.  The ring between the       *)
(* dispatcher and a worker is the FIFO that Queue implements; which events    *)
(* wait in the defer array, and for how long, is decided in DecisionWorker    *)
(* and is a free choice here.                                                 *)
EXTENDS Integers, Sequences, FiniteSets, SequencesExt

CONSTANTS
    active_decision_workers,
    q_size,         \* entries of a worker's queue
    Capacity,       \* entries of a worker's defer array
    Events,         \* bound: the events that other processes raise
    PidOf,          \* the pid in an event's metadata
    Helpers         \* helper threads: "reconfigure" and "update"

ASSUME PoolAssumption ==
    /\ active_decision_workers \in Nat \ {0}
    /\ q_size \in Nat \ {0} /\ Capacity \in Nat \ {0}
    /\ Events \subseteq Nat /\ IsFiniteSet(Events) /\ PidOf \in [Events -> Nat]
    /\ Helpers \subseteq {"reconfigure", "update"}

VARIABLES
    kernel,         \* what the fanotify group holds of each event
    evfd,           \* metadata->fd of each event, in this process
    group,          \* "open", or "closed" together with managed_response_closed
    number,         \* what the group's descriptor number refers to
    misdirected,    \* history: events answered through a reused number
    stray,          \* history: responses and closes nobody waited for
    stop,
    m_pc,           \* where the main thread stands
    batch,          \* fanotify metadata read and not yet handled
    stopping,       \* decision_worker_pool_stopping
    queue,          \* per worker: the ring
    defer,          \* per worker: the defer array, oldest first
    w_pc, w_event,  \* per worker: where it stands, and its current event
    h_pc            \* per helper thread: where it stands

group_vars == <<kernel, evfd, group, number, misdirected, stray>>
main_vars == <<stop, m_pc, batch, stopping>>
worker_vars == <<queue, defer, w_pc, w_event>>
vars == <<group_vars, main_vars, worker_vars, h_pc>>

Worker == 0 .. active_decision_workers - 1
Ext == {"ext"} \X Events
Own == ({"worker"} \X Worker) \cup ({"helper"} \X Helpers)
Event == Ext \cup Own
NoEvent == <<"none", 0>>

Init ==
    /\ kernel = [e \in Event |-> "none"] /\ evfd = [e \in Event |-> "none"]
    /\ group = "open" /\ number = "group"
    /\ misdirected = {} /\ stray = {}
    /\ stop = FALSE /\ m_pc = "poll" /\ batch = <<>> /\ stopping = FALSE
    /\ queue = [w \in Worker |-> <<>>] /\ defer = [w \in Worker |-> <<>>]
    /\ w_pc = [w \in Worker |-> "loop"]
    /\ w_event = [w \in Worker |-> NoEvent]
    /\ h_pc = [h \in Helpers |-> "idle"]

Exited == m_pc \in {"done", "killed"}

-----------------------------------------------------------------------------
(* The kernel and the monitored processes.  A process that raises an event    *)
(* sleeps until the event is answered or the group is closed.                 *)

Raise(e) ==
    /\ group = "open" /\ kernel[e] = "none"
    /\ kernel' = [kernel EXCEPT ![e] = "queued"]

Access(e) ==
    /\ Raise(e)
    /\ UNCHANGED <<evfd, group, number, misdirected, stray, main_vars,
                   worker_vars, h_pc>>

\* What an access may wait in: the queue of the group, the hands of the daemon,
\* or nobody's hands, because the response could not be written.
Waiting == {"queued", "read", "unanswered"}

\* Closing the group allows every access that still waits for an answer.
Released == [e \in Event |-> IF kernel[e] \in Waiting THEN "done" ELSE kernel[e]]

\* What write(fd, &response) does with e.  The group answers the access if it
\* still waits, or the write fails, is counted and not tried again; a closed
\* number fails; a reused number reaches a foreign file.
WriteResponse(e) ==
    /\ kernel' \in IF number = "group" /\ kernel[e] = "read"
                   THEN {[kernel EXCEPT ![e] = a] : a \in {"done", "unanswered"}}
                   ELSE {kernel}
    /\ misdirected' = IF number = "other" THEN misdirected \cup {e}
                      ELSE misdirected
    /\ UNCHANGED <<group, number>>

\* close(metadata->fd).
CloseEvent(e) == evfd' = [evfd EXCEPT ![e] = "closed"]

\* A response or a close for an event that this process no longer owns.
NoteStray(e) ==
    stray' = IF evfd[e] # "open" \/ (number = "group" /\ kernel[e] # "read")
             THEN stray \cup {e} ELSE stray

\* reply_event(): the check of managed_response_closed and the write are one
\* step, because the group is closed under the write side of the same lock.
reply_event(e) ==
    /\ IF group = "open" THEN WriteResponse(e)
       ELSE UNCHANGED <<kernel, misdirected, group, number>>
    /\ NoteStray(e)
    /\ CloseEvent(e)

\* reply_event_write() and close() in make_policy_decision(): no lock, no check.
reply_event_direct(e) == WriteResponse(e) /\ NoteStray(e) /\ CloseEvent(e)

\* Any later open() of the process may be given the number of the closed group.
ReuseNumber ==
    /\ ~Exited /\ number = "free"
    /\ number' = "other"
    /\ UNCHANGED <<kernel, evfd, group, misdirected, stray, main_vars,
                   worker_vars, h_pc>>

-----------------------------------------------------------------------------
(* The main thread.                                                           *)

\* term_handler(), and every other assignment of true to stop.
Terminate ==
    /\ m_pc \in {"poll", "stopcheck", "batch"} /\ ~stop
    /\ stop' = TRUE
    /\ UNCHANGED <<group_vars, m_pc, batch, stopping, worker_vars, h_pc>>

\* A fatal signal: coredump_handler() closes the group and the process dies.
Killed ==
    /\ ~Exited
    /\ kernel' = Released
    /\ group' = "closed" /\ number' = "free"
    /\ m_pc' = "killed"
    /\ UNCHANGED <<evfd, misdirected, stray, stop, batch, stopping,
                   worker_vars, h_pc>>

\* handle_events(): one read() returns events in the order they were raised,
\* and installs their descriptors; the order is a free choice of the kernel.
Read ==
    /\ m_pc = "poll" /\ ~stop
    /\ LET pending == {e \in Event : kernel[e] = "queued"} IN
       /\ pending # {}
       /\ \E b \in SetToSeqs(pending) :
             batch' = b
       /\ kernel' = [e \in Event |-> IF e \in pending THEN "read" ELSE kernel[e]]
       /\ evfd' = [e \in Event |-> IF e \in pending THEN "open" ELSE evfd[e]]
    /\ m_pc' = "stopcheck"
    /\ UNCHANGED <<group, number, misdirected, stray, stop, stopping,
                   worker_vars, h_pc>>

\* if (stop) return; drops what was just read: the group close releases it.
StopCheck ==
    /\ m_pc = "stopcheck"
    /\ IF stop THEN m_pc' = "poll" /\ batch' = <<>>
       ELSE m_pc' = "batch" /\ UNCHANGED batch
    /\ UNCHANGED <<group_vars, stop, stopping, worker_vars, h_pc>>

\* dispatcher_worker_index_from_key()
dispatcher_worker(e) == PidOf[e[2]] % active_decision_workers

\* decision_worker_pool_enqueue() fails with ESHUTDOWN or with a full queue.
Refused(e) == stopping \/ Len(queue[dispatcher_worker(e)]) = q_size

decision_worker_pool_enqueue(e) ==
    /\ ~Refused(e)
    /\ queue' = [queue EXCEPT ![dispatcher_worker(e)] = Append(@, e)]

NextInBatch == /\ m_pc = "batch" /\ batch # <<>>
               /\ batch' = Tail(batch)

\* metadata->pid == our_pid: the daemon answers its own opens at once.
HandleOwn ==
    /\ NextInBatch /\ Head(batch) \in Own
    /\ reply_event(Head(batch))
    /\ UNCHANGED <<stop, m_pc, stopping, worker_vars, h_pc>>

HandleEnqueue ==
    /\ NextInBatch /\ Head(batch) \in Ext
    /\ decision_worker_pool_enqueue(Head(batch))
    /\ UNCHANGED <<group_vars, stop, m_pc, stopping, defer, w_pc, w_event, h_pc>>

\* Mutant: the dispatcher forgets that it still owns a refused event.
HandleRefused_NoReply ==
    /\ NextInBatch /\ Head(batch) \in Ext
    /\ Refused(Head(batch))
    /\ UNCHANGED <<group_vars, stop, m_pc, stopping, worker_vars, h_pc>>

HandleRefused ==
    /\ NextInBatch /\ Head(batch) \in Ext
    /\ Refused(Head(batch))
    /\ reply_event(Head(batch))
    /\ UNCHANGED <<stop, m_pc, stopping, worker_vars, h_pc>>

BatchDone ==
    /\ m_pc = "batch" /\ batch = <<>>
    /\ m_pc' = "poll"
    /\ UNCHANGED <<group_vars, stop, batch, stopping, worker_vars, h_pc>>

\* fanotify_close_for_shutdown(), before anything that may wait.
CloseGroup(next) ==
    /\ kernel' = Released
    /\ group' = "closed" /\ number' = "free"
    /\ m_pc' = next
    /\ UNCHANGED <<evfd, misdirected, stray, batch, stopping, worker_vars, h_pc>>

\* Mutant: the helper threads are waited for before the group is closed.
Shutdown_AfterHelpers ==
    /\ m_pc = "poll" /\ stop /\ \A h \in Helpers : h_pc[h] = "idle"
    /\ UNCHANGED stop /\ CloseGroup("waithelper")

Shutdown == m_pc = "poll" /\ stop /\ UNCHANGED stop /\ CloseGroup("waithelper")

\* poll() failed: close the group, nudge, close_database(), exit(1).
PollError == m_pc = "poll" /\ ~stop /\ stop' = TRUE /\ CloseGroup("exitupdate")

ExitAfterPollError ==
    /\ m_pc = "exitupdate"
    /\ \A h \in Helpers \cap {"update"} : h_pc[h] = "idle"
    /\ m_pc' = "killed"
    /\ UNCHANGED <<group_vars, stop, batch, stopping, worker_vars, h_pc>>

\* wait_for_reconfigure_thread() and wait_for_mounts_thread()
WaitHelper ==
    /\ m_pc = "waithelper"
    /\ \A h \in Helpers \ {"update"} : h_pc[h] = "idle"
    /\ m_pc' = "begin"
    /\ UNCHANGED <<group_vars, stop, batch, stopping, worker_vars, h_pc>>

\* decision_worker_pool_begin_shutdown()
BeginShutdown ==
    /\ m_pc = "begin"
    /\ stopping' = TRUE
    /\ m_pc' = "join"
    /\ UNCHANGED <<group_vars, stop, batch, worker_vars, h_pc>>

\* pthread_join() of every worker, then close_database() joins the update thread.
Join ==
    /\ m_pc = "join"
    /\ \A w \in Worker : w_pc[w] = "exited"
    /\ \A h \in Helpers \cap {"update"} : h_pc[h] = "idle"
    /\ m_pc' = "done"
    /\ UNCHANGED <<group_vars, stop, batch, stopping, worker_vars, h_pc>>

Main ==
    \/ Read \/ StopCheck \/ HandleOwn \/ HandleEnqueue \/ HandleRefused
    \/ BatchDone \/ Shutdown \/ ExitAfterPollError \/ WaitHelper
    \/ BeginShutdown \/ Join

-----------------------------------------------------------------------------
(* A decision worker.  In make_policy_decision() it may open a watched file   *)
(* and then sleeps until the main loop, or the group close, lets it go on.    *)

At(w, pc) == ~Exited /\ w_pc[w] = pc
Goto(w, pc) == w_pc' = [w_pc EXCEPT ![w] = pc]
Hold(w, e) == w_event' = [w_event EXCEPT ![w] = e]

LoopTest(w) ==
    /\ At(w, "loop")
    /\ Goto(w, IF stopping THEN "drain" ELSE "wait")
    /\ UNCHANGED <<group_vars, main_vars, queue, defer, w_event, h_pc>>

Dequeue(w) ==
    /\ At(w, "wait") /\ queue[w] # <<>>
    /\ Hold(w, Head(queue[w]))
    /\ queue' = [queue EXCEPT ![w] = Tail(@)]
    /\ Goto(w, "dispatch")
    /\ UNCHANGED <<group_vars, main_vars, defer, h_pc>>

\* A nudge or a timeout: the worker looks at stopping again.
DequeueNothing(w) ==
    /\ At(w, "wait") /\ queue[w] = <<>>
    /\ Goto(w, "loop")
    /\ UNCHANGED <<group_vars, main_vars, queue, defer, w_event, h_pc>>

\* A timeout of a worker that has parked events releases those that are ready.
ReleaseReady(w) ==
    /\ At(w, "wait") /\ queue[w] = <<>>
    /\ \E i \in DOMAIN defer[w] :
          /\ Hold(w, defer[w][i])
          /\ defer' = [defer EXCEPT ![w] = RemoveAt(@, i)]
    /\ Goto(w, "decide")
    /\ UNCHANGED <<group_vars, main_vars, queue, h_pc>>

\* The slot is blocked and decision_defer_push() has room.
Park(w) ==
    /\ At(w, "dispatch") /\ Len(defer[w]) < Capacity
    /\ defer' = [defer EXCEPT ![w] = Append(@, w_event[w])]
    /\ Hold(w, NoEvent)
    /\ Goto(w, "loop")
    /\ UNCHANGED <<group_vars, main_vars, queue, h_pc>>

Proceed(w) ==
    /\ At(w, "dispatch")
    /\ Goto(w, "decide")
    /\ UNCHANGED <<group_vars, main_vars, queue, defer, w_event, h_pc>>

DecideOpen(w) ==
    /\ At(w, "decide")
    /\ Raise(<<"worker", w>>)
    /\ Goto(w, "open")
    /\ UNCHANGED <<evfd, group, number, misdirected, stray, main_vars, queue,
                   defer, w_event, h_pc>>

DecideOpened(w) ==
    /\ At(w, "open") /\ kernel[<<"worker", w>>] = "done"
    /\ kernel' = [kernel EXCEPT ![<<"worker", w>>] = "none"]
    /\ Goto(w, "reply")
    /\ UNCHANGED <<evfd, group, number, misdirected, stray, main_vars, queue,
                   defer, w_event, h_pc>>

Decide(w) ==
    /\ At(w, "decide")
    /\ Goto(w, "reply")
    /\ UNCHANGED <<group_vars, main_vars, queue, defer, w_event, h_pc>>

Reply(w) ==
    /\ At(w, "reply")
    /\ reply_event_direct(w_event[w])
    /\ Hold(w, NoEvent)
    /\ Goto(w, "release")
    /\ UNCHANGED <<main_vars, queue, defer, h_pc>>

\* Mutant: the released event stays in the defer array.
ReleaseSlot_Kept(w) ==
    /\ At(w, "release")
    /\ \E i \in DOMAIN defer[w] : Hold(w, defer[w][i])
    /\ Goto(w, "decide")
    /\ UNCHANGED <<group_vars, main_vars, queue, defer, h_pc>>

\* The decision left its subject slot free: the oldest event parked behind that
\* slot is decided next.
ReleaseSlot(w) ==
    /\ At(w, "release")
    /\ \E i \in DOMAIN defer[w] :
          /\ Hold(w, defer[w][i])
          /\ defer' = [defer EXCEPT ![w] = RemoveAt(@, i)]
    /\ Goto(w, "decide")
    /\ UNCHANGED <<group_vars, main_vars, queue, h_pc>>

ReleaseNone(w) ==
    /\ At(w, "release")
    /\ Goto(w, "loop")
    /\ UNCHANGED <<group_vars, main_vars, queue, defer, w_event, h_pc>>

\* shutdown_queued_events()
DrainQueue(w) ==
    /\ At(w, "drain") /\ queue[w] # <<>>
    /\ reply_event(Head(queue[w]))
    /\ queue' = [queue EXCEPT ![w] = Tail(@)]
    /\ UNCHANGED <<main_vars, defer, w_pc, w_event, h_pc>>

\* shutdown_deferred_events()
DrainDefer(w) ==
    /\ At(w, "drain") /\ queue[w] = <<>> /\ defer[w] # <<>>
    /\ reply_event(Head(defer[w]))
    /\ defer' = [defer EXCEPT ![w] = Tail(@)]
    /\ UNCHANGED <<main_vars, queue, w_pc, w_event, h_pc>>

\* Mutant: only the queue is drained.
Exit_DeferLeft(w) ==
    /\ At(w, "drain") /\ queue[w] = <<>>
    /\ Goto(w, "exited")
    /\ UNCHANGED <<group_vars, main_vars, queue, defer, w_event, h_pc>>

Exit(w) ==
    /\ At(w, "drain") /\ queue[w] = <<>> /\ defer[w] = <<>>
    /\ Goto(w, "exited")
    /\ UNCHANGED <<group_vars, main_vars, queue, defer, w_event, h_pc>>

WorkerStep(w) ==
    \/ LoopTest(w) \/ Dequeue(w) \/ DequeueNothing(w) \/ ReleaseReady(w)
    \/ Park(w) \/ Proceed(w) \/ DecideOpen(w) \/ DecideOpened(w) \/ Decide(w)
    \/ Reply(w) \/ ReleaseSlot(w) \/ ReleaseNone(w)
    \/ DrainQueue(w) \/ DrainDefer(w) \/ Exit(w)

-----------------------------------------------------------------------------
(* Helper threads: the reconfigure and mounts threads, started by the main    *)
(* loop, and the trust database update thread.  Each may open watched files.  *)

HelperAt(h, pc) == ~Exited /\ h_pc[h] = pc
HelperGoto(h, pc) == h_pc' = [h_pc EXCEPT ![h] = pc]

HelperStart(h) ==
    /\ HelperAt(h, "idle") /\ ~stop
    /\ h = "reconfigure" => m_pc = "poll"
    /\ HelperGoto(h, "busy")
    /\ UNCHANGED <<group_vars, main_vars, worker_vars>>

HelperOpen(h) ==
    /\ HelperAt(h, "busy")
    /\ Raise(<<"helper", h>>)
    /\ HelperGoto(h, "open")
    /\ UNCHANGED <<evfd, group, number, misdirected, stray, main_vars,
                   worker_vars>>

HelperOpened(h) ==
    /\ HelperAt(h, "open") /\ kernel[<<"helper", h>>] = "done"
    /\ kernel' = [kernel EXCEPT ![<<"helper", h>>] = "none"]
    /\ HelperGoto(h, "finish")
    /\ UNCHANGED <<evfd, group, number, misdirected, stray, main_vars,
                   worker_vars>>

HelperFinish(h) ==
    /\ ~Exited /\ h_pc[h] \in {"busy", "finish"}
    /\ HelperGoto(h, "idle")
    /\ UNCHANGED <<group_vars, main_vars, worker_vars>>

-----------------------------------------------------------------------------
Next ==
    \/ \E e \in Ext : Access(e)
    \/ ReuseNumber \/ Terminate \/ Killed \/ PollError \/ Main
    \/ \E w \in Worker : WorkerStep(w)
    \/ \E h \in Helpers : HelperStart(h) \/ HelperOpen(h) \/ HelperOpened(h)
                          \/ HelperFinish(h)
    \/ Exited /\ UNCHANGED vars

Spec == Init /\ [][Next]_vars

\* The scheduler runs every thread that is not blocked: the main thread does
\* its next step, a worker does too, and a helper finishes its job.  Parked
\* events become ready after the 10 second BUILDING limit at the latest, and a
\* worker whose queue stays empty times out: ReleaseReady.
Fairness ==
    /\ WF_vars(Main)
    /\ \A w \in Worker :
          /\ WF_vars(WorkerStep(w))
          /\ SF_vars(ReleaseReady(w))
    /\ \A h \in Helpers : WF_vars(HelperOpened(h)) /\ WF_vars(HelperFinish(h))

FairSpec == Spec /\ Fairness

-----------------------------------------------------------------------------
TypeOK ==
    /\ kernel \in [Event -> {"none", "queued", "read", "unanswered", "done"}]
    /\ evfd \in [Event -> {"none", "open", "closed"}]
    /\ group \in {"open", "closed"} /\ number \in {"group", "free", "other"}
    /\ misdirected \subseteq Event /\ stray \subseteq Event
    /\ stop \in BOOLEAN /\ stopping \in BOOLEAN
    /\ m_pc \in {"poll", "stopcheck", "batch", "waithelper", "exitupdate",
                 "begin", "join", "done", "killed"}
    /\ batch \in Seq(Event)
    /\ queue \in [Worker -> Seq(Ext)] /\ defer \in [Worker -> Seq(Ext)]
    /\ \A w \in Worker : Len(queue[w]) <= q_size /\ Len(defer[w]) <= Capacity
    /\ w_pc \in [Worker -> {"loop", "wait", "dispatch", "decide", "open",
                            "reply", "release", "drain", "exited"}]
    /\ w_event \in [Worker -> Ext \cup {NoEvent}]
    /\ h_pc \in [Helpers -> {"idle", "busy", "open", "finish"}]

\* Every place that holds e, with the obligation to answer it and close its fd.
Holders(e) ==
    {<<"batch", i>> : i \in {j \in DOMAIN batch : batch[j] = e}}
    \cup {<<"current", w>> : w \in {v \in Worker : w_event[v] = e}}
    \cup UNION {{<<"queue", w, i>> : i \in {j \in DOMAIN queue[w] : queue[w][j] = e}}
                \cup {<<"defer", w, i>> : i \in {j \in DOMAIN defer[w] : defer[w][j] = e}}
                : w \in Worker}

\* "On success, the selected worker queue owns the copied metadata [...] On
\* failure, ownership stays with the dispatcher": from the read to its close, a
\* permission fd has exactly one owner.  Only a batch read while the daemon was
\* told to stop is abandoned, and then to the group close.
OwnedOnce ==
    \A e \in Event :
        /\ Cardinality(Holders(e)) <= 1
        /\ Holders(e) # {} => evfd[e] = "open"
        /\ evfd[e] = "open" /\ Holders(e) = {} => stop

\* "During shutdown each must be answered exactly once": no response is written
\* for an access that does not wait for one, and no event fd is closed twice,
\* whichever of dispatcher, worker and shutdown drain answers.
AnsweredOnce == stray = {}

\* After the join no permission fd is left in a worker's queue, in its defer
\* array or in its hands, although events may be handed over until admission
\* is closed.
DrainedAtExit ==
    m_pc = "done" =>
        \A w \in Worker : queue[w] = <<>> /\ defer[w] = <<>> /\ w_event[w] = NoEvent

\* The decision of worker w waits for an open of its own that was never answered.
Stuck(w) == kernel[<<"worker", w>>] = "unanswered"

\* Every access a process waits for is answered or released: in operation, with
\* full queues, and whenever the daemon stops or dies.  The exceptions are those
\* of a write() of a response that failed, which reply_event_write() only counts:
\* that access, and those for a worker whose own open it was.
EveryAccessEnds ==
    \A e \in Event :
        (kernel[e] = "queued") ~>
            \/ kernel[e] \in {"done", "unanswered"}
            \/ e \in Ext /\ Stuck(dispatcher_worker(e))

\* "no join or helper wait may precede this synchronized group close": once told
\* to stop the daemon gets to its exit, whoever is blocked in a watched open, and
\* then nobody waits for it, not even those whose response could not be written.
ShutdownEnds == stop ~> (Exited /\ \A e \in Event : kernel[e] \notin Waiting)

\* reply_event_close_group(): "late worker cleanup cannot write to a reused
\* descriptor".
NoResponseThroughReusedFd == misdirected = {}

=============================================================================
