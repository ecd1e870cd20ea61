------------------------------- MODULE Queue -------------------------------
(* library/queue.c: the ring of decision events between the fanotify          *)
(* dispatcher (the only producer) and one decision worker (the only           *)
(* consumer).  There is no mutex.  Every atomic operation of the code is one  *)
(* action, so the interleavings of the producer, the consumer, the threads    *)
(* that nudge the semaphore and a thread that resets the metrics are all      *)
(* explored.  The health monitor, which reads the ring, is WorkerHealth.      *)
(*                                                                            *)
(* An event is its ticket: the n-th accepted event is the number n.  A ring   *)
(* slot therefore stands both for the copied decision_event_t and for its     *)
(* queued_ns time stamp: slot = n means "written by the n-th enqueue".        *)
EXTENDS Integers, Sequences

CONSTANTS
    num_entries,    \* ring size, q_open() refuses 0
    MaxEvents,      \* bound: events the dispatcher hands over
    MaxFull,        \* bound: refusals between two resets of full_count
    MaxNudges       \* bound: posts of the semaphore that carry no event

ASSUME NumEntriesAssumption == num_entries \in Nat \ {0}
ASSUME BoundsAssumption ==
    MaxEvents \in Nat /\ MaxFull \in Nat /\ MaxNudges \in Nat

VARIABLES
    events,         \* the ring; 0 in a slot never written
    q_next,         \* producer index
    q_last,         \* consumer index
    queue_length,
    max_depth,
    full_count,
    sem,            \* value of the semaphore
    p_pc,           \* where the producer stands in q_enqueue()
    p_depth,        \* its local n after the fetch_add of queue_length
    c_pc,           \* where the consumer stands in q_dequeue()
    c_data,         \* the caller's *data
    delivered,      \* the event of the last dequeue that returned 1
    r_pc,           \* where the resetting thread stands
    r_cur,          \* its local current
    r_saved,        \* timing_saved_queue_depth[] of the worker
    sent,           \* history: events accepted so far
    got,            \* history: events taken so far
    nudges          \* history: posts without an event

ring == <<events, q_next, q_last, queue_length, sem>>
producer == <<p_pc, p_depth, sent>>
consumer == <<c_pc, c_data, delivered, got>>
resetter == <<r_pc, r_cur, r_saved>>
vars == <<ring, max_depth, full_count, producer, consumer, resetter, nudges>>

Slots == 0 .. num_entries - 1

\* n++; if (n == q->num_entries) n = 0;
Bump(n) == IF n + 1 = num_entries THEN 0 ELSE n + 1

Init ==
    /\ events = [s \in Slots |-> 0]
    /\ q_next = 0 /\ q_last = 0 /\ queue_length = 0
    /\ max_depth = 0 /\ full_count = 0 /\ sem = 0
    /\ p_pc = "idle" /\ p_depth = 0
    /\ c_pc = "idle" /\ c_data = 0 /\ delivered = 0
    /\ r_pc = "idle" /\ r_cur = 0 /\ r_saved = 0
    /\ sent = 0 /\ got = 0 /\ nudges = 0

-----------------------------------------------------------------------------
(* q_enqueue(), called by the dispatcher under the worker pool lock.          *)

EnqueueFull ==
    /\ p_pc = "idle" /\ sent < MaxEvents /\ full_count < MaxFull
    /\ queue_length = num_entries
    /\ full_count' = full_count + 1
    /\ UNCHANGED <<ring, max_depth, producer, consumer, resetter,
                   nudges>>

\* Mutant: the test for a full ring is dropped.
EnqueueRoom_NoFullTest ==
    /\ p_pc = "idle" /\ sent < MaxEvents
    /\ p_pc' = "write"
    /\ UNCHANGED <<ring, max_depth, full_count, p_depth, sent, consumer,
                   resetter, nudges>>

EnqueueRoom ==
    /\ p_pc = "idle" /\ sent < MaxEvents
    /\ queue_length # num_entries
    /\ p_pc' = "write"
    /\ UNCHANGED <<ring, max_depth, full_count, p_depth, sent, consumer,
                   resetter, nudges>>

EnqueueWrite ==
    /\ p_pc = "write"
    /\ events' = [events EXCEPT ![q_next] = sent + 1]
    /\ p_pc' = "advance"
    /\ UNCHANGED <<q_next, q_last, queue_length, sem, max_depth, full_count,
                   p_depth, sent, consumer, resetter, nudges>>

EnqueueAdvance ==
    /\ p_pc = "advance"
    /\ q_next' = Bump(q_next)
    /\ p_pc' = "count"
    /\ UNCHANGED <<events, q_last, queue_length, sem, max_depth, full_count,
                   p_depth, sent, consumer, resetter, nudges>>

EnqueueCount ==
    /\ p_pc = "count"
    /\ queue_length' = queue_length + 1
    /\ p_depth' = queue_length + 1
    /\ sent' = sent + 1
    /\ p_pc' = "raise"
    /\ UNCHANGED <<events, q_next, q_last, sem, max_depth, full_count,
                   consumer, resetter, nudges>>

\* The compare-and-swap loop on max_depth takes effect in one atomic step: at
\* the successful swap, or at the load that finds max_depth large enough.
RaiseMaxDepth(n) == max_depth' = IF n > max_depth THEN n ELSE max_depth

EnqueueRaise ==
    /\ p_pc = "raise"
    /\ RaiseMaxDepth(p_depth)
    /\ p_pc' = "post"
    /\ UNCHANGED <<ring, full_count, p_depth, sent, consumer, resetter, nudges>>

\* Mutant: only the enqueue that finds the ring empty posts the semaphore.
EnqueuePost_WhenEmpty ==
    /\ p_pc = "post"
    /\ sem' = IF p_depth = 1 THEN sem + 1 ELSE sem
    /\ p_pc' = "idle"
    /\ UNCHANGED <<events, q_next, q_last, queue_length, max_depth,
                   full_count, p_depth, sent, consumer, resetter, nudges>>

EnqueuePost ==
    /\ p_pc = "post"
    /\ sem' = sem + 1
    /\ p_pc' = "idle"
    /\ UNCHANGED <<events, q_next, q_last, queue_length, max_depth,
                   full_count, p_depth, sent, consumer, resetter,
                   nudges>>

-----------------------------------------------------------------------------
(* q_dequeue() and q_timed_dequeue().  A timeout of sem_timedwait() returns 0 *)
(* with the queue untouched and is a stuttering step.                         *)

DequeueWait ==
    /\ c_pc = "idle" /\ sem > 0
    /\ sem' = sem - 1
    /\ c_pc' = "check"
    /\ UNCHANGED <<events, q_next, q_last, queue_length, max_depth,
                   full_count, producer, c_data, delivered, got, resetter, nudges>>

DequeueEmpty ==
    /\ c_pc = "check" /\ queue_length = 0
    /\ c_pc' = "idle"
    /\ UNCHANGED <<ring, max_depth, full_count, producer, c_data, delivered,
                   got, resetter, nudges>>

\* Mutant: a token is taken for an event, nudges are forgotten.
DequeueRead_NoDepthTest ==
    /\ c_pc = "check"
    /\ c_data' = events[q_last]
    /\ c_pc' = "advance"
    /\ UNCHANGED <<ring, max_depth, full_count, producer, delivered, got,
                   resetter, nudges>>

DequeueRead ==
    /\ c_pc = "check" /\ queue_length # 0
    /\ c_data' = events[q_last]
    /\ c_pc' = "advance"
    /\ UNCHANGED <<ring, max_depth, full_count, producer, delivered, got,
                   resetter, nudges>>

DequeueAdvance ==
    /\ c_pc = "advance"
    /\ q_last' = Bump(q_last)
    /\ c_pc' = "count"
    /\ UNCHANGED <<events, q_next, queue_length, sem, max_depth, full_count,
                   producer, c_data, delivered, got, resetter,
                   nudges>>

DequeueCount ==
    /\ c_pc = "count"
    /\ queue_length' = queue_length - 1
    /\ delivered' = c_data
    /\ got' = got + 1
    /\ c_pc' = "idle"
    /\ UNCHANGED <<events, q_next, q_last, sem, max_depth, full_count,
                   producer, c_data, resetter, nudges>>

-----------------------------------------------------------------------------
\* q_shutdown(): the nudge of signal handlers, health monitor and shutdown.
Nudge ==
    /\ nudges < MaxNudges
    /\ nudges' = nudges + 1
    /\ sem' = sem + 1
    /\ UNCHANGED <<events, q_next, q_last, queue_length, max_depth,
                   full_count, producer, consumer, resetter>>

-----------------------------------------------------------------------------
(* q_metrics_snapshot_reset() with reset set (a metrics report) and           *)
(* q_max_depth_snapshot_reset() (the start of a timing run) differ in what    *)
(* they exchange; both reload the depth and raise max_depth to it.            *)

ResetLoad ==
    /\ r_pc = "idle"
    /\ r_cur' = queue_length
    /\ r_pc' = "exchange"
    /\ UNCHANGED <<ring, max_depth, full_count, producer, consumer, r_saved, nudges>>

ResetExchangeMetrics ==
    /\ r_pc = "exchange"
    /\ max_depth' = r_cur
    /\ r_pc' = "full"
    /\ UNCHANGED <<ring, full_count, producer, consumer, r_cur, r_saved, nudges>>

ResetExchangeTiming ==
    /\ r_pc = "exchange"
    /\ max_depth' = r_cur
    /\ r_saved' = max_depth
    /\ r_pc' = "reload"
    /\ UNCHANGED <<ring, full_count, producer, consumer, r_cur,
                   nudges>>

ResetFull ==
    /\ r_pc = "full"
    /\ full_count' = 0
    /\ r_pc' = "reload"
    /\ UNCHANGED <<ring, max_depth, producer, consumer, r_cur, r_saved, nudges>>

\* Mutant: the reset trusts the depth it loaded before the exchange.
ResetReload_Skipped ==
    /\ r_pc = "reload"
    /\ r_pc' = "idle"
    /\ UNCHANGED <<ring, max_depth, full_count, producer, consumer, r_cur, r_saved,
                   nudges>>

ResetReload ==
    /\ r_pc = "reload"
    /\ r_cur' = queue_length
    /\ r_pc' = "raise"
    /\ UNCHANGED <<ring, max_depth, full_count, producer, consumer, r_saved, nudges>>

ResetRaise ==
    /\ r_pc = "raise"
    /\ RaiseMaxDepth(r_cur)
    /\ r_pc' = "idle"
    /\ UNCHANGED <<ring, full_count, producer, consumer, r_cur, r_saved, nudges>>

\* q_max_depth_snapshot_restore() at the end of a timing run.
Restore ==
    /\ r_pc = "idle" /\ r_saved # 0
    /\ RaiseMaxDepth(r_saved)
    /\ r_saved' = 0
    /\ UNCHANGED <<ring, full_count, producer, consumer, r_pc, r_cur,
                   nudges>>

-----------------------------------------------------------------------------
Enqueue ==
    EnqueueFull \/ EnqueueRoom \/ EnqueueWrite \/ EnqueueAdvance
    \/ EnqueueCount \/ EnqueueRaise \/ EnqueuePost

Dequeue ==
    DequeueWait \/ DequeueEmpty \/ DequeueRead \/ DequeueAdvance
    \/ DequeueCount

Reset ==
    ResetLoad \/ ResetExchangeMetrics \/ ResetExchangeTiming \/ ResetFull
    \/ ResetReload \/ ResetRaise \/ Restore

Next == Enqueue \/ Dequeue \/ Nudge \/ Reset

Spec == Init /\ [][Next]_vars

\* The dispatcher is never blocked inside q_enqueue() and the worker calls
\* q_dequeue() again after each event; resets need not happen.
Fairness ==
    /\ WF_vars(EnqueueWrite) /\ WF_vars(EnqueueAdvance)
    /\ WF_vars(EnqueueCount) /\ WF_vars(EnqueueRaise) /\ WF_vars(EnqueuePost)
    /\ WF_vars(Dequeue)

FairSpec == Spec /\ Fairness

-----------------------------------------------------------------------------
TypeOK ==
    /\ events \in [Slots -> Nat]
    /\ q_next \in Slots /\ q_last \in Slots
    /\ queue_length \in 0 .. num_entries
    /\ max_depth \in 0 .. num_entries
    /\ full_count \in 0 .. MaxFull
    /\ sem \in Nat
    /\ p_pc \in {"idle", "write", "advance", "count", "raise", "post"}
    /\ p_depth \in 0 .. num_entries
    /\ c_pc \in {"idle", "check", "advance", "count"}
    /\ c_data \in Nat /\ delivered \in Nat
    /\ r_pc \in {"idle", "exchange", "full", "reload", "raise"}
    /\ r_cur \in 0 .. num_entries /\ r_saved \in 0 .. num_entries
    /\ sent \in 0 .. MaxEvents /\ got \in 0 .. MaxEvents
    /\ nudges \in 0 .. MaxNudges

\* The n-th dequeue that succeeds hands over the n-th accepted event: nothing
\* is lost, repeated, reordered or overwritten in the ring, although producer
\* and consumer share no lock and a nudge may let the consumer in between the
\* producer's increment of queue_length and its sem_post().
DeliveredInOrder == delivered = got

\* Whenever no enqueue is in flight and the consumer is about to wait, every
\* queued event has a semaphore token of its own.  No event can be stranded
\* behind a sleeping worker, and the shutdown drain, which calls q_dequeue()
\* while queue_length > 0, never blocks.
TokensCoverQueue ==
    p_pc \notin {"raise", "post"} /\ c_pc = "idle" => sem >= queue_length

\* "the next report never claims a max lower than the number of events already
\* queued" (q_metrics_snapshot_reset()): once neither an enqueue nor a reset is
\* half way through its update, max_depth is at least the live depth.
MaxDepthCoversDepth ==
    p_pc # "raise" /\ r_pc \notin {"full", "reload", "raise"}
        => max_depth >= queue_length

\* Every accepted event reaches the worker.
EventuallyDelivered ==
    \A n \in 1 .. MaxEvents : (sent >= n) ~> (got >= n)

-----------------------------------------------------------------------------
(* The ring implements a bounded FIFO.  An event enters it when queue_length  *)
(* is incremented and leaves it when queue_length is decremented; until then  *)
(* the slot just read still counts, although q_last has moved on.             *)

Back(n) == IF n = 0 THEN num_entries - 1 ELSE n - 1
First == IF c_pc = "count" THEN Back(q_last) ELSE q_last
Wrap(n) == IF n >= num_entries THEN n - num_entries ELSE n
Window(ev, f, n) == [i \in 1 .. n |-> ev[Wrap(f + i - 1)]]
Contents == Window(events, First, queue_length)

BQ == INSTANCE BoundedQueue
        WITH Event <- 1 .. MaxEvents, Capacity <- num_entries,
             queue <- Contents, out <- delivered

\* library/queue.c is a bounded FIFO for its callers.
ImplementsBoundedQueue == BQ!Spec

=============================================================================
