--------------------------- MODULE DecisionWorker ---------------------------
(* One decision worker: daemon/decision-worker.c dispatch_decision_event()    *)
(* and release_ready_deferred_events(), the defer array of                    *)
(* library/decision-defer.c, and the subject cache slots of library/event.c   *)
(* that decide whether an event may be processed or has to wait.              *)
(*                                                                            *)
(* A task (thread) of a monitored process raises one access at a time and     *)
(* sleeps until it is answered, so an event is the record of its task and of  *)
(* the kind of access.  The tasks of one process share its pid.  A subject is *)
(* "building" in the states before STATE_FULL and "full" from there on; what  *)
(* the pattern detection makes of an event is a free choice between the two.  *)
EXTENDS Integers, Sequences, FiniteSets, SequencesExt

CONSTANTS
    Tasks,
    PidOf,          \* the pid of a task
    cache_size,     \* slots of the subject cache
    Capacity        \* entries of the defer array

ASSUME WorkerAssumption ==
    /\ PidOf \in [Tasks -> Nat] /\ "none" \notin Tasks
    /\ cache_size \in Nat \ {0} /\ Capacity \in Nat \ {0}

VARIABLES
    queue,          \* events handed over by the dispatcher
    defer,          \* the defer array, oldest first
    slots,          \* subject cache: who occupies each slot, in which state
    stale,          \* slots whose BUILDING occupant is traced, gone or too old
    pc,             \* "wait", "run", or "scan" of the defer array
    event,          \* the event being decided
    scanning        \* the decision belongs to release_ready_deferred_events()

vars == <<queue, defer, slots, stale, pc, event, scanning>>

Pids == {PidOf[t] : t \in Tasks}
Slots == 0 .. cache_size - 1
Access == [task : Tasks, kind : {"exec", "open"}]
Subject == [pid : Pids, state : {"building", "full"}]
Empty == [pid |-> -1, state |-> "full"]
NoEvent == [task |-> "none", kind |-> "none"]

pid(e) == PidOf[e.task]

\* compute_subject_key()
event_subject_slot(p) == p % cache_size
slot(e) == event_subject_slot(pid(e))

Init ==
    /\ queue = <<>> /\ defer = <<>>
    /\ slots = [s \in Slots |-> Empty] /\ stale = {}
    /\ pc = "wait" /\ event = NoEvent /\ scanning = FALSE

\* The tasks that wait for an answer.
Waiting ==
    {e.task : e \in ToSet(queue) \cup ToSet(defer) \cup {event}} \ {NoEvent.task}

-----------------------------------------------------------------------------
Arrive(e) ==
    /\ e.task \notin Waiting
    /\ queue' = Append(queue, e)
    /\ UNCHANGED <<defer, slots, stale, pc, event, scanning>>

\* The occupant is attached to by a tracer, exits, has its pid reused, or has
\* been BUILDING for SUBJECT_BUILDING_STALE_NS.
Age(s) ==
    /\ slots[s].state = "building" /\ s \notin stale
    /\ stale' = stale \cup {s}
    /\ UNCHANGED <<queue, defer, slots, pc, event, scanning>>

-----------------------------------------------------------------------------
(* event_subject_slot_is_blocked() evicts the occupant as a side effect when  *)
(* the occupant is traced or stale, and blocks otherwise.                     *)

Contested(e) == slots[slot(e)].state = "building" /\ slots[slot(e)].pid # pid(e)

\* Mutant: the staleness test is inverted.
event_subject_slot_is_blocked_Inverted(e) == Contested(e) /\ slot(e) \in stale

event_subject_slot_is_blocked(e) == Contested(e) /\ slot(e) \notin stale
EvictedBy(E) == {slot(e) : e \in {f \in E : Contested(f)}} \cap stale

\* event_subject_slot_is_unblocked(), on the slots after the decision.
event_subject_slot_is_unblocked(table, s) == table[s].state = "full"

evict_building_subject(S) ==
    /\ slots' = [s \in Slots |-> IF s \in S THEN Empty ELSE slots[s]]
    /\ stale' = stale \ S

\* dispatch_decision_event() up to its loop, for an event from the queue.
DispatchPark ==
    /\ pc = "wait" /\ queue # <<>>
    /\ event_subject_slot_is_blocked(Head(queue)) /\ Len(defer) < Capacity
    /\ defer' = Append(defer, Head(queue))
    /\ queue' = Tail(queue)
    /\ UNCHANGED <<slots, stale, pc, event, scanning>>

\* The slot is not blocked, or decision_defer_push() fails and the event is
\* processed at once: new_event() then evicts the occupant.
DispatchRun ==
    /\ pc = "wait" /\ queue # <<>>
    /\ ~event_subject_slot_is_blocked(Head(queue)) \/ Len(defer) = Capacity
    /\ event' = Head(queue)
    /\ queue' = Tail(queue)
    /\ evict_building_subject(EvictedBy({Head(queue)}))
    /\ pc' = "run"
    /\ UNCHANGED <<defer, scanning>>

\* new_event() and the rules leave the event's slot in one of these states.  A
\* process first seen in an open is not watched for its startup pattern; an
\* execute starts the pattern; the process of the occupant may go either way.
\* A failure leaves the slot as it was (the process is gone), or empty.
new_event(e) ==
    LET old == slots[slot(e)]
        new(state) == [pid |-> pid(e), state |-> state]
    IN  {old, Empty, new("full")}
        \cup IF e.kind = "exec" \/ (old.pid = pid(e) /\ old.state = "building")
             THEN {new("building")} ELSE {}

\* BUILDING starts over when the occupant is replaced: its age with it.
StillStale(e, occupant) ==
    IF occupant = slots[slot(e)] /\ occupant.state = "building"
    THEN stale ELSE stale \ {slot(e)}

\* The position of the oldest entry among those in E.
oldest_entry(E) ==
    CHOOSE i \in DOMAIN defer :
        defer[i] \in E /\ \A j \in 1 .. i - 1 : defer[j] \notin E

\* What decision_defer_pop_slot() chooses from.
ParkedFor(s) == {e \in ToSet(defer) : slot(e) = s}

\* Mutant: the completed slot releases nothing.
AfterDecision_NoRelease(table, s) ==
    /\ event' = NoEvent
    /\ pc' = IF scanning THEN "scan" ELSE "wait"
    /\ UNCHANGED <<defer, scanning>>

AfterDecision(table, s) ==
    IF event_subject_slot_is_unblocked(table, s) /\ ParkedFor(s) # {}
    THEN /\ event' = defer[oldest_entry(ParkedFor(s))]
         /\ defer' = RemoveAt(defer, oldest_entry(ParkedFor(s)))
         /\ UNCHANGED <<pc, scanning>>
    ELSE /\ event' = NoEvent
         /\ pc' = IF scanning THEN "scan" ELSE "wait"
         /\ UNCHANGED <<defer, scanning>>

\* run_decision_event() answers the event; the slot it completed, if any,
\* releases the oldest event that waits for it.
Run ==
    /\ pc = "run"
    /\ \E occupant \in new_event(event) :
          /\ slots' = [slots EXCEPT ![slot(event)] = occupant]
          /\ stale' = StillStale(event, occupant)
          /\ AfterDecision(slots', slot(event))
    /\ UNCHANGED queue

\* The timed dequeue of a worker with parked events ran into its timeout.
Timeout ==
    /\ pc = "wait" /\ queue = <<>> /\ defer # <<>>
    /\ pc' = "scan" /\ scanning' = TRUE
    /\ UNCHANGED <<queue, defer, slots, stale, event>>

\* Mutant: the scan waits for the slot's owner, however stale.
Ready_Never(e) == ~Contested(e)

\* decision_defer_pop_if(): every entry is tested, which evicts stale occupants;
\* the oldest entry that is ready is dispatched.
Ready(e) == ~event_subject_slot_is_blocked(e)

ScanPop ==
    /\ pc = "scan"
    /\ LET ready == {e \in ToSet(defer) : Ready(e)} IN
       /\ ready # {}
       /\ event' = defer[oldest_entry(ready)]
       /\ defer' = RemoveAt(defer, oldest_entry(ready))
    /\ evict_building_subject(EvictedBy(ToSet(defer)))
    /\ pc' = "run"
    /\ UNCHANGED <<queue, scanning>>

ScanDone ==
    /\ pc = "scan" /\ \A e \in ToSet(defer) : ~Ready(e)
    /\ pc' = "wait" /\ scanning' = FALSE
    /\ UNCHANGED <<queue, defer, slots, stale, event>>

-----------------------------------------------------------------------------
Work == DispatchPark \/ DispatchRun \/ Run \/ ScanPop \/ ScanDone

Next ==
    \/ \E e \in Access : Arrive(e)
    \/ \E s \in Slots : Age(s)
    \/ Work \/ Timeout

Spec == Init /\ [][Next]_vars

\* The worker is scheduled; a BUILDING subject gets old; and a wait on a queue
\* that stays empty runs into its timeout.  A timeout is not owed to a worker
\* whose queue is never empty for a second, hence no strong fairness.
Fairness ==
    /\ WF_vars(Work) /\ WF_vars(Timeout)
    /\ \A s \in Slots : WF_vars(Age(s))

FairSpec == Spec /\ Fairness

-----------------------------------------------------------------------------
TypeOK ==
    /\ queue \in Seq(Access) /\ defer \in Seq(Access)
    /\ Len(defer) <= Capacity
    /\ slots \in [Slots -> Subject \cup {Empty}]
    /\ stale \subseteq {s \in Slots : slots[s].state = "building"}
    /\ pc \in {"wait", "run", "scan"} /\ scanning \in BOOLEAN
    /\ event \in Access \cup {NoEvent} /\ (event = NoEvent <=> pc # "run")

\* A worker that goes back to its queue leaves nothing parked behind a slot that
\* is free: the release chain of dispatch_decision_event(), which only looks at
\* the slot of the last decision, and the evictions made while the defer array
\* is scanned miss no event, and a sleeping task has its event in exactly one place.
ParkedBehindBuilding ==
    /\ pc = "wait" => \A e \in ToSet(defer) : slots[slot(e)].state = "building"
    /\ Len(queue) + Len(defer) + (IF pc = "run" THEN 1 ELSE 0) = Cardinality(Waiting)

\* "would be prematurely evicted by new_event()": a subject whose startup
\* pattern is incomplete, and who is neither traced nor stale, loses its slot to
\* another process only when the defer array was full.
StartupProtected ==
    [][\A s \in Slots :
          slots[s].state = "building" /\ s \notin stale
          /\ slots'[s].pid \in Pids \ {slots[s].pid}
          => Len(defer) = Capacity]_vars

\* When the dispatcher has nothing more for this worker, every parked access is
\* answered, be its slot owner alive, stuck, traced or gone.
ReleasedWhenQuiet ==
    <>[](queue = <<>>) => \A t \in Tasks : t \in Waiting ~> t \notin Waiting

\* release_ready_deferred_events(): "Periodic rechecks keep the 10 second
\* BUILDING stale timeout effective even when no new fanotify event arrives for
\* the same subject slot": a parked access is decided even if, from some time
\* on, all the worker's traffic is for other slots.
PeriodicRecheck ==
    \A t \in Tasks :
        <>[](\A e \in ToSet(queue) : slot(e) # event_subject_slot(PidOf[t]))
            => (t \in Waiting ~> t \notin Waiting)

=============================================================================
