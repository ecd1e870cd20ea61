----------------------- MODULE DecisionWorkerProofs -----------------------
(* No event is forgotten behind a free slot, a sleeping task has its event in *)
(* one place, and a subject in its startup keeps its slot unless the defer    *)
(* array is full: for any tasks, cache size and defer capacity.               *)
EXTENDS DecisionWorker, SequenceLemmas

\* The events that wait in q, in d or as c, and the tasks that raised them.
HeldOf(q, d, c) == ToSet(q) \cup ToSet(d) \cup ({c} \ {NoEvent})
TasksOf(H) == {e.task : e \in H}
Held == HeldOf(queue, defer, event)

\* Nothing is held twice, and a task has one event.
OncePer(H) == \A a, b \in H : a.task = b.task => a = b
Distinct ==
    /\ NoRepeat(queue) /\ NoRepeat(defer)
    /\ ToSet(queue) \cap ToSet(defer) = {}
    /\ event \notin ToSet(queue) \cup ToSet(defer)
    /\ OncePer(Held)

Running == IF pc = "run" THEN 1 ELSE 0
Counted ==
    /\ IsFiniteSet(Waiting)
    /\ Len(queue) + Len(defer) + Running = Cardinality(Waiting)

\* A parked event waits for a BUILDING slot, except for the slot of the decision
\* under way, which is looked at when the decision is made, and during a scan,
\* which looks at all of them.
Parked ==
    /\ pc = "wait" => \A e \in ToSet(defer) : slots[slot(e)].state = "building"
    /\ pc = "run" /\ ~scanning =>
          \A e \in ToSet(defer) :
              slots[slot(e)].state = "building" \/ slot(e) = slot(event)
    /\ pc = "wait" => ~scanning
    /\ pc = "scan" => scanning

\* A decision that would take a protected slot is made with a full defer array.
Overflow ==
    pc = "run" /\ event_subject_slot_is_blocked(event) => Len(defer) = Capacity

WInv == TypeOK /\ Distinct /\ Counted /\ Parked /\ Overflow

-----------------------------------------------------------------------------
(* Facts about the operators.                                                 *)

QueueType == /\ queue \in Seq(Access) /\ defer \in Seq(Access)
             /\ Len(defer) <= Capacity
SlotsType == /\ slots \in [Slots -> Subject \cup {Empty}]
             /\ stale \subseteq {s \in Slots : slots[s].state = "building"}
CtlType == /\ pc \in {"wait", "run", "scan"} /\ scanning \in BOOLEAN
           /\ event \in Access \cup {NoEvent} /\ (event = NoEvent <=> pc # "run")

LEMMA Types == TypeOK <=> QueueType /\ SlotsType /\ CtlType
BY Zenon DEF TypeOK, QueueType, SlotsType, CtlType

LEMMA NoEventOutside == NoEvent \notin Access
BY WorkerAssumption DEF NoEvent, Access

\* An event's pid and slot.
LEMMA SlotOf ==
    ASSUME NEW e \in Access
    PROVE  pid(e) \in Pids /\ pid(e) \in Nat /\ slot(e) \in Slots
<1>1. e.task \in Tasks
  BY DEF Access
<1>2. pid(e) \in Pids /\ pid(e) \in Nat
  BY <1>1, WorkerAssumption DEF pid, Pids
<1>3. ASSUME NEW n \in Nat PROVE n % cache_size \in 0 .. cache_size - 1
  BY WorkerAssumption
<1> QED BY <1>2, <1>3 DEF slot, event_subject_slot, Slots

\* decision_defer_pop_slot() and decision_defer_pop_if() find an entry of E if
\* the array has one.
LEMMA OldestEntry ==
    ASSUME defer \in Seq(Access), NEW E, NEW e \in ToSet(defer), e \in E
    PROVE  oldest_entry(E) \in DOMAIN defer /\ defer[oldest_entry(E)] \in E
<1>1. PICK i \in DOMAIN defer : defer[i] = e
  BY DEF ToSet
<1>2. \E k \in DOMAIN defer : defer[k] \in E /\ \A j \in 1 .. k - 1 : defer[j] \notin E
  BY <1>1, FirstIn
<1> QED BY <1>2 DEF oldest_entry

\* The tasks that sleep are those of the held events.
LEMMA WaitingOf ==
    ASSUME NEW q \in Seq(Access), NEW d \in Seq(Access), NEW c \in Access \cup {NoEvent}
    PROVE  /\ {e.task : e \in ToSet(q) \cup ToSet(d) \cup {c}} \ {NoEvent.task}
                 = TasksOf(HeldOf(q, d, c))
           /\ HeldOf(q, d, c) \subseteq Access
<1>1. ToSet(q) \subseteq Access /\ ToSet(d) \subseteq Access
  BY SeqBasics
<1>2. \A e \in Access : e.task # "none"
  BY WorkerAssumption DEF Access
<1>3. NoEvent.task = "none"
  BY DEF NoEvent
<1>5. HeldOf(q, d, c) \subseteq Access
  BY <1>1 DEF HeldOf
<1>6. CASE c = NoEvent
  BY <1>1, <1>2, <1>3, <1>6 DEF TasksOf, HeldOf
<1>7. CASE c # NoEvent
  BY <1>1, <1>2, <1>3, <1>7 DEF TasksOf, HeldOf
<1> QED BY <1>5, <1>6, <1>7

LEMMA WaitingHeld ==
    ASSUME QueueType, CtlType
    PROVE  Waiting = TasksOf(Held) /\ Held \subseteq Access
BY WaitingOf DEF QueueType, CtlType, Waiting, Held

LEMMA WaitingHeldNext ==
    ASSUME QueueType', CtlType'
    PROVE  Waiting' = TasksOf(Held') /\ Held' \subseteq Access
BY WaitingOf DEF QueueType, CtlType, Waiting, Held

-----------------------------------------------------------------------------
(* The events a worker holds.                                                 *)

\* A step that hands events on without adding or answering one.
LEMMA HeldMoves ==
    ASSUME QueueType, CtlType, QueueType', CtlType', Distinct, Counted, Held' = Held,
           Len(queue') + Len(defer') + Running' = Len(queue) + Len(defer) + Running
    PROVE  OncePer(Held)' /\ Counted'
<1>1. Waiting = TasksOf(Held)
  BY WaitingHeld
<1>2. Waiting' = TasksOf(Held')
  BY WaitingHeldNext
<1>3. Waiting' = Waiting
  BY <1>1, <1>2
<1> QED BY <1>3 DEF Counted, Distinct, OncePer

\* Answering the event at hand.
LEMMA HeldAnswered ==
    ASSUME QueueType, CtlType, QueueType', CtlType', Distinct, Counted,
           event \in Held, Held' = Held \ {event},
           Len(queue') + Len(defer') + Running' = Len(queue) + Len(defer) + Running - 1
    PROVE  OncePer(Held)' /\ Counted'
<1>1. Waiting = TasksOf(Held)
  BY WaitingHeld
<1>2. Waiting' = TasksOf(Held')
  BY WaitingHeldNext
<1>3. OncePer(Held)
  BY DEF Distinct
<1>4. Waiting' = Waiting \ {event.task} /\ event.task \in Waiting
  BY <1>1, <1>2, <1>3 DEF TasksOf, OncePer
<1>5. IsFiniteSet(Waiting') /\ Cardinality(Waiting') = Cardinality(Waiting) - 1
  BY <1>4, FS_RemoveElement, Zenon DEF Counted
<1>6. OncePer(Held')
  BY <1>3 DEF OncePer
<1>7. Cardinality(Waiting) \in Nat
  BY FS_CardinalityType DEF Counted
<1>8. Len(queue) + Len(defer) + Running = Cardinality(Waiting)
  BY DEF Counted
<1>9. (Len(queue) + Len(defer) + Running = Cardinality(Waiting))'
  <2>1. Len(queue) \in Nat /\ Len(defer) \in Nat /\ Running \in Nat
    BY DEF QueueType, Running
  <2> QED BY <1>5, <1>7, <1>8, <2>1
<1> QED BY <1>5, <1>6, <1>9 DEF Counted

\* The dispatcher hands over the event of a task that was running.
LEMMA ArriveHeld ==
    ASSUME QueueType, CtlType, Distinct, Counted, NEW e \in Access, Arrive(e)
    PROVE  QueueType' /\ CtlType' /\ Distinct' /\ Counted'
<1>1. /\ e.task \notin Waiting /\ queue' = Append(queue, e) /\ defer' = defer
      /\ event' = event /\ pc' = pc /\ scanning' = scanning
  BY DEF Arrive
<1>2. QueueType' /\ CtlType'
  <2>1. CtlType'
    BY <1>1 DEF CtlType
  <2> QED BY <1>1, <2>1, AppendAdds DEF QueueType
<1>3. Waiting = TasksOf(Held) /\ Held \subseteq Access
  BY WaitingHeld
<1>4. Waiting' = TasksOf(Held')
  BY <1>2, WaitingHeldNext
<1>5. e \notin Held
  BY <1>1, <1>3 DEF TasksOf
<1>6. e \notin ToSet(queue) /\ e \notin ToSet(defer) /\ e # event
  BY <1>5, NoEventOutside DEF Held, HeldOf
<1>7. /\ ToSet(queue') = ToSet(queue) \cup {e} /\ NoRepeat(queue')
      /\ Len(queue') = Len(queue) + 1
  <2>1. queue \in Seq(Access) /\ NoRepeat(queue)
    BY DEF QueueType, Distinct
  <2> QED BY <1>1, <1>6, <2>1, AppendAdds
<1>8. Held' = Held \cup {e}
  BY <1>1, <1>7, NoEventOutside DEF Held, HeldOf
<1>9. Waiting' = Waiting \cup {e.task}
  BY <1>3, <1>4, <1>8 DEF TasksOf
<1>10. OncePer(Held')
  BY <1>1, <1>3, <1>8 DEF OncePer, TasksOf, Distinct
<1>11. IsFiniteSet(Waiting') /\ Cardinality(Waiting') = Cardinality(Waiting) + 1
  BY <1>1, <1>9, FS_AddElement, Zenon DEF Counted
<1>12. Cardinality(Waiting) \in Nat
  BY FS_CardinalityType DEF Counted
<1>13. Counted'
  <2>1. Len(queue) \in Nat /\ Len(defer) \in Nat
    BY DEF QueueType
  <2>2. Running' = Running /\ Running \in {0, 1}
    BY <1>1 DEF Running
  <2> QED BY <1>1, <1>7, <1>11, <1>12, <2>1, <2>2 DEF Counted
<1>14. Distinct'
  BY <1>1, <1>6, <1>7, <1>10 DEF Distinct
<1> QED BY <1>2, <1>13, <1>14

\* The next event of the queue is parked.
LEMMA ParkHeld ==
    ASSUME QueueType, CtlType, Distinct, Counted, DispatchPark
    PROVE  QueueType' /\ CtlType' /\ Distinct' /\ Counted'
<1> DEFINE e == Head(queue)
           q == Tail(queue)
           d == Append(defer, e)
<1>1. /\ queue # <<>> /\ defer' = d /\ queue' = q /\ Len(defer) < Capacity
      /\ event' = event /\ pc' = pc /\ scanning' = scanning
  BY DEF DispatchPark
<1>2. queue \in Seq(Access) /\ NoRepeat(queue) /\ defer \in Seq(Access) /\ NoRepeat(defer)
  BY DEF QueueType, Distinct
<1>3. /\ q \in Seq(Access) /\ Len(q) = Len(queue) - 1 /\ NoRepeat(q)
      /\ ToSet(q) = ToSet(queue) \ {e} /\ e \in ToSet(queue) /\ e \in Access
  BY <1>1, <1>2, TailDrops
<1>4. e \notin ToSet(defer) /\ e # event
  BY <1>3 DEF Distinct
<1> HIDE DEF e, q
<1>5. /\ d \in Seq(Access) /\ Len(d) = Len(defer) + 1 /\ NoRepeat(d)
      /\ ToSet(d) = ToSet(defer) \cup {e}
  BY <1>2, <1>3, <1>4, AppendAdds
<1> HIDE DEF d
<1>6. Len(queue) \in Nat /\ Len(defer) \in Nat /\ Capacity \in Nat /\ Running \in Nat
  BY <1>2, WorkerAssumption DEF Running
<1>7. QueueType' /\ CtlType'
  <2>1. Len(d) <= Capacity
    BY <1>1, <1>5, <1>6
  <2>2. CtlType'
    BY <1>1 DEF CtlType
  <2> QED BY <1>1, <1>3, <1>5, <2>1, <2>2 DEF QueueType
<1>8. Held' = Held
  BY <1>1, <1>3, <1>5 DEF Held, HeldOf
<1>9. Len(queue') + Len(defer') + Running' = Len(queue) + Len(defer) + Running
  BY <1>1, <1>3, <1>5, <1>6 DEF Running
<1>10. OncePer(Held)' /\ Counted'
  BY <1>7, <1>8, <1>9, HeldMoves
<1>11. Distinct'
  BY <1>1, <1>3, <1>4, <1>5, <1>10 DEF Distinct
<1> QED BY <1>7, <1>10, <1>11

\* The next event of the queue is decided.
LEMMA TakeHeld ==
    ASSUME QueueType, CtlType, Distinct, Counted, DispatchRun
    PROVE  QueueType' /\ CtlType' /\ Distinct' /\ Counted' /\ event' \in Access
<1> DEFINE e == Head(queue)
           q == Tail(queue)
<1>1. /\ queue # <<>> /\ defer' = defer /\ queue' = q /\ event' = e
      /\ pc = "wait" /\ pc' = "run" /\ scanning' = scanning
  BY DEF DispatchRun
<1>2. queue \in Seq(Access) /\ NoRepeat(queue) /\ defer \in Seq(Access) /\ NoRepeat(defer)
  BY DEF QueueType, Distinct
<1>3. /\ q \in Seq(Access) /\ Len(q) = Len(queue) - 1 /\ NoRepeat(q)
      /\ ToSet(q) = ToSet(queue) \ {e} /\ e \in ToSet(queue) /\ e \in Access
  BY <1>1, <1>2, TailDrops
<1>4. e \notin ToSet(defer) /\ e # NoEvent /\ event = NoEvent
  BY <1>1, <1>3, NoEventOutside DEF Distinct, CtlType
<1> HIDE DEF e, q
<1>6. Len(queue) \in Nat /\ Len(defer) \in Nat /\ Running = 0 /\ Running' = 1
  BY <1>1, <1>2 DEF Running
<1>7. QueueType' /\ CtlType'
  <2>2. CtlType'
    BY <1>1, <1>3, <1>4 DEF CtlType
  <2> QED BY <1>1, <1>3, <2>2 DEF QueueType
<1>8. Held' = Held
  BY <1>1, <1>3, <1>4 DEF Held, HeldOf
<1>9. Len(queue') + Len(defer') + Running' = Len(queue) + Len(defer) + Running
  BY <1>1, <1>3, <1>6
<1>10. OncePer(Held)' /\ Counted'
  BY <1>7, <1>8, <1>9, HeldMoves
<1>11. Distinct'
  BY <1>1, <1>3, <1>4, <1>10 DEF Distinct
<1> QED BY <1>1, <1>3, <1>7, <1>10, <1>11

\* A scan, or the slot that a decision completed, takes entry i of the array.
Unpark(i) ==
    /\ event' = defer[i] /\ defer' = RemoveAt(defer, i)
    /\ pc' = "run" /\ queue' = queue /\ scanning' = scanning

LEMMA UnparkHeld ==
    ASSUME QueueType, CtlType, Distinct, Counted, NEW i \in DOMAIN defer, Unpark(i)
    PROVE  QueueType' /\ CtlType' /\ Distinct' /\ Counted'
<1> DEFINE e == defer[i]
           d == RemoveAt(defer, i)
<1>1. /\ defer' = d /\ queue' = queue /\ event' = e /\ pc' = "run"
      /\ scanning' = scanning
  BY DEF Unpark
<1>2. queue \in Seq(Access) /\ NoRepeat(queue) /\ defer \in Seq(Access) /\ NoRepeat(defer)
  BY DEF QueueType, Distinct
<1>3. /\ d \in Seq(Access) /\ Len(d) = Len(defer) - 1 /\ NoRepeat(d)
      /\ ToSet(d) = ToSet(defer) \ {e} /\ e \in ToSet(defer) /\ e \in Access
  BY <1>2, RemoveAtDrops
<1>4. e \notin ToSet(queue) /\ e # NoEvent /\ e # event
  BY <1>3, NoEventOutside DEF Distinct
<1> HIDE DEF e, d
<1>5. event \notin ToSet(queue) \cup ToSet(defer) /\ ToSet(queue) \cap ToSet(defer) = {}
  BY DEF Distinct
<1>6. Len(queue) \in Nat /\ Len(defer) \in Nat /\ Running' = 1
  BY <1>1, <1>2 DEF Running
<1>7. QueueType' /\ CtlType'
  <2>1. Len(d) <= Capacity
    BY <1>3, <1>6, WorkerAssumption DEF QueueType
  <2>2. CtlType'
    BY <1>1, <1>3, <1>4 DEF CtlType
  <2> QED BY <1>1, <1>2, <1>3, <2>1, <2>2 DEF QueueType
<1>8. OncePer(Held)' /\ Counted'
  <2>1. CASE event = NoEvent
    <3>1. Held' = Held
      BY <1>1, <1>3, <1>4, <2>1 DEF Held, HeldOf
    <3>2. Running = 0
      BY <2>1 DEF Running, CtlType
    <3>3. Len(queue') + Len(defer') + Running' = Len(queue) + Len(defer) + Running
      BY <1>1, <1>3, <1>6, <3>2
    <3> QED BY <1>7, <3>1, <3>3, HeldMoves
  <2>2. CASE event # NoEvent
    <3>1. Held' = Held \ {event} /\ event \in Held
      BY <1>1, <1>3, <1>4, <1>5, <2>2 DEF Held, HeldOf
    <3>2. Running = 1
      BY <2>2 DEF Running, CtlType
    <3>3. Len(queue') + Len(defer') + Running' = Len(queue) + Len(defer) + Running - 1
      BY <1>1, <1>3, <1>6, <3>2
    <3> QED BY <1>7, <3>1, <3>3, HeldAnswered
  <2> QED BY <2>1, <2>2
<1>9. Distinct'
  BY <1>1, <1>2, <1>3, <1>4, <1>5, <1>8 DEF Distinct
<1> QED BY <1>7, <1>8, <1>9

\* The decision on event is made and the slots become t: either an event parked
\* for the completed slot is next, or the worker goes back.
LEMMA DecisionCases ==
    ASSUME QueueType, CtlType, pc = "run", NEW t, AfterDecision(t, slot(event)),
           queue' = queue
    PROVE  \/ /\ event_subject_slot_is_unblocked(t, slot(event))
              /\ \E i \in DOMAIN defer :
                    slot(defer[i]) = slot(event) /\ Unpark(i)
           \/ /\ ~event_subject_slot_is_unblocked(t, slot(event))
                 \/ \A e \in ToSet(defer) : slot(e) # slot(event)
              /\ event' = NoEvent /\ pc' = (IF scanning THEN "scan" ELSE "wait")
              /\ defer' = defer /\ scanning' = scanning
<1> DEFINE s == slot(event)
           k == oldest_entry(ParkedFor(s))
<1>1. CASE event_subject_slot_is_unblocked(t, s) /\ ParkedFor(s) # {}
  <2>1. PICK e \in ToSet(defer) : e \in ParkedFor(s)
    BY <1>1 DEF ParkedFor
  <2>2. k \in DOMAIN defer /\ defer[k] \in ParkedFor(s)
    BY <2>1, OldestEntry DEF QueueType
  <2>3. slot(defer[k]) = s
    BY <2>2 DEF ParkedFor
  <2>4. Unpark(k)
    BY <1>1 DEF AfterDecision, Unpark
  <2> QED BY <1>1, <2>2, <2>3, <2>4
<1>2. CASE ~(event_subject_slot_is_unblocked(t, s) /\ ParkedFor(s) # {})
  <2>1. /\ event' = NoEvent /\ pc' = (IF scanning THEN "scan" ELSE "wait")
        /\ defer' = defer /\ scanning' = scanning
    BY <1>2 DEF AfterDecision
  <2>2. ParkedFor(s) = {} => \A e \in ToSet(defer) : slot(e) # s
    BY DEF ParkedFor
  <2> QED BY <1>2, <2>1, <2>2
<1> QED BY <1>1, <1>2

LEMMA RunHeld ==
    ASSUME QueueType, CtlType, Distinct, Counted, Run
    PROVE  QueueType' /\ CtlType' /\ Distinct' /\ Counted'
<1>1. pc = "run" /\ queue' = queue /\ AfterDecision(slots', slot(event))
  BY DEF Run
<1>2. CASE \E i \in DOMAIN defer : Unpark(i)
  BY <1>2, UnparkHeld
<1>3. CASE /\ event' = NoEvent /\ pc' = (IF scanning THEN "scan" ELSE "wait")
           /\ defer' = defer /\ scanning' = scanning
  <2>1. event \in Access /\ event # NoEvent
    BY <1>1 DEF CtlType
  <2>2. pc' # "run" /\ pc' \in {"wait", "scan"}
    BY <1>3
  <2>3. QueueType' /\ CtlType'
    BY <1>1, <1>3, <2>2 DEF QueueType, CtlType
  <2>4. event \notin ToSet(queue) \cup ToSet(defer)
    BY DEF Distinct
  <2>5. Held' = Held \ {event} /\ event \in Held
    BY <1>1, <1>3, <2>1, <2>4 DEF Held, HeldOf
  <2>6. Len(queue) \in Nat /\ Len(defer) \in Nat /\ Running = 1 /\ Running' = 0
    BY <1>1, <2>2 DEF QueueType, Running
  <2>7. Len(queue') + Len(defer') + Running' = Len(queue) + Len(defer) + Running - 1
    BY <1>1, <1>3, <2>6
  <2>8. OncePer(Held)' /\ Counted'
    BY <2>3, <2>5, <2>7, HeldAnswered
  <2>9. NoEvent \notin ToSet(queue) \cup ToSet(defer)
    BY SeqBasics, NoEventOutside DEF QueueType
  <2> QED BY <1>1, <1>3, <2>3, <2>8, <2>9 DEF Distinct
<1> QED BY <1>1, <1>2, <1>3, DecisionCases

\* Steps that leave the worker's events alone.
LEMMA SameHeld ==
    ASSUME QueueType, CtlType, Distinct, Counted, queue' = queue, defer' = defer,
           event' = event, pc' = pc \/ (pc # "run" /\ pc' \in {"wait", "scan"}),
           scanning' \in BOOLEAN
    PROVE  QueueType' /\ CtlType' /\ Distinct' /\ Counted'
<1>1. QueueType' /\ CtlType'
  BY DEF QueueType, CtlType
<1>2. Held' = Held /\ Running' = Running
  BY DEF Held, HeldOf, Running
<1>3. OncePer(Held)' /\ Counted'
  BY <1>1, <1>2, HeldMoves
<1> QED BY <1>1, <1>3 DEF Distinct

LEMMA HeldStep ==
    ASSUME QueueType, CtlType, Distinct, Counted, [Next]_vars
    PROVE  QueueType' /\ CtlType' /\ Distinct' /\ Counted'
<1>0. scanning \in BOOLEAN
  BY DEF CtlType
<1>1. CASE \E e \in Access : Arrive(e)
  BY <1>1, ArriveHeld
<1>2. CASE \E s \in Slots : Age(s)
  BY <1>0, <1>2, SameHeld DEF Age
<1>3. CASE DispatchPark
  BY <1>3, ParkHeld
<1>4. CASE DispatchRun
  BY <1>4, TakeHeld
<1>5. CASE Run
  BY <1>5, RunHeld
<1>6. CASE Timeout \/ ScanDone
  BY <1>6, SameHeld, Zenon DEF Timeout, ScanDone
<1>7. CASE ScanPop
  <2> DEFINE ready == {e \in ToSet(defer) : Ready(e)}
             k == oldest_entry(ready)
  <2>1. PICK e \in ToSet(defer) : e \in ready
    BY <1>7 DEF ScanPop
  <2>2. k \in DOMAIN defer
    BY <2>1, OldestEntry, Zenon DEF QueueType
  <2>3. Unpark(k)
    BY <1>7 DEF ScanPop, Unpark
  <2> QED BY <2>2, <2>3, UnparkHeld
<1>8. CASE UNCHANGED vars
  BY <1>0, <1>8, SameHeld DEF vars
<1> QED BY <1>1, <1>2, <1>3, <1>4, <1>5, <1>6, <1>7, <1>8 DEF Next, Work

-----------------------------------------------------------------------------
(* The subject slots.                                                         *)

\* Only traced or stale occupants are evicted.
LEMMA Evicts ==
    ASSUME SlotsType, NEW S, S \subseteq stale, evict_building_subject(S)
    PROVE  /\ SlotsType'
           /\ \A s \in Slots : slots'[s] = IF s \in S THEN Empty ELSE slots[s]
<1>1. /\ slots' = [s \in Slots |-> IF s \in S THEN Empty ELSE slots[s]]
      /\ stale' = stale \ S
  BY DEF evict_building_subject
<1>2. slots' \in [Slots -> Subject \cup {Empty}]
  BY <1>1 DEF SlotsType
<1>3. \A s \in Slots \ S : slots'[s] = slots[s]
  BY <1>1
<1>4. stale' \subseteq {s \in Slots : slots'[s].state = "building"}
  BY <1>1, <1>3 DEF SlotsType
<1> QED BY <1>1, <1>2, <1>4 DEF SlotsType

\* What a decision can leave in its slot.
LEMMA NewOccupant ==
    ASSUME SlotsType, NEW e \in Access, NEW o \in new_event(e)
    PROVE  /\ o \in Subject \cup {Empty}
           /\ o = slots[slot(e)] \/ o = Empty \/ o.pid = pid(e)
<1>1. slot(e) \in Slots /\ pid(e) \in Pids
  BY SlotOf
<1>2. slots[slot(e)] \in Subject \cup {Empty}
  BY <1>1 DEF SlotsType
<1>3. \A st \in {"building", "full"} : [pid |-> pid(e), state |-> st] \in Subject
  BY <1>1 DEF Subject
<1>4. \/ o = slots[slot(e)] \/ o = Empty
      \/ o = [pid |-> pid(e), state |-> "full"]
      \/ o = [pid |-> pid(e), state |-> "building"]
  BY DEF new_event
<1> QED BY <1>2, <1>3, <1>4

LEMMA RunSlots ==
    ASSUME SlotsType, CtlType, Run
    PROVE  /\ SlotsType' /\ event \in Access /\ slot(event) \in Slots
           /\ \A s \in Slots \ {slot(event)} : slots'[s] = slots[s]
           /\ \/ slots'[slot(event)] = slots[slot(event)]
              \/ slots'[slot(event)] = Empty
              \/ slots'[slot(event)].pid = pid(event)
<1>1. event \in Access /\ slot(event) \in Slots
  BY SlotOf DEF Run, CtlType
<1>2. PICK o \in new_event(event) :
          slots' = [slots EXCEPT ![slot(event)] = o] /\ stale' = StillStale(event, o)
  BY Zenon DEF Run
<1>3. o \in Subject \cup {Empty} /\ (o = slots[slot(event)] \/ o = Empty \/ o.pid = pid(event))
  BY <1>1, NewOccupant
<1>4. /\ slots' \in [Slots -> Subject \cup {Empty}] /\ slots'[slot(event)] = o
      /\ \A s \in Slots \ {slot(event)} : slots'[s] = slots[s]
  BY <1>1, <1>2, <1>3 DEF SlotsType
<1>5. stale' \subseteq {s \in Slots : slots'[s].state = "building"}
  <2>1. CASE o = slots[slot(event)] /\ o.state = "building"
    <3>1. stale' = stale
      BY <1>2, <2>1 DEF StillStale
    <3> QED BY <1>4, <2>1, <3>1 DEF SlotsType
  <2>2. CASE ~(o = slots[slot(event)] /\ o.state = "building")
    <3>1. stale' = stale \ {slot(event)}
      BY <1>2, <2>2 DEF StillStale
    <3> QED BY <1>4, <3>1 DEF SlotsType
  <2> QED BY <2>1, <2>2
<1> QED BY <1>1, <1>3, <1>4, <1>5 DEF SlotsType

\* What the eviction on behalf of the events E does.
LEMMA EvictedSlots ==
    ASSUME NEW E
    PROVE  /\ EvictedBy(E) \subseteq stale
           /\ \A s \in EvictedBy(E) : \E e \in E : s = slot(e)
           /\ \A e \in E : Contested(e) /\ slot(e) \in stale => slot(e) \in EvictedBy(E)
BY DEF EvictedBy

LEMMA SlotsStep ==
    ASSUME SlotsType, CtlType, [Next]_vars
    PROVE  SlotsType'
<1>1. CASE slots' = slots /\ stale' = stale
  BY <1>1 DEF SlotsType
<1>2. CASE \E e \in Access : Arrive(e)
  BY <1>1, <1>2 DEF Arrive
<1>3. CASE \E s \in Slots : Age(s)
  <2>1. PICK s \in Slots : Age(s)
    BY <1>3
  <2> QED BY <2>1 DEF Age, SlotsType
<1>4. CASE DispatchPark \/ Timeout \/ ScanDone \/ UNCHANGED vars
  BY <1>1, <1>4 DEF DispatchPark, Timeout, ScanDone, vars
<1>5. CASE DispatchRun
  <2>1. evict_building_subject(EvictedBy({Head(queue)}))
    BY <1>5 DEF DispatchRun
  <2> QED BY <2>1, Evicts, EvictedSlots
<1>6. CASE Run
  BY <1>6, RunSlots
<1>7. CASE ScanPop
  <2>1. evict_building_subject(EvictedBy(ToSet(defer)))
    BY <1>7 DEF ScanPop
  <2> QED BY <2>1, Evicts, EvictedSlots
<1> QED BY <1>2, <1>3, <1>4, <1>5, <1>6, <1>7 DEF Next, Work

LEMMA ParkedStep ==
    ASSUME QueueType, SlotsType, CtlType, SlotsType', Parked, [Next]_vars
    PROVE  Parked'
<1> USE DEF Parked
<1>0. \A e \in ToSet(defer) : e \in Access /\ slot(e) \in Slots
  BY SeqBasics, SlotOf DEF QueueType
<1>1. CASE /\ defer' = defer /\ slots' = slots /\ event' = event /\ pc' = pc
           /\ scanning' = scanning
  BY <1>1
<1>2. CASE \E e \in Access : Arrive(e)
  BY <1>1, <1>2 DEF Arrive
<1>3. CASE \E s \in Slots : Age(s)
  BY <1>1, <1>3 DEF Age
<1>4. CASE DispatchPark
  <2>1. queue \in Seq(Access) /\ queue # <<>> /\ defer \in Seq(Access)
    BY <1>4 DEF DispatchPark, QueueType
  <2>2. Head(queue) \in Access
    BY <2>1, TailDrops
  <2>3. ToSet(Append(defer, Head(queue))) = ToSet(defer) \cup {Head(queue)}
    BY <2>1, <2>2, AppendAdds
  <2>4. /\ defer' = Append(defer, Head(queue)) /\ slots' = slots /\ pc = "wait"
        /\ pc' = pc /\ scanning' = scanning
    BY <1>4 DEF DispatchPark
  <2>5. slots[slot(Head(queue))].state = "building"
    BY <1>4 DEF DispatchPark, event_subject_slot_is_blocked, Contested
  <2>6. ToSet(defer') = ToSet(defer) \cup {Head(queue)}
    BY <2>3, <2>4
  <2> QED BY <2>4, <2>5, <2>6
<1>5. CASE DispatchRun
  <2> DEFINE S == EvictedBy({Head(queue)})
  <2>1. /\ evict_building_subject(S) /\ event' = Head(queue) /\ defer' = defer
        /\ pc = "wait" /\ pc' = "run" /\ scanning' = scanning
    BY <1>5 DEF DispatchRun
  <2>2. S \subseteq stale /\ \A s \in S : s = slot(event')
    BY <2>1, EvictedSlots
  <2> HIDE DEF S
  <2>3. \A s \in Slots \ S : slots'[s] = slots[s]
    BY <2>1, <2>2, Evicts
  <2>4. \A e \in ToSet(defer) : slots'[slot(e)].state = "building" \/ slot(e) = slot(event')
    BY <1>0, <2>1, <2>2, <2>3
  <2> QED BY <2>1, <2>4
<1>6. CASE Run
  <2> DEFINE s == slot(event)
  <2>1. /\ pc = "run" /\ queue' = queue /\ AfterDecision(slots', s) /\ s \in Slots
        /\ \A r \in Slots \ {s} : slots'[r] = slots[r]
    BY <1>6, RunSlots, Zenon DEF Run
  <2>2. slots'[s].state \in {"building", "full"}
    <3>1. slots'[s] \in Subject \cup {Empty}
      BY <2>1 DEF SlotsType
    <3> QED BY <3>1 DEF Subject, Empty
  <2>3. ~scanning => \A e \in ToSet(defer) : slots'[slot(e)].state = "building" \/ slot(e) = s
    BY <1>0, <2>1
  <2>4. ASSUME NEW i \in DOMAIN defer, slot(defer[i]) = s, Unpark(i)
        PROVE  Parked'
    <3>1. ToSet(defer') \subseteq ToSet(defer)
      BY <2>4, RemoveAtDrops DEF Unpark, QueueType
    <3>2. event' = defer[i] /\ pc' = "run" /\ scanning' = scanning
      BY <2>4 DEF Unpark
    <3> QED BY <2>3, <2>4, <3>1, <3>2
  <2>5. ASSUME \/ ~event_subject_slot_is_unblocked(slots', s)
               \/ \A e \in ToSet(defer) : slot(e) # s,
               pc' = (IF scanning THEN "scan" ELSE "wait"),
               defer' = defer, scanning' = scanning
        PROVE  Parked'
    <3>1. ~scanning => \A e \in ToSet(defer) : slots'[slot(e)].state = "building"
      BY <2>2, <2>3, <2>5 DEF event_subject_slot_is_unblocked
    <3>2. CASE scanning
      BY <2>5, <3>2
    <3>3. CASE ~scanning
      BY <2>5, <3>1, <3>3
    <3> QED BY <3>2, <3>3
  <2> QED BY <2>1, <2>4, <2>5, DecisionCases
<1>7. CASE Timeout
  BY <1>7 DEF Timeout
<1>8. CASE ScanPop
  BY <1>8 DEF ScanPop
<1>9. CASE ScanDone
  BY <1>9 DEF ScanDone, Ready, event_subject_slot_is_blocked, Contested
<1>10. CASE UNCHANGED vars
  BY <1>1, <1>10 DEF vars
<1> QED BY <1>2, <1>3, <1>4, <1>5, <1>6, <1>7, <1>8, <1>9, <1>10 DEF Next, Work

LEMMA OverflowStep ==
    ASSUME QueueType, SlotsType, CtlType, Overflow, [Next]_vars
    PROVE  Overflow'
<1> USE DEF Overflow, event_subject_slot_is_blocked, Contested
<1>1. CASE /\ defer' = defer /\ slots' = slots /\ event' = event /\ pc' = pc
           /\ stale \subseteq stale'
  BY <1>1
<1>2. CASE \E e \in Access : Arrive(e)
  BY <1>1, <1>2 DEF Arrive
<1>3. CASE \E s \in Slots : Age(s)
  BY <1>1, <1>3 DEF Age
<1>4. CASE DispatchPark \/ Timeout \/ ScanDone
  BY <1>4 DEF DispatchPark, Timeout, ScanDone
<1>5. CASE DispatchRun
  <2> DEFINE S == EvictedBy({Head(queue)})
             e == Head(queue)
  <2>1. /\ evict_building_subject(S) /\ event' = e /\ defer' = defer
        /\ ~event_subject_slot_is_blocked(e) \/ Len(defer) = Capacity
    BY <1>5 DEF DispatchRun
  <2>2. e \in Access /\ slot(e) \in Slots
    BY <1>5, TailDrops, SlotOf DEF DispatchRun, QueueType
  <2>3. S \subseteq stale /\ (Contested(e) /\ slot(e) \in stale => slot(e) \in S)
    BY EvictedSlots
  <2> HIDE DEF S, e
  <2>4. slots'[slot(e)] = IF slot(e) \in S THEN Empty ELSE slots[slot(e)]
    BY <2>1, <2>2, <2>3, Evicts
  <2>5. stale' = stale \ S
    BY <2>1 DEF evict_building_subject
  <2> QED BY <2>1, <2>3, <2>4, <2>5 DEF Empty
<1>6. CASE Run
  <2>1. pc = "run" /\ queue' = queue /\ AfterDecision(slots', slot(event))
    BY <1>6 DEF Run
  <2>2. ASSUME NEW i \in DOMAIN defer, slot(defer[i]) = slot(event), Unpark(i),
               event_subject_slot_is_unblocked(slots', slot(event))
        PROVE  Overflow'
    BY <2>2 DEF event_subject_slot_is_unblocked, Unpark
  <2> QED BY <2>1, <2>2, DecisionCases
<1>7. CASE ScanPop
  <2> DEFINE S == EvictedBy(ToSet(defer))
             ready == {f \in ToSet(defer) : Ready(f)}
             e == defer[oldest_entry(ready)]
  <2>1. evict_building_subject(S) /\ event' = e
    BY <1>7 DEF ScanPop
  <2>2. e \in ready
    <3>1. PICK f \in ToSet(defer) : f \in ready
      BY <1>7 DEF ScanPop
    <3> QED BY <3>1, OldestEntry, Zenon DEF QueueType
  <2>3. e \in ToSet(defer) /\ Ready(e)
    BY <2>2
  <2> HIDE DEF e, ready
  <2>4. e \in Access /\ slot(e) \in Slots
    BY <2>3, SeqBasics, SlotOf DEF QueueType
  <2>5. S \subseteq stale /\ (Contested(e) /\ slot(e) \in stale => slot(e) \in S)
    BY <2>3, EvictedSlots
  <2> HIDE DEF S
  <2>6. slots'[slot(e)] = IF slot(e) \in S THEN Empty ELSE slots[slot(e)]
    BY <2>1, <2>4, <2>5, Evicts
  <2>7. stale' = stale \ S
    BY <2>1 DEF evict_building_subject
  <2> QED BY <2>1, <2>3, <2>5, <2>6, <2>7 DEF Empty, Ready
<1>8. CASE UNCHANGED vars
  BY <1>1, <1>8 DEF vars
<1> QED BY <1>2, <1>3, <1>4, <1>5, <1>6, <1>7, <1>8 DEF Next, Work

-----------------------------------------------------------------------------
(* The theorems.                                                              *)

LEMMA InitWInv == Init => WInv
<1> SUFFICES ASSUME Init PROVE WInv
  OBVIOUS
<1>1. <<>> \in Seq(Access) /\ Len(<<>>) = 0
  OBVIOUS
<1>2. QueueType /\ SlotsType /\ CtlType
  <2>1. QueueType
    BY <1>1, WorkerAssumption DEF Init, QueueType
  <2>2. SlotsType
    BY DEF Init, SlotsType
  <2>3. CtlType
    BY Zenon DEF Init, CtlType
  <2> QED BY <2>1, <2>2, <2>3
<1>3. Held = {}
  BY EmptyBasics DEF Init, Held, HeldOf
<1>4. Waiting = {}
  BY <1>2, <1>3, WaitingHeld DEF TasksOf
<1>5. Counted
  BY <1>1, <1>4, FS_EmptySet DEF Init, Counted, Running
<1>6. Distinct
  BY <1>3, EmptyBasics DEF Init, Distinct, OncePer
<1>7. Parked /\ Overflow
  BY EmptyBasics DEF Init, Parked, Overflow
<1> QED BY <1>2, <1>5, <1>6, <1>7, Types DEF WInv

LEMMA NextWInv == WInv /\ [Next]_vars => WInv'
<1> SUFFICES ASSUME WInv, [Next]_vars PROVE WInv'
  OBVIOUS
<1>1. QueueType /\ SlotsType /\ CtlType /\ Distinct /\ Counted /\ Parked /\ Overflow
  BY Types DEF WInv
<1>2. QueueType' /\ CtlType' /\ Distinct' /\ Counted'
  BY <1>1, HeldStep
<1>3. SlotsType'
  BY <1>1, SlotsStep
<1>4. Parked'
  BY <1>1, <1>3, ParkedStep
<1>5. Overflow'
  BY <1>1, OverflowStep
<1>6. TypeOK'
  BY <1>2, <1>3, Zenon DEF TypeOK, QueueType, SlotsType, CtlType
<1> QED BY <1>2, <1>4, <1>5, <1>6 DEF WInv

\* What dispatch_decision_event(), release_ready_deferred_events() and the
\* subject slots keep between them.
THEOREM Worker_Invariant == Spec => []WInv
<1> QED BY InitWInv, NextWInv, PTL DEF Spec

\* The release chain, which looks only at the slot of the last decision, and the
\* scan leave no event parked behind a free slot, and no event is lost or held
\* twice on the way through queue, defer array and decision.
THEOREM Worker_ParkedBehindBuilding == Spec => []ParkedBehindBuilding
<1>1. WInv => ParkedBehindBuilding
  BY DEF WInv, Parked, Counted, Running, ParkedBehindBuilding
<1> QED BY <1>1, Worker_Invariant, PTL

\* A protected subject loses its slot to another process only when the defer
\* array was full, however decisions, evictions and scans follow one another.
THEOREM Worker_StartupProtected == Spec => StartupProtected
<1> DEFINE Keeps(s) ==
        slots[s].state = "building" /\ s \notin stale
        /\ slots'[s].pid \in Pids \ {slots[s].pid} => Len(defer) = Capacity
<1>1. ASSUME WInv, [Next]_vars, NEW s \in Slots PROVE Keeps(s)
  <2>0. QueueType /\ SlotsType /\ CtlType /\ Overflow
    BY <1>1, Types DEF WInv
  <2>1. Empty.pid \notin Pids
    BY WorkerAssumption DEF Empty, Pids
  <2>2. CASE slots'[s] = slots[s] \/ slots'[s] = Empty
    BY <2>1, <2>2
  <2>3. ASSUME NEW S, S \subseteq stale, evict_building_subject(S) PROVE Keeps(s)
    BY <2>0, <2>2, <2>3, Evicts
  <2>4. CASE DispatchRun \/ ScanPop
    BY <2>3, <2>4, EvictedSlots DEF DispatchRun, ScanPop
  <2>5. CASE Run
    <3>1. CASE s # slot(event)
      BY <2>0, <2>2, <2>5, <3>1, RunSlots
    <3>2. CASE s = slot(event) /\ slots'[s].pid = pid(event)
      BY <2>0, <2>5, <3>2 DEF Run, Overflow, event_subject_slot_is_blocked, Contested
    <3> QED BY <2>0, <2>2, <2>5, <3>1, <3>2, RunSlots
  <2>6. CASE slots' = slots
    BY <2>2, <2>6
  <2>7. CASE \/ \E e \in Access : Arrive(e)
             \/ \E r \in Slots : Age(r)
             \/ DispatchPark \/ Timeout \/ ScanDone \/ UNCHANGED vars
    BY <2>6, <2>7 DEF Arrive, Age, DispatchPark, Timeout, ScanDone, vars
  <2> QED BY <1>1, <2>4, <2>5, <2>7 DEF Next, Work
<1>2. WInv /\ [Next]_vars => [\A s \in Slots : Keeps(s)]_vars
  BY <1>1
<1> QED BY <1>2, Worker_Invariant, PTL DEF Spec, StartupProtected

=============================================================================
