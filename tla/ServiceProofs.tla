---------------------------- MODULE ServiceProofs ----------------------------
(* What serves the decision workers, for any number of workers, threads,      *)
(* events and messages and any ring size: the queue of a worker delivers in   *)
(* order and loses no token (Queue), the health monitor kills the daemon for  *)
(* a stalled worker and only for one (WorkerHealth), no message of the log    *)
(* disappears (Logger), and a timing run gives the queues their high-water    *)
(* marks back (DecisionTiming).                                               *)
EXTENDS Queue, SequenceTheorems, FiniteSetTheorems, TLAPS

-----------------------------------------------------------------------------
(* The queue of a worker (library/queue.c).                                   *)

\* An enqueue has chosen its slot and not yet published it.
Filling == p_pc \in {"write", "advance", "count"}

\* The ring holds the accepted events in order from First on; the slot after
\* them is the one an enqueue in flight fills; and a dequeue in flight works
\* on the first of them.
RingInv ==
    /\ queue_length = sent - got
    /\ Filling => queue_length < num_entries /\ sent < MaxEvents
    /\ q_next = IF p_pc = "count" THEN Bump(Wrap(First + queue_length))
                ELSE Wrap(First + queue_length)
    /\ p_pc \in {"advance", "count"}
           => events[Wrap(First + queue_length)] = sent + 1
    /\ \A i \in 0 .. queue_length - 1 : events[Wrap(First + i)] = got + 1 + i
    /\ c_pc \in {"advance", "count"} => queue_length > 0 /\ c_data = got + 1
    /\ delivered = got

\* Tokens about to be posted, and the token the consumer has taken.
Posting == IF p_pc \in {"raise", "post"} THEN 1 ELSE 0
Holding == IF c_pc # "idle" THEN 1 ELSE 0

TokenInv == sem + Posting + Holding >= queue_length

\* Whoever has lowered max_depth or raised queue_length still has to repair
\* max_depth.
DepthInv ==
    /\ p_pc = "raise" => p_depth >= queue_length
    /\ \/ max_depth >= queue_length
       \/ p_pc = "raise"
       \/ r_pc \in {"full", "reload"}
       \/ r_pc = "raise" /\ r_cur >= queue_length

-----------------------------------------------------------------------------
(* Arithmetic of the ring indices.                                            *)

\* Stepping an index keeps it in the ring, and Back undoes Bump.
LEMMA BumpBack ==
    ASSUME NEW n \in Slots
    PROVE  /\ Bump(n) \in Slots /\ Back(n) \in Slots
           /\ Back(Bump(n)) = n /\ Bump(Back(n)) = n
BY NumEntriesAssumption DEF Slots, Bump, Back

\* An offset of at most one lap wraps to a slot.
LEMMA WrapSlot ==
    ASSUME NEW f \in Slots, NEW i \in 0 .. num_entries
    PROVE  Wrap(f + i) \in Slots
BY NumEntriesAssumption DEF Slots, Wrap

\* Moving the origin of the ring by one slot moves every offset by one.
LEMMA WrapShift ==
    ASSUME NEW f \in Slots, NEW i \in 0 .. num_entries - 1
    PROVE  /\ Wrap(Bump(f) + i) = Wrap(f + (i + 1))
           /\ Bump(Wrap(f + i)) = Wrap(f + (i + 1))
BY NumEntriesAssumption DEF Slots, Wrap, Bump

\* Within one lap, different offsets are different slots.
LEMMA WrapInjective ==
    ASSUME NEW f \in Slots, NEW i \in 0 .. num_entries - 1,
           NEW j \in 0 .. num_entries - 1, Wrap(f + i) = Wrap(f + j)
    PROVE  i = j
BY NumEntriesAssumption DEF Slots, Wrap

\* The oldest slot is a slot.
LEMMA FirstSlot ==
    ASSUME q_last \in Slots
    PROVE  First \in Slots
BY BumpBack DEF First

-----------------------------------------------------------------------------
\* Type correctness and the contents of the ring are inductive together.
LEMMA RingInductive ==
    ASSUME TypeOK, RingInv, [Next]_vars
    PROVE  TypeOK' /\ RingInv'
<1> USE NumEntriesAssumption, BoundsAssumption
<1>f. First \in Slots
  BY FirstSlot DEF TypeOK
<1>1. CASE EnqueueFull
  BY <1>1 DEF EnqueueFull, TypeOK, RingInv, Filling, First, ring, producer,
              consumer, resetter
<1>2. CASE EnqueueRoom
  BY <1>2 DEF EnqueueRoom, TypeOK, RingInv, Filling, First, ring, producer,
              consumer, resetter
<1>3. CASE EnqueueWrite
  <2> USE <1>3 DEF EnqueueWrite, consumer, resetter
  <2>1. q_next = Wrap(First + queue_length)
    BY DEF RingInv
  <2>2. First' = First
    BY DEF First
  <2>3. TypeOK'
    BY DEF TypeOK, RingInv, Filling
  <2>4. events'[Wrap(First + queue_length)] = sent + 1
    BY <2>1 DEF TypeOK
  <2>5. \A i \in 0 .. queue_length - 1 : events'[Wrap(First + i)] = got + 1 + i
    <3> SUFFICES ASSUME NEW i \in 0 .. queue_length - 1
                 PROVE  events'[Wrap(First + i)] = got + 1 + i
      OBVIOUS
    <3>1. queue_length \in 0 .. num_entries - 1 /\ i \in 0 .. num_entries - 1
      BY DEF RingInv, Filling, TypeOK
    <3>2. Wrap(First + i) # q_next
      BY <1>f, <2>1, <3>1, WrapInjective DEF TypeOK
    <3>3. events'[Wrap(First + i)] = events[Wrap(First + i)]
      BY <1>f, <3>1, <3>2, WrapSlot DEF TypeOK
    <3> QED BY <3>3 DEF RingInv
  <2> QED
    BY <2>1, <2>2, <2>3, <2>4, <2>5 DEF RingInv, Filling
<1>4. CASE EnqueueAdvance
  <2> USE <1>4 DEF EnqueueAdvance, consumer, resetter
  <2>1. First' = First
    BY DEF First
  <2>2. TypeOK'
    BY BumpBack DEF TypeOK
  <2> QED
    BY <2>1, <2>2 DEF RingInv, Filling
<1>5. CASE EnqueueCount
  <2> USE <1>5 DEF EnqueueCount, consumer, resetter
  <2>1. First' = First
    BY DEF First
  <2>2. queue_length \in 0 .. num_entries - 1
    BY DEF TypeOK, RingInv, Filling
  <2>3. TypeOK'
    BY <2>2 DEF TypeOK, RingInv, Filling
  <2>4. q_next = Wrap(First + (queue_length + 1))
    BY <1>f, <2>2, WrapShift DEF RingInv
  <2>5. \A i \in 0 .. queue_length : events[Wrap(First + i)] = got + 1 + i
    BY <2>2 DEF RingInv, TypeOK
  <2> QED
    BY <2>1, <2>2, <2>3, <2>4, <2>5 DEF RingInv, Filling, TypeOK
<1>6. CASE EnqueueRaise
  BY <1>6 DEF EnqueueRaise, RaiseMaxDepth, TypeOK, RingInv, Filling, First,
              ring, consumer, resetter
<1>7. CASE EnqueuePost
  BY <1>7 DEF EnqueuePost, TypeOK, RingInv, Filling, First, consumer, resetter
<1>8. CASE DequeueWait
  BY <1>8 DEF DequeueWait, TypeOK, RingInv, Filling, First, producer, resetter
<1>9. CASE DequeueEmpty
  BY <1>9 DEF DequeueEmpty, TypeOK, RingInv, Filling, First, ring, producer,
              resetter
<1>10. CASE DequeueRead
  <2> USE <1>10 DEF DequeueRead, ring, producer, resetter
  <2>1. First = q_last /\ First' = First
    BY DEF First
  <2>2. 0 \in 0 .. queue_length - 1 /\ Wrap(First + 0) = q_last
    BY <2>1 DEF TypeOK, Wrap, Slots
  <2>3. events[q_last] = got + 1
    BY <2>2 DEF RingInv, TypeOK
  <2>4. TypeOK'
    BY <2>3 DEF TypeOK
  <2> QED
    BY <2>1, <2>2, <2>3, <2>4 DEF RingInv, Filling, TypeOK
<1>11. CASE DequeueAdvance
  <2> USE <1>11 DEF DequeueAdvance, producer, resetter
  <2>1. First' = First
    BY BumpBack DEF First, TypeOK
  <2>2. TypeOK'
    BY BumpBack DEF TypeOK
  <2> QED
    BY <2>1, <2>2 DEF RingInv, Filling
<1>12. CASE DequeueCount
  <2> USE <1>12 DEF DequeueCount, producer, resetter
  <2>1. First' = Bump(First)
    BY BumpBack DEF First, TypeOK
  <2>2. queue_length \in 1 .. num_entries /\ c_data = got + 1
    BY DEF RingInv, TypeOK
  <2>3. TypeOK'
    BY <2>2 DEF TypeOK, RingInv
  <2>4. Wrap(First' + queue_length') = Wrap(First + queue_length)
    BY <1>f, <2>1, <2>2, WrapShift
  <2>5. \A i \in 0 .. queue_length' - 1 :
            events'[Wrap(First' + i)] = got' + 1 + i
    <3> SUFFICES ASSUME NEW i \in 0 .. queue_length' - 1
                 PROVE  events'[Wrap(First' + i)] = got' + 1 + i
      OBVIOUS
    <3>1. i + 1 \in 0 .. queue_length - 1 /\ i \in 0 .. num_entries - 1
      BY <2>2
    <3>2. Wrap(First' + i) = Wrap(First + (i + 1))
      BY <1>f, <2>1, <3>1, WrapShift
    <3>3. events[Wrap(First + (i + 1))] = got + 1 + (i + 1)
      BY <3>1 DEF RingInv
    <3> QED BY <3>2, <3>3 DEF TypeOK
  <2> QED
    BY <2>2, <2>3, <2>4, <2>5 DEF RingInv, Filling, TypeOK
<1>13. CASE Nudge
  BY <1>13 DEF Nudge, TypeOK, RingInv, Filling, First, producer, consumer,
               resetter
<1>14. CASE Reset
  BY <1>14 DEF Reset, ResetLoad, ResetExchangeMetrics, ResetExchangeTiming,
               ResetFull, ResetReload, ResetRaise, Restore, RaiseMaxDepth,
               TypeOK, RingInv, Filling, First, ring, producer, consumer
<1>15. CASE UNCHANGED vars
  BY <1>15 DEF vars, TypeOK, RingInv, Filling, First, ring, producer,
               consumer, resetter
<1> QED
  BY <1>1, <1>2, <1>3, <1>4, <1>5, <1>6, <1>7, <1>8, <1>9, <1>10, <1>11,
     <1>12, <1>13, <1>14, <1>15 DEF Next, Enqueue, Dequeue

\* Type correctness and the ring invariant, as one always-true fact.
LEMMA RingAlways == Spec => [](TypeOK /\ RingInv)
<1>1. Init => TypeOK /\ RingInv
  BY NumEntriesAssumption, BoundsAssumption
     DEF Init, TypeOK, RingInv, Filling, First, Wrap, Slots
<1>2. TypeOK /\ RingInv /\ [Next]_vars => (TypeOK /\ RingInv)'
  BY RingInductive
<1> QED BY <1>1, <1>2, PTL DEF Spec

\* The ring is well-typed for ever, and the n-th dequeue that succeeds returns
\* the n-th event q_enqueue() accepted, for every ring size.
THEOREM QueueDeliversInOrder == Spec => [](TypeOK /\ DeliveredInOrder)
<1>1. RingInv => DeliveredInOrder
  BY DEF RingInv, DeliveredInOrder
<1> QED BY <1>1, RingAlways, PTL

-----------------------------------------------------------------------------
\* No step of any thread takes the semaphore below the events it must cover.
LEMMA TokenInductive ==
    ASSUME TypeOK, TokenInv, [Next]_vars
    PROVE  TokenInv'
<1> USE DEF TypeOK, TokenInv, Posting, Holding
<1>1. CASE Enqueue
  BY <1>1 DEF Enqueue, EnqueueFull, EnqueueRoom, EnqueueWrite, EnqueueAdvance,
              EnqueueCount, EnqueueRaise, EnqueuePost, ring, producer,
              consumer
<1>2. CASE Dequeue
  BY <1>2 DEF Dequeue, DequeueWait, DequeueEmpty, DequeueRead,
              DequeueAdvance, DequeueCount, ring, producer
<1>3. CASE Nudge
  BY <1>3 DEF Nudge, producer, consumer
<1>4. CASE Reset
  BY <1>4 DEF Reset, ResetLoad, ResetExchangeMetrics, ResetExchangeTiming,
              ResetFull, ResetReload, ResetRaise, Restore, ring, producer,
              consumer
<1>5. CASE UNCHANGED vars
  BY <1>5 DEF vars, ring, producer, consumer
<1> QED BY <1>1, <1>2, <1>3, <1>4, <1>5 DEF Next

\* Every queued event has its own semaphore token whenever no enqueue is in
\* flight and the worker is about to wait: no wake-up is lost, for every ring
\* size and every number of nudges.
THEOREM QueueTokensCover == Spec => []TokensCoverQueue
<1>1. Init => TokenInv
  BY DEF Init, TokenInv, Posting, Holding
<1>2. TypeOK /\ TokenInv /\ [Next]_vars => TokenInv'
  BY TokenInductive
<1>3. TypeOK /\ TokenInv => TokensCoverQueue
  BY DEF TypeOK, TokenInv, Posting, Holding, TokensCoverQueue
<1> QED BY <1>1, <1>2, <1>3, RingAlways, PTL DEF Spec

\* A reset racing an enqueue leaves one of the two with the duty to raise
\* max_depth again.
LEMMA DepthInductive ==
    ASSUME TypeOK, DepthInv, [Next]_vars
    PROVE  DepthInv'
<1> USE NumEntriesAssumption DEF TypeOK, DepthInv
<1>1. CASE Enqueue
  BY <1>1 DEF Enqueue, EnqueueFull, EnqueueRoom, EnqueueWrite, EnqueueAdvance,
              EnqueueCount, EnqueueRaise, EnqueuePost, RaiseMaxDepth, ring,
              producer, resetter
<1>2. CASE Dequeue
  BY <1>2 DEF Dequeue, DequeueWait, DequeueEmpty, DequeueRead,
              DequeueAdvance, DequeueCount, ring, producer, resetter
<1>3. CASE Nudge
  BY <1>3 DEF Nudge, producer, resetter
<1>4. CASE Reset
  BY <1>4 DEF Reset, ResetLoad, ResetExchangeMetrics, ResetExchangeTiming,
              ResetFull, ResetReload, ResetRaise, Restore, RaiseMaxDepth,
              ring, producer
<1>5. CASE UNCHANGED vars
  BY <1>5 DEF vars, ring, producer, resetter
<1> QED BY <1>1, <1>2, <1>3, <1>4, <1>5 DEF Next

\* After any metrics reset the reported maximum depth is never below the live
\* depth, whatever enqueues and dequeues raced the reset.
THEOREM QueueMaxDepthCovers == Spec => []MaxDepthCoversDepth
<1>1. Init => DepthInv
  BY DEF Init, DepthInv
<1>2. TypeOK /\ DepthInv /\ [Next]_vars => DepthInv'
  BY DepthInductive
<1>3. DepthInv => MaxDepthCoversDepth
  BY DEF DepthInv, MaxDepthCoversDepth
<1> QED BY <1>1, <1>2, <1>3, RingAlways, PTL DEF Spec

-----------------------------------------------------------------------------
(* The ring implements the bounded FIFO of BoundedQueue.                      *)

\* n consecutive tickets after g.
Run(g, n) == [i \in 1 .. n |-> g + i]

\* Slots that hold consecutive tickets from offset 0 read as a run.
LEMMA SlotsAreRun ==
    ASSUME NEW ev, NEW f \in Slots, NEW n \in 0 .. num_entries, NEW g \in Nat,
           \A i \in 0 .. n - 1 : ev[Wrap(f + i)] = g + 1 + i
    PROVE  Window(ev, f, n) = Run(g, n)
<1> SUFFICES ASSUME NEW i \in 1 .. n
             PROVE  ev[Wrap(f + i - 1)] = g + i
  BY DEF Run, Window
<1>1. i - 1 \in 0 .. n - 1 /\ f + i - 1 = f + (i - 1)
  BY NumEntriesAssumption DEF Slots
<1>2. ev[Wrap(f + (i - 1))] = g + 1 + (i - 1)
  BY <1>1
<1> QED BY <1>1, <1>2

\* A run is a sequence; the next ticket extends it and its first one heads it.
LEMMA RunProperties ==
    ASSUME NEW g \in Nat, NEW n \in Nat
    PROVE  /\ Run(g, n) \in Seq(Nat) /\ Len(Run(g, n)) = n
           /\ Run(g, n + 1) = Append(Run(g, n), g + n + 1)
           /\ n > 0 => /\ Run(g, n) # <<>>
                       /\ Head(Run(g, n)) = g + 1
                       /\ Tail(Run(g, n)) = Run(g + 1, n - 1)
<1>1. ASSUME NEW h \in Nat, NEW m \in Nat
      PROVE  Run(h, m) \in Seq(Nat) /\ Len(Run(h, m)) = m
  BY DEF Run
<1>2. Run(g, n + 1) = Append(Run(g, n), g + n + 1)
  <2> DEFINE a == Append(Run(g, n), g + n + 1)
  <2>1. /\ a \in Seq(Nat) /\ Len(a) = n + 1
        /\ \A i \in 1 .. n : a[i] = Run(g, n)[i]
        /\ a[n + 1] = g + n + 1
    <3>1. Run(g, n) \in Seq(Nat) /\ Len(Run(g, n)) = n /\ g + n + 1 \in Nat
      BY <1>1
    <3>2. /\ a \in Seq(Nat) /\ Len(a) = Len(Run(g, n)) + 1
          /\ \A i \in 1 .. Len(Run(g, n)) : a[i] = Run(g, n)[i]
          /\ a[Len(Run(g, n)) + 1] = g + n + 1
      BY <3>1, AppendProperties
    <3> QED BY <3>1, <3>2
  <2>2. ASSUME NEW i \in 1 .. n + 1
        PROVE  Run(g, n + 1)[i] = a[i]
    <3> HIDE DEF a
    <3> QED BY <2>1 DEF Run
  <2>3. Run(g, n + 1) \in Seq(Nat) /\ Len(Run(g, n + 1)) = n + 1
    BY <1>1
  <2> HIDE DEF a
  <2>4. Run(g, n + 1) = a
    BY <2>1, <2>2, <2>3, SeqEqual
  <2> QED BY <2>4 DEF a
<1>3. ASSUME n > 0
      PROVE  /\ Run(g, n) # <<>> /\ Head(Run(g, n)) = g + 1
             /\ Tail(Run(g, n)) = Run(g + 1, n - 1)
  <2>1. Run(g, n) # <<>>
    BY <1>1, <1>3
  <2>2. Head(Run(g, n)) = g + 1
    BY <1>3 DEF Run
  <2> DEFINE t == Tail(Run(g, n))
  <2>3. /\ t \in Seq(Nat) /\ Len(t) = n - 1
        /\ \A i \in 1 .. n - 1 : t[i] = Run(g, n)[i + 1]
    BY <1>1, <2>1, HeadTailProperties
  <2>4. ASSUME NEW i \in 1 .. n - 1
        PROVE  Run(g + 1, n - 1)[i] = t[i]
    <3> HIDE DEF t
    <3>1. t[i] = Run(g, n)[i + 1]
      BY <2>3
    <3>2. i + 1 \in 1 .. n
      BY <1>3
    <3> QED BY <3>1, <3>2 DEF Run
  <2>5. Run(g + 1, n - 1) \in Seq(Nat) /\ Len(Run(g + 1, n - 1)) = n - 1
    <3>1. g + 1 \in Nat /\ n - 1 \in Nat
      BY <1>3
    <3> QED BY <1>1, <3>1
  <2> HIDE DEF t
  <2>6. Run(g + 1, n - 1) = t
    <3>1. \A i \in 1 .. Len(Run(g + 1, n - 1)) : Run(g + 1, n - 1)[i] = t[i]
      BY <2>4, <2>5
    <3>2. Len(Run(g + 1, n - 1)) = Len(t)
      BY <2>3, <2>5
    <3> QED BY <2>3, <2>5, <3>1, <3>2, SeqEqual
  <2> QED BY <2>1, <2>2, <2>6 DEF t
<1> QED BY <1>1, <1>2, <1>3

\* Every step of the ring is a Put, a Take or no step of the bounded FIFO.
LEMMA RingStepRefines ==
    ASSUME TypeOK, RingInv, TypeOK', RingInv', [Next]_vars
    PROVE  [BQ!Next]_(BQ!vars)
<1>a. Contents = Run(got, queue_length)
  <2>1. First \in Slots
    BY FirstSlot DEF TypeOK
  <2>2. \A i \in 0 .. queue_length - 1 : events[Wrap(First + i)] = got + 1 + i
    BY DEF RingInv
  <2>3. queue_length \in 0 .. num_entries /\ got \in Nat
    BY DEF TypeOK
  <2> QED BY <2>1, <2>2, <2>3, SlotsAreRun DEF Contents
<1>b. Contents' = Run(got', queue_length')
  <2>1. First' \in Slots
    BY BumpBack DEF First, TypeOK
  <2>2. \A i \in 0 .. queue_length' - 1 : events'[Wrap(First' + i)] = got' + 1 + i
    BY DEF RingInv
  <2>3. queue_length' \in 0 .. num_entries /\ got' \in Nat
    BY DEF TypeOK
  <2> QED BY <2>1, <2>2, <2>3, SlotsAreRun DEF Contents
<1>n. got \in Nat /\ queue_length \in Nat
  BY NumEntriesAssumption, BoundsAssumption DEF TypeOK
<1>1. CASE EnqueueCount
  <2>1. sent + 1 \in 1 .. MaxEvents /\ queue_length < num_entries
    BY <1>1, BoundsAssumption DEF EnqueueCount, RingInv, Filling, TypeOK
  <2>2. queue_length' = queue_length + 1 /\ got' = got /\ delivered' = delivered
    BY <1>1 DEF EnqueueCount, consumer
  <2>3. got + queue_length + 1 = sent + 1
    BY <1>n, BoundsAssumption DEF RingInv, TypeOK
  <2>4. Contents' = Append(Contents, sent + 1) /\ Len(Contents) = queue_length
    <3>1. /\ Len(Run(got, queue_length)) = queue_length
          /\ Run(got, queue_length + 1)
                = Append(Run(got, queue_length), got + queue_length + 1)
      BY <1>n, RunProperties
    <3>2. Contents' = Run(got, queue_length + 1)
      BY <1>b, <2>2
    <3> QED BY <1>a, <2>3, <3>1, <3>2
  <2>5. BQ!Put(sent + 1)
    BY <2>1, <2>2, <2>4 DEF BQ!Put
  <2> QED BY <2>1, <2>5 DEF BQ!Next
<1>2. CASE DequeueCount
  <2>1. queue_length > 0 /\ delivered' = got + 1
        /\ queue_length' = queue_length - 1 /\ got' = got + 1
    BY <1>2 DEF DequeueCount, RingInv
  <2>2. /\ Run(got, queue_length) # <<>>
        /\ Head(Run(got, queue_length)) = got + 1
        /\ Tail(Run(got, queue_length)) = Run(got + 1, queue_length - 1)
    BY <1>n, <2>1, RunProperties
  <2>3. Contents' = Run(got + 1, queue_length - 1)
    BY <1>b, <2>1
  <2>4. BQ!Take
    BY <1>a, <2>1, <2>2, <2>3 DEF BQ!Take
  <2> QED BY <2>4 DEF BQ!Next
<1>3. CASE queue_length' = queue_length /\ got' = got /\ delivered' = delivered
  BY <1>a, <1>b, <1>3 DEF BQ!vars
<1>4. ~EnqueueCount /\ ~DequeueCount
      => queue_length' = queue_length /\ got' = got /\ delivered' = delivered
  BY DEF Next, Enqueue, Dequeue, Reset, EnqueueFull, EnqueueRoom,
         EnqueueWrite, EnqueueAdvance, EnqueueRaise, EnqueuePost, DequeueWait,
         DequeueEmpty, DequeueRead, DequeueAdvance, Nudge, ResetLoad,
         ResetExchangeMetrics, ResetExchangeTiming, ResetFull, ResetReload,
         ResetRaise, Restore, vars, ring, consumer
<1> QED BY <1>1, <1>2, <1>3, <1>4

\* library/queue.c implements the bounded FIFO its callers rely on, for every
\* ring size: the lock-free steps map to Put, Take or nothing.
THEOREM QueueImplementsFifo == Spec => ImplementsBoundedQueue
<1>1. Init => BQ!Init
  BY DEF Init, BQ!Init, BQ!NoEvent, Contents, Window
<1>2. (TypeOK /\ RingInv) /\ (TypeOK /\ RingInv)' /\ [Next]_vars
      => [BQ!Next]_(BQ!vars)
  BY RingStepRefines
<1> QED BY <1>1, <1>2, RingAlways, PTL DEF Spec, ImplementsBoundedQueue, BQ!Spec

-----------------------------------------------------------------------------
(* The health monitor (daemon/worker-health.c).                               *)

CONSTANTS Workers, Timeout, BACKLOG, MaxTime

VARIABLES
    now, queued_ns, w_pc, heartbeat_ns,
    current_event_started_ns, m_pc, m_now, view, todo, healthy, pinged, killed, reality

WH == INSTANCE WorkerHealth

\* A ring has a slot, and health_stall_timeout_ns() is not 0.
HealthParameters == num_entries \in Nat \ {0} /\ Timeout \in Nat \ {0}

RingSlots == 0 .. num_entries - 1
Views == [depth : Nat, oldest_age : Nat, heartbeat : Nat]
Readings == [oldest : Nat, empty : BOOLEAN]

HealthTypes ==
    /\ now \in Nat \ {0} /\ m_now \in Nat /\ pinged \in Nat
    /\ queued_ns \in [Workers -> [RingSlots -> Nat]]
    /\ q_next \in [Workers -> RingSlots] /\ q_last \in [Workers -> RingSlots]
    /\ queue_length \in [Workers -> 0 .. num_entries]
    /\ w_pc \in [Workers -> {"wait", "count", "beat", "begin", "decide", "end"}]
    /\ heartbeat_ns \in [Workers -> Nat] /\ current_event_started_ns \in [Workers -> Nat]
    /\ m_pc \in {"sleep", "depth", "stamp", "heartbeat", "judge"} /\ todo \subseteq Workers
    /\ view \in [Workers -> Views] /\ reality \in [Workers -> Readings]

\* The slots between the indices hold the events that wait.  Stamps are from the
\* past, and so is the check that refreshed the watchdog.
RingSound ==
    \A w \in Workers :
        /\ w_pc[w] = "count" => queue_length[w] > 0
        /\ q_next[w] = IF q_last[w] + WH!Waiting(w) < num_entries THEN q_last[w] + WH!Waiting(w)
                       ELSE q_last[w] + WH!Waiting(w) - num_entries
Clocks == m_now <= now /\ pinged <= now

\* A decision begins with a heartbeat, and there is no other until it ends.
Deciding ==
    \A w \in Workers :
        /\ w_pc[w] = "decide" <=> current_event_started_ns[w] # 0
        /\ w_pc[w] = "decide" => current_event_started_ns[w] = heartbeat_ns[w]

\* Seen from time t, worker w has left an event in its ring and made no sign of
\* life for the timeout.  Nothing but time makes a worker stuck: as long as t
\* stays, no step does.
Stuck(w, t) ==
    /\ queue_length[w] > 0 /\ w_pc[w] \notin {"count", "beat"}
    /\ WH!health_age_ns(t, queued_ns[w][q_last[w]]) >= Timeout
    /\ WH!health_age_ns(t, heartbeat_ns[w]) >= Timeout

\* The monitor has read the depth and the stamp of a worker that is stuck.
DepthRead(w) == view[w].depth > 0
StampRead(w) == view[w].depth > 0 /\ view[w].oldest_age >= Timeout
Collected(w) == m_pc \in {"heartbeat", "judge"} \/ (m_pc \in {"depth", "stamp"} /\ w \notin todo)
Judged(w) == m_pc \in {"heartbeat", "judge"} /\ w \notin todo
Watching ==
    \A w \in Workers :
        /\ Stuck(w, m_now) =>
              /\ m_pc = "stamp" /\ WH!Visited(w) => DepthRead(w)
              /\ Collected(w) => StampRead(w)
              /\ m_pc = "judge" /\ WH!Visited(w) => view[w].heartbeat >= Timeout
              /\ ~Judged(w)
        /\ pinged > 0 => ~Stuck(w, pinged)

\* What the monitor takes for the age of the ring is not more than its age, or
\* the ring was empty.
Honest == \A w \in Workers : reality[w].empty \/ view[w].oldest_age <= reality[w].oldest

HealthInv ==
    /\ HealthTypes /\ RingSound /\ Clocks /\ Deciding /\ Honest
    /\ killed = {} => Watching
    /\ WH!KilledOnlyWhenStalled

LEMMA NextSlot ==
    ASSUME HealthParameters, NEW x \in RingSlots
    PROVE  /\ (x + 1) % num_entries = IF x + 1 < num_entries THEN x + 1 ELSE 0
           /\ (x + 1) % num_entries \in RingSlots
<1>1. CASE x + 1 < num_entries
  BY <1>1 DEF HealthParameters, RingSlots
<1>2. CASE x + 1 = num_entries
  <2>1. num_entries % num_entries = 0
    BY DEF HealthParameters
  <2> QED BY <1>2, <2>1 DEF HealthParameters, RingSlots
<1> QED BY <1>1, <1>2 DEF HealthParameters, RingSlots

LEMMA RingArithmetic ==
    ASSUME HealthParameters, NEW last \in RingSlots, NEW k \in 0 .. num_entries,
           NEW nxt, nxt = IF last + k < num_entries THEN last + k ELSE last + k - num_entries
    PROVE  /\ k < num_entries =>
                 (IF nxt + 1 < num_entries THEN nxt + 1 ELSE 0)
                 = IF last + (k + 1) < num_entries THEN last + (k + 1)
                   ELSE last + (k + 1) - num_entries
           /\ k > 0 =>
                 LET l == IF last + 1 < num_entries THEN last + 1 ELSE 0
                 IN  nxt = IF l + (k - 1) < num_entries THEN l + (k - 1)
                           ELSE l + (k - 1) - num_entries
           /\ 0 < k /\ k < num_entries => nxt # last
BY DEF HealthParameters, RingSlots

\* An age grows with the time it is taken at, and nothing stamped later has one.
LEMMA AgeFacts ==
    /\ \A t, s \in Nat : WH!health_age_ns(t, s) \in Nat /\ (t <= s => WH!health_age_ns(t, s) = 0)
    /\ \A t, u, s \in Nat : t <= u => WH!health_age_ns(t, s) <= WH!health_age_ns(u, s)
BY DEF WH!health_age_ns

LEMMA OneVisited ==
    /\ \A w : WH!Visited(w) => w \in todo
    /\ \A v, w : WH!Visited(v) /\ WH!Visited(w) => v = w
BY Zenon DEF WH!Visited

\* A worker that is not stuck is not after a step that leaves the monitor alone.
LEMMA WatchingKept ==
    ASSUME HealthTypes, Watching, UNCHANGED WH!monitor,
           \A v \in Workers : /\ Stuck(v, m_now)' => Stuck(v, m_now)
                              /\ Stuck(v, pinged)' => Stuck(v, pinged)
    PROVE  Watching'
<1>1. UNCHANGED <<m_pc, m_now, view, todo, pinged>>
  BY DEF WH!monitor
<1>2. \A v \in Workers : /\ WH!Visited(v)' <=> WH!Visited(v)
                         /\ Judged(v)' <=> Judged(v)
                         /\ Collected(v)' <=> Collected(v)
                         /\ DepthRead(v)' <=> DepthRead(v)
                         /\ StampRead(v)' <=> StampRead(v)
  BY <1>1 DEF WH!Visited, Judged, Collected, DepthRead, StampRead
<1> QED BY <1>1, <1>2 DEF Watching

\* Steps of the workers and of the dispatcher: what they do to the ring.
LEMMA RingStep ==
    ASSUME HealthParameters, HealthInv, killed = {}, NEW w \in Workers,
           WH!q_enqueue(w) \/ WH!DequeueAdvance(w) \/ WH!DequeueCount(w)
    PROVE  HealthInv'
<1>1. /\ HealthTypes /\ RingSound /\ Clocks /\ Deciding /\ Honest /\ Watching
      /\ UNCHANGED <<now, heartbeat_ns, current_event_started_ns, killed>>
      /\ UNCHANGED WH!monitor
      /\ UNCHANGED <<m_pc, m_now, view, todo, healthy, pinged, reality>>
  BY DEF HealthInv, WH!q_enqueue, WH!DequeueAdvance, WH!DequeueCount, WH!worker, WH!monitor
<1>2. Clocks' /\ Honest' /\ WH!KilledOnlyWhenStalled'
  BY <1>1 DEF Clocks, Honest, WH!KilledOnlyWhenStalled
<1>3. /\ q_last[w] \in RingSlots /\ q_next[w] \in RingSlots
      /\ (q_last[w] + 1) % num_entries \in RingSlots
      /\ (q_next[w] + 1) % num_entries \in RingSlots
      /\ (q_last[w] + 1) % num_entries = IF q_last[w] + 1 < num_entries THEN q_last[w] + 1 ELSE 0
      /\ (q_next[w] + 1) % num_entries = IF q_next[w] + 1 < num_entries THEN q_next[w] + 1 ELSE 0
  BY <1>1, NextSlot DEF HealthTypes
<1>7. /\ queue_length[w] \in 0 .. num_entries /\ WH!Waiting(w) \in 0 .. num_entries
      /\ w_pc[w] # "count" => WH!Waiting(w) = queue_length[w]
      /\ w_pc[w] = "count" => WH!Waiting(w) = queue_length[w] - 1 /\ queue_length[w] > 0
      /\ q_next[w] = IF q_last[w] + WH!Waiting(w) < num_entries THEN q_last[w] + WH!Waiting(w)
                     ELSE q_last[w] + WH!Waiting(w) - num_entries
  <2>1. queue_length[w] \in 0 .. num_entries
    BY <1>1 DEF HealthTypes
  <2>2. w_pc[w] = "count" => queue_length[w] > 0
    BY <1>1 DEF RingSound
  <2> QED BY <1>1, <2>1, <2>2 DEF RingSound, WH!Waiting, HealthParameters
<1>8. /\ WH!Waiting(w) < num_entries =>
            (IF q_next[w] + 1 < num_entries THEN q_next[w] + 1 ELSE 0)
            = IF q_last[w] + (WH!Waiting(w) + 1) < num_entries THEN q_last[w] + (WH!Waiting(w) + 1)
              ELSE q_last[w] + (WH!Waiting(w) + 1) - num_entries
      /\ WH!Waiting(w) > 0 =>
            LET l == IF q_last[w] + 1 < num_entries THEN q_last[w] + 1 ELSE 0
            IN  q_next[w] = IF l + (WH!Waiting(w) - 1) < num_entries THEN l + (WH!Waiting(w) - 1)
                            ELSE l + (WH!Waiting(w) - 1) - num_entries
      /\ 0 < WH!Waiting(w) /\ WH!Waiting(w) < num_entries => q_next[w] # q_last[w]
  BY <1>3, <1>7, RingArithmetic
<1>9. ASSUME NEW v \in Workers, v # w
      PROVE  /\ v # w
             /\ WH!Waiting(v)' = WH!Waiting(v) /\ q_last[v]' = q_last[v] /\ q_next[v]' = q_next[v]
             /\ w_pc[v]' = w_pc[v] /\ queue_length[v]' = queue_length[v]
  BY <1>1, <1>9 DEF HealthTypes, WH!Waiting, WH!q_enqueue, WH!DequeueAdvance,
     WH!DequeueCount, WH!worker
<1>4. CASE WH!q_enqueue(w)
  <2>1. /\ queue_length[w] < num_entries
        /\ queued_ns' = [queued_ns EXCEPT ![w][q_next[w]] = now]
        /\ q_next' = [q_next EXCEPT ![w] = (q_next[w] + 1) % num_entries]
        /\ queue_length' = [queue_length EXCEPT ![w] = queue_length[w] + 1]
        /\ UNCHANGED <<q_last, w_pc>>
    BY <1>4 DEF WH!q_enqueue, WH!worker
  <2>2. HealthTypes'
    BY <1>1, <1>3, <2>1 DEF HealthTypes, HealthParameters
  <2>3. RingSound'
    <3>1. /\ WH!Waiting(w)' = WH!Waiting(w) + 1 /\ q_last[w]' = q_last[w]
          /\ q_next[w]' = (q_next[w] + 1) % num_entries
      BY <1>1, <1>7, <2>1 DEF HealthTypes, WH!Waiting
    <3>2. w_pc[w]' = "count" => queue_length[w]' > 0
      BY <1>1, <1>7, <2>1 DEF HealthTypes
    <3>4. WH!Waiting(w) < num_entries
      <4>1. queue_length[w] <= num_entries - 1 /\ queue_length[w] \in Nat /\ num_entries \in Nat
        BY <1>7, <2>1 DEF HealthParameters
      <4> QED BY <1>7, <4>1
    <3>3. q_next[w]' = IF q_last[w]' + WH!Waiting(w)' < num_entries THEN q_last[w]' + WH!Waiting(w)'
                       ELSE q_last[w]' + WH!Waiting(w)' - num_entries
      BY <1>3, <1>8, <3>1, <3>4
    <3> QED BY <1>1, <1>9, <3>2, <3>3 DEF RingSound
  <2>4. Deciding'
    BY <1>1, <2>1 DEF Deciding
  <2>5. ASSUME NEW v \in Workers, NEW t \in Nat, t <= now,
               queue_length'[v] > 0, w_pc[v] \notin {"count", "beat"},
               WH!health_age_ns(t, queued_ns'[v][q_last[v]]) >= Timeout
        PROVE  queue_length[v] > 0 /\ WH!health_age_ns(t, queued_ns[v][q_last[v]]) >= Timeout
    <3>1. CASE v # w
      BY <1>1, <2>1, <2>5, <3>1 DEF HealthTypes
    <3>2. CASE v = w /\ queue_length[w] = 0
      <4>1. q_next[w] = q_last[w]
        BY <1>1, <1>3, <2>5, <3>2 DEF RingSound, WH!Waiting, RingSlots, HealthParameters
      <4>2. queued_ns'[v][q_last[v]] = now
        BY <1>1, <1>3, <2>1, <3>2, <4>1 DEF HealthTypes
      <4> QED BY <1>1, <2>5, <4>2, AgeFacts DEF HealthTypes, HealthParameters
    <3>3. CASE v = w /\ queue_length[w] > 0
      <4>1. q_next[w] # q_last[w]
        BY <1>7, <1>8, <2>1, <2>5, <3>3
      <4> QED BY <1>1, <1>3, <2>1, <2>5, <3>3, <4>1 DEF HealthTypes
    <3> QED BY <1>1, <3>1, <3>2, <3>3 DEF HealthTypes
  <2>6. \A v \in Workers : /\ Stuck(v, m_now)' => Stuck(v, m_now)
                           /\ Stuck(v, pinged)' => Stuck(v, pinged)
    <3>1. m_now \in Nat /\ pinged \in Nat /\ m_now <= now /\ pinged <= now
      BY <1>1 DEF HealthTypes, Clocks
    <3> QED BY <1>1, <2>1, <2>5, <3>1 DEF Stuck, WH!health_age_ns
  <2> QED BY <1>1, <1>2, <2>2, <2>3, <2>4, <2>6, WatchingKept DEF HealthInv
<1>5. CASE WH!DequeueAdvance(w)
  <2>1. /\ w_pc[w] = "wait" /\ queue_length[w] > 0
        /\ q_last' = [q_last EXCEPT ![w] = (q_last[w] + 1) % num_entries]
        /\ w_pc' = [w_pc EXCEPT ![w] = "count"]
        /\ UNCHANGED <<queued_ns, q_next, queue_length>>
    BY <1>5 DEF WH!DequeueAdvance
  <2>2. HealthTypes'
    BY <1>1, <1>3, <2>1 DEF HealthTypes, HealthParameters
  <2>3. RingSound'
    <3>1. /\ WH!Waiting(w)' = WH!Waiting(w) - 1 /\ q_last[w]' = (q_last[w] + 1) % num_entries
          /\ q_next[w]' = q_next[w]
      BY <1>1, <1>7, <2>1 DEF HealthTypes, WH!Waiting
    <3>2. w_pc[w]' = "count" => queue_length[w]' > 0
      BY <1>1, <1>7, <2>1 DEF HealthTypes
    <3>3. q_next[w]' = IF q_last[w]' + WH!Waiting(w)' < num_entries THEN q_last[w]' + WH!Waiting(w)'
                       ELSE q_last[w]' + WH!Waiting(w)' - num_entries
      BY <1>3, <1>7, <1>8, <2>1, <3>1
    <3> QED BY <1>1, <1>9, <3>2, <3>3 DEF RingSound
  <2>4. Deciding'
    BY <1>1, <2>1 DEF Deciding, HealthTypes
  <2>6. \A v \in Workers : /\ Stuck(v, m_now)' => Stuck(v, m_now)
                           /\ Stuck(v, pinged)' => Stuck(v, pinged)
    BY <1>1, <2>1 DEF Stuck, HealthTypes, WH!health_age_ns
  <2> QED BY <1>1, <1>2, <2>2, <2>3, <2>4, <2>6, WatchingKept DEF HealthInv
<1>6. CASE WH!DequeueCount(w)
  <2>1. /\ w_pc[w] = "count"
        /\ queue_length' = [queue_length EXCEPT ![w] = queue_length[w] - 1]
        /\ w_pc' = [w_pc EXCEPT ![w] = "beat"]
        /\ UNCHANGED <<queued_ns, q_next, q_last>>
    BY <1>6 DEF WH!DequeueCount
  <2>2. HealthTypes'
    BY <1>1, <2>1 DEF HealthTypes, HealthParameters, RingSound
  <2>3. RingSound'
    <3>1. WH!Waiting(w)' = WH!Waiting(w) /\ q_last[w]' = q_last[w] /\ q_next[w]' = q_next[w]
      BY <1>1, <1>7, <2>1 DEF HealthTypes, WH!Waiting
    <3>2. w_pc[w]' = "count" => queue_length[w]' > 0
      BY <1>1, <1>7, <2>1 DEF HealthTypes
    <3>3. q_next[w]' = IF q_last[w]' + WH!Waiting(w)' < num_entries THEN q_last[w]' + WH!Waiting(w)'
                       ELSE q_last[w]' + WH!Waiting(w)' - num_entries
      BY <1>3, <1>7, <1>8, <2>1, <3>1
    <3> QED BY <1>1, <1>9, <3>2, <3>3, Zenon DEF RingSound
  <2>4. Deciding'
    BY <1>1, <2>1 DEF Deciding, HealthTypes
  <2>6. \A v \in Workers : /\ Stuck(v, m_now)' => Stuck(v, m_now)
                           /\ Stuck(v, pinged)' => Stuck(v, pinged)
    BY <1>1, <2>1 DEF Stuck, HealthTypes, WH!health_age_ns
  <2> QED BY <1>1, <1>2, <2>2, <2>3, <2>4, <2>6, WatchingKept DEF HealthInv
<1> QED BY <1>4, <1>5, <1>6

\* Signs of life: a heartbeat is not older than the check that looks for it, so a
\* worker that gives one is not stuck.
LEMMA BeatStep ==
    ASSUME HealthParameters, HealthInv, killed = {}, NEW w \in Workers,
           \/ WH!worker_health_heartbeat(w) \/ WH!Parked(w)
           \/ WH!worker_health_event_begin(w) \/ WH!worker_health_event_end(w)
    PROVE  HealthInv'
<1>1. /\ HealthTypes /\ RingSound /\ Clocks /\ Deciding /\ Honest /\ Watching
      /\ UNCHANGED <<now, queued_ns, q_next, q_last, queue_length, killed>>
      /\ UNCHANGED WH!monitor
      /\ UNCHANGED <<m_pc, m_now, view, todo, healthy, pinged, reality>>
  BY DEF HealthInv, WH!worker_health_heartbeat, WH!Parked, WH!worker_health_event_begin,
     WH!worker_health_event_end, WH!ring, WH!monitor
<1>2. Clocks' /\ Honest' /\ WH!KilledOnlyWhenStalled'
  BY <1>1, Zenon DEF Clocks, Honest, WH!KilledOnlyWhenStalled
<1>3. PICK p \in {"wait", "begin", "decide", "end"}, c \in Nat, h \in Nat :
         /\ w_pc' = [w_pc EXCEPT ![w] = p] /\ w_pc[w] # "count"
         /\ current_event_started_ns' = [current_event_started_ns EXCEPT ![w] = c]
         /\ heartbeat_ns' = [heartbeat_ns EXCEPT ![w] = h]
         /\ h = now \/ (h = heartbeat_ns[w] /\ w_pc[w] # "beat")
         /\ p = "decide" <=> c # 0
         /\ p = "decide" => c = h
  <2>0. /\ w_pc = [w_pc EXCEPT ![w] = w_pc[w]]
        /\ heartbeat_ns = [heartbeat_ns EXCEPT ![w] = heartbeat_ns[w]]
        /\ current_event_started_ns =
              [current_event_started_ns EXCEPT ![w] = current_event_started_ns[w]]
        /\ now \in Nat \ {0} /\ heartbeat_ns[w] \in Nat /\ current_event_started_ns[w] \in Nat
        /\ w_pc[w] # "decide" => current_event_started_ns[w] = 0
    BY <1>1 DEF HealthTypes, Deciding
  <2>1. CASE WH!worker_health_heartbeat(w)
    <3>1. CASE w_pc[w] = "beat" /\ w_pc' = [w_pc EXCEPT ![w] = "begin"]
      BY <2>0, <2>1, <3>1, Zenon DEF WH!worker_health_heartbeat
    <3>2. CASE w_pc[w] = "wait" /\ w_pc' = w_pc
      BY <2>0, <2>1, <3>2, Zenon DEF WH!worker_health_heartbeat
    <3> QED BY <2>1, <3>1, <3>2, Zenon DEF WH!worker_health_heartbeat
  <2>2. CASE WH!Parked(w)
    BY <2>0, <2>2 DEF WH!Parked
  <2>3. CASE WH!worker_health_event_begin(w)
    BY <2>0, <2>3, Zenon DEF WH!worker_health_event_begin
  <2>4. CASE WH!worker_health_event_end(w)
    <3>1. CASE w_pc[w] = "decide"
      BY <2>0, <2>4, <3>1 DEF WH!worker_health_event_end
    <3>2. CASE w_pc[w] = "end"
      BY <2>0, <2>4, <3>2 DEF WH!worker_health_event_end
    <3> QED BY <2>4, <3>1, <3>2, Zenon DEF WH!worker_health_event_end
  <2> QED BY <2>1, <2>2, <2>3, <2>4
<1>4. HealthTypes'
  BY <1>1, <1>3 DEF HealthTypes
<1>5. RingSound'
  <2>1. \A v \in Workers : w_pc'[v] = "count" <=> w_pc[v] = "count"
    BY <1>1, <1>3 DEF HealthTypes
  <2>2. \A v \in Workers : WH!Waiting(v)' = WH!Waiting(v)
    BY <1>1, <2>1, Zenon DEF WH!Waiting
  <2> QED BY <1>1, <2>1, <2>2, Zenon DEF RingSound
<1>6. Deciding'
  BY <1>1, <1>3 DEF HealthTypes, Deciding
<1>7. ASSUME NEW v \in Workers, NEW t \in Nat, t <= now, w_pc'[v] \notin {"count", "beat"},
             WH!health_age_ns(t, heartbeat_ns'[v]) >= Timeout
      PROVE  w_pc[v] \notin {"count", "beat"} /\ WH!health_age_ns(t, heartbeat_ns[v]) >= Timeout
  <2>1. CASE v # w
    BY <1>1, <1>3, <1>7, <2>1 DEF HealthTypes
  <2>2. CASE v = w /\ h = now
    <3>1. heartbeat_ns'[v] = now
      BY <1>1, <1>3, <2>2 DEF HealthTypes
    <3>2. WH!health_age_ns(t, now) = 0
      BY <1>1, <1>7, AgeFacts DEF HealthTypes
    <3>3. WH!health_age_ns(t, heartbeat_ns'[v]) = 0
      BY <3>1, <3>2, Zenon
    <3>4. 0 >= Timeout
      BY <1>7, <3>3, Zenon
    <3> QED BY <3>4 DEF HealthParameters
  <2>3. CASE v = w /\ h = heartbeat_ns[w] /\ w_pc[w] # "beat"
    BY <1>1, <1>3, <1>7, <2>3 DEF HealthTypes
  <2> QED BY <1>3, <2>1, <2>2, <2>3
<1>8. \A v \in Workers : /\ Stuck(v, m_now)' => Stuck(v, m_now)
                         /\ Stuck(v, pinged)' => Stuck(v, pinged)
  <2>1. m_now \in Nat /\ pinged \in Nat /\ m_now <= now /\ pinged <= now
    BY <1>1 DEF HealthTypes, Clocks
  <2> QED BY <1>1, <1>7, <2>1 DEF Stuck, WH!health_age_ns
<1> QED BY <1>1, <1>2, <1>4, <1>5, <1>6, <1>8, WatchingKept DEF HealthInv

\* The clock, and the start of a check, which has seen nothing yet.
LEMMA ClockStep ==
    ASSUME HealthParameters, HealthInv, killed = {}, WH!Tick \/ WH!CheckBegin
    PROVE  HealthInv'
<1>1. /\ HealthTypes /\ RingSound /\ Clocks /\ Deciding /\ Honest /\ Watching
      /\ UNCHANGED <<queued_ns, q_next, q_last, queue_length, w_pc, heartbeat_ns,
                     current_event_started_ns, killed, view, reality, pinged>>
  BY DEF HealthInv, WH!Tick, WH!CheckBegin, WH!ring, WH!worker, WH!monitor
<1>2. RingSound' /\ Deciding' /\ Honest' /\ WH!KilledOnlyWhenStalled'
  BY <1>1 DEF RingSound, WH!Waiting, Deciding, Honest, WH!KilledOnlyWhenStalled
<1>3. CASE WH!Tick
  <2>1. now' = now + 1 /\ UNCHANGED WH!monitor /\ UNCHANGED <<m_pc, m_now, todo>>
    BY <1>3 DEF WH!Tick, WH!monitor
  <2>2. HealthTypes' /\ Clocks'
    BY <1>1, <2>1 DEF HealthTypes, Clocks
  <2>3. \A v \in Workers : /\ Stuck(v, m_now)' => Stuck(v, m_now)
                           /\ Stuck(v, pinged)' => Stuck(v, pinged)
    BY <1>1, <2>1 DEF Stuck, WH!health_age_ns
  <2> QED BY <1>1, <1>2, <2>1, <2>2, <2>3, WatchingKept DEF HealthInv
<1>4. CASE WH!CheckBegin
  <2>1. now' = now /\ m_now' = now /\ todo' = Workers /\ m_pc' = "depth"
    BY <1>4 DEF WH!CheckBegin
  <2>2. HealthTypes' /\ Clocks'
    BY <1>1, <2>1 DEF HealthTypes, Clocks
  <2>3. \A v \in Workers : ~Collected(v)' /\ ~Judged(v)' /\ (Stuck(v, pinged)' => Stuck(v, pinged))
    BY <1>1, <2>1, Zenon DEF Collected, Judged, Stuck, WH!health_age_ns
  <2>4. Watching'
    BY <1>1, <2>1, <2>3, Zenon DEF Watching
  <2> QED BY <1>1, <1>2, <2>2, <2>4 DEF HealthInv
<1> QED BY <1>3, <1>4

\* A stuck worker shows the monitor its depth and the age of its oldest event,
\* and then its silence, whenever the monitor looks.
LEMMA CollectStep ==
    ASSUME HealthParameters, HealthInv, killed = {}, NEW w \in Workers,
           WH!CollectDepth(w) \/ WH!CollectStamp(w) \/ WH!SnapshotHeartbeat(w)
    PROVE  HealthInv'
<1>1. /\ HealthTypes /\ RingSound /\ Clocks /\ Deciding /\ Honest /\ Watching
      /\ UNCHANGED <<now, queued_ns, q_next, q_last, queue_length, w_pc, heartbeat_ns,
                     current_event_started_ns, killed, m_now, healthy, pinged>>
      /\ WH!Visited(w) /\ w \in todo
  BY OneVisited DEF HealthInv, WH!CollectDepth, WH!CollectStamp, WH!SnapshotHeartbeat,
     WH!ring, WH!worker
<1>2. RingSound' /\ Clocks' /\ Deciding' /\ WH!KilledOnlyWhenStalled'
  BY <1>1, Zenon DEF RingSound, WH!Waiting, Clocks, Deciding, WH!KilledOnlyWhenStalled
<1>3. \A v \in Workers : /\ Stuck(v, m_now)' <=> Stuck(v, m_now)
                         /\ Stuck(v, pinged)' <=> Stuck(v, pinged)
  BY <1>1, Zenon DEF Stuck, WH!health_age_ns
<1>4. \A v \in Workers : pinged' > 0 => ~Stuck(v, pinged)'
  BY <1>1, <1>3, Zenon DEF Watching
<1>5. CASE WH!CollectDepth(w)
  <2>1. /\ view' = [view EXCEPT ![w] = [WH!NoView EXCEPT !.depth = queue_length[w]]]
        /\ m_pc = "depth" /\ m_pc' = "stamp" /\ UNCHANGED <<todo, reality>>
    BY <1>5 DEF WH!CollectDepth
  <2>2. /\ view'[w].depth = queue_length[w] /\ view'[w].oldest_age = 0
        /\ \A v \in Workers \ {w} : view'[v] = view[v]
        /\ view' \in [Workers -> Views]
    BY <1>1, <2>1 DEF HealthTypes, WH!NoView, Views, HealthParameters
  <2>3. HealthTypes'
    BY <1>1, <2>1, <2>2 DEF HealthTypes
  <2>4. Honest'
    <3>1. \A v \in Workers : reality[v].oldest \in Nat
      BY <1>1 DEF HealthTypes, Readings
    <3> QED BY <1>1, <2>1, <2>2, <3>1 DEF Honest
  <2>5. Watching'
    <3> SUFFICES ASSUME NEW v \in Workers, Stuck(v, m_now)
                 PROVE  /\ WH!Visited(v)' => DepthRead(v)'
                        /\ Collected(v)' => StampRead(v)'
                        /\ ~Judged(v)'
      BY <1>3, <1>4, <2>1 DEF Watching
    <3>1. WH!Visited(v)' => v = w
      BY <1>1, <2>1, OneVisited DEF WH!Visited
    <3>2. DepthRead(w)' <=> queue_length[w] > 0
      BY <2>2, Zenon DEF DepthRead
    <3>3. Collected(v)' => v # w /\ Collected(v)
      BY <1>1, <2>1 DEF Collected
    <3>4. v # w => (StampRead(v)' <=> StampRead(v))
      BY <2>2, Zenon DEF StampRead
    <3> QED BY <1>1, <2>1, <3>1, <3>2, <3>3, <3>4 DEF Watching, Judged, Stuck
  <2> QED BY <1>2, <2>3, <2>4, <2>5 DEF HealthInv
<1>6. CASE WH!CollectStamp(w)
  <2> DEFINE age == WH!health_age_ns(now, queued_ns[w][q_last[w]])
  <2>1. /\ view' = [view EXCEPT ![w].oldest_age = IF view[w].depth = 0 THEN 0 ELSE age]
        /\ reality' = [reality EXCEPT ![w] = [oldest |-> IF WH!Waiting(w) = 0 THEN 0 ELSE age,
                                              empty |-> WH!Waiting(w) = 0]]
        /\ m_pc = "stamp"
        /\ \/ todo = {w} /\ todo' = Workers /\ m_pc' = "heartbeat"
           \/ todo' = todo \ {w} /\ m_pc' = "depth"
    BY <1>6 DEF WH!CollectStamp, WH!q_oldest_age_ns
  <2>2. /\ age \in Nat /\ queued_ns[w][q_last[w]] \in Nat
        /\ WH!health_age_ns(m_now, queued_ns[w][q_last[w]]) \in Nat
        /\ WH!health_age_ns(m_now, queued_ns[w][q_last[w]]) <= age
    <3>1. queued_ns[w][q_last[w]] \in Nat /\ now \in Nat /\ m_now \in Nat /\ m_now <= now
      BY <1>1 DEF HealthTypes, Clocks
    <3> QED BY <3>1, AgeFacts, Zenon
  <2> HIDE DEF age
  <2>3. /\ view'[w].depth = view[w].depth
        /\ view'[w].oldest_age = IF view[w].depth = 0 THEN 0 ELSE age
        /\ \A v \in Workers \ {w} : view'[v] = view[v]
        /\ view' \in [Workers -> Views]
    BY <1>1, <2>1, <2>2, Zenon DEF HealthTypes, Views
  <2>4. /\ reality'[w].oldest = (IF WH!Waiting(w) = 0 THEN 0 ELSE age)
        /\ reality'[w].empty <=> WH!Waiting(w) = 0
        /\ \A v \in Workers \ {w} : reality'[v] = reality[v]
        /\ reality' \in [Workers -> Readings]
    BY <1>1, <2>1, <2>2, Zenon DEF HealthTypes, Readings
  <2>5. HealthTypes'
    BY <1>1, <2>1, <2>3, <2>4 DEF HealthTypes
  <2>6. Honest'
    <3>1. reality'[w].empty \/ view'[w].oldest_age <= reality'[w].oldest
      <4>1. CASE WH!Waiting(w) = 0
        BY <2>4, <4>1, Zenon
      <4>2. CASE WH!Waiting(w) # 0
        BY <2>2, <2>3, <2>4, <4>2
      <4> QED BY <4>1, <4>2
    <3>2. ASSUME NEW v \in Workers, v # w
          PROVE  reality'[v].empty \/ view'[v].oldest_age <= reality'[v].oldest
      BY <1>1, <2>3, <2>4, <3>2 DEF Honest
    <3> QED BY <3>1, <3>2 DEF Honest
  <2>7. Watching'
    <3> SUFFICES ASSUME NEW v \in Workers, Stuck(v, m_now)
                 PROVE  (Collected(v)' => StampRead(v)') /\ ~Judged(v)'
      BY <1>3, <1>4, <2>1 DEF Watching
    <3>1. ~Judged(v)'
      BY <2>1 DEF Judged
    <3>2. CASE v = w
      <4>1. view[w].depth > 0 /\ view[w].depth \in Nat
        BY <1>1, <2>1, <3>2 DEF Watching, DepthRead, HealthTypes, Views
      <4>2. age >= Timeout
        BY <2>2, <3>2 DEF Stuck, HealthParameters
      <4> QED BY <2>3, <3>1, <3>2, <4>1, <4>2 DEF StampRead
    <3>3. CASE v # w
      <4>1. Collected(v)' => Collected(v)
        BY <1>1, <2>1, <3>3 DEF Collected
      <4>2. StampRead(v)' <=> StampRead(v)
        BY <2>3, <3>3 DEF StampRead
      <4> QED BY <1>1, <3>1, <4>1, <4>2, Zenon DEF Watching
    <3> QED BY <3>2, <3>3
  <2> QED BY <1>2, <2>5, <2>6, <2>7 DEF HealthInv
<1>7. CASE WH!SnapshotHeartbeat(w)
  <2>1. /\ view' = [view EXCEPT ![w].heartbeat = WH!health_age_ns(m_now, heartbeat_ns[w])]
        /\ m_pc = "heartbeat" /\ m_pc' = "judge" /\ UNCHANGED <<todo, reality>>
    BY <1>7 DEF WH!SnapshotHeartbeat
  <2>2. WH!health_age_ns(m_now, heartbeat_ns[w]) \in Nat
    BY <1>1, AgeFacts, Zenon DEF HealthTypes
  <2>3. /\ view'[w].heartbeat = WH!health_age_ns(m_now, heartbeat_ns[w])
        /\ \A v \in Workers : /\ view'[v].depth = view[v].depth
                              /\ view'[v].oldest_age = view[v].oldest_age
        /\ view' \in [Workers -> Views]
    BY <1>1, <2>1, <2>2 DEF HealthTypes, Views
  <2>4. HealthTypes' /\ Honest'
    BY <1>1, <2>1, <2>3 DEF HealthTypes, Honest
  <2>5. Watching'
    <3> SUFFICES ASSUME NEW v \in Workers, Stuck(v, m_now)
                 PROVE  /\ Collected(v)' => StampRead(v)'
                        /\ WH!Visited(v)' => view'[v].heartbeat >= Timeout
                        /\ ~Judged(v)'
      BY <1>3, <1>4, <2>1 DEF Watching
    <3>1. WH!Visited(v)' => v = w
      BY <1>1, <2>1, OneVisited DEF WH!Visited
    <3>2. StampRead(v)' <=> StampRead(v)
      BY <2>3 DEF StampRead
    <3> QED BY <1>1, <2>1, <2>3, <3>1, <3>2 DEF Watching, Collected, Judged, Stuck
  <2> QED BY <1>2, <2>4, <2>5 DEF HealthInv
<1> QED BY <1>5, <1>6, <1>7

\* The verdict.  A stuck worker that is deciding began with its last heartbeat,
\* so it is found stalled whichever way it is judged.
LEMMA JudgeStep ==
    ASSUME HealthParameters, HealthInv, killed = {}, NEW w \in Workers, WH!Judge(w)
    PROVE  HealthInv'
<1> DEFINE current == current_event_started_ns[w]
           age == WH!health_age_ns(m_now, current)
           stalled == WH!worker_health_is_stalled(current # 0, age, view[w])
<1>1. /\ HealthTypes /\ RingSound /\ Clocks /\ Deciding /\ Honest /\ Watching
      /\ UNCHANGED <<now, queued_ns, q_next, q_last, queue_length, w_pc, heartbeat_ns,
                     current_event_started_ns, m_now>>
      /\ m_pc = "judge" /\ WH!Visited(w) /\ w \in todo
  BY OneVisited DEF HealthInv, WH!Judge, WH!ring, WH!worker
<1>2. /\ killed' = IF stalled THEN {w} ELSE {}
      /\ \/ todo = {w} /\ m_pc' = "sleep" /\ todo' = {}
         \/ todo # {w} /\ m_pc' = "heartbeat" /\ todo' = todo \ {w}
      /\ pinged' = pinged \/ (todo = {w} /\ pinged' = m_now /\ ~stalled)
      /\ \/ view' = view /\ reality' = reality
         \/ /\ ~stalled /\ view' = [v \in Workers |-> WH!NoView]
            /\ reality' = [v \in Workers |-> WH!Unread]
  BY Zenon DEF WH!Judge
<1>3. stalled => \/ view[w].oldest_age >= Timeout
                 \/ view[w].depth > BACKLOG /\ age >= Timeout
  BY DEF WH!worker_health_is_stalled
<1>4. Stuck(w, m_now) => stalled
  <2> SUFFICES ASSUME Stuck(w, m_now) PROVE stalled
    OBVIOUS
  <2>1. view[w].depth > 0 /\ view[w].oldest_age >= Timeout /\ view[w].heartbeat >= Timeout
    BY <1>1 DEF Watching, Collected, StampRead
  <2>2. current # 0 => age >= Timeout
    BY <1>1, Zenon DEF Deciding, Stuck
  <2> QED BY <2>1, <2>2 DEF WH!worker_health_is_stalled
<1> HIDE DEF stalled, age
<1>5. HealthTypes' /\ RingSound' /\ Clocks' /\ Deciding'
  <2>1. view' \in [Workers -> Views] /\ reality' \in [Workers -> Readings]
    <3>1. WH!NoView \in Views /\ WH!Unread \in Readings
      BY DEF WH!NoView, WH!Unread, Views, Readings
    <3>2. [v \in Workers |-> WH!NoView] \in [Workers -> Views]
          /\ [v \in Workers |-> WH!Unread] \in [Workers -> Readings]
      BY <3>1
    <3> QED BY <1>1, <1>2, <3>2 DEF HealthTypes
  <2>2. HealthTypes'
    BY <1>1, <1>2, <2>1 DEF HealthTypes
  <2> QED BY <1>1, <1>2, <2>2, Zenon DEF RingSound, WH!Waiting, Clocks, Deciding
<1>6. Honest'
  BY <1>1, <1>2 DEF Honest, WH!NoView, WH!Unread
<1>7. killed' = {} => Watching'
  <2> SUFFICES ASSUME ~stalled PROVE Watching'
    BY <1>2
  <2>1. \A v \in Workers : /\ Stuck(v, m_now)' <=> Stuck(v, m_now)
                           /\ pinged' = pinged => (Stuck(v, pinged)' <=> Stuck(v, pinged))
                           /\ pinged' = m_now => (Stuck(v, pinged)' <=> Stuck(v, m_now))
    BY <1>1, Zenon DEF Stuck, WH!health_age_ns
  <2>2. ASSUME NEW v \in Workers, Stuck(v, m_now)
        PROVE  v # w /\ v \in todo /\ StampRead(v)
    BY <1>1, <1>4, <2>2, Zenon DEF Watching, Judged, Collected
  <2>3. CASE todo = {w}
    <3>1. \A v \in Workers : ~Stuck(v, m_now)
      BY <2>2, <2>3
    <3> QED BY <1>1, <1>2, <2>1, <3>1 DEF Watching
  <2>4. CASE todo # {w}
    <3>1. /\ m_pc' = "heartbeat" /\ todo' = todo \ {w} /\ pinged' = pinged
      BY <1>2, <2>4
    <3>2. view' = view
      BY <2>4 DEF WH!Judge
    <3>3. \A v \in Workers : StampRead(v)' <=> StampRead(v)
      BY <3>2 DEF StampRead
    <3>4. \A v \in Workers : Stuck(v, m_now) => ~Judged(v)'
      BY <2>2, <3>1 DEF Judged
    <3> QED BY <1>1, <2>1, <2>2, <3>1, <3>3, <3>4, Zenon DEF Watching
  <2> QED BY <2>3, <2>4
<1>8. WH!KilledOnlyWhenStalled'
  <2>1. CASE stalled
    <3>1. killed' = {w} /\ view' = view /\ reality' = reality
      BY <1>2, <2>1
    <3>2. \/ reality[w].empty \/ reality[w].oldest >= Timeout
          \/ (view[w].depth > BACKLOG /\ age >= Timeout)
      <4>1. view[w].oldest_age \in Nat /\ reality[w].oldest \in Nat /\ Timeout \in Nat
        BY <1>1 DEF HealthTypes, Views, Readings, HealthParameters
      <4>2. reality[w].empty \/ view[w].oldest_age <= reality[w].oldest
        BY <1>1 DEF Honest
      <4> QED BY <1>3, <2>1, <4>1, <4>2
    <3> QED BY <1>1, <3>1, <3>2 DEF WH!KilledOnlyWhenStalled, age, WH!health_age_ns
  <2>2. CASE ~stalled
    BY <1>2, <2>2 DEF WH!KilledOnlyWhenStalled
  <2> QED BY <2>1, <2>2
<1> QED BY <1>5, <1>6, <1>7, <1>8 DEF HealthInv

\* In every state of the daemon, with any number of workers: whatever the
\* monitor's unlocked loads find, it is from a ring and a worker as they were.
THEOREM Health_Invariant ==
    ASSUME HealthParameters PROVE WH!Spec => []HealthInv
<1>1. WH!Init => HealthInv
  <2> SUFFICES ASSUME WH!Init PROVE HealthInv
    OBVIOUS
  <2>1. HealthTypes
    BY DEF WH!Init, HealthTypes, HealthParameters, RingSlots, WH!Slots, WH!NoView, WH!Unread,
       Views, Readings
  <2>2. RingSound /\ Clocks /\ Deciding /\ Honest
    BY DEF WH!Init, RingSound, WH!Waiting, Clocks, Deciding, Honest, WH!NoView, WH!Unread,
       HealthParameters
  <2>3. Watching
    BY DEF WH!Init, Watching, Stuck, HealthParameters
  <2>4. WH!KilledOnlyWhenStalled
    BY DEF WH!Init, WH!KilledOnlyWhenStalled
  <2> QED BY <2>1, <2>2, <2>3, <2>4 DEF HealthInv
<1>2. HealthInv /\ [WH!Next]_WH!wh_vars => HealthInv'
  <2> SUFFICES ASSUME HealthInv, [WH!Next]_WH!wh_vars PROVE HealthInv'
    OBVIOUS
  <2>1. CASE UNCHANGED WH!wh_vars
    <3>1. UNCHANGED <<now, queued_ns, q_next, q_last, queue_length, w_pc, heartbeat_ns,
                      current_event_started_ns, m_pc, m_now, view, todo, pinged, killed, reality>>
      BY <2>1 DEF WH!wh_vars, WH!ring, WH!worker, WH!monitor
    <3>2. HealthTypes' /\ RingSound' /\ Clocks' /\ Deciding' /\ Honest' /\ WH!KilledOnlyWhenStalled'
      BY <3>1, Zenon DEF HealthInv, HealthTypes, RingSound, WH!Waiting, Clocks, Deciding, Honest,
         WH!KilledOnlyWhenStalled, WH!health_age_ns
    <3>3. \A v \in Workers : /\ Stuck(v, m_now)' => Stuck(v, m_now)
                             /\ Stuck(v, pinged)' => Stuck(v, pinged)
      BY <3>1, Zenon DEF Stuck, WH!health_age_ns
    <3>4. UNCHANGED WH!monitor
      BY <2>1 DEF WH!wh_vars, WH!monitor
    <3> QED BY <3>1, <3>2, <3>3, <3>4, WatchingKept DEF HealthInv
  <2>2. CASE WH!Next
    BY <2>2, ClockStep, RingStep, BeatStep, CollectStep, JudgeStep DEF WH!Next
  <2> QED BY <2>1, <2>2
<1> QED BY <1>1, <1>2, PTL DEF WH!Spec

\* With any number of workers: the daemon is killed for a worker whose oldest event
\* waited for the timeout, for one in a decision that long with a backlog, or for
\* one whose ring ran empty under the monitor's eyes.
THEOREM Health_KilledOnlyWhenStalled ==
    ASSUME HealthParameters PROVE WH!Spec => []WH!KilledOnlyWhenStalled
<1>1. HealthInv => WH!KilledOnlyWhenStalled
  BY DEF HealthInv
<1> QED BY <1>1, Health_Invariant, PTL

\* With any number of workers: a check that refreshed the watchdog overlooked no
\* worker that was stuck when it began.
THEOREM Health_StallNoticed ==
    ASSUME HealthParameters PROVE WH!Spec => []WH!StallNoticed
<1>1. HealthInv => WH!StallNoticed
  BY Zenon DEF HealthInv, Watching, Stuck, WH!StallNoticed
<1> QED BY <1>1, Health_Invariant, PTL

-----------------------------------------------------------------------------
(* The log (library/message.c).                                               *)

CONSTANTS Threads, LOG_QUEUE_DEPTH, MaxMessages

VARIABLES
    log_state, log_ring, log_sem, log_dropped, destroyed, l_pc, slot, s_pc, t_pc,
    t_msg, queued, written, direct, told, misused

LG == INSTANCE Logger

Messages == Nat \ {0}
InHand == {t_msg[t] : t \in Threads} \ {0}
HeldSlot == IF slot # 0 /\ l_pc = "write" THEN <<slot>> ELSE <<>>

LogTypes ==
    /\ log_sem \in Nat /\ log_dropped \in Nat /\ slot \in Nat /\ sent \in Nat /\ told \in Nat
    /\ log_ring \in Seq(Messages) /\ written \in Seq(Messages)
    /\ t_pc \in [Threads -> {"out", "enqueue"}] /\ t_msg \in [Threads -> 0 .. sent]
    /\ direct \subseteq 1 .. sent

\* Where the threads can be, and who changes the state.
LogPhases ==
    /\ log_state = "RUNNING" <=> s_pc = "running"
    /\ log_state = "STOPPING" <=> s_pc \in {"post", "join"}
    /\ l_pc \in {"none", "wait", "take", "write", "report", "next", "ended"}
    /\ s_pc \in {"startup", "created", "running", "post", "join", "stopped", "leaked"}
    /\ s_pc = "startup" => l_pc = "none"
    /\ destroyed => s_pc = "stopped" /\ l_pc = "ended"

\* A thread has its own message from the call of msg() to the enqueue.
LogHands ==
    /\ \A t \in Threads : t_pc[t] = "out" <=> t_msg[t] = 0
    /\ \A t, u \in Threads : t_msg[t] = t_msg[u] /\ t_msg[t] # 0 => t = u

\* Every message in the ring has its token.  The one of message_async_stop() is
\* taken last, by the round that finds the ring empty.
Unused == log_sem + (IF l_pc = "take" THEN 1 ELSE 0)
LogTokens ==
    /\ s_pc \in {"startup", "created", "running", "post"} =>
          /\ Unused = Len(log_ring)
          /\ l_pc \in {"write", "report", "next"} => slot # 0
          /\ l_pc # "ended"
    /\ s_pc = "startup" => log_ring = <<>>
    /\ s_pc \in {"join", "stopped", "leaked"} =>
          Unused = Len(log_ring) + 1 \/ (Unused = 0 /\ log_ring = <<>>)
    /\ (l_pc \in {"write", "report", "next"} /\ slot = 0) \/ l_pc = "ended" => log_ring = <<>>

LogContent ==
    /\ queued = (written \o HeldSlot) \o log_ring
    /\ sent = Cardinality(direct) + Cardinality(InHand) + Len(queued) + (log_dropped + told)
    /\ ~misused

LogInv == LogTypes /\ LogPhases /\ LogHands /\ LogTokens /\ LogContent

\* Sequences, taken apart and put together.
LEMMA SeqFacts ==
    ASSUME NEW S, NEW s \in Seq(S), NEW u \in Seq(S), NEW m \in S
    PROVE  /\ s \o u \in Seq(S) /\ Len(s \o u) = Len(s) + Len(u)
           /\ s \o <<>> = s /\ <<m>> \in Seq(S)
           /\ Append(u, m) \in Seq(S) /\ Len(Append(u, m)) = Len(u) + 1
           /\ Append(u, m) = u \o <<m>>
           /\ s \o Append(u, m) = Append(s \o u, m)
<1>1. /\ s \o u \in Seq(S) /\ Len(s \o u) = Len(s) + Len(u) /\ <<m>> \in Seq(S)
      /\ Append(u, m) \in Seq(S) /\ Len(Append(u, m)) = Len(u) + 1
  OBVIOUS
<1>2. s \o <<>> = s
  BY ConcatEmptySeq, Zenon
<1>3. Append(u, m) = u \o <<m>> /\ Append(s \o u, m) = (s \o u) \o <<m>>
  BY <1>1, AppendIsConcat, Zenon
<1>4. (s \o u) \o <<m>> = s \o (u \o <<m>>)
  BY <1>1, ConcatAssociative
<1> QED BY <1>1, <1>2, <1>3, <1>4, Zenon

\* The first element changes sides.
LEMMA HeadMoves ==
    ASSUME NEW S, NEW s \in Seq(S), NEW u \in Seq(S), u # <<>>
    PROVE  /\ Head(u) \in S /\ Tail(u) \in Seq(S) /\ Len(Tail(u)) = Len(u) - 1
           /\ Len(u) > 0 /\ (s \o <<Head(u)>>) \o Tail(u) = s \o u
<1>1. /\ Head(u) \in S /\ Tail(u) \in Seq(S) /\ Len(Tail(u)) = Len(u) - 1 /\ Len(u) > 0
      /\ <<Head(u)>> \in Seq(S)
  OBVIOUS
<1>2. (s \o <<Head(u)>>) \o Tail(u) = s \o (<<Head(u)>> \o Tail(u))
  BY <1>1, ConcatAssociative
<1>3. <<Head(u)>> \o Tail(u) = u
  OBVIOUS
<1> QED BY <1>1, <1>2, <1>3, Zenon

\* What the messages in hand are worth.
LEMMA HandFacts ==
    ASSUME LogTypes
    PROVE  /\ IsFiniteSet(InHand) /\ InHand \subseteq 1 .. sent /\ Cardinality(InHand) \in Nat
           /\ IsFiniteSet(direct) /\ Cardinality(direct) \in Nat
<1>1. InHand \subseteq 1 .. sent
  BY DEF InHand, LogTypes
<1>2. IsFiniteSet(1 .. sent)
  BY FS_Interval DEF LogTypes
<1>3. IsFiniteSet(InHand) /\ IsFiniteSet(direct)
  BY <1>1, <1>2, FS_Subset, Zenon DEF LogTypes
<1> QED BY <1>1, <1>3, FS_CardinalityType, Zenon

\* The ring, the slot and what was written, as one sequence.
LEMMA ContentFacts ==
    ASSUME LogTypes
    PROVE  /\ HeldSlot \in Seq(Messages) /\ written \o HeldSlot \in Seq(Messages)
           /\ (written \o HeldSlot) \o log_ring \in Seq(Messages)
           /\ l_pc # "write" => HeldSlot = <<>> /\ written \o HeldSlot = written
<1>1. HeldSlot \in Seq(Messages) /\ (l_pc # "write" => HeldSlot = <<>>)
  <2>1. CASE slot # 0 /\ l_pc = "write"
    <3>1. slot \in Messages
      BY <2>1 DEF LogTypes, Messages
    <3> QED BY <2>1, <3>1 DEF HeldSlot
  <2>2. CASE ~(slot # 0 /\ l_pc = "write")
    BY <2>2 DEF HeldSlot
  <2> QED BY <2>1, <2>2
<1>2. written \o HeldSlot \in Seq(Messages) /\ (written \o HeldSlot) \o log_ring \in Seq(Messages)
  BY <1>1 DEF LogTypes
<1>3. written \o <<>> = written
  BY ConcatEmptySeq, Zenon DEF LogTypes
<1> QED BY <1>1, <1>2, <1>3, Zenon

\* Steps that leave the content alone.
LEMMA SameContent ==
    ASSUME LogInv, UNCHANGED <<log_ring, queued, written, direct, t_msg, sent, misused>>,
           HeldSlot' = HeldSlot,
           log_dropped' + told' = log_dropped + told
    PROVE  LogContent'
<1>1. InHand' = InHand
  BY DEF InHand
<1>2. sent' = Cardinality(direct') + Cardinality(InHand') + Len(queued') + (log_dropped' + told')
  BY <1>1 DEF LogInv, LogContent
<1> QED BY <1>2 DEF LogInv, LogContent

LEMMA MsgStep ==
    ASSUME LogInv, NEW t \in Threads, LG!msg(t)
    PROVE  LogInv'
<1>1. /\ t_pc[t] = "out" /\ sent' = sent + 1
      /\ log_state' = log_state /\ destroyed' = destroyed /\ s_pc' = s_pc /\ misused' = misused
      /\ log_ring' = log_ring /\ log_sem' = log_sem /\ log_dropped' = log_dropped
      /\ queued' = queued /\ l_pc' = l_pc /\ slot' = slot /\ written' = written /\ told' = told
  BY DEF LG!msg, LG!ring, LG!drain
<1>2. HeldSlot' = HeldSlot /\ Len(queued) \in Nat
  BY <1>1, ContentFacts DEF LogInv, LogTypes, LogContent, HeldSlot
<1>3. LogPhases' /\ LogTokens'
  BY <1>1 DEF LogInv, LogPhases, LogTokens, Unused
<1>4. t_msg[t] = 0 /\ sent \in Nat /\ t_msg \in [Threads -> 0 .. sent]
      /\ sent + 1 \notin InHand /\ sent + 1 \notin direct
  BY <1>1, HandFacts DEF LogInv, LogTypes, LogHands
<1>5. CASE /\ t_pc' = [t_pc EXCEPT ![t] = "enqueue"] /\ t_msg' = [t_msg EXCEPT ![t] = sent + 1]
           /\ direct' = direct
  <2>1. LogTypes'
    BY <1>1, <1>4, <1>5 DEF LogInv, LogTypes
  <2>2. LogHands'
    BY <1>1, <1>4, <1>5 DEF LogInv, LogTypes, LogHands
  <2>3. InHand' = InHand \cup {sent + 1}
    BY <1>4, <1>5 DEF InHand
  <2>4. Cardinality(InHand') = Cardinality(InHand) + 1
    BY <1>4, <2>3, HandFacts, FS_AddElement, Zenon DEF LogInv
  <2>5. LogContent'
    BY <1>1, <1>2, <1>4, <1>5, <2>4, HandFacts DEF LogInv, LogTypes, LogContent
  <2> QED BY <1>3, <2>1, <2>2, <2>5 DEF LogInv
<1>6. CASE direct' = direct \cup {sent + 1} /\ t_pc' = t_pc /\ t_msg' = t_msg
  <2>1. LogTypes'
    BY <1>1, <1>4, <1>6 DEF LogInv, LogTypes
  <2>2. LogHands' /\ InHand' = InHand
    BY <1>1, <1>6 DEF LogInv, LogHands, InHand
  <2>4. Cardinality(direct') = Cardinality(direct) + 1
    BY <1>4, <1>6, HandFacts, FS_AddElement, Zenon DEF LogInv
  <2>5. LogContent'
    BY <1>1, <1>2, <1>4, <1>6, <2>2, <2>4, HandFacts DEF LogInv, LogTypes, LogContent
  <2> QED BY <1>3, <2>1, <2>2, <2>5 DEF LogInv
<1> QED BY <1>5, <1>6 DEF LG!msg

LEMMA Sums ==
    /\ \A a, b, c, d \in Nat : a + b + c + d = a + (b - 1) + (c + 1) + d
    /\ \A a, b, c, d, e \in Nat : a + b + c + (d + e) = a + (b - 1) + c + ((d + 1) + e)
OBVIOUS

LEMMA EnqueueStep ==
    ASSUME LogInv, NEW t \in Threads, LG!log_enqueue(t)
    PROVE  LogInv'
<1> DEFINE m == t_msg[t]
<1>1. /\ t_pc[t] = "enqueue" /\ t_pc' = [t_pc EXCEPT ![t] = "out"]
      /\ t_msg' = [t_msg EXCEPT ![t] = 0] /\ sent' = sent /\ direct' = direct
      /\ log_state' = log_state /\ destroyed' = destroyed /\ s_pc' = s_pc
      /\ l_pc' = l_pc /\ slot' = slot /\ written' = written /\ told' = told
  BY DEF LG!log_enqueue, LG!drain
<1>2. m \in Messages /\ m \in InHand
  BY <1>1 DEF LogInv, LogTypes, LogHands, InHand, Messages
<1>3. InHand' = InHand \ {m}
  BY <1>1 DEF LogInv, LogTypes, LogHands, InHand
<1>4. Cardinality(InHand') = Cardinality(InHand) - 1 /\ Cardinality(InHand) \in Nat
  BY <1>2, <1>3, HandFacts, FS_RemoveElement, Zenon DEF LogInv
<1>5. LogHands' /\ LogPhases'
  BY <1>1 DEF LogInv, LogTypes, LogHands, LogPhases
<1>6. HeldSlot' = HeldSlot /\ written \o HeldSlot \in Seq(Messages) /\ Len(queued) \in Nat
  BY <1>1, ContentFacts DEF LogInv, LogTypes, LogContent, HeldSlot
<1> HIDE DEF m
<1>7. CASE /\ log_state = "RUNNING" /\ log_ring' = Append(log_ring, m)
           /\ queued' = Append(queued, m) /\ log_sem' = log_sem + 1
           /\ misused' = (misused \/ destroyed) /\ log_dropped' = log_dropped
  <2>1. s_pc = "running" /\ ~destroyed /\ ~misused /\ l_pc # "ended"
    BY <1>7 DEF LogInv, LogPhases, LogTokens, LogContent
  <2>2. log_ring' \in Seq(Messages) /\ Len(log_ring') = Len(log_ring) + 1
    BY <1>2, <1>7 DEF LogInv, LogTypes
  <2>3. LogTypes'
    BY <1>1, <1>7, <2>2 DEF LogInv, LogTypes
  <2>4. LogTokens'
    BY <1>1, <1>7, <2>1, <2>2 DEF LogInv, LogTypes, LogTokens, Unused
  <2>5. queued' = (written' \o HeldSlot') \o log_ring'
    <3>1. (written \o HeldSlot) \o Append(log_ring, m)
          = Append((written \o HeldSlot) \o log_ring, m)
      BY <1>2, <1>6, SeqFacts DEF LogInv, LogTypes
    <3>2. queued = (written \o HeldSlot) \o log_ring
      BY DEF LogInv, LogContent
    <3> QED BY <1>1, <1>6, <1>7, <3>1, <3>2, Zenon
  <2>6. Len(queued') = Len(queued) + 1
    BY <1>2, <1>7, ContentFacts DEF LogInv, LogContent
  <2>7. sent' = Cardinality(direct') + Cardinality(InHand') + Len(queued') + (log_dropped' + told')
    <3>1. sent = Cardinality(direct) + (Cardinality(InHand) - 1) + (Len(queued) + 1)
                 + (log_dropped + told)
      BY <1>4, <1>6, Sums, HandFacts DEF LogInv, LogTypes, LogContent
    <3> QED BY <1>1, <1>4, <1>7, <2>6, <3>1, Zenon
  <2> QED BY <1>5, <1>7, <2>1, <2>3, <2>4, <2>5, <2>7, Zenon DEF LogInv, LogContent
<1>8. CASE /\ log_dropped' = log_dropped + 1 /\ log_ring' = log_ring /\ queued' = queued
           /\ log_sem' = log_sem /\ misused' = misused
  <2>1. LogTypes' /\ LogTokens'
    BY <1>1, <1>8 DEF LogInv, LogTypes, LogTokens, Unused
  <2>2. sent' = Cardinality(direct') + Cardinality(InHand') + Len(queued') + (log_dropped' + told')
    <3>1. sent = Cardinality(direct) + (Cardinality(InHand) - 1) + Len(queued)
                 + ((log_dropped + 1) + told)
      BY <1>4, <1>6, Sums, HandFacts DEF LogInv, LogTypes, LogContent
    <3> QED BY <1>1, <1>4, <1>8, <3>1, Zenon
  <2> QED BY <1>1, <1>5, <1>6, <1>8, <2>1, <2>2 DEF LogInv, LogContent
<1> QED BY <1>7, <1>8 DEF LG!log_enqueue, LG!Accepts, m

\* The drain thread takes a token, then a slot, and writes it.
LEMMA DrainStep ==
    ASSUME LogInv, LG!LogWait \/ LG!LogTake \/ LG!LogWrite \/ LG!LogReport \/ LG!LogNext
    PROVE  LogInv'
<1>1. /\ log_state' = log_state /\ destroyed' = destroyed /\ s_pc' = s_pc /\ misused' = misused
      /\ queued' = queued /\ t_pc' = t_pc /\ t_msg' = t_msg /\ sent' = sent /\ direct' = direct
  BY DEF LG!LogWait, LG!LogTake, LG!LogWrite, LG!LogReport, LG!LogNext, LG!ring, LG!threads
<1>2. LogHands'
  BY <1>1 DEF LogInv, LogHands
<1>3. CASE LG!LogWait
  <2>1. /\ l_pc = "wait" /\ l_pc' = "take" /\ log_sem > 0 /\ log_sem' = log_sem - 1
        /\ log_ring' = log_ring /\ slot' = slot /\ written' = written
        /\ log_dropped' = log_dropped /\ told' = told
    BY <1>3 DEF LG!LogWait
  <2>2. LogTypes' /\ LogPhases' /\ LogTokens'
    BY <1>1, <2>1 DEF LogInv, LogTypes, LogPhases, LogTokens, Unused
  <2>3. HeldSlot' = HeldSlot
    BY <2>1 DEF HeldSlot
  <2> QED BY <1>1, <1>2, <2>1, <2>2, <2>3, SameContent DEF LogInv
<1>4. CASE LG!LogTake
  <2>1. /\ l_pc = "take" /\ l_pc' = "write" /\ log_sem' = log_sem /\ written' = written
        /\ log_dropped' = log_dropped /\ told' = told
    BY <1>4 DEF LG!LogTake
  <2>2. CASE log_ring = <<>>
    <3>1. slot' = 0 /\ log_ring' = log_ring
      BY <1>4, <2>2 DEF LG!LogTake
    <3>2. LogTypes' /\ LogPhases' /\ LogTokens'
      BY <1>1, <2>1, <2>2, <3>1 DEF LogInv, LogTypes, LogPhases, LogTokens, Unused
    <3>3. HeldSlot' = HeldSlot
      BY <2>1, <3>1 DEF HeldSlot
    <3> QED BY <1>1, <1>2, <2>1, <3>1, <3>2, <3>3, SameContent DEF LogInv
  <2>3. CASE log_ring # <<>>
    <3>1. slot' = Head(log_ring) /\ log_ring' = Tail(log_ring)
      BY <1>4, <2>3 DEF LG!LogTake
    <3>2. /\ slot' \in Messages /\ log_ring' \in Seq(Messages) /\ Len(log_ring) > 0
          /\ Len(log_ring') = Len(log_ring) - 1
          /\ (written \o <<slot'>>) \o log_ring' = written \o log_ring
      BY <2>3, <3>1, HeadMoves DEF LogInv, LogTypes
    <3>3. slot' # 0 /\ HeldSlot' = <<slot'>>
      BY <2>1, <3>2 DEF HeldSlot, Messages
    <3>4. LogTypes' /\ LogPhases' /\ LogTokens'
      <4>1. LogTypes'
        BY <1>1, <2>1, <3>2 DEF LogInv, LogTypes, Messages
      <4>2. LogPhases'
        BY <1>1, <2>1 DEF LogInv, LogPhases
      <4>3. Unused' = log_sem /\ Unused = log_sem + 1
        BY <2>1 DEF Unused, LogInv, LogTypes
      <4>4. LogTokens'
        <5>1. /\ Unused = Len(log_ring) => Unused' = Len(log_ring')
              /\ Unused = Len(log_ring) + 1 => Unused' = Len(log_ring') + 1
          BY <3>2, <4>3 DEF LogInv, LogTypes
        <5>2. l_pc' # "ended" /\ l_pc' = "write"
          BY <2>1
        <5> HIDE DEF Unused
        <5> QED BY <1>1, <2>3, <3>3, <5>1, <5>2, Zenon DEF LogInv, LogTokens
      <4> QED BY <4>1, <4>2, <4>4
    <3>5. written \o HeldSlot = written
      BY <2>1, ContentFacts DEF LogInv
    <3>6. LogContent'
      BY <1>1, <2>1, <3>2, <3>3, <3>5, Zenon DEF LogInv, LogContent, InHand
    <3> QED BY <1>2, <3>4, <3>6 DEF LogInv
  <2> QED BY <2>2, <2>3
<1>5. CASE LG!LogWrite
  <2>1. /\ l_pc = "write" /\ l_pc' = "report" /\ slot' = slot /\ told' = told
        /\ log_ring' = log_ring /\ log_sem' = log_sem /\ log_dropped' = log_dropped
        /\ written' = IF slot = 0 THEN written ELSE Append(written, slot)
    BY <1>5 DEF LG!LogWrite, LG!ring
  <2>2. written' = written \o HeldSlot /\ written' \in Seq(Messages)
    <3>1. CASE slot = 0
      BY <2>1, <3>1, ConcatEmptySeq DEF LogInv, LogTypes, HeldSlot
    <3>2. CASE slot # 0
      <4>1. slot \in Messages /\ written \in Seq(Messages) /\ HeldSlot = <<slot>>
        BY <2>1, <3>2 DEF LogInv, LogTypes, HeldSlot, Messages
      <4> QED BY <2>1, <3>2, <4>1, SeqFacts
    <3> QED BY <3>1, <3>2
  <2>3. LogTypes' /\ LogPhases' /\ LogTokens'
    BY <1>1, <2>1, <2>2 DEF LogInv, LogTypes, LogPhases, LogTokens, Unused
  <2>4. written' \o HeldSlot' = written'
    BY <2>1, <2>2, ConcatEmptySeq DEF HeldSlot
  <2>5. LogContent'
    BY <1>1, <2>1, <2>2, <2>4, Zenon DEF LogInv, LogContent, InHand
  <2> QED BY <1>2, <2>3, <2>5 DEF LogInv
<1>6. CASE LG!LogReport
  <2>1. /\ l_pc = "report" /\ l_pc' = "next" /\ slot' = slot /\ written' = written
        /\ log_ring' = log_ring /\ log_sem' = log_sem
    BY <1>6 DEF LG!LogReport
  <2>2. log_dropped' \in Nat /\ told' \in Nat /\ log_dropped' + told' = log_dropped + told
    BY <1>6 DEF LG!LogReport, LogInv, LogTypes
  <2>3. LogTypes' /\ LogPhases' /\ LogTokens'
    BY <1>1, <2>1, <2>2 DEF LogInv, LogTypes, LogPhases, LogTokens, Unused
  <2>4. HeldSlot' = HeldSlot
    BY <2>1 DEF HeldSlot
  <2> QED BY <1>1, <1>2, <2>1, <2>2, <2>3, <2>4, SameContent DEF LogInv
<1>7. CASE LG!LogNext
  <2>1. /\ l_pc = "next" /\ slot' = 0 /\ written' = written /\ told' = told
        /\ log_ring' = log_ring /\ log_sem' = log_sem /\ log_dropped' = log_dropped
        /\ l_pc' = IF slot = 0 /\ log_state = "STOPPING" THEN "ended" ELSE "wait"
    BY <1>7 DEF LG!LogNext, LG!ring
  <2>2. LogTypes' /\ LogPhases' /\ LogTokens'
    BY <1>1, <2>1 DEF LogInv, LogTypes, LogPhases, LogTokens, Unused
  <2>3. HeldSlot' = HeldSlot
    BY <2>1 DEF HeldSlot
  <2> QED BY <1>1, <1>2, <2>1, <2>2, <2>3, SameContent DEF LogInv
<1> QED BY <1>3, <1>4, <1>5, <1>6, <1>7

\* The log is started once, and stopped with or without a join.
LEMMA StartStopStep ==
    ASSUME LogInv, \/ LG!message_async_start \/ LG!StopBegin \/ LG!StopPost
                   \/ LG!StopJoined \/ LG!StopTimedOut
    PROVE  LogInv'
<1>1. /\ misused' = misused /\ log_ring' = log_ring /\ log_dropped' = log_dropped
      /\ queued' = queued /\ t_pc' = t_pc /\ t_msg' = t_msg /\ sent' = sent /\ direct' = direct
      /\ slot' = slot /\ written' = written /\ told' = told
  BY DEF LG!message_async_start, LG!StopBegin, LG!StopPost, LG!StopJoined, LG!StopTimedOut,
         LG!ring, LG!threads, LG!drain
<1>2. LogHands'
  BY <1>1 DEF LogInv, LogHands
<1>3. \/ l_pc' = l_pc
      \/ s_pc = "startup" /\ l_pc = "none" /\ l_pc' = "wait"
  BY DEF LG!message_async_start, LG!StopBegin, LG!StopPost, LG!StopJoined, LG!StopTimedOut,
         LG!drain, LogInv, LogPhases
<1>4. HeldSlot' = HeldSlot
  BY <1>1, <1>3 DEF HeldSlot
<1>5. LogContent'
  BY <1>1, <1>4, SameContent
<1>6. log_sem' = log_sem \/ log_sem' = log_sem + 1
  BY DEF LG!message_async_start, LG!StopBegin, LG!StopPost, LG!StopJoined, LG!StopTimedOut, LG!ring
<1>7. LogTypes'
  BY <1>1, <1>6 DEF LogInv, LogTypes
<1>8. LogPhases'
  BY <1>3 DEF LG!message_async_start, LG!StopBegin, LG!StopPost, LG!StopJoined,
     LG!StopTimedOut, LG!drain, LogInv, LogPhases
<1>9. LogTokens'
  <2>1. CASE LG!message_async_start
    BY <1>1, <2>1, Zenon DEF LG!message_async_start, LG!ring, LG!drain, LogInv, LogTypes, LogPhases,
       LogTokens, Unused
  <2>2. CASE LG!StopBegin
    BY <1>1, <2>2 DEF LG!StopBegin, LG!ring, LG!drain, LogInv, LogTokens, Unused
  <2>3. CASE LG!StopPost
    BY <1>1, <2>3 DEF LG!StopPost, LG!ring, LG!drain, LogInv, LogTypes, LogTokens, Unused
  <2>4. CASE LG!StopJoined \/ LG!StopTimedOut
    BY <1>1, <2>4 DEF LG!StopJoined, LG!StopTimedOut, LG!ring, LG!drain, LogInv, LogTokens, Unused
  <2> QED BY <2>1, <2>2, <2>3, <2>4
<1> QED BY <1>2, <1>5, <1>7, <1>8, <1>9 DEF LogInv

\* In every state of the log, however msg() calls, the drain thread, a start that
\* fails and a stop that gives up follow one another: ring, slot and file hold
\* the accepted messages in order, each with its token.
THEOREM Log_Invariant == LG!Spec => []LogInv
<1>1. LG!Init => LogInv
  <2> SUFFICES ASSUME LG!Init PROVE LogInv
    OBVIOUS
  <2>1. /\ log_state = "OFF" /\ log_ring = <<>> /\ log_sem = 0 /\ log_dropped = 0
        /\ destroyed = FALSE /\ l_pc = "none" /\ slot = 0 /\ s_pc = "startup" /\ sent = 0
        /\ t_pc = [t \in Threads |-> "out"] /\ t_msg = [t \in Threads |-> 0]
        /\ queued = <<>> /\ written = <<>> /\ direct = {} /\ told = 0 /\ misused = FALSE
    BY DEF LG!Init
  <2>2. LogTypes /\ LogPhases /\ LogHands
    BY <2>1 DEF LogTypes, LogPhases, LogHands
  <2>3. LogTokens
    BY <2>1 DEF LogTokens, Unused
  <2>4. InHand = {} /\ HeldSlot = <<>>
    BY <2>1 DEF InHand, HeldSlot
  <2>5. LogContent
    BY <2>1, <2>4, FS_EmptySet DEF LogContent
  <2> QED BY <2>2, <2>3, <2>5 DEF LogInv
<1>2. LogInv /\ [LG!Next]_LG!lg_vars => LogInv'
  <2> SUFFICES ASSUME LogInv, [LG!Next]_LG!lg_vars PROVE LogInv'
    OBVIOUS
  <2>1. CASE UNCHANGED LG!lg_vars
    BY <2>1, Zenon DEF LG!lg_vars, LG!ring, LG!drain, LG!threads, LogInv, LogTypes, LogPhases, LogHands,
       LogTokens, LogContent, Unused, InHand, HeldSlot
  <2> QED BY <2>1, MsgStep, EnqueueStep, DrainStep, StartStopStep DEF LG!Next
<1> QED BY <1>1, <1>2, PTL DEF LG!Spec

\* The instance counts as this module does.
LEMMA SameCount == \A S : LG!Cardinality(S) = Cardinality(S)
BY DEF LG!Cardinality, Cardinality

\* For any threads, ring size and number of messages: what the log took is written
\* in that order, every message is delivered, in the log or counted as dropped,
\* and a joined stop leaves no message behind and the semaphore to nobody.
THEOREM Log_Complete == LG!Spec => []LG!LogComplete
<1>1. LogInv => LG!LogComplete
  <2> SUFFICES ASSUME LogInv PROVE LG!LogComplete
    OBVIOUS
  <2>1. queued = (written \o HeldSlot) \o log_ring /\ ~misused
    BY DEF LogInv, LogContent
  <2>2. sent = Cardinality(direct) + Cardinality(InHand) + Len(queued) + log_dropped + told
    <3>1. Len(queued) \in Nat
      BY ContentFacts DEF LogInv, LogContent
    <3>2. \A a, b, c, d, e \in Nat : a + b + c + (d + e) = a + b + c + d + e
      OBVIOUS
    <3> QED BY <3>1, <3>2, HandFacts DEF LogInv, LogTypes, LogContent
  <2>3. destroyed => log_ring = <<>> /\ l_pc = "ended"
    BY DEF LogInv, LogPhases, LogTokens
  <2>4. sent = LG!Cardinality(direct) + LG!Cardinality(InHand) + Len(queued) + log_dropped + told
    BY <2>2, SameCount, Zenon
  <2> QED BY <2>1, <2>3, <2>4, Zenon DEF LG!LogComplete, InHand, HeldSlot
<1> QED BY <1>1, Log_Invariant, PTL

-----------------------------------------------------------------------------
(* The high-water marks across timing runs (library/decision-timing.c).        *)

CONSTANTS ULLONG_MAX, MaxSignals, MaxReloads, q_size

VARIABLES
    mode, timing_armed, requests, stop_reason, queue_depth_active, saved, queue, peak,
    rearmed, tls, blocks, report, signals, reloads

D == INSTANCE DecisionTiming

TimingRequests == [arm : {"none", "root", "other"}, stop : {"none", "root", "other"},
                   restore : BOOLEAN, overflow : BOOLEAN]

TimingTypes ==
    /\ timing_armed \in BOOLEAN /\ queue_depth_active \in BOOLEAN /\ rearmed \in BOOLEAN
    /\ requests \in TimingRequests /\ queue \in [Workers -> Seq({0, 1})]
    /\ saved \in [Workers -> Nat] /\ max_depth \in [Workers -> Nat] /\ peak \in [Workers -> Nat]

\* While the depth is the run's, the mark is the greater of what was saved and what
\* the run has seen; and somebody is bound to wind the run up.
TimingInv ==
    /\ TimingTypes
    /\ \A w \in Workers : Len(queue[w]) <= peak[w]
    /\ ~rearmed /\ ~queue_depth_active => max_depth = peak
    /\ ~rearmed /\ queue_depth_active =>
          \A w \in Workers : peak[w] = IF saved[w] > max_depth[w] THEN saved[w] ELSE max_depth[w]
    /\ queue_depth_active => timing_armed \/ requests.restore \/ requests.overflow

\* A step that leaves the marks and the queues alone, and nobody unobliged.
LEMMA MarksStay ==
    ASSUME TimingInv, UNCHANGED <<queue_depth_active, saved, max_depth, peak, rearmed>>,
           timing_armed' \in BOOLEAN, requests' \in TimingRequests,
           queue' \in [Workers -> Seq({0, 1})], \A w \in Workers : Len(queue'[w]) <= Len(queue[w]),
           timing_armed \/ requests.restore \/ requests.overflow =>
              timing_armed' \/ requests'.restore \/ requests'.overflow
    PROVE  TimingInv'
<1>1. TimingTypes'
  BY DEF TimingInv, TimingTypes
<1>2. \A w \in Workers : Len(queue'[w]) <= peak'[w]
  <2> SUFFICES ASSUME NEW w \in Workers PROVE Len(queue'[w]) <= peak[w]
    OBVIOUS
  <2>1. queue[w] \in Seq({0, 1}) /\ queue'[w] \in Seq({0, 1}) /\ peak[w] \in Nat
    BY DEF TimingInv, TimingTypes
  <2>2. Len(queue[w]) \in Nat /\ Len(queue'[w]) \in Nat
    BY <2>1
  <2> QED BY <2>1, <2>2 DEF TimingInv
<1> QED BY <1>1, <1>2 DEF TimingInv

\* decision_timing_queue_depth_stop() gives each queue its mark back.
LEMMA WoundUp ==
    ASSUME TimingInv, D!decision_timing_queue_depth_stop,
           UNCHANGED <<peak, rearmed, queue>>, timing_armed' \in BOOLEAN,
           requests' \in TimingRequests
    PROVE  TimingInv'
<1>1. CASE ~queue_depth_active
  BY <1>1, Zenon DEF D!decision_timing_queue_depth_stop, TimingInv, TimingTypes
<1>2. CASE queue_depth_active
  <2>1. /\ max_depth' = [w \in Workers |-> IF saved[w] > max_depth[w] THEN saved[w]
                                           ELSE max_depth[w]]
        /\ saved' = [w \in Workers |-> 0] /\ queue_depth_active' = FALSE
    BY <1>2 DEF D!decision_timing_queue_depth_stop, D!timing_queue_depth_restore,
       D!q_max_depth_snapshot_restore
  <2>2. saved' \in [Workers -> Nat] /\ max_depth' \in [Workers -> Nat]
    BY <2>1 DEF TimingInv, TimingTypes
  <2>3. ~rearmed => max_depth' = peak
    BY <1>2, <2>1 DEF TimingInv, TimingTypes
  <2> QED BY <2>1, <2>2, <2>3, Zenon DEF TimingInv, TimingTypes
<1> QED BY <1>1, <1>2 DEF TimingInv, TimingTypes

\* Every step keeps the invariant.
LEMMA TimingStep == TimingInv /\ [D!Next]_(D!vars) => TimingInv'
<1> SUFFICES ASSUME TimingInv, [D!Next]_(D!vars) PROVE TimingInv'
  OBVIOUS
<1>q. \A w \in Workers : queue[w] \in Seq({0, 1}) /\ Len(queue[w]) \in Nat
  BY DEF TimingInv, TimingTypes
<1>1. ASSUME NEW intent \in {"arm", "stop"}, NEW uid \in {"root", "other"},
             D!decision_timing_signal_request(intent, uid)
      PROVE  TimingInv'
  <2>1. /\ requests' \in TimingRequests /\ requests'.restore = requests.restore
        /\ requests'.overflow = requests.overflow
    BY <1>1, Zenon DEF D!decision_timing_signal_request, TimingInv, TimingTypes, TimingRequests
  <2>2. UNCHANGED <<timing_armed, queue_depth_active, saved, max_depth, peak, rearmed, queue>>
    BY <1>1 DEF D!decision_timing_signal_request, D!depth
  <2> QED BY <1>q, <2>1, <2>2, MarksStay DEF TimingInv, TimingTypes
<1>2. ASSUME NEW new \in {"off", "manual"}, D!decision_timing_apply_config(new)
      PROVE  TimingInv'
  <2>1. /\ requests' \in TimingRequests /\ timing_armed' \in BOOLEAN
        /\ requests'.overflow = requests.overflow
        /\ requests'.restore = (requests.restore \/ (new = "off" /\ timing_armed))
        /\ timing_armed' = (timing_armed /\ new # "off")
    BY <1>2, Zenon DEF D!decision_timing_apply_config, TimingInv, TimingTypes, TimingRequests
  <2>2. UNCHANGED <<queue_depth_active, saved, max_depth, peak, rearmed, queue>>
    BY <1>2 DEF D!decision_timing_apply_config, D!depth
  <2> QED BY <1>q, <2>1, <2>2, MarksStay DEF TimingInv, TimingTypes
<1>3. ASSUME NEW w \in Workers, D!Enqueue(w) PROVE TimingInv'
  <2> DEFINE n == Len(queue[w]) + 1
  <2>1. /\ queue' = [queue EXCEPT ![w] = Append(@, D!decision_timing_queue_enqueue_time)]
        /\ max_depth' = [max_depth EXCEPT ![w] = IF n > @ THEN n ELSE @]
        /\ peak' = [peak EXCEPT ![w] = IF n > @ THEN n ELSE @]
        /\ UNCHANGED <<timing_armed, requests, queue_depth_active, saved, rearmed>>
    BY <1>3 DEF D!Enqueue, D!control
  <2>2. n \in Nat /\ D!decision_timing_queue_enqueue_time \in {0, 1}
    BY <1>q DEF D!decision_timing_queue_enqueue_time
  <2>3. /\ queue' \in [Workers -> Seq({0, 1})]
        /\ \A v \in Workers : Len(queue'[v]) = IF v = w THEN n ELSE Len(queue[v])
    BY <1>q, <2>1, <2>2 DEF TimingInv, TimingTypes
  <2> HIDE DEF n
  <2>4. /\ max_depth' \in [Workers -> Nat] /\ peak' \in [Workers -> Nat]
        /\ \A v \in Workers : /\ v # w => max_depth'[v] = max_depth[v] /\ peak'[v] = peak[v]
                              /\ v = w => /\ max_depth'[v] = IF n > max_depth[v] THEN n ELSE max_depth[v]
                                          /\ peak'[v] = IF n > peak[v] THEN n ELSE peak[v]
    BY <2>1, <2>2 DEF TimingInv, TimingTypes
  <2>5. TimingTypes'
    BY <2>1, <2>3, <2>4 DEF TimingInv, TimingTypes
  <2>6. \A v \in Workers : Len(queue'[v]) <= peak'[v]
    <3> SUFFICES ASSUME NEW v \in Workers PROVE Len(queue'[v]) <= peak'[v]
      OBVIOUS
    <3>1. Len(queue[v]) \in Nat /\ peak[v] \in Nat /\ Len(queue[v]) <= peak[v]
      BY <1>q DEF TimingInv, TimingTypes
    <3> QED BY <2>2, <2>3, <2>4, <3>1
  <2>7. ~rearmed' /\ ~queue_depth_active' => max_depth' = peak'
    BY <2>1 DEF TimingInv
  <2>8. ~rearmed' /\ queue_depth_active' =>
          \A v \in Workers : peak'[v] = IF saved'[v] > max_depth'[v] THEN saved'[v] ELSE max_depth'[v]
    <3> SUFFICES ASSUME ~rearmed, queue_depth_active, NEW v \in Workers
                 PROVE  peak'[v] = IF saved[v] > max_depth'[v] THEN saved[v] ELSE max_depth'[v]
      BY <2>1
    <3>1. /\ saved[v] \in Nat /\ max_depth[v] \in Nat /\ peak[v] \in Nat
          /\ peak[v] = IF saved[v] > max_depth[v] THEN saved[v] ELSE max_depth[v]
      BY DEF TimingInv, TimingTypes
    <3> QED BY <2>2, <2>4, <3>1
  <2> QED BY <2>1, <2>5, <2>6, <2>7, <2>8 DEF TimingInv
<1>4. ASSUME NEW w \in Workers, D!DrainRestore(w) \/ D!DrainOverflow(w) \/ D!DrainStop(w)
      PROVE  TimingInv'
  <2>1. /\ requests' \in TimingRequests /\ timing_armed' \in BOOLEAN
        /\ UNCHANGED <<peak, rearmed, queue>>
    BY <1>4, Zenon DEF D!DrainRestore, D!DrainOverflow, D!DrainStop, D!decision_timing_stop,
       TimingInv, TimingTypes, TimingRequests
  <2>2. CASE D!decision_timing_queue_depth_stop
    BY <2>1, <2>2, WoundUp
  <2>3. CASE ~D!decision_timing_queue_depth_stop
    <3>1. /\ UNCHANGED <<queue_depth_active, saved, max_depth>>
          /\ timing_armed' = timing_armed
          /\ requests'.restore = requests.restore /\ requests'.overflow = requests.overflow
      BY <1>4, <2>3, Zenon DEF D!DrainRestore, D!DrainOverflow, D!DrainStop, D!decision_timing_stop,
         TimingInv, TimingTypes, TimingRequests
    <3> QED BY <1>q, <2>1, <3>1, MarksStay DEF TimingInv, TimingTypes
  <2> QED BY <2>2, <2>3
<1>5. ASSUME NEW w \in Workers, D!DrainArm(w) PROVE TimingInv'
  <2>1. /\ requests' \in TimingRequests
        /\ requests'.restore = requests.restore /\ requests'.overflow = requests.overflow
        /\ UNCHANGED <<timing_armed, queue_depth_active, saved, max_depth, peak, rearmed, queue>>
    BY <1>5, Zenon DEF D!DrainArm, D!depth, TimingInv, TimingTypes, TimingRequests
  <2> QED BY <1>q, <2>1, MarksStay DEF TimingInv, TimingTypes
<1>6. ASSUME NEW w \in Workers, D!decision_timing_arm(w) PROVE TimingInv'
  <2>1. /\ saved' = max_depth /\ max_depth' = [v \in Workers |-> Len(queue[v])]
        /\ queue_depth_active' = TRUE /\ rearmed' = (rearmed \/ queue_depth_active)
        /\ timing_armed' = TRUE /\ UNCHANGED <<peak, queue>>
    BY <1>6 DEF D!decision_timing_arm, D!decision_timing_queue_depth_start,
       D!timing_queue_depth_reset, D!q_max_depth_snapshot_reset
  <2>2. requests' \in TimingRequests
    BY <1>6, Zenon DEF D!decision_timing_arm, TimingInv, TimingTypes, TimingRequests
  <2>3. TimingTypes'
    BY <1>q, <2>1, <2>2 DEF TimingInv, TimingTypes
  <2>4. ~rearmed' => \A v \in Workers :
           peak'[v] = IF saved'[v] > max_depth'[v] THEN saved'[v] ELSE max_depth'[v]
    <3> SUFFICES ASSUME ~rearmed, ~queue_depth_active, NEW v \in Workers
                 PROVE  peak[v] = IF saved'[v] > max_depth'[v] THEN saved'[v] ELSE max_depth'[v]
      BY <2>1, Zenon
    <3>1. saved'[v] = peak[v] /\ max_depth'[v] = Len(queue[v]) /\ Len(queue[v]) <= peak[v]
      BY <2>1 DEF TimingInv
    <3> QED BY <1>q, <3>1 DEF TimingInv, TimingTypes
  <2> QED BY <2>1, <2>3, <2>4 DEF TimingInv
<1>7. ASSUME NEW w \in Workers, D!reset_worker_blocks(w) \/ D!TimedOut(w) PROVE TimingInv'
  <2>1. UNCHANGED <<timing_armed, requests, queue_depth_active, saved, max_depth, peak, rearmed, queue>>
    BY <1>7 DEF D!reset_worker_blocks, D!TimedOut, D!control, D!depth
  <2> QED BY <1>q, <2>1, MarksStay DEF TimingInv, TimingTypes
<1>8. ASSUME NEW w \in Workers, D!decision_timing_decision_begin(w) PROVE TimingInv'
  <2>1. /\ queue[w] # <<>> /\ queue' = [queue EXCEPT ![w] = Tail(@)]
        /\ UNCHANGED <<timing_armed, requests, queue_depth_active, saved, max_depth, peak, rearmed>>
    BY <1>8 DEF D!decision_timing_decision_begin, D!control, D!depth
  <2>2. Tail(queue[w]) \in Seq({0, 1}) /\ Len(Tail(queue[w])) <= Len(queue[w])
    BY <1>q, <2>1
  <2>3. /\ queue' \in [Workers -> Seq({0, 1})]
        /\ \A v \in Workers : Len(queue'[v]) <= Len(queue[v])
    BY <1>q, <2>1, <2>2 DEF TimingInv, TimingTypes
  <2> QED BY <2>1, <2>3, MarksStay DEF TimingInv, TimingTypes
<1>9. ASSUME NEW w \in Workers,
             D!decision_timing_queue_dequeued(w) \/ D!decision_timing_decision_end(w)
      PROVE  TimingInv'
  <2>1. UNCHANGED <<queue_depth_active, saved, max_depth, peak, rearmed, queue>>
    BY <1>9 DEF D!decision_timing_queue_dequeued, D!decision_timing_decision_end, D!depth
  <2>2. \/ UNCHANGED <<timing_armed, requests>>
        \/ D!decision_timing_overflow_stop
    BY <1>9 DEF D!decision_timing_queue_dequeued, D!decision_timing_decision_end, D!record_stage
  <2>3. /\ requests' \in TimingRequests /\ timing_armed' \in BOOLEAN
        /\ timing_armed \/ requests.restore \/ requests.overflow =>
              timing_armed' \/ requests'.restore \/ requests'.overflow
    BY <2>2, Zenon DEF D!decision_timing_overflow_stop, TimingInv, TimingTypes, TimingRequests
  <2> QED BY <1>q, <2>1, <2>3, MarksStay DEF TimingInv, TimingTypes
<1>10. CASE UNCHANGED D!vars
  <2>1. UNCHANGED <<timing_armed, requests, queue_depth_active, saved, max_depth, peak, rearmed, queue>>
    BY <1>10 DEF D!vars, D!control, D!depth
  <2> QED BY <1>q, <2>1, MarksStay DEF TimingInv, TimingTypes
<1> QED BY <1>1, <1>2, <1>3, <1>4, <1>5, <1>6, <1>7, <1>8, <1>9, <1>10 DEF D!Next

\* decision_timing_stop(), decision_timing_apply_config() and the overflow stop: for
\* any workers, signals, reloads and events, every queue has its high-water mark back
\* once a run is wound up, as long as no run begins before that.  A worker winds a
\* run up in one step here, which is what one worker does.
THEOREM Timing_HighWaterKept == D!Spec => []D!HighWaterKept
<1>1. D!Init => TimingInv
  <2> SUFFICES ASSUME D!Init PROVE TimingInv
    OBVIOUS
  <2>1. requests \in TimingRequests
    BY DEF D!Init, TimingRequests
  <2>2. queue \in [Workers -> Seq({0, 1})] /\ \A w \in Workers : Len(queue[w]) = 0 /\ peak[w] = 0
    BY DEF D!Init
  <2>3. TimingTypes
    BY <2>1, <2>2, Zenon DEF D!Init, TimingTypes
  <2> QED BY <2>2, <2>3 DEF D!Init, TimingInv
<1>2. TimingInv => D!HighWaterKept
  BY DEF TimingInv, D!HighWaterKept
<1> QED BY <1>1, <1>2, TimingStep, PTL DEF D!Spec

==============================================================================
