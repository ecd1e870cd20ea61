------------------------ MODULE DecisionPoolProofs ------------------------
(* A permission event has one owner from the read to its close, is answered   *)
(* once, and none is left at the exit: for any number of workers, events and  *)
(* helper threads, any queue and defer sizes, and any point of a stop.        *)
EXTENDS DecisionPool, SequenceLemmas

(* The places an event can be in: the batch of the dispatcher, and the ring,   *)
(* the defer array and the hands of each worker.                              *)
Batch == <<"batch", 0>>
QueueOf(w) == <<"queue", w>>
DeferOf(w) == <<"defer", w>>
HandOf(w) == <<"hand", w>>
Places == {Batch} \cup ({"queue", "defer", "hand"} \X Worker)

\* The events at place p, of a batch b, rings q, defer arrays d and hands c.
At4(p, b, q, d, c) ==
    CASE p[1] = "batch" -> ToSet(b)
      [] p[1] = "queue" -> ToSet(q[p[2]])
      [] p[1] = "defer" -> ToSet(d[p[2]])
      [] p[1] = "hand"  -> {c[p[2]]} \ {NoEvent}

ContentOf(b, q, d, c) == [p \in Places |-> At4(p, b, q, d, c)]
Content == ContentOf(batch, queue, defer, w_event)

\* No event is at two places of a content h.
Apart(h) == \A p, r \in Places : p # r => h[p] \cap h[r] = {}
Somewhere(h, e) == \E p \in Places : e \in h[p]

\* No event is at one place twice, nor at two places.
Single ==
    /\ NoRepeat(batch)
    /\ \A w \in Worker : NoRepeat(queue[w]) /\ NoRepeat(defer[w])
    /\ Apart(Content)

\* An event fd is open while its event is somewhere; only a stop abandons one.
\* While the group is open, the open ones are those the kernel waits for.
FdsOf(h, k, fd, s, g) ==
    \A e \in Event :
        /\ Somewhere(h, e) => fd[e] = "open"
        /\ fd[e] = "open" /\ ~Somewhere(h, e) => s
        /\ g = "open" => (k[e] = "read" <=> fd[e] = "open")

Fds == FdsOf(Content, kernel, evfd, stop, group)

\* Where the threads can be.
Operating == {"poll", "stopcheck", "batch"}
Busy == {"dispatch", "decide", "open", "reply"}
MainControl ==
    /\ group = "open" <=> number = "group"
    /\ group = "open" <=> m_pc \in Operating
    /\ batch # <<>> => m_pc \in {"stopcheck", "batch", "killed"}
    /\ stopping => m_pc \in {"join", "done", "killed"}
WorkerControl(w) ==
    /\ w_event[w] # NoEvent <=> w_pc[w] \in Busy
    /\ w_pc[w] \in {"drain", "exited"} => stopping
    /\ w_pc[w] = "exited" => queue[w] = <<>> /\ defer[w] = <<>>
    /\ m_pc = "done" => w_pc[w] = "exited"
Control == MainControl /\ \A w \in Worker : WorkerControl(w)

IInv == TypeOK /\ Single /\ Fds /\ Control /\ stray = {}

-----------------------------------------------------------------------------
(* Places and contents.                                                       *)

\* The places, one by one.
LEMMA PlaceCases ==
    /\ Batch \in Places
    /\ \A w \in Worker : {QueueOf(w), DeferOf(w), HandOf(w)} \subseteq Places
    /\ \A p \in Places :
          p = Batch \/ \E w \in Worker : p \in {QueueOf(w), DeferOf(w), HandOf(w)}
    /\ \A w \in Worker :
          /\ Batch \notin {QueueOf(w), DeferOf(w), HandOf(w)}
          /\ QueueOf(w) # DeferOf(w) /\ QueueOf(w) # HandOf(w)
          /\ DeferOf(w) # HandOf(w)
    /\ \A v, w \in Worker :
          /\ QueueOf(v) = QueueOf(w) => v = w
          /\ DeferOf(v) = DeferOf(w) => v = w
          /\ HandOf(v) = HandOf(w) => v = w
          /\ QueueOf(v) # DeferOf(w) /\ QueueOf(v) # HandOf(w)
          /\ DeferOf(v) # HandOf(w)
BY DEF Places, Batch, QueueOf, DeferOf, HandOf

\* What is at each place.
LEMMA ContentAt ==
    ASSUME NEW b, NEW q, NEW d, NEW c
    PROVE  /\ ContentOf(b, q, d, c)[Batch] = ToSet(b)
           /\ \A w \in Worker :
                 /\ ContentOf(b, q, d, c)[QueueOf(w)] = ToSet(q[w])
                 /\ ContentOf(b, q, d, c)[DeferOf(w)] = ToSet(d[w])
                 /\ ContentOf(b, q, d, c)[HandOf(w)] = {c[w]} \ {NoEvent}
<1>1. \A p \in Places : ContentOf(b, q, d, c)[p] = At4(p, b, q, d, c)
  BY DEF ContentOf
<1>2. At4(Batch, b, q, d, c) = ToSet(b)
  BY DEF At4, Batch
<1>3. ASSUME NEW w \in Worker
      PROVE  /\ At4(QueueOf(w), b, q, d, c) = ToSet(q[w])
             /\ At4(DeferOf(w), b, q, d, c) = ToSet(d[w])
             /\ At4(HandOf(w), b, q, d, c) = {c[w]} \ {NoEvent}
  BY DEF At4, QueueOf, DeferOf, HandOf
<1> QED BY <1>1, <1>2, <1>3, PlaceCases

\* Event e goes from place p to place r.
Moved(h, g, p, r, e) ==
    /\ p \in Places /\ r \in Places /\ p # r /\ e \in h[p]
    /\ g[p] = h[p] \ {e} /\ g[r] = h[r] \cup {e}
    /\ \A x \in Places \ {p, r} : g[x] = h[x]

\* Event e leaves place p.
Dropped(h, g, p, e) ==
    /\ p \in Places /\ e \in h[p] /\ g[p] = h[p] \ {e}
    /\ \A x \in Places \ {p} : g[x] = h[x]

\* A move keeps the places apart and loses nothing.
LEMMA MovedApart ==
    ASSUME NEW h, NEW g, NEW p, NEW r, NEW e, Apart(h), Moved(h, g, p, r, e)
    PROVE  Apart(g) /\ \A x : Somewhere(g, x) <=> Somewhere(h, x)
BY DEF Apart, Moved, Somewhere

\* What is dropped is nowhere, everything else stays where it is.
LEMMA DroppedApart ==
    ASSUME NEW h, NEW g, NEW p, NEW e, Apart(h), Dropped(h, g, p, e)
    PROVE  Apart(g) /\ \A x : Somewhere(g, x) <=> Somewhere(h, x) /\ x # e
BY DEF Apart, Dropped, Somewhere

-----------------------------------------------------------------------------
(* Types.                                                                     *)

\* The key of an event selects a worker.
LEMMA DispatcherWorker ==
    ASSUME NEW e \in Ext PROVE dispatcher_worker(e) \in Worker
<1>1. e[2] \in Events
  BY DEF Ext
<1>2. PidOf[e[2]] \in Nat
  BY <1>1, PoolAssumption, Zenon
<1> QED BY <1>2, PoolAssumption DEF dispatcher_worker, Worker

\* There are finitely many events.
LEMMA EventFinite == IsFiniteSet(Event)
<1>1. IsFiniteSet({"ext"} \X Events)
  BY PoolAssumption, FS_Singleton, FS_Product, Zenon
<1>2. IsFiniteSet(Worker)
  BY PoolAssumption, FS_Interval DEF Worker
<1>3. IsFiniteSet({"worker"} \X Worker)
  BY <1>2, FS_Singleton, FS_Product, Zenon
<1>4. IsFiniteSet({"reconfigure"} \cup {"update"})
  BY FS_Singleton, FS_Union, Zenon
<1>5. Helpers \in SUBSET ({"reconfigure"} \cup {"update"})
  BY PoolAssumption
<1>6. IsFiniteSet(Helpers)
  BY <1>4, <1>5, FS_Subset, Zenon
<1>7. IsFiniteSet({"helper"} \X Helpers)
  BY <1>6, FS_Singleton, FS_Product, Zenon
<1>8. IsFiniteSet(Own)
  BY <1>3, <1>7, FS_Union, Zenon DEF Own
<1> QED BY <1>1, <1>8, FS_Union, Zenon DEF Event, Ext

\* NoEvent is not an event.
LEMMA NoEventOutside == NoEvent \notin Event
BY DEF NoEvent, Event, Ext, Own

GroupType ==
    /\ kernel \in [Event -> {"none", "queued", "read", "unanswered", "done"}]
    /\ evfd \in [Event -> {"none", "open", "closed"}]
    /\ group \in {"open", "closed"} /\ number \in {"group", "free", "other"}
    /\ misdirected \subseteq Event /\ stray \subseteq Event

\* Answering an event keeps the types of the group.
LEMMA WriteType ==
    ASSUME GroupType, NEW e \in Event, WriteResponse(e), NoteStray(e), CloseEvent(e)
    PROVE  GroupType'
<1>1. kernel' \in [Event -> {"none", "queued", "read", "unanswered", "done"}]
  BY DEF GroupType, WriteResponse
<1>2. evfd' \in [Event -> {"none", "open", "closed"}]
  BY DEF GroupType, CloseEvent
<1>3. misdirected' \subseteq Event
  BY DEF GroupType, WriteResponse
<1>4. stray' \subseteq Event
  BY DEF GroupType, NoteStray
<1>5. group' = group /\ number' = number
  BY DEF WriteResponse
<1> QED BY <1>1, <1>2, <1>3, <1>4, <1>5 DEF GroupType

LEMMA ReplyType ==
    ASSUME GroupType, NEW e \in Event, reply_event(e)
    PROVE  GroupType'
<1>1. NoteStray(e) /\ CloseEvent(e)
  BY DEF reply_event
<1>2. CASE group = "open"
  BY <1>1, <1>2, WriteType DEF reply_event
<1>3. CASE group # "open"
  <2>1. UNCHANGED <<kernel, misdirected, group, number>>
    BY <1>3 DEF reply_event
  <2>2. evfd' \in [Event -> {"none", "open", "closed"}]
    BY <1>1 DEF GroupType, CloseEvent
  <2>3. stray' \subseteq Event
    BY <1>1 DEF GroupType, NoteStray
  <2> QED BY <2>1, <2>2, <2>3 DEF GroupType
<1> QED BY <1>2, <1>3

MainType ==
    /\ stop \in BOOLEAN /\ stopping \in BOOLEAN
    /\ m_pc \in {"poll", "stopcheck", "batch", "waithelper", "exitupdate",
                 "begin", "join", "done", "killed"}
    /\ batch \in Seq(Event)

WorkersType ==
    /\ queue \in [Worker -> Seq(Ext)] /\ defer \in [Worker -> Seq(Ext)]
    /\ \A w \in Worker : Len(queue[w]) <= q_size /\ Len(defer[w]) <= Capacity
    /\ w_pc \in [Worker -> {"loop", "wait", "dispatch", "decide", "open",
                            "reply", "release", "drain", "exited"}]
    /\ w_event \in [Worker -> Ext \cup {NoEvent}]

HelpersType == h_pc \in [Helpers -> {"idle", "busy", "open", "finish"}]

LEMMA Types == TypeOK <=> GroupType /\ MainType /\ WorkersType /\ HelpersType
BY Zenon DEF TypeOK, GroupType, MainType, WorkersType, HelpersType

\* The initial state.
LEMMA InitIInv == Init => IInv
<1> SUFFICES ASSUME Init PROVE IInv
  OBVIOUS
<1>2. \A p \in Places : Content[p] = {}
  BY PlaceCases, ContentAt, EmptyBasics DEF Init, Content
<1>3. Single
  BY <1>2, EmptyBasics DEF Init, Single, Apart
<1>4. Fds
  BY <1>2 DEF Init, Fds, FdsOf, Somewhere
<1>5. Control
  BY DEF Init, Control, MainControl, WorkerControl, Operating, Busy
<1>6. GroupType /\ MainType /\ HelpersType
  <2>1. GroupType
    BY DEF Init, GroupType
  <2>2. <<>> \in Seq(Event)
    OBVIOUS
  <2>3. MainType
    BY <2>2, Zenon DEF Init, MainType
  <2>4. HelpersType
    BY DEF Init, HelpersType
  <2> QED BY <2>1, <2>3, <2>4
<1>7. WorkersType
  <2>1. <<>> \in Seq(Ext) /\ Len(<<>>) = 0
    OBVIOUS
  <2> QED BY <2>1, PoolAssumption DEF Init, WorkersType
<1> QED BY <1>3, <1>4, <1>5, <1>6, <1>7, Types DEF IInv, Init

\* Replacing the ring or the defer array of one worker.
LEMMA RingUpdate ==
    ASSUME NEW q \in [Worker -> Seq(Ext)], NEW w \in Worker, NEW s \in Seq(Ext),
           NEW n, \A v \in Worker : Len(q[v]) <= n, Len(s) <= n
    PROVE  /\ [q EXCEPT ![w] = s] \in [Worker -> Seq(Ext)]
           /\ \A v \in Worker : Len([q EXCEPT ![w] = s][v]) <= n
           /\ [q EXCEPT ![w] = s][w] = s
           /\ \A v \in Worker \ {w} : [q EXCEPT ![w] = s][v] = q[v]
OBVIOUS

\* What is at the places of a worker before and after a step.
LEMMA ContentNow ==
    ASSUME NEW v \in Worker
    PROVE  /\ Content[QueueOf(v)] = ToSet(queue[v])
           /\ Content[DeferOf(v)] = ToSet(defer[v])
           /\ Content[HandOf(v)] = {w_event[v]} \ {NoEvent}
           /\ Content'[QueueOf(v)] = ToSet(queue'[v])
           /\ Content'[DeferOf(v)] = ToSet(defer'[v])
           /\ Content'[HandOf(v)] = {w_event'[v]} \ {NoEvent}
BY ContentAt DEF Content

\* A step of worker w leaves the places of the others alone.
OthersKept(w) ==
    /\ batch' = batch
    /\ \A v \in Worker \ {w} :
          queue'[v] = queue[v] /\ defer'[v] = defer[v] /\ w_event'[v] = w_event[v]

PlacesOf(w) ==
    /\ Content[QueueOf(w)] = ToSet(queue[w])
    /\ Content[DeferOf(w)] = ToSet(defer[w])
    /\ Content[HandOf(w)] = {w_event[w]} \ {NoEvent}
    /\ Content'[QueueOf(w)] = ToSet(queue'[w])
    /\ Content'[DeferOf(w)] = ToSet(defer'[w])
    /\ Content'[HandOf(w)] = {w_event'[w]} \ {NoEvent}
    /\ \A x \in Places \ {QueueOf(w), DeferOf(w), HandOf(w)} : Content'[x] = Content[x]

LEMMA WorkerPlaces ==
    ASSUME NEW w \in Worker, OthersKept(w)
    PROVE  PlacesOf(w)
<1>0. /\ batch' = batch
      /\ \A v \in Worker \ {w} :
            queue'[v] = queue[v] /\ defer'[v] = defer[v] /\ w_event'[v] = w_event[v]
  BY DEF OthersKept
<1>1. Content'[Batch] = Content[Batch]
  BY <1>0, ContentAt DEF Content
<1>2. ASSUME NEW v \in Worker
      PROVE  /\ Content[QueueOf(v)] = ToSet(queue[v])
             /\ Content[DeferOf(v)] = ToSet(defer[v])
             /\ Content[HandOf(v)] = {w_event[v]} \ {NoEvent}
             /\ Content'[QueueOf(v)] = ToSet(queue'[v])
             /\ Content'[DeferOf(v)] = ToSet(defer'[v])
             /\ Content'[HandOf(v)] = {w_event'[v]} \ {NoEvent}
  BY ContentNow
<1>3. ASSUME NEW x \in Places \ {QueueOf(w), DeferOf(w), HandOf(w)}
      PROVE  Content'[x] = Content[x]
  <2>1. CASE x = Batch
    BY <1>1, <2>1
  <2>2. ASSUME NEW v \in Worker, x \in {QueueOf(v), DeferOf(v), HandOf(v)}
        PROVE  Content'[x] = Content[x]
    <3>1. v \in Worker \ {w}
      BY <2>2
    <3> QED BY <1>0, <1>2, <2>2, <3>1, Zenon
  <2> QED BY <2>1, <2>2, PlaceCases
<1> QED BY <1>2, <1>3 DEF PlacesOf

\* Taking an event from a ring into the worker's hands.
LEMMA DequeueMoves ==
    ASSUME WorkersType, Single, Control, NEW w \in Worker, Dequeue(w)
    PROVE  /\ WorkersType' /\ Single'
           /\ \A x : Somewhere(Content', x) <=> Somewhere(Content, x)
<1> DEFINE e == Head(queue[w])
           t == Tail(queue[w])
<1>1. queue[w] \in Seq(Ext) /\ queue[w] # <<>> /\ NoRepeat(queue[w])
  BY DEF WorkersType, Single, Dequeue
<1>2. /\ t \in Seq(Ext) /\ Len(t) = Len(queue[w]) - 1 /\ e \in Ext
      /\ e \in ToSet(queue[w]) /\ NoRepeat(t) /\ ToSet(t) = ToSet(queue[w]) \ {e}
  BY <1>1, TailDrops
<1>3. /\ queue' = [queue EXCEPT ![w] = t] /\ w_event' = [w_event EXCEPT ![w] = e]
      /\ w_pc' = [w_pc EXCEPT ![w] = "dispatch"] /\ defer' = defer /\ batch' = batch
  BY DEF Dequeue, Hold, Goto, main_vars
<1>4. w_event[w] = NoEvent
  BY DEF Control, WorkerControl, Dequeue, At, Busy
<1> HIDE DEF e, t
<1>5. /\ queue' \in [Worker -> Seq(Ext)] /\ \A v \in Worker : Len(queue'[v]) <= q_size
      /\ queue'[w] = t /\ \A v \in Worker \ {w} : queue'[v] = queue[v]
  BY <1>1, <1>2, <1>3, RingUpdate, PoolAssumption DEF WorkersType
<1>6. /\ w_event' \in [Worker -> Ext \cup {NoEvent}]
      /\ w_event'[w] = e /\ \A v \in Worker \ {w} : w_event'[v] = w_event[v]
  BY <1>2, <1>3 DEF WorkersType
<1>7. WorkersType'
  BY <1>3, <1>5, <1>6 DEF WorkersType
<1>8. e # NoEvent
  BY <1>2, NoEventOutside DEF Event
<1>9. Moved(Content, Content', QueueOf(w), HandOf(w), e)
  <2>1. PlacesOf(w)
    BY <1>3, <1>5, <1>6, WorkerPlaces DEF OthersKept
  <2>2. /\ Content[QueueOf(w)] = ToSet(queue[w]) /\ Content'[QueueOf(w)] = ToSet(t)
        /\ Content[HandOf(w)] = {} /\ Content'[HandOf(w)] = {e}
        /\ \A x \in Places \ {QueueOf(w), HandOf(w)} : Content'[x] = Content[x]
    BY <1>3, <1>4, <1>5, <1>6, <1>8, <2>1 DEF PlacesOf
  <2> QED BY <1>2, <2>2, PlaceCases DEF Moved
<1>10. Apart(Content') /\ \A x : Somewhere(Content', x) <=> Somewhere(Content, x)
  BY <1>9, MovedApart DEF Single
<1> QED BY <1>2, <1>3, <1>5, <1>7, <1>10 DEF Single

\* Taking a parked event into the worker's hands: ReleaseReady, ReleaseSlot.
Release(w) ==
    /\ \E i \in DOMAIN defer[w] :
          /\ Hold(w, defer[w][i])
          /\ defer' = [defer EXCEPT ![w] = RemoveAt(@, i)]
    /\ Goto(w, "decide")
    /\ queue' = queue /\ batch' = batch

LEMMA ReleaseMoves ==
    ASSUME WorkersType, Single, NEW w \in Worker, w_event[w] = NoEvent, Release(w)
    PROVE  /\ WorkersType' /\ Single'
           /\ \A x : Somewhere(Content', x) <=> Somewhere(Content, x)
<1>0. PICK i \in DOMAIN defer[w] :
          Hold(w, defer[w][i]) /\ defer' = [defer EXCEPT ![w] = RemoveAt(@, i)]
  BY Zenon DEF Release
<1> DEFINE e == defer[w][i]
           t == RemoveAt(defer[w], i)
<1>1. defer[w] \in Seq(Ext) /\ NoRepeat(defer[w])
  BY DEF WorkersType, Single
<1>2. /\ t \in Seq(Ext) /\ Len(t) = Len(defer[w]) - 1 /\ e \in Ext
      /\ e \in ToSet(defer[w]) /\ NoRepeat(t) /\ ToSet(t) = ToSet(defer[w]) \ {e}
  BY <1>1, RemoveAtDrops
<1>3. /\ defer' = [defer EXCEPT ![w] = t] /\ w_event' = [w_event EXCEPT ![w] = e]
      /\ w_pc' = [w_pc EXCEPT ![w] = "decide"] /\ queue' = queue /\ batch' = batch
  BY <1>0, Zenon DEF Hold, Goto, Release
<1> HIDE DEF e, t
<1>4. Len(t) <= Capacity
  BY <1>1, <1>2, PoolAssumption, SeqBasics DEF WorkersType
<1>5. /\ defer' \in [Worker -> Seq(Ext)] /\ \A v \in Worker : Len(defer'[v]) <= Capacity
      /\ defer'[w] = t /\ \A v \in Worker \ {w} : defer'[v] = defer[v]
  <2>1. defer \in [Worker -> Seq(Ext)] /\ \A v \in Worker : Len(defer[v]) <= Capacity
    BY DEF WorkersType
  <2> QED BY <1>2, <1>3, <1>4, <2>1, RingUpdate
<1>6. /\ w_event' \in [Worker -> Ext \cup {NoEvent}]
      /\ w_event'[w] = e /\ \A v \in Worker \ {w} : w_event'[v] = w_event[v]
  BY <1>2, <1>3 DEF WorkersType
<1>7. WorkersType'
  BY <1>3, <1>5, <1>6 DEF WorkersType
<1>8. e # NoEvent
  BY <1>2, NoEventOutside DEF Event
<1>9. Moved(Content, Content', DeferOf(w), HandOf(w), e)
  <2>1. PlacesOf(w)
    BY <1>3, <1>5, <1>6, WorkerPlaces DEF OthersKept
  <2>2. /\ Content[DeferOf(w)] = ToSet(defer[w]) /\ Content'[DeferOf(w)] = ToSet(t)
        /\ Content[HandOf(w)] = {} /\ Content'[HandOf(w)] = {e}
        /\ \A x \in Places \ {DeferOf(w), HandOf(w)} : Content'[x] = Content[x]
    BY <1>3, <1>5, <1>6, <1>8, <2>1 DEF PlacesOf
  <2> QED BY <1>2, <2>2, PlaceCases DEF Moved
<1>10. Apart(Content') /\ \A x : Somewhere(Content', x) <=> Somewhere(Content, x)
  BY <1>9, MovedApart DEF Single
<1> QED BY <1>2, <1>3, <1>5, <1>7, <1>10 DEF Single

\* Parking the event at hand.
LEMMA ParkMoves ==
    ASSUME WorkersType, Single, Control, NEW w \in Worker, Park(w)
    PROVE  /\ WorkersType' /\ Single'
           /\ \A x : Somewhere(Content', x) <=> Somewhere(Content, x)
<1> DEFINE e == w_event[w]
           t == Append(defer[w], e)
<1>1. /\ defer' = [defer EXCEPT ![w] = t] /\ w_event' = [w_event EXCEPT ![w] = NoEvent]
      /\ w_pc' = [w_pc EXCEPT ![w] = "loop"] /\ queue' = queue /\ batch' = batch
  BY DEF Park, Hold, Goto, main_vars
<1>2. defer[w] \in Seq(Ext) /\ NoRepeat(defer[w]) /\ Len(defer[w]) < Capacity
  BY DEF WorkersType, Single, Park
<1>3. e # NoEvent /\ e \in Ext
  BY DEF Control, WorkerControl, Park, At, Busy, WorkersType
<1>4. /\ Content[HandOf(w)] = {e} /\ Content[DeferOf(w)] = ToSet(defer[w])
  BY <1>3, ContentAt DEF Content
<1>5. e \notin ToSet(defer[w])
  BY <1>4, PlaceCases DEF Single, Apart
<1>6. /\ t \in Seq(Ext) /\ Len(t) = Len(defer[w]) + 1
      /\ NoRepeat(t) /\ ToSet(t) = ToSet(defer[w]) \cup {e}
  BY <1>2, <1>3, <1>5, AppendAdds
<1> HIDE DEF e, t
<1>7. Len(t) <= Capacity
  BY <1>2, <1>6, PoolAssumption, SeqBasics
<1>8. /\ defer' \in [Worker -> Seq(Ext)] /\ \A v \in Worker : Len(defer'[v]) <= Capacity
      /\ defer'[w] = t /\ \A v \in Worker \ {w} : defer'[v] = defer[v]
  BY <1>1, <1>6, <1>7, RingUpdate DEF WorkersType
<1>9. /\ w_event' \in [Worker -> Ext \cup {NoEvent}]
      /\ w_event'[w] = NoEvent /\ \A v \in Worker \ {w} : w_event'[v] = w_event[v]
  BY <1>1 DEF WorkersType
<1>10. WorkersType'
  BY <1>1, <1>8, <1>9 DEF WorkersType
<1>11. Moved(Content, Content', HandOf(w), DeferOf(w), e)
  <2>1. PlacesOf(w)
    BY <1>1, <1>8, <1>9, WorkerPlaces DEF OthersKept
  <2>2. /\ Content'[DeferOf(w)] = ToSet(t) /\ Content'[HandOf(w)] = {}
        /\ \A x \in Places \ {DeferOf(w), HandOf(w)} : Content'[x] = Content[x]
    BY <1>1, <1>8, <1>9, <2>1 DEF PlacesOf
  <2> QED BY <1>4, <1>6, <2>2, PlaceCases DEF Moved
<1>12. Apart(Content') /\ \A x : Somewhere(Content', x) <=> Somewhere(Content, x)
  BY <1>11, MovedApart DEF Single
<1> QED BY <1>1, <1>6, <1>8, <1>10, <1>12 DEF Single

\* Answering the event at hand, the first of the ring, the first of the defer
\* array.
LEMMA ReplyDrops ==
    ASSUME WorkersType, Single, Control, NEW w \in Worker, Reply(w)
    PROVE  /\ WorkersType' /\ Single' /\ Somewhere(Content, w_event[w])
           /\ w_event[w] \in Event
           /\ \A x : Somewhere(Content', x) <=> Somewhere(Content, x) /\ x # w_event[w]
<1> DEFINE e == w_event[w]
<1>1. /\ w_event' = [w_event EXCEPT ![w] = NoEvent]
      /\ w_pc' = [w_pc EXCEPT ![w] = "release"]
      /\ queue' = queue /\ defer' = defer /\ batch' = batch
  BY DEF Reply, Hold, Goto, main_vars
<1>2. e # NoEvent /\ e \in Ext
  BY DEF Control, WorkerControl, Reply, At, Busy, WorkersType
<1> HIDE DEF e
<1>3. /\ w_event' \in [Worker -> Ext \cup {NoEvent}]
      /\ w_event'[w] = NoEvent /\ \A v \in Worker \ {w} : w_event'[v] = w_event[v]
  BY <1>1 DEF WorkersType
<1>4. WorkersType'
  BY <1>1, <1>3 DEF WorkersType
<1>5. Dropped(Content, Content', HandOf(w), e)
  <2>0. PlacesOf(w)
    BY <1>1, <1>3, WorkerPlaces DEF OthersKept
  <2>1. /\ Content[HandOf(w)] = {e} /\ Content'[HandOf(w)] = {}
        /\ \A x \in Places \ {HandOf(w)} : Content'[x] = Content[x]
    BY <1>1, <1>2, <1>3, <2>0 DEF e, PlacesOf
  <2> QED BY <2>1, PlaceCases DEF Dropped
<1>6. Apart(Content') /\ \A x : Somewhere(Content', x) <=> Somewhere(Content, x) /\ x # e
  BY <1>5, DroppedApart DEF Single
<1>7. Somewhere(Content, e)
  BY <1>5 DEF Dropped, Somewhere
<1> QED BY <1>1, <1>2, <1>4, <1>6, <1>7 DEF Single, e, Event

LEMMA DrainQueueDrops ==
    ASSUME WorkersType, Single, NEW w \in Worker, DrainQueue(w)
    PROVE  /\ WorkersType' /\ Single' /\ Somewhere(Content, Head(queue[w]))
           /\ Head(queue[w]) \in Event
           /\ \A x : Somewhere(Content', x)
                     <=> Somewhere(Content, x) /\ x # Head(queue[w])
<1> DEFINE e == Head(queue[w])
           t == Tail(queue[w])
<1>1. queue[w] \in Seq(Ext) /\ queue[w] # <<>> /\ NoRepeat(queue[w])
  BY DEF WorkersType, Single, DrainQueue
<1>2. /\ t \in Seq(Ext) /\ Len(t) = Len(queue[w]) - 1 /\ e \in Ext
      /\ e \in ToSet(queue[w]) /\ NoRepeat(t) /\ ToSet(t) = ToSet(queue[w]) \ {e}
  BY <1>1, TailDrops
<1>3. /\ queue' = [queue EXCEPT ![w] = t] /\ w_event' = w_event /\ w_pc' = w_pc
      /\ defer' = defer /\ batch' = batch
  BY DEF DrainQueue, main_vars
<1> HIDE DEF e, t
<1>4. Len(t) <= q_size
  BY <1>1, <1>2, PoolAssumption, SeqBasics DEF WorkersType
<1>5. /\ queue' \in [Worker -> Seq(Ext)] /\ \A v \in Worker : Len(queue'[v]) <= q_size
      /\ queue'[w] = t /\ \A v \in Worker \ {w} : queue'[v] = queue[v]
  BY <1>2, <1>3, <1>4, RingUpdate DEF WorkersType
<1>6. WorkersType'
  BY <1>3, <1>5 DEF WorkersType
<1>7. Dropped(Content, Content', QueueOf(w), e)
  <2>1. PlacesOf(w)
    BY <1>3, <1>5, WorkerPlaces DEF OthersKept
  <2>2. /\ Content[QueueOf(w)] = ToSet(queue[w]) /\ Content'[QueueOf(w)] = ToSet(t)
        /\ \A x \in Places \ {QueueOf(w)} : Content'[x] = Content[x]
    BY <1>3, <1>5, <2>1, Zenon DEF PlacesOf
  <2> QED BY <1>2, <2>2, PlaceCases DEF Dropped
<1>8. Apart(Content') /\ \A x : Somewhere(Content', x) <=> Somewhere(Content, x) /\ x # e
  BY <1>7, DroppedApart DEF Single
<1>9. Somewhere(Content, e)
  BY <1>7 DEF Dropped, Somewhere
<1> QED BY <1>2, <1>3, <1>5, <1>6, <1>8, <1>9 DEF Single, e, Event

LEMMA DrainDeferDrops ==
    ASSUME WorkersType, Single, NEW w \in Worker, DrainDefer(w)
    PROVE  /\ WorkersType' /\ Single' /\ Somewhere(Content, Head(defer[w]))
           /\ Head(defer[w]) \in Event
           /\ \A x : Somewhere(Content', x)
                     <=> Somewhere(Content, x) /\ x # Head(defer[w])
<1> DEFINE e == Head(defer[w])
           t == Tail(defer[w])
<1>1. defer[w] \in Seq(Ext) /\ defer[w] # <<>> /\ NoRepeat(defer[w])
  BY DEF WorkersType, Single, DrainDefer
<1>2. /\ t \in Seq(Ext) /\ Len(t) = Len(defer[w]) - 1 /\ e \in Ext
      /\ e \in ToSet(defer[w]) /\ NoRepeat(t) /\ ToSet(t) = ToSet(defer[w]) \ {e}
  BY <1>1, TailDrops
<1>3. /\ defer' = [defer EXCEPT ![w] = t] /\ w_event' = w_event /\ w_pc' = w_pc
      /\ queue' = queue /\ batch' = batch
  BY DEF DrainDefer, main_vars
<1> HIDE DEF e, t
<1>4. Len(t) <= Capacity
  BY <1>1, <1>2, PoolAssumption, SeqBasics DEF WorkersType
<1>5. /\ defer' \in [Worker -> Seq(Ext)] /\ \A v \in Worker : Len(defer'[v]) <= Capacity
      /\ defer'[w] = t /\ \A v \in Worker \ {w} : defer'[v] = defer[v]
  BY <1>2, <1>3, <1>4, RingUpdate DEF WorkersType
<1>6. WorkersType'
  BY <1>3, <1>5 DEF WorkersType
<1>7. Dropped(Content, Content', DeferOf(w), e)
  <2>1. PlacesOf(w)
    BY <1>3, <1>5, WorkerPlaces DEF OthersKept
  <2>2. /\ Content[DeferOf(w)] = ToSet(defer[w]) /\ Content'[DeferOf(w)] = ToSet(t)
        /\ \A x \in Places \ {DeferOf(w)} : Content'[x] = Content[x]
    BY <1>3, <1>5, <2>1, Zenon DEF PlacesOf
  <2> QED BY <1>2, <2>2, PlaceCases DEF Dropped
<1>8. Apart(Content') /\ \A x : Somewhere(Content', x) <=> Somewhere(Content, x) /\ x # e
  BY <1>7, DroppedApart DEF Single
<1>9. Somewhere(Content, e)
  BY <1>7 DEF Dropped, Somewhere
<1> QED BY <1>2, <1>3, <1>5, <1>6, <1>8, <1>9 DEF Single, e, Event

\* The dispatcher takes the next event of the batch.
LEMMA NextInBatchTakes ==
    ASSUME MainType, Single, NextInBatch
    PROVE  /\ batch' \in Seq(Event) /\ NoRepeat(batch')
           /\ Head(batch) \in Event /\ Head(batch) \in ToSet(batch)
           /\ ToSet(batch') = ToSet(batch) \ {Head(batch)}
<1>1. batch \in Seq(Event) /\ batch # <<>> /\ NoRepeat(batch)
  BY DEF MainType, NextInBatch, Single
<1>2. batch' = Tail(batch)
  BY DEF NextInBatch
<1> QED BY <1>1, <1>2, TailDrops

\* The worker's places do not change.
LEMMA WorkersKept ==
    ASSUME queue' = queue, defer' = defer, w_event' = w_event
    PROVE  /\ Content[Batch] = ToSet(batch) /\ Content'[Batch] = ToSet(batch')
           /\ \A x \in Places \ {Batch} : Content'[x] = Content[x]
<1>1. Content[Batch] = ToSet(batch) /\ Content'[Batch] = ToSet(batch')
  BY ContentAt DEF Content
<1>2. ASSUME NEW w \in Worker
      PROVE  /\ Content'[QueueOf(w)] = Content[QueueOf(w)]
             /\ Content'[DeferOf(w)] = Content[DeferOf(w)]
             /\ Content'[HandOf(w)] = Content[HandOf(w)]
  BY ContentNow
<1> QED BY <1>1, <1>2, PlaceCases

\* The dispatcher answers the next event of the batch.
LEMMA BatchDrops ==
    ASSUME MainType, Single, NextInBatch, queue' = queue, defer' = defer,
           w_event' = w_event
    PROVE  /\ Single' /\ Somewhere(Content, Head(batch)) /\ Head(batch) \in Event
           /\ \A x : Somewhere(Content', x) <=> Somewhere(Content, x) /\ x # Head(batch)
<1>1. /\ batch' \in Seq(Event) /\ NoRepeat(batch')
      /\ Head(batch) \in Event /\ Head(batch) \in ToSet(batch)
      /\ ToSet(batch') = ToSet(batch) \ {Head(batch)}
  BY NextInBatchTakes
<1>2. Dropped(Content, Content', Batch, Head(batch))
  BY <1>1, WorkersKept, PlaceCases DEF Dropped
<1>3. /\ Apart(Content')
      /\ \A x : Somewhere(Content', x) <=> Somewhere(Content, x) /\ x # Head(batch)
  BY <1>2, DroppedApart DEF Single
<1>4. Somewhere(Content, Head(batch))
  BY <1>2 DEF Dropped, Somewhere
<1> QED BY <1>1, <1>3, <1>4 DEF Single

\* The dispatcher hands the next event of the batch to a worker.
LEMMA EnqueueMoves ==
    ASSUME WorkersType, MainType, Single, HandleEnqueue
    PROVE  /\ WorkersType' /\ Single'
           /\ \A x : Somewhere(Content', x) <=> Somewhere(Content, x)
<1> DEFINE e == Head(batch)
           w == dispatcher_worker(e)
           t == Append(queue[w], e)
<1>1. /\ NextInBatch /\ e \in Ext /\ ~stopping /\ Len(queue[w]) # q_size
      /\ queue' = [queue EXCEPT ![w] = t] /\ defer' = defer /\ w_event' = w_event
      /\ w_pc' = w_pc
  BY DEF HandleEnqueue, decision_worker_pool_enqueue, Refused
<1>2. w \in Worker
  BY <1>1, DispatcherWorker
<1>3. /\ batch' \in Seq(Event) /\ NoRepeat(batch') /\ e \in ToSet(batch)
      /\ ToSet(batch') = ToSet(batch) \ {e}
  BY <1>1, NextInBatchTakes
<1>4. queue[w] \in Seq(Ext) /\ NoRepeat(queue[w]) /\ Len(queue[w]) <= q_size
  BY <1>2 DEF WorkersType, Single
<1>5. Content[Batch] = ToSet(batch) /\ Content[QueueOf(w)] = ToSet(queue[w])
  BY <1>2, ContentAt DEF Content
<1>6. e \notin ToSet(queue[w])
  BY <1>2, <1>3, <1>5, PlaceCases DEF Single, Apart
<1>7. /\ t \in Seq(Ext) /\ Len(t) = Len(queue[w]) + 1
      /\ NoRepeat(t) /\ ToSet(t) = ToSet(queue[w]) \cup {e}
  BY <1>1, <1>4, <1>6, AppendAdds
<1> HIDE DEF e, w, t
<1>8. Len(t) <= q_size
  BY <1>1, <1>4, <1>7, PoolAssumption, SeqBasics
<1>9. /\ queue' \in [Worker -> Seq(Ext)] /\ \A v \in Worker : Len(queue'[v]) <= q_size
      /\ queue'[w] = t /\ \A v \in Worker \ {w} : queue'[v] = queue[v]
  <2>1. queue \in [Worker -> Seq(Ext)] /\ \A v \in Worker : Len(queue[v]) <= q_size
    BY DEF WorkersType
  <2> QED BY <1>1, <1>2, <1>7, <1>8, <2>1, RingUpdate
<1>10. WorkersType'
  BY <1>1, <1>9 DEF WorkersType
<1>11. /\ Content'[Batch] = ToSet(batch') /\ Content'[QueueOf(w)] = ToSet(t)
       /\ \A x \in Places \ {Batch, QueueOf(w)} : Content'[x] = Content[x]
  <2>1. Content'[Batch] = ToSet(batch') /\ Content'[QueueOf(w)] = ToSet(t)
    BY <1>2, <1>9, ContentAt DEF Content
  <2>2. ASSUME NEW v \in Worker
        PROVE  /\ v # w => Content'[QueueOf(v)] = Content[QueueOf(v)]
               /\ Content'[DeferOf(v)] = Content[DeferOf(v)]
               /\ Content'[HandOf(v)] = Content[HandOf(v)]
    BY <1>1, <1>9, ContentNow, Zenon
  <2> QED BY <2>1, <2>2, PlaceCases
<1>12. Moved(Content, Content', Batch, QueueOf(w), e)
  BY <1>2, <1>3, <1>5, <1>7, <1>11, PlaceCases DEF Moved
<1>13. Apart(Content') /\ \A x : Somewhere(Content', x) <=> Somewhere(Content, x)
  BY <1>12, MovedApart DEF Single
<1> QED BY <1>1, <1>3, <1>7, <1>9, <1>10, <1>13 DEF Single

-----------------------------------------------------------------------------
(* Event fds and the kernel.                                                  *)

\* A step that moves events at most keeps the fds in order.
LEMMA MovedFds ==
    ASSUME Fds, kernel' = kernel, evfd' = evfd, group' = group, stop => stop',
           \A x : Somewhere(Content', x) <=> Somewhere(Content, x)
    PROVE  Fds'
BY DEF Fds, FdsOf

\* An answer, or an attempt at one: the event was somewhere and is no more, its fd
\* is closed, and the daemon has nothing more to do with it.
LEMMA AnsweredFds ==
    ASSUME GroupType, Fds, Control, NEW e \in Event, Somewhere(Content, e),
           reply_event(e) \/ reply_event_direct(e), stop' = stop,
           \A x : Somewhere(Content', x) <=> Somewhere(Content, x) /\ x # e
    PROVE  GroupType' /\ Fds' /\ stray' = stray /\ group' = group /\ number' = number
<1>1. evfd[e] = "open" /\ (group = "open" => kernel[e] = "read")
  BY DEF Fds, FdsOf
<1>2. group = "open" <=> number = "group"
  BY DEF Control, MainControl
<1>3. /\ evfd' = [evfd EXCEPT ![e] = "closed"] /\ NoteStray(e)
      /\ group' = group /\ number' = number
  BY DEF reply_event, reply_event_direct, CloseEvent, WriteResponse
<1>4. group = "open" =>
         \E a \in {"done", "unanswered"} : kernel' = [kernel EXCEPT ![e] = a]
  BY <1>1, <1>2 DEF reply_event, reply_event_direct, WriteResponse
<1>5. stray' = stray
  BY <1>1, <1>2, <1>3 DEF NoteStray
<1>6. GroupType'
  BY ReplyType, WriteType DEF reply_event_direct
<1>7. ASSUME NEW x \in Event
      PROVE  /\ Somewhere(Content', x) => evfd'[x] = "open"
             /\ evfd'[x] = "open" /\ ~Somewhere(Content', x) => stop'
             /\ group' = "open" => (kernel'[x] = "read" <=> evfd'[x] = "open")
  <2>1. /\ Somewhere(Content, x) => evfd[x] = "open"
        /\ evfd[x] = "open" /\ ~Somewhere(Content, x) => stop
        /\ group = "open" => (kernel[x] = "read" <=> evfd[x] = "open")
    BY DEF Fds, FdsOf
  <2>2. evfd'[x] = IF x = e THEN "closed" ELSE evfd[x]
    BY <1>3 DEF GroupType
  <2>3. group = "open" => IF x = e THEN kernel'[x] # "read" ELSE kernel'[x] = kernel[x]
    BY <1>4 DEF GroupType
  <2> QED BY <1>3, <2>1, <2>2, <2>3
<1>8. Fds'
  BY <1>7 DEF Fds, FdsOf
<1> QED BY <1>3, <1>5, <1>6, <1>8

\* The batch holds what was queued in the kernel, each event once; none of it
\* was anywhere before.
LEMMA ReadFills ==
    ASSUME GroupType, MainType, Single, Fds, Control, Read
    PROVE  GroupType' /\ MainType' /\ Single' /\ Fds' /\ stray' = stray
<1> DEFINE pending == {e \in Event : kernel[e] = "queued"}
<1>1. /\ group = "open" /\ group' = group /\ number' = number /\ stop' = stop
      /\ stray' = stray /\ misdirected' = misdirected /\ m_pc' = "stopcheck"
      /\ stopping' = stopping
      /\ queue' = queue /\ defer' = defer /\ w_event' = w_event
      /\ batch' \in SetToSeqs(pending) /\ batch = <<>>
  BY DEF Read, Control, MainControl, Operating, worker_vars
<1>2. /\ kernel' = [e \in Event |-> IF e \in pending THEN "read" ELSE kernel[e]]
      /\ evfd' = [e \in Event |-> IF e \in pending THEN "open" ELSE evfd[e]]
  BY DEF Read
<1>3. IsFiniteSet(pending)
  <2>1. pending \in SUBSET Event
    OBVIOUS
  <2> HIDE DEF pending
  <2> QED BY <2>1, EventFinite, FS_Subset
<1>4. batch' \in Seq(pending) /\ ToSet(batch') = pending /\ NoRepeat(batch')
  <2> HIDE DEF pending
  <2> QED BY <1>1, <1>3, SetToSeqsLists
<1>5. batch' \in Seq(Event)
  <2>1. pending \subseteq Event
    OBVIOUS
  <2> HIDE DEF pending
  <2> QED BY <1>4, <2>1
<1>6. /\ Content[Batch] = {} /\ Content'[Batch] = pending
      /\ \A x \in Places \ {Batch} : Content'[x] = Content[x]
  BY <1>1, <1>4, WorkersKept, EmptyBasics
<1>7. \A e \in pending : e \in Event /\ ~Somewhere(Content, e)
  BY <1>1 DEF Fds, FdsOf
<1>8. \A e \in Event : /\ kernel'[e] = IF e \in pending THEN "read" ELSE kernel[e]
                       /\ evfd'[e] = IF e \in pending THEN "open" ELSE evfd[e]
  BY <1>2
<1>9. GroupType'
  <2>1. /\ kernel' \in [Event -> {"none", "queued", "read", "unanswered", "done"}]
        /\ evfd' \in [Event -> {"none", "open", "closed"}]
    BY <1>2 DEF GroupType
  <2> QED BY <1>1, <2>1 DEF GroupType
<1>10. MainType'
  BY <1>1, <1>5 DEF MainType
<1> HIDE DEF pending
<1>11. Apart(Content')
  BY <1>6, <1>7, PlaceCases DEF Single, Apart, Somewhere
<1>12. \A x : Somewhere(Content', x) <=> Somewhere(Content, x) \/ x \in pending
  BY <1>6, PlaceCases DEF Somewhere
<1>13. Single'
  BY <1>1, <1>4, <1>11 DEF Single
<1>14. ASSUME NEW x \in Event
       PROVE  /\ Somewhere(Content', x) => evfd'[x] = "open"
              /\ evfd'[x] = "open" /\ ~Somewhere(Content', x) => stop'
              /\ group' = "open" => (kernel'[x] = "read" <=> evfd'[x] = "open")
  <2>1. /\ Somewhere(Content, x) => evfd[x] = "open"
        /\ evfd[x] = "open" /\ ~Somewhere(Content, x) => stop
        /\ kernel[x] = "read" <=> evfd[x] = "open"
    BY <1>1 DEF Fds, FdsOf
  <2> QED BY <1>1, <1>8, <1>12, <2>1
<1>15. Fds'
  BY <1>14 DEF Fds, FdsOf
<1> QED BY <1>1, <1>9, <1>10, <1>13, <1>15

\* A batch is abandoned only when the daemon was told to stop.
LEMMA StopCheckAbandons ==
    ASSUME MainType, Single, Fds, StopCheck
    PROVE  MainType' /\ Single' /\ Fds'
<1>1. /\ kernel' = kernel /\ evfd' = evfd /\ group' = group /\ stop' = stop
      /\ stopping' = stopping /\ queue' = queue /\ defer' = defer
      /\ w_event' = w_event /\ m_pc' \in {"poll", "batch"}
      /\ batch' = batch \/ (stop /\ batch' = <<>>)
  BY DEF StopCheck, group_vars, worker_vars
<1>2. batch' \in Seq(Event) /\ NoRepeat(batch') /\ ToSet(batch') \subseteq ToSet(batch)
  <2>1. <<>> \in Seq(Event)
    OBVIOUS
  <2>2. batch \in Seq(Event) /\ NoRepeat(batch)
    BY DEF MainType, Single
  <2>3. CASE batch' = batch
    BY <2>2, <2>3
  <2>4. CASE batch' = <<>>
    BY <2>1, <2>4, EmptyBasics
  <2> QED BY <1>1, <2>3, <2>4
<1>3. MainType'
  BY <1>1, <1>2 DEF MainType
<1>4. \A x \in Places : Content'[x] \subseteq Content[x]
  BY <1>1, <1>2, WorkersKept
<1>5. Apart(Content') /\ \A x : Somewhere(Content', x) => Somewhere(Content, x)
  BY <1>4 DEF Single, Apart, Somewhere
<1>6. Single'
  BY <1>1, <1>2, <1>5 DEF Single
<1>7. stop \/ Content' = Content
  BY <1>1 DEF Content
<1>8. Fds'
  BY <1>1, <1>5, <1>7 DEF Fds, FdsOf
<1> QED BY <1>3, <1>6, <1>8

\* The places hold what they held.
LEMMA ContentKept ==
    ASSUME batch' = batch, queue' = queue, defer' = defer, w_event' = w_event
    PROVE  Content' = Content /\ (Single => Single')
BY DEF Content, Single

\* An access is raised, or an answered one goes on.
LEMMA KernelStep ==
    ASSUME GroupType, Fds, Content' = Content, stop' = stop, evfd' = evfd,
           group' = group, number' = number, misdirected' = misdirected,
           stray' = stray, NEW e \in Event,
           \/ kernel[e] = "none" /\ kernel' = [kernel EXCEPT ![e] = "queued"]
           \/ kernel[e] = "done" /\ kernel' = [kernel EXCEPT ![e] = "none"]
    PROVE  GroupType' /\ Fds'
<1>1. kernel' \in [Event -> {"none", "queued", "read", "unanswered", "done"}]
  BY DEF GroupType
<1>2. \A x \in Event : kernel'[x] = "read" <=> kernel[x] = "read"
  BY DEF GroupType
<1>3. Fds'
  BY <1>2 DEF Fds, FdsOf
<1> QED BY <1>1, <1>3 DEF GroupType

\* The group is closed.
LEMMA ClosedFds ==
    ASSUME GroupType, Fds, Content' = Content, stop => stop', evfd' = evfd,
           kernel' = Released, group' = "closed", number' = "free",
           misdirected' = misdirected, stray' = stray
    PROVE  GroupType' /\ Fds'
<1>1. kernel' \in [Event -> {"none", "queued", "read", "unanswered", "done"}]
  BY DEF GroupType, Released, Waiting
<1>2. Fds'
  BY DEF Fds, FdsOf
<1> QED BY <1>1, <1>2 DEF GroupType

-----------------------------------------------------------------------------
(* Each step keeps the inductive invariant.                                   *)

Ownership == GroupType /\ MainType /\ WorkersType /\ Single /\ Fds /\ stray = {}

\* Steps of the main thread, of the kernel and of signals.
LEMMA MainStep ==
    ASSUME Ownership, Control, Terminate \/ Killed \/ PollError \/ Main \/ ReuseNumber
    PROVE  Ownership'
<1> USE DEF Ownership
<1>w. ASSUME worker_vars' = worker_vars
      PROVE  /\ WorkersType' /\ queue' = queue /\ defer' = defer /\ w_event' = w_event
             /\ batch' = batch => Content' = Content /\ Single'
  <2>1. queue' = queue /\ defer' = defer /\ w_event' = w_event /\ w_pc' = w_pc
    BY <1>w DEF worker_vars
  <2>2. WorkersType'
    BY <2>1 DEF WorkersType
  <2> QED BY <2>1, <2>2, ContentKept
<1>g. ASSUME group_vars' = group_vars, Content' = Content, stop => stop'
      PROVE  GroupType' /\ Fds' /\ stray' = {}
  <2>1. /\ kernel' = kernel /\ evfd' = evfd /\ group' = group /\ number' = number
        /\ misdirected' = misdirected /\ stray' = stray
    BY <1>g DEF group_vars
  <2> QED BY <1>g, <2>1, MovedFds DEF GroupType
<1>1. CASE Terminate
  <2>1. MainType'
    BY <1>1 DEF Terminate, MainType
  <2> QED BY <1>1, <1>w, <1>g, <2>1 DEF Terminate
<1>2. CASE ReuseNumber
  <2>1. MainType'
    BY <1>2 DEF ReuseNumber, MainType, main_vars
  <2>2. Content' = Content /\ Single' /\ WorkersType'
    BY <1>2, <1>w DEF ReuseNumber, main_vars
  <2>3. GroupType'
    BY <1>2 DEF ReuseNumber, GroupType
  <2>4. Fds'
    BY <1>2, <2>2, MovedFds DEF ReuseNumber, main_vars
  <2> QED BY <1>2, <2>1, <2>2, <2>3, <2>4 DEF ReuseNumber
<1>3. CASE Killed
  <2>1. MainType'
    BY <1>3 DEF Killed, MainType
  <2>2. Content' = Content /\ Single' /\ WorkersType'
    BY <1>3, <1>w DEF Killed
  <2>3. GroupType' /\ Fds'
    BY <1>3, <2>2, ClosedFds DEF Killed
  <2> QED BY <1>3, <2>1, <2>2, <2>3 DEF Killed
<1>4. CASE PollError \/ Shutdown
  <2>1. MainType'
    <3>1. /\ batch' = batch /\ stopping' = stopping
          /\ m_pc' = "exitupdate" \/ m_pc' = "waithelper"
      BY <1>4 DEF PollError, Shutdown, CloseGroup
    <3>2. stop' \in BOOLEAN
      BY <1>4, Zenon DEF PollError, Shutdown, MainType
    <3> QED BY <3>1, <3>2, Zenon DEF MainType
  <2>2. Content' = Content /\ Single' /\ WorkersType'
    BY <1>4, <1>w DEF PollError, Shutdown, CloseGroup
  <2>3. GroupType' /\ Fds'
    BY <1>4, <2>2, ClosedFds DEF PollError, Shutdown, CloseGroup
  <2> QED BY <1>4, <2>1, <2>2, <2>3 DEF PollError, Shutdown, CloseGroup
<1>5. CASE Read
  BY <1>5, <1>w, ReadFills DEF Read
<1>6. CASE StopCheck
  <2>1. MainType' /\ Single' /\ Fds'
    BY <1>6, StopCheckAbandons
  <2>2. GroupType' /\ stray' = {}
    BY <1>6 DEF StopCheck, GroupType, group_vars
  <2> QED BY <1>6, <1>w, <2>1, <2>2 DEF StopCheck
<1>7. CASE HandleOwn \/ HandleRefused
  <2>1. /\ NextInBatch /\ reply_event(Head(batch)) /\ stop' = stop /\ m_pc' = m_pc
        /\ stopping' = stopping /\ worker_vars' = worker_vars
    BY <1>7 DEF HandleOwn, HandleRefused
  <2>2. /\ Single' /\ Somewhere(Content, Head(batch)) /\ Head(batch) \in Event
        /\ \A x : Somewhere(Content', x) <=> Somewhere(Content, x) /\ x # Head(batch)
    BY <2>1, <1>w, BatchDrops
  <2>3. GroupType' /\ Fds' /\ stray' = stray
    BY <2>1, <2>2, AnsweredFds
  <2>4. MainType'
    BY <2>1, NextInBatchTakes DEF MainType
  <2> QED BY <2>1, <2>2, <2>3, <2>4, <1>w
<1>8. CASE HandleEnqueue
  <2>1. /\ NextInBatch /\ group_vars' = group_vars /\ stop' = stop /\ m_pc' = m_pc
        /\ stopping' = stopping
    BY <1>8 DEF HandleEnqueue
  <2>2. /\ WorkersType' /\ Single'
        /\ \A x : Somewhere(Content', x) <=> Somewhere(Content, x)
    BY <1>8, EnqueueMoves
  <2>3. /\ kernel' = kernel /\ evfd' = evfd /\ group' = group /\ number' = number
        /\ misdirected' = misdirected /\ stray' = stray
    BY <2>1 DEF group_vars
  <2>4. Fds' /\ GroupType'
    BY <2>1, <2>2, <2>3, MovedFds DEF GroupType
  <2>5. MainType'
    BY <2>1, NextInBatchTakes DEF MainType
  <2> QED BY <2>2, <2>3, <2>4, <2>5
<1>9. CASE BatchDone \/ ExitAfterPollError \/ WaitHelper \/ BeginShutdown \/ Join
  <2>1. /\ batch' = batch /\ group_vars' = group_vars
        /\ worker_vars' = worker_vars /\ stop' = stop
        /\ \/ m_pc' = "poll" \/ m_pc' = "killed" \/ m_pc' = "begin" \/ m_pc' = "join"
           \/ m_pc' = "done"
    BY <1>9 DEF BatchDone, ExitAfterPollError, WaitHelper, BeginShutdown, Join
  <2>2. stopping' \in BOOLEAN
    BY <1>9, Zenon DEF BatchDone, ExitAfterPollError, WaitHelper, BeginShutdown, Join,
                       MainType
  <2>3. MainType'
    BY <2>1, <2>2, Zenon DEF MainType
  <2> QED BY <2>1, <2>3, <1>w, <1>g
<1> QED
  BY <1>1, <1>2, <1>3, <1>4, <1>5, <1>6, <1>7, <1>8, <1>9 DEF Main

\* Steps of a worker.
LEMMA WorkerStepKeeps ==
    ASSUME Ownership, Control, NEW w \in Worker, WorkerStep(w)
    PROVE  Ownership'
<1> USE DEF Ownership
<1>m. main_vars' = main_vars
  BY DEF WorkerStep, LoopTest, Dequeue, DequeueNothing, ReleaseReady, Park, Proceed,
         DecideOpen, DecideOpened, Decide, Reply, ReleaseSlot, ReleaseNone,
         DrainQueue, DrainDefer, Exit
<1>n. MainType' /\ batch' = batch /\ stop' = stop
  BY <1>m DEF main_vars, MainType
<1>g. ASSUME group_vars' = group_vars,
             \A x : Somewhere(Content', x) <=> Somewhere(Content, x)
      PROVE  GroupType' /\ Fds' /\ stray' = {}
  <2>1. /\ kernel' = kernel /\ evfd' = evfd /\ group' = group /\ number' = number
        /\ misdirected' = misdirected /\ stray' = stray
    BY <1>g DEF group_vars
  <2> QED BY <1>n, <1>g, <2>1, MovedFds DEF GroupType
<1>k. ASSUME queue' = queue, defer' = defer, w_event' = w_event,
             NEW p \in {"loop", "wait", "dispatch", "decide", "open",
                        "reply", "release", "drain", "exited"}, Goto(w, p)
      PROVE  WorkersType' /\ Content' = Content /\ Single'
  <2>1. WorkersType'
    BY <1>k DEF WorkersType, Goto
  <2> QED BY <1>n, <1>k, <2>1, ContentKept
<1>1. CASE LoopTest(w) \/ DequeueNothing(w) \/ Proceed(w) \/ Decide(w)
           \/ ReleaseNone(w) \/ Exit(w)
  <2>1. /\ queue' = queue /\ defer' = defer /\ w_event' = w_event
        /\ group_vars' = group_vars
        /\ \E p \in {"drain", "wait", "loop", "decide", "reply", "exited"} : Goto(w, p)
    BY <1>1 DEF LoopTest, DequeueNothing, Proceed, Decide, ReleaseNone, Exit
  <2> QED BY <2>1, <1>n, <1>g, <1>k
<1>2. CASE Dequeue(w)
  <2>1. /\ WorkersType' /\ Single'
        /\ \A x : Somewhere(Content', x) <=> Somewhere(Content, x)
    BY <1>2, DequeueMoves
  <2>2. group_vars' = group_vars
    BY <1>2 DEF Dequeue
  <2> QED BY <2>1, <2>2, <1>n, <1>g
<1>3. CASE ReleaseReady(w) \/ ReleaseSlot(w)
  <2>1. Release(w) /\ group_vars' = group_vars
    BY <1>3, <1>n DEF ReleaseReady, ReleaseSlot, Release
  <2>2. w_event[w] = NoEvent
    BY <1>3 DEF ReleaseReady, ReleaseSlot, At, Control, WorkerControl, Busy
  <2>3. /\ WorkersType' /\ Single'
        /\ \A x : Somewhere(Content', x) <=> Somewhere(Content, x)
    BY <2>1, <2>2, ReleaseMoves
  <2> QED BY <2>1, <2>3, <1>n, <1>g
<1>4. CASE Park(w)
  <2>1. /\ WorkersType' /\ Single'
        /\ \A x : Somewhere(Content', x) <=> Somewhere(Content, x)
    BY <1>4, ParkMoves
  <2>2. group_vars' = group_vars
    BY <1>4 DEF Park
  <2> QED BY <2>1, <2>2, <1>n, <1>g
<1>5. CASE DecideOpen(w)
  <2>1. <<"worker", w>> \in Event
    BY DEF Event, Own
  <2>2. WorkersType' /\ Content' = Content /\ Single'
    <3>1. Goto(w, "open") /\ queue' = queue /\ defer' = defer /\ w_event' = w_event
      BY <1>5 DEF DecideOpen
    <3> QED BY <3>1, <1>k
  <2>3. /\ evfd' = evfd /\ group' = group /\ number' = number
        /\ misdirected' = misdirected /\ stray' = stray
    BY <1>5 DEF DecideOpen
  <2>4. kernel[<<"worker", w>>] = "none" /\ kernel' = [kernel EXCEPT ![<<"worker", w>>] = "queued"]
    BY <1>5 DEF DecideOpen, Raise
  <2>5. GroupType' /\ Fds'
    BY <1>n, <2>1, <2>2, <2>3, <2>4, KernelStep, Zenon
  <2> QED BY <1>n, <2>2, <2>3, <2>5
<1>6. CASE DecideOpened(w)
  <2>1. <<"worker", w>> \in Event
    BY DEF Event, Own
  <2>2. WorkersType' /\ Content' = Content /\ Single'
    <3>1. Goto(w, "reply") /\ queue' = queue /\ defer' = defer /\ w_event' = w_event
      BY <1>6 DEF DecideOpened
    <3> QED BY <3>1, <1>k
  <2>3. /\ evfd' = evfd /\ group' = group /\ number' = number
        /\ misdirected' = misdirected /\ stray' = stray
    BY <1>6 DEF DecideOpened
  <2>4. kernel[<<"worker", w>>] = "done" /\ kernel' = [kernel EXCEPT ![<<"worker", w>>] = "none"]
    BY <1>6 DEF DecideOpened
  <2>5. GroupType' /\ Fds'
    BY <1>n, <2>1, <2>2, <2>3, <2>4, KernelStep, Zenon
  <2> QED BY <1>n, <2>2, <2>3, <2>5
<1>7. CASE Reply(w)
  <2>1. /\ WorkersType' /\ Single' /\ Somewhere(Content, w_event[w])
        /\ w_event[w] \in Event
        /\ \A x : Somewhere(Content', x) <=> Somewhere(Content, x) /\ x # w_event[w]
    BY <1>7, ReplyDrops
  <2>2. reply_event_direct(w_event[w])
    BY <1>7 DEF Reply
  <2>3. GroupType' /\ Fds' /\ stray' = stray
    BY <1>n, <2>1, <2>2, AnsweredFds
  <2> QED BY <1>n, <2>1, <2>3
<1>8. CASE DrainQueue(w)
  <2>1. /\ WorkersType' /\ Single' /\ Somewhere(Content, Head(queue[w]))
        /\ Head(queue[w]) \in Event
        /\ \A x : Somewhere(Content', x)
                  <=> Somewhere(Content, x) /\ x # Head(queue[w])
    BY <1>8, DrainQueueDrops
  <2>2. reply_event(Head(queue[w]))
    BY <1>8 DEF DrainQueue
  <2>3. GroupType' /\ Fds' /\ stray' = stray
    BY <1>n, <2>1, <2>2, AnsweredFds
  <2> QED BY <1>n, <2>1, <2>3
<1>9. CASE DrainDefer(w)
  <2>1. /\ WorkersType' /\ Single' /\ Somewhere(Content, Head(defer[w]))
        /\ Head(defer[w]) \in Event
        /\ \A x : Somewhere(Content', x)
                  <=> Somewhere(Content, x) /\ x # Head(defer[w])
    BY <1>9, DrainDeferDrops
  <2>2. reply_event(Head(defer[w]))
    BY <1>9 DEF DrainDefer
  <2>3. GroupType' /\ Fds' /\ stray' = stray
    BY <1>n, <2>1, <2>2, AnsweredFds
  <2> QED BY <1>n, <2>1, <2>3
<1> QED
  BY <1>1, <1>2, <1>3, <1>4, <1>5, <1>6, <1>7, <1>8, <1>9 DEF WorkerStep

\* Steps of the monitored processes and of the helper threads.
LEMMA OtherStepKeeps ==
    ASSUME Ownership,
           \/ \E e \in Ext : Access(e)
           \/ \E h \in Helpers : HelperStart(h) \/ HelperOpen(h) \/ HelperOpened(h)
                                 \/ HelperFinish(h)
           \/ UNCHANGED vars
    PROVE  Ownership'
<1> USE DEF Ownership
<1>1. main_vars' = main_vars /\ worker_vars' = worker_vars
  BY Zenon DEF Access, HelperStart, HelperOpen, HelperOpened, HelperFinish, vars
<1>2. /\ batch' = batch /\ stop' = stop /\ stopping' = stopping /\ m_pc' = m_pc
      /\ queue' = queue /\ defer' = defer /\ w_event' = w_event /\ w_pc' = w_pc
  BY <1>1 DEF main_vars, worker_vars
<1>3. MainType' /\ WorkersType'
  BY <1>2 DEF MainType, WorkersType
<1>4. Content' = Content /\ Single'
  BY <1>2, ContentKept
<1>5. CASE group_vars' = group_vars
  <2>1. /\ kernel' = kernel /\ evfd' = evfd /\ group' = group /\ number' = number
        /\ misdirected' = misdirected /\ stray' = stray
    BY <1>5 DEF group_vars
  <2> QED BY <1>2, <1>3, <1>4, <2>1, MovedFds DEF GroupType
<1>6. ASSUME NEW e \in Event,
             \/ kernel[e] = "none" /\ kernel' = [kernel EXCEPT ![e] = "queued"]
             \/ kernel[e] = "done" /\ kernel' = [kernel EXCEPT ![e] = "none"],
             evfd' = evfd, group' = group, number' = number,
             misdirected' = misdirected, stray' = stray
      PROVE  Ownership'
  <2>1. GroupType' /\ Fds'
    BY <1>2, <1>4, <1>6, KernelStep, Zenon
  <2> QED BY <1>3, <1>4, <1>6, <2>1
<1>7. CASE \E e \in Ext : Access(e)
  <2>1. PICK e \in Ext : Access(e)
    BY <1>7
  <2>2. e \in Event
    BY DEF Event
  <2> QED BY <1>6, <2>1, <2>2, Zenon DEF Access, Raise
<1>8. CASE \E h \in Helpers : HelperOpen(h) \/ HelperOpened(h)
  <2>1. PICK h \in Helpers : HelperOpen(h) \/ HelperOpened(h)
    BY <1>8
  <2>2. <<"helper", h>> \in Event
    BY DEF Event, Own
  <2> QED BY <1>6, <2>1, <2>2 DEF HelperOpen, HelperOpened, Raise
<1>9. CASE (\E h \in Helpers : HelperStart(h) \/ HelperFinish(h)) \/ UNCHANGED vars
  BY <1>5, <1>9 DEF HelperStart, HelperFinish, vars
<1> QED BY <1>7, <1>8, <1>9

\* The helper threads' own variable.
LEMMA HelpersStep ==
    ASSUME HelpersType, [Next]_vars
    PROVE  HelpersType'
<1>1. CASE \E h \in Helpers : HelperStart(h) \/ HelperOpen(h) \/ HelperOpened(h)
                              \/ HelperFinish(h)
  BY <1>1 DEF HelperStart, HelperOpen, HelperOpened, HelperFinish, HelperGoto, HelpersType
<1>2. CASE h_pc' = h_pc
  BY <1>2 DEF HelpersType
<1>3. ASSUME NEW w \in Worker, WorkerStep(w) PROVE h_pc' = h_pc
  BY <1>3 DEF WorkerStep, LoopTest, Dequeue, DequeueNothing, ReleaseReady, Park, Proceed,
         DecideOpen, DecideOpened, Decide, Reply, ReleaseSlot, ReleaseNone,
         DrainQueue, DrainDefer, Exit
<1>4. CASE Main
  BY <1>2, <1>4 DEF Main, Read, StopCheck, HandleOwn, HandleEnqueue, HandleRefused,
     BatchDone, Shutdown, CloseGroup, ExitAfterPollError, WaitHelper, BeginShutdown, Join
<1>5. CASE (\E e \in Ext : Access(e)) \/ ReuseNumber \/ Terminate \/ Killed \/ PollError
           \/ UNCHANGED vars
  BY <1>2, <1>5 DEF Access, ReuseNumber, Terminate, Killed, PollError, CloseGroup, vars
<1> QED BY <1>1, <1>2, <1>3, <1>4, <1>5 DEF Next

\* Where the main thread stands tells whether the group is open, whether a batch
\* can be left and whether admission is closed.
LEMMA MainControlStep ==
    ASSUME GroupType, MainType, MainControl, [Next]_vars
    PROVE  MainControl'
<1> USE DEF MainControl, Operating
<1>1. CASE main_vars' = main_vars /\ group' = group /\ number' = number
  BY <1>1 DEF main_vars
<1>2. ASSUME NEW w \in Worker, WorkerStep(w) PROVE MainControl'
  <2>1. main_vars' = main_vars /\ group' = group /\ number' = number
    BY <1>2 DEF WorkerStep, LoopTest, Dequeue, DequeueNothing, ReleaseReady, Park, Proceed,
         DecideOpen, DecideOpened, Decide, Reply, ReleaseSlot, ReleaseNone,
         DrainQueue, DrainDefer, Exit, group_vars, reply_event, reply_event_direct,
         WriteResponse
  <2> QED BY <2>1, <1>1
<1>3. CASE Read \/ StopCheck \/ HandleOwn \/ HandleEnqueue \/ HandleRefused \/ BatchDone
  <2>1. /\ group' = group /\ number' = number /\ stopping' = stopping
        /\ m_pc \in Operating /\ m_pc' \in Operating
    BY <1>3 DEF Read, StopCheck, HandleOwn, HandleEnqueue, HandleRefused, BatchDone,
       NextInBatch, group_vars, reply_event, WriteResponse
  <2>2. batch' # <<>> => m_pc' \in {"stopcheck", "batch"}
    BY <1>3 DEF Read, StopCheck, HandleOwn, HandleEnqueue, HandleRefused, BatchDone,
       NextInBatch
  <2> QED BY <2>1, <2>2
<1>4. CASE Shutdown \/ PollError \/ Killed
  BY <1>4 DEF Shutdown, PollError, Killed, CloseGroup
<1>5. CASE ExitAfterPollError \/ WaitHelper \/ BeginShutdown \/ Join
  BY <1>5 DEF ExitAfterPollError, WaitHelper, BeginShutdown, Join, group_vars
<1>6. CASE Terminate \/ ReuseNumber
  BY <1>6 DEF Terminate, ReuseNumber, group_vars, main_vars
<1>7. CASE \/ \E e \in Ext : Access(e)
           \/ \E h \in Helpers : HelperStart(h) \/ HelperOpen(h) \/ HelperOpened(h)
                                 \/ HelperFinish(h)
           \/ UNCHANGED vars
  BY <1>1, <1>7, Zenon DEF Access, HelperStart, HelperOpen, HelperOpened, HelperFinish, vars,
     group_vars
<1> QED BY <1>2, <1>3, <1>4, <1>5, <1>6, <1>7 DEF Next, Main

\* A worker that has left its loop was told to stop, one that has exited left
\* nothing behind, and nothing is handed to it afterwards.
LEMMA WorkerControlStep ==
    ASSUME MainType, WorkersType, MainControl, NEW v \in Worker, WorkerControl(v),
           [Next]_vars
    PROVE  WorkerControl(v)'
<1> USE DEF WorkerControl, Busy
<1>1. CASE worker_vars' = worker_vars /\ stopping' = stopping /\ m_pc' # "done"
  BY <1>1 DEF worker_vars
<1>2. CASE worker_vars' = worker_vars /\ stopping' = stopping /\ m_pc' = m_pc
  BY <1>2 DEF worker_vars
<1>3. ASSUME NEW w \in Worker, WorkerStep(w) PROVE WorkerControl(v)'
  <2>1. stopping' = stopping /\ m_pc' = m_pc /\ ~Exited
    BY <1>3 DEF WorkerStep, LoopTest, Dequeue, DequeueNothing, ReleaseReady, Park, Proceed,
         DecideOpen, DecideOpened, Decide, Reply, ReleaseSlot, ReleaseNone,
         DrainQueue, DrainDefer, Exit, At, main_vars
  <2>2. CASE w # v
    <3>1. /\ queue'[v] = queue[v] /\ defer'[v] = defer[v] /\ w_pc'[v] = w_pc[v]
          /\ w_event'[v] = w_event[v]
      BY <1>3, <2>2 DEF WorkerStep, LoopTest, Dequeue, DequeueNothing, ReleaseReady, Park,
         Proceed, DecideOpen, DecideOpened, Decide, Reply, ReleaseSlot, ReleaseNone,
         DrainQueue, DrainDefer, Exit, Goto, Hold, WorkersType
    <3> QED BY <2>1, <3>1
  <2>3. CASE w = v
    <3>1. CASE LoopTest(v) \/ DequeueNothing(v) \/ Proceed(v) \/ DecideOpen(v)
               \/ DecideOpened(v) \/ Decide(v) \/ ReleaseNone(v) \/ Exit(v)
      BY <2>1, <3>1 DEF LoopTest, DequeueNothing, Proceed, DecideOpen, DecideOpened,
         Decide, ReleaseNone, Exit, At, Goto, WorkersType, Exited
    <3>2. CASE Dequeue(v)
      <4>1. Head(queue[v]) \in Ext
        BY <3>2 DEF Dequeue, WorkersType
      <4>2. Head(queue[v]) # NoEvent
        BY <4>1 DEF Ext, NoEvent
      <4> QED BY <2>1, <3>2, <4>2 DEF Dequeue, At, Goto, Hold, WorkersType, Exited
    <3>3. CASE ReleaseReady(v) \/ ReleaseSlot(v)
      <4>1. PICK i \in DOMAIN defer[v] : Hold(v, defer[v][i])
        BY <3>3 DEF ReleaseReady, ReleaseSlot
      <4>2. defer[v][i] \in Ext
        BY DEF WorkersType
      <4>3. defer[v][i] # NoEvent
        BY <4>2 DEF Ext, NoEvent
      <4>4. w_pc'[v] = "decide" /\ w_event'[v] = defer[v][i]
        BY <3>3, <4>1 DEF ReleaseReady, ReleaseSlot, Goto, Hold, WorkersType
      <4> QED BY <2>1, <4>3, <4>4 DEF Exited
    <3>4. CASE Park(v) \/ Reply(v)
      BY <2>1, <3>4 DEF Park, Reply, At, Goto, Hold, WorkersType, Exited
    <3>5. CASE DrainQueue(v) \/ DrainDefer(v)
      BY <2>1, <3>5 DEF DrainQueue, DrainDefer, At, WorkersType, Exited
    <3> QED BY <1>3, <2>3, <3>1, <3>2, <3>3, <3>4, <3>5 DEF WorkerStep
  <2> QED BY <2>2, <2>3
<1>4. CASE HandleEnqueue
  <2>1. w_pc[v] # "exited"
    BY <1>4 DEF HandleEnqueue, NextInBatch, MainControl
  <2> QED BY <1>4, <2>1 DEF HandleEnqueue
<1>5. CASE Read \/ StopCheck \/ HandleOwn \/ HandleRefused \/ BatchDone
           \/ Shutdown \/ PollError \/ Killed \/ ExitAfterPollError \/ WaitHelper
  BY <1>5, <1>1 DEF Read, StopCheck, HandleOwn, HandleRefused, BatchDone, NextInBatch,
     Shutdown, PollError, Killed, CloseGroup, ExitAfterPollError, WaitHelper
<1>6. CASE BeginShutdown \/ Join
  BY <1>6 DEF BeginShutdown, Join, worker_vars
<1>7. CASE \/ \E e \in Ext : Access(e)
           \/ \E h \in Helpers : HelperStart(h) \/ HelperOpen(h) \/ HelperOpened(h)
                                 \/ HelperFinish(h)
           \/ Terminate \/ ReuseNumber \/ UNCHANGED vars
  BY <1>2, <1>7, Zenon DEF Access, HelperStart, HelperOpen, HelperOpened, HelperFinish, vars,
     main_vars, Terminate, ReuseNumber
<1> QED BY <1>3, <1>4, <1>5, <1>6, <1>7 DEF Next, Main

-----------------------------------------------------------------------------
(* The theorems.                                                              *)

LEMMA NextIInv == IInv /\ [Next]_vars => IInv'
<1> SUFFICES ASSUME IInv, [Next]_vars PROVE IInv'
  OBVIOUS
<1>1. Ownership /\ Control /\ HelpersType
  BY Types DEF IInv, Ownership
<1>2. Ownership'
  BY <1>1, MainStep, WorkerStepKeeps, OtherStepKeeps DEF Next
<1>3. HelpersType'
  BY <1>1, HelpersStep
<1>4. MainControl'
  BY <1>1, MainControlStep DEF Ownership, Control
<1>5. \A w \in Worker : WorkerControl(w)'
  BY <1>1, WorkerControlStep DEF Ownership, Control
<1>6. Control'
  BY <1>4, <1>5 DEF Control
<1>7. TypeOK'
  <2>1. (GroupType /\ MainType /\ WorkersType /\ HelpersType)'
    BY <1>2, <1>3 DEF Ownership
  <2> QED BY <2>1, Zenon DEF TypeOK, GroupType, MainType, WorkersType, HelpersType
<1> QED BY <1>2, <1>6, <1>7 DEF IInv, Ownership

\* What decision_worker_pool_*(), handle_events() and the shutdown sequence
\* keep between them, whatever the interleaving of their steps.
THEOREM Ownership_Invariant == Spec => []IInv
<1>1. UNCHANGED vars => [Next]_vars
  OBVIOUS
<1> QED BY InitIInv, NextIInv, PTL DEF Spec

\* Every variable keeps its type; in particular no ring holds more than q_size
\* events and no defer array more than its capacity.
THEOREM Pool_TypeOK == Spec => []TypeOK
<1>1. IInv => TypeOK
  BY DEF IInv
<1> QED BY <1>1, Ownership_Invariant, PTL

\* A holder of e is a place that contains e, and a position there.
HeldAt(x, e, p) ==
    \/ p = Batch /\ \E i \in DOMAIN batch : batch[i] = e /\ x = <<"batch", i>>
    \/ \E w \in Worker :
          \/ p = HandOf(w) /\ w_event[w] = e /\ x = <<"current", w>>
          \/ p = QueueOf(w) /\ \E i \in DOMAIN queue[w] :
                                  queue[w][i] = e /\ x = <<"queue", w, i>>
          \/ p = DeferOf(w) /\ \E i \in DOMAIN defer[w] :
                                  defer[w][i] = e /\ x = <<"defer", w, i>>

LEMMA HolderPlace ==
    ASSUME NEW e \in Event, NEW x \in Holders(e)
    PROVE  \E p \in Places : HeldAt(x, e, p) /\ e \in Content[p]
<1>1. PICK p \in Places : HeldAt(x, e, p)
  <2>1. CASE \E i \in DOMAIN batch : batch[i] = e /\ x = <<"batch", i>>
    BY <2>1, PlaceCases DEF HeldAt
  <2>2. ASSUME NEW w \in Worker, w_event[w] = e, x = <<"current", w>>
        PROVE  \E p \in Places : HeldAt(x, e, p)
    BY <2>2, PlaceCases DEF HeldAt
  <2>3. ASSUME NEW w \in Worker, NEW i \in DOMAIN queue[w], queue[w][i] = e,
               x = <<"queue", w, i>>
        PROVE  \E p \in Places : HeldAt(x, e, p)
    BY <2>3, PlaceCases DEF HeldAt
  <2>4. ASSUME NEW w \in Worker, NEW i \in DOMAIN defer[w], defer[w][i] = e,
               x = <<"defer", w, i>>
        PROVE  \E p \in Places : HeldAt(x, e, p)
    BY <2>4, PlaceCases DEF HeldAt
  <2> QED BY <2>1, <2>2, <2>3, <2>4 DEF Holders
<1>2. e \in Content[p]
  <2>1. e # NoEvent
    BY NoEventOutside
  <2> QED BY <1>1, <2>1, ContentAt DEF HeldAt, Content, ToSet
<1> QED BY <1>1, <1>2

LEMMA PlaceHolder ==
    ASSUME NEW e \in Event, Somewhere(Content, e)
    PROVE  Holders(e) # {}
<1>1. PICK p \in Places : e \in Content[p]
  BY DEF Somewhere
<1>2. CASE p = Batch
  <2>1. PICK i \in DOMAIN batch : batch[i] = e
    BY <1>1, <1>2, ContentAt DEF Content, ToSet
  <2>2. <<"batch", i>> \in Holders(e)
    BY <2>1 DEF Holders
  <2> QED BY <2>2
<1>3. ASSUME NEW w \in Worker, p = QueueOf(w) PROVE Holders(e) # {}
  <2>1. PICK i \in DOMAIN queue[w] : queue[w][i] = e
    BY <1>1, <1>3, ContentAt DEF Content, ToSet
  <2>2. <<"queue", w, i>> \in Holders(e)
    BY <2>1 DEF Holders
  <2> QED BY <2>2
<1>4. ASSUME NEW w \in Worker, p = DeferOf(w) PROVE Holders(e) # {}
  <2>1. PICK i \in DOMAIN defer[w] : defer[w][i] = e
    BY <1>1, <1>4, ContentAt DEF Content, ToSet
  <2>2. <<"defer", w, i>> \in Holders(e)
    BY <2>1 DEF Holders
  <2> QED BY <2>2
<1>5. ASSUME NEW w \in Worker, p = HandOf(w) PROVE Holders(e) # {}
  <2>1. w_event[w] = e
    BY <1>1, <1>5, ContentAt DEF Content
  <2>2. <<"current", w>> \in Holders(e)
    BY <2>1 DEF Holders
  <2> QED BY <2>2
<1> QED BY <1>2, <1>3, <1>4, <1>5, PlaceCases

LEMMA OneHolder ==
    ASSUME Single, NEW e \in Event, NEW x \in Holders(e), NEW y \in Holders(e)
    PROVE  x = y
<1>1. PICK p \in Places : HeldAt(x, e, p) /\ e \in Content[p]
  BY HolderPlace
<1>2. PICK r \in Places : HeldAt(y, e, r) /\ e \in Content[r]
  BY HolderPlace
<1>3. p = r
  BY <1>1, <1>2 DEF Single, Apart
<1>4. /\ NoRepeat(batch)
      /\ \A w \in Worker : NoRepeat(queue[w]) /\ NoRepeat(defer[w])
  BY DEF Single
<1>5. CASE p = Batch
  BY <1>1, <1>2, <1>3, <1>4, <1>5, PlaceCases DEF HeldAt, NoRepeat
<1>6. ASSUME NEW w \in Worker, p = QueueOf(w) \/ p = DeferOf(w) \/ p = HandOf(w)
      PROVE  x = y
  <2>1. \A v \in Worker : p \in {QueueOf(v), DeferOf(v), HandOf(v)} => v = w
    BY <1>6 DEF QueueOf, DeferOf, HandOf
  <2>2. p # Batch
    BY <1>6, PlaceCases
  <2>3. CASE p = QueueOf(w)
    BY <1>1, <1>2, <1>3, <1>4, <2>1, <2>2, <2>3, PlaceCases DEF HeldAt, NoRepeat
  <2>4. CASE p = DeferOf(w)
    BY <1>1, <1>2, <1>3, <1>4, <2>1, <2>2, <2>4, PlaceCases DEF HeldAt, NoRepeat
  <2>5. CASE p = HandOf(w)
    BY <1>1, <1>2, <1>3, <2>1, <2>2, <2>5, PlaceCases DEF HeldAt
  <2> QED BY <1>6, <2>3, <2>4, <2>5
<1> QED BY <1>5, <1>6, PlaceCases

\* From the read to its close a permission fd has one owner, whoever hands it
\* on, and only a stop abandons one.
THEOREM Pool_OwnedOnce == Spec => []OwnedOnce
<1>1. IInv => OwnedOnce
  <2> SUFFICES ASSUME IInv, NEW e \in Event
               PROVE  /\ Cardinality(Holders(e)) <= 1
                      /\ Holders(e) # {} => evfd[e] = "open"
                      /\ evfd[e] = "open" /\ Holders(e) = {} => stop
    BY DEF OwnedOnce
  <2>1. Cardinality(Holders(e)) <= 1
    <3>1. CASE Holders(e) = {}
      <4>1. Cardinality(Holders(e)) = 0
        BY <3>1, FS_EmptySet
      <4> QED BY <4>1
    <3>2. CASE Holders(e) # {}
      <4>1. PICK x : x \in Holders(e)
        BY <3>2
      <4>2. Holders(e) = {x}
        BY <4>1, OneHolder DEF IInv
      <4>3. Cardinality(Holders(e)) = 1
        BY <4>2, FS_Singleton, Zenon
      <4> QED BY <4>3
    <3> QED BY <3>1, <3>2
  <2>2. Holders(e) # {} <=> Somewhere(Content, e)
    BY HolderPlace, PlaceHolder DEF Somewhere
  <2> QED BY <2>1, <2>2 DEF IInv, Fds, FdsOf
<1> QED BY <1>1, Ownership_Invariant, PTL

\* No response is written, and no fd closed, for an event that nobody owns.
THEOREM Pool_AnsweredOnce == Spec => []AnsweredOnce
<1>1. IInv => AnsweredOnce
  BY DEF IInv, AnsweredOnce
<1> QED BY <1>1, Ownership_Invariant, PTL

\* Once the workers are joined, nothing is left with any of them.
THEOREM Pool_DrainedAtExit == Spec => []DrainedAtExit
<1>1. IInv => DrainedAtExit
  BY DEF IInv, Control, WorkerControl, Busy, DrainedAtExit
<1> QED BY <1>1, Ownership_Invariant, PTL

=============================================================================
