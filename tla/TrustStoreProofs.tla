-------------------------- MODULE TrustStoreProofs --------------------------
(* The generations of the trust database implement a store with one content,  *)
(* for any number of workers, records, slots, failures and crashes.           *)
EXTENDS TrustDbStore, TrustDbProofs

\* What startup publishes is what it loaded.
StartupLoaded ==
    Startup /\ upd.pc \in {"swap", "reclaim", "flush"} => expect = loaded

Undoable == {"swap", "reopen", "restore"}
StillReading ==
    \A w \in Workers :
        /\ reader'[w].gen = reader[w].gen
        /\ reader[w].gen # None => file'.db[reader[w].gen.name] = file.db[reader[w].gen.name]

\* What the store holds, while the daemon serves and before.
InStore ==
    /\ Serving =>
          /\ Disk = {expect}
          /\ active = None => View = {}
          /\ active # None => View = {IF upd.pc = "swap" THEN upd.kept ELSE expect}
          /\ upd.pc \in Undoable => Spare = {upd.kept}
          /\ upd.pc \notin Undoable => Spare = {}
    /\ ~Serving => View = {} /\ Spare = {} /\ Reading = Store!NoLookups

LEMMA StoreState == TInv => InStore
<1>1. ASSUME TInv, Serving
      PROVE  /\ Disk = {expect}
             /\ active = None => View = {}
             /\ active # None => View = {IF upd.pc = "swap" THEN upd.kept ELSE expect}
             /\ upd.pc \in Undoable => Spare = {upd.kept}
             /\ upd.pc \notin Undoable => Spare = {}
  <2>1. ~Startup /\ Settled
    BY <1>1 DEF Serving, Settled
  <2>2. file.meta \in DOMAIN file.db /\ file.db[file.meta] = expect
    BY <1>1, <2>1 DEF TInv, OnDisk, Whole
  <2>3. Disk = {expect}
    BY <2>2 DEF Disk, Named
  <2>4. active # None => Content = IF upd.pc = "swap" THEN upd.kept ELSE expect
    BY <1>1, <2>1, <2>2 DEF TInv, OnDisk, Naming, Content
  <2> QED BY <1>1, <2>3, <2>4 DEF View, Spare, Undoable
<1>2. ASSUME TInv, ~Serving
      PROVE  View = {} /\ Spare = {} /\ Reading = Store!NoLookups
  <2>1. Startup
    BY <1>2 DEF Serving, TInv, Phases
  <2>2. \A w \in Workers : reader[w].gen = None
    BY <1>2, <2>1 DEF TInv, Lookups
  <2> QED BY <1>2, <2>2 DEF View, Spare, Reading, Store!NoLookups
<1> QED BY <1>1, <1>2 DEF InStore

LEMMA StoreStates == TInv /\ TInv' => InStore /\ InStore'
BY StoreState, PTL

LEMMA SameReading ==
    ASSUME StillReading
    PROVE  Reading' = Reading
BY DEF StillReading, Reading

\* Steps of the daemon that the store does not notice.
LEMMA StutterServing ==
    ASSUME TInv, TInv', Serving, Serving', expect' = expect, active' = active,
           upd' = upd \/ {upd.pc, upd'.pc} \cap Undoable = {}, StillReading
    PROVE  UNCHANGED Store!vars
<1> USE StoreStates DEF InStore
<1>1. Disk' = Disk
  OBVIOUS
<1>2. View' = View
  BY Zenon DEF Undoable
<1>3. Spare' = Spare
  OBVIOUS
<1> QED BY <1>1, <1>2, <1>3, SameReading DEF Store!vars

Allowed == Store!Next \/ UNCHANGED Store!vars

LEMMA StartingStep ==
    ASSUME TInv, TInv', ~Serving, ~Serving'
    PROVE  Allowed
<1>1. Serving' = Serving
  BY DEF Serving
<1>2. View' = View /\ Spare' = Spare /\ Reading' = Reading
  BY StoreStates DEF InStore, Store!NoLookups
<1>3. Store!Prepare
  BY <1>1, <1>2 DEF Store!Prepare
<1> QED BY <1>3 DEF Allowed, Store!Next

LEMMA StartedStep ==
    ASSUME TInv, TInv', ~Serving, Serving', upd'.pc = "idle", active' # None,
           expect' \in Snapshots, reader' = reader
    PROVE  Allowed
<1>1. View' = {expect'} /\ Spare' = {} /\ Disk' = {expect'}
  BY StoreStates DEF InStore, Undoable
<1>2. \A w \in Workers : reader[w].gen = None
  BY DEF TInv, Lookups, Serving, Phases
<1>3. Reading' = Reading
  BY <1>2 DEF Reading
<1>4. Store!Start
  BY <1>1, <1>3, StoreStates DEF InStore, Store!Start
<1> QED BY <1>4 DEF Allowed, Store!Next

LEMMA StoppedStep ==
    ASSUME TInv, TInv', ~Serving', file' = file
    PROVE  Allowed
<1>1. Store!Crash
  BY StoreStates DEF InStore, Store!Crash, Disk, Store!NoLookups
<1> QED BY <1>1 DEF Allowed, Store!Next

-----------------------------------------------------------------------------
(* Lookups.                                                                   *)

\* A step of a worker's own lookup.
Looks(w) ==
    /\ Serving /\ UNCHANGED <<file, active, upd, expect>>
    /\ \A v \in Workers \ {w} : reader'[v] = reader[v]

LEMMA LooksOnlyHere ==
    ASSUME NEW w \in Workers, Looks(w), NEW S, Reading'[w] = S
    PROVE  Reading' = [Reading EXCEPT ![w] = S]
<1>1. DOMAIN Reading = Workers /\ DOMAIN Reading' = Workers
  BY DEF Reading
<1>2. \A v \in Workers \ {w} : Reading'[v] = Reading[v]
  BY DEF Reading, Looks
<1>3. Reading = [v \in Workers |-> Reading[v]] /\ Reading' = [v \in Workers |-> Reading'[v]]
  BY DEF Reading
<1> HIDE DEF Reading
<1> QED BY <1>1, <1>2, <1>3

LEMMA LooksQuietly ==
    ASSUME TInv, TInv', NEW w \in Workers, Looks(w), reader'[w].gen = reader[w].gen
    PROVE  Allowed
<1>1. Serving'
  BY DEF Looks, Serving, Startup
<1>2. StillReading
  BY DEF Looks, StillReading
<1> QED BY <1>1, <1>2, StutterServing DEF Looks, Allowed

LEMMA BeginsLookup ==
    ASSUME TInv, TInv', NEW w \in Workers, Looks(w), reader[w].gen = None,
           active # None, reader'[w].gen = active
    PROVE  Allowed
<1>1. Serving' /\ View = {Content} /\ View' = View /\ Spare' = Spare /\ Disk' = Disk
  BY DEF Looks, Serving, Startup, View, Spare, Disk, Content
<1>2. Reading[w] = {}
  BY DEF Reading
<1>3. Reading'[w] = View
  BY <1>1 DEF Reading, Looks, Content
<1>4. Store!Begin(w)
  BY <1>1, <1>2, <1>3, LooksOnlyHere DEF Store!Begin, Looks
<1> QED BY <1>4 DEF Allowed, Store!Next

LEMMA EndsLookup ==
    ASSUME TInv, TInv', NEW w \in Workers, Looks(w), reader[w].gen # None,
           reader'[w].gen = None
    PROVE  Allowed
<1>1. Serving' /\ View' = View /\ Spare' = Spare /\ Disk' = Disk
  BY DEF Looks, Serving, Startup, View, Spare, Disk, Content
<1>2. Reading[w] # {}
  BY DEF Reading
<1>3. Reading'[w] = {}
  BY DEF Reading
<1>4. Store!End(w)
  BY <1>1, <1>2, <1>3, LooksOnlyHere DEF Store!End, Looks
<1> QED BY <1>4 DEF Allowed, Store!Next

LEMMA LookupAllowed ==
    ASSUME TInv, TInv', NEW w \in Workers, NewEvent(w) \/ Lookup(w) \/ OpenReadFails(w)
    PROVE  Allowed
<1>1. reader[w].pc # "idle" => Serving
  BY DEF TInv, Lookups, Serving, Phases
<1>2. reader \in [Workers -> [pc : {"idle", "lookup", "pinned", "reclaim"},
                              gen : Gens \cup {None}, floor : Nat, from : Int]]
  BY DEF TInv, Types, ReaderType
<1>3. reader[w].gen # None <=> reader[w].pc = "pinned"
  BY DEF TInv, Lookups
<1>4. CASE NewEvent(w)
  <2>1. reader'[w].gen = None /\ \A v \in Workers \ {w} : reader'[v] = reader[v]
    BY <1>2, <1>4 DEF NewEvent
  <2>2. Looks(w) /\ reader[w].gen = None
    BY <1>3, <1>4, <2>1 DEF NewEvent, Looks, lmdb, generations, history
  <2> QED BY <2>1, <2>2, LooksQuietly
<1>5. CASE AcquireGeneration(w)
  <2>1. UNCHANGED <<file, active, upd, expect>> /\ reader[w].gen = None /\ Serving
    BY <1>1, <1>3, <1>5 DEF AcquireGeneration, lmdb, generations, history
  <2>2. CASE active # None
    <3>1. reader'[w].gen = active /\ \A v \in Workers \ {w} : reader'[v] = reader[v]
      BY <1>2, <1>5, <2>2 DEF AcquireGeneration
    <3> QED BY <2>1, <2>2, <3>1, BeginsLookup DEF Looks
  <2>3. CASE active = None
    <3>1. reader'[w].gen = reader[w].gen /\ \A v \in Workers \ {w} : reader'[v] = reader[v]
      BY <1>2, <1>5, <2>3 DEF AcquireGeneration
    <3> QED BY <2>1, <3>1, LooksQuietly DEF Looks
  <2> QED BY <2>2, <2>3
<1>6. CASE ReadAndRelease(w) \/ OpenReadFails(w)
  <2>1. UNCHANGED <<file, active, upd, expect>> /\ reader[w].gen # None /\ Serving
    BY <1>1, <1>3, <1>6 DEF ReadAndRelease, OpenReadFails, lmdb, generations, history
  <2>2. reader'[w].gen = None /\ \A v \in Workers \ {w} : reader'[v] = reader[v]
    BY <1>2, <1>6 DEF ReadAndRelease, OpenReadFails
  <2> QED BY <2>1, <2>2, EndsLookup DEF Looks
<1> QED BY <1>4, <1>5, <1>6 DEF Lookup

-----------------------------------------------------------------------------
(* Steps the store does not notice.                                           *)

LEMMA ServingIs == TInv /\ TInv' => (Serving <=> ~Startup) /\ (Serving' <=> ~Startup')
BY DEF TInv, Phases, Serving, Startup

LEMMA QuietAllowed ==
    ASSUME TInv, TInv', Startup' <=> Startup,
           ~Startup => /\ expect' = expect /\ active' = active /\ StillReading
                       /\ upd' = upd \/ {upd.pc, upd'.pc} \cap Undoable = {}
    PROVE  Allowed
BY ServingIs, StartingStep, StutterServing DEF Allowed

LEMMA SameFileReading ==
    ASSUME UNCHANGED <<file, reader>>
    PROVE  StillReading
BY DEF StillReading

LEMMA OtherDatabase ==
    ASSUME TInv, UNCHANGED reader, NEW n,
           \A w \in Workers : reader[w].pc = "pinned" => reader[w].gen.name # n,
           \A m \in DOMAIN file.db \ {n} : file'.db[m] = file.db[m]
    PROVE  StillReading
<1>1. \A w \in Workers : reader[w].gen # None =>
        reader[w].pc = "pinned" /\ reader[w].gen.name \in DOMAIN file.db
  BY DEF TInv, Lookups, BeingRead
<1> QED BY <1>1 DEF StillReading

LEMMA DropAllowed ==
    ASSUME TInv, TInv', NEW p \in Processes, ReclaimDrop(p)
    PROVE  Allowed
<1> DEFINE n == reclaim.gen.name
<1>1. /\ file' = DropOf(file, {n}) /\ active' = active /\ upd' = upd
      /\ expect' = expect /\ reader' = reader
  BY DEF ReclaimDrop, DropDb, DropOf, generations, history, lookups
<1>2. \A m \in DOMAIN file.db \ {n} : file'.db[m] = file.db[m]
  BY <1>1, DropFacts DEF TInv, Types, FileType
<1>3. reclaim.who = p /\ p # NoOne
  BY TrustDbAssumption DEF ReclaimDrop, Processes, NoOne, UpdateThread
<1>4. reclaim.gen \in retired /\ \A w \in Workers : reader[w].gen # reclaim.gen
  BY <1>3 DEF TInv, Lookups
<1>5. \A w \in Workers : reader[w].pc = "pinned" => reader[w].gen.name # n
  BY <1>4 DEF TInv, Lookups, Naming
<1> HIDE DEF n
<1>6. StillReading
  BY <1>1, <1>2, <1>5, OtherDatabase, Zenon
<1> QED BY <1>1, <1>6, QuietAllowed DEF Startup

LEMMA ReclaimEndsAllowed ==
    ASSUME TInv, TInv', NEW p \in Processes, ReclaimDone(p) \/ ReclaimFails(p)
    PROVE  Allowed
<1>1. /\ UNCHANGED <<lmdb, generations, history>>
      /\ reclaim.who \in {p, NoOne} /\ AfterReclaim(p)
  BY DEF ReclaimDone, ReclaimFails
<1>2. /\ p = UpdateThread => upd.pc = "reclaim"
      /\ p \in Workers => reader[p].pc = "reclaim"
  BY FreeFacts DEF ReclaimDone, ReclaimFails, Reclaims, TInv, Lookups
<1>3. file' = file /\ active' = active /\ expect' = expect
  BY <1>1 DEF lmdb, generations, history
<1>4. CASE p = UpdateThread
  <2>1. upd \in Threads /\ upd.pc = "reclaim" /\ reader' = reader
    BY <1>1, <1>2, <1>4 DEF TInv, Types, UpdType, AfterReclaim, lookups
  <2>2. upd'.pc \in {"idle", "flush"} /\ (upd'.op = "start" <=> upd.op = "start")
    <3>1. CASE upd.op = "store"
      BY <1>1, <1>4, <3>1, IdleFacts DEF AfterReclaim
    <3>2. CASE upd.op # "store"
      BY <1>1, <1>4, <2>1, <3>2 DEF AfterReclaim, Threads, PCs
    <3> QED BY <3>1, <3>2
  <2> QED BY <1>3, <2>1, <2>2, QuietAllowed, SameFileReading DEF Startup, Undoable
<1>5. CASE p \in Workers
  <2>1. /\ upd' = upd /\ reader' = [reader EXCEPT ![p].pc = "idle"]
    BY <1>1, <1>5, FreeFacts DEF AfterReclaim, FinishLookup
  <2>2. \A w \in Workers : reader'[w].gen = reader[w].gen
    BY <2>1 DEF TInv, Types, ReaderType
  <2> QED BY <1>3, <2>1, <2>2, QuietAllowed DEF Startup, StillReading
<1> QED BY <1>4, <1>5 DEF Processes

LEMMA ReclaimAllowed ==
    ASSUME TInv, TInv', NEW p \in Processes, Reclaim(p) \/ ReclaimFails(p)
    PROVE  Allowed
<1>1. CASE ReclaimPick(p) \/ ReclaimUnlink(p)
  <2>1. UNCHANGED <<file, active, upd, expect, reader>>
    BY <1>1 DEF ReclaimPick, ReclaimUnlink, lmdb, generations, history, lookups
  <2> QED BY <2>1, QuietAllowed, SameFileReading DEF Startup
<1> QED BY <1>1, DropAllowed, ReclaimEndsAllowed DEF Reclaim

\* The update thread goes on, and leaves file and lookups alone.
LEMMA MovesAllowed ==
    ASSUME TInv, TInv',
           KeepMap \/ Load \/ ReloadBegin \/ CompactBegin \/ BuildOffline \/ BuildFails
           \/ LinkBackup \/ SwapDone \/ MapFull \/ SwapBusy
    PROVE  Allowed
<1>1. UNCHANGED <<file, active, expect, reader>>
  BY DEF KeepMap, Load, ReloadBegin, CompactBegin, BuildOffline, BuildFails, LinkBackup,
         SwapDone, MapFull, SwapBusy, lmdb, generations, history, lookups
<1>2. upd \in Threads
  BY DEF TInv, Types, UpdType
<1>3. upd.pc \notin Undoable /\ upd'.pc \notin Undoable /\ (Startup' <=> Startup)
  <2>1. CASE KeepMap \/ BuildOffline \/ LinkBackup \/ SwapDone \/ MapFull
    BY <1>2, <2>1 DEF KeepMap, BuildOffline, LinkBackup, SwapDone, MapFull, Goto, Threads,
                      Startup, Undoable
  <2>2. CASE Load
    BY <1>2, <2>2 DEF Load, Threads, Startup, Undoable
  <2>3. CASE ReloadBegin \/ CompactBegin
    <3>1. "size" \in PCs /\ "load" \in PCs
      BY DEF PCs
    <3> QED BY <2>3, <3>1, ThreadFacts DEF ReloadBegin, CompactBegin, Startup, Undoable, TInv, Phases
  <2>4. CASE BuildFails
    <3>1. upd.pc = "build" /\ CompactFailed
      BY <2>4 DEF BuildFails
    <3>2. (Startup' <=> Startup) /\ upd'.pc \in {"open", "idle"}
      BY <3>1, CompactFailedFacts
    <3> QED BY <3>1, <3>2 DEF Undoable
  <2>5. CASE SwapBusy
    BY <2>5, IdleFacts DEF SwapBusy, TInv, Phases, Startup, Undoable
  <2> QED BY <2>1, <2>2, <2>3, <2>4, <2>5
<1> QED BY <1>1, <1>3, QuietAllowed, SameFileReading

\* An operation that failed: the daemon keeps serving, or startup gives up.
LEMMA GiveUpAllowed ==
    ASSUME TInv, TInv', NEW f, GiveUp(f), upd.pc \notin Undoable,
           ~Startup /\ UNCHANGED reader => StillReading
    PROVE  Allowed
<1>1. CASE Startup
  <2>1. Die
    BY <1>1 DEF GiveUp
  <2>2. Startup'
    <3>1. "down" \in PCs
      BY DEF PCs
    <3> QED BY <2>1, <3>1, ThreadFacts DEF Die, Startup
  <2> QED BY <1>1, <2>2, QuietAllowed
<1>2. CASE ~Startup
  <2>1. upd' = Idle /\ active' = active /\ expect' = expect /\ reader' = reader
    BY <1>2 DEF GiveUp, generations, lookups, history
  <2>2. ~Startup' /\ upd'.pc \notin Undoable
    BY <2>1, IdleFacts DEF Startup, Undoable
  <2> QED BY <1>2, <2>1, <2>2, QuietAllowed
<1> QED BY <1>1, <1>2

LEMMA FailsAllowed ==
    ASSUME TInv, TInv', StartFails \/ LoadFails \/ CreateFails \/ CreateNoSlot \/ ImportFails
    PROVE  Allowed
<1>1. CASE GiveUp(file)
  <2>1. file' = file /\ upd.pc \notin Undoable
    BY <1>1 DEF GiveUp, StartFails, LoadFails, CreateFails, CreateNoSlot, ImportFails, Undoable
  <2> QED BY <1>1, <2>1, GiveUpAllowed, SameFileReading
<1>2. CASE ImportFails /\ ~GiveUp(file)
  <2> DEFINE n == upd.name
             S == IF InPlace THEN {} ELSE {n}
  <2>1. upd.pc \in {"import", "importing", "grow", "commit"} /\ GiveUp(DropOf(file, S))
    BY <1>2 DEF ImportFails, DropOf
  <2>2. file' = DropOf(file, S) /\ file \in Files
    BY <2>1 DEF GiveUp, TInv, Types, FileType
  <2>3. \A m \in DOMAIN file.db \ S : file'.db[m] = file.db[m]
    BY <2>2, DropFacts
  <2>4. \A m \in DOMAIN file.db \ {n} : file'.db[m] = file.db[m]
    BY <2>3
  <2>5. \A w \in Workers : reader[w].pc = "pinned" => reader[w].gen.name # n
    BY <2>1, ReadersApart
  <2> HIDE DEF S, n
  <2>6. reader' = reader => StillReading
    BY <2>4, <2>5, OtherDatabase, Zenon
  <2>7. upd.pc \notin Undoable
    BY <2>1 DEF Undoable
  <2> QED BY <2>1, <2>6, <2>7, GiveUpAllowed
<1> QED BY <1>1, <1>2 DEF StartFails, LoadFails, CreateFails, CreateNoSlot

-----------------------------------------------------------------------------
(* Building and publishing.                                                   *)

LEMMA FillAllowed ==
    ASSUME TInv, TInv', NEW n \in Names, NEW S \in SUBSET Records,
           file' = SetDb(file, n, S), UNCHANGED <<active, expect, reader>>,
           \A w \in Workers : reader[w].pc = "pinned" => reader[w].gen.name # n,
           upd'.op = upd.op, upd.pc \notin Undoable, upd'.pc \notin Undoable
    PROVE  Allowed
<1>1. \A m \in DOMAIN file.db \ {n} : file'.db[m] = file.db[m]
  BY SetDbFacts DEF TInv, Types, FileType
<1>2. StillReading
  BY <1>1, OtherDatabase
<1> QED BY <1>2, QuietAllowed DEF Startup

LEMMA ImportAllowed ==
    ASSUME TInv, TInv', ImportSome \/ GrowMap \/ (ImportDone /\ ~InPlace)
    PROVE  Allowed
<1>1. upd.pc \in {"import", "importing", "grow"} /\ UNCHANGED <<active, expect, reader>>
  BY DEF ImportSome, GrowMap, ImportDone, generations, history, lookups
<1>2. /\ upd \in Threads /\ file \in Files /\ upd.name \in DOMAIN file.db
      /\ loaded \subseteq Records
  BY <1>1 DEF TInv, Types, UpdType, FileType, DataType, Naming
<1>3. upd.name \in Names /\ file.db[upd.name] \subseteq Records
  BY <1>2, FileFacts
<1>4. upd'.op = upd.op /\ upd'.pc \in {"import", "importing", "commit"}
  <2>1. CASE ImportSome \/ (ImportDone /\ ~InPlace)
    BY <1>2, <2>1, Zenon DEF ImportSome, ImportDone, Goto, Threads
  <2>2. CASE GrowMap
    BY <1>2, <2>2, Zenon DEF GrowMap, Threads
  <2> QED BY <2>1, <2>2
<1>5. \E S \in SUBSET Records : file' = SetDb(file, upd.name, S)
  <2>1. CASE ImportSome
    <3>1. PICK S \in SUBSET loaded : file' = SetDb(file, upd.name, Target \cup S)
      BY <2>1, WithDbIs, Zenon DEF ImportSome
    <3>2. Target \cup S \in SUBSET Records
      BY <1>2, <1>3 DEF Target
    <3> QED BY <3>1, <3>2
  <2>2. CASE GrowMap
    <3>1. file' = SetDb(file, upd.name, {})
      BY <2>2, WithDbIs, Zenon DEF GrowMap, Emptied
    <3> QED BY <3>1
  <2>3. CASE ImportDone
    <3>1. file' = SetDb(file, upd.name, Target \cup loaded)
      BY <2>3, WithDbIs, Zenon DEF ImportDone
    <3>2. Target \cup loaded \in SUBSET Records
      BY <1>2, <1>3 DEF Target
    <3> QED BY <3>1, <3>2
  <2> QED BY <2>1, <2>2, <2>3
<1>6. upd.pc \notin Undoable /\ upd'.pc \notin Undoable
  BY <1>1, <1>4 DEF Undoable
<1>7. \A w \in Workers : reader[w].pc = "pinned" => reader[w].gen.name # upd.name
  BY <1>1, ReadersApart
<1> QED BY <1>1, <1>3, <1>4, <1>5, <1>6, <1>7, FillAllowed

LEMMA CreateAllowed ==
    ASSUME TInv, TInv', CreateCandidate
    PROVE  Allowed
<1> DEFINE n == FirstFreeSlot
<1>1. /\ upd.pc = "create" /\ FreeSlots # {} /\ file' = SetDb(file, n, {})
      /\ upd' = [upd EXCEPT !.pc = "import", !.name = n, !.gen = next_generation]
      /\ UNCHANGED <<active, expect, reader>>
  BY WithDbIs, Zenon DEF CreateCandidate, Emptied, generations, lookups, history
<1>2. n \in Names /\ n \notin UsedNames
  BY <1>1, SlotFacts
<1>3. \A w \in Workers : reader[w].pc = "pinned" => reader[w].gen.name # n
  BY <1>2 DEF TInv, Lookups, UsedNames
<1>4. upd \in Threads
  BY DEF TInv, Types, UpdType
<1> HIDE DEF n
<1>5. upd'.op = upd.op /\ upd'.pc = "import"
  BY <1>1, <1>4 DEF Threads
<1> QED BY <1>1, <1>2, <1>3, <1>5, FillAllowed DEF Undoable

\* The database on disk is replaced by what was loaded.
LEMMA ReplaceAllowed ==
    ASSUME TInv, TInv', Serving, Serving', upd.pc \notin Undoable, upd'.pc \in Undoable,
           upd'.kept = expect, expect' = loaded, loaded \in Snapshots, StillReading,
           active' = active, active # None <=> upd'.pc = "swap"
    PROVE  Allowed
<1>1. Disk' = {loaded} /\ Disk = {expect} /\ Spare = {} /\ Spare' = {expect} /\ View' = View
  BY StoreStates DEF InStore, Undoable
<1>2. Store!Replace(loaded)
  BY <1>1, SameReading DEF Store!Replace
<1> QED BY <1>2 DEF Allowed, Store!Next

LEMMA InstallAllowed ==
    ASSUME TInv, TInv', Serving, Serving', upd'.pc \notin Undoable,
           expect' = expect, StillReading, active' # None
    PROVE  Allowed
<1>1. Disk' = {expect} /\ Disk = {expect} /\ Spare' = {} /\ View' = {expect}
  BY StoreStates DEF InStore, Undoable
<1>2. Store!Install
  BY <1>1, SameReading DEF Store!Install
<1> QED BY <1>2 DEF Allowed, Store!Next

LEMMA CommitAllowed ==
    ASSUME TInv, TInv', PublishCommit
    PROVE  Allowed
<1>1. /\ upd.pc = "commit" /\ file' = [file EXCEPT !.meta = upd.name]
      /\ upd' = [upd EXCEPT !.pc = "swap", !.kept = expect] /\ expect' = loaded
      /\ active' = active /\ reader' = reader
  BY DEF PublishCommit, generations, lookups
<1>2. upd \in Threads /\ file \in Files /\ active # None /\ loaded \in Snapshots
  BY <1>1 DEF TInv, Types, UpdType, FileType, Phases, Open
<1>3. upd'.pc = "swap" /\ upd'.kept = expect /\ upd'.op = upd.op
  BY <1>1, <1>2 DEF Threads
<1>4. file'.db = file.db
  BY <1>1, <1>2 DEF Files
<1>5. StillReading
  BY <1>1, <1>4 DEF StillReading
<1>6. CASE Startup
  BY <1>3, <1>6, QuietAllowed DEF Startup
<1>7. CASE ~Startup
  BY <1>1, <1>2, <1>3, <1>5, <1>7, ServingIs, ReplaceAllowed DEF Startup, Undoable
<1> QED BY <1>6, <1>7

LEMMA SwapAllowed ==
    ASSUME TInv, TInv', PublishSwap
    PROVE  Allowed
<1>1. UNCHANGED <<file, reader, expect>> /\ upd.pc = "swap"
  BY DEF PublishSwap, lmdb, lookups, history
<1>2. upd'.pc = "reclaim" /\ upd'.op = upd.op
  BY DEF PublishSwap, Goto, TInv, Types, UpdType, Threads
<1>3. active' # None
  BY <1>2 DEF TInv, Phases, Open
<1>4. CASE Startup
  BY <1>2, <1>4, QuietAllowed DEF Startup
<1>5. CASE ~Startup
  BY <1>1, <1>2, <1>3, <1>5, ServingIs, SameFileReading, InstallAllowed DEF Startup, Undoable
<1> QED BY <1>4, <1>5

\* The step with which startup ends.
LEMMA EndOfStartup ==
    ASSUME TInv, TInv', Startup, upd' = Idle, active # None, active' = active,
           reader' = reader, expect' = loaded, loaded \in Snapshots
    PROVE  Allowed
<1>1. upd'.pc = "idle" /\ ~Startup'
  BY IdleFacts DEF Startup
<1> QED BY <1>1, ServingIs, StartedStep

LEMMA FlushAllowed ==
    ASSUME TInv, TInv', StartupLoaded, RequestFlush
    PROVE  Allowed
<1>1. /\ upd.pc = "flush" /\ upd' = Idle
      /\ UNCHANGED <<file, reader, expect, active>>
  BY DEF RequestFlush, lmdb, lookups, generations
<1>2. active # None /\ loaded \in Snapshots
  BY <1>1 DEF TInv, Phases, Open
<1>3. CASE Startup
  BY <1>1, <1>2, <1>3, EndOfStartup DEF StartupLoaded
<1>4. CASE ~Startup
  <2>1. ~Startup' /\ upd'.pc = "idle"
    BY <1>1, IdleFacts DEF Startup
  <2> QED BY <1>1, <1>4, <2>1, QuietAllowed, SameFileReading DEF Undoable
<1> QED BY <1>3, <1>4

LEMMA StartupAllowed ==
    ASSUME TInv, TInv', Boot \/ StartOpen \/ CheckCopy \/ (ImportDone /\ InPlace)
    PROVE  Allowed
<1>1. upd \in Threads
  BY DEF TInv, Types, UpdType
<1>2. CASE Boot
  <2>1. Startup
    BY <1>2 DEF Boot, TInv, Phases
  <2>2. PICK p \in {"open", "build"} : upd' = [Thread(p, "start") EXCEPT !.gen = 1]
    BY <1>2 DEF Boot
  <2>3. Startup'
    BY <2>2 DEF Startup, Thread
  <2> QED BY <2>1, <2>3, QuietAllowed
<1>3. CASE StartOpen
  <2>1. Startup /\ Startup'
    BY <1>1, <1>3 DEF StartOpen, TInv, Phases, Goto, Startup, Threads
  <2> QED BY <2>1, QuietAllowed
<1>4. CASE CheckCopy
  <2>1. Startup /\ active # None /\ loaded \in Snapshots
    BY <1>4 DEF CheckCopy, TInv, Phases, Open
  <2>2. CASE upd' = Idle /\ expect' = loaded
    <3>1. active' = active /\ reader' = reader
      BY <1>4 DEF CheckCopy, lookups
    <3> QED BY <2>1, <2>2, <3>1, EndOfStartup
  <2>3. CASE ~(upd' = Idle /\ expect' = loaded)
    <3>1. Startup'
      BY <1>1, <1>4, <2>1, <2>3, Zenon DEF CheckCopy, Goto, Startup, Threads
    <3> QED BY <2>1, <3>1, QuietAllowed
  <2> QED BY <2>2, <2>3
<1>5. CASE ImportDone /\ InPlace
  <2>1. upd.pc = "importing" /\ upd' = Idle /\ expect' = loaded
    BY <1>5 DEF ImportDone
  <2>2. active' = active /\ reader' = reader
    BY <1>5 DEF ImportDone, generations, lookups
  <2>3. Startup /\ active # None /\ loaded \in Snapshots
    BY <1>5, <2>1 DEF InPlace, TInv, Naming, Phases, Open
  <2> QED BY <2>1, <2>2, <2>3, EndOfStartup
<1> QED BY <1>2, <1>3, <1>4, <1>5

LEMMA DieAllowed ==
    ASSUME TInv, TInv', Crash \/ CreateWithoutEnv
    PROVE  Allowed
<1>1. Die /\ file' = file
  BY DEF Crash, CreateWithoutEnv
<1>2. ~Serving'
  BY <1>1 DEF Die, Serving, Thread
<1> QED BY <1>1, <1>2, StoppedStep

LEMMA StoreAllowed ==
    ASSUME TInv, TInv', StoreRecord
    PROVE  Allowed
<1> DEFINE n == active.name
<1>1. PICK r \in Records :
        /\ file' = [[file EXCEPT !.db[n] = @ \cup {r}] EXCEPT !.meta = n]
        /\ expect' = expect \cup {r}
  BY Zenon DEF StoreRecord, refresh_active_generation_metadata, write_db
<1>2. /\ upd.pc = "idle" /\ active # None /\ upd' = Thread("reclaim", "store")
      /\ active' = active /\ reader' = reader
  BY DEF StoreRecord, generations, lookups
<1>3. upd'.pc = "reclaim" /\ upd'.op = "store" /\ ~Startup' /\ ~Startup
  BY <1>2 DEF Thread, Startup, TInv, Phases
<1>4. n \in DOMAIN file.db /\ file \in Files /\ n \in Names /\ file.db[n] \subseteq Records
  BY <1>2, FileFacts DEF TInv, Types, FileType, Naming
<1>5. Content = expect
  BY <1>2, <1>3, Zenon DEF TInv, Naming, OnDisk, Settled, Whole, Content
<1> HIDE DEF n
<1>6. /\ file'.db[n] = file.db[n] \cup {r}
      /\ \A m \in DOMAIN file.db \ {n} : file'.db[m] = file.db[m]
  <2> DEFINE f == SetDb(file, n, file.db[n] \cup {r})
  <2>1. [file EXCEPT !.db[n] = @ \cup {r}] = f
    BY <1>4, StoreFacts
  <2>2. file.db[n] \cup {r} \in SUBSET Records
    BY <1>4
  <2>3. /\ f \in Files /\ f.db[n] = file.db[n] \cup {r}
        /\ \A m \in DOMAIN file.db \ {n} : f.db[m] = file.db[m]
    BY <1>4, <2>2, SetDbFacts
  <2> HIDE DEF f
  <2>4. file' = [f EXCEPT !.meta = n]
    BY <1>1, <2>1, Zenon
  <2>5. file'.db = f.db
    BY <1>4, <2>3, <2>4, MetaFacts
  <2> QED BY <2>3, <2>5, Zenon
<1>7. /\ Disk = {expect} /\ View = {expect} /\ Spare = {} /\ Serving
      /\ Disk' = {expect \cup {r}} /\ View' = {expect \cup {r}} /\ Spare' = {} /\ Serving'
  BY <1>1, <1>2, <1>3, StoreStates, ServingIs DEF InStore, Undoable
<1> DEFINE W == {w \in Workers : reader[w].gen = active}
<1>8. \A w \in W : Reading[w] = {expect} /\ Reading'[w] = {expect \cup {r}}
  BY <1>2, <1>5, <1>6, Zenon DEF Reading, Content, n
<1>9. \A w \in Workers \ W : Reading'[w] = Reading[w]
  <2> SUFFICES ASSUME NEW w \in Workers, reader[w].gen # active
               PROVE  Reading'[w] = Reading[w]
    OBVIOUS
  <2>1. CASE reader[w].gen = None
    BY <1>2, <2>1 DEF Reading
  <2>2. CASE reader[w].gen # None
    <3>1. reader[w].gen.name # n /\ reader[w].gen.name \in DOMAIN file.db
      BY <2>2 DEF TInv, Lookups, Naming, BeingRead, n
    <3> QED BY <1>2, <1>6, <3>1 DEF Reading
  <2> QED BY <2>1, <2>2
<1>10. Reading' = [w \in Workers |-> IF w \in W THEN Store!With(Reading[w], r) ELSE Reading[w]]
  <2>1. \A w \in W : Store!With(Reading[w], r) = {expect \cup {r}}
    BY <1>8 DEF Store!With
  <2>2. Reading' = [w \in Workers |-> Reading'[w]]
    BY DEF Reading
  <2> HIDE DEF W
  <2> QED BY <1>8, <1>9, <2>1, <2>2, Zenon
<1>11. W \in SUBSET {w \in Workers : Reading[w] = View}
  BY <1>7, <1>8
<1>12. Store!With(Disk, r) = {expect \cup {r}}
  BY <1>7 DEF Store!With
<1> HIDE DEF W
<1>13. Store!Store(r)
  BY <1>7, <1>10, <1>11, <1>12, Zenon DEF Store!Store
<1> QED BY <1>13 DEF Allowed, Store!Next

-----------------------------------------------------------------------------
(* Steps while nobody reads.                                                  *)

LEMMA NobodyReads ==
    ASSUME TInv, Locked = {}, \A w \in Workers : reader'[w].gen = reader[w].gen
    PROVE  StillReading /\ Reading = Store!NoLookups /\ Reading' = Store!NoLookups
<1>1. \A w \in Workers : reader[w].gen = None
  BY DEF TInv, Lookups, Locked
<1> QED BY <1>1 DEF StillReading, Reading, Store!NoLookups

LEMMA CloseAllowed ==
    ASSUME TInv, TInv', ~Startup, ~Startup', expect' = expect, active' = None,
           upd.pc \notin Undoable, upd'.pc \notin Undoable,
           Locked = {}, \A w \in Workers : reader'[w].gen = reader[w].gen
    PROVE  Allowed
<1>1. Serving /\ Serving'
  BY ServingIs
<1>2. Disk' = Disk /\ Spare' = Spare /\ View' = {}
  BY <1>1, StoreStates DEF InStore
<1>3. Store!Close
  BY <1>1, <1>2, NobodyReads DEF Store!Close
<1> QED BY <1>3 DEF Allowed, Store!Next

LEMMA UndoAllowed ==
    ASSUME TInv, TInv', ~Startup, ~Startup', expect' \in {expect, upd.kept},
           active = None, upd.pc \in Undoable, upd'.pc \notin Undoable,
           Locked = {}, \A w \in Workers : reader'[w].gen = reader[w].gen
    PROVE  Allowed
<1>1. Serving /\ Serving'
  BY ServingIs
<1>2. /\ Disk = {expect} /\ Spare = {upd.kept} /\ View = {}
      /\ Disk' = {expect'} /\ Spare' = {} /\ View' \in {{}, Disk'}
  BY <1>1, StoreStates DEF InStore, Undoable
<1>3. Store!Undo
  BY <1>1, <1>2, NobodyReads DEF Store!Undo
<1> QED BY <1>3 DEF Allowed, Store!Next

LEMMA RenumberReaders ==
    ASSUME TInv, Renumber
    PROVE  \A w \in Workers : reader'[w].gen = reader[w].gen
BY DEF TInv, Types, ReaderType, Renumber

LEMMA ShrinkAllowed ==
    ASSUME TInv, TInv', ShrinkMap \/ ShrinkMapLoses \/ SwapBegin
    PROVE  Allowed
<1>1. Locked = {} /\ upd.pc \in {"size", "lock"} /\ expect' = expect
  BY NobodyInside DEF ShrinkMap, ShrinkMapLoses, SwapBegin, history
<1>2. ~Startup /\ upd.pc \notin Undoable /\ upd \in Threads
  BY <1>1 DEF TInv, Types, UpdType, Phases, Undoable
<1>3. CASE ShrinkMap
  <2>1. reader' = reader /\ active' = [gen |-> current_generation, name |-> MetaName(file)]
    BY <1>3 DEF ShrinkMap, init_db, lookups
  <2>2. upd'.pc \in {"load", "idle"} /\ ~Startup'
    BY <1>2, <1>3, IdleFacts DEF ShrinkMap, Goto, Threads, Startup
  <2>3. active' # None
    <3>1. MetaName(file) \in DOMAIN Opened(file).db /\ file \in Files
      BY <1>3 DEF ShrinkMap, init_db, TInv, Types, FileType
    <3>2. MetaName(file) \in Names
      BY <3>1, OpenedFacts
    <3> QED BY <2>1, <3>2, NoneFacts
  <2>4. StillReading
    BY <1>1, <2>1, NobodyReads
  <2> QED BY <1>1, <1>2, <2>2, <2>3, <2>4, ServingIs, InstallAllowed DEF Undoable
<1>4. CASE ShrinkMapLoses
  <2>1. active' = None /\ upd' = Idle /\ Renumber
    BY <1>4 DEF ShrinkMapLoses, close_env
  <2>2. upd'.pc \notin Undoable /\ ~Startup'
    BY <2>1, IdleFacts DEF Undoable, Startup
  <2> QED BY <1>1, <1>2, <2>1, <2>2, RenumberReaders, CloseAllowed
<1>5. CASE SwapBegin
  <2>1. active' = None /\ reader' = reader
    BY <1>5 DEF SwapBegin, close_env, lookups
  <2>2. upd'.pc \notin Undoable /\ ~Startup'
    BY <1>2, <1>5 DEF SwapBegin, Threads, Undoable, Startup
  <2> QED BY <1>1, <1>2, <2>1, <2>2, CloseAllowed
<1> QED BY <1>3, <1>4, <1>5

LEMMA InitDbActive ==
    ASSUME NEW f \in Files, NEW g, init_db(f, g)
    PROVE  active' # None
<1>1. MetaName(f) \in DOMAIN Opened(f).db /\ active' = [gen |-> g, name |-> MetaName(f)]
  BY DEF init_db
<1>2. MetaName(f) \in Names
  BY <1>1, OpenedFacts
<1> QED BY <1>1, <1>2, NoneFacts

\* The exchange of the files, under the write lock.
LEMMA ExchangeAllowed ==
    ASSUME TInv, TInv', Rename \/ SwapFails \/ Reopen \/ Restore \/ RestoreFails
    PROVE  Allowed
<1>1. upd.pc \in Exchange /\ upd \in Threads /\ upd.pc # "reclaim" /\ file \in Files
  BY DEF Rename, SwapFails, Reopen, Restore, RestoreFails, Exchange, TInv, Types, UpdType, FileType
<1>2. Locked = {} /\ active = None /\ loaded \in Snapshots
  BY <1>1, ExchangeFacts, Zenon DEF TInv, Phases, Exchange
<1>3. \A w \in Workers : reader'[w].gen = reader[w].gen
  BY RenumberReaders DEF Rename, SwapFails, Reopen, Restore, RestoreFails, lookups
<1>4. StillReading
  BY <1>2, <1>3, NobodyReads
<1>5. CASE Rename
  <2>1. /\ upd.pc = "rename" /\ upd' = [upd EXCEPT !.pc = "reopen", !.kept = expect]
        /\ expect' = loaded /\ active' = active
    BY <1>5 DEF Rename, generations
  <2>2. upd'.pc = "reopen" /\ upd'.kept = expect /\ (Startup' <=> Startup)
    BY <1>1, <2>1 DEF Threads, Startup
  <2>3. CASE Startup
    BY <2>2, <2>3, QuietAllowed
  <2>4. CASE ~Startup
    BY <1>2, <1>4, <2>1, <2>2, <2>4, ServingIs, ReplaceAllowed DEF Undoable
  <2> QED BY <2>3, <2>4
<1>6. CASE SwapFails
  <2>1. upd.pc \in {"link", "rename"} /\ CompactFailed /\ expect' = expect
    BY <1>6 DEF SwapFails
  <2>2. (Startup' <=> Startup) /\ (~Startup => upd'.pc = "idle")
    BY <1>1, <2>1, CompactFailedFacts
  <2>3. CASE Startup
    BY <2>2, <2>3, QuietAllowed
  <2>4. CASE ~Startup /\ init_db(file, upd.old)
    <3>1. active' # None
      BY <1>1, <2>4, InitDbActive
    <3> QED BY <1>4, <2>1, <2>2, <2>4, <3>1, ServingIs, InstallAllowed DEF Undoable
  <2>5. CASE ~Startup /\ UNCHANGED generations
    BY <1>4, <2>1, <2>2, <2>5, QuietAllowed DEF Undoable, generations
  <2> QED BY <1>6, <2>3, <2>4, <2>5 DEF SwapFails
<1>7. CASE Reopen
  <2>1. upd.pc = "reopen" /\ expect' = expect
    BY <1>7 DEF Reopen, history
  <2>2. CASE init_db(file, upd.gen) /\ Goto("finish")
    <3>1. active' # None /\ upd'.pc = "finish" /\ (Startup' <=> Startup)
      BY <1>1, <2>2, InitDbActive DEF Goto, Threads, Startup
    <3>2. CASE Startup
      BY <3>1, <3>2, QuietAllowed
    <3>3. CASE ~Startup
      BY <1>4, <2>1, <3>1, <3>3, ServingIs, InstallAllowed DEF Undoable
    <3> QED BY <3>2, <3>3
  <2>3. CASE Goto("restore") /\ UNCHANGED <<file, generations>>
    <3>1. upd'.pc = "restore" /\ upd'.kept = upd.kept /\ (Startup' <=> Startup)
      BY <1>1, <2>3 DEF Goto, Threads, Startup
    <3>2. CASE Startup
      BY <3>1, <3>2, QuietAllowed
    <3>3. CASE ~Startup
      <4>1. Serving /\ Serving' /\ active' = active
        BY <2>3, <3>1, <3>3, ServingIs DEF generations
      <4>2. Disk' = Disk /\ View' = View /\ Spare' = Spare
        BY <1>2, <2>1, <3>1, <4>1, StoreStates DEF InStore, Undoable
      <4> QED BY <1>4, <4>1, <4>2, SameReading DEF Allowed, Store!vars
    <3> QED BY <3>2, <3>3
  <2> QED BY <1>7, <2>2, <2>3 DEF Reopen
<1>8. CASE Restore
  <2>1. upd.pc = "restore" /\ expect' = upd.kept
    BY <1>8 DEF Restore
  <2>2. CASE Startup
    <3>1. Startup'
      BY <1>1, <1>8, <2>2 DEF Restore, Goto, Threads, Startup
    <3> QED BY <2>2, <3>1, QuietAllowed
  <2>3. CASE ~Startup
    <3>1. upd'.pc = "idle" /\ ~Startup'
      BY <1>8, <2>3, IdleFacts DEF Restore, Startup
    <3> QED BY <1>2, <1>3, <2>1, <2>3, <3>1, UndoAllowed DEF Undoable
  <2> QED BY <2>2, <2>3
<1>9. CASE RestoreFails
  <2>1. upd.pc = "restore" /\ expect' \in {expect, upd.kept} /\ CompactFailed
    BY <1>9 DEF RestoreFails
  <2>2. (Startup' <=> Startup) /\ (~Startup => upd'.pc = "idle")
    BY <1>1, <2>1, CompactFailedFacts
  <2>3. CASE Startup
    BY <2>2, <2>3, QuietAllowed
  <2>4. CASE ~Startup
    BY <1>2, <1>3, <2>1, <2>2, <2>4, UndoAllowed DEF Undoable
  <2> QED BY <2>3, <2>4
<1> QED BY <1>5, <1>6, <1>7, <1>8, <1>9

-----------------------------------------------------------------------------
(* What startup publishes is what it loaded.                                  *)

Publishes == Startup /\ upd.pc \in {"swap", "reclaim", "flush"}

LEMMA NotPublishing ==
    ASSUME TInv,
           \/ Boot \/ StartOpen \/ CheckCopy \/ KeepMap \/ Load \/ CreateWithoutEnv
           \/ ImportSome \/ ImportDone \/ RequestFlush
           \/ BuildOffline \/ LinkBackup \/ Rename \/ Reopen \/ Restore \/ SwapDone
           \/ Exclusive \/ Requests \/ Crash
           \/ StartFails \/ ShrinkMapLoses \/ LoadFails \/ CreateFails \/ MapFull
           \/ ImportFails \/ BuildFails \/ SwapBusy \/ SwapFails \/ RestoreFails
    PROVE  ~Publishes'
<1>1. upd \in Threads
  BY DEF TInv, Types, UpdType
<1>2. Idle.op # "start"
  BY IdleFacts
<1>3. ASSUME NEW p \in PCs \ {"swap", "reclaim", "flush"}, Goto(p) PROVE ~Publishes'
  BY <1>1, <1>3 DEF Goto, Threads, Publishes
<1>4. ASSUME Die PROVE ~Publishes'
  BY <1>4 DEF Die, Thread, Publishes
<1>5. ASSUME upd' = Idle PROVE ~Publishes'
  BY <1>2, <1>5 DEF Publishes, Startup
<1>6. ASSUME CompactFailed PROVE ~Publishes'
  BY <1>1, <1>5, <1>6 DEF CompactFailed, Threads, Publishes
<1>7. ASSUME NEW f, GiveUp(f) PROVE ~Publishes'
  BY <1>4, <1>5, <1>7 DEF GiveUp
<1>8. {"open", "check", "create", "load", "import", "importing", "commit", "grow", "link", "lock",
       "rename", "reopen", "restore", "finish"} \subseteq PCs \ {"swap", "reclaim", "flush"}
  BY DEF PCs
<1>9. CASE StartOpen \/ KeepMap \/ ImportSome \/ BuildOffline \/ LinkBackup \/ Reopen \/ MapFull
  BY <1>3, <1>8, <1>9, Zenon DEF StartOpen, KeepMap, ImportSome, BuildOffline, LinkBackup, Reopen, MapFull
<1>10. CASE CreateWithoutEnv \/ Crash
  BY <1>4, <1>10 DEF CreateWithoutEnv, Crash
<1>11. CASE RequestFlush \/ ShrinkMapLoses \/ SwapBusy
  BY <1>5, <1>11 DEF RequestFlush, ShrinkMapLoses, SwapBusy
<1>12. CASE BuildFails \/ SwapFails \/ RestoreFails
  BY <1>6, <1>12 DEF BuildFails, SwapFails, RestoreFails
<1>13. CASE StartFails \/ LoadFails \/ CreateFails \/ ImportFails \/ CreateNoSlot
  BY <1>7, <1>13 DEF StartFails, LoadFails, CreateFails, ImportFails, CreateNoSlot
<1>14. CASE CheckCopy
  <2>1. CASE upd' = [upd EXCEPT !.pc = "import", !.name = active.name]
    BY <1>1, <2>1 DEF Threads, Publishes
  <2> QED BY <1>3, <1>5, <1>8, <1>14, <2>1 DEF CheckCopy
<1>15. CASE ImportDone
  BY <1>3, <1>5, <1>8, <1>15 DEF ImportDone
<1>16. CASE Boot
  <2>1. PICK p \in {"open", "build"} : upd' = [Thread(p, "start") EXCEPT !.gen = 1]
    BY <1>16 DEF Boot
  <2> QED BY <2>1 DEF Thread, Publishes
<1>17. CASE Load \/ Rename \/ CreateCandidate \/ GrowMap \/ SwapBegin
  <2>1. upd'.pc \in {"build", "create", "reopen", "import", "link"}
    BY <1>1, <1>17, Zenon DEF Load, Rename, CreateCandidate, GrowMap, SwapBegin, Threads
  <2> QED BY <2>1 DEF Publishes
<1>18. CASE ShrinkMap
  BY <1>3, <1>5, <1>8, <1>18 DEF ShrinkMap
<1>19. CASE Restore
  BY <1>3, <1>5, <1>8, <1>19 DEF Restore
<1>20. CASE SwapDone
  <2>1. CASE Startup
    BY <1>3, <1>8, <1>20, <2>1 DEF SwapDone
  <2>2. CASE ~Startup
    BY <1>1, <1>20, <2>2 DEF SwapDone, Goto, Threads, Startup, Publishes
  <2> QED BY <2>1, <2>2
<1>21. CASE Requests
  <2>1. PICK p, o : upd' = Thread(p, o) /\ o \in {"store", "reload", "compact"}
    BY <1>21, Zenon DEF Requests, StoreRecord, ReloadBegin, CompactBegin
  <2>2. upd'.op = o
    BY <2>1 DEF Thread
  <2> QED BY <2>1, <2>2 DEF Startup, Publishes
<1> QED BY <1>9, <1>10, <1>11, <1>12, <1>13, <1>14, <1>15, <1>16, <1>17, <1>18, <1>19, <1>20,
           <1>21 DEF Exclusive

LEMMA StartupLoadedStep ==
    ASSUME TInv, StartupLoaded, [Next]_vars
    PROVE  StartupLoaded'
<1>1. upd \in Threads
  BY DEF TInv, Types, UpdType
<1>2. ASSUME ~Publishes' PROVE StartupLoaded'
  BY <1>2 DEF Publishes, StartupLoaded
<1>3. ASSUME UNCHANGED <<upd, expect, loaded>> PROVE StartupLoaded'
  BY <1>3 DEF StartupLoaded, Startup
<1>4. CASE \E w \in Workers : NewEvent(w) \/ Lookup(w) \/ OpenReadFails(w)
  <2>1. UNCHANGED <<upd, expect, loaded>>
    BY <1>4 DEF NewEvent, Lookup, AcquireGeneration, ReadAndRelease, OpenReadFails, history
  <2> QED BY <1>3, <2>1
<1>5. CASE \E p \in Processes : Reclaim(p) \/ ReclaimFails(p)
  <2>1. PICK p \in Processes : Reclaim(p) \/ ReclaimFails(p)
    BY <1>5
  <2>2. CASE ReclaimPick(p) \/ ReclaimDrop(p) \/ ReclaimUnlink(p)
    <3>1. UNCHANGED <<upd, expect, loaded>>
      BY <2>2, Zenon DEF ReclaimPick, ReclaimDrop, ReclaimUnlink, history
    <3> QED BY <1>3, <3>1
  <2>3. CASE ReclaimDone(p) \/ ReclaimFails(p)
    <3>1. expect' = expect /\ loaded' = loaded /\ AfterReclaim(p)
      BY <2>3 DEF ReclaimDone, ReclaimFails, history
    <3>2. CASE p = UpdateThread
      <4>1. upd.pc = "reclaim"
        BY <2>3, <3>2, FreeFacts DEF ReclaimDone, ReclaimFails, Reclaims, TInv, Lookups
      <4>2. Startup' => Startup
        BY <1>1, <3>1, <3>2, IdleFacts DEF AfterReclaim, Startup, Threads
      <4> QED BY <3>1, <4>1, <4>2 DEF StartupLoaded
    <3>3. CASE p # UpdateThread
      BY <1>3, <3>1, <3>3 DEF AfterReclaim
    <3> QED BY <3>2, <3>3
  <2> QED BY <2>1, <2>2, <2>3 DEF Reclaim
<1>6. CASE PublishCommit
  BY <1>6 DEF PublishCommit, StartupLoaded
<1>7. CASE PublishSwap
  <2>1. /\ upd.pc = "swap" /\ upd' = [upd EXCEPT !.pc = "reclaim"]
        /\ UNCHANGED <<expect, loaded>>
    BY <1>7 DEF PublishSwap, Goto, history
  <2>2. Startup' => Startup
    BY <1>1, <2>1 DEF Startup, Threads
  <2> QED BY <2>1, <2>2 DEF StartupLoaded
<1>8. CASE UNCHANGED vars
  <2>1. UNCHANGED <<upd, expect, loaded>>
    BY <1>8 DEF vars, history
  <2> QED BY <1>3, <2>1
<1> QED BY <1>2, <1>4, <1>5, <1>6, <1>7, <1>8, NotPublishing DEF Next, Update, Faults

LEMMA NextAllowed ==
    ASSUME TInv, TInv', StartupLoaded, [Next]_vars
    PROVE  Allowed
<1>1. CASE \E w \in Workers : NewEvent(w) \/ Lookup(w) \/ OpenReadFails(w)
  BY <1>1, LookupAllowed
<1>2. CASE \E p \in Processes : Reclaim(p) \/ ReclaimFails(p)
  BY <1>2, ReclaimAllowed
<1>3. CASE Update
  BY <1>3, StartupAllowed, MovesAllowed, DieAllowed, ImportAllowed, CommitAllowed, SwapAllowed,
     FlushAllowed, ExchangeAllowed DEF Update
<1>4. CASE Exclusive
  BY <1>4, ShrinkAllowed, CreateAllowed, FailsAllowed, ImportAllowed DEF Exclusive
<1>5. CASE Requests \/ Crash
  BY <1>5, StoreAllowed, MovesAllowed, DieAllowed DEF Requests
<1>6. CASE Faults
  BY <1>1, <1>2, <1>6, FailsAllowed, ShrinkAllowed, MovesAllowed, ExchangeAllowed DEF Faults
<1>7. CASE UNCHANGED vars
  <2>1. UNCHANGED <<file, upd, expect, active, reader>>
    BY <1>7 DEF vars, lmdb, generations, lookups, history
  <2> QED BY <2>1, QuietAllowed, SameFileReading DEF Startup
<1> QED BY <1>1, <1>2, <1>3, <1>4, <1>5, <1>6, <1>7 DEF Next

\* The generations of database.c, with their slots, reference counts, retired
\* list, locks and files, implement a store that has one content at a time:
\* every step of lookups, publications, reclaims, compactions, failures and
\* crashes is a step of that store, or one it does not notice.
THEOREM Generations_OneContent == Spec => OneContent
<1>1. Init => Store!Init
  <2> SUFFICES ASSUME Init PROVE Store!Init
    OBVIOUS
  <2>1. /\ file = [db |-> <<>>, meta |-> NoName] /\ upd = Thread("down", "start")
        /\ \A w \in Workers : reader[w] = NoReader
    BY DEF Init
  <2>2. Serving = FALSE
    BY <2>1 DEF Serving, Thread
  <2>3. View = {} /\ Spare = {}
    BY <2>2 DEF View, Spare
  <2>4. Disk = {}
    BY <2>1 DEF Disk, Named
  <2>5. Reading = Store!NoLookups
    BY <2>1 DEF Reading, NoReader, Store!NoLookups
  <2> QED BY <2>2, <2>3, <2>4, <2>5 DEF Store!Init
<1>2. Init => StartupLoaded
  BY DEF Init, StartupLoaded, Thread
<1>3. TInv /\ StartupLoaded /\ [Next]_vars => StartupLoaded'
  BY StartupLoadedStep
<1>4. TInv /\ TInv' /\ StartupLoaded /\ [Next]_vars => [Store!Next]_(Store!vars)
  BY NextAllowed DEF Allowed
<1> QED BY <1>1, <1>2, <1>3, <1>4, Generations_Invariant, PTL DEF Spec, OneContent, Store!Spec

\* It follows, from the store's steps alone, that a serving daemon has a whole
\* database on disk and that every lookup reads a whole one.
THEOREM Generations_AlwaysWhole == Spec => []Store!AlwaysWhole
<1>1. Store!Init => Store!AlwaysWhole
  BY DEF Store!Init, Store!AlwaysWhole, Store!Complete, Store!NoLookups
<1>2. Store!AlwaysWhole /\ [Store!Next]_(Store!vars) => Store!AlwaysWhole'
  <2> SUFFICES ASSUME Store!AlwaysWhole, Allowed
               PROVE  Store!AlwaysWhole'
    BY DEF Allowed
  <2>1. /\ Serving => Disk # {} /\ Store!Complete(Disk)
        /\ Store!Complete(View) /\ Store!Complete(Spare)
        /\ \A w \in Workers : Store!Complete(Reading[w])
    BY Zenon DEF Store!AlwaysWhole
  <2>2. Store!Complete({}) /\ \A S \in Snapshots : Store!Complete({S})
    BY DEF Store!Complete
  <2>3. ASSUME NEW C, Store!Complete(C), NEW r PROVE Store!Complete(Store!With(C, r))
    BY <2>3 DEF Store!Complete, Store!With
  <2>4. DOMAIN Reading = Workers
    BY DEF Reading
  <2> SUFFICES /\ Serving' => Disk' # {} /\ Store!Complete(Disk')
               /\ Store!Complete(View') /\ Store!Complete(Spare')
               /\ \A w \in Workers : Store!Complete(Reading'[w])
    BY Zenon DEF Store!AlwaysWhole, Store!Complete
  <2>5. CASE Store!Prepare
    BY <2>1, <2>5 DEF Store!Prepare
  <2>6. CASE Store!Start
    BY <2>1, <2>2, <2>6 DEF Store!Start
  <2>7. CASE Store!Crash
    BY <2>2, <2>7 DEF Store!Crash, Store!NoLookups
  <2>8. CASE Store!Install
    BY <2>1, <2>2, <2>8 DEF Store!Install
  <2>9. CASE Store!Close
    BY <2>1, <2>2, <2>9 DEF Store!Close
  <2>10. CASE Store!Undo
    BY <2>1, <2>2, <2>10 DEF Store!Undo
  <2>11. ASSUME NEW w \in Workers, Store!Begin(w) \/ Store!End(w)
         PROVE  \A v \in Workers : Store!Complete(Reading'[v])
    BY <2>1, <2>2, <2>4, <2>11 DEF Store!Begin, Store!End
  <2>12. CASE \E w \in Workers : Store!Begin(w) \/ Store!End(w)
    BY <2>1, <2>11, <2>12 DEF Store!Begin, Store!End
  <2>13. ASSUME NEW r \in Records, Store!Store(r)
         PROVE  /\ Disk' # {} /\ Store!Complete(Disk') /\ Store!Complete(View')
                /\ \A w \in Workers : Store!Complete(Reading'[w])
    <3>1. Disk' # {} /\ Store!Complete(Disk') /\ Store!Complete(View')
      <4>1. Disk' # {}
        <5>1. Disk # {} /\ Disk' = Store!With(Disk, r)
          BY <2>1, <2>13 DEF Store!Store
        <5>2. PICK S : S \in Disk
          BY <5>1
        <5> QED BY <5>1, <5>2, Zenon DEF Store!With
      <4> QED BY <2>1, <2>3, <2>13, <4>1 DEF Store!Store
    <3>2. PICK W : Reading' = [w \in Workers |-> IF w \in W THEN Store!With(Reading[w], r)
                                                  ELSE Reading[w]]
      BY <2>13 DEF Store!Store
    <3> QED BY <2>1, <2>3, <3>1, <3>2
  <2>14. CASE \E r \in Records : Store!Store(r)
    BY <2>1, <2>13, <2>14 DEF Store!Store
  <2>15. CASE \E S \in Snapshots : Store!Replace(S)
    BY <2>1, <2>2, <2>15 DEF Store!Replace
  <2>16. CASE UNCHANGED Store!vars
    BY <2>1, <2>16 DEF Store!vars
  <2> QED BY <2>5, <2>6, <2>7, <2>8, <2>9, <2>10, <2>12, <2>14, <2>15, <2>16, Zenon
             DEF Allowed, Store!Next
<1> QED BY <1>1, <1>2, Generations_OneContent, PTL DEF OneContent, Store!Spec

=============================================================================
