--------------------------- MODULE TrustDbProofs ---------------------------
(* The generations of the trust database, for any number of workers, slots,   *)
(* records, failures and crashes: what a lookup reads, what the file on disk  *)
(* and the active generation contain, and that no answer is out of date.      *)
EXTENDS TrustDb, WellFoundedInduction, TLAPS

-----------------------------------------------------------------------------
(* The inductive invariant.                                                   *)

Dbs == UNION {[D -> SUBSET Records] : D \in SUBSET Names}
Files == [db : Dbs, meta : Names \cup {NoName}]
Gens == [gen : Nat \ {0}, name : Names]
PCs == {"down", "open", "check", "idle", "size", "load", "create", "import",
        "importing", "grow", "commit", "swap", "reclaim", "flush", "build",
        "lock", "link", "rename", "reopen", "restore", "finish"}

FileType == file \in Files /\ backup \subseteq Files /\ tmp \subseteq Files
GenType ==
    /\ active \in Gens \cup {None} /\ retired \subseteq Gens
    /\ env = (active # None) /\ next_generation \in Nat \ {0}
Threads == [pc : PCs, op : {"start", "none", "store", "reload", "compact"},
            name : Names \cup {NoName}, gen : Nat, old : Nat \ {0},
            kept : SUBSET Records, retried : BOOLEAN]
UpdType == upd \in Threads /\ wrlock \in BOOLEAN
ReaderType ==
    /\ reader \in [Workers -> [pc : {"idle", "lookup", "pinned", "reclaim"},
                               gen : Gens \cup {None}, floor : Nat, from : Int]]
    /\ cache \in [Workers -> Int] /\ seen \in [Workers -> Nat]
    /\ flush \in Nat /\ done \in Nat
DataType ==
    /\ loaded \subseteq Records /\ expect \subseteq Records
    /\ reclaim \in [who : Processes \cup {NoOne}, gen : Gens \cup {None}]

\* Where the update thread is, and what of the database is open there.
Closed == upd.pc \in {"down", "open", "link", "rename", "reopen", "restore"}
          \/ (upd.pc = "build" /\ Startup)
Open == upd.pc \in {"check", "import", "importing", "grow", "commit", "swap",
                    "reclaim", "flush", "finish"}
Exchange == {"link", "rename", "reopen", "restore"}
Phases ==
    /\ upd.pc \in {"down", "open", "check"} => Startup
    /\ upd.pc \in {"idle", "size", "load", "lock"} => ~Startup
    /\ upd.op = "store" => upd.pc = "reclaim"
    /\ Closed => active = None
    /\ Open => active # None
    /\ active = None => retired = {}
    /\ upd.pc \in {"check", "finish"} => retired = {}
    /\ wrlock <=> (~Startup /\ upd.pc \in Exchange \cup {"finish"})
    /\ upd.pc # "down" => loaded \in Snapshots

\* The lookups under way, and who drops which generation.
Lookups ==
    /\ Startup => \A w \in Workers : reader[w].pc = "idle"
    /\ wrlock => Locked = {}
    /\ \A w \in Workers :
          /\ reader[w].gen # None <=> reader[w].pc = "pinned"
          /\ reader[w].pc = "pinned" => reader[w].gen \in retired \cup {active}
    /\ reclaim.who = NoOne => reclaim.gen = None
    /\ reclaim.who = UpdateThread => upd.pc = "reclaim"
    /\ reclaim.who \in Workers => reader[reclaim.who].pc = "reclaim"
    /\ reclaim.who # NoOne =>
          reclaim.gen \in retired /\ \A w \in Workers : reader[w].gen # reclaim.gen

\* Every generation has a database of its own, and so has the candidate.
Candidate == upd.pc \in {"commit", "swap"}
             \/ (upd.pc \in {"import", "importing", "grow"} /\ upd.name # active.name)
Naming ==
    /\ \A g, h \in retired \cup {active} : g.name = h.name => g = h
    /\ active \notin retired
    /\ upd.pc \in {"import", "importing", "grow", "commit", "swap"} =>
          upd.name \in DOMAIN file.db
    /\ Candidate => upd.name \notin UsedNames
    /\ upd.pc \in {"import", "importing", "grow"} /\ ~Startup => upd.name # active.name
    /\ active # None =>
          /\ active.name \in DOMAIN file.db
          /\ file.meta = IF upd.pc = "swap" THEN upd.name ELSE active.name

\* What the databases contain: the one being filled, the one on disk, and the
\* ones a compaction keeps beside it.
Whole(f, S) == f.meta \in DOMAIN f.db /\ f.db[f.meta] = S
Complete(S) == \E T \in Snapshots : T \subseteq S
Filling ==
    /\ upd.pc \in {"import", "importing"} => file.db[upd.name] \subseteq loaded
    /\ upd.pc = "commit" => file.db[upd.name] = loaded
Settled == ~Startup \/ upd.pc \in {"swap", "reclaim", "flush"}
OnDisk ==
    /\ Settled => Whole(file, expect) /\ Complete(expect)
    /\ ~Startup /\ upd.pc = "swap" => file.db[active.name] = upd.kept
    /\ ~Startup /\ upd.pc \in {"swap", "reopen", "restore"} => Complete(upd.kept)
Beside ==
    /\ tmp # {} => upd.pc \in {"lock", "link", "rename"}
    /\ \A f \in tmp : Whole(f, loaded)
    /\ upd.pc \in {"rename", "reopen", "restore"} => \E f \in Files : backup = {f}
    /\ upd.pc = "rename" => backup = {file}
    /\ ~Startup /\ upd.pc \in {"reopen", "restore"} =>
          \A f \in backup : Whole(f, upd.kept)
BeingRead ==
    \A w \in Workers : reader[w].pc = "pinned" =>
        /\ reader[w].gen.name \in DOMAIN file.db
        /\ Complete(file.db[reader[w].gen.name])

\* The numbers of generations, and of the answers found in them.
Renumbered == Startup /\ (upd.pc = "create" \/ Candidate)
Publishing ==
    /\ Startup => done = 0
    /\ active # None => done <= active.gen
    /\ active = None /\ upd.pc \notin Exchange => done = 0
    /\ upd.pc \in Exchange => done <= upd.old
    /\ upd.pc \in {"build", "lock", "link", "rename", "reopen"} \/ Candidate =>
          done <= upd.gen /\ upd.gen > 0
    /\ active # None /\ ~Renumbered => active.gen < next_generation
Answer(r, c, s, f, d) ==
    /\ r.floor <= d
    /\ r.pc = "pinned" => r.floor <= r.gen.gen
    /\ r.pc \in {"idle", "reclaim"} /\ r.from > 0 => r.floor <= r.from
    /\ s <= f
    /\ s = f /\ r.pc # "idle" => r.floor = d
    /\ s = f /\ c > 0 => d <= c
Answers == \A w \in Workers : Answer(reader[w], cache[w], seen[w], flush, done)

Types == FileType /\ GenType /\ UpdType /\ ReaderType /\ DataType
TInv == /\ Types /\ Phases /\ Lookups /\ Naming
        /\ Filling /\ OnDisk /\ Beside /\ BeingRead
        /\ Publishing /\ Answers

-----------------------------------------------------------------------------
(* Database files.                                                            *)

LEMMA DbsFacts ==
    /\ \A d \in Dbs : DOMAIN d \subseteq Names /\ \A n \in DOMAIN d : d[n] \subseteq Records
    /\ \A D \in SUBSET Names : [D -> SUBSET Records] \subseteq Dbs
BY DEF Dbs

LEMMA FileFacts ==
    ASSUME NEW f \in Files
    PROVE  /\ f.db \in Dbs /\ f.meta \in Names \cup {NoName}
           /\ DOMAIN f.db \subseteq Names /\ \A n \in DOMAIN f.db : f.db[n] \subseteq Records
           /\ NoName \notin DOMAIN f.db
<1>1. f.db \in Dbs /\ f.meta \in Names \cup {NoName}
  BY DEF Files
<1>2. DOMAIN f.db \subseteq Names /\ \A n \in DOMAIN f.db : f.db[n] \subseteq Records
  BY <1>1, DbsFacts
<1>3. NoName \notin Names
  BY TrustDbAssumption DEF NoName, Names, DbName, SlotNames
<1> QED BY <1>1, <1>2, <1>3

\* Dropping databases.
DropOf(f, S) == [f EXCEPT !.db = Without(f.db, S)]

LEMMA DropFacts ==
    ASSUME NEW f \in Files, NEW S
    PROVE  /\ DropOf(f, S) \in Files /\ DropOf(f, S).meta = f.meta
           /\ DOMAIN DropOf(f, S).db = DOMAIN f.db \ S
           /\ \A n \in DOMAIN f.db \ S : DropOf(f, S).db[n] = f.db[n]
<1> DEFINE d == Without(f.db, S)
           g == [f EXCEPT !.db = d]
<1>1. d = [n \in DOMAIN f.db \ S |-> f.db[n]]
  BY DEF Without, Restrict
<1>2. DOMAIN f.db \subseteq Names /\ \A n \in DOMAIN f.db : f.db[n] \subseteq Records
  BY FileFacts
<1>3. d \in [DOMAIN f.db \ S -> SUBSET Records] /\ DOMAIN f.db \ S \in SUBSET Names
  BY <1>1, <1>2
<1>4. d \in Dbs
  BY <1>3, DbsFacts
<1>5. DOMAIN d = DOMAIN f.db \ S /\ \A n \in DOMAIN f.db \ S : d[n] = f.db[n]
  BY <1>1
<1> HIDE DEF d
<1>6. g \in Files /\ g.meta = f.meta /\ g.db = d
  BY <1>4 DEF Files
<1>7. DropOf(f, S) = g
  BY DEF DropOf, d
<1> QED BY <1>5, <1>6, <1>7

\* Setting one database to the records in S.
SetDb(f, n, S) ==
    [f EXCEPT !.db = [m \in DOMAIN f.db \cup {n} |-> IF m = n THEN S ELSE f.db[m]]]

LEMMA SetDbFacts ==
    ASSUME NEW f \in Files, NEW n \in Names, NEW S \in SUBSET Records
    PROVE  /\ SetDb(f, n, S) \in Files /\ SetDb(f, n, S).meta = f.meta
           /\ DOMAIN SetDb(f, n, S).db = DOMAIN f.db \cup {n}
           /\ SetDb(f, n, S).db[n] = S
           /\ \A m \in DOMAIN f.db \ {n} : SetDb(f, n, S).db[m] = f.db[m]
<1> DEFINE d == [m \in DOMAIN f.db \cup {n} |-> IF m = n THEN S ELSE f.db[m]]
           g == [f EXCEPT !.db = d]
<1>1. DOMAIN f.db \subseteq Names /\ \A m \in DOMAIN f.db : f.db[m] \subseteq Records
  BY FileFacts
<1>2. d \in [DOMAIN f.db \cup {n} -> SUBSET Records] /\ DOMAIN f.db \cup {n} \in SUBSET Names
  BY <1>1
<1>3. d \in Dbs
  BY <1>2, DbsFacts
<1>4. /\ DOMAIN d = DOMAIN f.db \cup {n} /\ d[n] = S
      /\ \A m \in DOMAIN f.db \ {n} : d[m] = f.db[m]
  OBVIOUS
<1> HIDE DEF d
<1>5. g \in Files /\ g.meta = f.meta /\ g.db = d
  BY <1>3 DEF Files
<1>6. SetDb(f, n, S) = g
  BY DEF SetDb, d
<1> QED BY <1>4, <1>5, <1>6

LEMMA WithDbIs == \A n, S : WithDb(n, S) = SetDb(file, n, S)
BY DEF WithDb, SetDb

\* Naming another database in the metadata.
LEMMA MetaFacts ==
    ASSUME NEW f \in Files, NEW n \in Names
    PROVE  /\ [f EXCEPT !.meta = n] \in Files /\ [f EXCEPT !.meta = n].meta = n
           /\ [f EXCEPT !.meta = n].db = f.db
BY DEF Files

\* Storing one record.
LEMMA StoreFacts ==
    ASSUME NEW f \in Files, NEW n \in DOMAIN f.db, NEW r \in Records
    PROVE  [f EXCEPT !.db[n] = @ \cup {r}] = SetDb(f, n, f.db[n] \cup {r})
<1>1. f.db \in [DOMAIN f.db -> SUBSET Records]
  <2>1. f.db \in Dbs
    BY FileFacts
  <2>2. PICK D \in SUBSET Names : f.db \in [D -> SUBSET Records]
    BY <2>1 DEF Dbs
  <2> QED BY <2>2
<1>2. DOMAIN f.db \cup {n} = DOMAIN f.db
  OBVIOUS
<1>3. [f.db EXCEPT ![n] = @ \cup {r}]
        = [m \in DOMAIN f.db \cup {n} |-> IF m = n THEN f.db[n] \cup {r} ELSE f.db[m]]
  BY <1>1, <1>2
<1>4. [f EXCEPT !.db[n] = @ \cup {r}] = [f EXCEPT !.db = [f.db EXCEPT ![n] = @ \cup {r}]]
  BY DEF Files
<1> QED BY <1>3, <1>4 DEF SetDb

\* Opening a file, which creates the default database if there is none.
LEMMA OpenedFacts ==
    ASSUME NEW f \in Files, MetaName(f) \in DOMAIN Opened(f).db
    PROVE  /\ Opened(f) \in Files /\ Opened(f).meta = MetaName(f) /\ MetaName(f) \in Names
           /\ \A S : Whole(f, S) => Opened(f) = f
<1>1. CASE f.meta = NoName
  <2>1. [n \in {DbName} |-> {}] \in [{DbName} -> SUBSET Records] /\ {DbName} \in SUBSET Names
    BY DEF Names
  <2>2. [n \in {DbName} |-> {}] \in Dbs
    BY <2>1, DbsFacts
  <2>3. Opened(f) = [db |-> [n \in {DbName} |-> {}], meta |-> DbName] /\ MetaName(f) = DbName
    BY <1>1 DEF Opened, MetaName
  <2>4. NoName \notin DOMAIN f.db
    BY FileFacts
  <2> QED BY <1>1, <2>2, <2>3, <2>4 DEF Files, Names, Whole
<1>2. CASE f.meta # NoName
  <2>1. Opened(f) = f /\ MetaName(f) = f.meta
    BY <1>2 DEF Opened, MetaName
  <2> QED BY <1>2, <2>1, FileFacts
<1> QED BY <1>1, <1>2

\* The empty environment, and the one that is built beside it.
LEMMA NewFiles ==
    /\ [db |-> <<>>, meta |-> NoName] \in Files
    /\ \A S \in SUBSET Records :
          [db |-> [n \in {0} |-> S], meta |-> 0] \in Files
<1>1. <<>> \in Dbs
  <2>1. <<>> = [n \in {} |-> {}]
    OBVIOUS
  <2>2. [n \in {} |-> {}] \in [{} -> SUBSET Records]
    OBVIOUS
  <2> QED BY <2>1, <2>2, DbsFacts, Zenon
<1>2. ASSUME NEW S \in SUBSET Records PROVE [n \in {0} |-> S] \in Dbs
  <2>1. {0} \in SUBSET Names
    BY TrustDbAssumption DEF Names, SlotNames
  <2>2. [n \in {0} |-> S] \in [{0} -> SUBSET Records]
    OBVIOUS
  <2> QED BY <2>1, <2>2, DbsFacts
<1>3. 0 \in Names
  BY TrustDbAssumption DEF Names, SlotNames
<1> QED BY <1>1, <1>2, <1>3 DEF Files

-----------------------------------------------------------------------------
(* The update thread.                                                         *)

\* What a step to p leaves of the thread.
Moved(p) == /\ upd'.pc = p /\ upd'.op = upd.op /\ upd'.name = upd.name
            /\ upd'.gen = upd.gen /\ upd'.old = upd.old /\ upd'.kept = upd.kept

LEMMA GotoFacts ==
    ASSUME UpdType, NEW p \in PCs, Goto(p)
    PROVE  upd' \in Threads /\ Moved(p)
BY DEF UpdType, Goto, Threads, Moved

LEMMA ThreadFacts ==
    ASSUME NEW p \in PCs, NEW o \in {"start", "none", "store", "reload", "compact"}
    PROVE  /\ Thread(p, o) \in Threads
           /\ Thread(p, o).pc = p /\ Thread(p, o).op = o /\ Thread(p, o).name = NoName
           /\ Thread(p, o).gen = 0 /\ Thread(p, o).old = 1 /\ Thread(p, o).kept = {}
BY DEF Thread, Threads

LEMMA IdleFacts ==
    /\ Idle \in Threads /\ Idle.pc = "idle" /\ Idle.op = "none" /\ Idle.name = NoName
    /\ Idle.gen = 0 /\ Idle.old = 1 /\ Idle.kept = {}
BY ThreadFacts DEF Idle, PCs

\* A nonempty set of naturals has a least element.
LEMMA LeastNat ==
    ASSUME NEW T, T \subseteq Nat, T # {}
    PROVE  \E k \in T : \A j \in T : k <= j
<1> DEFINE R == OpToRel(<, Nat)
<1>1. \A x, y \in Nat : x < y => <<x, y>> \in R
  BY DEF OpToRel
<1>2. IsWellFoundedOn(R, Nat)
  BY NatLessThanWellFounded, Zenon
<1> HIDE DEF R
<1>3. \E k \in T : \A j \in T : ~(<<j, k>> \in R)
  BY <1>2, WFMin, Zenon
<1>4. PICK k \in T : \A j \in T : ~(<<j, k>> \in R)
  BY <1>3
<1>5. ASSUME NEW j \in T PROVE k <= j
  <2>1. j \in Nat /\ k \in Nat /\ ~(j < k)
    BY <1>1, <1>4, Zenon
  <2> QED BY <2>1
<1> QED BY <1>5

\* The slot of a candidate is one that no generation uses.
LEMMA SlotFacts ==
    ASSUME FreeSlots # {}
    PROVE  FirstFreeSlot \in Names /\ FirstFreeSlot \notin UsedNames
<1>1. FreeSlots \subseteq Nat
  BY DEF FreeSlots, SlotNames
<1>2. \E n \in FreeSlots : \A m \in FreeSlots : n <= m
  BY <1>1, LeastNat, Zenon
<1>3. FirstFreeSlot \in FreeSlots
  BY <1>2, Zenon DEF FirstFreeSlot
<1> QED BY <1>3 DEF FreeSlots, Names

LEMMA NoneFacts == None \notin Gens /\ None.name = NoName /\ NoName \notin Names
<1>1. NoName \notin Names
  BY TrustDbAssumption DEF NoName, Names, DbName, SlotNames
<1>2. None.name = NoName /\ None.gen = 0
  BY DEF None
<1>3. \A g \in Gens : g.name \in Names
  BY DEF Gens
<1> QED BY <1>1, <1>2, <1>3

LEMMA GenFacts ==
    ASSUME NEW g \in Nat \ {0}, NEW n \in Names
    PROVE  /\ [gen |-> g, name |-> n] \in Gens /\ [gen |-> g, name |-> n] # None
           /\ [gen |-> g, name |-> n].gen = g /\ [gen |-> g, name |-> n].name = n
<1>1. [gen |-> g, name |-> n] \in Gens
  BY DEF Gens
<1> QED BY <1>1, NoneFacts

\* What opening the file f as generation g leaves.
LEMMA InitDbFacts ==
    ASSUME NEW f \in Files, NEW g \in Nat \ {0}, init_db(f, g)
    PROVE  /\ file' \in Files /\ GenType' /\ active' # None /\ active'.gen = g
           /\ active'.name \in DOMAIN file'.db /\ file'.meta = active'.name
           /\ retired' = {} /\ next_generation' = g + 1
           /\ \A S : Whole(f, S) => file' = f
<1>1. /\ MetaName(f) \in DOMAIN Opened(f).db /\ file' = Opened(f) /\ env' = TRUE
      /\ active' = [gen |-> g, name |-> MetaName(f)]
      /\ retired' = {} /\ next_generation' = g + 1
  BY DEF init_db
<1>2. /\ Opened(f) \in Files /\ Opened(f).meta = MetaName(f) /\ MetaName(f) \in Names
      /\ \A S : Whole(f, S) => Opened(f) = f
  BY <1>1, OpenedFacts
<1>3. active' \in Gens /\ active' # None /\ active'.gen = g /\ active'.name = MetaName(f)
  BY <1>1, <1>2, GenFacts
<1>4. GenType'
  <2>1. env' = (active' # None)
    BY <1>1, <1>3, Zenon
  <2>2. next_generation' \in Nat \ {0} /\ retired' \subseteq Gens /\ active' \in Gens \cup {None}
    BY <1>1, <1>3
  <2> QED BY <2>1, <2>2, Zenon DEF GenType
<1> QED BY <1>1, <1>2, <1>3, <1>4

-----------------------------------------------------------------------------
(* Lookups.                                                                   *)

\* A lookup of w leaves everything but its own record.
Looking(w) ==
    /\ UNCHANGED <<lmdb, generations, wrlock, upd, loaded, flush, history>>
    /\ cache' \in [Workers -> Int] /\ seen' \in [Workers -> Nat]
    /\ reader' \in [Workers -> [pc : {"idle", "lookup", "pinned", "reclaim"},
                               gen : Gens \cup {None}, floor : Nat, from : Int]]
    /\ \A v \in Workers \ {w} :
          reader'[v] = reader[v] /\ cache'[v] = cache[v] /\ seen'[v] = seen[v]

LEMMA LookingKeeps ==
    ASSUME TInv, NEW w \in Workers, Looking(w)
    PROVE  /\ FileType' /\ GenType' /\ UpdType' /\ ReaderType'
           /\ Phases' /\ Naming' /\ Filling' /\ OnDisk' /\ Beside' /\ Publishing'
           /\ reader'[w].pc # "pinned" => BeingRead'
           /\ (Answer(reader[w], cache[w], seen[w], flush, done))' => Answers'
<1>1. /\ file' = file /\ backup' = backup /\ tmp' = tmp /\ env' = env /\ active' = active
      /\ retired' = retired /\ next_generation' = next_generation /\ wrlock' = wrlock
      /\ upd' = upd /\ loaded' = loaded /\ flush' = flush /\ done' = done
      /\ expect' = expect
  BY DEF Looking, lmdb, generations, history
<1>2. FileType' /\ GenType' /\ UpdType' /\ ReaderType'
  BY <1>1 DEF TInv, Types, FileType, GenType, UpdType, ReaderType, Looking
<1>3. Phases' /\ Publishing'
  BY <1>1 DEF TInv, Phases, Publishing, Closed, Open, Startup, Renumbered, Candidate
<1>4. Naming' /\ Filling'
  BY <1>1 DEF TInv, Naming, Filling, Candidate, UsedNames, Startup
<1>5. OnDisk' /\ Beside'
  BY <1>1 DEF TInv, OnDisk, Beside, Settled, Startup
<1>6. reader'[w].pc # "pinned" => BeingRead'
  BY <1>1 DEF TInv, BeingRead, Looking
<1>7. (Answer(reader[w], cache[w], seen[w], flush, done))' => Answers'
  BY <1>1 DEF TInv, Answers, Looking
<1> QED BY <1>2, <1>3, <1>4, <1>5, <1>6, <1>7

LEMMA NewEventStep ==
    ASSUME TInv, NEW w \in Workers, NewEvent(w)
    PROVE  TInv'
<1> DEFINE hit == IF seen[w] = flush THEN cache[w] ELSE 0
           r == [pc |-> IF hit = 0 THEN "lookup" ELSE "idle", gen |-> None,
                 floor |-> done, from |-> hit]
<1>1. /\ ~Startup /\ reader[w].pc = "idle" /\ seen' = [seen EXCEPT ![w] = flush]
      /\ cache' = [cache EXCEPT ![w] = hit] /\ reader' = [reader EXCEPT ![w] = r]
      /\ reclaim' = reclaim /\ upd' = upd /\ flush' = flush /\ done' = done
      /\ wrlock' = wrlock /\ loaded' = loaded /\ expect' = expect /\ retired' = retired
      /\ active' = active
  BY DEF NewEvent, Serving, generations, history
<1>2. ReaderType
  BY DEF TInv, Types
<1>3. hit \in Int
  BY <1>2 DEF ReaderType
<1> HIDE DEF hit
<1>4. /\ r \in [pc : {"idle", "lookup", "pinned", "reclaim"},
                gen : Gens \cup {None}, floor : Nat, from : Int]
      /\ r.pc \in {"idle", "lookup"} /\ r.gen = None /\ r.floor = done /\ r.from = hit
  BY <1>2, <1>3 DEF ReaderType
<1> HIDE DEF r
<1>5. /\ reader'[w] = r /\ cache'[w] = hit /\ seen'[w] = flush
      /\ Looking(w)
  BY <1>1, <1>2, <1>3, <1>4 DEF ReaderType, Looking, NewEvent
<1>6. Answer(r, hit, flush, flush, done)
  <2>1. hit > 0 => done <= hit
    BY <1>2 DEF TInv, Answers, Answer, hit, ReaderType
  <2> QED BY <1>2, <1>3, <1>4, <2>1 DEF Answer, ReaderType
<1>7. Lookups'
  <2>1. Locked' = Locked
    BY <1>1, <1>4, <1>5 DEF Locked, Looking
  <2>2. reclaim.who # w
    BY <1>1 DEF TInv, Lookups
  <2>3. reclaim.who # NoOne => reclaim.gen # None
    BY NoneFacts DEF TInv, Types, GenType, Lookups
  <2> QED BY <1>1, <1>4, <1>5, <2>1, <2>2, <2>3 DEF TInv, Lookups, Looking, Startup
<1>8. DataType'
  BY <1>1 DEF TInv, Types, DataType
<1> QED BY <1>1, <1>4, <1>5, <1>6, <1>7, <1>8, LookingKeeps DEF TInv, Types

LEMMA AcquireStep ==
    ASSUME TInv, NEW w \in Workers, AcquireGeneration(w)
    PROVE  TInv'
<1>1. /\ reader[w].pc = "lookup" /\ ~wrlock
      /\ reclaim' = reclaim /\ upd' = upd /\ flush' = flush /\ done' = done
      /\ wrlock' = wrlock /\ loaded' = loaded /\ expect' = expect /\ retired' = retired
      /\ active' = active /\ seen' = seen /\ file' = file
  BY DEF AcquireGeneration, generations, history, lmdb
<1>2. ReaderType /\ GenType
  BY DEF TInv, Types
<1>3. ~Startup
  BY <1>1 DEF TInv, Lookups
<1>4. Answer(reader[w], cache[w], seen[w], flush, done)
  BY DEF TInv, Answers
<1>d. DataType'
  BY <1>1 DEF TInv, Types, DataType
<1>5. CASE active # None
  <2>1. /\ reader' = [reader EXCEPT ![w].pc = "pinned", ![w].gen = active]
        /\ cache' = cache
    BY <1>5 DEF AcquireGeneration
  <2>2. /\ reader'[w].pc = "pinned" /\ reader'[w].gen = active
        /\ reader'[w].floor = reader[w].floor /\ Looking(w)
    BY <1>1, <1>2, <2>1 DEF ReaderType, GenType, Looking, AcquireGeneration
  <2>3. Answers'
    <3>1. reader[w].floor <= active.gen
      <4>1. done <= active.gen /\ reader[w].floor <= done
        BY <1>4, <1>5 DEF TInv, Publishing, Answer
      <4>2. active.gen \in Nat /\ done \in Nat /\ reader[w].floor \in Nat
        BY <1>2, <1>5 DEF GenType, ReaderType, Gens
      <4> QED BY <4>1, <4>2
    <3>2. (Answer(reader[w], cache[w], seen[w], flush, done))'
      BY <1>1, <1>4, <2>1, <2>2, <3>1 DEF Answer
    <3> QED BY <2>2, <3>2, LookingKeeps
  <2>4. BeingRead'
    <3>1. /\ active.name \in DOMAIN file.db
          /\ Complete(file.db[active.name])
      BY <1>3, <1>5 DEF TInv, Naming, OnDisk, Settled, Whole
    <3> QED BY <1>1, <2>2, <3>1 DEF TInv, BeingRead, Looking
  <2>5. Lookups'
    <3>1. reclaim.who # w /\ (reclaim.who # NoOne => reclaim.gen # active)
      BY <1>1 DEF TInv, Lookups, Naming
    <3> QED BY <1>1, <1>3, <1>5, <2>2, <3>1 DEF TInv, Lookups, Looking, Startup
  <2> QED BY <1>d, <2>2, <2>3, <2>4, <2>5, LookingKeeps DEF TInv, Types
<1>6. CASE active = None
  <2>1. /\ reader' = [reader EXCEPT ![w].pc = "idle", ![w].from = Error]
        /\ cache' = [cache EXCEPT ![w] = Error]
    BY <1>6 DEF AcquireGeneration
  <2>2. /\ reader'[w].pc = "idle" /\ reader'[w].gen = reader[w].gen
        /\ reader'[w].floor = reader[w].floor /\ reader'[w].from = Error
        /\ cache'[w] = Error /\ Looking(w)
    BY <1>1, <1>2, <2>1 DEF ReaderType, GenType, Looking, AcquireGeneration, Error
  <2>3. (Answer(reader[w], cache[w], seen[w], flush, done))'
    BY <1>1, <1>4, <2>1, <2>2 DEF Answer, Error
  <2>4. Lookups'
    <3>1. reclaim.who # w /\ Locked' = Locked
      BY <1>1, <2>2 DEF TInv, Lookups, Locked, Looking
    <3> QED BY <1>1, <1>3, <1>6, <2>2, <3>1 DEF TInv, Lookups, Looking, Startup
  <2> QED BY <1>d, <2>2, <2>3, <2>4, LookingKeeps, Zenon DEF TInv, Types
<1> QED BY <1>5, <1>6

\* The end of a read, which found its answer in the pinned generation or failed.
LEMMA ReleaseStep ==
    ASSUME TInv, NEW w \in Workers, NEW x \in {reader[w].gen.gen, Error},
           reader[w].pc = "pinned",
           reader' = [reader EXCEPT ![w].pc = "reclaim", ![w].gen = None, ![w].from = x],
           UNCHANGED <<lmdb, generations, wrlock, cache, seen, reclaim, upd, loaded,
                       flush, history>>
    PROVE  TInv'
<1>1. /\ reclaim' = reclaim /\ upd' = upd /\ flush' = flush /\ done' = done
      /\ wrlock' = wrlock /\ loaded' = loaded /\ expect' = expect /\ retired' = retired
      /\ active' = active /\ seen' = seen /\ cache' = cache
  BY DEF generations, history
<1>2. ReaderType /\ GenType
  BY DEF TInv, Types
<1>3. reader[w].gen \in Gens /\ reader[w].gen.gen \in Nat \ {0}
  BY <1>2, NoneFacts DEF TInv, Lookups, ReaderType, Gens
<1>4. x \in Int /\ (x > 0 => x = reader[w].gen.gen)
  BY <1>3 DEF Error
<1>5. /\ reader'[w].pc = "reclaim" /\ reader'[w].gen = None
      /\ reader'[w].floor = reader[w].floor /\ reader'[w].from = x /\ Looking(w)
  BY <1>1, <1>2, <1>4, Zenon DEF ReaderType, Looking
<1>6. (Answer(reader[w], cache[w], seen[w], flush, done))'
  <2>1. Answer(reader[w], cache[w], seen[w], flush, done)
    BY DEF TInv, Answers
  <2> QED BY <1>1, <1>4, <1>5, <2>1 DEF Answer
<1>7. Lookups'
  <2>1. reclaim.who # w /\ Locked' = Locked
    BY <1>1, <1>5 DEF TInv, Lookups, Locked, Looking
  <2>2. reclaim.who # NoOne => reclaim.gen # None
    BY <1>2, NoneFacts DEF GenType, TInv, Lookups
  <2> QED BY <1>1, <1>5, <2>1, <2>2 DEF TInv, Lookups, Looking, Startup
<1>8. DataType'
  BY <1>1 DEF TInv, Types, DataType
<1> QED BY <1>5, <1>6, <1>7, <1>8, LookingKeeps, Zenon DEF TInv, Types

\* The end of a lookup, after the reclaim.
LEMMA FinishStep ==
    ASSUME TInv, NEW w \in Workers, reader[w].pc = "reclaim", FinishLookup(w),
           reclaim.who \in {w, NoOne}, reclaim' = Free,
           UNCHANGED <<lmdb, generations, wrlock, seen, upd, loaded, flush, history>>
    PROVE  TInv'
<1>1. /\ upd' = upd /\ flush' = flush /\ done' = done
      /\ wrlock' = wrlock /\ loaded' = loaded /\ expect' = expect /\ retired' = retired
      /\ active' = active /\ seen' = seen
  BY DEF generations, history
<1>2. ReaderType /\ GenType
  BY DEF TInv, Types
<1>3. /\ reader'[w].pc = "idle" /\ reader'[w].gen = reader[w].gen
      /\ reader'[w].floor = reader[w].floor /\ reader'[w].from = reader[w].from
      /\ cache'[w] = reader[w].from /\ Looking(w)
  BY <1>1, <1>2 DEF ReaderType, Looking, FinishLookup
<1>4. (Answer(reader[w], cache[w], seen[w], flush, done))'
  <2>1. Answer(reader[w], cache[w], seen[w], flush, done)
    BY DEF TInv, Answers
  <2> QED BY <1>1, <1>2, <1>3, <2>1 DEF Answer, ReaderType
<1>5. reclaim'.who = NoOne /\ reclaim'.gen = None /\ NoOne \notin Workers \cup {UpdateThread}
  BY TrustDbAssumption DEF Free, NoOne, UpdateThread
<1>6. Lookups'
  <2>1. wrlock => Locked' = {}
    BY <1>1, <1>3 DEF TInv, Lookups, Locked, Looking
  <2> QED BY <1>1, <1>3, <1>5, <2>1 DEF TInv, Lookups, Looking, Startup
<1>7. DataType'
  BY <1>1, <1>5 DEF TInv, Types, DataType, Free
<1> QED BY <1>3, <1>4, <1>6, <1>7, LookingKeeps DEF TInv, Types

-----------------------------------------------------------------------------
(* The reclaim of retired generations.                                        *)

\* Steps that concern no answer.
LEMMA SameAnswers ==
    ASSUME TInv, UNCHANGED <<reader, cache, seen, flush, done>>
    PROVE  ReaderType' /\ Answers'
BY DEF TInv, Types, ReaderType, Answers

LEMMA PickStep ==
    ASSUME TInv, NEW p \in Processes, ReclaimPick(p)
    PROVE  TInv'
<1>1. PICK g \in Unused : reclaim' = [who |-> p, gen |-> g]
  BY DEF ReclaimPick
<1>2. /\ file' = file /\ backup' = backup /\ tmp' = tmp /\ env' = env /\ active' = active
      /\ retired' = retired /\ next_generation' = next_generation /\ wrlock' = wrlock
      /\ upd' = upd /\ loaded' = loaded /\ flush' = flush /\ done' = done
      /\ expect' = expect /\ reader' = reader /\ cache' = cache /\ seen' = seen
  BY DEF ReclaimPick, lmdb, generations, history, lookups
<1>3. g \in retired /\ g \in Gens /\ \A w \in Workers : reader[w].gen # g
  BY DEF Unused, Pinned, TInv, Types, GenType
<1>4. reclaim'.who = p /\ reclaim'.gen = g /\ p # NoOne
  BY <1>1, TrustDbAssumption DEF Processes, NoOne, UpdateThread
<1>5. FileType' /\ GenType' /\ UpdType' /\ DataType'
  BY <1>1, <1>2, <1>3 DEF TInv, Types, FileType, GenType, UpdType, DataType
<1>6. Phases' /\ Publishing'
  BY <1>2 DEF TInv, Phases, Publishing, Closed, Open, Startup, Renumbered, Candidate
<1>7. Naming' /\ Filling'
  BY <1>2, Zenon DEF TInv, Naming, Filling, Candidate, UsedNames, Startup
<1>8. OnDisk' /\ Beside' /\ BeingRead'
  BY <1>2, Zenon DEF TInv, OnDisk, Beside, BeingRead, Settled, Startup
<1>9. Lookups'
  <2>1. Reclaims(p)
    BY DEF ReclaimPick
  <2>2. (p = UpdateThread => upd.pc = "reclaim") /\ (p \in Workers => reader[p].pc = "reclaim")
    BY <2>1, TrustDbAssumption DEF Reclaims, UpdateThread
  <2> QED BY <1>2, <1>3, <1>4, <2>2, Zenon DEF TInv, Lookups, Locked, Startup
<1> QED BY <1>2, <1>5, <1>6, <1>7, <1>8, <1>9, SameAnswers DEF TInv, Types

\* No database in use is one that is dropped.
LEMMA DropStep ==
    ASSUME TInv, NEW p \in Processes, ReclaimDrop(p)
    PROVE  TInv'
<1> DEFINE n == reclaim.gen.name
<1>1. /\ file' = DropOf(file, {n}) /\ backup' = backup /\ tmp' = tmp /\ env' = env
      /\ active' = active /\ retired' = retired /\ next_generation' = next_generation
      /\ wrlock' = wrlock /\ upd' = upd /\ loaded' = loaded /\ flush' = flush
      /\ done' = done /\ expect' = expect /\ reader' = reader /\ cache' = cache
      /\ seen' = seen /\ reclaim' = reclaim
  BY DEF ReclaimDrop, DropDb, DropOf, generations, history, lookups
<1>2. file \in Files
  BY DEF TInv, Types, FileType
<1>3. /\ file' \in Files /\ file'.meta = file.meta /\ DOMAIN file'.db = DOMAIN file.db \ {n}
      /\ \A m \in DOMAIN file.db \ {n} : file'.db[m] = file.db[m]
  BY <1>1, <1>2, DropFacts
<1>4. reclaim.who = p /\ p # NoOne
  BY TrustDbAssumption DEF ReclaimDrop, Processes, NoOne, UpdateThread
<1>5. reclaim.gen \in retired /\ active # None /\ \A w \in Workers : reader[w].gen # reclaim.gen
  BY <1>4 DEF TInv, Lookups, Phases
<1>6. n \in UsedNames
  BY <1>5 DEF UsedNames
<1>7. n # active.name
  BY <1>5 DEF TInv, Naming
<1>8. \A w \in Workers : reader[w].pc = "pinned" => n # reader[w].gen.name
  BY <1>5 DEF TInv, Lookups, Naming
<1>9. upd.pc \in {"import", "importing", "grow", "commit", "swap"} => n # upd.name
  <2>1. CASE Candidate
    BY <1>6, <2>1 DEF TInv, Naming
  <2>2. CASE ~Candidate
    BY <1>7, <2>2 DEF Candidate
  <2> QED BY <2>1, <2>2
<1>10. file.meta # n
  BY <1>5, <1>7, <1>9 DEF TInv, Naming
<1>11. FileType' /\ GenType' /\ UpdType' /\ DataType'
  BY <1>1, <1>3 DEF TInv, Types, FileType, GenType, UpdType, DataType
<1>12. Phases' /\ Publishing'
  BY <1>1, Zenon DEF TInv, Phases, Publishing, Closed, Open, Startup, Renumbered, Candidate
<1>13. Lookups'
  BY <1>1, Zenon DEF TInv, Lookups, Locked, Startup
<1>14. Naming' /\ Filling'
  <2> HIDE DEF n
  <2> QED BY <1>1, <1>3, <1>7, <1>9, Zenon DEF TInv, Naming, Filling, Candidate, UsedNames, Startup
<1>15. OnDisk'
  <2> HIDE DEF n
  <2>1. ~Startup /\ upd.pc = "swap" => active.name \in DOMAIN file.db
    BY <1>5 DEF TInv, Naming
  <2> QED BY <1>1, <1>3, <1>7, <1>10, <2>1, Zenon DEF TInv, OnDisk, Settled, Startup, Whole
<1>16. Beside'
  <2>1. upd.pc \notin {"rename", "reopen", "restore"}
    BY <1>5, Zenon DEF TInv, Phases, Closed
  <2> QED BY <1>1, <2>1 DEF TInv, Beside, Startup
<1>17. BeingRead'
  <2> HIDE DEF n
  <2> QED BY <1>1, <1>3, <1>8, Zenon DEF TInv, BeingRead
<1> QED BY <1>1, <1>11, <1>12, <1>13, <1>14, <1>15, <1>16, <1>17, SameAnswers DEF TInv, Types

LEMMA UnlinkStep ==
    ASSUME TInv, NEW p \in Processes, ReclaimUnlink(p)
    PROVE  TInv'
<1>1. /\ file' = file /\ backup' = backup /\ tmp' = tmp /\ env' = env /\ active' = active
      /\ retired' = retired \ {reclaim.gen} /\ next_generation' = next_generation
      /\ wrlock' = wrlock /\ upd' = upd /\ loaded' = loaded /\ flush' = flush
      /\ done' = done /\ expect' = expect /\ reader' = reader /\ cache' = cache
      /\ seen' = seen /\ reclaim' = Free
  BY DEF ReclaimUnlink, lmdb, history, lookups
<1>2. reclaim.who = p /\ p # NoOne
  BY TrustDbAssumption DEF ReclaimUnlink, Processes, NoOne, UpdateThread
<1>3. reclaim.gen \in retired /\ \A w \in Workers : reader[w].gen # reclaim.gen
  BY <1>2 DEF TInv, Lookups
<1>4. reclaim'.who = NoOne /\ reclaim'.gen = None /\ NoOne \notin Workers \cup {UpdateThread}
  BY <1>1, TrustDbAssumption DEF Free, NoOne, UpdateThread
<1>5. FileType' /\ GenType' /\ UpdType' /\ DataType'
  BY <1>1 DEF TInv, Types, FileType, GenType, UpdType, DataType, Free
<1>6. Phases' /\ Publishing'
  BY <1>1 DEF TInv, Phases, Publishing, Closed, Open, Startup, Renumbered, Candidate
<1>7. Naming' /\ Filling'
  BY <1>1, Zenon DEF TInv, Naming, Filling, Candidate, UsedNames, Startup
<1>8. OnDisk' /\ Beside' /\ BeingRead'
  BY <1>1, Zenon DEF TInv, OnDisk, Beside, BeingRead, Settled, Startup
<1>9. Lookups'
  BY <1>1, <1>3, <1>4, Zenon DEF TInv, Lookups, Locked, Startup
<1> QED BY <1>1, <1>5, <1>6, <1>7, <1>8, <1>9, SameAnswers DEF TInv, Types

-----------------------------------------------------------------------------
(* Steps of the update thread that leave the databases and the lookups alone. *)

LEMMA FreeFacts ==
    /\ Free.who = NoOne /\ Free.gen = None /\ NoOne \notin Processes
    /\ UpdateThread \notin Workers /\ Free \in [who : Processes \cup {NoOne}, gen : Gens \cup {None}]
BY TrustDbAssumption DEF Free, NoOne, UpdateThread, Processes

\* The generations the lookups pin or drop stay where they are.
LEMMA SameLookups ==
    ASSUME TInv, reader' = reader, reclaim' \in {reclaim, Free}, Startup' => Startup,
           wrlock' => wrlock \/ Locked = {}, retired \subseteq retired',
           active # None => active \in retired' \cup {active'},
           reclaim'.who = UpdateThread => upd'.pc = "reclaim"
    PROVE  Lookups'
<1>1. \A w \in Workers : reader[w].pc = "pinned" => reader[w].gen \in retired' \cup {active'}
  BY DEF TInv, Lookups
<1>2. Locked' = Locked
  BY DEF Locked
<1>3. CASE reclaim' = reclaim
  BY <1>1, <1>2, <1>3 DEF TInv, Lookups
<1>4. CASE reclaim' = Free
  BY <1>1, <1>2, <1>4, FreeFacts DEF TInv, Lookups, Processes
<1> QED BY <1>3, <1>4

LEMMA QuietStep ==
    ASSUME TInv, UNCHANGED <<file, env, active, retired, lookups, flush, done>>,
           reclaim' \in {reclaim, Free}, wrlock' = wrlock \/ wrlock' = FALSE,
           next_generation' \in Nat \ {0}, upd' \in Threads,
           tmp' \subseteq Files, backup' \subseteq Files,
           loaded' \subseteq Records, expect' \subseteq Records,
           Startup' => Startup, reclaim'.who = UpdateThread => upd'.pc = "reclaim",
           Phases', Naming', Filling', OnDisk', Beside', Publishing'
    PROVE  TInv'
<1>1. FileType' /\ GenType'
  BY DEF TInv, Types, FileType, GenType
<1>2. DataType'
  BY FreeFacts DEF TInv, Types, DataType
<1>3. wrlock' \in BOOLEAN /\ (wrlock' => wrlock)
  <2>1. wrlock \in BOOLEAN
    BY DEF TInv, Types, UpdType
  <2>2. CASE wrlock' = wrlock
    BY <2>1, <2>2
  <2>3. CASE wrlock' = FALSE
    BY <2>3, Zenon
  <2> QED BY <2>2, <2>3, Zenon
<1>4. UpdType'
  BY <1>3, Zenon DEF UpdType
<1>5. reader' = reader /\ cache' = cache /\ seen' = seen
  BY DEF lookups
<1>6. ReaderType' /\ Answers'
  BY <1>5, SameAnswers
<1>7. Lookups'
  BY <1>3, <1>5, SameLookups
<1>8. BeingRead'
  BY <1>5 DEF TInv, BeingRead
<1> QED BY <1>1, <1>2, <1>4, <1>6, <1>7, <1>8 DEF TInv, Types

LEMMA SnapshotFacts == \A S \in Snapshots : S \subseteq Records /\ Complete(S)
BY TrustDbAssumption DEF Complete

LEMMA BootStep ==
    ASSUME TInv, Boot
    PROVE  TInv'
<1>1. PICK p \in {"open", "build"} : upd' = [Thread(p, "start") EXCEPT !.gen = 1]
  BY DEF Boot
<1>2. upd' \in Threads /\ upd'.pc = p /\ upd'.op = "start" /\ upd'.gen = 1
  <2>1. /\ Thread(p, "start") \in Threads /\ Thread(p, "start").pc = p
        /\ Thread(p, "start").op = "start"
    <3>1. p \in PCs
      BY DEF PCs
    <3> QED BY <3>1, ThreadFacts, Zenon
  <2> QED BY <1>1, <2>1 DEF Threads
<1>3. /\ upd.pc = "down" /\ loaded' \in Snapshots
      /\ file' = file /\ backup' = backup /\ tmp' = tmp /\ env' = env /\ active' = active
      /\ retired' = retired /\ next_generation' = next_generation /\ wrlock' = wrlock
      /\ flush' = flush /\ done' = done /\ expect' = expect /\ lookups' = lookups
      /\ reclaim' = reclaim
  BY DEF Boot, lmdb, generations, history
<1>4. Startup /\ active = None /\ retired = {} /\ done = 0 /\ ~wrlock /\ tmp = {}
  BY <1>3 DEF TInv, Phases, Closed, Publishing, Beside
<1>5. Phases' /\ Publishing'
  <2>1. Phases'
    BY <1>2, <1>3, <1>4 DEF TInv, Phases, Closed, Open, Exchange, Startup
  <2>2. Publishing'
    BY <1>2, <1>3, <1>4 DEF TInv, Publishing, Exchange, Startup, Renumbered, Candidate
  <2> QED BY <2>1, <2>2
<1>6. Naming' /\ Filling'
  BY <1>2, <1>3, <1>4, Zenon DEF TInv, Naming, Filling, Candidate, UsedNames
<1>7. OnDisk' /\ Beside'
  BY <1>2, <1>3, <1>4, Zenon DEF TInv, OnDisk, Beside, Settled, Startup
<1>8. reclaim.who # UpdateThread /\ Startup'
  BY <1>2, <1>3, Zenon DEF TInv, Lookups, Startup
<1> QED BY <1>2, <1>3, <1>4, <1>5, <1>6, <1>7, <1>8, QuietStep, SnapshotFacts, Zenon
           DEF TInv, Types, FileType, GenType, DataType

\* The step leaves all but the thread, the snapshots and what is expected.
Quiet == /\ file' = file /\ backup' = backup /\ tmp' = tmp /\ env' = env
         /\ active' = active /\ retired' = retired /\ wrlock' = wrlock
         /\ lookups' = lookups /\ reclaim' = reclaim /\ flush' = flush /\ done' = done

LEMMA QuietKeeps ==
    ASSUME TInv, Quiet, next_generation' \in Nat \ {0}, upd' \in Threads,
           loaded' \subseteq Records, expect' \subseteq Records,
           Startup' => Startup, upd.pc # "reclaim",
           Phases', Naming', Filling', OnDisk', Beside', Publishing'
    PROVE  TInv'
<1>1. tmp' \subseteq Files /\ backup' \subseteq Files /\ reclaim'.who # UpdateThread
  BY DEF TInv, Types, FileType, Lookups, Quiet
<1> QED BY <1>1, QuietStep DEF Quiet

\* An empty database is filled in place, ...
LEMMA CheckEmpty ==
    ASSUME TInv, CheckCopy, upd' = [upd EXCEPT !.pc = "import", !.name = active.name],
           Content = {}, UNCHANGED <<expect, next_generation>>
    PROVE  TInv'
<1>1. upd.pc = "check" /\ Quiet /\ loaded' = loaded
  BY DEF CheckCopy, Quiet, lmdb
<1>2. active # None /\ active \in Gens /\ upd \in Threads /\ Startup /\ retired = {}
  BY <1>1 DEF TInv, Types, GenType, UpdType, Phases, Open
<1>3. /\ upd' \in Threads /\ upd'.pc = "import" /\ upd'.op = upd.op
      /\ upd'.name = active.name /\ upd'.gen = upd.gen
  BY <1>2, Zenon DEF Threads, Gens, PCs
<1>4. Startup'
  BY <1>2, <1>3 DEF Startup
<1>5. Phases' /\ Publishing'
  BY <1>1, <1>2, <1>3 DEF TInv, Quiet, Phases, Publishing, Closed, Open, Exchange, Startup,
     Renumbered, Candidate
<1>6. Naming' /\ Filling'
  BY <1>1, <1>2, <1>3 DEF TInv, Quiet, Naming, Filling, Candidate, UsedNames, Startup, Content
<1>7. OnDisk' /\ Beside'
  BY <1>1, <1>2, <1>3 DEF TInv, Quiet, OnDisk, Beside, Settled, Startup
<1> QED BY <1>1, <1>2, <1>3, <1>4, <1>5, <1>6, <1>7, QuietKeeps
           DEF TInv, Types, GenType, DataType

\* ... one that agrees with the backends is used as it is, ...
LEMMA CheckAgrees ==
    ASSUME TInv, CheckCopy, Content = loaded, upd' = Idle, expect' = loaded,
           UNCHANGED next_generation
    PROVE  TInv'
<1>1. upd.pc = "check" /\ Quiet /\ loaded' = loaded
  BY DEF CheckCopy, Quiet, lmdb
<1>2. /\ active # None /\ Startup /\ retired = {} /\ loaded \in Snapshots /\ ~wrlock
      /\ tmp = {}
  BY <1>1 DEF TInv, Phases, Open, Beside
<1>3. upd' \in Threads /\ upd'.pc = "idle" /\ upd'.op = "none" /\ ~Startup'
  BY IdleFacts DEF Startup
<1>4. Phases' /\ Publishing'
  BY <1>1, <1>2, <1>3, Zenon DEF TInv, Quiet, Phases, Publishing, Closed, Open, Exchange, Startup,
     Renumbered, Candidate
<1>5. Naming' /\ Filling'
  BY <1>1, <1>2, <1>3, Zenon DEF TInv, Quiet, Naming, Filling, Candidate, UsedNames, Startup
<1>6. OnDisk'
  <2>1. Whole(file, loaded) /\ Complete(loaded)
    BY <1>1, <1>2, SnapshotFacts DEF TInv, Naming, Whole, Content
  <2> QED BY <1>1, <1>3, <2>1, Zenon DEF Quiet, OnDisk
<1>7. Beside'
  BY <1>1, <1>2, <1>3 DEF TInv, Quiet, Beside
<1> QED BY <1>1, <1>2, <1>3, <1>4, <1>5, <1>6, <1>7, QuietKeeps
           DEF TInv, Types, GenType, DataType

\* ... and any other is replaced by a new generation.
LEMMA CheckDiffers ==
    ASSUME TInv, CheckCopy, next_generation' = 1, Goto("create"), UNCHANGED expect
    PROVE  TInv'
<1>1. upd.pc = "check" /\ Quiet /\ loaded' = loaded
  BY DEF CheckCopy, Quiet, lmdb
<1>2. active # None /\ Startup /\ retired = {} /\ UpdType
  BY <1>1 DEF TInv, Types, Phases, Open
<1>3. upd' \in Threads /\ Moved("create")
  BY <1>2, GotoFacts DEF PCs
<1>4. Startup'
  BY <1>2, <1>3 DEF Startup, Moved
<1>5. Phases' /\ Publishing'
  BY <1>1, <1>2, <1>3, Zenon DEF TInv, Quiet, Phases, Publishing, Closed, Open, Exchange, Startup,
     Renumbered, Candidate, Moved
<1>6. Naming' /\ Filling'
  BY <1>1, <1>2, <1>3, Zenon DEF TInv, Quiet, Naming, Filling, Candidate, UsedNames, Startup, Moved
<1>7. OnDisk' /\ Beside'
  BY <1>1, <1>2, <1>3 DEF TInv, Quiet, OnDisk, Beside, Settled, Startup, Moved
<1> QED BY <1>1, <1>2, <1>3, <1>4, <1>5, <1>6, <1>7, QuietKeeps DEF TInv, Types, DataType

LEMMA CheckCopyStep ==
    ASSUME TInv, CheckCopy
    PROVE  TInv'
BY CheckEmpty, CheckAgrees, CheckDiffers DEF CheckCopy

\* A request to an idle thread, or its next step, while the daemon serves.
LEMMA ServeStep ==
    ASSUME TInv, upd.pc \in {"idle", "size", "load"}, Quiet, UNCHANGED next_generation,
           UNCHANGED expect, loaded' = loaded \/ loaded' \in Snapshots,
           upd' \in Threads, upd'.op \notin {"start", "store"},
           \/ upd'.pc \in {"idle", "size", "load", "create"}
           \/ upd'.pc = "build" /\ upd'.gen = next_generation
    PROVE  TInv'
<1>1. ~Startup /\ ~Startup' /\ loaded \in Snapshots /\ loaded' \in Snapshots /\ tmp = {} /\ GenType
  BY DEF TInv, Types, Phases, Startup, Beside
<1>2. done <= next_generation /\ next_generation > 0
  <2>1. /\ active # None => done <= active.gen /\ active.gen < next_generation
        /\ active = None => done = 0
    BY <1>1 DEF TInv, Publishing, Exchange, Renumbered
  <2>2. next_generation \in Nat \ {0} /\ done \in Nat /\ (active # None => active.gen \in Nat)
    BY DEF TInv, Types, GenType, ReaderType, Gens
  <2> QED BY <2>1, <2>2
<1>3. Phases'
  BY <1>1 DEF TInv, Quiet, Phases, Closed, Open, Exchange, Startup
<1>4. Publishing'
  BY <1>1, <1>2 DEF TInv, Quiet, Publishing, Exchange, Startup, Renumbered, Candidate
<1>5. Naming' /\ Filling'
  BY <1>1, Zenon DEF TInv, Quiet, Naming, Filling, Candidate, UsedNames
<1>6. OnDisk' /\ Beside'
  BY <1>1, Zenon DEF TInv, Quiet, OnDisk, Beside, Settled
<1>7. loaded' \subseteq Records /\ expect' \subseteq Records /\ next_generation' \in Nat \ {0}
  BY <1>1, SnapshotFacts DEF TInv, Types, DataType, GenType
<1> QED BY <1>1, <1>3, <1>4, <1>5, <1>6, <1>7, QuietKeeps

LEMMA RequestStep ==
    ASSUME TInv, ReloadBegin \/ CompactBegin
    PROVE  TInv'
<1>1. PICK p \in {"size", "load"}, o \in {"reload", "compact"} : upd' = Thread(p, o)
  BY DEF ReloadBegin, CompactBegin
<1>2. upd' \in Threads /\ upd'.pc = p /\ upd'.op = o
  BY <1>1, ThreadFacts DEF PCs
<1> QED BY <1>2, ServeStep DEF ReloadBegin, CompactBegin, Quiet, lmdb, generations, history

LEMMA KeepMapStep ==
    ASSUME TInv, KeepMap
    PROVE  TInv'
<1>1. upd' \in Threads /\ Moved("load")
  BY GotoFacts DEF KeepMap, TInv, Types, PCs
<1>2. upd.op \notin {"start", "store"}
  BY DEF KeepMap, TInv, Phases, Startup
<1> QED BY <1>1, <1>2, ServeStep DEF KeepMap, Quiet, lmdb, generations, history, Moved

LEMMA LoadStep ==
    ASSUME TInv, Load
    PROVE  TInv'
<1>1. upd \in Threads /\ next_generation \in Nat
  BY DEF TInv, Types, UpdType, GenType
<1>2. /\ upd' \in Threads /\ upd'.op = upd.op
      /\ upd'.pc = "create" \/ (upd'.pc = "build" /\ upd'.gen = next_generation)
  BY <1>1, Zenon DEF Load, Threads, PCs
<1>3. upd.op \notin {"start", "store"}
  BY DEF Load, TInv, Phases, Startup
<1> QED BY <1>2, <1>3, ServeStep DEF Load, Quiet, lmdb, generations, history

\* What has failed while the daemon serves: the thread is idle again.
LEMMA BackToIdle ==
    ASSUME TInv, ~Startup, upd.pc \notin Exchange \cup {"swap", "reclaim", "finish", "down"},
           tmp' = {}, UNCHANGED <<file, backup, generations, wrlock, lookups, reclaim, flush,
                                  history, loaded>>, upd' = Idle
    PROVE  TInv'
<1>1. upd' \in Threads /\ upd'.pc = "idle" /\ upd'.op = "none" /\ ~Startup'
  BY IdleFacts DEF Startup
<1>2. /\ file' = file /\ backup' = backup /\ env' = env /\ active' = active
      /\ retired' = retired /\ next_generation' = next_generation /\ wrlock' = wrlock
      /\ done' = done /\ expect' = expect /\ loaded' = loaded
  BY DEF generations, history
<1>3. ~wrlock /\ loaded \in Snapshots /\ reclaim.who # UpdateThread
  BY Zenon DEF TInv, Phases, Lookups
<1>4. Phases' /\ Publishing'
  <2>1. Phases'
    BY <1>1, <1>2, <1>3 DEF TInv, Phases, Closed, Open, Exchange
  <2>2. Publishing'
    BY <1>1, <1>2, <1>3 DEF TInv, Publishing, Exchange, Renumbered, Candidate
  <2> QED BY <2>1, <2>2
<1>5. Naming' /\ Filling'
  BY <1>1, <1>2, <1>3, Zenon DEF TInv, Naming, Filling, Candidate, UsedNames
<1>6. OnDisk' /\ Beside'
  BY <1>1, <1>2, <1>3, Zenon DEF TInv, OnDisk, Beside, Settled
<1> QED BY <1>1, <1>2, <1>3, <1>4, <1>5, <1>6, QuietStep, Zenon
           DEF TInv, Types, FileType, GenType, DataType

LEMMA BusyStep ==
    ASSUME TInv, SwapBusy
    PROVE  TInv'
<1>1. ~Startup
  BY DEF SwapBusy, TInv, Phases
<1> QED BY <1>1, BackToIdle DEF SwapBusy, Exchange

LEMMA BuildFailsStep ==
    ASSUME TInv, BuildFails
    PROVE  TInv'
<1>1. upd.pc = "build" /\ Quiet /\ UNCHANGED <<generations, history, loaded>> /\ tmp = {}
  BY DEF BuildFails, Quiet, lmdb, generations, history, TInv, Beside
<1>2. CASE Startup
  <2>1. Goto("open") /\ UpdType
    BY <1>2 DEF BuildFails, CompactFailed, Goto, TInv, Types
  <2>2. upd' \in Threads /\ Moved("open")
    BY <2>1, GotoFacts DEF PCs
  <2>3. Startup'
    BY <1>2, <2>2 DEF Startup, Moved
  <2>4. /\ active = None /\ retired = {} /\ done = 0 /\ loaded' = loaded /\ expect' = expect
        /\ next_generation' = next_generation
    BY <1>1, <1>2 DEF TInv, Phases, Closed, Publishing, history, generations
  <2>5. Phases' /\ Publishing'
    BY <1>1, <1>2, <2>2, <2>4, Zenon DEF TInv, Quiet, Phases, Publishing, Closed, Open, Exchange,
       Startup, Renumbered, Candidate, Moved
  <2>6. Naming' /\ Filling'
    BY <1>1, <1>2, <2>2, <2>4, Zenon DEF TInv, Quiet, Naming, Filling, Candidate, UsedNames, Moved
  <2>7. OnDisk' /\ Beside'
    BY <1>1, <1>2, <2>2, <2>4, Zenon DEF TInv, Quiet, OnDisk, Beside, Settled, Startup, Moved
  <2> QED BY <1>1, <1>2, <2>2, <2>4, <2>5, <2>6, <2>7, QuietKeeps, Zenon
             DEF TInv, Types, GenType, DataType
<1>3. CASE ~Startup
  BY <1>1, <1>3, BackToIdle DEF BuildFails, CompactFailed, Exchange, Quiet
<1> QED BY <1>2, <1>3

\* The offline environment holds the snapshot.
LEMMA BuildStep ==
    ASSUME TInv, BuildOffline
    PROVE  TInv'
<1> DEFINE f == write_offline_metadata(import_backends(open_offline_lmdb))
<1>1. loaded \in SUBSET Records /\ UpdType
  BY DEF TInv, Types, DataType
<1>2. f = [db |-> [n \in {0} |-> loaded], meta |-> 0]
  <2>1. [open_offline_lmdb.db EXCEPT ![0] = @ \cup loaded] = [n \in {0} |-> loaded]
    BY DEF open_offline_lmdb
  <2>2. import_backends(open_offline_lmdb) = [db |-> [n \in {0} |-> loaded], meta |-> NoName]
    BY <2>1 DEF import_backends, open_offline_lmdb
  <2> QED BY <2>2 DEF write_offline_metadata
<1> HIDE DEF f
<1>3. f \in Files
  BY <1>1, <1>2, NewFiles
<1>4. Whole(f, loaded)
  BY <1>2 DEF Whole
<1>5. /\ upd.pc = "build" /\ tmp' = {f} /\ file' = file /\ backup' = backup /\ env' = env
      /\ active' = active /\ retired' = retired /\ next_generation' = next_generation
      /\ wrlock' = wrlock /\ lookups' = lookups /\ reclaim' = reclaim /\ loaded' = loaded
      /\ flush' = flush /\ done' = done /\ expect' = expect
  BY DEF BuildOffline, f, generations, history
<1> DEFINE p == IF Startup THEN "link" ELSE "lock"
<1>6. p \in {"link", "lock"} /\ Goto(p) /\ (p = "link" <=> Startup)
  BY DEF BuildOffline
<1> HIDE DEF p
<1>7. upd' \in Threads /\ Moved(p)
  BY <1>1, <1>6, GotoFacts DEF PCs
<1>8. /\ ~wrlock /\ loaded \in Snapshots /\ reclaim.who # UpdateThread
      /\ (Startup' <=> Startup) /\ (Startup => active = None /\ done = 0)
  BY <1>5, <1>7, Zenon DEF TInv, Phases, Closed, Exchange, Lookups, Startup, Moved, Publishing
<1>9. Phases'
  BY <1>5, <1>6, <1>7, <1>8, Zenon DEF TInv, Phases, Closed, Open, Exchange, Startup, Moved
<1>10. Publishing'
  <2>1. upd.old \in Nat
    BY <1>1 DEF UpdType, Threads
  <2> QED BY <1>5, <1>6, <1>7, <1>8, <2>1 DEF TInv, Publishing, Exchange, Startup,
             Renumbered, Candidate, Moved
<1>11. Naming' /\ Filling'
  BY <1>5, <1>6, <1>7, <1>8, Zenon DEF TInv, Naming, Filling, Candidate, UsedNames, Moved
<1>12. OnDisk' /\ Beside'
  BY <1>4, <1>5, <1>6, <1>7, <1>8, Zenon DEF TInv, OnDisk, Beside, Settled, Moved
<1> QED BY <1>1, <1>3, <1>5, <1>7, <1>8, <1>9, <1>10, <1>11, <1>12, QuietStep, Zenon
           DEF TInv, Types, FileType, GenType, DataType

LEMMA LinkStep ==
    ASSUME TInv, LinkBackup
    PROVE  TInv'
<1>1. /\ upd.pc = "link" /\ backup' = {file} /\ tmp' = tmp /\ file' = file /\ env' = env
      /\ active' = active /\ retired' = retired /\ next_generation' = next_generation
      /\ wrlock' = wrlock /\ lookups' = lookups /\ reclaim' = reclaim /\ loaded' = loaded
      /\ flush' = flush /\ done' = done /\ expect' = expect
  BY DEF LinkBackup, generations, history
<1>2. upd' \in Threads /\ Moved("rename")
  BY GotoFacts DEF LinkBackup, TInv, Types, PCs
<1>3. (Startup' <=> Startup) /\ reclaim.who # UpdateThread /\ file \in Files
  BY <1>1, <1>2, Zenon DEF TInv, Types, FileType, Lookups, Startup, Moved
<1>4. Phases' /\ Publishing'
  BY <1>1, <1>2, <1>3, Zenon DEF TInv, Phases, Publishing, Closed, Open, Exchange, Startup,
     Renumbered, Candidate, Moved
<1>5. Naming' /\ Filling'
  BY <1>1, <1>2, <1>3, Zenon DEF TInv, Naming, Filling, Candidate, UsedNames, Moved
<1>6. OnDisk' /\ Beside'
  BY <1>1, <1>2, <1>3, Zenon DEF TInv, OnDisk, Beside, Settled, Moved
<1> QED BY <1>1, <1>2, <1>3, <1>4, <1>5, <1>6, QuietStep, Zenon
           DEF TInv, Types, FileType, GenType, DataType

LEMMA SwapDoneStep ==
    ASSUME TInv, SwapDone
    PROVE  TInv'
<1>1. /\ upd.pc = "finish" /\ backup' = {} /\ tmp' = tmp /\ file' = file /\ env' = env
      /\ active' = active /\ retired' = retired /\ next_generation' = next_generation
      /\ wrlock' = FALSE /\ lookups' = lookups /\ reclaim' = reclaim /\ loaded' = loaded
      /\ flush' = flush /\ done' = done /\ expect' = expect
  BY DEF SwapDone, generations, history
<1> DEFINE p == IF Startup THEN "check" ELSE "flush"
<1>2. p \in {"check", "flush"} /\ Goto(p) /\ (p = "check" <=> Startup)
  BY DEF SwapDone
<1> HIDE DEF p
<1>3. upd' \in Threads /\ Moved(p)
  BY <1>2, GotoFacts DEF TInv, Types, PCs
<1>4. (Startup' <=> Startup) /\ reclaim.who # UpdateThread
  BY <1>1, <1>3 DEF TInv, Lookups, Startup, Moved
<1>5. Phases' /\ Publishing'
  BY <1>1, <1>2, <1>3, <1>4, Zenon DEF TInv, Phases, Publishing, Closed, Open, Exchange, Startup,
     Renumbered, Candidate, Moved
<1>6. Naming' /\ Filling'
  BY <1>1, <1>2, <1>3, <1>4, Zenon DEF TInv, Naming, Filling, Candidate, UsedNames, Moved
<1>7. OnDisk' /\ Beside'
  BY <1>1, <1>2, <1>3, <1>4, Zenon DEF TInv, OnDisk, Beside, Settled, Moved
<1> QED BY <1>1, <1>3, <1>4, <1>5, <1>6, <1>7, QuietStep, Zenon
           DEF TInv, Types, FileType, GenType, DataType

LEMMA MapFullStep ==
    ASSUME TInv, MapFull
    PROVE  TInv'
<1>1. /\ upd.pc \in {"import", "importing"} /\ Quiet /\ loaded' = loaded /\ expect' = expect
      /\ next_generation' = next_generation
  BY DEF MapFull, Quiet, lmdb, generations, history
<1>2. upd' \in Threads /\ Moved("grow")
  BY GotoFacts DEF MapFull, TInv, Types, PCs
<1>3. Startup' <=> Startup
  BY <1>2 DEF Startup, Moved
<1>4. Phases' /\ Publishing'
  BY <1>1, <1>2, <1>3, Zenon DEF TInv, Quiet, Phases, Publishing, Closed, Open, Exchange, Startup,
     Renumbered, Candidate, Moved
<1>5. Naming' /\ Filling'
  BY <1>1, <1>2, <1>3, Zenon DEF TInv, Quiet, Naming, Filling, Candidate, UsedNames, Moved
<1>6. OnDisk' /\ Beside'
  BY <1>1, <1>2, <1>3, Zenon DEF TInv, Quiet, OnDisk, Beside, Settled, Moved
<1> QED BY <1>1, <1>2, <1>3, <1>4, <1>5, <1>6, QuietKeeps, Zenon
           DEF TInv, Types, GenType, DataType

\* The update thread leaves the reclaim.
LEMMA LeaveReclaim ==
    ASSUME TInv, upd.pc = "reclaim", AfterReclaim(UpdateThread), reclaim' = Free,
           UNCHANGED <<lmdb, generations, wrlock, loaded, flush, history>>
    PROVE  TInv'
<1>1. /\ backup' = backup /\ tmp' = tmp /\ file' = file /\ env' = env
      /\ active' = active /\ retired' = retired /\ next_generation' = next_generation
      /\ wrlock' = wrlock /\ lookups' = lookups /\ loaded' = loaded
      /\ flush' = flush /\ done' = done /\ expect' = expect
  BY DEF AfterReclaim, lmdb, generations, history
<1>2. upd \in Threads
  BY DEF TInv, Types, UpdType
<1>3. /\ upd' \in Threads /\ upd'.pc \in {"idle", "flush"}
      /\ (upd'.op = "start" <=> upd.op = "start") /\ upd'.op # "store"
      /\ (upd'.pc = "idle" => upd'.op # "start")
  <2>1. CASE upd.op = "store"
    BY <2>1, IdleFacts DEF AfterReclaim
  <2>2. CASE upd.op # "store"
    BY <1>2, <2>2 DEF AfterReclaim, Threads, PCs
  <2> QED BY <2>1, <2>2
<1>4. (Startup' <=> Startup) /\ reclaim'.who # UpdateThread
  BY <1>3, FreeFacts DEF Startup, Processes
<1>5. Phases' /\ Publishing'
  <2>1. Phases'
    BY <1>1, <1>3, <1>4 DEF TInv, Phases, Closed, Open, Exchange, Startup
  <2>2. Publishing'
    BY <1>1, <1>3, <1>4 DEF TInv, Publishing, Exchange, Renumbered, Candidate
  <2> QED BY <2>1, <2>2
<1>6. Naming' /\ Filling'
  BY <1>1, <1>3, <1>4, Zenon DEF TInv, Naming, Filling, Candidate, UsedNames
<1>7. OnDisk' /\ Beside'
  BY <1>1, <1>3, <1>4, Zenon DEF TInv, OnDisk, Beside, Settled
<1> QED BY <1>1, <1>3, <1>4, <1>5, <1>6, <1>7, QuietStep, Zenon
           DEF TInv, Types, FileType, GenType, DataType

-----------------------------------------------------------------------------
(* The process dies, or an operation fails.                                   *)

LEMMA DieStep ==
    ASSUME TInv, Die, file' \in Files
    PROVE  TInv'
<1>1. /\ backup' = {} /\ tmp' = {} /\ env' = FALSE /\ active' = None /\ retired' = {}
      /\ next_generation' = 1 /\ wrlock' = FALSE /\ reader' = [w \in Workers |-> NoReader]
      /\ cache' = [w \in Workers |-> 0] /\ seen' = [w \in Workers |-> 0]
      /\ reclaim' = Free /\ upd' = Thread("down", "start") /\ loaded' = {}
      /\ flush' = 0 /\ done' = 0 /\ expect' = {}
  BY DEF Die
<1>2. upd' \in Threads /\ upd'.pc = "down" /\ upd'.op = "start"
  <2>1. "down" \in PCs
    BY DEF PCs
  <2> QED BY <1>1, <2>1, ThreadFacts, Zenon
<1>3. /\ NoReader.pc = "idle" /\ NoReader.gen = None /\ NoReader.floor = 0 /\ NoReader.from = 0
      /\ NoReader \in [pc : {"idle", "lookup", "pinned", "reclaim"},
                       gen : Gens \cup {None}, floor : Nat, from : Int]
  BY DEF NoReader
<1>4. \A w \in Workers : reader'[w] = NoReader /\ cache'[w] = 0 /\ seen'[w] = 0
  BY <1>1
<1>5. FileType' /\ DataType'
  BY <1>1, FreeFacts DEF FileType, DataType
<1>6. GenType' /\ UpdType'
  <2>1. next_generation' \in Nat \ {0} /\ active' \in Gens \cup {None} /\ retired' \subseteq Gens
    BY <1>1
  <2> QED BY <1>1, <1>2, <2>1, Zenon DEF GenType, UpdType
<1>7. ReaderType'
  BY <1>1, <1>3 DEF ReaderType
<1>8. Phases' /\ Publishing'
  BY <1>1, <1>2, Zenon DEF Phases, Publishing, Closed, Open, Exchange, Startup, Renumbered, Candidate
<1>9. Lookups'
  BY <1>1, <1>2, <1>3, <1>4, FreeFacts DEF Lookups, Locked, Processes
<1>10. Naming' /\ Filling'
  BY <1>1, <1>2 DEF Naming, Filling, Candidate, UsedNames
<1>11. OnDisk' /\ Beside' /\ BeingRead'
  BY <1>1, <1>2, <1>3, <1>4, Zenon DEF OnDisk, Beside, BeingRead, Settled, Startup
<1>12. Answers'
  BY <1>1, <1>3, <1>4 DEF Answers, Answer
<1> QED BY <1>5, <1>6, <1>7, <1>8, <1>9, <1>10, <1>11, <1>12 DEF TInv, Types

LEMMA GiveUpStep ==
    ASSUME TInv, GiveUp(file), upd.pc \in {"open", "check", "load", "create", "import",
                                          "importing", "grow", "commit"}
    PROVE  TInv'
<1>1. file' = file /\ file \in Files /\ tmp = {}
  BY DEF GiveUp, TInv, Types, FileType, Beside
<1>2. CASE Startup
  BY <1>1, <1>2, DieStep DEF GiveUp
<1>3. CASE ~Startup
  BY <1>1, <1>3, BackToIdle DEF GiveUp, Exchange
<1> QED BY <1>2, <1>3

\* A candidate that is given up is dropped.
LEMMA DropCandidate ==
    ASSUME TInv, Candidate, upd.pc # "swap", GiveUp(DropOf(file, {upd.name}))
    PROVE  TInv'
<1> DEFINE n == upd.name
<1>1. file' = DropOf(file, {n}) /\ file \in Files
  BY DEF GiveUp, TInv, Types, FileType
<1>2. /\ file' \in Files /\ file'.meta = file.meta /\ DOMAIN file'.db = DOMAIN file.db \ {n}
      /\ \A m \in DOMAIN file.db \ {n} : file'.db[m] = file.db[m]
  BY <1>1, DropFacts
<1>3. CASE Startup
  BY <1>2, <1>3, DieStep DEF GiveUp
<1>4. CASE ~Startup
  <2>1. /\ upd' = Idle /\ backup' = backup /\ tmp' = tmp /\ env' = env /\ active' = active
        /\ retired' = retired /\ next_generation' = next_generation /\ wrlock' = wrlock
        /\ reader' = reader /\ cache' = cache /\ seen' = seen /\ reclaim' = reclaim
        /\ loaded' = loaded /\ flush' = flush /\ done' = done /\ expect' = expect
    BY <1>4 DEF GiveUp, generations, lookups, history
  <2>2. upd' \in Threads /\ upd'.pc = "idle" /\ upd'.op = "none" /\ ~Startup'
    BY <2>1, IdleFacts, Zenon DEF Startup
  <2>3. /\ upd.pc \in {"import", "importing", "grow", "commit"} /\ active # None
        /\ ~wrlock /\ loaded \in Snapshots /\ tmp = {} /\ reclaim.who # UpdateThread
        /\ n \notin UsedNames /\ file.meta = active.name /\ active.name \in DOMAIN file.db
    BY <1>4, Zenon DEF Candidate, TInv, Phases, Open, Exchange, Beside, Lookups, Naming
  <2>4. \A g \in retired \cup {active} : g.name # n
    BY <2>3, Zenon DEF UsedNames
  <2> HIDE DEF n
  <2>5. FileType' /\ GenType' /\ UpdType' /\ DataType'
    BY <1>2, <2>1, <2>2 DEF TInv, Types, FileType, GenType, UpdType, DataType
  <2>6. Phases' /\ Publishing'
    BY <1>4, <2>1, <2>2, <2>3, Zenon DEF TInv, Phases, Publishing, Closed, Open, Exchange, Startup,
       Renumbered, Candidate
  <2>7. Naming' /\ Filling'
    BY <1>2, <2>1, <2>2, <2>3, <2>4, Zenon DEF TInv, Naming, Filling, Candidate, UsedNames
  <2>8. OnDisk' /\ Beside'
    BY <1>2, <1>4, <2>1, <2>2, <2>3, <2>4, Zenon DEF TInv, OnDisk, Beside, Settled, Whole
  <2>9. BeingRead'
    <3>1. \A w \in Workers : reader[w].pc = "pinned" => reader[w].gen.name # n
      BY <2>4, Zenon DEF TInv, Lookups
    <3> QED BY <1>2, <2>1, <3>1, Zenon DEF TInv, BeingRead
  <2>10. Lookups'
    BY <2>1, <2>2, <2>3, SameLookups, Zenon
  <2> QED BY <2>1, <2>5, <2>6, <2>7, <2>8, <2>9, <2>10, SameAnswers DEF TInv, Types
<1> QED BY <1>3, <1>4

LEMMA ImportFailsStep ==
    ASSUME TInv, ImportFails
    PROVE  TInv'
<1>1. upd.pc \in {"import", "importing", "grow", "commit"} /\ file \in Files
  BY DEF ImportFails, TInv, Types, FileType
<1>2. CASE GiveUp(file)
  BY <1>1, <1>2, GiveUpStep
<1>3. CASE GiveUp(DropOf(file, IF InPlace THEN {} ELSE {upd.name}))
  <2>1. CASE InPlace
    <3>1. Startup /\ file' \in Files
      <4>1. upd.pc # "commit"
        BY <2>1 DEF InPlace, TInv, Naming, Candidate, UsedNames
      <4>2. Startup
        BY <1>1, <2>1, <4>1 DEF InPlace, TInv, Naming
      <4>3. file' = DropOf(file, {})
        BY <1>3, <2>1 DEF GiveUp
      <4> QED BY <1>1, <4>2, <4>3, DropFacts
    <3> QED BY <1>3, <3>1, DieStep DEF GiveUp
  <2>2. CASE ~InPlace
    <3>1. Candidate /\ upd.pc # "swap"
      BY <1>1, <2>2 DEF Candidate, InPlace
    <3> QED BY <1>3, <2>2, <3>1, DropCandidate
  <2> QED BY <2>1, <2>2
<1> QED BY <1>2, <1>3 DEF ImportFails, DropOf

-----------------------------------------------------------------------------
(* Building and publishing a generation.                                      *)

\* What the lookups read is not the database being filled.
LEMMA ReadersApart ==
    ASSUME TInv, upd.pc \in {"import", "importing", "grow", "commit", "swap"}
    PROVE  \A w \in Workers : reader[w].pc = "pinned" => reader[w].gen.name # upd.name
<1>1. CASE Candidate
  BY <1>1 DEF TInv, Naming, Lookups, UsedNames
<1>2. CASE ~Candidate
  <2>1. Startup
    BY <1>2 DEF TInv, Naming, Candidate
  <2> QED BY <2>1 DEF TInv, Lookups
<1> QED BY <1>1, <1>2

\* A step that sets the database being filled, and moves on in the import.
LEMMA FillStep ==
    ASSUME TInv, upd.pc \in {"import", "importing", "grow"},
           NEW S \in SUBSET loaded, file' = SetDb(file, upd.name, S),
           upd' \in Threads, upd'.name = upd.name, upd'.gen = upd.gen, upd'.op = upd.op,
           \/ upd'.pc \in {"import", "importing"}
           \/ upd'.pc = "commit" /\ ~InPlace /\ S = loaded,
           UNCHANGED <<backup, tmp, generations, wrlock, lookups, reclaim, loaded, flush,
                       history>>
    PROVE  TInv'
<1> DEFINE n == upd.name
<1>1. /\ backup' = backup /\ tmp' = tmp /\ env' = env /\ active' = active
      /\ retired' = retired /\ next_generation' = next_generation /\ wrlock' = wrlock
      /\ reader' = reader /\ cache' = cache /\ seen' = seen /\ reclaim' = reclaim
      /\ loaded' = loaded /\ flush' = flush /\ done' = done /\ expect' = expect
  BY Zenon DEF generations, lookups, history
<1>2. /\ file \in Files /\ n \in DOMAIN file.db /\ n \in Names /\ S \in SUBSET Records
  BY FileFacts, Zenon DEF TInv, Types, FileType, DataType, Naming
<1>3. /\ file' \in Files /\ file'.meta = file.meta /\ DOMAIN file'.db = DOMAIN file.db
      /\ file'.db[n] = S /\ \A m \in DOMAIN file.db \ {n} : file'.db[m] = file.db[m]
  <2>1. DOMAIN file.db \cup {n} = DOMAIN file.db
    BY <1>2
  <2>2. /\ file' \in Files /\ file'.meta = file.meta /\ DOMAIN file'.db = DOMAIN file.db \cup {n}
        /\ file'.db[n] = S /\ \A m \in DOMAIN file.db \ {n} : file'.db[m] = file.db[m]
    BY <1>2, SetDbFacts
  <2> QED BY <2>1, <2>2
<1>4. /\ (Startup' <=> Startup) /\ (Candidate' <=> Candidate) /\ active # None
      /\ reclaim.who # UpdateThread /\ tmp = {}
  BY <1>1, Zenon DEF Startup, Candidate, InPlace, TInv, Phases, Open, Lookups, Beside
<1> HIDE DEF n
<1>5. FileType' /\ GenType' /\ UpdType' /\ DataType'
  BY <1>1, <1>3, Zenon DEF TInv, Types, FileType, GenType, UpdType, DataType
<1>6. Phases' /\ Publishing'
  <2>1. /\ upd'.pc \in {"import", "importing"} \/ upd'.pc = "commit"
        /\ upd'.pc \notin Exchange /\ upd.pc \notin Exchange
    BY DEF Exchange
  <2>2. Phases'
    BY <1>1, <1>4, <2>1 DEF TInv, Phases, Closed, Open, Startup
  <2>3. Publishing'
    BY <1>1, <1>4, <2>1, Zenon DEF TInv, Publishing, Renumbered, Candidate
  <2> QED BY <2>2, <2>3
<1>7. Naming'
  BY <1>1, <1>3, <1>4, Zenon DEF TInv, Naming, UsedNames, Startup, Candidate, InPlace, n
<1>8. Filling'
  BY <1>1, <1>3, Zenon DEF Filling, n
<1>9. OnDisk' /\ Beside'
  <2>1. Settled' => Settled /\ file.meta # n /\ ~Startup /\ ~Startup'
    <3>1. Settled' => ~Startup' /\ ~Startup
      BY <1>4, Zenon DEF Settled
    <3> QED BY <1>4, <3>1, Zenon DEF Settled, TInv, Naming, n
  <2> QED BY <1>1, <1>3, <1>4, <2>1, Zenon DEF TInv, OnDisk, Beside, Whole
<1>10. BeingRead'
  BY <1>1, <1>3, ReadersApart, Zenon DEF TInv, BeingRead, n
<1>11. Lookups'
  <2>1. active # None => active \in retired' \cup {active'}
    BY <1>1
  <2>2. retired \subseteq retired' /\ (wrlock' => wrlock) /\ reclaim'.who # UpdateThread
    BY <1>1, <1>4
  <2> QED BY <1>1, <1>4, <2>1, <2>2, SameLookups, Zenon
<1> QED BY <1>1, <1>5, <1>6, <1>7, <1>8, <1>9, <1>10, <1>11, SameAnswers, Zenon DEF TInv, Types

LEMMA ImportSomeStep ==
    ASSUME TInv, ImportSome
    PROVE  TInv'
<1>1. PICK S \in SUBSET loaded : file' = SetDb(file, upd.name, Target \cup S)
  BY WithDbIs, Zenon DEF ImportSome
<1>2. upd.pc = "import" /\ Target \cup S \in SUBSET loaded
  BY DEF ImportSome, TInv, Filling, Target
<1>3. upd' \in Threads /\ Moved("importing")
  BY GotoFacts DEF ImportSome, TInv, Types, PCs
<1> QED BY <1>1, <1>2, <1>3, FillStep DEF ImportSome, Moved

LEMMA GrowStep ==
    ASSUME TInv, GrowMap
    PROVE  TInv'
<1>1. file' = SetDb(file, upd.name, {})
  BY WithDbIs DEF GrowMap, Emptied
<1>2. upd \in Threads
  BY DEF TInv, Types, UpdType
<1>3. /\ upd' \in Threads /\ upd'.pc = "import" /\ upd'.name = upd.name
      /\ upd'.gen = upd.gen /\ upd'.op = upd.op
  BY <1>2, Zenon DEF GrowMap, Threads, PCs
<1> QED BY <1>1, <1>3, FillStep DEF GrowMap

\* The import of the last records: of a candidate, or in place at the first start.
LEMMA ImportDoneStep ==
    ASSUME TInv, ImportDone
    PROVE  TInv'
<1> DEFINE n == upd.name
<1>1. upd.pc = "importing" /\ file' = SetDb(file, n, loaded)
  BY WithDbIs, Zenon DEF ImportDone, TInv, Filling, Target
<1>2. CASE ~InPlace
  <2>1. upd' \in Threads /\ Moved("commit") /\ UNCHANGED history
    BY <1>2, GotoFacts DEF ImportDone, TInv, Types, PCs, history
  <2> QED BY <1>1, <1>2, <2>1, FillStep, Zenon DEF ImportDone, Moved
<1>3. CASE InPlace
  <2>1. /\ backup' = backup /\ tmp' = tmp /\ env' = env /\ active' = active
        /\ retired' = retired /\ next_generation' = next_generation /\ wrlock' = wrlock
        /\ reader' = reader /\ cache' = cache /\ seen' = seen /\ reclaim' = reclaim
        /\ loaded' = loaded /\ flush' = flush /\ done' = done /\ expect' = loaded
        /\ upd' = Idle
    BY <1>3 DEF ImportDone, generations, lookups
  <2>2. upd' \in Threads /\ upd'.pc = "idle" /\ upd'.op = "none" /\ ~Startup'
    BY <2>1, IdleFacts DEF Startup
  <2>3. /\ Startup /\ active # None /\ ~wrlock /\ loaded \in Snapshots /\ tmp = {}
        /\ reclaim.who # UpdateThread /\ n = active.name /\ file.meta = n
    BY <1>1, <1>3, Zenon DEF InPlace, TInv, Naming, Phases, Open, Beside, Lookups
  <2>4. file \in Files /\ n \in DOMAIN file.db /\ n \in Names /\ loaded \in SUBSET Records
    BY <1>1, FileFacts, Zenon DEF TInv, Types, FileType, DataType, Naming
  <2> HIDE DEF n
  <2>5. /\ file' \in Files /\ file'.meta = file.meta /\ DOMAIN file'.db = DOMAIN file.db
        /\ file'.db[n] = loaded
    <3>1. DOMAIN file.db \cup {n} = DOMAIN file.db
      BY <2>4
    <3>2. /\ file' \in Files /\ file'.meta = file.meta /\ file'.db[n] = loaded
          /\ DOMAIN file'.db = DOMAIN file.db \cup {n}
      BY <1>1, <2>4, SetDbFacts
    <3> QED BY <3>1, <3>2, Zenon
  <2>6. FileType' /\ GenType' /\ UpdType' /\ DataType'
    BY <2>1, <2>2, <2>5, Zenon DEF TInv, Types, FileType, GenType, UpdType, DataType
  <2>7. Phases' /\ Publishing'
    BY <1>1, <2>1, <2>2, <2>3, Zenon DEF TInv, Phases, Publishing, Closed, Open, Exchange, Startup,
       Renumbered, Candidate, n
  <2>8. Naming' /\ Filling'
    BY <2>1, <2>2, <2>3, <2>4, <2>5, Zenon DEF TInv, Naming, Filling, Candidate, UsedNames
  <2>9. OnDisk'
    <3>1. Whole(file', loaded) /\ Complete(loaded)
      BY <2>3, <2>4, <2>5, SnapshotFacts, Zenon DEF Whole
    <3> QED BY <2>1, <2>2, <3>1, Zenon DEF OnDisk
  <2>10. Beside' /\ BeingRead'
    BY <2>1, <2>2, <2>3, Zenon DEF TInv, Beside, BeingRead, Lookups
  <2>11. Lookups'
    BY <2>1, <2>2, <2>3, SameLookups, Zenon
  <2> QED BY <2>1, <2>6, <2>7, <2>8, <2>9, <2>10, <2>11, SameAnswers DEF TInv, Types
<1> QED BY <1>2, <1>3

LEMMA CreateStep ==
    ASSUME TInv, CreateCandidate
    PROVE  TInv'
<1> DEFINE n == FirstFreeSlot
<1>1. /\ upd.pc = "create" /\ env /\ FreeSlots # {} /\ file' = SetDb(file, n, {})
      /\ upd' = [upd EXCEPT !.pc = "import", !.name = n, !.gen = next_generation]
      /\ backup' = backup /\ tmp' = tmp /\ env' = env /\ active' = active
      /\ retired' = retired /\ next_generation' = next_generation /\ wrlock' = wrlock
      /\ reader' = reader /\ cache' = cache /\ seen' = seen /\ reclaim' = reclaim
      /\ loaded' = loaded /\ flush' = flush /\ done' = done /\ expect' = expect
  BY WithDbIs DEF CreateCandidate, Emptied, generations, lookups, history
<1>2. n \in Names /\ n \notin UsedNames
  BY <1>1, SlotFacts
<1> HIDE DEF n
<1>3. /\ upd \in Threads /\ file \in Files /\ active # None /\ active \in Gens
      /\ next_generation \in Nat \ {0} /\ done \in Nat
  BY <1>1, Zenon DEF TInv, Types, FileType, UpdType, GenType, ReaderType
<1>4. /\ upd' \in Threads /\ upd'.pc = "import" /\ upd'.op = upd.op
      /\ upd'.name = n /\ upd'.gen = next_generation
  BY <1>1, <1>2, <1>3, Zenon DEF Threads, PCs
<1>5. /\ file' \in Files /\ file'.meta = file.meta /\ DOMAIN file'.db = DOMAIN file.db \cup {n}
      /\ file'.db[n] = {} /\ \A m \in DOMAIN file.db \ {n} : file'.db[m] = file.db[m]
  BY <1>1, <1>2, <1>3, SetDbFacts
<1>6. /\ (Startup' <=> Startup) /\ ~wrlock /\ loaded \in Snapshots /\ tmp = {}
      /\ reclaim.who # UpdateThread /\ file.meta = active.name /\ active.name \in DOMAIN file.db
  BY <1>1, <1>3, <1>4 DEF Startup, TInv, Phases, Exchange, Beside, Lookups, Naming
<1>7. \A g \in retired \cup {active} : g.name # n
  BY <1>2 DEF UsedNames
<1>8. FileType' /\ GenType' /\ UpdType' /\ DataType'
  BY <1>1, <1>4, <1>5, Zenon DEF TInv, Types, FileType, GenType, UpdType, DataType
<1>9. Phases'
  BY <1>1, <1>3, <1>4, <1>6 DEF TInv, Phases, Closed, Open, Exchange, Startup
<1>10. Publishing'
  <2>1. done <= next_generation
    <3>1. Startup => done = 0
      BY DEF TInv, Publishing
    <3>2. ~Startup => done <= active.gen /\ active.gen < next_generation
      BY <1>3 DEF TInv, Publishing, Renumbered
    <3>3. active.gen \in Nat
      BY <1>3 DEF Gens
    <3> QED BY <1>3, <3>1, <3>2, <3>3
  <2>2. next_generation > 0
    BY <1>3
  <2>3. Candidate' /\ (Renumbered <=> Startup) /\ (Renumbered' <=> Startup)
    BY <1>1, <1>4, <1>6, <1>7 DEF Candidate, Renumbered
  <2> QED BY <1>1, <1>3, <1>4, <1>6, <2>1, <2>2, <2>3 DEF TInv, Publishing, Exchange
<1>11. Naming'
  BY <1>1, <1>2, <1>4, <1>5, <1>6, <1>7 DEF TInv, Naming, Candidate, UsedNames
<1>12. Filling'
  BY <1>4, <1>5 DEF Filling
<1>13. OnDisk' /\ Beside'
  BY <1>1, <1>4, <1>5, <1>6, <1>7 DEF TInv, OnDisk, Beside, Settled, Whole
<1>14. BeingRead'
  <2>1. \A w \in Workers : reader[w].pc = "pinned" => reader[w].gen.name # n
    BY <1>7 DEF TInv, Lookups
  <2> QED BY <1>1, <1>5, <2>1 DEF TInv, BeingRead
<1>15. Lookups'
  BY <1>1, <1>4, <1>6, SameLookups
<1> QED BY <1>1, <1>8, <1>9, <1>10, <1>11, <1>12, <1>13, <1>14, <1>15, SameAnswers
           DEF TInv, Types

\* The metadata names the candidate, which holds the whole snapshot.
LEMMA CommitStep ==
    ASSUME TInv, PublishCommit
    PROVE  TInv'
<1>1. /\ upd.pc = "commit" /\ file' = [file EXCEPT !.meta = upd.name]
      /\ upd' = [upd EXCEPT !.pc = "swap", !.kept = expect] /\ expect' = loaded
      /\ backup' = backup /\ tmp' = tmp /\ env' = env /\ active' = active
      /\ retired' = retired /\ next_generation' = next_generation /\ wrlock' = wrlock
      /\ reader' = reader /\ cache' = cache /\ seen' = seen /\ reclaim' = reclaim
      /\ loaded' = loaded /\ flush' = flush /\ done' = done
  BY DEF PublishCommit, generations, lookups
<1>2. /\ upd \in Threads /\ file \in Files /\ expect \in SUBSET Records
      /\ loaded \in SUBSET Records
  BY DEF TInv, Types, FileType, UpdType, DataType
<1>3. upd.name \in DOMAIN file.db /\ upd.name \in Names
  BY <1>1, <1>2, FileFacts DEF TInv, Naming
<1>4. file' \in Files /\ file'.meta = upd.name /\ file'.db = file.db
  BY <1>1, <1>2, <1>3, MetaFacts
<1>5. /\ upd' \in Threads /\ upd'.pc = "swap" /\ upd'.op = upd.op /\ upd'.name = upd.name
      /\ upd'.gen = upd.gen /\ upd'.kept = expect
  BY <1>1, <1>2, Zenon DEF Threads, PCs
<1>6. /\ (Startup' <=> Startup) /\ active # None /\ ~wrlock /\ loaded \in Snapshots /\ tmp = {}
      /\ reclaim.who # UpdateThread /\ file.meta = active.name /\ active.name \in DOMAIN file.db
  BY <1>1, <1>5 DEF Startup, TInv, Phases, Open, Exchange, Beside, Lookups, Naming
<1>7. FileType' /\ GenType' /\ UpdType' /\ DataType'
  BY <1>1, <1>2, <1>4, <1>5 DEF TInv, Types, FileType, GenType, UpdType, DataType
<1>8. Phases' /\ Publishing'
  BY <1>1, <1>5, <1>6 DEF TInv, Phases, Publishing, Closed, Open, Exchange, Startup,
     Renumbered, Candidate
<1>9. Naming' /\ Filling'
  BY <1>1, <1>4, <1>5, <1>6 DEF TInv, Naming, Filling, Candidate, UsedNames
<1>10. OnDisk'
  <2>1. Whole(file', loaded) /\ Complete(loaded)
    BY <1>1, <1>3, <1>4, <1>6, SnapshotFacts DEF TInv, Filling, Whole
  <2>2. ~Startup => file.db[active.name] = expect /\ Complete(expect)
    BY <1>6 DEF TInv, OnDisk, Settled, Whole
  <2> QED BY <1>1, <1>4, <1>5, <1>6, <2>1, <2>2 DEF OnDisk
<1>11. Beside' /\ BeingRead'
  BY <1>1, <1>4, <1>5, <1>6 DEF TInv, Beside, BeingRead
<1>12. Lookups'
  BY <1>1, <1>5, <1>6, SameLookups
<1> QED BY <1>1, <1>7, <1>8, <1>9, <1>10, <1>11, <1>12, SameAnswers DEF TInv, Types

\* The candidate becomes the active generation, the one before is retired.
LEMMA SwapStep ==
    ASSUME TInv, PublishSwap
    PROVE  TInv'
<1>1. /\ upd.pc = "swap" /\ active' = [gen |-> upd.gen, name |-> upd.name]
      /\ retired' = retired \cup {active}
      /\ next_generation' = IF next_generation <= upd.gen THEN upd.gen + 1
                            ELSE next_generation
      /\ file' = file /\ backup' = backup /\ tmp' = tmp /\ env' = env /\ wrlock' = wrlock
      /\ reader' = reader /\ cache' = cache /\ seen' = seen /\ reclaim' = reclaim
      /\ loaded' = loaded /\ flush' = flush /\ done' = done /\ expect' = expect
  BY DEF PublishSwap, lmdb, lookups, history
<1>2. upd' \in Threads /\ Moved("reclaim")
  BY GotoFacts DEF PublishSwap, TInv, Types, PCs
<1>3. /\ upd \in Threads /\ file \in Files /\ active \in Gens /\ retired \subseteq Gens /\ env = TRUE
      /\ next_generation \in Nat \ {0} /\ active # None
  BY <1>1, Zenon DEF TInv, Types, FileType, UpdType, GenType, Phases, Open
<1>4. /\ upd.name \in Names /\ upd.name \in DOMAIN file.db /\ upd.name \notin UsedNames
      /\ upd.gen \in Nat \ {0} /\ done <= upd.gen /\ file.meta = upd.name
  <2>1. upd.name \in DOMAIN file.db /\ upd.name \notin UsedNames /\ file.meta = upd.name
    BY <1>1, <1>3, Zenon DEF TInv, Naming, Candidate
  <2>2. upd.gen > 0 /\ done <= upd.gen
    BY <1>1, Zenon DEF TInv, Publishing, Candidate
  <2>3. upd.gen \in Nat
    BY <1>3 DEF Threads
  <2> QED BY <1>3, <2>1, <2>2, <2>3, FileFacts
<1>5. active' \in Gens /\ active' # None /\ active'.gen = upd.gen /\ active'.name = upd.name
  BY <1>1, <1>4, GenFacts, Zenon
<1>6. next_generation' \in Nat \ {0} /\ upd.gen < next_generation'
  <2>1. CASE next_generation <= upd.gen
    BY <1>1, <1>4, <2>1
  <2>2. CASE ~(next_generation <= upd.gen)
    BY <1>1, <1>3, <1>4, <2>2
  <2> QED BY <2>1, <2>2
<1>7. /\ (Startup' <=> Startup) /\ ~wrlock /\ loaded \in Snapshots /\ tmp = {}
      /\ reclaim.who # UpdateThread
  BY <1>1, <1>2, Zenon DEF Startup, Moved, TInv, Phases, Exchange, Beside, Lookups
<1>8. GenType'
  <2>1. env' = (active' # None)
    BY <1>1, <1>3, <1>5, Zenon
  <2> QED BY <1>1, <1>3, <1>5, <1>6, <2>1, Zenon DEF GenType
<1>9. FileType' /\ UpdType' /\ DataType'
  BY <1>1, <1>2 DEF TInv, Types, FileType, UpdType, DataType
<1>10. Phases'
  BY <1>1, <1>2, <1>5, <1>7, Zenon DEF TInv, Phases, Closed, Open, Exchange, Startup, Moved
<1>11. Publishing'
  BY <1>1, <1>2, <1>4, <1>5, <1>6, <1>7, Zenon DEF TInv, Publishing, Exchange, Candidate, Moved
<1>12. \A g \in retired \cup {active} : g.name # upd.name
  BY <1>4 DEF UsedNames
<1>13. Naming' /\ Filling'
  <2>1. upd'.pc = "reclaim" /\ ~Candidate'
    BY <1>2 DEF Moved, Candidate
  <2>2. Naming'
    BY <1>1, <1>4, <1>5, <1>12, <2>1 DEF TInv, Naming
  <2>3. Filling'
    BY <1>1, <2>1 DEF TInv, Filling
  <2> QED BY <2>2, <2>3
<1>14. OnDisk' /\ Beside' /\ BeingRead'
  BY <1>1, <1>2, <1>7, Zenon DEF TInv, OnDisk, Beside, BeingRead, Settled, Moved
<1>15. Lookups'
  BY <1>1, <1>2, <1>7, SameLookups, Zenon DEF Moved
<1> QED BY <1>1, <1>8, <1>9, <1>10, <1>11, <1>13, <1>14, <1>15, SameAnswers DEF TInv, Types

\* The caches are flushed as the publication is announced.
LEMMA FlushStep ==
    ASSUME TInv, RequestFlush
    PROVE  TInv'
<1>1. /\ upd.pc = "flush" /\ flush' = flush + 1 /\ done' = active.gen /\ upd' = Idle
      /\ file' = file /\ backup' = backup /\ tmp' = tmp /\ env' = env /\ active' = active
      /\ retired' = retired /\ next_generation' = next_generation /\ wrlock' = wrlock
      /\ reader' = reader /\ cache' = cache /\ seen' = seen /\ reclaim' = reclaim
      /\ loaded' = loaded /\ expect' = expect
  BY DEF RequestFlush, lmdb, generations, lookups
<1>2. upd' \in Threads /\ upd'.pc = "idle" /\ upd'.op = "none" /\ ~Startup'
  BY <1>1, IdleFacts DEF Startup
<1>3. /\ active # None /\ ~wrlock /\ loaded \in Snapshots /\ tmp = {}
      /\ reclaim.who # UpdateThread /\ done <= active.gen /\ active.gen < next_generation
  BY <1>1, Zenon DEF TInv, Phases, Open, Exchange, Beside, Lookups, Publishing, Renumbered, Candidate
<1>4. ReaderType /\ active.gen \in Nat
  BY <1>3 DEF TInv, Types, GenType, Gens
<1>5. FileType' /\ GenType' /\ UpdType' /\ DataType'
  BY <1>1, <1>2 DEF TInv, Types, FileType, GenType, UpdType, DataType
<1>6. ReaderType'
  BY <1>1, <1>4 DEF ReaderType
<1>7. Phases'
  BY <1>1, <1>2, <1>3 DEF TInv, Phases, Closed, Open, Exchange, Startup
<1>8. Publishing'
  BY <1>1, <1>2, <1>3, <1>4 DEF Publishing, Exchange, Candidate
<1>9. Naming' /\ Filling'
  BY <1>1, <1>2, <1>3, Zenon DEF TInv, Naming, Filling, Candidate, UsedNames
<1>10. OnDisk' /\ Beside' /\ BeingRead'
  BY <1>1, <1>2, <1>3, Zenon DEF TInv, OnDisk, Beside, BeingRead, Settled
<1>11. Answers'
  <2> SUFFICES ASSUME NEW w \in Workers
               PROVE  Answer(reader[w], cache[w], seen[w], flush + 1, active.gen)
    BY <1>1, Zenon DEF Answers
  <2>1. Answer(reader[w], cache[w], seen[w], flush, done)
    BY DEF TInv, Answers
  <2>2. reader[w].floor \in Nat /\ seen[w] \in Nat /\ flush \in Nat /\ done \in Nat
    BY <1>4 DEF ReaderType
  <2>3. reader[w].floor <= active.gen /\ seen[w] <= flush + 1 /\ seen[w] # flush + 1
    BY <1>3, <1>4, <2>1, <2>2 DEF Answer
  <2> QED BY <2>1, <2>3, Zenon DEF Answer
<1>12. Lookups'
  BY <1>1, <1>2, <1>3, SameLookups
<1> QED BY <1>5, <1>6, <1>7, <1>8, <1>9, <1>10, <1>11, <1>12 DEF TInv, Types

\* A record is added to the active generation, readers or not.
LEMMA StoreStep ==
    ASSUME TInv, StoreRecord
    PROVE  TInv'
<1> DEFINE n == active.name
<1>1. PICK r \in Records :
        /\ file' = [[file EXCEPT !.db[n] = @ \cup {r}] EXCEPT !.meta = n]
        /\ expect' = expect \cup {r}
  BY Zenon DEF StoreRecord, refresh_active_generation_metadata, write_db
<1>2. /\ upd.pc = "idle" /\ active # None /\ upd' = Thread("reclaim", "store")
      /\ backup' = backup /\ tmp' = tmp /\ env' = env /\ active' = active
      /\ retired' = retired /\ next_generation' = next_generation /\ wrlock' = wrlock
      /\ reader' = reader /\ cache' = cache /\ seen' = seen /\ reclaim' = reclaim
      /\ loaded' = loaded /\ flush' = flush /\ done' = done
  BY DEF StoreRecord, generations, lookups
<1>3. upd' \in Threads /\ upd'.pc = "reclaim" /\ upd'.op = "store" /\ ~Startup'
  <2>1. "reclaim" \in PCs
    BY DEF PCs
  <2>2. upd' \in Threads /\ upd'.pc = "reclaim" /\ upd'.op = "store"
    BY <1>2, <2>1, ThreadFacts, Zenon
  <2> QED BY <2>2 DEF Startup
<1>4. /\ ~Startup /\ ~wrlock /\ loaded \in Snapshots /\ tmp = {} /\ reclaim.who # UpdateThread
      /\ file.meta = n /\ n \in DOMAIN file.db /\ file \in Files /\ expect \in SUBSET Records
  BY <1>2, Zenon DEF TInv, Types, FileType, DataType, Phases, Exchange, Beside, Lookups, Naming
<1>5. n \in Names /\ file.db[n] \subseteq Records
  BY <1>4, FileFacts
<1> HIDE DEF n
<1>6. /\ file' \in Files /\ file'.meta = n /\ DOMAIN file'.db = DOMAIN file.db
      /\ file'.db[n] = file.db[n] \cup {r}
      /\ \A m \in DOMAIN file.db \ {n} : file'.db[m] = file.db[m]
  <2> DEFINE f == SetDb(file, n, file.db[n] \cup {r})
  <2>1. [file EXCEPT !.db[n] = @ \cup {r}] = f
    BY <1>4, StoreFacts
  <2>2. DOMAIN file.db \cup {n} = DOMAIN file.db /\ file.db[n] \cup {r} \in SUBSET Records
    BY <1>4, <1>5
  <2>3. /\ f \in Files /\ DOMAIN f.db = DOMAIN file.db \cup {n} /\ f.db[n] = file.db[n] \cup {r}
        /\ \A m \in DOMAIN file.db \ {n} : f.db[m] = file.db[m]
    BY <1>4, <1>5, <2>2, SetDbFacts
  <2> HIDE DEF f
  <2>4. file' = [f EXCEPT !.meta = n]
    BY <1>1, <2>1, Zenon
  <2>5. file' \in Files /\ file'.meta = n /\ file'.db = f.db
    BY <1>5, <2>3, <2>4, MetaFacts
  <2> QED BY <2>2, <2>3, <2>5, Zenon
<1>7. FileType' /\ GenType' /\ UpdType' /\ DataType'
  BY <1>1, <1>2, <1>3, <1>4, <1>6 DEF TInv, Types, FileType, GenType, UpdType, DataType
<1>8. Phases' /\ Publishing'
  BY <1>2, <1>3, <1>4, Zenon DEF TInv, Phases, Publishing, Closed, Open, Exchange, Startup,
     Renumbered, Candidate
<1>9. Naming' /\ Filling'
  BY <1>2, <1>3, <1>4, <1>6, Zenon DEF TInv, Naming, Filling, Candidate, UsedNames, n
<1>10. OnDisk'
  <2>1. Whole(file, expect) /\ Complete(expect)
    BY <1>4 DEF TInv, OnDisk, Settled
  <2>2. Whole(file', expect') /\ Complete(expect')
    BY <1>1, <1>4, <1>6, <2>1 DEF Whole, Complete
  <2> QED BY <1>3, <2>2 DEF OnDisk
<1>11. Beside'
  BY <1>2, <1>3, <1>4, Zenon DEF TInv, Beside
<1>12. BeingRead'
  <2> SUFFICES ASSUME NEW w \in Workers, reader[w].pc = "pinned"
               PROVE  /\ reader[w].gen.name \in DOMAIN file'.db
                      /\ Complete(file'.db[reader[w].gen.name])
    BY <1>2 DEF BeingRead
  <2>1. reader[w].gen.name \in DOMAIN file.db /\ Complete(file.db[reader[w].gen.name])
    BY DEF TInv, BeingRead
  <2>2. file.db[reader[w].gen.name] \subseteq file'.db[reader[w].gen.name]
    BY <1>6, <2>1
  <2> QED BY <1>6, <2>1, <2>2, Zenon DEF Complete
<1>13. Lookups'
  BY <1>2, <1>3, <1>4, SameLookups, Zenon
<1> QED BY <1>2, <1>7, <1>8, <1>9, <1>10, <1>11, <1>12, <1>13, SameAnswers DEF TInv, Types

-----------------------------------------------------------------------------
(* Steps while no lookup holds the lock.                                      *)

\* The write lock is held, or can be taken: nothing is pinned.
LEMMA NobodyInside ==
    ASSUME TInv, Startup \/ wrlock \/ CanLock
    PROVE  Locked = {}
<1>1. Startup => Locked = {}
  BY DEF TInv, Lookups, Locked
<1> QED BY <1>1, Zenon DEF TInv, Lookups, CanLock

LEMMA LockedLookups ==
    ASSUME TInv, Locked = {}, upd.pc # "reclaim", reclaim' = reclaim, Startup' => Startup,
           \A w \in Workers : reader'[w].pc = reader[w].pc /\ reader'[w].gen = reader[w].gen
    PROVE  Lookups' /\ BeingRead'
<1>1. \A w \in Workers : reader[w].pc \notin {"pinned", "reclaim"}
  BY DEF Locked
<1>2. Locked' = {}
  BY <1>1 DEF Locked
<1>3. reclaim.who = NoOne
  BY <1>1 DEF TInv, Types, DataType, Lookups, Processes
<1>4. Lookups'
  BY <1>1, <1>2, <1>3, FreeFacts, Zenon DEF TInv, Lookups, Processes
<1> QED BY <1>1, <1>4, Zenon DEF BeingRead

\* Generations are numbered from 1 again: no answer is out of date.
LEMMA RenumberAnswers ==
    ASSUME TInv, Renumber, UNCHANGED <<cache, seen, flush>>
    PROVE  /\ ReaderType' /\ Answers' /\ done' = 0
           /\ \A w \in Workers : reader'[w].pc = reader[w].pc /\ reader'[w].gen = reader[w].gen
<1>1. /\ done' = 0 /\ reader' = [w \in Workers |-> [reader[w] EXCEPT !.floor = 0]]
      /\ ReaderType
  BY DEF Renumber, TInv, Types
<1>2. \A w \in Workers :
        /\ reader'[w].pc = reader[w].pc /\ reader'[w].gen = reader[w].gen
        /\ reader'[w].floor = 0 /\ reader'[w].from = reader[w].from
        /\ reader'[w] \in [pc : {"idle", "lookup", "pinned", "reclaim"},
                           gen : Gens \cup {None}, floor : Nat, from : Int]
  BY <1>1 DEF ReaderType
<1>3. ReaderType'
  BY <1>1, <1>2 DEF ReaderType
<1>4. Answers'
  <2> SUFFICES ASSUME NEW w \in Workers
               PROVE  Answer(reader'[w], cache[w], seen[w], flush, 0)
    BY <1>1 DEF Answers
  <2>1. Answer(reader[w], cache[w], seen[w], flush, done) /\ reader[w].from \in Int
        /\ cache[w] \in Int
    BY <1>1 DEF TInv, Answers, ReaderType
  <2>2. reader[w].pc = "pinned" => reader[w].gen.gen \in Nat
    BY <1>1 DEF TInv, Lookups, ReaderType, Gens
  <2>3. /\ reader[w].pc = "pinned" => 0 <= reader[w].gen.gen
        /\ reader[w].from > 0 => 0 <= reader[w].from
        /\ cache[w] > 0 => 0 <= cache[w]
        /\ 0 <= 0
    BY <2>1, <2>2
  <2> QED BY <1>2, <2>1, <2>3, Zenon DEF Answer
<1> QED BY <1>1, <1>2, <1>3, <1>4

\* The file f is opened as generation g, by main() or under the write lock.
LEMMA OpenStep ==
    ASSUME TInv, Locked = {}, upd.pc \notin {"reclaim", "down"},
           NEW f \in Files, NEW g \in Nat \ {0}, init_db(f, g), done <= g,
           upd' \in Threads, Startup' <=> Startup, upd'.op # "store",
           \/ upd'.pc = "check" /\ Startup
           \/ upd'.pc \in {"load", "idle"} /\ ~Startup
           \/ upd'.pc = "finish",
           wrlock' \in BOOLEAN, wrlock' <=> (~Startup /\ upd'.pc = "finish"),
           expect' \subseteq Records, ~Startup => Whole(f, expect') /\ Complete(expect'),
           tmp' = {}, backup' \subseteq Files,
           UNCHANGED <<loaded, reclaim, lookups, flush, done>>
    PROVE  TInv'
<1>1. /\ file' \in Files /\ GenType' /\ active' # None /\ active'.gen = g
      /\ active'.name \in DOMAIN file'.db /\ file'.meta = active'.name
      /\ retired' = {} /\ next_generation' = g + 1
      /\ \A S : Whole(f, S) => file' = f
  BY InitDbFacts, Zenon
<1>2. /\ reader' = reader /\ cache' = cache /\ seen' = seen /\ loaded' = loaded
      /\ loaded \in Snapshots /\ reclaim' = reclaim /\ done' = done
  BY DEF lookups, TInv, Phases
<1>3. FileType' /\ UpdType' /\ DataType'
  BY <1>1, <1>2, Zenon DEF TInv, Types, FileType, UpdType, DataType
<1>4. Phases'
  BY <1>1, <1>2, Zenon DEF Phases, Closed, Open, Exchange, Startup
<1>5. Publishing'
  <2>1. /\ upd'.pc \notin Exchange /\ ~Candidate'
        /\ upd'.pc \notin {"build", "lock", "link", "rename", "reopen"}
    BY DEF Exchange, Candidate
  <2>2. g < g + 1
    OBVIOUS
  <2>3. done' <= active'.gen /\ active'.gen < next_generation'
    BY <1>1, <1>2, <2>2, Zenon
  <2> QED BY <1>1, <1>2, <2>1, <2>3, Zenon DEF TInv, Publishing
<1>6. Naming'
  BY <1>1, Zenon DEF Naming, Candidate, UsedNames
<1>7. OnDisk'
  <2>1. Settled' => ~Startup
    BY DEF Settled
  <2> QED BY <1>1, <2>1, Zenon DEF OnDisk
<1>8. Filling' /\ Beside'
  BY Zenon DEF Filling, Beside
<1>9. Lookups' /\ BeingRead'
  BY <1>2, LockedLookups
<1> QED BY <1>1, <1>2, <1>3, <1>4, <1>5, <1>6, <1>7, <1>8, <1>9, SameAnswers, Zenon DEF TInv, Types

\* No environment is open.
LEMMA LostStep ==
    ASSUME TInv, Locked = {}, upd.pc \notin {"reclaim", "down"}, file' \in Files,
           env' = FALSE, active' = None, retired' = {}, next_generation' \in Nat \ {0},
           upd' \in Threads, Startup' <=> Startup, upd'.op # "store",
           upd'.pc = IF Startup THEN "open" ELSE "idle", wrlock' = FALSE, done' = 0,
           \A w \in Workers : reader'[w].pc = reader[w].pc /\ reader'[w].gen = reader[w].gen,
           ReaderType', Answers', tmp' = {}, backup' \subseteq Files,
           expect' \subseteq Records, ~Startup => Whole(file', expect') /\ Complete(expect'),
           UNCHANGED <<loaded, reclaim>>
    PROVE  TInv'
<1>1. loaded \in Snapshots
  BY Zenon DEF TInv, Phases
<1>2. GenType' /\ UpdType'
  <2>1. env' = (active' # None) /\ wrlock' \in BOOLEAN
    BY Zenon
  <2> QED BY <2>1, Zenon DEF GenType, UpdType
<1>3. FileType' /\ DataType'
  BY Zenon DEF TInv, Types, FileType, DataType
<1>4. Phases' /\ Publishing'
  BY <1>1, Zenon DEF Phases, Publishing, Closed, Open, Exchange, Startup, Renumbered, Candidate
<1>5. Naming' /\ Filling'
  BY Zenon DEF Naming, Filling, Candidate, UsedNames
<1>6. OnDisk' /\ Beside'
  BY Zenon DEF OnDisk, Beside, Settled
<1>7. Lookups' /\ BeingRead'
  BY LockedLookups, Zenon
<1> QED BY <1>2, <1>3, <1>4, <1>5, <1>6, <1>7, Zenon DEF TInv, Types

LEMMA StartOpenStep ==
    ASSUME TInv, StartOpen
    PROVE  TInv'
<1>1. /\ upd.pc = "open" /\ init_db(file, 1) /\ wrlock' = wrlock /\ backup' = backup
      /\ tmp' = tmp /\ expect' = expect
      /\ UNCHANGED <<loaded, reclaim, lookups, flush, done>>
  BY DEF StartOpen, history
<1>2. /\ Startup /\ done = 0 /\ ~wrlock /\ wrlock \in BOOLEAN /\ tmp = {} /\ file \in Files
      /\ backup \subseteq Files /\ expect \subseteq Records
  BY <1>1, Zenon DEF TInv, Types, FileType, UpdType, DataType, Phases, Publishing, Beside
<1>3. upd' \in Threads /\ Moved("check")
  BY GotoFacts DEF StartOpen, TInv, Types, PCs
<1>4. Startup' /\ Locked = {} /\ upd.op # "store"
  BY <1>2, <1>3, NobodyInside DEF Startup, Moved
<1>5. done <= 1 /\ 1 \in Nat \ {0} /\ upd'.pc = "check" /\ upd'.op = upd.op
  BY <1>2, <1>3 DEF Moved
<1>6. wrlock' \in BOOLEAN /\ (wrlock' <=> (~Startup /\ upd'.pc = "finish"))
  BY <1>1, <1>2, Zenon
<1> QED BY <1>1, <1>2, <1>3, <1>4, <1>5, <1>6, OpenStep, Zenon

\* The generation keeps its number when the environment is opened again.
LEMMA ShrinkStep ==
    ASSUME TInv, ShrinkMap
    PROVE  TInv'
<1>1. /\ upd.pc = "size" /\ init_db(file, current_generation) /\ wrlock' = wrlock
      /\ backup' = backup /\ tmp' = tmp /\ expect' = expect
      /\ UNCHANGED <<loaded, reclaim, lookups, flush, done>>
  BY DEF ShrinkMap, history
<1>2. /\ ~Startup /\ ~wrlock /\ wrlock \in BOOLEAN /\ tmp = {} /\ file \in Files
      /\ backup \subseteq Files /\ expect \subseteq Records /\ upd.op # "store"
  BY <1>1, Zenon DEF TInv, Types, FileType, UpdType, DataType, Phases, Exchange, Beside
<1>3. Whole(file, expect) /\ Complete(expect)
  BY <1>2 DEF TInv, OnDisk, Settled
<1>4. current_generation \in Nat \ {0} /\ done <= current_generation
  <2>1. CASE active = None
    BY <1>1, <2>1 DEF current_generation, TInv, Publishing, Exchange
  <2>2. CASE active # None
    BY <2>2 DEF current_generation, TInv, Publishing, Types, GenType, Gens
  <2> QED BY <2>1, <2>2
<1>5. /\ upd' \in Threads /\ upd'.pc \in {"load", "idle"} /\ ~Startup' /\ upd'.op # "store"
  <2>1. CASE Goto("load")
    BY <1>2, <2>1, GotoFacts DEF TInv, Types, PCs, Moved, Startup
  <2>2. CASE upd' = Idle
    BY <2>2, IdleFacts DEF Startup
  <2> QED BY <2>1, <2>2 DEF ShrinkMap
<1>6. Locked = {}
  BY NobodyInside DEF ShrinkMap
<1> QED BY <1>1, <1>2, <1>3, <1>4, <1>5, <1>6, OpenStep

LEMMA ShrinkLosesStep ==
    ASSUME TInv, ShrinkMapLoses
    PROVE  TInv'
<1>1. /\ upd.pc = "size" /\ close_env /\ Renumber /\ wrlock' = wrlock /\ file' = file
      /\ backup' = backup /\ tmp' = tmp /\ expect' = expect /\ upd' = Idle
      /\ UNCHANGED <<loaded, reclaim>> /\ UNCHANGED <<cache, seen, flush>>
  BY DEF ShrinkMapLoses, lmdb
<1>2. /\ ~Startup /\ ~wrlock /\ wrlock \in BOOLEAN /\ tmp = {} /\ file \in Files
      /\ backup \subseteq Files /\ expect \subseteq Records
  BY <1>1, Zenon DEF TInv, Types, FileType, UpdType, DataType, Phases, Exchange, Beside
<1>3. Whole(file, expect) /\ Complete(expect) /\ Locked = {}
  BY <1>2, NobodyInside, Zenon DEF TInv, OnDisk, Settled, ShrinkMapLoses
<1>4. upd' \in Threads /\ upd'.pc = "idle" /\ upd'.op = "none" /\ ~Startup'
  BY <1>1, IdleFacts DEF Startup
<1>5. wrlock' = FALSE
  BY <1>1, <1>2, Zenon
<1>6. env' = FALSE /\ active' = None /\ retired' = {} /\ next_generation' \in Nat \ {0}
  BY <1>1 DEF close_env
<1>7. /\ ReaderType' /\ Answers' /\ done' = 0
      /\ \A w \in Workers : reader'[w].pc = reader[w].pc /\ reader'[w].gen = reader[w].gen
  BY <1>1, RenumberAnswers, Zenon
<1> QED BY <1>1, <1>2, <1>3, <1>4, <1>5, <1>6, <1>7, LostStep, Zenon

-----------------------------------------------------------------------------
(* The exchange of the data file by a compaction.                             *)

LEMMA SwapBeginStep ==
    ASSUME TInv, SwapBegin
    PROVE  TInv'
<1> DEFINE N == {g.name : g \in retired}
<1>1. /\ upd.pc = "lock" /\ wrlock' = TRUE /\ file' = DropOf(file, N)
      /\ env' = FALSE /\ active' = None /\ retired' = {} /\ next_generation' = 1
      /\ upd' = [upd EXCEPT !.pc = "link", !.old = current_generation]
      /\ backup' = backup /\ tmp' = tmp /\ reader' = reader /\ cache' = cache
      /\ seen' = seen /\ reclaim' = reclaim /\ loaded' = loaded /\ flush' = flush
      /\ done' = done /\ expect' = expect
  BY DEF SwapBegin, DropDb, DropOf, close_env, lookups, history
<1>2. ~Startup /\ Locked = {} /\ file \in Files /\ upd \in Threads /\ loaded \in Snapshots
  BY <1>1, NobodyInside DEF SwapBegin, TInv, Types, FileType, UpdType, Phases
<1>3. current_generation \in Nat \ {0} /\ done <= current_generation
  <2>1. CASE active = None
    BY <1>1, <2>1 DEF current_generation, TInv, Publishing, Exchange
  <2>2. CASE active # None
    BY <2>2 DEF current_generation, TInv, Publishing, Types, GenType, Gens
  <2> QED BY <2>1, <2>2
<1>4. /\ upd' \in Threads /\ upd'.pc = "link" /\ upd'.op = upd.op /\ upd'.gen = upd.gen
      /\ upd'.old = current_generation
  BY <1>1, <1>2, <1>3, Zenon DEF Threads, PCs
<1>5. ~Startup'
  BY <1>2, <1>4 DEF Startup
<1>6. file.meta \notin N
  <2>1. CASE active = None
    BY <2>1 DEF TInv, Phases
  <2>2. CASE active # None
    BY <1>1, <2>2 DEF TInv, Naming
  <2> QED BY <2>1, <2>2
<1> HIDE DEF N
<1>7. /\ file' \in Files /\ file'.meta = file.meta /\ DOMAIN file'.db = DOMAIN file.db \ N
      /\ \A n \in DOMAIN file.db \ N : file'.db[n] = file.db[n]
  BY <1>1, <1>2, DropFacts
<1>8. GenType' /\ UpdType'
  <2>1. env' = (active' # None) /\ wrlock' \in BOOLEAN
    BY <1>1, Zenon
  <2>2. next_generation' \in Nat \ {0}
    BY <1>1
  <2> QED BY <1>1, <1>4, <2>1, <2>2, Zenon DEF GenType, UpdType
<1>9. FileType' /\ DataType'
  BY <1>1, <1>7 DEF TInv, Types, FileType, DataType
<1>10. Phases'
  BY <1>1, <1>2, <1>4, <1>5 DEF TInv, Phases, Closed, Open, Exchange, Startup
<1>11. Publishing'
  BY <1>1, <1>3, <1>4, <1>5 DEF TInv, Publishing, Exchange, Candidate
<1>12. Naming' /\ Filling'
  BY <1>1, <1>4 DEF Naming, Filling, Candidate, UsedNames
<1>13. OnDisk'
  <2>1. Whole(file, expect) /\ Complete(expect)
    BY <1>2 DEF TInv, OnDisk, Settled
  <2>2. Whole(file', expect)
    BY <1>6, <1>7, <2>1 DEF Whole
  <2> QED BY <1>1, <1>4, <2>1, <2>2 DEF OnDisk
<1>14. Beside'
  BY <1>1, <1>4 DEF TInv, Beside
<1>15. Lookups' /\ BeingRead'
  BY <1>1, <1>2, <1>5, LockedLookups
<1> QED BY <1>1, <1>8, <1>9, <1>10, <1>11, <1>12, <1>13, <1>14, <1>15, SameAnswers
           DEF TInv, Types

LEMMA RenameStep ==
    ASSUME TInv, Rename
    PROVE  TInv'
<1>1. /\ upd.pc = "rename" /\ file' \in tmp /\ tmp' = {}
      /\ upd' = [upd EXCEPT !.pc = "reopen", !.kept = expect] /\ expect' = loaded
      /\ backup' = backup /\ env' = env /\ active' = active /\ retired' = retired
      /\ next_generation' = next_generation /\ wrlock' = wrlock /\ reader' = reader
      /\ cache' = cache /\ seen' = seen /\ reclaim' = reclaim /\ loaded' = loaded
      /\ flush' = flush /\ done' = done
  BY DEF Rename, generations, lookups
<1>2. /\ upd \in Threads /\ file' \in Files /\ file \in Files /\ expect \in SUBSET Records
      /\ loaded \in Snapshots /\ active = None /\ retired = {} /\ backup = {file}
      /\ Whole(file', loaded)
  BY <1>1 DEF TInv, Types, FileType, UpdType, DataType, Phases, Closed, Beside
<1>3. /\ upd' \in Threads /\ upd'.pc = "reopen" /\ upd'.op = upd.op /\ upd'.gen = upd.gen
      /\ upd'.old = upd.old /\ upd'.kept = expect
  BY <1>1, <1>2, Zenon DEF Threads, PCs
<1>4. (Startup' <=> Startup) /\ Locked = {}
  <2>1. Startup \/ wrlock
    BY <1>1 DEF TInv, Phases, Exchange
  <2> QED BY <1>3, <2>1, NobodyInside DEF Startup
<1>5. FileType' /\ GenType' /\ UpdType' /\ DataType'
  BY <1>1, <1>2, <1>3 DEF TInv, Types, FileType, GenType, UpdType, DataType
<1>6. Phases' /\ Publishing'
  BY <1>1, <1>2, <1>3, <1>4 DEF TInv, Phases, Publishing, Closed, Open, Exchange, Startup,
     Renumbered, Candidate
<1>7. Naming' /\ Filling'
  BY <1>1, <1>2, <1>3 DEF Naming, Filling, Candidate, UsedNames
<1>8. OnDisk' /\ Beside'
  <2>1. ~Startup => Whole(file, expect) /\ Complete(expect)
    BY DEF TInv, OnDisk, Settled
  <2>2. Complete(loaded)
    BY <1>2, SnapshotFacts
  <2> QED BY <1>1, <1>2, <1>3, <1>4, <2>1, <2>2 DEF OnDisk, Beside
<1>9. Lookups' /\ BeingRead'
  BY <1>1, <1>4, LockedLookups
<1> QED BY <1>1, <1>5, <1>6, <1>7, <1>8, <1>9, SameAnswers DEF TInv, Types

\* Where a failed compaction leaves the thread.
LEMMA CompactFailedFacts ==
    ASSUME TInv, CompactFailed, upd.pc # "reclaim"
    PROVE  /\ upd' \in Threads /\ (Startup' <=> Startup) /\ upd'.op # "store"
           /\ upd'.pc = IF Startup THEN "open" ELSE "idle"
<1>1. upd \in Threads /\ upd.op # "store"
  BY DEF TInv, Types, UpdType, Phases
<1>2. CASE Startup
  BY <1>1, <1>2 DEF CompactFailed, Threads, PCs, Startup
<1>3. CASE ~Startup
  BY <1>3, IdleFacts DEF CompactFailed, Startup
<1> QED BY <1>2, <1>3

\* The lock is held throughout the exchange, and no environment is open.
LEMMA ExchangeFacts ==
    ASSUME TInv, upd.pc \in Exchange
    PROVE  /\ Locked = {} /\ active = None /\ retired = {} /\ env = FALSE
           /\ next_generation \in Nat \ {0} /\ file \in Files /\ expect \subseteq Records
           /\ upd.old \in Nat \ {0} /\ done <= upd.old /\ upd.op # "store"
           /\ ~Startup => Whole(file, expect) /\ Complete(expect)
<1>1. Startup \/ wrlock
  BY DEF TInv, Phases
<1>2. active = None /\ retired = {} /\ upd.op # "store"
  BY DEF TInv, Phases, Closed, Exchange
<1>3. env = FALSE /\ next_generation \in Nat \ {0}
  BY <1>2, Zenon DEF TInv, Types, GenType
<1>4. file \in Files /\ expect \subseteq Records /\ upd.old \in Nat \ {0} /\ done <= upd.old
  BY DEF TInv, Types, FileType, DataType, UpdType, Threads, Publishing
<1> QED BY <1>1, <1>2, <1>3, <1>4, NobodyInside, Zenon DEF TInv, OnDisk, Settled

LEMMA SwapFailsStep ==
    ASSUME TInv, SwapFails
    PROVE  TInv'
<1>1. /\ upd.pc \in {"link", "rename"} /\ tmp' = {} /\ backup' = {} /\ CompactFailed
      /\ wrlock' = FALSE /\ expect' = expect /\ UNCHANGED <<loaded, reclaim>>
      /\ UNCHANGED <<cache, seen, flush>>
  BY DEF SwapFails
<1>2. upd.pc \in Exchange
  BY <1>1 DEF Exchange
<1>3. /\ upd' \in Threads /\ (Startup' <=> Startup) /\ upd'.op # "store"
      /\ upd'.pc = IF Startup THEN "open" ELSE "idle"
  BY <1>1, CompactFailedFacts
<1>4. CASE ~Startup /\ init_db(file, upd.old) /\ UNCHANGED <<reader, done>>
  BY <1>1, <1>2, <1>3, <1>4, ExchangeFacts, OpenStep, Zenon DEF lookups
<1>5. CASE Startup /\ UNCHANGED <<file, generations, reader, done>>
  <2>1. done' = 0 /\ reader' = reader
    BY <1>5 DEF TInv, Publishing
  <2>2. env' = env /\ active' = active /\ retired' = retired /\ next_generation' = next_generation
    BY <1>5 DEF generations
  <2>3. ReaderType' /\ Answers'
    BY <1>1, <1>5, SameAnswers
  <2> QED BY <1>1, <1>2, <1>3, <1>5, <2>1, <2>2, <2>3, ExchangeFacts, LostStep, Zenon
<1>6. CASE ~Startup /\ Renumber /\ UNCHANGED <<file, generations>>
  <2>1. env' = env /\ active' = active /\ retired' = retired /\ next_generation' = next_generation
    BY <1>6 DEF generations
  <2>2. /\ ReaderType' /\ Answers' /\ done' = 0
        /\ \A w \in Workers : reader'[w].pc = reader[w].pc /\ reader'[w].gen = reader[w].gen
    BY <1>1, <1>6, RenumberAnswers, Zenon
  <2> QED BY <1>1, <1>2, <1>3, <1>6, <2>1, <2>2, ExchangeFacts, LostStep, Zenon
<1> QED BY <1>4, <1>5, <1>6 DEF SwapFails

LEMMA ReopenStep ==
    ASSUME TInv, Reopen
    PROVE  TInv'
<1>1. /\ upd.pc = "reopen" /\ backup' = backup /\ tmp' = tmp /\ wrlock' = wrlock
      /\ expect' = expect /\ lookups' = lookups /\ reclaim' = reclaim /\ loaded' = loaded
      /\ flush' = flush /\ done' = done
  BY DEF Reopen, history
<1>2. upd.pc \in Exchange /\ backup \subseteq Files /\ tmp = {} /\ wrlock \in BOOLEAN
      /\ (wrlock <=> ~Startup)
  BY <1>1 DEF TInv, Types, FileType, UpdType, Phases, Exchange, Beside
<1>3. CASE init_db(file, upd.gen) /\ Goto("finish")
  <2>1. upd' \in Threads /\ Moved("finish")
    BY <1>3, GotoFacts DEF TInv, Types, PCs
  <2>2. (Startup' <=> Startup)
    BY <2>1 DEF Startup, Moved
  <2>3. upd.gen \in Nat \ {0} /\ done <= upd.gen
    BY <1>1 DEF TInv, Types, UpdType, Threads, Publishing
  <2>4. wrlock' \in BOOLEAN /\ (wrlock' <=> (~Startup /\ upd'.pc = "finish"))
    BY <1>1, <1>2, <2>1 DEF Moved
  <2> QED BY <1>1, <1>2, <1>3, <2>1, <2>2, <2>3, <2>4, ExchangeFacts, OpenStep, Zenon DEF Moved
<1>4. CASE Goto("restore") /\ UNCHANGED <<file, generations>>
  <2>1. upd' \in Threads /\ Moved("restore")
    BY <1>4, GotoFacts DEF TInv, Types, PCs
  <2>2. Quiet /\ next_generation' = next_generation /\ (Startup' <=> Startup)
    BY <1>1, <1>4, <2>1, Zenon DEF Quiet, generations, Startup, Moved
  <2>3. Phases' /\ Publishing'
    <3>1. Phases'
      BY <1>1, <1>2, <2>1, <2>2 DEF TInv, Quiet, Phases, Closed, Open, Exchange, Moved
    <3>2. Publishing'
      BY <1>1, <1>2, <2>1, <2>2, Zenon DEF TInv, Quiet, Publishing, Exchange, Renumbered, Candidate,
         Moved
    <3> QED BY <3>1, <3>2
  <2>4. Naming' /\ Filling'
    BY <1>1, <2>1, <2>2, Zenon DEF TInv, Quiet, Naming, Filling, Candidate, UsedNames, Moved
  <2>5. OnDisk' /\ Beside'
    BY <1>1, <2>1, <2>2, Zenon DEF TInv, Quiet, OnDisk, Beside, Settled, Moved
  <2> QED BY <1>1, <2>1, <2>2, <2>3, <2>4, <2>5, QuietKeeps, Zenon
             DEF TInv, Types, GenType, DataType
<1> QED BY <1>3, <1>4 DEF Reopen

\* The backup is the file that was in place before the exchange.
LEMMA RestoredFacts ==
    ASSUME TInv, upd.pc = "restore"
    PROVE  /\ Restored \in Files /\ upd.kept \subseteq Records /\ tmp = {}
           /\ ~Startup => Whole(Restored, upd.kept) /\ Complete(upd.kept)
<1>1. PICK f \in Files : backup = {f}
  BY DEF TInv, Beside
<1>2. Restored = f
  <2>1. backup # {} /\ \A g : g \in backup <=> g = f
    BY <1>1
  <2> QED BY <2>1, Zenon DEF Restored
<1>3. ~Startup => Whole(f, upd.kept) /\ Complete(upd.kept)
  BY <1>1, Zenon DEF TInv, Beside, OnDisk
<1> QED BY <1>2, <1>3 DEF TInv, Beside, Types, UpdType, Threads

LEMMA RestoreStep ==
    ASSUME TInv, Restore
    PROVE  TInv'
<1>1. /\ upd.pc = "restore" /\ init_db(Restored, upd.old) /\ backup' = {} /\ wrlock' = FALSE
      /\ expect' = upd.kept /\ tmp' = tmp /\ UNCHANGED <<loaded, reclaim, lookups, flush, done>>
  BY DEF Restore
<1>2. upd.pc \in Exchange
  BY <1>1 DEF Exchange
<1>3. /\ upd' \in Threads /\ (Startup' <=> Startup) /\ upd'.op # "store"
      /\ upd'.pc = IF Startup THEN "check" ELSE "idle"
  <2>1. CASE Startup
    BY <1>2, <2>1, GotoFacts, ExchangeFacts, Zenon DEF Restore, TInv, Types, PCs, Moved, Startup
  <2>2. CASE ~Startup
    BY <2>2, IdleFacts DEF Restore, Startup
  <2> QED BY <2>1, <2>2
<1> QED BY <1>1, <1>2, <1>3, ExchangeFacts, RestoredFacts, OpenStep, Zenon

LEMMA RestoreFailsStep ==
    ASSUME TInv, RestoreFails
    PROVE  TInv'
<1>1. /\ upd.pc = "restore" /\ backup' = {} /\ wrlock' = FALSE /\ Renumber /\ CompactFailed
      /\ tmp' = tmp /\ env' = env /\ active' = active /\ retired' = retired
      /\ next_generation' = next_generation
      /\ UNCHANGED <<loaded, reclaim>> /\ UNCHANGED <<cache, seen, flush>>
  BY DEF RestoreFails, generations
<1>2. upd.pc \in Exchange
  BY <1>1 DEF Exchange
<1>3. /\ upd' \in Threads /\ (Startup' <=> Startup) /\ upd'.op # "store"
      /\ upd'.pc = IF Startup THEN "open" ELSE "idle"
  BY <1>1, CompactFailedFacts
<1>4. /\ ReaderType' /\ Answers' /\ done' = 0
      /\ \A w \in Workers : reader'[w].pc = reader[w].pc /\ reader'[w].gen = reader[w].gen
  BY <1>1, RenumberAnswers
<1>5. CASE UNCHANGED <<file, expect>>
  BY <1>1, <1>2, <1>3, <1>4, <1>5, ExchangeFacts, RestoredFacts, LostStep, Zenon
<1>6. CASE file' = Restored /\ expect' = upd.kept
  BY <1>1, <1>2, <1>3, <1>4, <1>6, ExchangeFacts, RestoredFacts, LostStep, Zenon
<1> QED BY <1>5, <1>6 DEF RestoreFails

-----------------------------------------------------------------------------
(* The theorems.                                                              *)

\* The end of a reclaim, of a worker or of the update thread.
LEMMA ReclaimEnds ==
    ASSUME TInv, NEW p \in Processes, ReclaimDone(p) \/ ReclaimFails(p)
    PROVE  TInv'
<1>1. /\ UNCHANGED <<lmdb, generations, wrlock, loaded, flush, history>>
      /\ reclaim.who \in {p, NoOne} /\ reclaim' = Free /\ AfterReclaim(p)
  <2>1. CASE ReclaimDone(p)
    <3>1. reclaim = Free
      <4>1. reclaim.who = NoOne /\ reclaim.gen = None
        BY <2>1, Zenon DEF ReclaimDone, TInv, Lookups
      <4> QED BY <4>1 DEF Free, TInv, Types, DataType
    <3> QED BY <2>1, <3>1, FreeFacts DEF ReclaimDone
  <2>2. CASE ReclaimFails(p)
    BY <2>2, Zenon DEF ReclaimFails
  <2> QED BY <2>1, <2>2
<1>2. /\ p = UpdateThread => upd.pc = "reclaim"
      /\ p \in Workers => reader[p].pc = "reclaim"
  BY FreeFacts DEF ReclaimDone, ReclaimFails, Reclaims, TInv, Lookups
<1>3. CASE p = UpdateThread
  BY <1>1, <1>2, <1>3, LeaveReclaim, Zenon
<1>4. CASE p \in Workers
  <2>1. FinishLookup(p) /\ UNCHANGED <<seen, upd>>
    BY <1>1, <1>4, FreeFacts DEF AfterReclaim
  <2> QED BY <1>1, <1>2, <1>4, <2>1, FinishStep, Zenon
<1> QED BY <1>3, <1>4 DEF Processes

LEMMA LookupStep ==
    ASSUME TInv, NEW w \in Workers, NewEvent(w) \/ Lookup(w) \/ OpenReadFails(w)
    PROVE  TInv'
<1>1. CASE ReadAndRelease(w)
  BY <1>1, ReleaseStep, Zenon DEF ReadAndRelease
<1>2. CASE OpenReadFails(w)
  BY <1>2, ReleaseStep, Zenon DEF OpenReadFails
<1> QED BY <1>1, <1>2, NewEventStep, AcquireStep DEF Lookup

LEMMA InitStep ==
    ASSUME Init
    PROVE  TInv
<1>1. /\ file = [db |-> <<>>, meta |-> NoName] /\ backup = {} /\ tmp = {} /\ env = FALSE
      /\ active = None /\ retired = {} /\ next_generation = 1 /\ wrlock = FALSE
      /\ reader = [w \in Workers |-> NoReader] /\ reclaim = Free
      /\ upd = Thread("down", "start") /\ loaded = {} /\ flush = 0
      /\ cache = [w \in Workers |-> 0] /\ seen = [w \in Workers |-> 0]
      /\ done = 0 /\ expect = {}
  BY DEF Init
<1>2. upd \in Threads /\ upd.pc = "down" /\ upd.op = "start"
  <2>1. "down" \in PCs
    BY DEF PCs
  <2> QED BY <1>1, <2>1, ThreadFacts, Zenon
<1>3. /\ NoReader.pc = "idle" /\ NoReader.gen = None /\ NoReader.floor = 0 /\ NoReader.from = 0
      /\ NoReader \in [pc : {"idle", "lookup", "pinned", "reclaim"},
                       gen : Gens \cup {None}, floor : Nat, from : Int]
  BY DEF NoReader
<1>4. \A w \in Workers : reader[w] = NoReader /\ cache[w] = 0 /\ seen[w] = 0
  BY <1>1
<1>5. FileType /\ DataType
  BY <1>1, FreeFacts, NewFiles, Zenon DEF FileType, DataType
<1>6. GenType /\ UpdType
  <2>1. next_generation \in Nat \ {0} /\ active \in Gens \cup {None} /\ retired \subseteq Gens
    BY <1>1
  <2> QED BY <1>1, <1>2, <2>1, Zenon DEF GenType, UpdType
<1>7. ReaderType
  BY <1>1, <1>3 DEF ReaderType
<1>8. Phases /\ Publishing
  BY <1>1, <1>2, Zenon DEF Phases, Publishing, Closed, Open, Exchange, Startup, Renumbered, Candidate
<1>9. Lookups
  BY <1>1, <1>2, <1>3, <1>4, FreeFacts, Zenon DEF Lookups, Locked, Processes
<1>10. Naming /\ Filling
  BY <1>1, <1>2, Zenon DEF Naming, Filling, Candidate, UsedNames
<1>11. OnDisk /\ Beside /\ BeingRead
  BY <1>1, <1>2, <1>3, <1>4, Zenon DEF OnDisk, Beside, BeingRead, Settled, Startup
<1>12. Answers
  BY <1>1, <1>3, <1>4 DEF Answers, Answer
<1> QED BY <1>5, <1>6, <1>7, <1>8, <1>9, <1>10, <1>11, <1>12 DEF TInv, Types

LEMMA StutterStep ==
    ASSUME TInv, UNCHANGED vars
    PROVE  TInv'
<1>1. /\ Quiet /\ UNCHANGED <<next_generation, upd, loaded, expect>>
      /\ reader' = reader /\ cache' = cache /\ seen' = seen
  BY DEF vars, lmdb, generations, lookups, history, Quiet
<1>2. Types' /\ Answers'
  BY <1>1, Zenon DEF TInv, Quiet, Types, FileType, GenType, UpdType, ReaderType, DataType, Answers
<1>3. Phases' /\ Publishing'
  BY <1>1, Zenon DEF TInv, Quiet, Phases, Publishing, Closed, Open, Startup, Renumbered, Candidate
<1>4. Lookups' /\ BeingRead'
  BY <1>1, Zenon DEF TInv, Quiet, Lookups, Locked, Startup, BeingRead
<1>5. Naming' /\ Filling'
  BY <1>1, Zenon DEF TInv, Quiet, Naming, Filling, Candidate, UsedNames, Startup
<1>6. OnDisk' /\ Beside'
  BY <1>1, Zenon DEF TInv, Quiet, OnDisk, Beside, Settled, Startup
<1> QED BY <1>2, <1>3, <1>4, <1>5, <1>6 DEF TInv

\* The operations of the update thread that succeed.
LEMMA UpdateStep ==
    ASSUME TInv, Update \/ Exclusive \/ Requests
    PROVE  TInv'
<1>1. CASE CreateWithoutEnv
  BY <1>1, DieStep DEF CreateWithoutEnv, TInv, Types, FileType
<1>2. CASE CreateNoSlot
  BY <1>2, GiveUpStep DEF CreateNoSlot
<1>3. CASE Boot \/ StartOpen \/ CheckCopy \/ KeepMap \/ Load
  BY <1>3, BootStep, StartOpenStep, CheckCopyStep, KeepMapStep, LoadStep
<1>4. CASE ImportSome \/ ImportDone \/ PublishCommit \/ PublishSwap \/ RequestFlush
  BY <1>4, ImportSomeStep, ImportDoneStep, CommitStep, SwapStep, FlushStep
<1>5. CASE BuildOffline \/ LinkBackup \/ Rename \/ Reopen \/ Restore \/ SwapDone
  BY <1>5, BuildStep, LinkStep, RenameStep, ReopenStep, RestoreStep, SwapDoneStep
<1>6. CASE ShrinkMap \/ CreateCandidate \/ GrowMap \/ SwapBegin
  BY <1>6, ShrinkStep, CreateStep, GrowStep, SwapBeginStep
<1>7. CASE Requests
  BY <1>7, StoreStep, RequestStep DEF Requests
<1> QED BY <1>1, <1>2, <1>3, <1>4, <1>5, <1>6, <1>7 DEF Update, Exclusive

\* The operations that fail.
LEMMA FaultStep ==
    ASSUME TInv, Faults
    PROVE  TInv'
<1>1. CASE StartFails \/ LoadFails \/ CreateFails
  BY <1>1, GiveUpStep DEF StartFails, LoadFails, CreateFails
<1>2. CASE ShrinkMapLoses \/ MapFull \/ ImportFails \/ BuildFails
  BY <1>2, ShrinkLosesStep, MapFullStep, ImportFailsStep, BuildFailsStep
<1>3. CASE SwapBusy \/ SwapFails \/ RestoreFails
  BY <1>3, BusyStep, SwapFailsStep, RestoreFailsStep
<1>4. CASE \E w \in Workers : OpenReadFails(w)
  BY <1>4, LookupStep
<1>5. CASE \E p \in Processes : ReclaimFails(p)
  BY <1>5, ReclaimEnds
<1> QED BY <1>1, <1>2, <1>3, <1>4, <1>5 DEF Faults

LEMMA NextStep ==
    ASSUME TInv, [Next]_vars
    PROVE  TInv'
<1>1. CASE \E w \in Workers : NewEvent(w) \/ Lookup(w)
  BY <1>1, LookupStep
<1>2. CASE \E p \in Processes : Reclaim(p)
  BY <1>2, PickStep, DropStep, UnlinkStep, ReclaimEnds DEF Reclaim
<1>3. CASE Crash
  BY <1>3, DieStep DEF Crash, TInv, Types, FileType
<1> QED BY <1>1, <1>2, <1>3, UpdateStep, FaultStep, StutterStep DEF Next

\* Types, phases, pins, names, contents and numbers hold together in every
\* state of database.c's lookups, reclaims, publications and compactions.
THEOREM Generations_Invariant == Spec => []TInv
<1>1. Init => TInv
  BY InitStep
<1>2. TInv /\ [Next]_vars => TInv'
  BY NextStep
<1> QED BY <1>1, <1>2, PTL DEF Spec

\* For any number of workers, slots, failures and crashes: a lookup that holds a
\* generation reads a database that exists, that was completely imported, and
\* that nobody drops, empties or fills (trust_db_generation_acquire()).
THEOREM Generations_ReadersSeeComplete == Spec => []ReadersSeeComplete
<1>1. TInv => ReadersSeeComplete
  <2> SUFFICES ASSUME TInv, NEW w \in Workers, reader[w].gen # None
               PROVE  /\ env /\ reader[w].gen \in retired \cup {active}
                      /\ reclaim.gen # reader[w].gen
                      /\ upd.pc \in {"import", "importing", "grow", "commit"} =>
                            upd.name # reader[w].gen.name
                      /\ reader[w].gen.name \in DOMAIN file.db
                      /\ \E S \in Snapshots : S \subseteq file.db[reader[w].gen.name]
    BY Zenon DEF ReadersSeeComplete
  <2>1. reader[w].pc = "pinned" /\ reader[w].gen \in retired \cup {active}
    BY Zenon DEF TInv, Lookups
  <2>2. active # None
    BY <2>1 DEF TInv, Phases
  <2>3. env
    BY <2>2, Zenon DEF TInv, Types, GenType
  <2>4. reclaim.gen # reader[w].gen
    BY DEF TInv, Lookups
  <2>5. reader[w].gen.name \in DOMAIN file.db /\ Complete(file.db[reader[w].gen.name])
    BY <2>1 DEF TInv, BeingRead
  <2> QED BY <2>1, <2>3, <2>4, <2>5, ReadersApart, Zenon DEF Complete
<1> QED BY <1>1, Generations_Invariant, PTL

\* While the daemon serves, the metadata of data.mdb names a database that holds
\* exactly the last completed import and the records stored since, whatever
\* failed or was interrupted before; the active generation holds the same, or,
\* between the commit of the metadata and the swap in
\* publish_candidate_generation(), what was there before.
THEOREM Generations_PublishedContent == Spec => []PublishedContent
<1>1. ASSUME TInv, Serving
      PROVE  file.meta \in DOMAIN file.db /\ file.db[file.meta] = expect
  BY <1>1 DEF TInv, OnDisk, Settled, Whole, Serving
<1>2. ASSUME TInv, Serving, active # None
      PROVE  /\ active.name \in DOMAIN file.db
             /\ Content = IF upd.pc = "swap" THEN upd.kept ELSE expect
  BY <1>2, Zenon DEF TInv, OnDisk, Naming, Settled, Whole, Serving, Content
<1>3. TInv => PublishedContent
  BY <1>1, <1>2 DEF PublishedContent
<1> QED BY <1>3, Generations_Invariant, PTL

\* No event is answered from a generation older than the last publication that
\* was announced before it arrived, neither by a lookup nor from an object cache.
THEOREM Generations_FreshAfterReload == Spec => []FreshAfterReload
<1>1. TInv => FreshAfterReload
  <2> SUFFICES ASSUME TInv, NEW w \in Workers, reader[w].pc = "idle", reader[w].from > 0
               PROVE  reader[w].from >= reader[w].floor
    BY DEF FreshAfterReload
  <2>1. reader[w].floor <= reader[w].from
    BY DEF TInv, Answers, Answer
  <2>2. reader[w].floor \in Nat /\ reader[w].from \in Int
    BY DEF TInv, Types, ReaderType
  <2> QED BY <2>1, <2>2
<1> QED BY <1>1, Generations_Invariant, PTL

=============================================================================
