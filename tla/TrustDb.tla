------------------------------- MODULE TrustDb -------------------------------
(* The trust database of library/database.c: named databases ("generations") *)
(* in one LMDB environment, the worker threads that look paths up in the      *)
(* active one, the update thread that builds, publishes and compacts them,    *)
(* and a process that may be killed between any two of its steps.             *)
(*                                                                            *)
(* A record stands for a path with its trust data, a database for the set of  *)
(* its records.  LMDB is external: a transaction is one step, and survives    *)
(* the process once it committed.  Every operation that may fail has a        *)
(* failing twin, and its recovery may fail with it.                           *)
EXTENDS Integers, FiniteSets, Functions

CONSTANTS
    Workers,
    SLOTS,          \* TRUST_DB_GENERATION_DB_SLOTS
    Records,
    Snapshots,      \* what the backends may deliver, sets of records
    MaxGeneration,  \* bound: publications of one run of the daemon
    MaxFaults,      \* bound: operations that fail
    MaxCrashes      \* bound: times the process is killed

ASSUME TrustDbAssumption ==
    /\ SLOTS \in Nat \ {0} /\ IsFiniteSet(Workers)
    /\ Workers \cap {"nobody", "update"} = {}
    /\ Snapshots \subseteq (SUBSET Records) \ {{}}
    /\ {MaxGeneration, MaxFaults, MaxCrashes} \subseteq Nat

VARIABLES
    file,               \* data.mdb: its named databases, and the one metadata names
    backup, tmp,        \* data.mdb.compact-backup and the offline rebuild, if any
    env,                \* the environment is open
    active, retired,    \* active_generation, retired_generations
    next_generation,
    wrlock,             \* update_lock is held exclusively
    reader,             \* the lookup of each worker
    reclaim,            \* who holds generation_reclaim_lock, and the generation it drops
    upd,                \* the update thread, main() during startup
    loaded,             \* the backends' memfd snapshots
    flush,              \* object_cache_flush_generation
    cache, seen,        \* per worker: generation of a cached answer, flush applied
    done,               \* history: last generation whose publication was announced
    expect,             \* history: what the database on disk has to contain
    faults, crashes

lmdb == <<file, backup, tmp>>
generations == <<env, active, retired, next_generation>>
lookups == <<reader, cache, seen>>
history == <<done, expect>>
vars == <<lmdb, generations, wrlock, lookups, reclaim, upd, loaded, flush,
          history, faults, crashes>>

DbName == -1                        \* the default name, before any slot is used
SlotNames == 0 .. SLOTS - 1
Names == {DbName} \cup SlotNames
NoName == -2
Generation == [gen : 1 .. MaxGeneration + 1, name : Names]
None == [gen |-> 0, name |-> NoName]
NoOne == "nobody"
UpdateThread == "update"
Error == -1                         \* a lookup that failed, cached as untrusted

NoReader == [pc |-> "idle", gen |-> None, floor |-> 0, from |-> 0]
Free == [who |-> NoOne, gen |-> None]
Thread(pc, op) == [pc |-> pc, op |-> op, name |-> NoName, gen |-> 0,
                   old |-> 1, kept |-> {}, retried |-> FALSE]
Idle == Thread("idle", "none")

Startup == upd.op = "start"
Serving == upd.pc # "down" /\ ~Startup
Locked == {w \in Workers : reader[w].pc \in {"pinned", "reclaim"}}
CanLock == Locked = {} /\ ~wrlock
Pinned(g) == \E w \in Workers : reader[w].gen = g
CanFail == faults < MaxFaults /\ faults' = faults + 1
Completes == UNCHANGED faults

\* What the process loses when it dies or exits.  A left over backup or
\* temporary directory has a name of its own and is never looked at again.
Die ==
    /\ backup' = {} /\ tmp' = {} /\ env' = FALSE /\ active' = None
    /\ retired' = {} /\ next_generation' = 1 /\ wrlock' = FALSE
    /\ reader' = [w \in Workers |-> NoReader]
    /\ cache' = [w \in Workers |-> 0] /\ seen' = [w \in Workers |-> 0]
    /\ reclaim' = Free /\ upd' = Thread("down", "start")
    /\ loaded' = {} /\ flush' = 0 /\ done' = 0 /\ expect' = {}

Init ==
    /\ file = [db |-> <<>>, meta |-> NoName] /\ backup = {} /\ tmp = {}
    /\ env = FALSE /\ active = None /\ retired = {} /\ next_generation = 1
    /\ wrlock = FALSE /\ reader = [w \in Workers |-> NoReader]
    /\ reclaim = Free /\ upd = Thread("down", "start") /\ loaded = {}
    /\ flush = 0 /\ cache = [w \in Workers |-> 0] /\ seen = [w \in Workers |-> 0]
    /\ done = 0 /\ expect = {} /\ faults = 0 /\ crashes = 0

Crash ==
    /\ upd.pc # "down" /\ crashes < MaxCrashes
    /\ crashes' = crashes + 1
    /\ Die
    /\ UNCHANGED <<file, faults>>

-----------------------------------------------------------------------------
(* Lookups: get_obj_attr(OBJ_TRUST) of an event.                              *)

\* new_event() applies a requested flush before it looks at the object cache;
\* an answer found there is used as it is, errors included.
NewEvent(w) ==
    /\ Serving /\ reader[w].pc = "idle"
    /\ seen' = [seen EXCEPT ![w] = flush]
    /\ LET hit == IF seen[w] = flush THEN cache[w] ELSE 0 IN
       /\ cache' = [cache EXCEPT ![w] = hit]
       /\ reader' = [reader EXCEPT ![w] =
            [pc |-> IF hit = 0 THEN "lookup" ELSE "idle", gen |-> None,
             floor |-> done, from |-> hit]]
    /\ UNCHANGED <<lmdb, generations, wrlock, reclaim, upd, loaded, flush,
                   history, faults, crashes>>

\* check_trust_database(), trust_db_generation_acquire(): the read lock, then a
\* reference on the generation that is active now.  get_obj_attr() takes the
\* answer of a lookup that fails (no environment, readers full) for 0.
AcquireGeneration(w) ==
    /\ reader[w].pc = "lookup" /\ ~wrlock
    /\ IF active # None
       THEN /\ reader' = [reader EXCEPT ![w].pc = "pinned", ![w].gen = active]
            /\ UNCHANGED cache
       ELSE /\ reader' = [reader EXCEPT ![w].pc = "idle", ![w].from = Error]
            /\ cache' = [cache EXCEPT ![w] = Error]
    /\ UNCHANGED <<lmdb, generations, wrlock, seen, reclaim, upd, loaded, flush,
                   history, faults, crashes>>

\* Mutant: a lookup that ends does not look for retired generations.
ReadAndRelease_NoReclaim(w) ==
    /\ reader[w].pc = "pinned"
    /\ reader' = [reader EXCEPT ![w].pc = "idle", ![w].gen = None,
                                ![w].from = reader[w].gen.gen]
    /\ cache' = [cache EXCEPT ![w] = reader[w].gen.gen]
    /\ UNCHANGED <<lmdb, generations, wrlock, seen, reclaim, upd, loaded,
                   flush, history, faults, crashes>>

\* mdb_txn_begin() takes LMDB's snapshot, from which read_trust_db() reads;
\* trust_db_read_close() gives the reference back, and reclaims retired
\* generations, still under the read lock.
ReadAndRelease(w) ==
    /\ reader[w].pc = "pinned"
    /\ reader' = [reader EXCEPT ![w].pc = "reclaim", ![w].gen = None,
                                ![w].from = reader[w].gen.gen]
    /\ UNCHANGED <<lmdb, generations, wrlock, cache, seen, reclaim, upd, loaded,
                   flush, history, faults, crashes>>

OpenReadFails(w) ==
    /\ reader[w].pc = "pinned" /\ CanFail
    /\ reader' = [reader EXCEPT ![w].pc = "reclaim", ![w].gen = None,
                                ![w].from = Error]
    /\ UNCHANGED <<lmdb, generations, wrlock, cache, seen, reclaim, upd, loaded,
                   flush, history, crashes>>

\* The answer goes into the object cache.
FinishLookup(w) ==
    /\ cache' = [cache EXCEPT ![w] = reader[w].from]
    /\ reader' = [reader EXCEPT ![w].pc = "idle"]

-----------------------------------------------------------------------------
(* trust_db_reclaim_retired(), by a worker or by the update thread: a      *)
(* generation without readers is dropped in a transaction of its own while it *)
(* is still on the retired list, and only then unlinked, so that its slot is  *)
(* not taken while it is being dropped.                                       *)

Reclaims(p) ==
    IF p = UpdateThread THEN upd.pc = "reclaim" ELSE reader[p].pc = "reclaim"

\* Mutant: a generation is reclaimed although a worker reads it.
Unused_AnyRetired == retired

Unused == {g \in retired : ~Pinned(g)}

ReclaimPick(p) ==
    /\ Reclaims(p) /\ reclaim.who = NoOne
    /\ \E g \in Unused : reclaim' = [who |-> p, gen |-> g]
    /\ UNCHANGED <<lmdb, generations, wrlock, lookups, upd, loaded, flush,
                   history, faults, crashes>>

Without(f, S) == Restrict(f, DOMAIN f \ S)
DropDb(S) == file' = [file EXCEPT !.db = Without(file.db, S)]

\* drop_generation_database()
ReclaimDrop(p) ==
    /\ reclaim.who = p /\ reclaim.gen.name \in DOMAIN file.db
    /\ DropDb({reclaim.gen.name})
    /\ Completes
    /\ UNCHANGED <<backup, tmp, generations, wrlock, lookups, reclaim, upd,
                   loaded, flush, history, crashes>>

ReclaimUnlink(p) ==
    /\ reclaim.who = p /\ reclaim.gen.name \notin DOMAIN file.db
    /\ retired' = retired \ {reclaim.gen}
    /\ reclaim' = Free
    /\ UNCHANGED <<lmdb, env, active, next_generation, wrlock, lookups, upd,
                   loaded, flush, history, faults, crashes>>

\* What follows the reclaim: the lookup ends, the publication goes on.
AfterReclaim(p) ==
    IF p = UpdateThread
    THEN /\ upd' = IF upd.op = "store" THEN Idle ELSE [upd EXCEPT !.pc = "flush"]
         /\ UNCHANGED lookups
    ELSE FinishLookup(p) /\ UNCHANGED <<seen, upd>>

ReclaimDone(p) ==
    /\ Reclaims(p) /\ reclaim.who = NoOne /\ Unused = {}
    /\ AfterReclaim(p)
    /\ UNCHANGED <<lmdb, generations, wrlock, reclaim, loaded, flush, history,
                   faults, crashes>>

\* The drop fails: the generation stays retired and the loop ends.
ReclaimFails(p) ==
    /\ reclaim.who = p /\ reclaim.gen.name \in DOMAIN file.db /\ CanFail
    /\ reclaim' = Free
    /\ AfterReclaim(p)
    /\ UNCHANGED <<lmdb, generations, wrlock, loaded, flush, history, crashes>>

-----------------------------------------------------------------------------
(* init_db_with_generations(): metadata names the database to open; without   *)
(* metadata, the default one is created.                                      *)

MetaName(f) == IF f.meta = NoName THEN DbName ELSE f.meta
Opened(f) ==
    IF f.meta = NoName
    THEN [db |-> [n \in {DbName} |-> {}], meta |-> DbName] ELSE f

init_db(f, gen) ==
    /\ MetaName(f) \in DOMAIN Opened(f).db
    /\ file' = Opened(f) /\ env' = TRUE
    /\ active' = [gen |-> gen, name |-> MetaName(f)]
    /\ retired' = {} /\ next_generation' = gen + 1

\* close_env(): the retired generations are forgotten, their databases stay.
close_env ==
    env' = FALSE /\ active' = None /\ retired' = {} /\ next_generation' = 1

\* After the environment was lost, generations are numbered from 1 again.
Renumber ==
    /\ done' = 0
    /\ reader' = [w \in Workers |-> [reader[w] EXCEPT !.floor = 0]]

current_generation == IF active = None THEN 1 ELSE active.gen
Content == file.db[active.name]

\* The step of the update thread or of main() that only moves on.
Goto(pc) == upd' = [upd EXCEPT !.pc = pc]

\* An operation that failed: the daemon keeps serving, startup gives up.
GiveUp(f) ==
    /\ file' = f
    /\ IF Startup
       THEN Die
       ELSE /\ upd' = Idle
            /\ UNCHANGED <<backup, tmp, generations, wrlock, lookups, reclaim,
                           loaded, flush, history>>
    /\ UNCHANGED crashes

-----------------------------------------------------------------------------
(* init_database()                                                            *)

\* The backends are loaded; autosize may have asked for a compaction of an
\* existing database.
Boot ==
    /\ upd.pc = "down"
    /\ loaded' \in Snapshots
    /\ \E pc \in {"open"} \cup IF file.meta = NoName THEN {} ELSE {"build"} :
          upd' = [Thread(pc, "start") EXCEPT !.gen = 1]
    /\ UNCHANGED <<lmdb, generations, wrlock, lookups, reclaim, flush, history,
                   faults, crashes>>

StartOpen ==
    /\ upd.pc = "open"
    /\ init_db(file, 1)
    /\ Goto("check") /\ Completes
    /\ UNCHANGED <<backup, tmp, wrlock, lookups, reclaim, loaded, flush, history,
                   crashes>>

StartFails == upd.pc \in {"open", "check"} /\ CanFail /\ GiveUp(file)

\* An empty database is filled in place; one that differs from the backends is
\* replaced by a new generation, which gets number 1 as well.
CheckCopy ==
    /\ upd.pc = "check"
    /\ \/ /\ Content = {}
          /\ upd' = [upd EXCEPT !.pc = "import", !.name = active.name]
          /\ UNCHANGED <<expect, next_generation>>
       \/ /\ Content = loaded
          /\ upd' = Idle /\ expect' = loaded
          /\ UNCHANGED next_generation
       \/ /\ Content \notin {{}, loaded}
          /\ next_generation' = 1 /\ Goto("create")
          /\ UNCHANGED expect
    /\ UNCHANGED <<lmdb, env, active, retired, wrlock, lookups, reclaim, loaded,
                   flush, done, faults, crashes>>

-----------------------------------------------------------------------------
(* database_store_update_record(): one record from the FIFO goes into the     *)
(* active generation; write_db() gives its reference back, which reclaims.    *)

write_db(f, r) == [f EXCEPT !.db[active.name] = @ \cup {r}]
refresh_active_generation_metadata(f) == [f EXCEPT !.meta = active.name]

StoreRecord ==
    /\ upd.pc = "idle" /\ active # None
    /\ \E r \in Records \ Content :
          /\ file' = refresh_active_generation_metadata(write_db(file, r))
          /\ expect' = expect \cup {r}
    /\ upd' = Thread("reclaim", "store")
    /\ UNCHANGED <<backup, tmp, generations, wrlock, lookups, reclaim, loaded,
                   flush, done, faults, crashes>>

-----------------------------------------------------------------------------
(* database_reload_from_backends()                                            *)

ReloadBegin ==
    /\ upd.pc = "idle" /\ next_generation <= MaxGeneration
    /\ upd' = Thread("size", "reload")
    /\ UNCHANGED <<lmdb, generations, wrlock, lookups, reclaim, loaded, flush,
                   history, faults, crashes>>

KeepMap ==
    /\ upd.pc = "size"
    /\ Goto("load")
    /\ UNCHANGED <<lmdb, generations, wrlock, lookups, reclaim, loaded, flush,
                   history, faults, crashes>>

\* A smaller map: closed and opened again under the write lock, which waits
\* for the lookups under way.
ShrinkMap ==
    /\ upd.pc = "size" /\ CanLock
    /\ init_db(file, current_generation)
    /\ \/ Goto("load") /\ Completes
       \/ upd' = Idle /\ CanFail        \* at the second attempt, the old size
    /\ UNCHANGED <<backup, tmp, wrlock, lookups, reclaim, loaded, flush, history,
                   crashes>>

\* Neither size can be opened: the daemon goes on without a database.
ShrinkMapLoses ==
    /\ upd.pc = "size" /\ CanLock
    /\ CanFail
    /\ close_env /\ upd' = Idle /\ Renumber
    /\ UNCHANGED <<lmdb, wrlock, cache, seen, reclaim, loaded, flush, expect,
                   crashes>>

Load ==
    /\ upd.pc = "load"
    /\ loaded' \in Snapshots
    /\ upd' = IF upd.op = "compact"
              THEN [upd EXCEPT !.pc = "build", !.gen = next_generation]
              ELSE [upd EXCEPT !.pc = "create"]
    /\ UNCHANGED <<lmdb, generations, wrlock, lookups, reclaim, flush, history,
                   faults, crashes>>

LoadFails == upd.pc = "load" /\ CanFail /\ GiveUp(file)

\* trust_db_candidate_name(): the first slot no generation uses.
UsedNames == {g.name : g \in retired \cup {active}}
FreeSlots == SlotNames \ UsedNames

FirstFreeSlot == CHOOSE n \in FreeSlots : \A m \in FreeSlots : n <= m

\* The named databases after n is set to the records in S.
WithDb(n, S) ==
    [file EXCEPT !.db = [m \in DOMAIN file.db \cup {n} |->
                            IF m = n THEN S ELSE file.db[m]]]

\* Mutant: what the slot held before is not deleted.
Emptied_Kept(n) ==
    WithDb(n, IF n \in DOMAIN file.db THEN file.db[n] ELSE {})

\* A slot may hold what a crash, a failed drop or a reopening left there.
Emptied(n) == WithDb(n, {})

\* autosize_reload_preflight() holds the write lock for a moment, then
\* create_candidate_generation() opens and empties a database.
CreateCandidate ==
    /\ upd.pc = "create" /\ env /\ CanLock /\ FreeSlots # {}
    /\ file' = Emptied(FirstFreeSlot)
    /\ upd' = [upd EXCEPT !.pc = "import", !.name = FirstFreeSlot,
                          !.gen = next_generation]
    /\ UNCHANGED <<backup, tmp, generations, wrlock, lookups, reclaim, loaded,
                   flush, history, faults, crashes>>

CreateNoSlot ==
    /\ upd.pc = "create" /\ env /\ CanLock /\ FreeSlots = {}
    /\ GiveUp(file) /\ Completes

CreateFails == upd.pc = "create" /\ env /\ CanLock /\ CanFail /\ GiveUp(file)

\* mdb_txn_begin() with the environment that was lost earlier.
CreateWithoutEnv ==
    /\ upd.pc = "create" /\ ~env
    /\ Die
    /\ UNCHANGED <<file, faults, crashes>>

-----------------------------------------------------------------------------
(* create_database_for_generation(): transactions of a bounded size, into a   *)
(* candidate or, at the first start, into the active database.                *)

InPlace == upd.name = active.name
Target == file.db[upd.name]

ImportSome ==
    /\ upd.pc = "import"
    /\ \E S \in SUBSET loaded \ {loaded} : file' = WithDb(upd.name, Target \cup S)
    /\ Goto("importing")
    /\ UNCHANGED <<backup, tmp, generations, wrlock, lookups, reclaim, loaded,
                   flush, history, faults, crashes>>

ImportDone ==
    /\ upd.pc = "importing"
    /\ file' = WithDb(upd.name, Target \cup loaded)
    /\ IF InPlace
       THEN upd' = Idle /\ expect' = loaded
       ELSE Goto("commit") /\ UNCHANGED expect
    /\ UNCHANGED <<backup, tmp, generations, wrlock, lookups, reclaim, loaded,
                   flush, done, faults, crashes>>

\* The map is full: once, it is grown under the write lock and the import
\* starts over.
MapFull ==
    /\ upd.pc \in {"import", "importing"} /\ ~upd.retried /\ CanFail
    /\ Goto("grow")
    /\ UNCHANGED <<lmdb, generations, wrlock, lookups, reclaim, loaded, flush,
                   history, crashes>>

GrowMap ==
    /\ upd.pc = "grow" /\ CanLock
    /\ file' = Emptied(upd.name)
    /\ upd' = [upd EXCEPT !.pc = "import", !.retried = TRUE]
    /\ UNCHANGED <<backup, tmp, generations, wrlock, lookups, reclaim, loaded,
                   flush, history, faults, crashes>>

\* drop_candidate_generation() may fail as well; create_database() has no
\* candidate to drop.
ImportFails ==
    /\ upd.pc \in {"import", "importing", "grow", "commit"}
    /\ CanFail
    /\ \/ GiveUp([file EXCEPT !.db =
                     Without(file.db, IF InPlace THEN {} ELSE {upd.name})])
       \/ GiveUp(file)

-----------------------------------------------------------------------------
(* publish_candidate_generation()                                             *)

PublishCommit ==
    /\ upd.pc = "commit"
    /\ file' = [file EXCEPT !.meta = upd.name]
    /\ upd' = [upd EXCEPT !.pc = "swap", !.kept = expect] /\ expect' = loaded
    /\ UNCHANGED <<backup, tmp, generations, wrlock, lookups, reclaim, loaded,
                   flush, done, faults, crashes>>

PublishSwap ==
    /\ upd.pc = "swap"
    /\ active' = [gen |-> upd.gen, name |-> upd.name]
    /\ retired' = retired \cup {active}
    /\ next_generation' = IF next_generation <= upd.gen THEN upd.gen + 1
                          ELSE next_generation
    /\ Goto("reclaim")
    /\ UNCHANGED <<lmdb, env, wrlock, lookups, reclaim, loaded, flush, history,
                   faults, crashes>>

\* Mutant: the caches are not told.
RequestFlush_Skipped ==
    /\ upd.pc = "flush"
    /\ done' = active.gen /\ upd' = Idle
    /\ UNCHANGED <<lmdb, generations, wrlock, lookups, reclaim, loaded, flush,
                   expect, faults, crashes>>

\* request_object_cache_flush(); only now is the update announced as done.
RequestFlush ==
    /\ upd.pc = "flush"
    /\ flush' = flush + 1 /\ done' = active.gen /\ upd' = Idle
    /\ UNCHANGED <<lmdb, generations, wrlock, lookups, reclaim, loaded, expect,
                   faults, crashes>>

-----------------------------------------------------------------------------
(* database_compact_from_backends(), and the compaction at startup.           *)

CompactBegin ==
    /\ upd.pc = "idle" /\ next_generation <= MaxGeneration
    /\ upd' = Thread("load", "compact")
    /\ UNCHANGED <<lmdb, generations, wrlock, lookups, reclaim, loaded, flush,
                   history, faults, crashes>>

open_offline_lmdb == [db |-> [n \in {0} |-> {}], meta |-> NoName]
import_backends(f) == [f EXCEPT !.db[0] = @ \cup loaded]
write_offline_metadata(f) == [f EXCEPT !.meta = 0]
validate_offline_lmdb(f) == f.meta \in DOMAIN f.db

\* build_offline_lmdb_from_backends(): a whole environment beside the live one.
BuildOffline ==
    /\ upd.pc = "build"
    /\ LET f == write_offline_metadata(import_backends(open_offline_lmdb)) IN
       validate_offline_lmdb(f) /\ tmp' = {f}
    /\ Goto(IF Startup THEN "link" ELSE "lock")
    /\ UNCHANGED <<file, backup, generations, wrlock, lookups, reclaim, loaded,
                   flush, history, faults, crashes>>

\* Where a compaction that failed leaves: startup opens what is there.
CompactFailed == upd' = IF Startup THEN [upd EXCEPT !.pc = "open"] ELSE Idle

BuildFails ==
    /\ upd.pc = "build" /\ CanFail
    /\ CompactFailed
    /\ UNCHANGED <<lmdb, generations, wrlock, lookups, reclaim, loaded, flush,
                   history, crashes>>

\* publish_offline_lmdb(): the lookups are shut out, the retired generations
\* dropped, the environment closed.
SwapBegin ==
    /\ upd.pc = "lock" /\ CanLock
    /\ wrlock' = TRUE
    /\ DropDb({g.name : g \in retired})
    /\ close_env
    /\ upd' = [upd EXCEPT !.pc = "link", !.old = current_generation]
    /\ UNCHANGED <<backup, tmp, lookups, reclaim, loaded, flush, history, faults,
                   crashes>>

\* A retired generation that could not be dropped before cannot be dropped now:
\* postponed.
SwapBusy ==
    /\ upd.pc = "lock" /\ CanLock /\ retired # {}
    /\ tmp' = {} /\ upd' = Idle
    /\ UNCHANGED <<file, backup, generations, wrlock, lookups, reclaim, loaded,
                   flush, history, faults, crashes>>

\* swap_lmdb_data_file()
LinkBackup ==
    /\ upd.pc = "link"
    /\ backup' = {file} /\ Goto("rename")
    /\ UNCHANGED <<file, tmp, generations, wrlock, lookups, reclaim, loaded,
                   flush, history, faults, crashes>>

Rename ==
    /\ upd.pc = "rename"
    /\ file' \in tmp /\ tmp' = {}
    /\ upd' = [upd EXCEPT !.pc = "reopen", !.kept = expect] /\ expect' = loaded
    /\ UNCHANGED <<backup, generations, wrlock, lookups, reclaim, loaded, flush,
                   done, faults, crashes>>

\* Mutant: this error path forgets to unlock.
SwapFails_Locked ==
    /\ upd.pc \in {"link", "rename"} /\ tmp' = {} /\ backup' = {}
    /\ CompactFailed /\ UNCHANGED wrlock
    /\ CanFail
    /\ \/ ~Startup /\ init_db(file, upd.old) /\ UNCHANGED <<reader, done>>
       \/ Startup /\ UNCHANGED <<file, generations, reader, done>>
    /\ UNCHANGED <<cache, seen, reclaim, loaded, flush, expect, crashes>>

\* The old file is still in place and is opened again; that may fail as well.
SwapFails ==
    /\ upd.pc \in {"link", "rename"} /\ tmp' = {} /\ backup' = {}
    /\ CompactFailed /\ wrlock' = FALSE
    /\ CanFail
    /\ \/ ~Startup /\ init_db(file, upd.old) /\ UNCHANGED <<reader, done>>
       \/ Startup /\ UNCHANGED <<file, generations, reader, done>>
       \/ ~Startup /\ Renumber /\ UNCHANGED <<file, generations>>
    /\ UNCHANGED <<cache, seen, reclaim, loaded, flush, expect, crashes>>

\* Mutant: the backup is removed before the new environment is known to open.
Reopen_DropsBackup ==
    /\ upd.pc = "reopen" /\ backup' = {}
    /\ \/ /\ init_db(file, upd.gen) /\ Goto("finish") /\ Completes
       \/ CanFail /\ Goto("restore") /\ UNCHANGED <<file, generations>>
    /\ UNCHANGED <<tmp, wrlock, lookups, reclaim, loaded, flush, history, crashes>>

Reopen ==
    /\ upd.pc = "reopen"
    /\ \/ /\ init_db(file, upd.gen) /\ Goto("finish") /\ Completes
       \/ CanFail /\ Goto("restore") /\ UNCHANGED <<file, generations>>
    /\ UNCHANGED <<backup, tmp, wrlock, lookups, reclaim, loaded, flush, history,
                   crashes>>

\* reopen_old_environment_after_swap_failure(); without a backup,
\* restore_lmdb_data_file() removes the file.
Restored ==
    IF backup = {} THEN [db |-> <<>>, meta |-> NoName]
    ELSE CHOOSE f \in backup : TRUE

Restore ==
    /\ upd.pc = "restore"
    /\ init_db(Restored, upd.old)
    /\ backup' = {} /\ wrlock' = FALSE /\ expect' = upd.kept
    /\ IF Startup THEN Goto("check") ELSE upd' = Idle
    /\ UNCHANGED <<tmp, lookups, reclaim, loaded, flush, done, faults, crashes>>

\* The file cannot be moved back, or cannot be opened.
RestoreFails ==
    /\ upd.pc = "restore"
    /\ \/ UNCHANGED <<file, expect>>
       \/ file' = Restored /\ expect' = upd.kept
    /\ backup' = {} /\ wrlock' = FALSE /\ Renumber
    /\ CompactFailed
    /\ UNCHANGED <<tmp, generations, cache, seen, reclaim, loaded, flush, faults,
                   crashes>>

\* finish_lmdb_swap_backup()
SwapDone ==
    /\ upd.pc = "finish"
    /\ backup' = {} /\ wrlock' = FALSE
    /\ Goto(IF Startup THEN "check" ELSE "flush")
    /\ UNCHANGED <<file, tmp, generations, lookups, reclaim, loaded, flush,
                   history, faults, crashes>>

-----------------------------------------------------------------------------
Processes == Workers \cup {UpdateThread}

Reclaim(p) == ReclaimPick(p) \/ ReclaimDrop(p) \/ ReclaimUnlink(p) \/ ReclaimDone(p)

Lookup(w) == AcquireGeneration(w) \/ ReadAndRelease(w)

\* Steps that need the write lock.
Exclusive == ShrinkMap \/ CreateCandidate \/ CreateNoSlot \/ GrowMap \/ SwapBegin

Update ==
    \/ Boot \/ StartOpen \/ CheckCopy \/ KeepMap \/ Load \/ CreateWithoutEnv
    \/ ImportSome \/ ImportDone \/ PublishCommit \/ PublishSwap \/ RequestFlush
    \/ BuildOffline \/ LinkBackup \/ Rename \/ Reopen \/ Restore \/ SwapDone

Requests == StoreRecord \/ ReloadBegin \/ CompactBegin

Faults ==
    \/ StartFails \/ ShrinkMapLoses \/ LoadFails \/ CreateFails \/ MapFull
    \/ ImportFails \/ BuildFails \/ SwapBusy \/ SwapFails \/ RestoreFails
    \/ \E w \in Workers : OpenReadFails(w)
    \/ \E p \in Processes : ReclaimFails(p)

Next ==
    \/ \E w \in Workers : NewEvent(w) \/ Lookup(w)
    \/ \E p \in Processes : Reclaim(p)
    \/ Update \/ Exclusive \/ Requests \/ Faults \/ Crash

Spec == Init /\ [][Next]_vars

\* Every thread is scheduled.  Nothing more is owed to a writer that waits for
\* update_lock while lookups overlap: "Default glibc rwlocks can starve an update
\* writer under overlapping integrity lookups" (database-update.c).
Fairness ==
    /\ \A w \in Workers : WF_vars(Lookup(w))
    /\ \A p \in Processes : WF_vars(Reclaim(p))
    /\ WF_vars(Update \/ Exclusive)

FairSpec == Spec /\ Fairness

-----------------------------------------------------------------------------
TypeOK ==
    /\ DOMAIN file.db \subseteq Names /\ file.meta \in Names \cup {NoName}
    /\ \A n \in DOMAIN file.db : file.db[n] \subseteq Records
    /\ Cardinality(backup) <= 1 /\ Cardinality(tmp) <= 1
    /\ env \in BOOLEAN /\ (env <=> active # None)
    /\ active \in Generation \cup {None} /\ retired \subseteq Generation
    /\ next_generation \in 1 .. MaxGeneration + 1
    /\ reclaim.who \in Processes \cup {NoOne}
    /\ faults \in 0 .. MaxFaults /\ crashes \in 0 .. MaxCrashes

\* A lookup that holds a generation reads a database that exists, that was
\* completely imported, and that nobody drops, empties or fills meanwhile: the
\* reader count, the retired list and the slot search together keep
\* trust_db_generation_acquire()'s promise through reloads, reopenings and
\* compactions.
ReadersSeeComplete ==
    \A w \in Workers : reader[w].gen # None =>
        LET n == reader[w].gen.name IN
        /\ env /\ reader[w].gen \in retired \cup {active}
        /\ reclaim.gen # reader[w].gen
        /\ upd.pc \in {"import", "importing", "grow", "commit"} => upd.name # n
        /\ n \in DOMAIN file.db /\ \E S \in Snapshots : S \subseteq file.db[n]

\* While the daemon serves, the file on disk names exactly the last database
\* that was completed, with the records stored since: killed at any point, it
\* restarts from a whole database and never from a partial import, whatever
\* failed before ("publishing a complete LMDB trust DB generation only after the
\* rebuild succeeds").  The generation the workers use is the one on disk, except
\* between the commit of the metadata and the swap, when it is the one before.
PublishedContent ==
    /\ Serving => file.meta \in DOMAIN file.db /\ file.db[file.meta] = expect
    /\ Serving /\ active # None =>
          /\ active.name \in DOMAIN file.db
          /\ Content = IF upd.pc = "swap" THEN upd.kept ELSE expect

\* An event that arrives after an update was announced as done is not answered
\* from an older generation, neither by a lookup nor from an object cache:
\* publish first, request the flush afterwards.
FreshAfterReload ==
    \A w \in Workers :
        reader[w].pc = "idle" /\ reader[w].from > 0 => reader[w].from >= reader[w].floor

\* Unless a drop failed, every retired generation is reclaimed, by whichever of
\* its readers, the publisher or a later lookup comes last.
RetiredReclaimed ==
    \A n \in Names :
        n \in {g.name : g \in retired} /\ faults = 0 ~>
            n \notin {g.name : g \in retired} \/ faults > 0

\* An update comes to an end, whatever step of it fails, unless lookups take the
\* lock again and again; no path of a reload, a compaction or a restore leaves
\* the lock taken.
UpdateCompletes ==
    (upd.pc \notin {"idle", "down"} ~> upd.pc \in {"idle", "down"}) \/ []<>(Locked # {})

=============================================================================
