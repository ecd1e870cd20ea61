-------------------------- MODULE UpdateController --------------------------
(* The control plane of reloads: the main loop and the reconfigure thread of  *)
(* daemon/fapolicyd.c turn SIGHUP into requests, and the update thread of     *)
(* library/database-update.c serves them and the commands of the FIFO.        *)
(*                                                                            *)
(* Configuration, rule file and trust sources are on disk; every edit of the  *)
(* administrator is one new version of all of them.  A reload reads a version *)
(* and then takes effect or fails; a failure is reported and preserves what   *)
(* was active, so what counts here is the version each reload has read.       *)
EXTENDS Integers, Sequences

CONSTANTS
    MaxEdits,       \* bound: versions on disk
    MaxCommands     \* bound: commands written to the FIFO

ASSUME BoundsAssumption == MaxEdits \in Nat /\ MaxCommands \in Nat

VARIABLES
    stop,
    disk,           \* version on disk
    hup,            \* the flag of hup_handler()
    reconf,         \* where the reconfigure thread stands
    parsed,         \* version the reconfigure thread has parsed
    conf,           \* version of the configuration in force
    reload_rules, reload_db,
    fifo,           \* commands with the version on disk when they were written
    sent,           \* how many were written
    u_pc,           \* where the update thread stands
    ret,            \* where it goes on after a reload
    pollin,         \* poll() returned with POLLIN
    cycle_done,     \* trust_reload_done_this_cycle
    policy,         \* version the last rule reload has read
    rebuilt         \* version, and configuration, the last rebuild has read

requests == <<hup, reconf, parsed, conf>>
pipe == <<fifo, sent>>
updater == <<u_pc, ret, pollin, cycle_done, policy, rebuilt>>
vars == <<stop, disk, requests, reload_rules, reload_db, pipe, updater>>

Versions == 0 .. MaxEdits
Commands == {"reload", "rules", "compact", "other"}
Command == [op : Commands, version : Versions]

Init ==
    /\ stop = FALSE /\ disk = 0 /\ hup = FALSE
    /\ reconf = "idle" /\ parsed = 0 /\ conf = 0
    /\ reload_rules = FALSE /\ reload_db = FALSE /\ fifo = <<>> /\ sent = 0
    /\ u_pc = "poll" /\ ret = "poll" /\ pollin = FALSE /\ cycle_done = FALSE
    /\ policy = 0 /\ rebuilt = [version |-> 0, conf |-> 0]

-----------------------------------------------------------------------------
(* The administrator, package managers and fapolicyd-cli.                     *)

Edit ==
    /\ disk < MaxEdits
    /\ disk' = disk + 1
    /\ UNCHANGED <<stop, requests, reload_rules, reload_db, pipe, updater>>

Sighup ==
    /\ hup' = TRUE
    /\ UNCHANGED <<stop, disk, reconf, parsed, conf, reload_rules, reload_db,
                   pipe, updater>>

Send(op) ==
    /\ sent < MaxCommands /\ sent' = sent + 1
    /\ fifo' = Append(fifo, [op |-> op, version |-> disk])
    /\ UNCHANGED <<stop, disk, requests, reload_rules, reload_db, updater>>

Stop ==
    /\ ~stop /\ stop' = TRUE
    /\ UNCHANGED <<disk, requests, reload_rules, reload_db, pipe, updater>>

-----------------------------------------------------------------------------
(* The main loop, and the reconfigure thread it starts.                       *)

\* maybe_start_reconfigure_thread() does nothing while one is running, and
\* pthread_create() may fail.
TakeHup ==
    /\ ~stop /\ hup
    /\ hup' = FALSE
    /\ reconf' \in IF reconf = "idle" THEN {"parse", "idle"} ELSE {reconf}
    /\ UNCHANGED <<stop, disk, parsed, conf, reload_rules, reload_db,
                   pipe, updater>>

\* reload_configuration() parses the file, then replaces the settings one by
\* one, the list of trust backends last.
Parse ==
    /\ reconf = "parse" /\ ~stop
    /\ parsed' = disk
    /\ reconf' = "apply"
    /\ UNCHANGED <<stop, disk, hup, conf, reload_rules, reload_db, pipe,
                   updater>>

\* "Continuing with previous configuration settings": both reloads are requested
\* all the same.
ParseFailed ==
    /\ reconf = "parse" /\ ~stop
    /\ reconf' = "setrules"
    /\ UNCHANGED <<stop, disk, hup, parsed, conf, reload_rules, reload_db, pipe,
                   updater>>

\* The filter that reconfigure() reloads next is only read by loader processes
\* and by fapolicyd-cli, which load their own.
Apply ==
    /\ reconf = "apply" /\ ~stop
    /\ conf' = parsed
    /\ reconf' = "setrules"
    /\ UNCHANGED <<stop, disk, hup, parsed, reload_rules, reload_db,
                   pipe, updater>>

SetReloadRules ==
    /\ reconf = "setrules" /\ ~stop
    /\ reload_rules' = TRUE
    /\ reconf' = "settrust"
    /\ UNCHANGED <<stop, disk, hup, parsed, conf, reload_db, pipe,
                   updater>>

\* set_reload_trust_database()
SetReloadDb ==
    /\ reconf = "settrust"
    /\ reload_db' = TRUE
    /\ reconf' = "idle"
    /\ UNCHANGED <<stop, disk, hup, parsed, conf, reload_rules, pipe,
                   updater>>

\* if (stop) return;
ReconfStopped ==
    /\ reconf \in {"parse", "apply", "setrules"} /\ stop
    /\ reconf' = "idle"
    /\ UNCHANGED <<stop, disk, hup, parsed, conf, reload_rules,
                   reload_db, pipe, updater>>

Reconfigure ==
    Parse \/ ParseFailed \/ Apply \/ SetReloadRules \/ SetReloadDb
    \/ ReconfStopped

-----------------------------------------------------------------------------
(* update_thread_main().                                                      *)

Poll ==
    /\ u_pc = "poll" /\ ~stop
    /\ pollin' = (fifo # <<>>)
    /\ cycle_done' = FALSE
    /\ u_pc' = "rules"
    /\ UNCHANGED <<stop, disk, requests, reload_rules, reload_db, pipe, ret,
                   policy, rebuilt>>

TestRules ==
    /\ u_pc = "rules"
    /\ reload_rules' = FALSE
    /\ u_pc' = IF reload_rules THEN "readrules" ELSE "db"
    /\ ret' = "db"
    /\ UNCHANGED <<stop, disk, requests, reload_db, pipe, pollin, cycle_done,
                   policy, rebuilt>>

\* reload_rules_from_file()
ReadRules ==
    /\ u_pc = "readrules"
    /\ policy' = disk
    /\ u_pc' = ret
    /\ UNCHANGED <<stop, disk, requests, reload_rules, reload_db, pipe, ret,
                   pollin, cycle_done, rebuilt>>

\* begin_trust_database_reload(): the request is consumed before the sources
\* are read.  Only this thread sets reload_db_active, so it is never found set.
BeginReload(next) ==
    /\ reload_db' = FALSE
    /\ cycle_done' = TRUE
    /\ u_pc' = "rebuild"
    /\ ret' = next

\* Mutant: reload_rules is cleared after reload_rules_from_file() has returned.
TestDb_ClearRules ==
    /\ u_pc = "db"
    /\ IF reload_db THEN BeginReload("fifo")
       ELSE u_pc' = "fifo" /\ UNCHANGED <<reload_db, cycle_done, ret>>
    /\ reload_rules' = FALSE
    /\ UNCHANGED <<stop, disk, requests, pipe, pollin, policy, rebuilt>>

TestDb ==
    /\ u_pc = "db"
    /\ IF reload_db THEN BeginReload("fifo")
       ELSE u_pc' = "fifo" /\ UNCHANGED <<reload_db, cycle_done, ret>>
    /\ UNCHANGED <<stop, disk, requests, reload_rules, pipe, pollin, policy,
                   rebuilt>>

\* backend_init() reads the list of backends from the configuration, and then
\* backend_load() the trust sources, for a reload and for a compaction.
BackendInit ==
    /\ u_pc = "rebuild"
    /\ rebuilt' = [rebuilt EXCEPT !.conf = conf]
    /\ u_pc' = "load"
    /\ UNCHANGED <<stop, disk, requests, reload_rules, reload_db, pipe, ret,
                   pollin, cycle_done, policy>>

\* Mutant: the request is consumed when the reload is finished.
BackendLoad_ClearAfter ==
    /\ u_pc = "load"
    /\ rebuilt' = [rebuilt EXCEPT !.version = disk]
    /\ reload_db' = FALSE
    /\ u_pc' = ret
    /\ UNCHANGED <<stop, disk, requests, reload_rules, pipe, ret, pollin,
                   cycle_done, policy>>

BackendLoad ==
    /\ u_pc = "load"
    /\ rebuilt' = [rebuilt EXCEPT !.version = disk]
    /\ u_pc' = ret
    /\ UNCHANGED <<stop, disk, requests, reload_rules, reload_db, pipe, ret,
                   pollin, cycle_done, policy>>

\* The environment cannot be resized, or backend_init() fails: the attempt counts
\* for what was on disk and in force, and is not repeated.
ReloadFailed ==
    /\ u_pc = "rebuild"
    /\ rebuilt' = [version |-> disk, conf |-> conf]
    /\ u_pc' = ret
    /\ UNCHANGED <<stop, disk, requests, reload_rules, reload_db, pipe, ret,
                   pollin, cycle_done, policy>>

\* poll() timed out, or the FIFO has been read to its end.
EndCycle ==
    /\ u_pc = "fifo" /\ (~pollin \/ fifo = <<>>)
    /\ u_pc' = "poll"
    /\ UNCHANGED <<stop, disk, requests, reload_rules, reload_db, pipe, ret,
                   pollin, cycle_done, policy, rebuilt>>

NextCommand(op) ==
    /\ u_pc = "fifo" /\ ~stop /\ pollin /\ fifo # <<>>
    /\ Head(fifo).op = op
    /\ fifo' = Tail(fifo) /\ sent' = sent

\* "reload already handled in this update cycle"
FifoReloadDropped ==
    /\ NextCommand("reload") /\ cycle_done
    /\ UNCHANGED <<stop, disk, requests, reload_rules, reload_db, updater>>

FifoReload ==
    /\ NextCommand("reload") /\ ~cycle_done
    /\ BeginReload("fifo")
    /\ UNCHANGED <<stop, disk, requests, reload_rules, pollin, policy,
                   rebuilt>>

\* Mutant: rule reloads are coalesced like trust database reloads.
FifoRules_OncePerCycle ==
    /\ NextCommand("rules")
    /\ IF cycle_done THEN UNCHANGED <<u_pc, ret>>
       ELSE u_pc' = "readrules" /\ ret' = "fifo"
    /\ UNCHANGED <<stop, disk, requests, reload_rules, reload_db, pollin,
                   cycle_done, policy, rebuilt>>

FifoRules ==
    /\ NextCommand("rules")
    /\ u_pc' = "readrules" /\ ret' = "fifo"
    /\ UNCHANGED <<stop, disk, requests, reload_rules, reload_db, pollin,
                   cycle_done, policy, rebuilt>>

FifoCompact ==
    /\ NextCommand("compact")
    /\ u_pc' = "rebuild" /\ ret' = "fifo"
    /\ UNCHANGED <<stop, disk, requests, reload_rules, reload_db, pollin,
                   cycle_done, policy, rebuilt>>

\* A cache flush, the record of one file, or a line it cannot handle.
FifoOther ==
    /\ NextCommand("other")
    /\ UNCHANGED <<stop, disk, requests, reload_rules, reload_db, updater>>

UpdateExit ==
    /\ stop /\ u_pc \in {"poll", "fifo"}
    /\ u_pc' = "exited"
    /\ UNCHANGED <<stop, disk, requests, reload_rules, reload_db, pipe, ret,
                   pollin, cycle_done, policy, rebuilt>>

Update ==
    \/ Poll \/ TestRules \/ ReadRules \/ TestDb \/ BackendInit \/ BackendLoad
    \/ ReloadFailed \/ EndCycle
    \/ FifoReloadDropped \/ FifoReload \/ FifoRules \/ FifoCompact \/ FifoOther
    \/ UpdateExit

-----------------------------------------------------------------------------
Next ==
    \/ Edit \/ Sighup \/ (\E op \in Commands : Send(op)) \/ Stop
    \/ TakeHup \/ Reconfigure \/ Update

Spec == Init /\ [][Next]_vars

\* The main loop sees hup (a signalfd wakes it), the reconfigure thread runs to
\* its end, and the update thread polls at least once a second.
Fairness == WF_vars(TakeHup) /\ WF_vars(Reconfigure) /\ WF_vars(Update)

FairSpec == Spec /\ Fairness

-----------------------------------------------------------------------------
TypeOK ==
    /\ stop \in BOOLEAN /\ hup \in BOOLEAN
    /\ disk \in Versions /\ conf \in Versions
    /\ reconf \in {"idle", "parse", "apply", "setrules", "settrust"}
    /\ parsed \in Versions
    /\ reload_rules \in BOOLEAN /\ reload_db \in BOOLEAN
    /\ fifo \in Seq(Command) /\ sent \in 0 .. MaxCommands /\ Len(fifo) <= sent
    /\ u_pc \in {"poll", "rules", "readrules", "db", "rebuild", "load", "fifo",
                "exited"}
    /\ ret \in {"poll", "db", "fifo"}
    /\ pollin \in BOOLEAN /\ cycle_done \in BOOLEAN
    /\ policy \in Versions
    /\ rebuilt \in [version : Versions, conf : Versions]

\* "a SIGHUP that changes backend configuration cannot be hidden by an earlier
\* rebuild": as long as the trust database was not rebuilt under the current
\* configuration, a request for it is pending, about to be made, or being
\* served by a rebuild that has not read its sources yet.
TrustReloadPending ==
    rebuilt.conf < conf /\ ~stop =>
        reload_db \/ reconf \in {"setrules", "settrust"} \/ u_pc = "rebuild"

\* The same for the rule file, whose reload consumes its flag without a marker.
RuleReloadPending ==
    policy < conf /\ ~stop =>
        reload_rules \/ reconf = "setrules" \/ u_pc = "readrules"

\* Every configuration that SIGHUP makes the daemon read reaches the trust
\* database and the rules, unless the daemon stops.
ReconfigurationServed ==
    \A v \in Versions :
        (conf >= v) ~> (rebuilt.conf >= v /\ policy >= v) \/ stop

\* A command to reload the rules, once written to the FIFO, is never skipped.
FifoRulesServed ==
    \A v \in Versions :
        (\E i \in DOMAIN fifo : fifo[i] = [op |-> "rules", version |-> v])
            ~> (policy >= v \/ stop)

\* "RELOAD_TRUSTDB_COMMAND requests are coalesced. If a reload arrives while one
\* is active, one follow-up request stays pending": the trust sources a FIFO
\* reload command announces are read by a rebuild.
FifoReloadServed ==
    \A v \in Versions :
        (\E i \in DOMAIN fifo : fifo[i] = [op |-> "reload", version |-> v])
            ~> (rebuilt.version >= v \/ stop)

=============================================================================
