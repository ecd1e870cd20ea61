---------------------------- MODULE DaemonConfig ----------------------------
(* library/daemon-config.c, and the parts of daemon/fapolicyd.c that start the *)
(* daemon with a configuration and replace it on SIGHUP.                       *)
(*                                                                             *)
(* A word of the file is [text, number], number being NotDigits unless the     *)
(* text is made of digits only.  A line is [long, words]: long when it does    *)
(* not fit the buffer.  A word that starts a comment has the text "#".         *)
EXTENDS Integers, Sequences, SequencesExt

CONSTANTS
    StartFiles, Files,  \* contents the file may have, first and later
    Hosts,          \* machines: [cpus, nofile, physical, as, ima, fails]
    Options,        \* sets of command line options the daemon may be started with
    Users, Groups,  \* what getpwnam and getgrnam know
    UINT_MAX, UINT64_MAX,
    DECISION_THREADS_MAX, MAINTENANCE_READERS, MIN_NOFILE, FD_RESERVE,
    DECISION_DEFER_RATIO, DECISION_DEFER_MIN, WORKER_FIXED_OVERHEAD,
    NODE, ENTRY,    \* sizes of a cache slot, and of a queued or deferred event
    DEFAULT_DB_SIZE, MaxReloads

VARIABLES
    file,           \* the file on disk
    config,         \* the daemon's configuration
    published,      \* decision configurations, the newest last
    new_config,     \* what the reload in progress has parsed
    reload,         \* "idle", "publish" or "apply"
    state,          \* "start", "running" or "exited"
    pool,           \* what the workers were created from
    began, accepted,\* history: file and options at the start, last accepted file
    kept            \* history: settings the last reload had no memory to replace

dc_vars == <<file, config, published, new_config, reload, state, pool, began, accepted, kept>>

NotDigits == -1
None == [text |-> "", number |-> NotDigits]
Digits(v) == v.number # NotDigits

-----------------------------------------------------------------------------
(* Parsers: what is left of the configuration, and whether the value is good. *)

Stored(c, field, value) == [rc |-> 0, config |-> [c EXCEPT ![field] = value]]
Refused(c) == [rc |-> 1, config |-> c]

uintmax_parser(v, max) == Digits(v) /\ v.number <= max

unsigned_int_parser(c, field, v) ==
    IF uintmax_parser(v, UINT_MAX) THEN Stored(c, field, v.number) ELSE Refused(c)

\* A number above most is replaced.
Limited(c, field, v, most, instead) ==
    IF uintmax_parser(v, UINT_MAX) /\ v.number > most
    THEN Stored(c, field, instead) ELSE unsigned_int_parser(c, field, v)

permissive_parser(c, v) == Limited(c, "permissive", v, 1, 1)

nice_val_parser(c, v) ==
    IF v.number > 20 THEN Refused(c) ELSE unsigned_int_parser(c, "nice_val", v)

q_size_parser(c, v) == unsigned_int_parser(c, "q_size", v)

decision_threads_parser(c, v) ==
    IF v.number = 0 THEN Refused(c) ELSE unsigned_int_parser(c, "decision_threads", v)

\* The group of the account replaces the group, and so does a number.
uid_parser(c, v) ==
    IF Digits(v)
    THEN IF uintmax_parser(v, UINT_MAX)
         THEN [rc |-> 0, config |-> [c EXCEPT !.uid = v.number, !.gid = v.number]] ELSE Refused(c)
    ELSE IF v.text \in DOMAIN Users
         THEN [rc |-> 0, config |-> [c EXCEPT !.uid = Users[v.text].uid, !.gid = Users[v.text].gid]]
         ELSE Refused(c)

gid_parser(c, v) ==
    IF Digits(v) THEN unsigned_int_parser(c, "gid", v)
    ELSE IF v.text \in DOMAIN Groups THEN Stored(c, "gid", Groups[v.text]) ELSE Refused(c)

detailed_report_parser(c, v) == unsigned_int_parser(c, "detailed_report", v)

db_max_size_parser(c, v) ==
    IF v.text = "auto"
    THEN [rc |-> 0, config |-> [c EXCEPT !.db_max_size = DEFAULT_DB_SIZE, !.do_auto_db_sizing = TRUE]]
    ELSE IF uintmax_parser(v, UINT_MAX)
         THEN [rc |-> 0, config |-> [c EXCEPT !.db_max_size = v.number, !.do_auto_db_sizing = FALSE]]
    ELSE Refused(c)

subj_cache_size_parser(c, v) == unsigned_int_parser(c, "subj_cache_size", v)
obj_cache_size_parser(c, v) == unsigned_int_parser(c, "obj_cache_size", v)
do_stat_report_parser(c, v) == Limited(c, "do_stat_report", v, 2, 1)
watch_fs_parser(c, v) == Stored(c, "watch_fs", v.text)
ignore_mounts_parser(c, v) == Stored(c, "ignore_mounts", v.text)
trust_parser(c, v) == Stored(c, "trust", v.text)
syslog_format_parser(c, v) == Stored(c, "syslog_format", v.text)
rpm_sha256_only_parser(c, v) == Limited(c, "rpm_sha256_only", v, 1, 0)
fs_mark_parser(c, v) == Limited(c, "allow_filesystem_mark", v, 1, 0)
report_interval_parser(c, v) == unsigned_int_parser(c, "report_interval", v)

OneOf(c, field, v, names) == IF v.text \in names THEN Stored(c, field, v.text) ELSE Refused(c)

reset_strategy_parser(c, v) == OneOf(c, "reset_strategy", v, {"never", "auto", "manual"})
timing_collection_parser(c, v) == OneOf(c, "timing_collection", v, {"off", "manual"})

\* IMA is refused when the hash of /bin/sh cannot be read.
integrity_parser(c, v, host) ==
    IF v.text = "ima" /\ ~host.ima THEN Refused(c)
    ELSE OneOf(c, "integrity", v, {"none", "size", "ima", "sha256"})

keywords ==
    {"permissive", "nice_val", "q_size", "decision_threads", "uid", "gid", "detailed_report",
     "db_max_size", "subj_cache_size", "obj_cache_size", "do_stat_report", "watch_fs",
     "ignore_mounts", "trust", "integrity", "syslog_format", "rpm_sha256_only",
     "allow_filesystem_mark", "report_interval", "reset_strategy", "timing_collection"}

parser(name, c, v, host) ==
    CASE name = "permissive" -> permissive_parser(c, v)
      [] name = "nice_val" -> nice_val_parser(c, v)
      [] name = "q_size" -> q_size_parser(c, v)
      [] name = "decision_threads" -> decision_threads_parser(c, v)
      [] name = "uid" -> uid_parser(c, v)
      [] name = "gid" -> gid_parser(c, v)
      [] name = "detailed_report" -> detailed_report_parser(c, v)
      [] name = "db_max_size" -> db_max_size_parser(c, v)
      [] name = "subj_cache_size" -> subj_cache_size_parser(c, v)
      [] name = "obj_cache_size" -> obj_cache_size_parser(c, v)
      [] name = "do_stat_report" -> do_stat_report_parser(c, v)
      [] name = "watch_fs" -> watch_fs_parser(c, v)
      [] name = "ignore_mounts" -> ignore_mounts_parser(c, v)
      [] name = "trust" -> trust_parser(c, v)
      [] name = "integrity" -> integrity_parser(c, v, host)
      [] name = "syslog_format" -> syslog_format_parser(c, v)
      [] name = "rpm_sha256_only" -> rpm_sha256_only_parser(c, v)
      [] name = "allow_filesystem_mark" -> fs_mark_parser(c, v)
      [] name = "report_interval" -> report_interval_parser(c, v)
      [] name = "reset_strategy" -> reset_strategy_parser(c, v)
      [] name = "timing_collection" -> timing_collection_parser(c, v)

-----------------------------------------------------------------------------
(* Reading the file. *)

clear_daemon_config ==
    [permissive |-> 0, nice_val |-> 10, q_size |-> 800, decision_threads |-> 1, uid |-> 0, gid |-> 0,
     do_stat_report |-> 1, detailed_report |-> 1, db_max_size |-> DEFAULT_DB_SIZE,
     do_auto_db_sizing |-> TRUE, subj_cache_size |-> 4099, obj_cache_size |-> 8191,
     watch_fs |-> "ext4,xfs,tmpfs", ignore_mounts |-> "", trust |-> "rpmdb,file",
     integrity |-> "none", syslog_format |-> "rule", rpm_sha256_only |-> 0,
     allow_filesystem_mark |-> 0, report_interval |-> 0, reset_strategy |-> "never",
     timing_collection |-> "off"]

\* A line that does not fit the buffer is left out.
get_line(lines) == SelectSeq(lines, LAMBDA l : ~l.long)

\* name, "=", value; words after those are reported when there are two or more,
\* and the line is used all the same.
nv_split(words) ==
    IF words = <<>> \/ Head(words).text = "#" THEN [name |-> "", value |-> None]
    ELSE [name |-> Head(words).text,
          value |-> IF Len(words) >= 3 /\ words[2].text = "=" THEN words[3] ELSE None]

kw_lookup(name) == name \in keywords

\* One turn of the loop over the lines, once none has failed.
Line(parsed, words, host) ==
    LET nv == nv_split(words) IN
    IF parsed.rc # 0 \/ nv.name = "" THEN parsed
    ELSE IF nv.value = None \/ ~kw_lookup(nv.name) THEN Refused(parsed.config)
    ELSE parser(nv.name, parsed.config, nv.value, host)

-----------------------------------------------------------------------------
(* Checking that the workers fit the machine. *)

Overflow == -1

u64_add_overflow(total, value) ==
    IF total = Overflow \/ value = Overflow \/ total > UINT64_MAX - value THEN Overflow ELSE total + value

u64_mul_overflow(left, right) ==
    IF left = Overflow \/ (left # 0 /\ right > UINT64_MAX \div left) THEN Overflow ELSE left * right

daemon_config_lmdb_reader_limit(c) ==
    IF c.decision_threads > DECISION_THREADS_MAX THEN 0 ELSE c.decision_threads + MAINTENANCE_READERS

decision_defer_capacity_estimate(slots) ==
    IF slots \div DECISION_DEFER_RATIO < DECISION_DEFER_MIN
    THEN DECISION_DEFER_MIN ELSE slots \div DECISION_DEFER_RATIO

lru_memory_estimate(slots) == u64_mul_overflow(slots, NODE)

worker_memory_estimate(c) ==
    FoldLeft(u64_add_overflow, WORKER_FIXED_OVERHEAD,
             <<lru_memory_estimate(c.subj_cache_size), lru_memory_estimate(c.obj_cache_size),
               u64_mul_overflow(c.q_size, ENTRY),
               u64_mul_overflow(decision_defer_capacity_estimate(c.subj_cache_size), ENTRY)>>)

\* main() raises the limit to as much.
effective_nofile_limit(host) == IF host.nofile < MIN_NOFILE THEN MIN_NOFILE ELSE host.nofile

\* A quarter of the memory or of the address space, 0 when neither is known.
memory_budget(host) ==
    LET physical == (host.physical \div 100) * 25
        as == (host.as \div 100) * 25
    IN  IF host.as # 0 /\ (physical = 0 \/ as < physical) THEN as ELSE physical

validate_decision_threads(c, host) ==
    LET readers == daemon_config_lmdb_reader_limit(c)
        fd_needed == u64_add_overflow(u64_mul_overflow(c.q_size, c.decision_threads), FD_RESERVE)
        memory_needed == u64_mul_overflow(worker_memory_estimate(c), c.decision_threads)
    IN  /\ c.decision_threads \in 1 .. DECISION_THREADS_MAX
        /\ c.decision_threads <= host.cpus
        /\ readers \in 1 .. DECISION_THREADS_MAX + MAINTENANCE_READERS
        /\ fd_needed # Overflow /\ fd_needed <= effective_nofile_limit(host)
        /\ memory_needed # Overflow
        /\ memory_budget(host) # 0 => memory_needed <= memory_budget(host)

validate_daemon_config(c, host) == validate_decision_threads(c, host)

\* fails: the file cannot be opened, or a string cannot be stored.
load_daemon_config(lines, host) ==
    LET words == [i \in DOMAIN get_line(lines) |-> get_line(lines)[i].words]
        parsed == FoldLeft(LAMBDA r, w : Line(r, w, host), [rc |-> 0, config |-> clear_daemon_config], words)
    IN  IF ~host.fails /\ parsed.rc = 0 /\ validate_daemon_config(parsed.config, host)
        THEN parsed ELSE Refused(parsed.config)

-----------------------------------------------------------------------------
(* daemon/fapolicyd.c *)

Decisions(c) == [permissive |-> c.permissive, integrity |-> c.integrity, rpm_sha256_only |-> c.rpm_sha256_only]

Init ==
    /\ file \in StartFiles /\ config = clear_daemon_config /\ published = <<>> /\ new_config = clear_daemon_config
    /\ reload = "idle" /\ state = "start" /\ pool = clear_daemon_config
    /\ began = [file |-> <<>>, options |-> {}, host |-> CHOOSE h \in Hosts : TRUE] 
    /\ accepted = <<>> /\ kept = {}

\* main(): the file, then the options, then the decision configuration and the
\* workers.  A bad file, or a failure on the way, ends the daemon.
Started(c, options) ==
    [c EXCEPT !.permissive = IF "--permissive" \in options THEN 1 ELSE @,
              !.detailed_report = IF "--no-details" \in options THEN 0 ELSE @]

Start(host, options) ==
    LET loaded == load_daemon_config(file, host) IN
    /\ state = "start"
    /\ \/ /\ loaded.rc = 0
          /\ state' = "running" /\ config' = Started(loaded.config, options)
          /\ published' = <<Decisions(config')>> /\ pool' = config'
          /\ began' = [file |-> file, options |-> options, host |-> host] /\ accepted' = <<>>
       \/ /\ state' = "exited"
          /\ UNCHANGED <<config, published, pool, began, accepted>>
    /\ UNCHANGED <<file, new_config, reload, kept>>

\* The administrator replaces the file.
Edit(f) ==
    /\ state = "running" /\ reload = "idle" /\ Len(published) <= MaxReloads
    /\ file' = f
    /\ UNCHANGED <<config, published, new_config, reload, state, pool, began, accepted, kept>>

\* Mutant: the file is read into the daemon's configuration.
Load_InPlace(host) ==
    LET loaded == load_daemon_config(file, host) IN
    /\ state = "running" /\ reload = "idle"
    /\ config' = loaded.config
    /\ IF loaded.rc = 0 THEN new_config' = loaded.config /\ reload' = "publish"
       ELSE UNCHANGED <<new_config, reload>>
    /\ UNCHANGED <<file, published, state, pool, began, accepted, kept>>

\* reload_configuration(), in the reconfigure thread: the file is read into a
\* configuration of its own, and nothing more happens when that fails.
Load(host) ==
    LET loaded == load_daemon_config(file, host) IN
    /\ state = "running" /\ reload = "idle" /\ Len(published) <= MaxReloads
    /\ IF loaded.rc = 0 THEN new_config' = loaded.config /\ reload' = "publish"
       ELSE UNCHANGED <<new_config, reload>>
    /\ UNCHANGED <<file, config, published, state, pool, began, accepted, kept>>

\* decision_config_publish(), or no memory for it.
Publish ==
    /\ reload = "publish"
    /\ \/ /\ published' = Append(published, Decisions(new_config)) /\ reload' = "apply"
          /\ accepted' = <<file>> /\ UNCHANGED new_config
       \/ reload' = "idle" /\ new_config' = clear_daemon_config /\ UNCHANGED <<published, accepted>>
    /\ UNCHANGED <<file, config, state, pool, began, kept>>

\* The settings the running daemon can change.  There may be no memory for the
\* two strings, which then stay as they are.
LiveFields ==
    {"permissive", "nice_val", "do_stat_report", "detailed_report", "reset_strategy",
     "timing_collection", "integrity", "syslog_format", "rpm_sha256_only", "trust"}

Applied(without) ==
    [f \in DOMAIN config |-> IF f \in LiveFields \ without THEN new_config[f] ELSE config[f]]

Apply(without) ==
    /\ reload = "apply" /\ reload' = "idle"
    /\ config' = Applied(without) /\ kept' = without /\ new_config' = clear_daemon_config
    /\ UNCHANGED <<file, published, state, pool, began, accepted>>

Next ==
    \/ \E host \in Hosts : Load(host) \/ \E options \in Options : Start(host, options)
    \/ \E f \in Files : Edit(f)
    \/ Publish
    \/ \E without \in SUBSET {"syslog_format", "trust"} : Apply(without)

Spec == Init /\ [][Next]_dc_vars

-----------------------------------------------------------------------------
(* What a file says, line by line. *)

Good(line) ==
    LET nv == nv_split(line.words) IN
    ~line.long /\ nv.name # "" => /\ nv.value # None /\ nv.name \in keywords
                                  /\ \E host \in Hosts : parser(nv.name, clear_daemon_config, nv.value, host).rc = 0

Sets(name) == CASE name = "uid" -> {"uid", "gid"}
                [] name = "db_max_size" -> {"db_max_size", "do_auto_db_sizing"}
                [] OTHER -> {name}

\* The last line that sets a field decides.
Meaning(lines) ==
    [f \in DOMAIN clear_daemon_config |->
        LET setters == SelectSeq(lines, LAMBDA l : ~l.long /\ f \in Sets(nv_split(l.words).name))
            nv == nv_split(Last(setters).words)
            host == [(CHOOSE h \in Hosts : TRUE) EXCEPT !.ima = TRUE]
        IN  IF setters = <<>> THEN clear_daemon_config[f]
            ELSE parser(nv.name, clear_daemon_config, nv.value, host).config[f]]

\* Between reloads the daemon runs with what it was started with, the settings
\* that can change replaced by those of the last file that was accepted as a
\* whole: a file with one bad line, or one whose workers would not fit, changes
\* nothing, neither here nor for the decisions, which always go by the same
\* values as the configuration.
LiveSettings ==
    state = "running" /\ reload = "idle" =>
        LET first == Started(Meaning(began.file), began.options) IN
        /\ \A f \in DOMAIN config \ LiveFields : config[f] = first[f]
        /\ accepted = <<>> => config = first
        /\ accepted # <<>> => /\ \A i \in DOMAIN accepted[1] : Good(accepted[1][i])
                              /\ \A f \in LiveFields \ kept : config[f] = Meaning(accepted[1])[f]
        /\ Last(published) = Decisions(config)

\* The queues, caches and deferred events of all the workers that were created
\* fit the descriptors and the memory of the machine, computed without overflow,
\* and the configuration keeps describing them.
WorkersFit ==
    state = "running" =>
        LET n == config.decision_threads
            defer == decision_defer_capacity_estimate(config.subj_cache_size)
        IN  /\ n <= began.host.cpus
            /\ n * config.q_size + FD_RESERVE <= effective_nofile_limit(began.host)
            /\ memory_budget(began.host) # 0 =>
                   n * (WORKER_FIXED_OVERHEAD + NODE * (config.subj_cache_size + config.obj_cache_size)
                            + ENTRY * (config.q_size + defer)) <= memory_budget(began.host)
            /\ \A f \in {"q_size", "decision_threads", "subj_cache_size", "obj_cache_size"} : config[f] = pool[f]

=============================================================================
