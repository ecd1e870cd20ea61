----------------------------- MODULE MCServices ------------------------------
(* The components around the queue, the workers, the update thread and the    *)
(* trust database, each on an instance of its own: a behaviour is one of      *)
(* the component that the variable which names, the variables of the others   *)
(* being 0.  The pure algorithms have their inputs in the variable input.     *)
EXTENDS MCInputs

VARIABLES
    which,      \* the component
    input,      \* the input of a pure algorithm
    auto, z_active, highwater, map, db_max_size, autosize_reload_floor_mb, compaction, before,
    inspected, z_pc,
    tree, inserted,
    q,
    ff, snap, active, old, configs, worker, reporter, counters, decided,
    subject, proc,
    mode, timing_armed, requests, stop_reason, queue_depth_active, saved, queue, max_depth,
    peak, rearmed, tls, blocks, report, signals, reloads, events,
    trust, backends, memfd, content, lost, open, replaced, pc, at, remaining, loader, stop, b_reloads,
    files, disk, last, t_steps, faults,
    x_input, blen, mem_type, left, buffer, start, eof, out, line,
    file, config, published, new_config, reload, state, pool, began, accepted, kept,
    table, past, event, m, marks, ignored, mounts_running, m_state, m_at, seen, failed,
    now, queued_ns, q_next, q_last, queue_length, w_pc, heartbeat_ns, current_event_started_ns,
    m_pc, m_now, view, todo, healthy, pinged, killed, reality,
    log_state, log_ring, log_sem, log_dropped, destroyed, l_pc, slot, s_pc, t_pc, t_msg, sent,
    queued, written, direct, told, misused

autosize_vars == <<auto, z_active, highwater, map, db_max_size, autosize_reload_floor_mb,
        compaction, before, inspected, z_pc>>
avl_vars == <<tree, inserted>>
lru_vars == <<q>>
policy_vars == <<ff, snap, active, old, configs, worker, reporter, counters, decided>>
events_vars == <<subject, proc>>
timing_vars == <<mode, timing_armed, requests, stop_reason, queue_depth_active, saved, queue,
        max_depth, peak, rearmed, tls, blocks, report, signals, reloads, events>>
backends_vars == <<trust, backends, memfd, content, lost, open, replaced, pc, at, remaining, loader,
        stop, b_reloads>>
trustfile_vars == <<files, disk, last, t_steps, faults>>
text_vars == <<x_input, blen, mem_type, left, buffer, start, eof, out, line>>
config_vars == <<file, config, published, new_config, reload, state, pool, began, accepted,
        kept>>
mounts_vars == <<table, past, event, m, marks, ignored, mounts_running, m_state, m_at, seen,
        failed>>
health_vars == <<now, queued_ns, q_next, q_last, queue_length, w_pc, heartbeat_ns,
        current_event_started_ns, m_pc, m_now, view, todo, healthy, pinged, killed, reality>>
logger_vars == <<log_state, log_ring, log_sem, log_dropped, destroyed, l_pc, slot, s_pc, t_pc,
        t_msg, sent, queued, written, direct, told, misused>>

-----------------------------------------------------------------------------
(* The instances.                                                             *)

Z == INSTANCE Autosize WITH
    PagesPerMb <- 4, UINT_MAX <- 60, ActivePages <- {0, 3, 7, 20, 60}, Pinned <- {0, 30},
    Baselines <- {1, 20, 40}, active <- z_active, pc <- z_pc
V == INSTANCE Avl WITH
    Items <- 1 .. 8
U == INSTANCE Lru WITH
    total <- 4
P == INSTANCE Policy WITH
    Workers <- {"w1", "w2"}, MaxGenerations <- 2, MaxDecisions <- 2
E == INSTANCE Events WITH
    Procs <- {"p1", "p2"}, Bystanders <- {"p2"}, Refusals <- FALSE
D == INSTANCE DecisionTiming WITH
    Workers <- {1}, ULLONG_MAX <- 3, MaxSignals <- 3, MaxReloads <- 2, MaxEvents <- 3, q_size <-
    2
B == INSTANCE Backends WITH
    TrustLists <- TrustLists, Packages <- PackageDatabases, TrustFiles <- {"t"}, Intervals <- 2,
    rpm_sha256_only <- TRUE, MaxReloads <- 2, reloads <- b_reloads
T == INSTANCE TrustFile WITH
    Fragments <- {"d1"}, Names <- {Quoted, Blank, Beside}, Measures <- {Ten, Twenty}, Allowed <-
    {Quoted, Blank}, Initial <- InitialTrust, Disks <- Disks,
    Cuts <- WriteCuts, MaxSteps <- 2, MaxFaults <- 1, steps <- t_steps
X == INSTANCE Text WITH
    Inputs <- TextFiles, BuffSize <- 5, Lengths <- {4, 7}, MAX_SIZE <- 12, input <- x_input
C == INSTANCE DaemonConfig WITH
    StartFiles <- StartFiles, Files <- ConfigFiles, Hosts <- Machines, Options <- {{},
    {"--no-details", "--permissive"}}, Users <- [fapolicyd |-> [uid |-> 3, gid |-> 4]], Groups
    <- [audio |-> 6], UINT_MAX <- 60000, UINT64_MAX <- 2000000, DECISION_THREADS_MAX <- 32,
    MAINTENANCE_READERS <- 8, MIN_NOFILE <- 16384, FD_RESERVE <- 64, DECISION_DEFER_RATIO <- 16,
    DECISION_DEFER_MIN <- 16, WORKER_FIXED_OVERHEAD <- 16, NODE <- 1, ENTRY <- 1,
    DEFAULT_DB_SIZE <- 100, MaxReloads <- 2
M == INSTANCE Mounts WITH
    Points <- {"/", "/a", "/b", "/sys/c"}, SysPoints <- {"/sys/c"}, Types <- {"ext4", "nfs"},
    watch_fs <- {"ext4"}, ignore_mounts <- {"/a"}, Stacked <- FALSE, Unmounts <- TRUE, MaxMounts
    <- 3, state <- m_state, at <- m_at
H == INSTANCE WorkerHealth WITH
    Workers <- {"w1"}, num_entries <- 2, Timeout <- 2, BACKLOG <- 1, MaxTime <- 3
L == INSTANCE Logger WITH
    Threads <- {"t1", "t2"}, LOG_QUEUE_DEPTH <- 2, MaxMessages <- 4

-----------------------------------------------------------------------------
Idle_autosize == auto = 0 /\ z_active = 0 /\ highwater = 0 /\ map = 0 /\ db_max_size = 0 /\
        autosize_reload_floor_mb = 0 /\ compaction = 0 /\ before = 0 /\
        inspected = 0 /\ z_pc = 0
Idle_avl == tree = 0 /\ inserted = 0
Idle_lru == q = 0
Idle_policy == ff = 0 /\ snap = 0 /\ active = 0 /\ old = 0 /\ configs = 0 /\ worker = 0 /\
        reporter = 0 /\ counters = 0 /\ decided = 0
Idle_events == subject = 0 /\ proc = 0
Idle_timing == mode = 0 /\ timing_armed = 0 /\ requests = 0 /\ stop_reason = 0 /\
        queue_depth_active = 0 /\ saved = 0 /\ queue = 0 /\ max_depth = 0 /\ peak = 0 /\ rearmed = 0
        /\ tls = 0 /\ blocks = 0 /\ report = 0 /\ signals = 0 /\ reloads = 0 /\ events = 0
Idle_backends == trust = 0 /\ backends = 0 /\ memfd = 0 /\ content = 0 /\ lost = 0 /\ open = 0
        /\ replaced = 0 /\ pc = 0 /\ at = 0 /\ remaining = 0 /\ loader = 0 /\ stop = 0 /\ b_reloads = 0
Idle_trustfile == files = 0 /\ disk = 0 /\ last = 0 /\ t_steps = 0 /\ faults = 0
Idle_text == x_input = 0 /\ blen = 0 /\ mem_type = 0 /\ left = 0 /\ buffer = 0 /\ start = 0 /\ eof = 0 /\
        out = 0 /\ line = 0
Idle_config == file = 0 /\ config = 0 /\ published = 0 /\ new_config = 0 /\ reload = 0 /\ state
        = 0 /\ pool = 0 /\ began = 0 /\ accepted = 0 /\ kept = 0
Idle_mounts == table = 0 /\ past = 0 /\ event = 0 /\ m = 0 /\ marks = 0 /\ ignored = 0 /\
        mounts_running = 0 /\ m_state = 0 /\ m_at = 0 /\ seen = 0 /\ failed = 0
Idle_health == now = 0 /\ queued_ns = 0 /\ q_next = 0 /\ q_last = 0 /\ queue_length = 0 /\ w_pc
        = 0 /\ heartbeat_ns = 0 /\ current_event_started_ns = 0 /\ m_pc = 0 /\ m_now = 0 /\ view
        = 0 /\ todo = 0 /\ healthy = 0 /\ pinged = 0 /\ killed = 0 /\ reality = 0
Idle_logger == log_state = 0 /\ log_ring = 0 /\ log_sem = 0 /\ log_dropped = 0 /\ destroyed = 0
        /\ l_pc = 0 /\ slot = 0 /\ s_pc = 0 /\ t_pc = 0 /\ t_msg = 0 /\ sent = 0 /\ queued = 0
        /\ written = 0 /\ direct = 0 /\ told = 0 /\ misused = 0

\* All components but c are idle.
Rest_idle(c) ==
    /\ IF c = "autosize" THEN TRUE ELSE Idle_autosize
    /\ IF c = "avl" THEN TRUE ELSE Idle_avl
    /\ IF c = "lru" THEN TRUE ELSE Idle_lru
    /\ IF c = "policy" THEN TRUE ELSE Idle_policy
    /\ IF c = "events" THEN TRUE ELSE Idle_events
    /\ IF c = "timing" THEN TRUE ELSE Idle_timing
    /\ IF c = "backends" THEN TRUE ELSE Idle_backends
    /\ IF c = "trustfile" THEN TRUE ELSE Idle_trustfile
    /\ IF c = "text" THEN TRUE ELSE Idle_text
    /\ IF c = "config" THEN TRUE ELSE Idle_config
    /\ IF c = "mounts" THEN TRUE ELSE Idle_mounts
    /\ IF c = "health" THEN TRUE ELSE Idle_health
    /\ IF c = "logger" THEN TRUE ELSE Idle_logger

\* The component that takes a step is c.
Only(c) ==
    /\ UNCHANGED <<which, input>>
    /\ c = "autosize" \/ UNCHANGED autosize_vars
    /\ c = "avl" \/ UNCHANGED avl_vars
    /\ c = "lru" \/ UNCHANGED lru_vars
    /\ c = "policy" \/ UNCHANGED policy_vars
    /\ c = "events" \/ UNCHANGED events_vars
    /\ c = "timing" \/ UNCHANGED timing_vars
    /\ c = "backends" \/ UNCHANGED backends_vars
    /\ c = "trustfile" \/ UNCHANGED trustfile_vars
    /\ c = "text" \/ UNCHANGED text_vars
    /\ c = "config" \/ UNCHANGED config_vars
    /\ c = "mounts" \/ UNCHANGED mounts_vars
    /\ c = "health" \/ UNCHANGED health_vars
    /\ c = "logger" \/ UNCHANGED logger_vars

Algorithm(name, inputs) == which = name /\ input \in inputs /\ Rest_idle(name)

Init ==
    \/ which = "autosize" /\ Z!Init /\ input = 0 /\ Rest_idle(which)
    \/ which = "avl" /\ V!Init /\ input = 0 /\ Rest_idle(which)
    \/ which = "lru" /\ U!Init /\ input = 0 /\ Rest_idle(which)
    \/ which = "policy" /\ P!Init /\ input = 0 /\ Rest_idle(which)
    \/ which = "events" /\ E!Init /\ input = 0 /\ Rest_idle(which)
    \/ which = "timing" /\ D!Init /\ input = 0 /\ Rest_idle(which)
    \/ which = "backends" /\ B!Init /\ input = 0 /\ Rest_idle(which)
    \/ which = "trustfile" /\ T!Init /\ input = 0 /\ Rest_idle(which)
    \/ which = "text" /\ X!fd_setvbuf_r /\ input = 0 /\ Rest_idle(which)
    \/ which = "config" /\ C!Init /\ input = 0 /\ Rest_idle(which)
    \/ which = "mounts" /\ M!Init /\ input = 0 /\ Rest_idle(which)
    \/ which = "health" /\ H!Init /\ input = 0 /\ Rest_idle(which)
    \/ which = "logger" /\ L!Init /\ input = 0 /\ Rest_idle(which)
    \/ Algorithm("rules", Policies)
    \/ Algorithm("filter", FilterInputs)
    \/ Algorithm("timing report", TimingRuns)
    \/ Algorithm("trust lookup", Lookups)
    \/ Algorithm("copy check", Copies)
    \/ Algorithm("trust line", TrustedPaths)
    \/ Algorithm("escape", Strings)

Next ==
    \/ which = "autosize" /\ Z!Next /\ Only("autosize")
    \/ which = "avl" /\ V!Next /\ Only("avl")
    \/ which = "lru" /\ U!Next /\ Only("lru")
    \/ which = "policy" /\ P!Next /\ Only("policy")
    \/ which = "events" /\ E!Next /\ Only("events")
    \/ which = "timing" /\ D!Next /\ Only("timing")
    \/ which = "backends" /\ B!Next /\ Only("backends")
    \/ which = "trustfile" /\ T!Next /\ Only("trustfile")
    \/ which = "text" /\ X!fgets_Next /\ Only("text")
    \/ which = "config" /\ C!Next /\ Only("config")
    \/ which = "mounts" /\ M!Next /\ Only("mounts")
    \/ which = "health" /\ H!Next /\ Only("health")
    \/ which = "logger" /\ L!Next /\ Only("logger")

vars == <<which, input, autosize_vars, avl_vars, lru_vars, policy_vars, events_vars,
          timing_vars, backends_vars, trustfile_vars, text_vars, config_vars, mounts_vars,
          health_vars, logger_vars>>

Spec == Init /\ [][Next]_vars

-----------------------------------------------------------------------------
(* The properties, which the modules of the components state and explain.     *)

\* The index trees and the caches keep their structure through every sequence of
\* calls: a tree holds exactly the inserted items, sorted and balanced, and the
\* hash table, list and free list of a cache describe the same nodes, so that no
\* abort() of lru.c is met.
StructuresSound ==
    /\ which = "avl" => V!SortedSet
    /\ which = "lru" => U!HashMatchesList

\* After a preflight of autosize_reload_preflight() that could inspect the database
\* the map has room for the active generation and a candidate of the same size.
RoomForReload == which = "autosize" => Z!RoomForReload

\* A reload that meets MDB_MAP_FULL retries in a map that is no smaller, and larger
\* unless grow_map_after_full() had nothing to go by but a configured size below
\* it; a reload that waits for a loader ends after a bounded number of steps
\* whatever the loader does.
ReloadRetries ==
    [][/\ which = "autosize" /\ z_pc = "import" /\ z_pc' = "retry" /\ map < 60 =>
             map' >= map /\ (inspected' \/ db_max_size = map => map' > map)
       /\ which = "backends" /\ pc # "idle" /\ B!Daemon => B!StepsLeft' < B!StepsLeft]_vars

\* A policy is freed exactly when nobody refers to it, and an event is built,
\* decided and answered by the one policy and the one configuration it pinned.
PolicyPinned == which = "policy" => P!FreedExactlyWhenUnused /\ P!OneGenerationPerDecision

\* Reports that reset rule hits and decision counters while workers decide lose
\* nothing and count nothing twice.
NothingUncounted == which = "policy" => P!NothingUncounted

\* A program whose events were all seen and tested by a pattern rule is classified
\* as what it is by its second open at the latest, and no attribute read from /proc
\* during its execve() survives the classification.
SubjectsClassified == which = "events" => E!CurrentProgram /\ E!StartupClassified

\* Each timing run gives the queue its high-water mark back, however it ended, and
\* the buckets of the report add up to its count.
TimingHonest == which = "timing" => D!HighWaterKept /\ D!ReportAddsUp

\* The report of a timing run is a true and consistent account of its samples.
TimingReportTrue == which = "timing report" => ReportTrue(input)

\* The verdict of the trust filter is that of its rules read from top to bottom,
\* as long as wildcards with children stand directly below "/".
FilterDecides ==
    which = "filter" /\ F!WildcardsAtTop(input.rules) => F!FilterDecides(input.rules, input.path)

\* A policy that the linter passes decides every execution, and never lets the
\* rule that opens everything decide on a file of a language.
LintedPolicyDecides == which = "rules" => R!LintedPolicyDecides(input, Accesses)

\* Unless the lookup fails, a file is trusted exactly when a record vouches for it
\* (with IMA, for the content of the file only the first record that counts); the
\* copy check accepts exactly the databases that hold the back-ends' records; and a
\* line of a back-end is read back as the record it was written from.
TrustAnswersExact ==
    /\ which = "trust lookup" =>
          TL!TrustedAsRecorded(input.records, input.alias, input.file, input.conf)
    /\ which = "copy check" => TL!CopyCheckExact(input.backends, input.db)
    /\ which = "trust line" => TL!LineRoundTrip(input, <<1, 2, 3>>)

\* Only complete snapshots of the back-ends are imported, and every snapshot that a
\* back-end refers to is released when the reload ends, whatever step of it failed.
SnapshotsSound == which = "backends" => B!OnlyCompleteImported /\ B!SnapshotsReleased


\* fd_fgets_r() hands out every byte of a file once, in lines, and an escaped
\* string is decoded to the string it was made from.
TextFaithful ==
    /\ which = "text" => X!ReaderComplete
    /\ which = "escape" => X!EscapeInverse(input)

\* A reload takes over exactly the settings that may change while the daemon runs,
\* from a file that is accepted as a whole, and the workers fit the limits of the
\* host that they were validated against.
ConfigSound == which = "config" => C!LiveSettings /\ C!WorkersFit

\* The marks are those the last mount table that was read calls for.
MarksFollowTable == which = "mounts" => M!MarksFollowTable

\* The monitor kills the daemon only for a worker that is stalled, and refreshes
\* the watchdog only when none is.
HealthJudgesRight == which = "health" => H!KilledOnlyWhenStalled /\ H!StallNoticed

\* What msg() accepted is written once and in order, through start and stop of the
\* drain thread, and what was dropped is reported.
LogComplete == which = "logger" => L!LogComplete

=============================================================================
