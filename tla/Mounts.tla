------------------------------- MODULE Mounts -------------------------------
(* The mount points the daemon watches: the lists made at startup, the thread *)
(* of daemon/fapolicyd.c that follows changes of /proc/mounts, the list of    *)
(* daemon/mounts.c and the fanotify marks of daemon/notify.c (on mounts).     *)
EXTENDS Integers, Sequences, FiniteSets, SequencesExt

CONSTANTS
    Points,         \* mount points; "/" is always mounted
    SysPoints,      \* those below /sys/
    Types,          \* file system types
    watch_fs, ignore_mounts,    \* settings: sets of types and of points
    Stacked,        \* may a point be mounted over, or again?
    Unmounts,       \* may a mount go away?
    MaxMounts

VARIABLES
    table,          \* /proc/mounts: [id, point, type, noexec], in order
    past,           \* every mount there ever was
    event,          \* does poll report a change of the table?
    m,              \* the list: [path, status]
    marks,          \* ids of the marked mounts
    ignored,        \* ignored_mounts
    mounts_running, \* is the mounts thread running?
    state,          \* "start", "listed", "running", "exited"
    at,             \* the thread: "idle", "read", or the node to update
    seen,           \* history: the table of the last list that was read
    failed          \* history: mounts that could not be marked

mt_vars == <<table, past, event, m, marks, ignored, mounts_running, state, at, seen, failed>>

Root == [id |-> 0, point |-> "/", type |-> "ext4", noexec |-> FALSE]
Idle == -1
Reading == 0
Ids(t) == {t[i].id : i \in DOMAIN t}
Paths(l) == {l[i].path : i \in DOMAIN l}

\* The mount a path resolves to: the last one on it, or the one below it.
Top(path) ==
    LET on == SelectSeq(table, LAMBDA e : e.point = path) IN IF on = <<>> THEN Root ELSE Last(on)

-----------------------------------------------------------------------------
(* Startup *)

\* The first entry of the table for the point decides.
check_ignore_mount_noexec(point) ==
    LET on == SelectSeq(table, LAMBDA e : e.point = point) IN on # <<>> /\ Head(on).noexec

init_ignore_mounts == {p \in ignore_mounts : check_ignore_mount_noexec(p)}

Init ==
    /\ \E rest \in {<<>>} \cup {<<[id |-> 1, point |-> p, type |-> t, noexec |-> n]>> :
                                   p \in Points \ {"/"}, t \in Types, n \in BOOLEAN} :
           table = <<Root>> \o rest
    /\ past = ToSet(table)
    /\ event = FALSE /\ m = <<>> /\ marks = {} /\ ignored = init_ignore_mounts
    /\ mounts_running = FALSE /\ state = "start" /\ at = Idle /\ seen = <<>> /\ failed = {}

mount_is_ignored(point) == point \in ignored

check_mount_entry(e) == ~mount_is_ignored(e.point) /\ e.point \notin SysPoints /\ e.type \in watch_fs

read_mount_list ==
    LET wanted == SelectSeq(table, check_mount_entry)
    IN  [i \in DOMAIN wanted |-> [path |-> wanted[i].point, status |-> "add"]]

\* handle_mounts() before there is a fanotify group: the list is all it makes.
FirstList ==
    /\ state = "start"
    /\ \/ m' = read_mount_list /\ seen' = table /\ state' = "listed"
       \/ state' = "exited" /\ UNCHANGED <<m, seen>>
    /\ UNCHANGED <<table, past, event, marks, ignored, mounts_running, at, failed>>

\* A mark that fails ends the daemon.
init_fanotify ==
    /\ state = "listed"
    /\ \/ marks' = {Top(p).id : p \in Paths(m)} /\ state' = "running"
       \/ m # <<>> /\ state' = "exited" /\ UNCHANGED marks
    /\ UNCHANGED <<table, past, event, m, ignored, mounts_running, at, seen, failed>>

-----------------------------------------------------------------------------
(* The system mounts and unmounts; the kernel drops the marks of a mount that *)
(* goes away.                                                                 *)

Mount(p, t, n) ==
    LET e == [id |-> Cardinality(past), point |-> p, type |-> t, noexec |-> n] IN
    /\ state # "exited" /\ Cardinality(past) < MaxMounts
    /\ Stacked \/ \A o \in past : o.point # p
    /\ table' = Append(table, e) /\ past' = past \cup {e} /\ event' = TRUE
    /\ UNCHANGED <<m, marks, ignored, mounts_running, state, at, seen, failed>>

Umount(e) ==
    /\ Unmounts /\ state # "exited" /\ e # Root /\ Top(e.point) = e
    /\ table' = SelectSeq(table, LAMBDA o : o # e) /\ marks' = marks \ {e.id} /\ event' = TRUE
    /\ UNCHANGED <<past, m, ignored, mounts_running, state, at, seen, failed>>

-----------------------------------------------------------------------------
(* The main loop and the thread. *)

\* maybe_start_mounts_thread(): poll() reports a change once, also while the
\* thread runs and when it cannot be started.
Poll ==
    /\ state = "running" /\ event /\ event' = FALSE
    /\ \/ ~mounts_running /\ mounts_running' = TRUE /\ at' = Reading
       \/ UNCHANGED <<mounts_running, at>>
    /\ UNCHANGED <<table, past, m, marks, ignored, state, seen, failed>>

mlist_mark_all_deleted(l) == [i \in DOMAIN l |-> [l[i] EXCEPT !.status = "delete"]]
mlist_find(l, path) == SelectInSeq(l, LAMBDA n : n.path = path)

\* A path that is found keeps its mark, another is appended to be marked.
Merge(l, node) ==
    LET i == mlist_find(l, node.path)
    IN  IF i # 0 THEN [l EXCEPT ![i].status = "no_change"] ELSE Append(l, node)

mlist_reconcile(l, new) == FoldLeft(Merge, mlist_mark_all_deleted(l), new)

\* Mutant: what was read before an error is used.
ReadFails_Partial ==
    /\ at = Reading
    /\ m' = mlist_reconcile(m, <<>>) /\ at' = 1
    /\ UNCHANGED <<table, past, event, marks, ignored, mounts_running, state, seen, failed>>

\* handle_mounts(), under mlist_lock.  An error leaves the list as it is.
ReadFails ==
    /\ at = Reading /\ at' = Idle /\ mounts_running' = FALSE
    /\ UNCHANGED <<table, past, event, m, marks, ignored, state, seen, failed>>

Read ==
    /\ at = Reading
    /\ m' = mlist_reconcile(m, read_mount_list) /\ seen' = table
    /\ at' = 1
    /\ UNCHANGED <<table, past, event, marks, ignored, mounts_running, state, failed>>

\* fanotify_update(), one node at a time.
fanotify_update ==
    /\ at \in DOMAIN m
    /\ \/ /\ m[at].status = "delete" /\ m' = RemoveAt(m, at)
          /\ UNCHANGED <<marks, at, failed>>
       \/ /\ m[at].status = "no_change" /\ at' = at + 1
          /\ UNCHANGED <<m, marks, failed>>
       \/ /\ m[at].status = "add" /\ at' = at + 1 /\ UNCHANGED m
          /\ \/ marks' = marks \cup {Top(m[at].path).id} /\ UNCHANGED failed
             \/ failed' = failed \cup {Top(m[at].path).id} /\ UNCHANGED marks
    /\ UNCHANGED <<table, past, event, ignored, mounts_running, state, seen>>

\* handle_mounts_thread_main() ends.
ThreadEnds ==
    /\ at > Len(m) /\ at # Reading /\ at' = Idle /\ mounts_running' = FALSE
    /\ UNCHANGED <<table, past, event, m, marks, ignored, state, seen, failed>>

Next ==
    \/ FirstList \/ init_fanotify \/ Poll \/ ReadFails \/ Read \/ fanotify_update \/ ThreadEnds
    \/ \E p \in Points \ {"/"}, t \in Types, n \in BOOLEAN : Mount(p, t, n)
    \/ \E i \in DOMAIN table : Umount(table[i])

Spec == Init /\ [][Next]_mt_vars

-----------------------------------------------------------------------------
\* Between updates, while the table is the one that was read last: the list has
\* exactly the points to watch, each of them is marked unless the kernel refused,
\* and a mount of ignore_mounts that was mounted noexec is not.  A read that
\* fails half way and changes of the table during an update do not upset this.
MarksFollowTable ==
    state = "running" /\ at = Idle /\ seen = table =>
        /\ Paths(m) = {e.point : e \in {e \in ToSet(table) : check_mount_entry(e)}}
        /\ \A e \in ToSet(table) :
               /\ check_mount_entry(e) => e.id \in marks \cup failed
               /\ e.point \in ignored => e.id \notin marks

\* doc/fapolicyd.state.5, "watching mount": "One line is printed for each mount
\* point currently marked for fanotify monitoring."  do_state_report() prints m.
ReportedIsMarked ==
    state = "running" /\ at = Idle /\ ~event /\ seen = table =>
        \A path \in Paths(m) : Top(path).id \in marks \cup failed

=============================================================================
