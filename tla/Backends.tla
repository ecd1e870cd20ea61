------------------------------ MODULE Backends ------------------------------
(* The trust back-ends as a reload uses them: library/backend-manager.c, the  *)
(* daemon side of library/rpm-backend.c and library/deb-backend.c, the        *)
(* package loaders of handler/ that answer with a memfd over a socket, and    *)
(* library/file-backend.c and library/md5-backend.c.                          *)
EXTENDS Integers, Sequences, FiniteSets, Functions

CONSTANTS
    TrustLists,     \* values of the option "trust", sequences of names
    Packages,       \* [rpmdb, debdb]: the packages of each database, in order
    TrustFiles,     \* the records of the trust files
    Intervals,      \* BACKEND_LOADER_TIMEOUT_MS / BACKEND_LOADER_POLL_MS
    rpm_sha256_only, \* the option of that name, for the rpm loader
    MaxReloads      \* bound on the reloads

VARIABLES
    trust,      \* conf->trust
    backends,   \* the registered back-ends
    memfd,      \* per back-end, whether it has a snapshot
    content,    \* per back-end, the records in the memfd of its last loader
    lost,       \* per back-end, the records its loader left out without failing
    open,       \* memfds the daemon holds
    replaced,   \* memfds among them that no back-end refers to any more
    pc,         \* the daemon: idle, load, wait, recv, use, close
    at,         \* position in backends of the back-end being loaded
    remaining,  \* intervals left to wait for the loader
    loader,     \* the process at the other end of the socket
    stop,       \* the daemon is shutting down
    reloads

vars == <<trust, backends, memfd, content, lost, open, replaced, pc, at, remaining, loader, stop,
          reloads>>

PackageBackends == {"rpmdb", "debdb"}
Compiled == PackageBackends \union {"file"}

NoLoader == [state |-> "none", pkg |-> 1, file |-> 1, sent |-> FALSE]

Init ==
    /\ trust \in TrustLists
    /\ backends = <<>> /\ pc = "idle" /\ at = 1 /\ remaining = 0 /\ open = 0 /\ replaced = 0
    /\ memfd = [b \in Compiled |-> FALSE]
    /\ content = [b \in Compiled |-> {}] /\ lost = [b \in Compiled |-> {}]
    /\ loader = NoLoader /\ stop = FALSE /\ reloads = 0

-----------------------------------------------------------------------------
(* What a loader keeps of a package: the record of each file, or nothing.     *)

is_dir_link_rpm(f) == f.kind \in {"dir", "link"}
is_doc_rpm(f) == f.flag \in {"doc", "readme", "ghost", "license", "pubkey"}
is_config_rpm(f) == f.flag \in {"config", "missingok", "noreplace"}
is_checksum_ignored_rpm(f) == ~f.verified

\* A digest of less than 64 hexadecimal digits, none included.
ShortDigest(f) == f.digest \in {"none", "md5", "sha1"}

rpm_skips(f) ==
    \/ is_dir_link_rpm(f) \/ is_doc_rpm(f) \/ is_config_rpm(f) \/ is_checksum_ignored_rpm(f)
    \/ ~f.allowed
    \/ rpm_sha256_only /\ ShortDigest(f)

\* The paths of the md5sums of a package, up to the first line that is not well
\* formed; a path with no line there has no hash.
parse_filehash_buffer(lines) ==
    {lines[i].path : i \in {n \in DOMAIN lines : \A m \in 1 .. n : lines[m].formed}}

\* Only a regular file that still has the MD5 of the package is recorded.
add_file_to_backend_by_md5(f) == f.kind = "regular" /\ f.verified

deb_skips(pkg, f) ==
    \/ f.path \notin parse_filehash_buffer(pkg.md5sums)
    \/ ~f.allowed
    \/ ~add_file_to_backend_by_md5(f)

Skips(b, pkg, f) == IF b = "rpmdb" THEN rpm_skips(f) ELSE deb_skips(pkg, f)

\* do_deb_load_list() passes over the packages that are not installed.
Files(b, pkg) == IF b = "debdb" /\ ~pkg.installed THEN <<>> ELSE pkg.files

\* The line written to the memfd.  That of a deb file has a SHA256 of the file.
Record(b, f) ==
    [path |-> f.path, digest |-> IF b = "debdb" THEN "sha256" ELSE f.digest]

\* The records of the files a package database vouches for.
Wanted(b) ==
    UNION {{Record(b, f) : f \in {g \in Range(Files(b, pkg)) : ~Skips(b, pkg, g)}} :
              pkg \in Range(Packages[b])}

-----------------------------------------------------------------------------
(* The loader process.  It may be killed, or hang, between any two steps.     *)

b_at == backends[at]

Goto(state) == loader' = [loader EXCEPT !.state = state]

LoaderOnly == UNCHANGED <<trust, backends, memfd, open, replaced, pc, at, remaining, stop, reloads>>

\* main(): the configuration, the memfd, the filter and the package library.
LoaderStarts ==
    /\ loader.state = "start"
    /\ Goto("load") \/ Goto("dead")
    /\ UNCHANGED <<content, lost>> /\ LoaderOnly

\* The rpm database cannot be opened: there is no iterator, and no package.
NoIterator ==
    /\ loader.state = "load" /\ b_at = "rpmdb"
    /\ loader.pkg = 1 /\ loader.file = 1
    /\ Goto("seal") /\ lost' = [lost EXCEPT !["rpmdb"] = Wanted("rpmdb")]
    /\ UNCHANGED content /\ LoaderOnly

Written(record) ==
    content' = [content EXCEPT ![b_at] = @ \union {record}] /\ UNCHANGED lost

\* One turn of the loops over the packages and their files.  A record seen before
\* is not written again.
LoadFile(b) ==
    LET pkg == Packages[b][loader.pkg]
        more == loader.pkg <= Len(Packages[b])
        inside == more /\ loader.file <= Len(Files(b, pkg))
        f == Files(b, pkg)[loader.file]
        next == [loader EXCEPT !.file = @ + 1]
    IN  /\ loader.state = "load" /\ b_at = b /\ LoaderOnly
        /\ \/ /\ ~more /\ Goto("seal") /\ UNCHANGED <<content, lost>>
           \/ /\ more /\ ~inside /\ loader' = [loader EXCEPT !.pkg = @ + 1, !.file = 1]
              /\ UNCHANGED <<content, lost>>
           \/ /\ inside /\ Skips(b, pkg, f)
              /\ loader' = next /\ UNCHANGED <<content, lost>>
           \/ /\ inside /\ ~Skips(b, pkg, f)
              /\ Written(Record(b, f)) /\ loader' = next
           \/ /\ inside /\ ~Skips(b, pkg, f) /\ b = "rpmdb"
              /\ lost' = [lost EXCEPT ![b] = @ \union {Record(b, f)}]
              /\ loader' = next /\ UNCHANGED content

\* For lack of memory for a name or its data the rpm loader passes over a file.
do_rpm_load_list == LoadFile("rpmdb")

do_deb_load_list == LoadFile("debdb")

\* A record that cannot be written to the memfd or remembered ends the load.
LoadFileFails ==
    /\ loader.state = "load"
    /\ Goto("dead")
    /\ UNCHANGED <<content, lost>> /\ LoaderOnly

\* Mutant: the descriptor is sent before the packages are read.
LoaderSends_Early ==
    /\ loader.state \in {"load", "seal"} /\ ~loader.sent
    /\ loader' = [loader EXCEPT !.sent = TRUE, !.state = IF @ = "seal" THEN "dead" ELSE @]
    /\ UNCHANGED <<content, lost>> /\ LoaderOnly

\* The snapshot is sealed, everything is cleaned up, and the descriptor is sent.
LoaderSends ==
    /\ loader.state = "seal"
    /\ \/ loader' = [loader EXCEPT !.state = "dead", !.sent = TRUE]
       \/ Goto("dead")
    /\ UNCHANGED <<content, lost>> /\ LoaderOnly

-----------------------------------------------------------------------------
(* The daemon. *)

\* backend_create() registers the names one by one.  One that is not supported,
\* or for which there is no memory, leaves the ones before it registered.
Registered(n) == \A i \in 1 .. n : trust[i] \in Compiled

\* database_reload_from_backends() or database_compact_from_backends() begins.
backend_init ==
    /\ pc = "idle" /\ ~stop /\ reloads < MaxReloads
    /\ \E n \in 0 .. Len(trust) :
          /\ Registered(n) /\ backends' = SubSeq(trust, 1, n)
          /\ pc' = CASE n < Len(trust) -> "close"
                     [] n = Len(trust) /\ n > 0 -> "load"
                     [] n = Len(trust) /\ n = 0 -> "use"
    /\ at' = 1 /\ reloads' = reloads + 1
    /\ UNCHANGED <<trust, memfd, content, lost, open, replaced, remaining, loader, stop>>

\* backend_load() goes on to the next back-end, or to the database.
Loaded == IF at = Len(backends) THEN pc' = "use" /\ UNCHANGED at
          ELSE pc' = "load" /\ at' = at + 1

\* The first back-end that fails ends the load.
Failed == pc' = "close" /\ UNCHANGED at

\* The descriptor takes the place of one that a back-end named before left there.
SetMemfd(b) ==
    /\ memfd' = [memfd EXCEPT ![b] = TRUE] /\ open' = open + 1
    /\ replaced' = IF memfd[b] THEN replaced + 1 ELSE replaced

\* The memfd is filled by trust_file_load_all(), whose failures are only logged.
file_load_list ==
    /\ pc = "load" /\ b_at = "file"
    /\ \/ Failed /\ UNCHANGED <<memfd, open, replaced, content>>
       \/ /\ SetMemfd("file") /\ Loaded
          /\ \E read \in SUBSET TrustFiles : content' = [content EXCEPT !["file"] = read]
    /\ UNCHANGED <<trust, backends, lost, remaining, loader, stop, reloads>>

\* The socket and the loader are created.
SpawnLoader(b) ==
    /\ pc = "load" /\ b_at = b
    /\ \/ /\ Failed /\ UNCHANGED <<loader, remaining, content, lost>>
       \/ /\ pc' = "wait" /\ remaining' = Intervals
          /\ loader' = [NoLoader EXCEPT !.state = "start"]
          /\ content' = [content EXCEPT ![b_at] = {}] /\ lost' = [lost EXCEPT ![b_at] = {}]
          /\ UNCHANGED at
    /\ UNCHANGED <<trust, backends, memfd, open, replaced, stop, reloads>>

rpm_load_list == SpawnLoader("rpmdb")
deb_load_list == SpawnLoader("debdb")

\* The socket is readable when the descriptor was sent, or at its end.
Readable == loader.sent \/ loader.state = "dead"

\* One turn of backend_wait_for_loader(): poll() finds the socket ready, times
\* out or is interrupted, or fails.  A hung loader is left behind.
backend_wait_for_loader ==
    /\ pc = "wait"
    /\ \/ /\ stop \/ remaining = 0
          /\ Failed /\ UNCHANGED remaining
       \/ /\ ~stop /\ remaining > 0 /\ Readable
          /\ pc' = "recv" /\ UNCHANGED <<at, remaining>>
       \/ /\ ~stop /\ remaining > 0
          /\ remaining' = remaining - 1 /\ UNCHANGED <<pc, at>>
       \/ /\ ~stop /\ remaining > 0
          /\ Failed /\ UNCHANGED remaining
    /\ UNCHANGED <<trust, backends, memfd, content, lost, open, replaced, loader, stop, reloads>>

\* recvmsg(): without a descriptor in the message the load fails.
ReceiveMemfd ==
    /\ pc = "recv"
    /\ \/ loader.sent /\ SetMemfd(b_at) /\ Loaded
       \/ Failed /\ UNCHANGED <<memfd, open, replaced>>
    /\ UNCHANGED <<trust, backends, content, lost, remaining, loader, stop, reloads>>

\* update_database() or compact_trust_database() imports every snapshot.
UseSnapshots ==
    /\ pc = "use"
    /\ pc' = "close"
    /\ UNCHANGED <<trust, backends, memfd, content, lost, open, replaced, at, remaining,
                   loader, stop, reloads>>

\* Every registered back-end gives up its snapshot, then the list goes.
backend_close ==
    LET closed == Range(backends) IN
    /\ pc = "close"
    /\ memfd' = [b \in Compiled |-> memfd[b] /\ b \notin closed]
    /\ open' = open - Cardinality({b \in closed : memfd[b]})
    /\ backends' = <<>> /\ pc' = "idle" /\ at' = 1 /\ loader' = NoLoader
    /\ UNCHANGED <<trust, content, lost, replaced, remaining, stop, reloads>>

Stop == ~stop /\ stop' = TRUE
        /\ UNCHANGED <<trust, backends, memfd, content, lost, open, replaced, pc, at,
                       remaining, loader, reloads>>

Daemon == \/ backend_init \/ file_load_list \/ rpm_load_list \/ deb_load_list \/ backend_wait_for_loader
          \/ ReceiveMemfd \/ UseSnapshots \/ backend_close

Loader == LoaderStarts \/ NoIterator \/ do_rpm_load_list \/ do_deb_load_list \/ LoadFileFails \/ LoaderSends

Next == Daemon \/ Loader \/ Stop

Spec == Init /\ [][Next]_vars

-----------------------------------------------------------------------------
\* What the database imports is the whole answer of every package back-end that
\* is configured, never what a loader had written when it died, was late or was
\* interrupted.  Only what the loader itself left out may be missing: a record
\* whose name did not fit in memory, and all of an rpm database it could not open.
OnlyCompleteImported ==
    pc = "use" =>
        /\ backends = trust
        /\ \A b \in Range(trust) :
              /\ memfd[b]
              /\ b \in PackageBackends =>
                    content[b] \subseteq Wanted(b) /\ Wanted(b) \ lost[b] \subseteq content[b]

NamedOnce(names) == \A i, j \in 1 .. Len(names) : names[i] = names[j] => i = j

\* Whatever step of a reload fails, no back-end keeps a snapshot after it, and the
\* memory of a snapshot is not lost to the daemon, with one exception: the option
\* trust may name a back-end twice, and the first snapshot of such a back-end is
\* never closed.
SnapshotsReleased ==
    /\ open = Cardinality({b \in Compiled : memfd[b]}) + replaced
    /\ pc = "idle" => open = replaced /\ backends = <<>>
    /\ NamedOnce(trust) => replaced = 0

\* A measure of what a reload still has to do.
StepsLeft ==
    LET load == (Len(backends) - at) * (Intervals + 3) IN
    CASE pc = "idle" -> 0
      [] pc = "close" -> 1
      [] pc = "use" -> 2
      [] pc = "recv" -> load + 3
      [] pc = "wait" -> load + 4 + remaining
      [] pc = "load" -> load + 5 + Intervals

\* A reload that has begun ends after a bounded number of steps of the daemon,
\* whatever its loader does: each step but the first leaves less to do.
ReloadAlwaysEnds ==
    [][pc # "idle" /\ Daemon => StepsLeft' < StepsLeft]_vars

=============================================================================
