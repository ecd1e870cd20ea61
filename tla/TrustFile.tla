------------------------------ MODULE TrustFile ------------------------------
(* The trust files and the commands "fapolicyd-cli --file add|delete|update"  *)
(* that edit them: library/trust-file.c, cli/file-cli.c, library/llist.c and  *)
(* the escapes of the old format.  A line is a sequence of tokens, a size and *)
(* a digest being one token each.                                             *)
EXTENDS Integers, Sequences, FiniteSets, SequencesExt, Functions

CONSTANTS
    Fragments,      \* the files of trust.d, a set
    Names,          \* paths of files, sequences of tokens that begin with "/"
    Measures,       \* pairs of a size and a SHA256 digest
    Allowed,        \* the paths the filter allows
    Initial,        \* contents of the trust files to start from
    Disks,          \* states of the file system to start from
    Cuts,           \* how far a write gets that does not complete
    MaxSteps,       \* bound on the commands and the changes of files between them
    MaxFaults       \* bound on the writes and measurements that fail

VARIABLES
    files,      \* per trust file, its lines; <<>> with exists FALSE when absent
    disk,       \* per path, its size and digest, or Gone
    last,       \* the last command, with the files before it, those it left
                \* half written, and its exit status
    steps, faults

vars == <<files, disk, last, steps, faults>>

Main == "fapolicyd.trust"
TrustFiles == {Main} \union Fragments
Gone == <<>>

HEADER_OLD == <<"# version 2", "\n">>
HEADER0 == <<"# version 3", "\n">>

Absent == [exists |-> FALSE, lines |-> <<>>]
NoCommand == [op |-> "none", before |-> [f \in TrustFiles |-> Absent], torn |-> {}, rc |-> 0]

Init ==
    /\ files \in Initial
    /\ disk \in Disks
    /\ last = NoCommand /\ steps = 0 /\ faults = 0

-----------------------------------------------------------------------------
(* Reading. *)

Spaces == {" ", "\n", "\t"}
Sizes == {m[1] : m \in Measures}
Digests == {m[2] : m \in Measures}

Unparsable == [ok |-> FALSE]

\* The width of the digest counts to the last character of the line as it was
\* read, which has to be the newline; a shorter digest has another width.
Fields(line, d1, d0) ==
    LET sha == SubSeq(line, d0 + 1, Len(line) - 1)
        size == SubSeq(line, d1 + 1, d0 - 1)
    IN  IF Len(sha) = 1 /\ Len(size) = 1 /\ ToSet(sha) \subseteq Digests /\ ToSet(size) \subseteq Sizes
        THEN [ok |-> TRUE, path |-> SubSeq(line, 1, d1 - 1), data |-> size \o sha]
        ELSE Unparsable

\* The last two blanks of the line, its trailing white space aside, divide it.
parse_line_backwards(line) ==
    LET end == Max({0} \union {i \in DOMAIN line : line[i] \notin Spaces})
        blanks == {i \in 1 .. end : line[i] = " "}
    IN  IF Cardinality(blanks) < 2 THEN Unparsable
        ELSE Fields(line, Max(blanks \ {Max(blanks)}), Max(blanks))

\* The old format writes a blank of a path as %20.
unescape(name) == [i \in DOMAIN name |-> IF name[i] = "%20" THEN " " ELSE name[i]]

Comment(line) == line[1] \in {"\n", "# version 2", "# version 3", "#"}

list_contains(list, path) == \E i \in DOMAIN list : list[i].path = path

\* The path a line stands for.
Path(escaped, name) == IF escaped THEN unescape(name) ELSE name

\* An entry with path, unless the path was there before.
Entered(seen, path, data) ==
    IF list_contains(seen.list, path) THEN seen
    ELSE [seen EXCEPT !.list = Append(@, [path |-> path, data |-> data])]

Parsed(seen, p, escaped) ==
    IF p.ok THEN Entered(seen, Path(escaped, p.path), p.data) ELSE [seen EXCEPT !.rc = 2]

\* The loop of trust_file_load(): it stops at a line it cannot parse and passes
\* over a path it has seen.  rc is 1 for a file that cannot be opened, 2 for a
\* line that cannot be parsed; the list has what came before it.
trust_file_load(file) ==
    LET escaped == file.lines # <<>> /\ file.lines[1] = HEADER_OLD
        read(seen, line) == IF seen.rc # 0 \/ Comment(line) THEN seen
                            ELSE Parsed(seen, parse_line_backwards(line), escaped)
    IN  IF ~file.exists THEN [rc |-> 1, list |-> <<>>]
        ELSE FoldLeft(read, [rc |-> 0, list |-> <<>>], file.lines)

\* write_out_list(): the headers of the new format, then a line for each entry.
\* An entry without data ends the program: data + 2 is no address to read from.
Whole == [lines |-> -1, within |-> FALSE]
Unopened == [lines |-> -2, within |-> FALSE]

Unmeasured(list) == \E i \in DOMAIN list : list[i].data = Gone

Content(list) ==
    LET n == IF Unmeasured(list) THEN Min({i \in DOMAIN list : list[i].data = Gone}) - 1 ELSE Len(list)
    IN  <<HEADER0, <<"#", "\n">>>>
        \o [i \in 1 .. n |-> list[i].path \o <<" ", list[i].data[1], " ", list[i].data[2], "\n">>]

\* The file was truncated when it was opened, and of what goes through the buffer
\* of the stream only the beginning may arrive: cut.lines of it and, when
\* cut.within, the next one but for its end.
Torn(lines, cut) ==
    LET k == IF cut.lines < Len(lines) THEN cut.lines ELSE Len(lines)
    IN  SubSeq(lines, 1, k) \o IF cut.within /\ k < Len(lines) THEN <<Front(lines[k + 1])>> ELSE <<>>

write_out_list(file, list, cut) ==
    CASE cut = Unopened -> file
      [] cut = Whole    -> [exists |-> TRUE, lines |-> Content(list)]
      [] OTHER          -> [exists |-> TRUE, lines |-> Torn(Content(list), cut)]

\* "source size hash"; nothing when the file cannot be opened or read.
make_data_string(path, unreadable) ==
    IF path \in Names \ unreadable THEN disk[path] ELSE Gone

-----------------------------------------------------------------------------
(* Editing one trust file, after load == trust_file_load(file): its new       *)
(* content and what is returned.  How the write went is not looked at.        *)

Prefixed(path, p) == IsPrefix(path, p)

\* A file that could not be opened or parsed is left alone.
Refused(load) == load.rc \in {1, 2}

NothingDone(file, load) == [file |-> file, count |-> IF load.rc = 1 THEN 0 ELSE -1]

trust_file_delete_path(file, load, path, cut) ==
    LET left == SelectSeq(load.list, LAMBDA e : ~Prefixed(path, e.path))
        count == Len(load.list) - Len(left)
    IN  IF Refused(load) THEN NothingDone(file, load)
        ELSE [file |-> IF count > 0 THEN write_out_list(file, left, cut) ELSE file, count |-> count]

\* An entry that cannot be measured keeps what it had.
trust_file_update_path(file, load, path, use_filter, cut) ==
    LET new(i) == make_data_string(load.list[i].path, {})
        due == {i \in DOMAIN load.list :
                   /\ Prefixed(path, load.list[i].path)
                   /\ use_filter => load.list[i].path \in Allowed
                   /\ new(i) # Gone}
        list == [i \in DOMAIN load.list |->
                    IF i \in due THEN [load.list[i] EXCEPT !.data = new(i)] ELSE load.list[i]]
    IN  IF Refused(load) THEN NothingDone(file, load)
        ELSE [file |-> IF due # {} THEN write_out_list(file, list, cut) ELSE file,
              count |-> Cardinality(due)]

\* list_merge() puts the new entries after those of the file; whether each could
\* be measured is not looked at.
trust_file_append(file, load, list, unreadable, cut) ==
    LET new == [i \in DOMAIN list |->
                   [path |-> list[i], data |-> make_data_string(list[i], unreadable)]]
    IN  IF load.rc > 1 THEN [file |-> file, rc |-> 1, killed |-> FALSE]
        ELSE [file |-> write_out_list(file, load.list \o new, cut), rc |-> 0,
              killed |-> Unmeasured(new) /\ cut # Unopened]


\* list_remove() of every entry of a file that can be read.
trust_file_rm_duplicates(load, list) ==
    IF Refused(load) THEN list ELSE SelectSeq(list, LAMBDA p : ~list_contains(load.list, p))

-----------------------------------------------------------------------------
(* The commands. *)

CLI_EXIT_SUCCESS == 0
CLI_EXIT_PATH_CONFIG == 3
CLI_EXIT_IO == 7
CLI_EXIT_NOOP == 9
KILLED == 139

\* A path exists as a file, or as the directory of one.
Directory(path) == IF path = <<"/">> THEN path ELSE path \o <<"/">>
Inside(path, p) == p = path \/ Prefixed(Directory(path), p)
Exists(path) == \E n \in Names : disk[n] # Gone /\ Inside(path, n)

\* realpath(): a slash at the end of the argument is gone.
realpath(arg) == IF Len(arg) > 1 /\ Last(arg) = "/" THEN Front(arg) ELSE arg

Arguments == {SubSeq(n, 1, k) : n \in Names, k \in 1 .. 3}

\* add_list_load_path(): the file, or every regular file below the directory.
add_list_load_path(path) == SetToSeqs({n \in Names : disk[n] # Gone /\ Inside(path, n)})

\* A command may meet a file it cannot measure, which for an update is one that is
\* gone, and in the trust file bad a write that does not complete.
NoFault == [unreadable |-> {}, bad |-> {}, cut |-> Whole]
BadWrites(where) == [unreadable : {{}}, bad : {{f} : f \in where}, cut : Cuts \union {Unopened}]
BadReads(dest) == [unreadable : {{n} : n \in Names}, bad : {{dest}}, cut : Cuts \union {Whole}]

CutOf(fault, f) == IF f \in fault.bad THEN fault.cut ELSE Whole

Ran(op, path, where, new, torn, rc, fault) ==
    /\ files' = new /\ steps' = steps + 1
    /\ faults' = IF fault = NoFault THEN faults ELSE faults + 1
    /\ last' = [op |-> op, path |-> path, where |-> where, before |-> files, torn |-> torn, rc |-> rc]
    /\ UNCHANGED disk

Runs(path, fault) ==
    /\ steps < MaxSteps /\ Exists(path)
    /\ fault = NoFault \/ faults < MaxFaults

\* The duplicates are looked for in every trust file, the list is added to one.
file_append(path, dest, load, use_filter, fault) ==
    /\ Runs(path, fault)
    /\ \E all \in add_list_load_path(path) :
          LET kept == IF use_filter THEN SelectSeq(all, LAMBDA p : p \in Allowed) ELSE all
              list == SelectSeq(kept, LAMBDA p : \A f \in TrustFiles :
                                    trust_file_rm_duplicates(load[f], <<p>>) # <<>>)
              res == trust_file_append(files[dest], load[dest], list, fault.unreadable, CutOf(fault, dest))
          IN  IF list = <<>> THEN Ran("add", path, {dest}, files, {}, CLI_EXIT_NOOP, fault)
              ELSE Ran("add", path, {dest}, [files EXCEPT ![dest] = res.file],
                       IF res.killed THEN {dest} ELSE fault.bad,
                       IF res.killed THEN KILLED ELSE IF res.rc # 0 THEN CLI_EXIT_IO ELSE CLI_EXIT_SUCCESS,
                       fault)

\* The exit status of a number of entries that were deleted or updated.
Status(count) ==
    IF count < 0 THEN CLI_EXIT_PATH_CONFIG
    ELSE IF count = 0 THEN CLI_EXIT_NOOP ELSE CLI_EXIT_SUCCESS

\* _count adds up what the trust files return, a file that is not parsed included.
CountAll(res) == FoldFunction(LAMBDA r, n : r.count + n, 0, res)

Edited(op, path, where, res, fault) ==
    Ran(op, path, where, [f \in TrustFiles |-> IF f \in where THEN res[f].file ELSE files[f]],
        fault.bad, Status(CountAll(res)), fault)

file_delete(path, where, load, fault) ==
    /\ Runs(path, fault)
    /\ Edited("delete", path, where,
              [f \in where |-> trust_file_delete_path(files[f], load[f], path, CutOf(fault, f))], fault)

file_update(path, where, load, use_filter, fault) ==
    /\ Runs(path, fault)
    /\ Edited("update", path, where,
              [f \in where |-> trust_file_update_path(files[f], load[f], path, use_filter, CutOf(fault, f))],
              fault)

\* A file of the system is changed, removed or created.
FileChanges ==
    /\ steps < MaxSteps /\ steps' = steps + 1
    /\ \E n \in Names, m \in {Gone} \union Measures : disk' = [disk EXCEPT ![n] = m]
    /\ UNCHANGED <<files, last, faults>>

Command ==
    \E load \in {[f \in TrustFiles |-> trust_file_load(files[f])]},
       path \in {realpath(arg) : arg \in Arguments} :
        \/ \E f \in TrustFiles, filter \in BOOLEAN :
              \E fault \in {NoFault} \union BadWrites({f}) \union BadReads(f) :
                  file_append(path, f, load, filter, fault)
        \/ \E where \in {TrustFiles} \union {{f} : f \in Fragments} :
              \E fault \in {NoFault} \union BadWrites(where) :
                  \/ file_delete(path, where, load, fault)
                  \/ \E filter \in BOOLEAN : file_update(path, where, load, filter, fault)

Next == Command \/ FileChanges

Spec == Init /\ [][Next]_vars

-----------------------------------------------------------------------------
\* What the daemon reads of a trust file: the path of every entry, and its data.
Trusted(file) == {<<e.path, e.data>> : e \in ToSet(trust_file_load(file).list)}

Parsable(file) == trust_file_load(file).rc < 2

\* What a command is about: an addition the file, or those in the directory; the
\* others every path that begins with the text of the resolved one.
Matched(op, path, p) == IF op = "add" THEN Inside(path, p) ELSE Prefixed(path, p)

\* A command makes nothing trusted, and trusts nothing with other data, but in the
\* trust files it edits and for the paths it is about, not even when a write
\* breaks off or the program dies in it.  When the write completes it also keeps
\* every entry that it is not about, whether the file was of the old format or of
\* the new one, and the file can be read back.  A file with a line that cannot be
\* parsed is not touched.
\* delete and update are about more than fapolicyd-cli(8) says of an argument that
\* ends with '/': "To ensure that you only match a directory and not a partial
\* name, be sure to end with '/'".  realpath() drops the slash, so that "delete /d/"
\* deletes /de as well.
EditsOnlyItsPaths ==
    last.op # "none" =>
        \A f \in TrustFiles :
            LET was == Trusted(last.before[f])
                now == Trusted(files[f])
                about(t) == f \in last.where /\ Matched(last.op, last.path, t[1])
            IN  IF ~Parsable(last.before[f]) THEN files[f] = last.before[f]
                ELSE /\ \A t \in now \ was : about(t)
                     /\ f \notin last.torn => Parsable(files[f]) /\ \A t \in was \ now : about(t)

\* An addition never makes a path trusted twice, with data that may differ, as
\* long as every trust file can be parsed.
AddedOnce ==
    last.op = "add" /\ (\A f \in TrustFiles : Parsable(last.before[f])) =>
        \A f, g \in TrustFiles :
            \A t \in Trusted(files[f]) \ Trusted(last.before[f]), u \in Trusted(files[g]) :
                u[1] = t[1] => f = g /\ u = t

=============================================================================
