------------------------------ MODULE MCInputs -------------------------------
(* The instances of the components that MCServices checks, where they are     *)
(* pure algorithms, and the inputs on which all components are run.           *)
EXTENDS TimingReport

(* Rules: files of up to four lines, built from those that a policy needs to  *)
(* pass the linter and from lines that break or shadow them.                  *)

Directories == {"/usr/", "/opt/", "/home/", "/etc/"}
R == INSTANCE Rules WITH Users <- [root |-> 0], Rooted <- Directories, Slashed <- Directories

Python == <<"text/python">>
Shell == <<"text/shell">>
Bare(name) == [name |-> name, eq |-> FALSE, ref |-> "", words |-> <<>>]
Token(name, words) == [name |-> name, eq |-> TRUE, ref |-> "", words |-> words]
SetRef(name, set) == [name |-> name, eq |-> TRUE, ref |-> set, words |-> <<>>]
Perm(p) == Token("perm", <<R!Str(<<p>>)>>)
RuleLine(dec, tokens) == [kind |-> "rule", dec |-> dec, colon |-> TRUE, tokens |-> tokens]
SetLine(name, append, words) ==
    [kind |-> "set", valid |-> TRUE, name |-> name, append |-> append, words |-> words]

RuleLines ==
    {SetLine("languages", FALSE, <<R!Str(Python)>>),
     SetLine("languages", TRUE, <<R!Str(Shell)>>),
     RuleLine("deny_audit", <<Perm("execute"), Bare("all"), Bare(":"), Bare("all")>>),
     RuleLine("deny_audit", <<Perm("execute"), Bare("all"), Bare(":"), Token("trust", <<R!Num(0)>>)>>),
     RuleLine("allow", <<Perm("any"), Token("uid", <<R!Num(0)>>), Bare(":"),
                         Token("dir", <<R!Str(<<"execdirs">>), R!Str(<<"/opt/">>)>>)>>),
     RuleLine("deny", <<Perm("open"), Bare("all"), Bare(":"), SetRef("ftype", "languages")>>),
     RuleLine("allow", <<Perm("open"), Bare("all"), Bare(":"), Bare("all")>>),
     RuleLine("allow", <<Token("exe", <<R!Str(<<"untrusted">>)>>), Bare(":"),
                         Token("path", <<R!Str(<<"/opt/", "x">>)>>)>>)}

Policies == {R!load(lines) : lines \in SeqOf(RuleLines, 4)}

Accesses ==
    {[type |-> type, s |-> s, o |-> [trust |-> t, path |-> path, dir |-> path, ftype |-> f]] :
        type \in {"exec", "open"},
        s \in {[uid |-> {0}, trust |-> 1, exe |-> <<"/usr/", "sh">>],
               [trust |-> 0, exe |-> <<"/opt/", "x">>]},
        t \in {0, 1}, path \in {<<"/opt/", "x">>, <<"/home/", "y">>},
        f \in {Python, Shell, <<"?">>}}

-----------------------------------------------------------------------------
(* Filter: files of three lines, and paths with repeated slashes, with a      *)
(* parent reference and with a name that repeats.                             *)

F == INSTANCE Filter WITH MAX_FILTER_DEPTH <- 4

FilterLine(level, type, path) == [level |-> level, type |-> type, path |-> path]
TopPatterns == {<<"/">>, <<"/", "a", "/">>, <<"/", "*", "/">>}
Patterns == {<<"/">>, <<"a", "/">>, <<"a">>, <<"b">>, <<"*", "/">>, <<"*", "b">>}

FilterFiles ==
    {<<FilterLine(1, t1, p1), FilterLine(l2, t2, p2), FilterLine(l3, t3, p3)>> :
        t1 \in {F!ADD, F!SUB}, p1 \in TopPatterns,
        l2 \in {1, 2}, t2 \in {F!ADD, F!SUB}, p2 \in Patterns,
        l3 \in 1 .. 3, t3 \in {F!ADD, F!SUB, "#"}, p3 \in Patterns}

FilteredPaths ==
    {<<"/", "a", "/", "b">>, <<"/", "b">>, <<"/", "a", "/", "a", "/", "b">>,
     <<"/", "/", "a", "/", "/", "b">>, <<"/", "a", "/", "..">>, <<"/", "a", "b">>}

FilterInputs ==
    {[rules |-> F!filter_load_file(file).rules, path |-> path] :
        file \in {f \in FilterFiles : F!filter_load_file(f).res = 0}, path \in FilteredPaths}

-----------------------------------------------------------------------------
(* TimingReport, extended here and not instantiated so that TLC evaluates its *)
(* tables once: observations in a low, a middle and a high bucket.            *)

Sample(low, mid, high) ==
    [count |-> low + mid + high, total_ns |-> low + 20 * mid + 60 * high,
     max_ns |-> IF high > 0 THEN 60 ELSE IF mid > 0 THEN 20 ELSE IF low > 0 THEN 1 ELSE 0,
     buckets |-> [b \in 0 .. BUCKETS - 1 |->
                     IF b = 4 THEN low ELSE IF b = 9 THEN mid ELSE IF b = 11 THEN high ELSE 0]]

Block(f) == [s \in Stages |-> IF s \in DOMAIN f THEN f[s] ELSE Nothing]
FewSamples == {Sample(0, 0, 0), Sample(1, 0, 0), Sample(0, 1, 0)}
Samples == FewSamples \union {Sample(0, 2, 0), Sample(1, 0, 1), Sample(39, 40, 1)}

TimingRuns ==
    {Context(<<Block(f)>>, 100, 0, 0) : f \in [{9, 12, 17, 27} -> Samples]}
    \union {Context(<<Block(f), Block(f)>>, 100, depth, workerDepth) :
               f \in [{2, 9, 18, 28} -> FewSamples], depth \in 0 .. 3, workerDepth \in {0, 3, 9}}

-----------------------------------------------------------------------------
(* TrustLookup: records and files that differ in size, digest or algorithm;   *)
(* back-ends with up to two lines each; paths with empty and repeated parts.  *)

TL == INSTANCE TrustLookup WITH MAX_DUPLICATES <- 4, INT64_MAX <- 100

Digests ==
    {[alg |-> "sha1", value |-> "content"], [alg |-> "sha256", value |-> "content"],
     [alg |-> "sha256", value |-> "other"]}
Records == {[ok |-> FALSE]} \union [ok : {TRUE}, size : {1, 2}, digest : Digests]
Aliases ==
    {[linked |-> FALSE, records |-> <<>>], [linked |-> TRUE, records |-> <<>>]}
    \union {[linked |-> TRUE, records |-> <<r>>] : r \in {q \in Records : q.ok => q.size = 1}}

Lookups ==
    [records : SeqOf(Records, 2), alias : Aliases,
     file : [size : {1}, ima : Digests \union {TL!NoDigest}, readable : BOOLEAN],
     conf : [integrity : {"none", "size", "sha256", "ima"}, rpm_sha256_only : BOOLEAN]]

BackendLines == {[path |-> p, data |-> d] : p \in {<<"a">>, <<"b">>}, d \in {<<1>>, <<2>>}}
Copies == [backends : SeqOf(BackendLines, 2) \X SeqOf(BackendLines, 2), db : SUBSET BackendLines]

TrustedPaths == SeqOf({"x", "", "y"}, 4) \ {<<>>}

-----------------------------------------------------------------------------
(* Backends: packages with documentation, weak digests, a file that two       *)
(* packages own, a file whose digest does not match, and one not installed.   *)

PackageFile(path, kind, flag, verified, digest) ==
    [path |-> path, kind |-> kind, flag |-> flag, verified |-> verified, allowed |-> TRUE, digest |-> digest]
Sum(path, formed) == [path |-> path, formed |-> formed]

RpmPackages ==
    <<[installed |-> TRUE,
       files |-> <<PackageFile("a", "regular", "none", TRUE, "sha256"),
                   PackageFile("doc", "regular", "doc", TRUE, "sha256"),
                   PackageFile("b", "regular", "none", TRUE, "sha512")>>],
      [installed |-> TRUE,
       files |-> <<PackageFile("a", "regular", "none", TRUE, "sha256"),
                   PackageFile("c", "regular", "none", TRUE, "sha1")>>]>>
DebPackages ==
    <<[installed |-> FALSE, files |-> <<PackageFile("z", "regular", "none", TRUE, "md5")>>],
      [installed |-> TRUE,
       md5sums |-> <<Sum("a", TRUE), Sum("x", TRUE), Sum("l", TRUE), Sum("q", FALSE), Sum("w", TRUE)>>,
       files |-> <<PackageFile("a", "regular", "none", TRUE, "md5"),
                   PackageFile("w", "regular", "none", TRUE, "md5"),
                   PackageFile("x", "regular", "none", FALSE, "md5"),
                   PackageFile("l", "link", "none", TRUE, "md5")>>]>>
PackageDatabases == [rpmdb |-> RpmPackages, debdb |-> DebPackages]
TrustLists == {<<"rpmdb", "file">>, <<"file", "debdb">>, <<"file", "nosuch", "rpmdb">>, <<>>,
               <<"rpmdb", "rpmdb">>, <<"file", "file">>}

-----------------------------------------------------------------------------
(* TrustFile: a path with a blank, one with the escape of a blank, and one    *)
(* whose prefix is a directory of the others; files of either format, with a  *)
(* path that is there twice, with a line that does not parse and with a last  *)
(* line that is not terminated.                                               *)

Quoted == <<"/", "d", "/", "a", "%20", "b">>
Blank == <<"/", "d", "/", "a", " ", "b">>
Beside == <<"/", "d", "e">>
Ten == <<"10", "s1">>
Twenty == <<"20", "s2">>
TrustLine(path, measure) == path \o <<" ", measure[1], " ", measure[2], "\n">>
Unterminated == Quoted \o <<" ", "10", " ", "s1">>
NoFile == [exists |-> FALSE, lines |-> <<>>]
FileOf(lines) == [exists |-> TRUE, lines |-> lines]
Version2 == <<"# version 2", "\n">>
Version3 == <<"# version 3", "\n">>

Fresh == FileOf(<<Version3, TrustLine(Quoted, Ten), TrustLine(Blank, Ten)>>)
Older == FileOf(<<Version2, TrustLine(Quoted, Ten), TrustLine(Beside, Twenty)>>)
Open == FileOf(<<Version3, TrustLine(Beside, Ten), Unterminated>>)
Twice == FileOf(<<TrustLine(Beside, Twenty), TrustLine(Beside, Ten)>>)
Broken == FileOf(<<TrustLine(Quoted, Ten), <<"x", "\n">>, TrustLine(Beside, Ten)>>)

InitialTrust ==
    {[f \in {"fapolicyd.trust", "d1"} |-> IF f = "d1" THEN pair[2] ELSE pair[1]] :
        pair \in {<<NoFile, NoFile>>, <<Fresh, Twice>>, <<Older, NoFile>>, <<Older, Broken>>, <<Open, Twice>>}}

Disks ==
    {(Quoted :> a) @@ (Blank :> b) @@ (Beside :> c) :
        <<a, b, c>> \in {<<Ten, Ten, Ten>>, <<Twenty, <<>>, Twenty>>, <<<<>>, Twenty, <<>>>>}}
WriteCuts == {[lines |-> 0, within |-> FALSE], [lines |-> 3, within |-> TRUE]}

-----------------------------------------------------------------------------
(* Text: files and strings over the characters the code tells apart.          *)

TextFiles == UNION {[1 .. n -> {10, 97}] : n \in 0 .. 6}
Strings == UNION {[1 .. n -> {97, 49, 92, 32, 10, 200}] : n \in 0 .. 4}

-----------------------------------------------------------------------------
(* DaemonConfig: files that set every keyword, right and wrong.               *)

Word(t) == [text |-> t, number |-> -1]
Digit(n) == [text |-> "digits", number |-> n]
Words(words) == [long |-> FALSE, words |-> words]
Setting(name, v) == Words(<<Word(name), Word("="), v>>)
TooLong(name, v) == [long |-> TRUE, words |-> <<Word(name), Word("="), v>>]

ConfigFiles ==
        {<<>>,
     <<Setting("permissive", Digit(1))>>,
     <<Setting("permissive", Digit(7)), Setting("integrity", Word("sha256"))>>,
     <<Setting("integrity", Word("ima")), Setting("trust", Word("file"))>>,
     <<Setting("nice_val", Digit(21))>>,
     <<Setting("syslog_format", Word("dec")), Setting("nice_val", Digit(20))>>,
     <<Setting("trust", Word("file")),
       Setting("trust", Word("rpmdb")), TooLong("trust", Word("debdb"))>>,
     <<Setting("q_size", Digit(9000)), Setting("decision_threads", Digit(2))>>,
     <<Setting("q_size", Digit(8160)), Setting("decision_threads", Digit(2)),
       Setting("rpm_sha256_only", Digit(2))>>,
     <<Setting("decision_threads", Digit(0))>>,
     <<Setting("decision_threads", Digit(3))>>,
     <<Setting("obj_cache_size", Digit(29000))>>,
     <<Setting("obj_cache_size", Digit(60000))>>,
     <<Setting("uid", Word("fapolicyd")), Setting("gid", Digit(5))>>,
     <<Setting("gid", Digit(5)), Setting("uid", Word("fapolicyd"))>>,
     <<Setting("uid", Digit(9)), Setting("gid", Word("audio"))>>,
     <<Setting("gid", Word("nosuch"))>>,
     <<Setting("uid", Word("nosuch"))>>,
     <<Setting("db_max_size", Digit(50)), Setting("db_max_size", Word("auto"))>>,
     <<Setting("db_max_size", Digit(50))>>,
     <<Setting("db_max_size", Word("x"))>>,
     <<Setting("do_stat_report", Digit(3)), Setting("detailed_report", Digit(0)),
       Setting("report_interval", Digit(5))>>,
     <<Setting("watch_fs", Word("ext4")), Setting("ignore_mounts", Word("/m")),
       Setting("allow_filesystem_mark", Digit(1)), Setting("subj_cache_size", Digit(100))>>,
     <<Setting("reset_strategy", Word("manual")), Setting("timing_collection", Word("manual"))>>,
     <<Setting("reset_strategy", Word("x"))>>,
     <<Words(<<Word("#"), Word("permissive")>>), Words(<<>>),
       Words(<<Word("permissive"), Word("="), Digit(1), Word("a"), Word("b")>>)>>,
     <<Setting("permissive", Digit(1)), Words(<<Word("permissive"), Word("=")>>)>>,
     <<Setting("permissive", Digit(1)), Setting("unknown", Digit(1))>>}

StartFiles ==
    {<<>>,
     <<Setting("permissive", Digit(1)), Setting("uid", Word("fapolicyd"))>>,
     <<Setting("q_size", Digit(8160)), Setting("decision_threads", Digit(2))>>,
     <<Setting("q_size", Digit(9000)), Setting("decision_threads", Digit(2))>>,
     <<Setting("nice_val", Digit(21))>>}

\* A small host with IMA, a larger one with a limit on memory, and one whose
\* sizes cannot be read.
Machines ==
    {[cpus |-> 2, nofile |-> 1000, physical |-> 600000, as |-> 0, ima |-> TRUE, fails |-> FALSE],
     [cpus |-> 4, nofile |-> 20000, physical |-> 900000, as |-> 160000, ima |-> FALSE, fails |-> FALSE],
     [cpus |-> 1, nofile |-> 20000, physical |-> 0, as |-> 0, ima |-> FALSE, fails |-> TRUE]}

=============================================================================
