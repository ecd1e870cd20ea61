------------------------------- MODULE Events -------------------------------
(* library/event.c new_event(), library/process.c and the pattern test of     *)
(* library/rules.c: how the permission events of one slot of the subject      *)
(* cache are turned into a subject, its startup pattern and its cached        *)
(* attributes, while execve() runs in the kernel.                             *)
(*                                                                            *)
(* execve() raises, for the program and then for each interpreter it needs,   *)
(* an execute and an open event; only then does /proc show the new program.   *)
(* A process is single-threaded.  A subject of another process takes the slot *)
(* only when the decision worker lets it through: event_subject_slot_is_      *)
(* blocked(), without the evictions of stale and traced subjects.             *)
EXTENDS Integers, Sequences, FiniteSets, SequencesExt

CONSTANTS
    Procs,          \* the processes whose pids share the slot
    Bystanders,     \* bound: those of them that execute no file but "app"
    Refusals        \* an execve() may be refused, or fail

VARIABLES
    subject,        \* the occupant of the slot
    proc            \* per process: what /proc shows, and the events to come

vars == <<subject, proc>>

\* "odd" is a program that runs although gather_elf() finds an error in it,
\* "broken" one that the kernel does not run either.
ExecFiles == {"app", "static", "script", "ld.so", "odd", "broken", "data"}
Runs(p) == IF p \in Bystanders THEN {"app"} ELSE ExecFiles
Unrunnable == {"broken", "data"}
SYSTEM_LD_SO == "ld.so"
NULL == "NULL"
None == [pid |-> NULL]

Exec(f) == [type |-> "exec", file |-> f]
Open(f) == [type |-> "open", file |-> f]
Both(f) == <<Exec(f), Open(f)>>

\* gather_elf(), a table of the flags that new_event() and the pattern test look
\* at; how they are found in the file is left out.
gather_elf(f) ==
    CASE f \in {"app", "sh"} -> {"IS_ELF", "HAS_DYNAMIC", "HAS_INTERP"}
      [] f = "odd"           -> {"IS_ELF", "HAS_DYNAMIC", "HAS_INTERP", "HAS_ERROR"}
      [] f = "broken"        -> {"IS_ELF", "HAS_ERROR"}
      [] f = "ld.so"         -> {"IS_ELF", "HAS_DYNAMIC"}
      [] f = "static"        -> {"IS_ELF"}
      [] f = "script"        -> {"HAS_SHEBANG"}
      [] f = "data"          -> {}

\* The events of execve(f), and the program that runs after it.
execve(f) ==
    CASE f \in {"app", "odd"} -> Both(f) \o Both("ld.so")
      [] f = "script" -> Both("script") \o Both("sh") \o Both("ld.so")
      [] OTHER        -> Both(f)
Image(f) == IF f = "script" THEN "sh" ELSE f

\* Process p runs "sh" and has not been seen yet.
Init ==
    /\ subject = None
    /\ proc = [p \in Procs |-> [image |-> "sh", todo |-> <<>>, target |-> NULL,
                            opens |-> 0, followed |-> FALSE, plain |-> TRUE,
                            linker |-> FALSE]]

-----------------------------------------------------------------------------
(* The subject of an event. *)

building == {"COLLECTING", "REOPEN", "DEFAULT_REOPEN", "STATIC_REOPEN", "PARTIAL", "STATIC_PARTIAL"}

stat_proc_entry(p) ==
    [pid |-> p, state |-> "COLLECTING", path1 |-> NULL, path2 |-> NULL, elf_info |-> {}, exe |-> NULL]

clear_proc_info(s) == [s EXCEPT !.path1 = NULL, !.path2 = NULL]

\* Mutant: the attributes of the old program stay.
reset_subject_attributes_None(s) == s

\* EXE, COMM, EXE_TYPE and SUBJ_TRUST; EXE stands for them.
reset_subject_attributes(s) == [s EXCEPT !.exe = NULL]

\* A step of the recognition: the subject, whether it is replaced by a new one,
\* and whether the path of this event is left out of the pattern.
Step(s, evict, skip) == [s |-> s, evict |-> evict, skip |-> skip]

\* "the second step, open", of a subject that is collecting
ExpectReopen(r, e) ==
    IF r.s.state = "COLLECTING" /\ e.type = "open"
    THEN IF r.s.path1 = SYSTEM_LD_SO
         THEN [r EXCEPT !.s.state = "DEFAULT_REOPEN"]
         ELSE [r EXCEPT !.s.state = "REOPEN", !.skip = TRUE]
    ELSE r

\* "We need to reset everything now that execve has finished"
LeaveExecve(r, e) ==
    IF r.s.state = "STATIC_PARTIAL"
    THEN LET s == reset_subject_attributes(r.s)
         IN  IF e.type = "exec" THEN Step([s EXCEPT !.state = "COLLECTING"], FALSE, r.skip)
             ELSE Step([s EXCEPT !.state = "STATIC"], FALSE, TRUE)
    ELSE r

\* "Static has to sequence through a state machine"
SequenceStatic(r, e) ==
    IF r.s.state = "STATIC_REOPEN" /\ e.type = "open"
    THEN Step([r.s EXCEPT !.state = "STATIC_PARTIAL"], FALSE, TRUE) ELSE r

\* "an execute and process has an interpreter"
ExpectInterpreter(r, e) ==
    IF r.s.state = "REOPEN" /\ ~r.skip /\ e.type = "exec" /\ "HAS_INTERP" \in r.s.elf_info
    THEN Step([r.s EXCEPT !.state = "DEFAULT_REOPEN"], FALSE, TRUE) ELSE r

\* "in STATE_REOPEN path is always skipped"
SkipReopened(r, e) ==
    IF r.s.state = "REOPEN" /\ ~r.skip /\ e.type = "open" THEN [r EXCEPT !.skip = TRUE] ELSE r

\* new_event() for a process that owns the slot's subject.
SameProcess(s, e) ==
    SkipReopened(ExpectInterpreter(SequenceStatic(LeaveExecve(
        [ExpectReopen(Step(s, FALSE, FALSE), e) EXCEPT !.evict = e.type = "exec"], e), e), e), e)

\* A process first seen in an open "is likely to be a running process".
NewSubject(p, e) ==
    IF e.type = "open" THEN [stat_proc_entry(p) EXCEPT !.state = "NORMAL"] ELSE stat_proc_entry(p)

FindSubject(p, e) ==
    LET r == IF subject # None /\ subject.pid = p THEN SameProcess(subject, e)
             ELSE Step(NewSubject(p, e), TRUE, FALSE)
    IN  IF r.evict THEN Step(NewSubject(p, e), TRUE, r.skip) ELSE r

\* "Setup pattern info": the first, second and third path, unless the path of the
\* file cannot be read.
CollectPath(r, e) ==
    LET s == r.s IN
    IF r.skip \/ s.state \notin building \/ e.file = NULL THEN s
    ELSE IF s.path1 = NULL THEN [s EXCEPT !.path1 = e.file, !.elf_info = gather_elf(e.file)]
    ELSE IF s.path2 = NULL THEN [s EXCEPT !.path2 = e.file, !.state = "PARTIAL"]
    ELSE reset_subject_attributes([s EXCEPT !.state = "FULL"])

new_event(p, e) == CollectPath(FindSubject(p, e), e)

\* new_event() fails on the file: a subject that it just created is evicted.
new_event_Fails(p, e) == LET r == FindSubject(p, e) IN IF r.evict THEN None ELSE r.s

\* make_decision: the pattern ld_preload looks for LD_PRELOAD and LD_AUDIT in the
\* environment of the process, and for these alone the state is changed.
make_decision(s, preload) ==
    clear_proc_info(IF preload THEN [s EXCEPT !.state = "LD_PRELOAD"] ELSE s)

\* subj_pattern_test(), the state it leaves; preload: the rule has the pattern
\* ld_preload and the environment has one of the variables.
subj_pattern_test(s, e, preload) ==
    CASE s.state \in building /\ s.elf_info = {} ->
            clear_proc_info([s EXCEPT !.state = "NOT_ELF"])
      [] s.state = "COLLECTING" /\ "IS_ELF" \in s.elf_info /\ "HAS_DYNAMIC" \notin s.elf_info ->
            make_decision([s EXCEPT !.state = "STATIC_REOPEN"], preload)
      [] s.state = "STATIC_PARTIAL" /\ s.elf_info # {} -> make_decision(s, preload)
      [] s.state \in building \ {"STATIC_PARTIAL"} /\ s.elf_info # {}
            /\ e.type = "exec" /\ s.path1 = SYSTEM_LD_SO ->
            make_decision([s EXCEPT !.state = "LD_SO"], preload)
      [] s.state = "FULL" /\ "HAS_ERROR" \in s.elf_info ->
            clear_proc_info([s EXCEPT !.state = "BAD_ELF"])
      [] s.state = "FULL" /\ "HAS_ERROR" \notin s.elf_info ->
            make_decision([s EXCEPT !.state = IF s.path1 = SYSTEM_LD_SO THEN "LD_SO" ELSE "NORMAL"],
                          preload)
      [] s.state \notin building \cup {"FULL"} -> make_decision(s, preload)
      [] OTHER -> s

\* The rules with a pattern that are tried on an event: none, another one, one for
\* ld_preload that finds the variables, or both; in the other order, or more of
\* them, leave no other subject.
PatternRules == {<<>>, <<FALSE>>, <<TRUE>>, <<FALSE, TRUE>>}

check_patterns(s, e, tests) == FoldLeft(LAMBDA t, preload : subj_pattern_test(t, e, preload), s, tests)

-----------------------------------------------------------------------------
\* event_subject_slot_is_blocked(): the event waits in the defer array.
Blocked(p) == subject # None /\ subject.pid # p /\ subject.state \in building

\* The process calls execve(), or opens a file.
Call(p) ==
    /\ proc[p].todo = <<>>
    /\ \/ \E f \in Runs(p) :
            proc' = [proc EXCEPT ![p].todo = execve(f), ![p].target = f]
       \/ proc' = [proc EXCEPT ![p].todo = <<Open("data")>>]
    /\ UNCHANGED subject

\* What the kernel does with the answer: a refused execve() leaves the program
\* as it was, the last event of an allowed one replaces it.
Answered(p, allow) ==
    LET rest == Tail(proc[p].todo)
        it == proc[p]
    IN  IF it.target = NULL THEN [it EXCEPT !.todo = rest, !.opens = IF @ < 2 THEN @ + 1 ELSE 2]
        ELSE IF ~allow \/ (rest = <<>> /\ it.target \in Unrunnable)
             THEN [it EXCEPT !.todo = <<>>, !.target = NULL, !.followed = FALSE]
        ELSE IF rest = <<>>
             THEN [it EXCEPT !.image = Image(it.target), !.todo = rest, !.target = NULL, !.opens = 0]
        ELSE [it EXCEPT !.todo = rest, !.followed = @ \/ Len(rest) = Len(execve(it.target)) - 1]

\* History: a process is followed from the first event of its execve() until
\* another one takes the slot.
Displaced(p, table) ==
    IF subject = None \/ subject.pid = p THEN table
    ELSE [table EXCEPT ![subject.pid].followed = FALSE, ![subject.pid].opens = 0]

First(p) == proc[p].target # NULL /\ proc[p].todo = execve(proc[p].target)

\* History of p and its current program, when event e was decided with these
\* rules: whether each event was seen and tested, the opens while that is so,
\* whether all paths could be read and no LD_PRELOAD was found, and whether the
\* program is the runtime linker.
Noted(p, e, tests, it) ==
    LET followed == it.followed /\ tests # <<>> /\ e.file # NULL
    IN  [it EXCEPT !.followed = followed,
                   !.opens = IF followed THEN @ ELSE 0,
                   !.plain = /\ First(p) \/ @
                             /\ e.file # NULL
                             /\ \A i \in DOMAIN tests : ~tests[i],
                   !.linker = IF proc[p].target = NULL THEN @ ELSE proc[p].target = SYSTEM_LD_SO]

\* An event is decided.  Which rules are tried on it, and whether one of them looks
\* up an attribute of the program, depends on the rules.
Decide(p, allow) ==
    /\ proc[p].todo # <<>> /\ ~Blocked(p)
    /\ ~allow => proc[p].target # NULL /\ Refusals
    /\ \E e \in {Head(proc[p].todo), [Head(proc[p].todo) EXCEPT !.file = NULL]},
          tests \in PatternRules :
          /\ LET s == check_patterns(new_event(p, e), e, tests)
             IN  \/ subject' = s
                 \/ s.exe = NULL /\ subject' = [s EXCEPT !.exe = proc[p].image]
          /\ proc' = Displaced(p, [proc EXCEPT ![p] = Noted(p, e, tests, Answered(p, allow))])

\* The process entry or the file cannot be examined: the access is refused.
EventFails(p) ==
    /\ proc[p].todo # <<>> /\ ~Blocked(p)
    /\ proc[p].target # NULL => Refusals
    /\ LET it == [Answered(p, FALSE) EXCEPT !.opens = proc[p].opens]
       IN  \/ UNCHANGED subject /\ proc' = [proc EXCEPT ![p] = it]
           \/ /\ subject' = new_event_Fails(p, Head(proc[p].todo))
              /\ proc' = Displaced(p, [proc EXCEPT ![p] = it])

Next == \E p \in Procs : Call(p) \/ EventFails(p) \/ \E allow \in BOOLEAN : Decide(p, allow)

Spec == Init /\ [][Next]_vars

-----------------------------------------------------------------------------
\* Attributes that were read from /proc while execve() still ran describe the
\* old program.  Once the startup pattern of a program is complete, none of them
\* is left: whatever rule is tried next sees the program that makes the access,
\* whichever rules were tried during the execve().  (A program that is recognised
\* before its execve() ends, because it is the runtime linker, has LD_PRELOAD set or
\* has a path that could not be read, keeps what was read until then.)
CurrentProgram ==
    \A p \in Procs :
        proc[p].target = NULL /\ proc[p].image # SYSTEM_LD_SO
        /\ proc[p].plain
        /\ subject # None /\ subject.pid = p
        /\ subject.state \in {"FULL", "NORMAL", "STATIC", "NOT_ELF", "BAD_ELF"}
        => subject.exe \in {NULL, proc[p].image}

\* A program each of whose events was seen, from the first of its execve(), and
\* tested by a rule with a pattern is classified as what it is by its second open at
\* the latest, whatever the process ran before; a rule with the pattern ld_preload
\* may have put its own class in the place of that.
StartupClassified ==
    \A p \in Procs :
        proc[p].followed /\ proc[p].target = NULL /\ proc[p].opens >= 2
        /\ subject # None /\ subject.pid = p
        => \/ subject.state = CASE proc[p].image = "static" -> "STATIC"
                                [] proc[p].image = "ld.so"  -> "LD_SO"
                                [] proc[p].image = "odd"    -> "BAD_ELF"
                                [] OTHER                    -> "NORMAL"
           \/ subject.state = "LD_PRELOAD" /\ ~proc[p].plain

\* fapolicyd.rules(5), pattern=ld_so: "matches access patterns that indicate
\* that the program is being started directly by the runtime linker", when the
\* paths of its execve() could be read and LD_PRELOAD was not found.
StartedByLinker ==
    subject # None /\ subject.state = "LD_SO" /\ proc[subject.pid].plain
    => proc[subject.pid].linker

=============================================================================
