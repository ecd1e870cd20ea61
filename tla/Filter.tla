------------------------------- MODULE Filter -------------------------------
(* library/filter.c: the tree of include and exclude rules that decides which *)
(* files of a trust source are imported.  A path and the pattern of a rule    *)
(* are sequences of symbols: a slash, a letter, "*" for a wildcard, ".." for  *)
(* the name of the parent directory.                                          *)
EXTENDS Integers, Sequences, FiniteSets, SequencesExt

CONSTANT MAX_FILTER_DEPTH

\* A line of the file: its indentation counted from 1, its sign and its path.
ADD == "+"
SUB == "-"

-----------------------------------------------------------------------------
(* The tree: the lines that hold rules, with their parent. *)

\* ancestors[level - 1]: the last rule one level up, 0 for the root
parent(rules, i) ==
    LET up == {j \in 1 .. i - 1 : rules[j].level = rules[i].level - 1}
    IN  IF rules[i].level = 1 THEN 0 ELSE CHOOSE j \in up : \A k \in up : k <= j

\* The children in the order of the file.  list_prepend() keeps them the other
\* way round and the checker visits the last one it pushed.
children(rules, i) == SelectSeq([j \in DOMAIN rules |-> j], LAMBDA j : parent(rules, j) = i)

\* A line that is no rule, an indentation of two levels at once, and a rule
\* nested too deep make the file bad; comments are left out.
filter_load_file(lines) ==
    LET rules == SelectSeq(lines, LAMBDA l : l.type # "#")
        last(i) == IF i = 1 THEN 0 ELSE rules[i - 1].level
    IN  IF \A i \in DOMAIN rules : /\ rules[i].type \in {ADD, SUB}
                                   /\ rules[i].level <= last(i) + 1
                                   /\ rules[i].level < MAX_FILTER_DEPTH
        THEN [res |-> 0, rules |-> rules] ELSE [res |-> 1, rules |-> <<>>]

IsDirectory(rule) == rule.path # <<>> /\ Last(rule.path) = "/"

\* the rules it warns about: children that a file rule cannot stand in for
filter_validate(rules) ==
    {i \in DOMAIN rules : children(rules, i) # <<>> /\ ~IsDirectory(rules[i])}

filter_count_nodes(rules) == Len(rules) + 1

-----------------------------------------------------------------------------
(* Matching one rule. *)

\* fnmatch() without flags: a wildcard also eats slashes.
fnmatch(pattern, text) ==
    LET m[i \in 1 .. Len(pattern) + 1, j \in 1 .. Len(text) + 1] ==
            IF i > Len(pattern) THEN j > Len(text)
            ELSE IF pattern[i] = "*" THEN m[i + 1, j] \/ (j <= Len(text) /\ m[i, j + 1])
            ELSE j <= Len(text) /\ pattern[i] = text[j] /\ m[i + 1, j + 1]
    IN  m[1, 1]

IsWildcard(rule) == "*" \in ToSet(rule.path)

Slashes(seq) == SelectSeq([i \in DOMAIN seq |-> i], LAMBDA i : seq[i] = "/")

\* path_old_lim: the slash of the path that answers the last slash of the
\* pattern, as far as the path has one; the start of the text if there is none.
OldLimit(rule, path, offset) ==
    LET rest == SubSeq(path, offset + 1, Len(path))
        n == LET p == Len(Slashes(rule.path))
                 t == Len(Slashes(rest))
             IN  IF p < t THEN p ELSE t
    IN  IF n = 0 THEN offset ELSE offset + Slashes(rest)[n] - 1

\* A directory pattern is compared with the text up to that slash.
MatchesWildcard(rule, path, offset) ==
    LET limit == OldLimit(rule, path, offset) + 1
        end == IF IsDirectory(rule) /\ limit < Len(path) THEN limit ELSE Len(path)
    IN  fnmatch(rule.path, SubSeq(path, offset + 1, end))

\* strncmp(): the text begins with the path of the rule.
MatchesLiteral(rule, path, offset) == IsPrefix(rule.path, SubSeq(path, offset + 1, Len(path)))

Matches(rule, path, offset) ==
    IF IsWildcard(rule) THEN MatchesWildcard(rule, path, offset) ELSE MatchesLiteral(rule, path, offset)

\* Where the children go on.  For a wildcard the offset is added to a position
\* that is counted from the start of the path; beyond the end of the path the
\* children find nothing.
Advance(rule, path, offset) ==
    IF IsWildcard(rule) THEN OldLimit(rule, path, offset) + offset ELSE offset + Len(rule.path)

-----------------------------------------------------------------------------
(* filter_check(), with the stack of the rules still to be tried. *)

\* Repeated separators count as one.
Normalized(path) ==
    LET kept == SelectSeq([i \in DOMAIN path |-> i], LAMBDA i : i = 1 \/ path[i] # "/" \/ path[i - 1] # "/")
    IN  [i \in DOMAIN kept |-> path[kept[i]]]

HasParentReference(path) ==
    \E i \in DOMAIN path : /\ path[i] = ".." /\ (i = 1 \/ path[i - 1] = "/")
                           /\ (i = Len(path) \/ path[i + 1] = "/")

Frame(i, offset) == [rule |-> i, offset |-> offset, processed |-> FALSE, matched |-> FALSE]

filter_stack_push(stack, nodes, offset) == stack \o [k \in DOMAIN nodes |-> Frame(nodes[k], offset)]

\* the walk has come to a verdict, or goes on with a stack
Decided(verdict) == [verdict |-> verdict, stack |-> <<>>]
GoOn(stack) == [verdict |-> "none", stack |-> stack]

\* Mutant: a directory rule decides even when it did not match.
Unwind_Unmatched(stack, rules) ==
    LET settled == {k \in DOMAIN stack : stack[k].processed /\ stack[k].rule # 0
                                         /\ IsDirectory(rules[stack[k].rule])
                                         /\ \A j \in k .. Len(stack) : stack[j].processed}
        open == {k \in DOMAIN stack : ~stack[k].processed}
        top == CHOOSE k \in open : \A j \in open : j <= k
    IN  IF settled # {} THEN Decided(rules[stack[CHOOSE k \in settled : \A j \in settled : j <= k].rule].type)
        ELSE IF open = {} THEN Decided(SUB) ELSE GoOn(SubSeq(stack, 1, top))

\* The rules that are done are popped.  The first of them that matched and is a
\* directory decides; otherwise the next rule is on top, or none is left.
Unwind(stack, rules) ==
    LET settled == {k \in DOMAIN stack : stack[k].matched /\ IsDirectory(rules[stack[k].rule])
                                         /\ \A j \in k .. Len(stack) : stack[j].processed}
        open == {k \in DOMAIN stack : ~stack[k].processed}
        top == CHOOSE k \in open : \A j \in open : j <= k
    IN  IF settled # {} THEN Decided(rules[stack[CHOOSE k \in settled : \A j \in settled : j <= k].rule].type)
        ELSE IF open = {} THEN Decided(SUB) ELSE GoOn(SubSeq(stack, 1, top))

\* One turn of the loop, for the rule on top.
Visit(stack, rules, path) ==
    LET n == Len(stack)
        top == stack[n]
        rule == rules[top.rule]
        matched == top.rule # 0 /\ Matches(rule, path, top.offset)
        offset == IF top.rule = 0 THEN top.offset ELSE Advance(rule, path, top.offset)
        below == IF top.rule = 0 \/ matched THEN Reverse(children(rules, top.rule)) ELSE <<>>
        marked == [stack EXCEPT ![n].processed = TRUE, ![n].matched = matched]
    IN  IF matched /\ below = <<>> /\ (IsWildcard(rule) \/ offset = Len(path)) THEN Decided(rule.type)
        ELSE IF n + Len(below) > filter_count_nodes(rules) THEN Decided("depth error")
        ELSE Unwind(filter_stack_push(marked, below, offset), rules)

RECURSIVE Walk(_, _, _)
Walk(stack, rules, path) ==
    LET next == Visit(stack, rules, path)
    IN  IF next.stack = <<>> THEN next.verdict ELSE Walk(next.stack, rules, path)

filter_check(rules, source) ==
    LET path == Normalized(source)
    IN  IF HasParentReference(path) THEN SUB ELSE Walk(<<Frame(0, 0)>>, rules, path)

\* What is left of a list of paths; a verdict that failed excludes the path.
filter_prune_list(rules, list) == SelectSeq(list, LAMBDA path : filter_check(rules, path) = ADD)

-----------------------------------------------------------------------------
(* What the rules mean: the first rule of a level that decides, a rule being   *)
(* asked about what its parents left of the path.                             *)

\* What is left after rule, which the text matches.
Rest(rule, text) ==
    IF ~IsWildcard(rule) THEN SubSeq(text, Len(rule.path) + 1, Len(text))
    ELSE SubSeq(text, Slashes(text)[Len(Slashes(rule.path))] + 1, Len(text))

FirstDecided(verdicts) ==
    LET said == SelectSeq(verdicts, LAMBDA v : v # "none") IN IF said = <<>> THEN "none" ELSE said[1]

RECURSIVE Verdict(_, _, _)
Verdict(rules, i, text) ==
    LET below == children(rules, i)
        Among(rest) == FirstDecided([k \in DOMAIN below |-> Verdict(rules, below[k], rest)])
    IN  IF i = 0 THEN Among(text)
        ELSE IF ~Matches(rules[i], text, 0) THEN "none"
        ELSE IF below = <<>>
             THEN IF IsWildcard(rules[i]) \/ IsDirectory(rules[i]) \/ Rest(rules[i], text) = <<>>
                  THEN rules[i].type ELSE "none"
        ELSE LET inner == Among(Rest(rules[i], text))
             IN  IF inner = "none" /\ IsDirectory(rules[i]) THEN rules[i].type ELSE inner

\* Rules whose wildcards stand at the end of a branch, or name a directory.
Sensible(rules) ==
    \A i \in DOMAIN rules : IsWildcard(rules[i]) /\ children(rules, i) # <<>> => IsDirectory(rules[i])

\* Rules with children below a wildcard only directly inside the directory "/".
WildcardsAtTop(rules) ==
    \A i \in DOMAIN rules : IsWildcard(rules[i]) /\ children(rules, i) # <<>> =>
        rules[i].level = 2 /\ rules[parent(rules, i)].path = <<"/">>

\* The verdict on a path is that of the rules read from top to bottom, a child
\* narrowing its parent and a directory standing in for children that are
\* silent; it does not depend on how often a slash is repeated, the stack never
\* overflows, and what no rule decides is excluded.
FilterDecides(rules, path) ==
    Sensible(rules) =>
        filter_check(rules, path) =
            IF HasParentReference(path) \/ Verdict(rules, 0, Normalized(path)) = "none" THEN SUB
            ELSE Verdict(rules, 0, Normalized(path))

=============================================================================
