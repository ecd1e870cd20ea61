-------------------------------- MODULE Rules --------------------------------
(* Rules: parsing and evaluation (library/rules.c, attr-sets.c) and the       *)
(* linter that judges their shape (cli/rule-lint.c).                          *)
(*                                                                            *)
(* A string is the sequence of its fragments, so that a directory prefix is a *)
(* sequence prefix; a macro or a name is one fragment.  A line of a rule file *)
(* is blank, a set definition or a rule; a rule is its decision and tokens.   *)
EXTENDS Integers, Sequences, FiniteSets, SequencesExt

CONSTANTS
    Users,              \* the ids of the user and group names the system knows
    Rooted, Slashed     \* the fragments that begin, that end with a slash

UNSIGNED == "UNSIGNED"
SIGNED == "SIGNED"
STRING_SET == "STRING"

Num(n) == [kind |-> "int", n |-> n]
Str(s) == [kind |-> "str", s |-> s]
Name(w) == IF w.kind = "str" THEN w.s[1] ELSE "number"

-----------------------------------------------------------------------------
(* attr-sets.c: typed sets of values.                                         *)

attr_set_create(type) == [type |-> type, vals |-> {}]
Failed == [type |-> "failed", vals |-> {}]
Ok(set) == set.type # "failed"

\* Negative numbers do not go into unsigned sets, and no value goes in twice.
attr_set_append_int(set, n) ==
    IF \/ set.type \notin {SIGNED, UNSIGNED}
       \/ set.type = UNSIGNED /\ n < 0
       \/ n \in set.vals
    THEN Failed ELSE [set EXCEPT !.vals = @ \cup {n}]

attr_set_append_str(set, s) ==
    IF set.type # STRING_SET \/ s \in set.vals
    THEN Failed ELSE [set EXCEPT !.vals = @ \cup {s}]

attr_set_check_int(set, n) ==
    /\ set.type \in {SIGNED, UNSIGNED} /\ ~(set.type = UNSIGNED /\ n < 0)
    /\ n \in set.vals

attr_set_check_str(set, s) == set.type = STRING_SET /\ s \in set.vals

attr_set_check_pstr(set, s) ==
    set.type = STRING_SET /\ \E p \in set.vals : IsPrefix(p, s)

IsGlob(s) == s # <<>> /\ s[1] = "glob:"
has_glob(set) == set.type = STRING_SET /\ \E s \in set.vals : IsGlob(s)

-----------------------------------------------------------------------------
(* Names of the attributes, in the old format and in the one with a colon.    *)

OldSubjects == {"all", "auid", "uid", "sessionid", "pid", "pattern", "comm", "exe",
                "exe_dir", "exe_type"}
NewSubjects == {"all", "auid", "uid", "sessionid", "pid", "ppid", "pattern", "trust",
                "gid", "comm", "exe", "dir", "ftype"}
Objects == {"all", "path", "dir", "device", "ftype", "trust", "filehash"}
Unknown == "unknown"

subj_name_to_val(name, colon) ==
    CASE ~colon /\ name = "exe_dir" -> "dir"
      [] ~colon /\ name = "exe_type" -> "ftype"
      [] colon /\ name \in NewSubjects -> name
      [] ~colon /\ name \in OldSubjects \ {"exe_dir", "exe_type"} -> name
      [] OTHER -> Unknown

obj_name_to_val(name) ==
    CASE name = "sha256hash" -> "filehash"
      [] name \in Objects -> name
      [] OTHER -> Unknown

Numeric == {"auid", "uid", "sessionid", "gid", "pid", "ppid"}
SetType(type) == IF type \in {"pid", "ppid"} THEN SIGNED ELSE UNSIGNED
SubjectStrings == {"comm", "exe", "dir", "ftype"}
ObjectStrings == {"dir", "path", "device", "ftype", "filehash"}

-----------------------------------------------------------------------------
(* A rule list: its sets by name, its rules, and whether a line failed.       *)

rules_create == [sets |-> <<>>, rules |-> <<>>, mask |-> {}]
Sets(l) == {l.sets[i] : i \in DOMAIN l.sets}
Defined(l, name) == \E e \in Sets(l) : e.name = name
attr_sets_find(l, name) == (CHOOSE e \in Sets(l) : e.name = name).set
attr_sets_add(l, name, set) ==
    [l EXCEPT !.sets = Append(@, [name |-> name, set |-> set])]

NoField == [type |-> "failed"]

validate_glob_set(type, set) ==
    has_glob(set) =>
        /\ type \in {"exe", "path"}
        /\ \A s \in set.vals : IsGlob(s) => Len(s) > 1 /\ s[2] \in Rooted

\* One number of an auid, uid, sessionid, gid, pid or ppid list.
AppendNumber(set, type, w) ==
    CASE w.kind = "int" -> attr_set_append_int(set, w.n)
      [] w.kind = "str" /\ type \in {"auid", "uid", "gid"} ->
            IF w.s[1] \in DOMAIN Users THEN attr_set_append_int(set, Users[w.s[1]]) ELSE Failed
      [] OTHER -> set

AppendString(set, w) ==
    IF attr_set_check_str(set, w.s) THEN set ELSE attr_set_append_str(set, w.s)

Collect(set, words, Step(_, _)) ==
    FoldLeft(LAMBDA acc, w : IF Ok(acc) THEN Step(acc, w) ELSE acc, set, words)

\* trust=: strtoul() of anything else than a number is 0.
TrustValue(w) == IF w.kind = "int" THEN w.n ELSE 0

Field(type, ref, set, val) == [type |-> type, ref |-> ref, set |-> set, val |-> val]
Checked(f) == IF Ok(f.set) /\ validate_glob_set(f.type, f.set) THEN f ELSE NoField

\* assign_subject(): the field, or NoField.
assign_subject(l, type, tok) ==
    IF tok.ref # "" THEN
        IF ~Defined(l, tok.ref) \/ type \in {"trust", "pattern"} THEN NoField
        ELSE LET set == attr_sets_find(l, tok.ref)
                 expected == IF type \in SubjectStrings THEN STRING_SET ELSE SetType(type)
             IN  IF set.type # expected THEN NoField
                 ELSE Checked(Field(type, tok.ref, set, 0))
    ELSE CASE type = "all" -> Field("all", "", attr_set_create(STRING_SET), 0)
           [] type \in Numeric ->
                Checked(Field(type, "", Collect(attr_set_create(SetType(type)), tok.words,
                              LAMBDA acc, w : AppendNumber(acc, type, w)), 0))
           [] type = "pattern" ->
                IF Len(tok.words) # 1 \/ Name(tok.words[1]) \notin
                       {"normal", "ld_so", "static", "ld_preload"}
                THEN NoField
                ELSE Field("pattern", "", attr_set_create(STRING_SET), tok.words[1].s[1])
           [] type = "trust" ->
                IF Len(tok.words) # 1 \/ TrustValue(tok.words[1]) \notin {0, 1} THEN NoField
                ELSE Field("trust", "", attr_set_create(STRING_SET), TrustValue(tok.words[1]))
           [] type \in SubjectStrings ->
                Checked(Field(type, "", Collect(attr_set_create(STRING_SET), tok.words,
                                                AppendString), 0))

\* assign_object()
assign_object(l, type, tok) ==
    IF tok.ref # "" THEN
        IF ~Defined(l, tok.ref) \/ type = "trust" THEN NoField
        ELSE IF attr_sets_find(l, tok.ref).type # STRING_SET THEN NoField
        ELSE Checked(Field(type, tok.ref, attr_sets_find(l, tok.ref), 0))
    ELSE CASE type = "all" -> Field("all", "", attr_set_create(STRING_SET), 0)
           [] type = "trust" ->
                IF Len(tok.words) # 1 \/ TrustValue(tok.words[1]) \notin {0, 1} THEN NoField
                ELSE Field("trust", "", attr_set_create(STRING_SET), TrustValue(tok.words[1]))
           [] type \in ObjectStrings ->
                Checked(Field(type, "", Collect(attr_set_create(STRING_SET), tok.words,
                                                AppendString), 0))

-----------------------------------------------------------------------------
(* nv_split() and parse_new_format(): tokens are consumed from left to right; *)
(* st.object is parse_new_format()'s state, st.new that it has taken over.    *)

Fail(st) == [st EXCEPT !.ok = FALSE]
WithSubject(st, f) ==
    IF f = NoField THEN Fail(st) ELSE [st EXCEPT !.s = Append(@, f)]
WithObject(st, f) ==
    IF f = NoField THEN Fail(st) ELSE [st EXCEPT !.o = Append(@, f)]

Subject(l, st, name, colon, tok) ==
    LET type == subj_name_to_val(name, colon) IN
    IF type = Unknown THEN Fail(st) ELSE WithSubject(st, assign_subject(l, type, tok))
Object(l, st, name, tok) ==
    LET type == obj_name_to_val(name) IN
    IF type = Unknown THEN Fail(st) ELSE WithObject(st, assign_object(l, type, tok))

AllToken == [name |-> "all", eq |-> TRUE, ref |-> "", words |-> <<>>]

parse_new_format(l, st, tok) ==
    CASE tok.eq /\ ~st.object -> Subject(l, st, tok.name, TRUE, tok)
      [] tok.eq /\ st.object -> Object(l, st, tok.name, tok)
      [] ~tok.eq /\ tok.name = ":" /\ ~st.object -> [st EXCEPT !.object = TRUE]
      [] ~tok.eq /\ tok.name = "all" ->
            IF st.object THEN WithObject(st, assign_object(l, "all", AllToken))
            ELSE WithSubject(st, assign_subject(l, "all", AllToken))
      [] OTHER -> Fail(st)

Permission(st, tok) ==
    LET p == Name(tok.words[1]) IN
    IF p \in {"execute", "any", "open"} THEN [st EXCEPT !.a = p, !.new = TRUE] ELSE Fail(st)

split_token(l, st, colon, tok) ==
    CASE st.new -> parse_new_format(l, st, tok)
      [] ~st.new /\ tok.eq /\ colon ->
            IF tok.name = "perm" THEN Permission(st, tok)
            ELSE Subject(l, [st EXCEPT !.new = TRUE], tok.name, TRUE, tok)
      [] ~st.new /\ tok.eq /\ ~colon ->
            IF subj_name_to_val(tok.name, FALSE) = Unknown
            THEN Object(l, st, tok.name, tok) ELSE Subject(l, st, tok.name, FALSE, tok)
      [] ~st.new /\ ~tok.eq /\ tok.name = "all" ->
            IF st.s = <<>> THEN WithSubject(st, assign_subject(l, "all", AllToken))
            ELSE IF st.o = <<>> THEN WithObject(st, assign_object(l, "all", AllToken))
            ELSE Fail(st)
      [] OTHER -> Fail(st)

Decisions == {"allow", "deny", "allow_audit", "deny_audit", "allow_syslog", "deny_syslog",
              "allow_log", "deny_log"}

nv_split(l, line) ==
    LET start == [ok |-> line.dec \in Decisions, a |-> "open", s |-> <<>>, o |-> <<>>,
                  object |-> FALSE, new |-> FALSE]
        end == FoldLeft(LAMBDA st, t : IF st.ok THEN split_token(l, st, line.colon, t)
                                       ELSE st, start, line.tokens)
    IN  IF end.s = <<>> \/ end.o = <<>> THEN Fail(end) ELSE end

-----------------------------------------------------------------------------
(* parse_set_line(): the type is inferred from the values.                    *)

InferredType(words) ==
    IF words = <<>> \/ \E i \in DOMAIN words : words[i].kind = "str" THEN STRING_SET
    ELSE IF \E i \in DOMAIN words : words[i].n < 0 THEN SIGNED ELSE UNSIGNED

\* A number that ends up in a string set is its spelling.
Spelling(w) == IF w.kind = "str" THEN w.s ELSE <<"number", w.n>>

append_language_set_values(set, words) ==
    IF set.type # STRING_SET \/ words = <<>>
       \/ \E i \in DOMAIN words : IsGlob(Spelling(words[i]))
    THEN Failed
    ELSE [set EXCEPT !.vals = @ \cup {Spelling(words[i]) : i \in DOMAIN words}]

\* The list with the set, or Bad.
Bad == [sets |-> <<>>, rules |-> <<>>, mask |-> {"bad line"}]

parse_set_line(l, line) ==
    LET type == InferredType(line.words)
        set == Collect(attr_set_create(type), line.words,
                       LAMBDA acc, w : IF type = STRING_SET
                                       THEN attr_set_append_str(acc, Spelling(w))
                                       ELSE attr_set_append_int(acc, w.n))
    IN  IF ~line.valid THEN Bad
        ELSE IF line.append THEN
            IF line.name # "languages" \/ ~Defined(l, line.name) THEN Bad
            ELSE LET more == append_language_set_values(attr_sets_find(l, line.name),
                                                        line.words)
                 IN  IF ~Ok(more) THEN Bad
                     ELSE [l EXCEPT !.sets = [i \in DOMAIN @ |->
                               IF @[i].name = "languages" THEN [@[i] EXCEPT !.set = more]
                               ELSE @[i]]]
        ELSE IF Defined(l, line.name) \/ ~Ok(set) THEN Bad
        ELSE attr_sets_add(l, line.name, set)

\* Which fields of /proc/<pid>/status the rules will need.
StatusMask(fields) ==
    {fields[i].type : i \in DOMAIN fields} \cap {"uid", "ppid", "gid", "comm"}

rules_append(l, line) ==
    CASE line.kind = "blank" -> l
      [] line.kind = "set" -> parse_set_line(l, line)
      [] line.kind = "rule" ->
            LET n == nv_split(l, line) IN
            IF ~n.ok THEN Bad
            ELSE [l EXCEPT !.rules = Append(@, [d |-> line.dec, a |-> n.a, s |-> n.s,
                                                o |-> n.o]),
                           !.mask = @ \cup StatusMask(n.s)]

load(lines) ==
    FoldLeft(LAMBDA l, line : IF l = Bad THEN Bad ELSE rules_append(l, line),
             rules_create, lines)

\* A field that refers to a named set sees what the set has become since.
SetOf(l, f) == IF f.ref = "" THEN f.set ELSE attr_sets_find(l, f.ref)

-----------------------------------------------------------------------------
(* Evaluation.  An event has a type, and the attributes of its subject and    *)
(* object as records without the fields for which get_subj_attr() and         *)
(* get_obj_attr() return NULL.                                                *)

check_access(r, e) == r.a = "any" \/ r.a = (IF e.type = "exec" THEN "execute" ELSE "open")

execdirs == {"/usr/", "/bin/", "/sbin/", "/lib/", "/lib64/"}
systemdirs == execdirs \cup {"/etc/"}
check_dirs(dirs, path) == path # <<>> /\ path[1] \in dirs

Has(attrs, type) == type \in DOMAIN attrs
is_subj_trusted(e) == Has(e.s, "trust") /\ e.s.trust = 1
is_obj_trusted(e) == Has(e.o, "trust") /\ e.o.trust = 1

\* external: fnmatch() with FNM_PATHNAME, a star standing for one component.
fnmatch(pattern, path) ==
    Len(pattern) = Len(path) /\ \A i \in DOMAIN path : pattern[i] \in {"*", path[i]}

path_set_match(set, path) ==
    \/ attr_set_check_str(set, path)
    \/ \E p \in set.vals : IsGlob(p) /\ fnmatch(Tail(p), path)

\* The dir attribute of either side.
dir_match(set, path, trusted) ==
    \/ <<"execdirs">> \in set.vals /\ check_dirs(execdirs, path)
    \/ <<"systemdirs">> \in set.vals /\ check_dirs(systemdirs, path)
    \/ <<"untrusted">> \in set.vals /\ ~trusted
    \/ attr_set_check_pstr(set, path)

\* One field of check_subject().  The pattern attribute is the verdict of the
\* startup pattern: -1 for a broken ELF file, which counts as a match.
subject_match(set, f, e) ==
    LET v == e.s[f.type] IN
    CASE f.type = "all" -> TRUE
      [] f.type = "pattern" -> v \in {f.val, "bad"}
      [] f.type \notin {"all", "pattern"} /\ ~Has(e.s, f.type) -> TRUE
      [] OTHER ->
    CASE f.type = "trust" -> v = f.val
      [] f.type \in {"auid", "sessionid", "pid", "ppid"} -> attr_set_check_int(set, v)
      [] f.type \in {"uid", "gid"} -> set.vals \cap v # {}
      [] f.type = "exe" ->
            (<<"untrusted">> \in set.vals /\ ~is_subj_trusted(e)) \/ path_set_match(set, v)
      [] f.type \in {"comm", "ftype"} -> attr_set_check_str(set, v)
      [] f.type = "dir" -> dir_match(set, v, is_subj_trusted(e))

\* An ELF error ends the loop over the subject's fields with a match.
check_subject(l, r, e) ==
    LET broken == {i \in DOMAIN r.s : r.s[i].type = "pattern" /\ e.s["pattern"] = "bad"} IN
    \A i \in DOMAIN r.s :
        (\E j \in broken : j < i) \/ subject_match(SetOf(l, r.s[i]), r.s[i], e)

legacy_untrusted_subject_path_blocked(l, r, i, e) ==
    /\ i \in DOMAIN r.s /\ r.s[i].type \in {"exe", "dir"}
    /\ attr_set_check_str(SetOf(l, r.s[i]), <<"untrusted">>)
    /\ is_obj_trusted(e)

object_match(set, f, e) ==
    LET v == e.o[f.type] IN
    CASE f.type = "all" -> TRUE
      [] f.type # "all" /\ ~Has(e.o, f.type) -> f.type # "filehash"
      [] OTHER ->
    CASE f.type = "trust" -> v = f.val
      [] f.type = "ftype" -> <<"any">> \in set.vals \/ attr_set_check_str(set, v)
      [] f.type \in {"device", "filehash"} -> attr_set_check_str(set, v)
      [] f.type = "path" ->
            (<<"ld_so">> \in set.vals /\ v = <<"/lib64/", "ld.so">>) \/ path_set_match(set, v)
      [] f.type = "dir" -> dir_match(set, v, is_obj_trusted(e))

check_object(l, r, e) ==
    \A i \in DOMAIN r.o :
        /\ r.o[i].type = "path" => ~legacy_untrusted_subject_path_blocked(l, r, i, e)
        /\ object_match(SetOf(l, r.o[i]), r.o[i], e)

rule_evaluate(l, r, e) == check_access(r, e) /\ check_subject(l, r, e) /\ check_object(l, r, e)

\* The loop of process_event_evaluate(): the first rule that matches, 0 if none.
Decider(l, e) ==
    LET hits == {i \in DOMAIN l.rules : rule_evaluate(l, l.rules[i], e)} IN
    IF hits = {} THEN 0 ELSE CHOOSE i \in hits : \A j \in hits : i <= j

-----------------------------------------------------------------------------
(* cli/rule-lint.c.                                                           *)

rule_is_deny(r) == r.d \in {"deny", "deny_audit", "deny_syslog", "deny_log"}
rule_is_allow(r) == ~rule_is_deny(r)
rule_is_broad_subject(r) == Len(r.s) = 1 /\ r.s[1].type = "all"

\* Mutant: the object side is not looked at.
rule_is_broad_object_Any(r) == r.o # <<>>

rule_is_broad_object(r) == Len(r.o) = 1 /\ r.o[1].type = "all"
rule_matches_execute(r) == r.a \in {"execute", "any"}
rule_matches_open(r) == r.a \in {"open", "any"}
rule_has_type(fields, type) == \E i \in DOMAIN fields : fields[i].type = type
rule_has_only_language_ftype(r) ==
    Len(r.o) = 1 /\ r.o[1].type = "ftype" /\ r.o[1].ref = "languages"

lint_redundant_all(r) ==
    (Len(r.s) > 1 /\ rule_has_type(r.s, "all")) \/ (Len(r.o) > 1 /\ rule_has_type(r.o, "all"))

lint_untrusted_allow(r) ==
    rule_is_allow(r) /\ \E fields \in {r.s, r.o} : \E i \in DOMAIN fields :
        fields[i].type = "trust" /\ fields[i].val = 0

lint_dir_set(set) == \E s \in set.vals : s[1] \in Rooted /\ Last(s) \notin Slashed
lint_directory_prefixes(l, r) ==
    \E fields \in {r.s, r.o} : \E i \in DOMAIN fields :
        fields[i].type = "dir" /\ lint_dir_set(SetOf(l, fields[i]))

First(S) == IF S = {} THEN 0 ELSE CHOOSE i \in S : \A j \in S : i <= j
LastOf(S) == IF S = {} THEN 0 ELSE CHOOSE i \in S : \A j \in S : i >= j

\* lint_rules_policy(): whether it finds nothing to warn about.
lint_clean(l) ==
    LET rules == l.rules
        last_exec == LastOf({i \in DOMAIN rules : rule_matches_execute(rules[i])})
        lang_deny == First({i \in DOMAIN rules :
            rule_is_deny(rules[i]) /\ rule_matches_open(rules[i])
            /\ rule_is_broad_subject(rules[i]) /\ rule_has_only_language_ftype(rules[i])})
        open_allow == First({i \in DOMAIN rules :
            rule_is_allow(rules[i]) /\ rule_matches_open(rules[i])
            /\ rule_is_broad_subject(rules[i]) /\ rule_is_broad_object(rules[i])})
    IN  /\ \A i \in DOMAIN rules : /\ ~lint_redundant_all(rules[i])
                                   /\ ~lint_untrusted_allow(rules[i])
                                   /\ ~lint_directory_prefixes(l, rules[i])
        /\ last_exec # 0 /\ rule_is_deny(rules[last_exec])
        /\ rule_is_broad_subject(rules[last_exec]) /\ rule_is_broad_object(rules[last_exec])
        /\ Defined(l, "languages") /\ lang_deny # 0
        /\ open_allow # 0 => lang_deny < open_allow

-----------------------------------------------------------------------------
\* A rule that lets every subject open every object.
OpensAll(r) == rule_is_allow(r) /\ \A side \in {r.s, r.o} : Len(side) = 1 /\ side[1].type = "all"

\* A rules file that load() accepts and about which the linter has nothing to say
\* leaves no execution without a deciding rule, and no rule that opens everything
\* to everyone is reached by an access to a file of one of the %languages.
LintedPolicyDecides(l, events) ==
    l # Bad /\ lint_clean(l) =>
        \A e \in events :
            LET d == Decider(l, e) IN
            /\ e.type = "exec" => d # 0
            /\ e.type = "open" /\ e.o.ftype \in attr_sets_find(l, "languages").vals
                   => d # 0 /\ ~OpensAll(l.rules[d])

=============================================================================
