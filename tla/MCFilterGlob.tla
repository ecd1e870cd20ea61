----------------------------- MODULE MCFilterGlob ----------------------------
(* The trust filter on the rules                                              *)
(*     - /a/                                                                  *)
(*      - */                                                                  *)
(*       + b                                                                  *)
(* whose wildcard has a child and is itself below a directory.                *)
EXTENDS Filter

VARIABLE path

RuleFile == <<[level |-> 1, type |-> SUB, path |-> <<"/", "a", "/">>],
              [level |-> 2, type |-> SUB, path |-> <<"*", "/">>],
              [level |-> 3, type |-> ADD, path |-> <<"b">>]>>

Init == path \in {<<"/", "a", "/", "c", "/", "b">>, <<"/", "a", "/", "b", "/", "b">>,
                  <<"/", "a", "/", "c", "/", "c">>, <<"/", "b">>}

Next == UNCHANGED path

Spec == Init /\ [][Next]_path

\* fapolicyd-filter.conf(5): specifications on one indentation level "extend the
\* previous line with lower indentation", which may be a glob pattern: every path
\* gets the verdict that the rules give when read that way.
NestedGlobDecides == FilterDecides(filter_load_file(RuleFile).rules, path)

=============================================================================
