--------------------------- MODULE MCDecisionPool ---------------------------
(* Two workers.  Events 1 and 2 are of one pid, so that one of them can be    *)
(* refused by a full ring or parked behind the other; event 3 is for the      *)
(* other worker.                                                              *)
EXTENDS DecisionPool

MCPidOf == [e \in Events |-> IF e = 3 THEN 2 ELSE 1]
=============================================================================
