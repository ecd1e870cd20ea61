-------------------------- MODULE MCDecisionWorker --------------------------
(* A two-slot cache.  Tasks a1 and a2 of process 2 and b of process 4 share   *)
(* slot 0; c of process 1 and d of process 3 share slot 1.                    *)
EXTENDS DecisionWorker

MCPidOf == [t \in Tasks |->
    CASE t \in {"a1", "a2"} -> 2 [] t = "b" -> 4 [] t = "c" -> 1 [] t = "d" -> 3]
=============================================================================
