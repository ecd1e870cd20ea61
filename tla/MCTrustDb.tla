------------------------------ MODULE MCTrustDb ------------------------------
(* Two workers and the update thread, a database of two records, two slots:   *)
(* enough for a generation to be retired under a reader while the next one is *)
(* built, and for the slots to run out.  One operation fails and one crash    *)
(* happens, at any point.                                                     *)
EXTENDS TrustDbStore

CONSTANTS a, b, w1, w2

MCWorkers == {w1, w2}
MCRecords == {a, b}
MCSnapshots == {{a, b}, {b}}

=============================================================================
