------------------------------ MODULE MCQueue ------------------------------
(* A ring of two slots that is lapped twice, with two spare semaphore posts.  *)
EXTENDS Queue
=============================================================================
