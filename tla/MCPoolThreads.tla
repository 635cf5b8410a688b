--------------------------- MODULE MCPoolThreads ---------------------------
(* Names for the small instances of PoolThreads.tla.                       *)
EXTENDS PoolThreads

CONSTANTS t1, t2, t3
=============================================================================
