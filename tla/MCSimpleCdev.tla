---------------------------- MODULE MCSimpleCdev ----------------------------
(* Small instances of SimpleCdev.tla.                                      *)
EXTENDS SimpleCdev, TLC

CONSTANTS t1, t2, f1, f2

TwoSymmetries == Permutations(Threads) \cup Permutations(Files)
=============================================================================
