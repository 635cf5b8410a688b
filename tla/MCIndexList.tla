---------------------------- MODULE MCIndexList ----------------------------
(* Names and the hash of the small instances of IndexList.tla.             *)
EXTENDS IndexList, TLC

CONSTANTS k1, k2, b1, pnext, pnext2

OneSlot == [k \in Keys |-> b1]

\* New pages: every link is 0, the index of an item.
ZeroPages == {[i \in Items |-> 0]}

\* The keys are only compared, and share a slot.
KeySymmetry == Permutations(Keys)
=============================================================================
