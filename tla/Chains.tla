------------------------------- MODULE Chains -------------------------------
(***************************************************************************)
(* Lists in an array: an item is an index, and its link field holds the    *)
(* index of the next item or INVALID_LIST_HEAD (lang/c/gadget/list).       *)
(***************************************************************************)
EXTENDS Naturals, Sequences, Functions

CONSTANTS item_total,         \* elements in the array
          INVALID_LIST_HEAD   \* 0xffffffff, the index of no item

Items == 0 .. (item_total - 1)
Links == Items \cup {INVALID_LIST_HEAD}

\* A pool of no items would make list_info_init() write before the array, and
\* the sentinel must not be the index of an item.
ASSUME ChainAssumption ==
  /\ item_total \in Nat \ {0}
  /\ INVALID_LIST_HEAD \notin Items

\* The sequences of items, none repeated, that a chain can visit.
Paths == {p \in UNION {[1 .. n -> Items] : n \in 0 .. item_total} : IsInjective(p)}

\* Following the links g from h visits exactly p and ends at INVALID_LIST_HEAD.
Chain(g, h, p) ==
  /\ h = IF 1 \in DOMAIN p THEN p[1] ELSE INVALID_LIST_HEAD
  /\ \A j \in DOMAIN p :
       g[p[j]] = IF j + 1 \in DOMAIN p THEN p[j + 1] ELSE INVALID_LIST_HEAD

\* Where following the links g from h is at each step, and the items on the way
\* (cut off, should it never end).
Walk(g, h) ==
  LET at[j \in 1 .. item_total] ==
        IF j = 1 THEN h
        ELSE LET i == at[j - 1]
             IN  IF i = INVALID_LIST_HEAD THEN INVALID_LIST_HEAD ELSE g[i]
  IN  at

PathOf(g, h) ==
  LET at == Walk(g, h) IN [j \in {k \in 1 .. item_total : at[k] # INVALID_LIST_HEAD} |-> at[j]]

LastOf(p) == IF p = <<>> THEN INVALID_LIST_HEAD ELSE p[Len(p)]

\* What list_info_init() writes in the main link fields.
list_info_init ==
  [i \in Items |-> IF i = item_total - 1 THEN INVALID_LIST_HEAD ELSE i + 1]
=============================================================================
