------------------------------ MODULE FifoPool ------------------------------
(***************************************************************************)
(* What the main pool of lang/c/gadget/list promises threads that share    *)
(* it: alloc and free take effect at one instant each, as operations on a  *)
(* FIFO queue of the free items.                                           *)
(***************************************************************************)
EXTENDS Naturals, SequencesExt

CONSTANT item_total

VARIABLE queue

Init == queue = [j \in 1 .. item_total |-> j - 1]

Take == queue # <<>> /\ queue' = Tail(queue)

Give == \E i \in 0 .. (item_total - 1) : i \notin ToSet(queue) /\ queue' = Append(queue, i)

Spec == Init /\ [][Take \/ Give]_queue
=============================================================================
