---------------------------- MODULE PoolThreads ----------------------------
(***************************************************************************)
(* The main pool of lang/c/gadget/list shared by several threads, one line *)
(* of list_alloc_item() and list_free_item() at a time.  The code has no   *)
(* lock yet, only comments that say where listinfo->lock is to be taken    *)
(* and released (list.c:61, 72, 78, 81, 91); the lock is modelled where    *)
(* they put it, which leaves the write of line 93 outside.  pc is the line *)
(* a thread runs next; 61 and 78 wait for the lock.                        *)
(***************************************************************************)
EXTENDS Chains

CONSTANTS Threads,
          NoThread   \* who has a lock nobody has

ASSUME ThreadsAssumption == NoThread \notin Threads

VARIABLES next,       \* main link field of each item
          free_head, free_tail,
          lock,       \* the thread that has listinfo->lock
          held,       \* items the threads have, outside the calls
          pc,
          item        \* the argument of free, or alloc's local `new'

vars == <<next, free_head, free_tail, lock, held, pc, item>>

Init == /\ next = list_info_init
        /\ free_head = 0
        /\ free_tail = item_total - 1
        /\ lock = NoThread
        /\ held = {}
        /\ pc = [t \in Threads |-> "idle"]
        /\ item = [t \in Threads |-> INVALID_LIST_HEAD]

Line(t, from, to) == pc[t] = from /\ pc' = [pc EXCEPT ![t] = to]

get_lock(t)     == lock = NoThread /\ lock' = t
release_lock(t) == lock' = NoThread

-----------------------------------------------------------------------------
(* list_alloc_item()                                                       *)

CallAlloc(t) == /\ Line(t, "idle", "78")
                /\ UNCHANGED <<next, free_head, free_tail, lock, held, item>>

\* The lock of line 78 left out.
Line78_slip(t) == /\ Line(t, "78", "80")
                  /\ UNCHANGED <<next, free_head, free_tail, lock, held, item>>

Line78(t) == /\ Line(t, "78", "80")
             /\ get_lock(t)
             /\ UNCHANGED <<next, free_head, free_tail, held, item>>

\* Refuses to hand out the last item.
Line80_slip(t) == /\ Line(t, "80", IF free_head \in {INVALID_LIST_HEAD, free_tail} THEN "81" ELSE "85")
                  /\ UNCHANGED <<next, free_head, free_tail, lock, held, item>>

Line80(t) == /\ Line(t, "80", IF free_head = INVALID_LIST_HEAD THEN "81" ELSE "85")
             /\ UNCHANGED <<next, free_head, free_tail, lock, held, item>>

\* Instead of returning INVALID_LIST_HEAD, the call starts again.
Line81_slip(t) == /\ Line(t, "81", "78")
                  /\ release_lock(t)
                  /\ UNCHANGED <<next, free_head, free_tail, held, item>>

Line81(t) == /\ Line(t, "81", "idle")
             /\ release_lock(t)
             /\ UNCHANGED <<next, free_head, free_tail, held, item>>

Line85(t) == /\ Line(t, "85", "86")
             /\ item' = [item EXCEPT ![t] = free_head]
             /\ UNCHANGED <<next, free_head, free_tail, lock, held>>

Line86(t) == /\ Line(t, "86", "88")
             /\ free_head' = next[item[t]]
             /\ UNCHANGED <<next, free_tail, lock, held, item>>

Line88(t) == /\ Line(t, "88", "91")
             /\ free_tail' = IF free_head = INVALID_LIST_HEAD THEN INVALID_LIST_HEAD ELSE free_tail
             /\ UNCHANGED <<next, free_head, lock, held, item>>

Line91(t) == /\ Line(t, "91", "93")
             /\ release_lock(t)
             /\ UNCHANGED <<next, free_head, free_tail, held, item>>

\* Line 93 left out: the item keeps the link it had in the free list.
Line93_slip(t) == /\ Line(t, "93", "idle")
                  /\ held' = held \cup {item[t]}
                  /\ UNCHANGED <<next, free_head, free_tail, lock, item>>

\* Line 93 and the return of the item.
Line93(t) == /\ Line(t, "93", "idle")
             /\ next' = [next EXCEPT ![item[t]] = INVALID_LIST_HEAD]
             /\ held' = held \cup {item[t]}
             /\ UNCHANGED <<free_head, free_tail, lock, item>>

-----------------------------------------------------------------------------
(* list_free_item()                                                        *)

\* Whichever thread frees an item, it is the only one to do so.
CallFree(t) == \E i \in held : /\ Line(t, "idle", "61")
                               /\ item' = [item EXCEPT ![t] = i]
                               /\ held' = held \ {i}
                               /\ UNCHANGED <<next, free_head, free_tail, lock>>

Line61(t) == /\ Line(t, "61", "63")
             /\ get_lock(t)
             /\ UNCHANGED <<next, free_head, free_tail, held, item>>

Line63(t) == /\ Line(t, "63", IF free_head # INVALID_LIST_HEAD THEN "64" ELSE "67")
             /\ UNCHANGED <<next, free_head, free_tail, lock, held, item>>

Line64(t) == /\ Line(t, "64", "68")
             /\ next' = [next EXCEPT ![free_tail] = item[t]]
             /\ UNCHANGED <<free_head, free_tail, lock, held, item>>

Line67(t) == /\ Line(t, "67", "68")
             /\ free_head' = item[t]
             /\ UNCHANGED <<next, free_tail, lock, held, item>>

\* The tail stays where it was.
Line68_slip(t) == /\ Line(t, "68", "70")
                  /\ free_tail' = free_tail
                  /\ UNCHANGED <<next, free_head, lock, held, item>>

\* Line 65 after line 64, line 68 after line 67: the same assignment.
Line68(t) == /\ Line(t, "68", "70")
             /\ free_tail' = item[t]
             /\ UNCHANGED <<next, free_head, lock, held, item>>

Line70(t) == /\ Line(t, "70", "72")
             /\ next' = [next EXCEPT ![item[t]] = INVALID_LIST_HEAD]
             /\ UNCHANGED <<free_head, free_tail, lock, held, item>>

Line72(t) == /\ Line(t, "72", "idle")
             /\ release_lock(t)
             /\ UNCHANGED <<next, free_head, free_tail, held, item>>

-----------------------------------------------------------------------------
Call(t) == CallAlloc(t) \/ CallFree(t)

Step(t) == \/ Line78(t) \/ Line80(t) \/ Line81(t) \/ Line85(t) \/ Line86(t)
           \/ Line88(t) \/ Line91(t) \/ Line93(t)
           \/ Line61(t) \/ Line63(t) \/ Line64(t) \/ Line67(t) \/ Line68(t)
           \/ Line70(t) \/ Line72(t)

Next == \E t \in Threads : Call(t) \/ Step(t)

Spec == Init /\ [][Next]_vars

\* A thread that can go on goes on; calls are made at the clients' will.  Of the
\* lock nothing is assumed: a thread may wait for it while others come and go.
FairSpec == Spec /\ \A t \in Threads : WF_vars(Step(t))

-----------------------------------------------------------------------------
(* Properties.                                                             *)

Locked == {"80", "81", "85", "86", "88", "91", "63", "64", "67", "68", "70", "72"}

Lines == Locked \cup {"idle", "61", "78", "93"}

\* An item between the client and the free list: alloc has taken it off and not
\* yet returned it, or free was given it and has not yet linked it.
Carried(t) == IF pc[t] \in {"88", "91", "93", "61", "63", "64", "67"} THEN {item[t]} ELSE {}

TypeOK == /\ next \in [Items -> Links]
          /\ free_head \in Links
          /\ free_tail \in Links
          /\ lock \in Threads \cup {NoThread}
          /\ held \subseteq Items
          /\ pc \in [Threads -> Lines]
          /\ item \in [Threads -> Links]

\* One thread at a time is between a get_lock and a release_lock comment, and
\* every path through a call releases (list.c:61-72, 78-91).
LockHeldInside == \A t \in Threads : lock = t <=> pc[t] \in Locked

\* At every instant, also inside the calls, the free list is a chain, and an
\* item is in exactly one place: in it, with the clients, or in the hands of
\* one thread's call.  The write of line 93, outside the lock, and the link of
\* the item that is being freed disturb nothing (list.c:59-96).
NoItemSharedOrLost ==
  \E p \in Paths :
    /\ Chain(next, free_head, p)
    /\ \A t \in Threads : Carried(t) \cap (Range(p) \cup held) = {}
    /\ \A t, u \in Threads : t # u => Carried(t) \cap Carried(u) = {}
    /\ held \cap Range(p) = {}
    /\ \A i \in Items : i \in Range(p) \cup held \/ \E t \in Threads : i \in Carried(t)

\* When nobody has the lock, free_tail is the last item of the free list: an
\* item freed next is not cut off (list.c:63-69, 88-90).
TailIsLast ==
  lock = NoThread =>
    \E p \in Paths : Chain(next, free_head, p) /\ free_tail = LastOf(p)

\* alloc refuses only when every item is with the clients or in a call that has
\* it in hand (list.c:80-83).
RefusedWhenEmpty ==
  [][\A t \in Threads : pc[t] = "80" /\ pc'[t] = "81" =>
       \A i \in Items : i \in held \/ \E u \in Threads \ {t} : i \in Carried(u)]_vars

\* The queue of free items the links spell.
Fifo == INSTANCE FifoPool WITH queue <- PathOf(next, free_head)

\* Line 86 is where an allocation takes effect and line 64 or 67 where a free
\* does; no other line is seen (list.c:59-96).
ImplementsFifo == Fifo!Spec

\* While threads are in calls, calls return: no path keeps the lock, and alloc
\* refuses rather than wait for an item that another thread has to free
\* (list.c:59-96).  Which of the calls, depends on the lock.
CallsGoOn == \/ <>[](\A t \in Threads : pc[t] = "idle")
             \/ []<><<\E t \in Threads : pc[t] # "idle" /\ pc'[t] = "idle">>_vars
=============================================================================
