------------------------------ MODULE PoolSpec ------------------------------
(***************************************************************************)
(* What the index-based list library of lang/c/gadget/list promises its    *)
(* client, with no array, link field or head in sight: a FIFO queue of     *)
(* free items, and for every match table one sequence of items per bucket. *)
(* IndexList.tla is the array-of-links program that implements it.         *)
(***************************************************************************)
EXTENDS Naturals, SequencesExt

CONSTANTS item_total, \* the pool holds the items 0 .. item_total - 1
          Fields,     \* one match table per link field
          Buckets,    \* the slots of a match table
          Keys,       \* what is_same_item() compares
          Unwritten,  \* contents the client has not written since alloc
          Hash        \* the slot in which the client keeps a key

VARIABLES free,       \* free items, the next one to be allocated first
          lists,      \* lists[f][b]: the items linked in slot b of table f
          held,       \* items handed out by alloc and not freed since
          key,        \* the contents of an item, as is_same_item() sees them
          pending,    \* keys found absent, for which an insertion may follow
          ruined,     \* the client made an insertion that was not to be made
          refused     \* the last call had no item, or no address, to give

vars == <<free, lists, held, key, pending, ruined, refused>>

Items == 0 .. (item_total - 1)

\* The items with key k in table f (the code keeps at most one).
Matches(f, k) == {i \in ToSet(lists[f][Hash[k]]) : key[i] = k}

Linked(i) == \E f \in Fields, b \in Buckets : i \in ToSet(lists[f][b])

\* An insertion or a removal in a slot ends the insertions pending there.
Settle(f, b) == {d \in pending : d.field # f \/ Hash[d.key] # b}

Init == /\ free = [j \in 1 .. item_total |-> j - 1]
        /\ lists = [f \in Fields |-> [b \in Buckets |-> <<>>]]
        /\ held = {}
        /\ key = [i \in Items |-> Unwritten]
        /\ pending = {}
        /\ ruined = FALSE
        /\ refused = FALSE

Alloc == \/ /\ refused' = TRUE
            /\ free = <<>>
            /\ UNCHANGED <<held, key, ruined, pending, free, lists>>
         \/ /\ refused' = FALSE
            /\ UNCHANGED <<key, ruined, pending>>
            /\ free # <<>>
            /\ held' = held \cup {Head(free)}
            /\ free' = Tail(free)
            /\ lists' = lists

Fill(i, k) == /\ i \in held
              /\ key' = [key EXCEPT ![i] = k]
              /\ refused' = FALSE
              /\ UNCHANGED <<held, ruined, pending, free, lists>>
              /\ ~Linked(i)

Free(i) == /\ i \in held
           /\ held' = held \ {i}
           /\ key' = [key EXCEPT ![i] = Unwritten]
           /\ refused' = FALSE
           /\ UNCHANGED <<ruined, pending, lists>>
           /\ ~Linked(i)
           /\ free' = Append(free, i)

\* The client may have asked only whether there is such an item.
Prelink(f, k) ==
  /\ UNCHANGED <<held, key, ruined>>
  /\ \/ /\ refused' = TRUE
        /\ Matches(f, k) # {}
        /\ pending' = pending
     \/ /\ refused' = FALSE
        /\ Matches(f, k) = {}
        /\ pending' \in {pending, pending \cup {[field |-> f, key |-> k]}}
  /\ UNCHANGED <<free, lists>>

DoLink(d, i) ==
  LET b == Hash[d.key] IN
  /\ key[i] = d.key
  /\ refused' = FALSE
  /\ UNCHANGED <<held, key, ruined>>
  /\ pending' = Settle(d.field, b)
  /\ \A c \in Buckets : i \notin ToSet(lists[d.field][c])
  /\ lists' = [lists EXCEPT ![d.field][b] = Append(@, i)]
  /\ free' = free

Unlink(f, k) ==
  LET s == lists[f][Hash[k]] IN
  /\ UNCHANGED <<held, key, ruined>>
  /\ \/ /\ refused' = TRUE
        /\ Matches(f, k) = {}
        /\ UNCHANGED <<pending, lists>>
     \/ /\ refused' = FALSE
        /\ pending' = Settle(f, Hash[k])
        /\ \E j \in DOMAIN s :
             /\ key[s[j]] = k
             /\ lists' = [lists EXCEPT ![f][Hash[k]] = RemoveAt(s, j)]
  /\ free' = free

\* An insertion that is not pending, or of an item that is not ready: free items
\* and lists may be anything, but it takes no item from the client and gives none.
Ruin(f, i) == /\ ruined' = TRUE
              /\ i \in held
              /\ key[i] \in Keys
              /\ UNCHANGED <<held, key>>
              /\ \A b \in Buckets : i \notin ToSet(lists[f][b])

StartOver == ruined /\ Init'

Call == \/ Alloc
        \/ \E i \in Items : Free(i) \/ \E k \in Keys : Fill(i, k)
        \/ \E f \in Fields, k \in Keys : Prelink(f, k) \/ Unlink(f, k)
        \/ \E d \in pending, i \in Items : DoLink(d, i)
        \/ \E f \in Fields, i \in Items : Ruin(f, i)

Next == (~ruined /\ Call) \/ StartOver

Spec == Init /\ [][Next]_vars
=============================================================================
