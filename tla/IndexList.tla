----------------------------- MODULE IndexList -----------------------------
(***************************************************************************)
(* The index-based list library of lang/c/gadget/list: a fixed array of    *)
(* items whose link fields hold array indices, a free list threaded        *)
(* through the main link field, and match tables whose slots head chains   *)
(* threaded through the main field or, with the "2" functions, through a   *)
(* second one.  One action is one call of the library, or one thing its    *)
(* client does to an item it holds.  The client is single-threaded         *)
(* (PoolThreads.tla lets several threads in), and frees, fills and links   *)
(* items that it holds and that are not linked there already.  It may link *)
(* through an address that prelink gave it before the slot changed, or an  *)
(* item whose link it has not cleared: the library does not notice, the    *)
(* list goes astray, and all there is to do is to start over.              *)
(***************************************************************************)
EXTENDS Chains, FiniteSets

CONSTANTS Fields,             \* the link fields of an item
          next_offset,        \* the main one: the free list runs through it
          Buckets,            \* slots of a match table
          Keys,               \* item contents as is_same_item() compares them
          Unwritten,          \* contents the client has not written since alloc
          Hash,               \* the slot the client chooses for a key
          Memory,             \* what malloc() may have left in the link fields
          MaxDest             \* bound: addresses the client keeps at a time

ASSUME PoolAssumption ==
  /\ next_offset \in Fields
  /\ Unwritten \notin Keys
  /\ Hash \in [Keys -> Buckets]
  /\ Memory \subseteq [Items -> Links]
  /\ MaxDest \in Nat

VARIABLES next,       \* next[f][i]: link field f of item i
          free_head,  \* first and last item of the free list
          free_tail,
          itb,        \* itb[f][b]: head of slot b of the table chained by f
          key,        \* contents of each item
          held,       \* items alloc returned and the client has not freed
          linked,     \* linked[f]: items the client has linked in table f
          dest,       \* addresses from prelink whose slot is as it was then,
          stale,      \* and those whose slot has changed since
          astray,     \* an item was linked where it must not be
          refused     \* the last call returned INVALID_LIST_HEAD or NULL

vars == <<next, free_head, free_tail, itb, key, held, linked, dest, stale, astray, refused>>

\* An address the client got from prelink: the link field of the last item of
\* a chain or, when `last' is INVALID_LIST_HEAD, the idx word of an empty slot.
Dest == [field : Fields, key : Keys, last : Links]

\* Slot b of table f changes: the addresses in it are from before.  The client
\* cannot tell; it uses one of them later, which is enough, or none.
Settle(f, b)  == {d \in dest : d.field # f \/ Hash[d.key] # b}
Changes(f, b) == /\ dest' = Settle(f, b)
                 /\ stale' \in {{}} \cup {{d} : d \in stale \cup (dest \ Settle(f, b))}

filled == {i \in Items : key[i] # Unwritten}

Unlinked(i) == \A f \in Fields : i \notin linked[f]

-----------------------------------------------------------------------------
(* Initialisation: list_info_init() writes the main link field only, the   *)
(* rest of the array is whatever malloc() returned.                        *)

links_made == {[f \in Fields |-> IF f = next_offset THEN list_info_init ELSE memory[f]] :
                 memory \in [Fields \ {next_offset} -> Memory]}

Init == /\ next \in links_made
        /\ free_head = 0
        /\ free_tail = item_total - 1
        /\ itb = [f \in Fields |-> [b \in Buckets |-> INVALID_LIST_HEAD]]
        /\ key = [i \in Items |-> Unwritten]
        /\ held = {}
        /\ linked = [f \in Fields |-> {}]
        /\ dest = {}
        /\ stale = {}
        /\ astray = FALSE
        /\ refused = FALSE

\* The program is started again.
start_over ==
  /\ astray
  /\ next' \in links_made
  /\ free_head' = 0 /\ free_tail' = item_total - 1
  /\ itb' = [f \in Fields |-> [b \in Buckets |-> INVALID_LIST_HEAD]]
  /\ key' = [i \in Items |-> Unwritten] /\ held' = {} /\ linked' = [f \in Fields |-> {}]
  /\ dest' = {} /\ stale' = {} /\ astray' = FALSE /\ refused' = FALSE

-----------------------------------------------------------------------------
(* The main pool.                                                          *)

list_alloc_item ==
  \/ /\ free_head = INVALID_LIST_HEAD
     /\ refused' = TRUE
     /\ UNCHANGED <<next, free_head, free_tail, itb, key, held, linked, dest, stale, astray>>
  \/ /\ free_head # INVALID_LIST_HEAD
     /\ free_head' = next[next_offset][free_head]
     /\ free_tail' = IF free_head' = INVALID_LIST_HEAD THEN INVALID_LIST_HEAD ELSE free_tail
     /\ next' = [next EXCEPT ![next_offset][free_head] = INVALID_LIST_HEAD]
     /\ held' = held \cup {free_head}
     /\ refused' = FALSE
     /\ UNCHANGED <<itb, key, linked, dest, stale, astray>>

\* Line 65 left out: the tail stays where it was.
AppendFree_slip(i) ==
  /\ IF free_head = INVALID_LIST_HEAD
     THEN /\ free_head' = i
          /\ free_tail' = i
          /\ next' = [next EXCEPT ![next_offset][i] = INVALID_LIST_HEAD]
     ELSE /\ UNCHANGED <<free_head, free_tail>>
          /\ next' = [next EXCEPT ![next_offset][free_tail] = i,
                                 ![next_offset][i] = INVALID_LIST_HEAD]

\* The item is put in front: last freed, first reused.
AppendFree_lifo(i) ==
  /\ free_head' = i
  /\ free_tail' = IF free_head = INVALID_LIST_HEAD THEN i ELSE free_tail
  /\ next' = [next EXCEPT ![next_offset][i] = free_head]

AppendFree(i) ==
  /\ IF free_head = INVALID_LIST_HEAD
     THEN /\ free_head' = i
          /\ next' = [next EXCEPT ![next_offset][i] = INVALID_LIST_HEAD]
     ELSE /\ free_head' = free_head
          /\ next' = [next EXCEPT ![next_offset][free_tail] = i,
                                 ![next_offset][i] = INVALID_LIST_HEAD]
  /\ free_tail' = i

list_free_item(i) ==
  /\ i \in held
  /\ Unlinked(i)
  /\ AppendFree(i)
  /\ held' = held \ {i}
  /\ key' = [key EXCEPT ![i] = Unwritten]
  /\ refused' = FALSE
  /\ UNCHANGED <<itb, linked, dest, stale, astray>>

\* item_set_next2() on every link field but the main one, which neither
\* list_info_init() nor list_alloc_item() clears.
item_set_next2(i) == [f \in Fields |-> IF f = next_offset THEN next[f]
                                      ELSE [next[f] EXCEPT ![i] = INVALID_LIST_HEAD]]

\* The client writes an item it holds, and clears those links or does not.
Fill(i, k) ==
  /\ i \in held
  /\ Unlinked(i)
  /\ key' = [key EXCEPT ![i] = k]
  /\ next' \in {next, item_set_next2(i)}
  /\ refused' = FALSE
  /\ UNCHANGED <<free_head, free_tail, itb, held, linked, dest, stale, astray>>

-----------------------------------------------------------------------------
(* The match tables.  A call that walks a chain that never ends would not  *)
(* return: there is no step for it.                                        *)

\* is_same_item() on the items of p: at j for the first time, or nowhere.
FirstMatch(p, k, j) == j \in DOMAIN p /\ key[p[j]] = k /\ \A m \in 1 .. j - 1 : key[p[m]] # k
NoMatch_slip(p, k)  == \A j \in DOMAIN p \ {1} : key[p[j]] # k   \* line 144 left out
NoMatch(p, k)       == \A j \in DOMAIN p : key[p[j]] # k

\* Lines 158 and 163: where do_link is to write.
AddressFor_slip(f, k, p) == [field |-> f, key |-> k, last |-> INVALID_LIST_HEAD]
AddressFor(f, k, p)      == [field |-> f, key |-> k, last |-> LastOf(p)]

\* The client keeps the address, or asked only whether there is such an item.
Keeps(a) == /\ dest' \in {dest} \cup (IF Cardinality(dest \cup stale \cup {a}) <= MaxDest
                                     THEN {dest \cup {a}} ELSE {})
            /\ stale' = stale \ dest'

index_list_prelink2(f, k) ==
  /\ \E p \in Paths :
       /\ Chain(next[f], itb[f][Hash[k]], p)
       /\ \/ /\ \E j \in DOMAIN p : FirstMatch(p, k, j)
             /\ refused' = TRUE
             /\ UNCHANGED <<dest, stale>>
          \/ /\ NoMatch(p, k)
             /\ refused' = FALSE
             /\ Keeps(AddressFor(f, k, p))
  /\ UNCHANGED <<next, free_head, free_tail, itb, key, held, linked, astray>>

\* Line 121, for an item with the key that prelink was asked about.
Writes(d, i) ==
  /\ i \notin linked[d.field]
  /\ key[i] = d.key
  /\ IF d.last = INVALID_LIST_HEAD
     THEN itb' = [itb EXCEPT ![d.field][Hash[d.key]] = i] /\ next' = next
     ELSE next' = [next EXCEPT ![d.field][d.last] = i] /\ itb' = itb
  /\ linked' = [linked EXCEPT ![d.field] = @ \cup {i}]
  /\ refused' = FALSE
  /\ UNCHANGED <<free_head, free_tail, key, held>>

index_list_do_link(d, i) ==
  /\ d \in dest
  /\ next[d.field][i] = INVALID_LIST_HEAD
  /\ Writes(d, i)
  /\ Changes(d.field, Hash[d.key])
  /\ UNCHANGED astray

\* The same through an address from before, or of an item that leads elsewhere.
link_astray(d, i) ==
  /\ d \in stale \/ next[d.field][i] # INVALID_LIST_HEAD
  /\ Writes(d, i)
  /\ astray' = TRUE
  /\ dest' = {} /\ stale' = {}

\* Line 205 left out: the predecessor is not led past the item.
UnlinkAt_slip(f, b, p, j) ==
  /\ itb' = IF j = 1 THEN [itb EXCEPT ![f][b] = next[f][p[1]]] ELSE itb
  /\ next' = [next EXCEPT ![f][p[j]] = INVALID_LIST_HEAD]
  /\ linked' = [linked EXCEPT ![f] = @ \ {p[j]}]
  /\ Changes(f, b)
  /\ refused' = FALSE

UnlinkAt(f, b, p, j) ==
  /\ IF j = 1
     THEN /\ itb' = [itb EXCEPT ![f][b] = next[f][p[1]]]
          /\ next' = [next EXCEPT ![f][p[1]] = INVALID_LIST_HEAD]
     ELSE /\ next' = [next EXCEPT ![f][p[j - 1]] = next[f][p[j]], ![f][p[j]] = INVALID_LIST_HEAD]
          /\ itb' = itb
  /\ linked' = [linked EXCEPT ![f] = @ \ {p[j]}]
  /\ Changes(f, b)
  /\ refused' = FALSE

index_list_unlink2(f, k) ==
  /\ \E p \in Paths :
       /\ Chain(next[f], itb[f][Hash[k]], p)
       /\ \/ \E j \in DOMAIN p : FirstMatch(p, k, j) /\ UnlinkAt(f, Hash[k], p, j)
          \/ /\ NoMatch(p, k)
             /\ refused' = TRUE
             /\ UNCHANGED <<next, itb, linked, dest, stale>>
  /\ UNCHANGED <<free_head, free_tail, key, held, astray>>

Call == \/ list_alloc_item
        \/ \E i \in Items : list_free_item(i) \/ \E k \in Keys : Fill(i, k)
        \/ \E f \in Fields, k \in Keys : index_list_prelink2(f, k) \/ index_list_unlink2(f, k)
        \/ \E d \in dest, i \in Items : index_list_do_link(d, i)
        \/ \E d \in dest \cup stale, i \in Items : link_astray(d, i)

Next == (~astray /\ Call) \/ start_over

Spec == Init /\ [][Next]_vars

-----------------------------------------------------------------------------
(* Properties.  Of a list that has gone astray nothing is said until it is *)
(* made anew.                                                              *)

TypeOK == /\ next \in [Fields -> [Items -> Links]]
          /\ free_head \in Links
          /\ free_tail \in Links
          /\ itb \in [Fields -> [Buckets -> Links]]
          /\ key \in [Items -> Keys \cup {Unwritten}]
          /\ held \subseteq Items
          /\ filled \subseteq held
          /\ linked \in [Fields -> SUBSET filled]
          /\ dest \subseteq Dest
          /\ stale \subseteq Dest
          /\ astray \in BOOLEAN
          /\ refused \in BOOLEAN

\* The free list visits, once each, exactly the items that are not with the
\* client, and free_tail is its last item: no item is lost, none is handed out
\* twice (list_free_item and list_alloc_item, list.c:59-96).
FreeListExact ==
  ~astray =>
  \E p \in Paths : /\ Chain(next[next_offset], free_head, p)
                   /\ Range(p) = Items \ held
                   /\ free_tail = LastOf(p)

\* A slot's chain visits, once each, exactly the items linked in it: linking
\* loses no item and unlinking leaves none behind (list.c:119-223).
BucketsExact ==
  ~astray =>
  \A f \in Fields, b \in Buckets :
    \E p \in Paths : /\ Chain(next[f], itb[f][b], p)
                     /\ Range(p) = {i \in linked[f] : Hash[key[i]] = b}

\* "after alloc, the item is not in any list", "after unlink the item is not in
\* any list" (list.c:75, 179): no head and no link of a linked item leads to an
\* item the client holds unlinked, and by its main link it leads nowhere and
\* nothing leads to it.
InNoList ==
  ~astray =>
  \A f \in Fields : \A i \in held \ linked[f] :
    /\ i \notin Range(itb[f])
    /\ \A j \in linked[f] : next[f][j] # i
    /\ f = next_offset => /\ next[f][i] = INVALID_LIST_HEAD
                          /\ i \notin {free_head, free_tail}
                          /\ \A j \in Items : next[f][j] # i

\* A table never holds two items with one key: what prelink checked still
\* holds when do_link comes (list.c:124-165).
KeysUnique ==
  ~astray =>
  \A f \in Fields : \A i, j \in linked[f] : key[i] = key[j] => i = j

\* An address is the end of its slot's chain, and its key absent, for as long as
\* nothing is linked or unlinked in that slot, whatever is done in others, in the
\* other table and to the free list: do_link through it cuts no chain
\* (list.c:119-122, 158, 163).
DestIsLast ==
  ~astray =>
  \A d \in dest :
    \E p \in Paths : /\ Chain(next[d.field], itb[d.field][Hash[d.key]], p)
                     /\ NoMatch(p, d.key)
                     /\ d.last = LastOf(p)

\* The queue of free items and the sequence of each slot the links spell, and
\* the keys the client has an address for.
FreeQueue == PathOf(next[next_offset], free_head)
Tables    == [f \in Fields |-> [b \in Buckets |-> PathOf(next[f], itb[f][b])]]
Pending   == {[field |-> d.field, key |-> d.key] : d \in dest}

Pool == INSTANCE PoolSpec WITH
          free <- FreeQueue, lists <- Tables, pending <- Pending, ruined <- astray

\* The array of links behaves as a FIFO queue of free items and one sequence
\* of items per slot, and answers as they would (list.c:45-223).
ImplementsPool == Pool!Spec
=============================================================================
