-------------------------- MODULE IndexListProofs --------------------------
(***************************************************************************)
(* Theorems about IndexList.tla, for every number of items, buckets, keys  *)
(* and link fields.                                                        *)
(***************************************************************************)
EXTENDS IndexList, ChainLemmas

USE ChainAssumption, PoolAssumption

-----------------------------------------------------------------------------
(* Types.                                                                  *)

\* Writing one word of a table of functions.
LEMMA WriteOne ==
  ASSUME NEW A, NEW B, NEW C, NEW F \in [A -> [B -> C]], NEW a \in A, NEW b, NEW c \in C,
         NEW G, G = [F EXCEPT ![a][b] = c]
  PROVE  /\ G \in [A -> [B -> C]]
         /\ \A x \in A, y \in B : G[x][y] = IF x = a /\ y = b THEN c ELSE F[x][y]
<1>1. [F[a] EXCEPT ![b] = c] \in [B -> C]
  OBVIOUS
<1>2. G = [F EXCEPT ![a] = [F[a] EXCEPT ![b] = c]]
  OBVIOUS
<1>3. G \in [A -> [B -> C]]
  BY <1>1, <1>2
<1>4. \A x \in A, y \in B : G[x][y] = IF x = a /\ y = b THEN c ELSE F[x][y]
  BY <1>2
<1> QED BY <1>3, <1>4

LEMMA LinksMade ==
  ASSUME NEW g \in links_made
  PROVE  g \in [Fields -> [Items -> Links]] /\ g[next_offset] = list_info_init
<1>1. PICK memory \in [Fields \ {next_offset} -> Memory] :
        g = [f \in Fields |-> IF f = next_offset THEN list_info_init ELSE memory[f]]
  BY DEF links_made
<1>2. list_info_init \in [Items -> Links]
  BY DEF list_info_init, Items, Links
<1>3. \A f \in Fields \ {next_offset} : memory[f] \in [Items -> Links]
  OBVIOUS
<1> QED BY <1>1, <1>2, <1>3

LEMMA TypeInit == Init => TypeOK
<1> SUFFICES ASSUME Init PROVE TypeOK
  OBVIOUS
<1>1. next \in [Fields -> [Items -> Links]]
  BY LinksMade DEF Init
<1>2. free_head \in Links /\ free_tail \in Links /\ INVALID_LIST_HEAD \in Links
  BY DEF Init, Links, Items
<1>3. filled = {}
  BY DEF Init, filled
<1> QED BY <1>1, <1>2, <1>3 DEF Init, TypeOK

\* Starting over is starting.
LEMMA StartsOver == start_over => Init'
BY DEF start_over, Init, links_made, list_info_init, Items

\* An address that the client keeps is the one it was given.
LEMMA KeepsOne ==
  ASSUME NEW a, Keeps(a) PROVE (dest' = dest \/ dest' = dest \cup {a}) /\ stale' \subseteq stale
BY DEF Keeps

LEMMA ChangesOne ==
  ASSUME NEW f, NEW b, Changes(f, b)
  PROVE  dest' = Settle(f, b) /\ Settle(f, b) \subseteq dest /\ stale' \subseteq stale \cup dest
BY DEF Changes, Settle

\* What each call writes into the links, word by word.
LEMMA AllocWrites ==
  ASSUME TypeOK, list_alloc_item, free_head # INVALID_LIST_HEAD
  PROVE  /\ next' \in [Fields -> [Items -> Links]]
         /\ \A f \in Fields, i \in Items :
              next'[f][i] = IF f = next_offset /\ i = free_head THEN INVALID_LIST_HEAD
                            ELSE next[f][i]
<1>1. next' = [next EXCEPT ![next_offset][free_head] = INVALID_LIST_HEAD]
  BY DEF list_alloc_item
<1>2. next \in [Fields -> [Items -> Links]] /\ INVALID_LIST_HEAD \in Links
  BY DEF TypeOK, Links
<1> QED BY <1>1, <1>2, WriteOne

LEMMA FreeWrites ==
  ASSUME TypeOK, NEW i \in Items, list_free_item(i)
  PROVE  /\ next' \in [Fields -> [Items -> Links]]
         /\ \A f \in Fields, m \in Items :
              next'[f][m] = IF f # next_offset THEN next[f][m]
                            ELSE IF m = i THEN INVALID_LIST_HEAD
                            ELSE IF free_head # INVALID_LIST_HEAD /\ m = free_tail THEN i
                            ELSE next[f][m]
<1>1. next \in [Fields -> [Items -> Links]] /\ INVALID_LIST_HEAD \in Links /\ i \in Links
  BY DEF TypeOK, Links
<1>2. CASE free_head = INVALID_LIST_HEAD
  <2>1. next' = [next EXCEPT ![next_offset][i] = INVALID_LIST_HEAD]
    BY <1>2 DEF list_free_item, AppendFree
  <2> QED BY <1>1, <1>2, <2>1, WriteOne
<1>3. CASE free_head # INVALID_LIST_HEAD
  <2>1. next' = [next EXCEPT ![next_offset][free_tail] = i,
                             ![next_offset][i] = INVALID_LIST_HEAD]
    BY <1>3 DEF list_free_item, AppendFree
  <2> DEFINE row == [next[next_offset] EXCEPT ![free_tail] = i, ![i] = INVALID_LIST_HEAD]
  <2>2. /\ row \in [Items -> Links]
        /\ \A m \in Items : row[m] = IF m = i THEN INVALID_LIST_HEAD
                                    ELSE IF m = free_tail THEN i ELSE next[next_offset][m]
    BY <1>1
  <2>3. next' = [next EXCEPT ![next_offset] = row]
    BY <2>1
  <2> HIDE DEF row
  <2> QED BY <1>1, <1>3, <2>2, <2>3
<1> QED BY <1>2, <1>3

LEMMA DoLinkWrites ==
  ASSUME TypeOK, NEW d \in dest \cup stale, NEW i \in Items, Writes(d, i)
  PROVE  /\ d.field \in Fields /\ d.key \in Keys /\ Hash[d.key] \in Buckets
         /\ next' \in [Fields -> [Items -> Links]]
         /\ itb' \in [Fields -> [Buckets -> Links]]
         /\ \A f \in Fields, m \in Items :
              next'[f][m] = IF f = d.field /\ m = d.last THEN i ELSE next[f][m]
         /\ \A f \in Fields, b \in Buckets :
              itb'[f][b] = IF f = d.field /\ b = Hash[d.key] /\ d.last = INVALID_LIST_HEAD
                           THEN i ELSE itb[f][b]
<1>1. d \in Dest
  BY DEF TypeOK
<1>2. d.field \in Fields /\ d.key \in Keys /\ d.last \in Links /\ Hash[d.key] \in Buckets
  BY <1>1 DEF Dest
<1>3. /\ next \in [Fields -> [Items -> Links]] /\ i \in Links
      /\ itb \in [Fields -> [Buckets -> Links]]
  BY DEF TypeOK, Links
<1>4. CASE d.last = INVALID_LIST_HEAD
  <2>1. itb' = [itb EXCEPT ![d.field][Hash[d.key]] = i] /\ next' = next
    BY <1>4 DEF Writes
  <2> QED BY <1>2, <1>3, <1>4, <2>1, WriteOne
<1>5. CASE d.last # INVALID_LIST_HEAD
  <2>1. next' = [next EXCEPT ![d.field][d.last] = i] /\ itb' = itb
    BY <1>5 DEF Writes
  <2>2. /\ next' \in [Fields -> [Items -> Links]]
        /\ \A f \in Fields, m \in Items :
             next'[f][m] = IF f = d.field /\ m = d.last THEN i ELSE next[f][m]
    BY <1>2, <1>3, <2>1, WriteOne
  <2> QED BY <1>2, <1>3, <1>5, <2>1, <2>2
<1> QED BY <1>4, <1>5

LEMMA UnlinkWrites ==
  ASSUME TypeOK, NEW f \in Fields, NEW b \in Buckets, NEW p \in Paths, NEW j \in DOMAIN p,
         UnlinkAt(f, b, p, j)
  PROVE  /\ next' \in [Fields -> [Items -> Links]]
         /\ itb' \in [Fields -> [Buckets -> Links]]
         /\ \A g \in Fields, m \in Items :
              next'[g][m] = IF g # f THEN next[g][m]
                            ELSE IF m = p[j] THEN INVALID_LIST_HEAD
                            ELSE IF j # 1 /\ m = p[j - 1] THEN next[f][p[j]]
                            ELSE next[g][m]
         /\ \A g \in Fields, c \in Buckets :
              itb'[g][c] = IF j = 1 /\ g = f /\ c = b THEN next[f][p[j]] ELSE itb[g][c]
<1>1. /\ next \in [Fields -> [Items -> Links]]
      /\ itb \in [Fields -> [Buckets -> Links]]
      /\ p[j] \in Items
      /\ next[f][p[j]] \in Links
      /\ INVALID_LIST_HEAD \in Links
  BY PathShape DEF TypeOK, Links
<1>2. CASE j = 1
  <2>1. /\ itb' = [itb EXCEPT ![f][b] = next[f][p[1]]]
        /\ next' = [next EXCEPT ![f][p[1]] = INVALID_LIST_HEAD]
    BY <1>2 DEF UnlinkAt
  <2>2. /\ next' \in [Fields -> [Items -> Links]]
        /\ \A g \in Fields, m \in Items :
             next'[g][m] = IF g = f /\ m = p[1] THEN INVALID_LIST_HEAD ELSE next[g][m]
    BY <1>1, <2>1, WriteOne
  <2>3. /\ itb' \in [Fields -> [Buckets -> Links]]
        /\ \A g \in Fields, c \in Buckets :
             itb'[g][c] = IF g = f /\ c = b THEN next[f][p[1]] ELSE itb[g][c]
    BY <1>1, <1>2, <2>1, WriteOne
  <2> QED BY <1>2, <2>2, <2>3
<1>3. CASE j # 1
  <2>1. /\ next' = [next EXCEPT ![f][p[j - 1]] = next[f][p[j]], ![f][p[j]] = INVALID_LIST_HEAD]
        /\ itb' = itb
    BY <1>3 DEF UnlinkAt
  <2> DEFINE row == [next[f] EXCEPT ![p[j - 1]] = next[f][p[j]], ![p[j]] = INVALID_LIST_HEAD]
  <2>2. /\ row \in [Items -> Links]
        /\ \A m \in Items : row[m] = IF m = p[j] THEN INVALID_LIST_HEAD
                                    ELSE IF m = p[j - 1] THEN next[f][p[j]] ELSE next[f][m]
    BY <1>1
  <2>3. next' = [next EXCEPT ![f] = row]
    BY <2>1
  <2> HIDE DEF row
  <2>4. next' \in [Fields -> [Items -> Links]]
    BY <1>1, <2>2, <2>3
  <2>5. \A g \in Fields, m \in Items :
          next'[g][m] = IF g # f THEN next[g][m]
                        ELSE IF m = p[j] THEN INVALID_LIST_HEAD
                        ELSE IF j # 1 /\ m = p[j - 1] THEN next[f][p[j]]
                        ELSE next[g][m]
    BY <1>1, <1>3, <2>2, <2>3
  <2> QED BY <1>1, <1>3, <2>1, <2>4, <2>5
<1> QED BY <1>2, <1>3

LEMMA TypeStep == TypeOK /\ [Next]_vars => TypeOK'
<1> SUFFICES ASSUME TypeOK, [Next]_vars PROVE TypeOK'
  OBVIOUS
<1>1. CASE list_alloc_item
  <2>1. CASE free_head = INVALID_LIST_HEAD
    BY <1>1, <2>1 DEF TypeOK, list_alloc_item, filled
  <2>2. CASE free_head # INVALID_LIST_HEAD
    <3>1. free_head \in Items /\ free_head' \in Links /\ free_tail' \in Links
      BY <1>1, <2>2 DEF TypeOK, list_alloc_item, Links
    <3>2. /\ held' = held \cup {free_head} /\ refused' = FALSE
          /\ UNCHANGED <<itb, key, linked, dest, stale, astray>>
      BY <1>1, <2>2 DEF list_alloc_item
    <3>3. next' \in [Fields -> [Items -> Links]]
      BY <1>1, <2>2, AllocWrites
    <3> QED BY <3>1, <3>2, <3>3 DEF TypeOK, filled
  <2> QED BY <2>1, <2>2
<1>2. ASSUME NEW i \in Items, list_free_item(i) PROVE TypeOK'
  <2>1. next' \in [Fields -> [Items -> Links]]
    BY <1>2, FreeWrites
  <2>2. free_head' \in Links /\ free_tail' \in Links
    BY <1>2 DEF TypeOK, list_free_item, AppendFree, Links
  <2>3. /\ held' = held \ {i} /\ key' = [key EXCEPT ![i] = Unwritten] /\ refused' = FALSE
        /\ UNCHANGED <<itb, linked, dest, stale, astray>>
        /\ \A f \in Fields : i \notin linked[f]
    BY <1>2 DEF list_free_item, Unlinked
  <2>4. filled' = filled \ {i}
    BY <2>3 DEF TypeOK, filled
  <2>5. filled' \subseteq held' /\ held' \subseteq Items /\ linked' \in [Fields -> SUBSET filled']
    BY <2>3, <2>4 DEF TypeOK
  <2>6. key' \in [Items -> Keys \cup {Unwritten}]
    BY <2>3 DEF TypeOK
  <2> QED BY <2>1, <2>2, <2>3, <2>5, <2>6 DEF TypeOK
<1>3. ASSUME NEW i \in Items, NEW k \in Keys, Fill(i, k) PROVE TypeOK'
  <2>1. next' \in [Fields -> [Items -> Links]]
    <3>1. INVALID_LIST_HEAD \in Links /\ next \in [Fields -> [Items -> Links]]
      BY DEF TypeOK, Links
    <3>2. item_set_next2(i) \in [Fields -> [Items -> Links]]
      BY <3>1 DEF item_set_next2
    <3> QED BY <1>3, <3>1, <3>2 DEF Fill
  <2> QED BY <1>3, <2>1 DEF TypeOK, Fill, Unlinked, filled
<1>4. ASSUME NEW f \in Fields, NEW k \in Keys, index_list_prelink2(f, k) PROVE TypeOK'
  <2>1. ASSUME NEW p \in Paths PROVE AddressFor(f, k, p) \in Dest
    BY PathShape DEF AddressFor, Dest, Links
  <2>2. dest' \subseteq Dest /\ stale' \subseteq Dest /\ refused' \in BOOLEAN
    <3>1. /\ refused' \in BOOLEAN
          /\ \/ UNCHANGED <<dest, stale>>
             \/ \E p \in Paths : Keeps(AddressFor(f, k, p))
      BY <1>4 DEF index_list_prelink2
    <3>2. dest \subseteq Dest /\ stale \subseteq Dest
      BY DEF TypeOK
    <3> QED BY <2>1, <3>1, <3>2, KeepsOne
  <2> QED BY <1>4, <2>2 DEF TypeOK, index_list_prelink2, filled
<1>5. ASSUME NEW f \in Fields, NEW k \in Keys, index_list_unlink2(f, k) PROVE TypeOK'
  <2>1. PICK p \in Paths :
          /\ Chain(next[f], itb[f][Hash[k]], p)
          /\ \/ \E j \in DOMAIN p : FirstMatch(p, k, j) /\ UnlinkAt(f, Hash[k], p, j)
             \/ /\ NoMatch(p, k)
                /\ refused' = TRUE
                /\ UNCHANGED <<next, itb, linked, dest, stale>>
    BY <1>5 DEF index_list_unlink2
  <2>2. UNCHANGED <<free_head, free_tail, key, held, astray>>
    BY <1>5 DEF index_list_unlink2
  <2>3. ASSUME NEW j \in DOMAIN p, UnlinkAt(f, Hash[k], p, j) PROVE TypeOK'
    <3>1. Hash[k] \in Buckets
      OBVIOUS
    <3>3. next' \in [Fields -> [Items -> Links]] /\ itb' \in [Fields -> [Buckets -> Links]]
      BY <2>3, <3>1, UnlinkWrites
    <3>4. dest' \subseteq Dest /\ stale' \subseteq Dest
      BY <2>3, ChangesOne DEF TypeOK, UnlinkAt
    <3>5. linked' \in [Fields -> SUBSET filled] /\ refused' \in BOOLEAN
      BY <2>3 DEF TypeOK, UnlinkAt
    <3> QED BY <2>2, <3>3, <3>4, <3>5 DEF TypeOK, filled
  <2>4. CASE UNCHANGED <<next, itb, linked, dest, stale>> /\ refused' = TRUE
    BY <2>2, <2>4 DEF TypeOK, filled
  <2> QED BY <2>1, <2>3, <2>4
<1>6. ASSUME NEW d \in dest \cup stale, NEW i \in Items, Writes(d, i),
             dest' \subseteq Dest, stale' \subseteq Dest, astray' \in BOOLEAN
      PROVE  TypeOK'
  <2>1. d \in Dest
    BY DEF TypeOK
  <2>2. i \in filled
    BY <1>6, <2>1 DEF Writes, Dest, filled
  <2>3. next' \in [Fields -> [Items -> Links]] /\ itb' \in [Fields -> [Buckets -> Links]]
    BY <1>6, DoLinkWrites
  <2>4. linked' \in [Fields -> SUBSET filled] /\ refused' \in BOOLEAN
    BY <1>6, <2>1, <2>2 DEF TypeOK, Writes, Dest
  <2>5. UNCHANGED <<free_head, free_tail, key, held>>
    BY <1>6 DEF Writes
  <2> QED BY <1>6, <2>3, <2>4, <2>5 DEF TypeOK, filled
<1>7. ASSUME NEW d \in dest, NEW i \in Items, index_list_do_link(d, i) PROVE TypeOK'
  <2>1. Writes(d, i) /\ astray' = astray /\ Changes(d.field, Hash[d.key])
    BY <1>7 DEF index_list_do_link
  <2>2. dest' \subseteq Dest /\ stale' \subseteq Dest /\ astray' \in BOOLEAN
    BY <2>1, ChangesOne DEF TypeOK
  <2> QED BY <1>6, <2>1, <2>2
<1>8. ASSUME NEW d \in dest \cup stale, NEW i \in Items, link_astray(d, i) PROVE TypeOK'
  <2>1. Writes(d, i) /\ astray' = TRUE /\ dest' = {} /\ stale' = {}
    BY <1>8 DEF link_astray
  <2> QED BY <1>6, <2>1
<1>9. CASE start_over
  <2>2. next' \in [Fields -> [Items -> Links]]
    BY <1>9, LinksMade DEF start_over
  <2>3. 0 \in Links /\ item_total - 1 \in Links /\ INVALID_LIST_HEAD \in Links
    BY DEF Links, Items
  <2>4. filled' = {}
    BY <1>9 DEF start_over, filled
  <2> QED BY <1>9, <2>2, <2>3, <2>4 DEF start_over, TypeOK
<1>10. CASE UNCHANGED vars
  BY <1>10 DEF vars, TypeOK, filled
<1> QED BY <1>1, <1>2, <1>3, <1>4, <1>5, <1>7, <1>8, <1>9, <1>10 DEF Next, Call

\* In every reachable state the variables have their types; in particular
\* every link is the index of an item or INVALID_LIST_HEAD (list.c:9-43).
THEOREM TypeCorrect == Spec => []TypeOK
BY TypeInit, TypeStep, PTL DEF Spec

-----------------------------------------------------------------------------
(* The inductive invariant.  FreeListExact and BucketsExact alone are not  *)
(* inductive: do_link needs to know that the address it writes is the end  *)
(* of the slot's chain (DestAtEnd), and linking keeps keys unique only     *)
(* because of what prelink found there (DestAtEnd).  ClearedLinks is what  *)
(* the library sees to itself, in the one field it writes.  All of it      *)
(* holds until an item is linked astray, and again once the list is made   *)
(* anew: SInv at the end.                                                  *)

Slot(f, b) == {i \in linked[f] : Hash[key[i]] = b}

\* The main link of an item that the client holds unlinked is cleared.
ClearedLinks ==
  \A i \in held \ linked[next_offset] : next[next_offset][i] = INVALID_LIST_HEAD

\* An address is the end of its slot's chain, which lacks the address's key.
DestAtEnd ==
  \A d \in dest :
    LET S == Slot(d.field, Hash[d.key]) IN
    /\ \A i \in S : key[i] # d.key
    /\ S = {} => d.last = INVALID_LIST_HEAD
    /\ S # {} => d.last \in S /\ next[d.field][d.last] = INVALID_LIST_HEAD

IInv == /\ ~astray
        /\ TypeOK /\ FreeListExact /\ BucketsExact /\ KeysUnique /\ ClearedLinks /\ DestAtEnd

LEMMA BucketsAreSlots ==
  ~astray => (BucketsExact <=> \A f \in Fields, b \in Buckets :
    \E p \in Paths : Chain(next[f], itb[f][b], p) /\ Range(p) = Slot(f, b))
BY DEF BucketsExact, Slot

\* A slot is left alone by writes to the links of items outside it.
LEMMA SlotFrame ==
  ASSUME ~astray, BucketsExact, NEW f \in Fields, NEW b \in Buckets,
         itb'[f][b] = itb[f][b],
         Slot(f, b)' = Slot(f, b),
         \A i \in Slot(f, b) : next'[f][i] = next[f][i]
  PROVE  \E p \in Paths : Chain(next'[f], itb'[f][b], p) /\ Range(p) = Slot(f, b)'
<1>1. PICK p \in Paths : Chain(next[f], itb[f][b], p) /\ Range(p) = Slot(f, b)
  BY BucketsAreSlots
<1>2. Chain(next'[f], itb'[f][b], p)
  BY <1>1, ChainFrame
<1> QED BY <1>1, <1>2

LEMMA InvInit == Init => IInv
<1> SUFFICES ASSUME Init PROVE IInv
  OBVIOUS
<1>1. TypeOK /\ ~astray /\ next[next_offset] = list_info_init
  BY TypeInit, LinksMade DEF Init
<1>2. FreeListExact
  <2> DEFINE p == [j \in 1 .. item_total |-> j - 1]
  <2>1. p \in [1 .. item_total -> Items] /\ \A j, k \in 1 .. item_total : p[j] = p[k] => j = k
    BY DEF Items
  <2>2. p \in Paths /\ Len(p) = item_total
    BY <2>1, PathIntro
  <2>3. Chain(next[next_offset], free_head, p)
    BY <1>1 DEF Chain, Init, list_info_init, Items
  <2>4. Range(p) = Items \ held
    <3>1. ASSUME NEW i \in Items PROVE i \in Range(p)
      <4>1. i + 1 \in 1 .. item_total /\ p[i + 1] = i
        BY DEF Items
      <4> QED BY <4>1 DEF Range
    <3>2. Range(p) \subseteq Items
      BY <2>1 DEF Range
    <3> QED BY <3>1, <3>2 DEF Init
  <2>5. free_tail = LastOf(p)
    BY <2>2, PathShape DEF Init
  <2> QED BY <2>2, <2>3, <2>4, <2>5 DEF FreeListExact
<1>3. BucketsExact
  <2>1. ASSUME NEW f \in Fields, NEW b \in Buckets
        PROVE  \E p \in Paths : Chain(next[f], itb[f][b], p) /\ Range(p) = Slot(f, b)
    <3> DEFINE p == [j \in 1 .. 0 |-> 0]
    <3>1. p \in [1 .. 0 -> Items] /\ \A j, k \in 1 .. 0 : p[j] = p[k] => j = k
      OBVIOUS
    <3>2. p \in Paths
      BY <3>1, PathIntro
    <3>3. Chain(next[f], itb[f][b], p)
      BY DEF Chain, Init
    <3>4. Range(p) = Slot(f, b)
      BY DEF Range, Slot, Init
    <3> QED BY <3>2, <3>3, <3>4
  <2> QED BY <2>1, BucketsAreSlots, <1>1
<1>4. KeysUnique /\ ClearedLinks /\ DestAtEnd
  BY DEF Init, KeysUnique, ClearedLinks, DestAtEnd, filled
<1> QED BY <1>1, <1>2, <1>3, <1>4 DEF IInv

LEMMA AllocKeeps == IInv /\ list_alloc_item => IInv'
<1> SUFFICES ASSUME IInv, list_alloc_item PROVE IInv'
  OBVIOUS
<1>1. TypeOK'
  BY TypeStep DEF IInv, Next, Call
<1>2. CASE free_head = INVALID_LIST_HEAD
  BY <1>1, <1>2 DEF IInv, list_alloc_item, FreeListExact, BucketsExact, KeysUnique, ClearedLinks,
     DestAtEnd, filled, Slot
<1>3. CASE free_head # INVALID_LIST_HEAD
  <2>1. PICK p \in Paths : /\ Chain(next[next_offset], free_head, p)
                          /\ Range(p) = Items \ held
                          /\ free_tail = LastOf(p)
    BY DEF IInv, FreeListExact
  <2>2. free_head \in Items /\ free_head \notin held
    BY <1>3, <2>1, ChainEnd
  <2>3. /\ free_head' = next[next_offset][free_head]
        /\ free_tail' = IF free_head' = INVALID_LIST_HEAD THEN INVALID_LIST_HEAD ELSE free_tail
        /\ held' = held \cup {free_head}
        /\ UNCHANGED <<itb, key, linked, dest, astray>>
    BY <1>3 DEF list_alloc_item
  <2>4. \A f \in Fields, i \in Items :
          next'[f][i] = IF f = next_offset /\ i = free_head THEN INVALID_LIST_HEAD ELSE next[f][i]
    BY <1>3, AllocWrites DEF IInv
  <2>5. FreeListExact'
    <3>1. PICK q \in Paths : /\ Chain(next[next_offset], free_head', q)
                            /\ Range(q) = Range(p) \ {free_head}
                            /\ LastOf(q) = free_tail'
      BY <1>3, <2>1, <2>3, ChainTail
    <3>2. Chain(next'[next_offset], free_head', q)
      BY <3>1, <2>1, <2>4, ChainFrame
    <3>3. Range(q) = Items \ held'
      BY <3>1, <2>1, <2>3
    <3> QED BY <3>1, <3>2, <3>3 DEF FreeListExact
  <2>6. BucketsExact'
    <3>1. ASSUME NEW f \in Fields, NEW b \in Buckets
          PROVE  \E q \in Paths : Chain(next'[f], itb'[f][b], q) /\ Range(q) = Slot(f, b)'
      <4>1. Slot(f, b) \subseteq held
        BY DEF IInv, TypeOK, Slot
      <4>2. Slot(f, b)' = Slot(f, b)
        BY <2>3 DEF Slot
      <4>3. \A i \in Slot(f, b) : next'[f][i] = next[f][i]
        BY <4>1, <2>2, <2>4 DEF IInv, TypeOK
      <4> QED BY <4>2, <4>3, <2>3, SlotFrame DEF IInv
    <3> QED BY <3>1 DEF BucketsExact, Slot
  <2>7. KeysUnique'
    BY <2>3 DEF IInv, KeysUnique
  <2>8. ClearedLinks'
    BY <2>2, <2>3, <2>4 DEF IInv, TypeOK, ClearedLinks
  <2>9. DestAtEnd'
    <3>1. ASSUME NEW d \in dest' PROVE d \in dest /\ d.field \in Fields /\ d.last # free_head
      <4>1. d \in dest /\ d.field \in Fields
        BY <2>3 DEF IInv, TypeOK, Dest
      <4>2. Slot(d.field, Hash[d.key]) \subseteq held
        BY <4>1 DEF IInv, TypeOK, Slot
      <4> QED BY <4>1, <4>2, <2>2 DEF IInv, DestAtEnd
    <3>2. \A d \in dest : Slot(d.field, Hash[d.key]) \subseteq Items
      BY DEF IInv, TypeOK, Slot, Dest
    <3> QED BY <3>1, <3>2, <2>3, <2>4 DEF IInv, DestAtEnd, Slot
  <2> QED BY <1>1, <2>3, <2>5, <2>6, <2>7, <2>8, <2>9 DEF IInv
<1> QED BY <1>2, <1>3

LEMMA FreeKeeps == ASSUME NEW i \in Items PROVE IInv /\ list_free_item(i) => IInv'
<1> SUFFICES ASSUME IInv, list_free_item(i) PROVE IInv'
  OBVIOUS
<1>1. TypeOK'
  BY TypeStep DEF IInv, Next, Call
<1>2. PICK p \in Paths : /\ Chain(next[next_offset], free_head, p)
                        /\ Range(p) = Items \ held
                        /\ free_tail = LastOf(p)
  BY DEF IInv, FreeListExact
<1>3. /\ i \in held /\ \A f \in Fields : i \notin linked[f]
      /\ free_head' = IF free_head = INVALID_LIST_HEAD THEN i ELSE free_head
      /\ free_tail' = i
      /\ held' = held \ {i}
      /\ key' = [key EXCEPT ![i] = Unwritten]
      /\ UNCHANGED <<itb, linked, dest, astray>>
  BY DEF list_free_item, AppendFree, Unlinked
<1>4. \A f \in Fields, m \in Items :
        next'[f][m] = IF f # next_offset THEN next[f][m]
                      ELSE IF m = i THEN INVALID_LIST_HEAD
                      ELSE IF free_head # INVALID_LIST_HEAD /\ m = free_tail THEN i
                      ELSE next[f][m]
  BY FreeWrites DEF IInv
<1>5. free_head # INVALID_LIST_HEAD => free_tail \notin held
  BY <1>2, ChainEnd
<1>6. FreeListExact'
  <2>1. \A m \in Range(p) : next'[next_offset][m] = IF m = LastOf(p) THEN i ELSE next[next_offset][m]
    BY <1>2, <1>3, <1>4, ChainEnd
  <2>2. next'[next_offset][i] = INVALID_LIST_HEAD /\ i \in Items /\ i \notin Range(p)
    BY <1>2, <1>3, <1>4
  <2>3. free_head' = IF Range(p) = {} THEN i ELSE free_head
    BY <1>2, <1>3, ChainEnd
  <2>4. PICK q \in Paths : /\ Chain(next'[next_offset], free_head', q)
                          /\ Range(q) = Range(p) \cup {i}
                          /\ LastOf(q) = i
    <3> DEFINE g  == next[next_offset]
               g2 == next'[next_offset]
    <3>1. Chain(g, free_head, p) /\ Appends(g, g2, free_head, free_head', p, i)
      BY <1>2, <2>1, <2>2, <2>3 DEF Appends
    <3> HIDE DEF g, g2
    <3>2. /\ Append(p, i) \in Paths
          /\ Chain(g2, free_head', Append(p, i))
          /\ Range(Append(p, i)) = Range(p) \cup {i}
          /\ LastOf(Append(p, i)) = i
      BY <3>1, <2>2, ChainAppend
    <3> QED BY <3>2 DEF g2
  <2>5. Range(q) = Items \ held'
    BY <1>2, <1>3, <2>4
  <2> QED BY <2>4, <2>5, <1>3 DEF FreeListExact
<1>7. \A f \in Fields : \A m \in linked[f] : /\ m \in held /\ m \in Items /\ m # i
                                            /\ key'[m] = key[m]
                                            /\ next'[f][m] = next[f][m]
  <2>1. \A f \in Fields : \A m \in linked[f] : m \in held /\ m \in Items /\ m # i
    BY <1>3 DEF IInv, TypeOK
  <2> QED BY <2>1, <1>3, <1>4, <1>5 DEF IInv, TypeOK
<1>8. \A f \in Fields, b \in Buckets : Slot(f, b)' = Slot(f, b)
  BY <1>3, <1>7 DEF Slot
<1>9. BucketsExact'
  <2>1. ASSUME NEW f \in Fields, NEW b \in Buckets
        PROVE  \E q \in Paths : Chain(next'[f], itb'[f][b], q) /\ Range(q) = Slot(f, b)'
    <3>1. \A m \in Slot(f, b) : next'[f][m] = next[f][m]
      BY <1>7 DEF Slot
    <3> QED BY <3>1, <1>3, <1>8, SlotFrame DEF IInv
  <2> QED BY <2>1 DEF BucketsExact, Slot
<1>10. KeysUnique'
  BY <1>3, <1>7 DEF IInv, KeysUnique
<1>11. ClearedLinks'
  BY <1>3, <1>4, <1>5 DEF IInv, TypeOK, ClearedLinks
<1>12. DestAtEnd'
  <2> SUFFICES ASSUME NEW d \in dest
               PROVE  LET S == Slot(d.field, Hash[d.key])' IN
                      /\ \A m \in S : key'[m] # d.key
                      /\ S = {} => d.last = INVALID_LIST_HEAD
                      /\ S # {} => d.last \in S /\ next'[d.field][d.last] = INVALID_LIST_HEAD
    BY <1>3 DEF DestAtEnd, Slot
  <2>1. d.field \in Fields /\ Hash[d.key] \in Buckets
    BY DEF IInv, TypeOK, Dest
  <2>2. Slot(d.field, Hash[d.key])' = Slot(d.field, Hash[d.key])
    BY <2>1, <1>8
  <2>3. Slot(d.field, Hash[d.key]) \subseteq linked[d.field]
    BY DEF Slot
  <2> QED BY <2>1, <2>2, <2>3, <1>7 DEF IInv, DestAtEnd
<1> QED BY <1>1, <1>3, <1>6, <1>9, <1>10, <1>11, <1>12 DEF IInv

LEMMA FillKeeps == ASSUME NEW i \in Items, NEW k \in Keys PROVE IInv /\ Fill(i, k) => IInv'
<1> SUFFICES ASSUME IInv, Fill(i, k) PROVE IInv'
  OBVIOUS
<1>1. TypeOK'
  BY TypeStep DEF IInv, Next, Call
<1>2. /\ i \in held /\ \A f \in Fields : i \notin linked[f]
      /\ key' = [key EXCEPT ![i] = k]
      /\ UNCHANGED <<free_head, free_tail, itb, held, linked, dest, astray>>
  BY DEF Fill, Unlinked
<1>3. \A f \in Fields, m \in Items : f = next_offset \/ m # i => next'[f][m] = next[f][m]
  BY DEF IInv, TypeOK, Fill, item_set_next2
<1>4. \A f \in Fields : \A m \in linked[f] : /\ m \in Items /\ m # i
                                            /\ key'[m] = key[m]
                                            /\ next'[f][m] = next[f][m]
  BY <1>2, <1>3 DEF IInv, TypeOK
<1>5. \A f \in Fields, b \in Buckets : Slot(f, b)' = Slot(f, b)
  BY <1>2, <1>4 DEF Slot
<1>6. FreeListExact'
  <2>1. PICK p \in Paths : /\ Chain(next[next_offset], free_head, p)
                          /\ Range(p) = Items \ held
                          /\ free_tail = LastOf(p)
    BY DEF IInv, FreeListExact
  <2>2. Chain(next'[next_offset], free_head', p)
    BY <2>1, <1>2, <1>3, ChainFrame
  <2> QED BY <2>1, <2>2, <1>2 DEF FreeListExact
<1>7. BucketsExact'
  <2>1. ASSUME NEW f \in Fields, NEW b \in Buckets
        PROVE  \E q \in Paths : Chain(next'[f], itb'[f][b], q) /\ Range(q) = Slot(f, b)'
    <3>1. \A m \in Slot(f, b) : next'[f][m] = next[f][m]
      BY <1>4 DEF Slot
    <3> QED BY <3>1, <1>2, <1>5, SlotFrame DEF IInv
  <2> QED BY <2>1 DEF BucketsExact, Slot
<1>8. KeysUnique'
  BY <1>2, <1>4 DEF IInv, KeysUnique
<1>9. ClearedLinks'
  BY <1>2, <1>3 DEF IInv, TypeOK, ClearedLinks
<1>10. DestAtEnd'
  <2> SUFFICES ASSUME NEW d \in dest
               PROVE  LET S == Slot(d.field, Hash[d.key])' IN
                      /\ \A m \in S : key'[m] # d.key
                      /\ S = {} => d.last = INVALID_LIST_HEAD
                      /\ S # {} => d.last \in S /\ next'[d.field][d.last] = INVALID_LIST_HEAD
    BY <1>2 DEF DestAtEnd, Slot
  <2>1. d.field \in Fields /\ Hash[d.key] \in Buckets
    BY DEF IInv, TypeOK, Dest
  <2>2. Slot(d.field, Hash[d.key])' = Slot(d.field, Hash[d.key])
    BY <2>1, <1>5
  <2>3. Slot(d.field, Hash[d.key]) \subseteq linked[d.field]
    BY DEF Slot
  <2> QED BY <2>1, <2>2, <2>3, <1>4 DEF IInv, DestAtEnd
<1> QED BY <1>1, <1>2, <1>6, <1>7, <1>8, <1>9, <1>10 DEF IInv

LEMMA PrelinkKeeps ==
  ASSUME NEW f \in Fields, NEW k \in Keys PROVE IInv /\ index_list_prelink2(f, k) => IInv'
<1> SUFFICES ASSUME IInv, index_list_prelink2(f, k) PROVE IInv'
  OBVIOUS
<1>1. TypeOK'
  BY TypeStep DEF IInv, Next, Call
<1>2. UNCHANGED <<next, free_head, free_tail, itb, key, held, linked, astray>>
  BY DEF index_list_prelink2
<1>3. FreeListExact' /\ BucketsExact' /\ KeysUnique' /\ ClearedLinks'
  BY <1>2 DEF IInv, FreeListExact, BucketsExact, KeysUnique, ClearedLinks, filled
<1>4. PICK p \in Paths : /\ Chain(next[f], itb[f][Hash[k]], p)
                        /\ \/ dest' = dest
                           \/ NoMatch(p, k) /\ dest' = dest \cup {AddressFor(f, k, p)}
  BY KeepsOne DEF index_list_prelink2
<1>5. Range(p) = Slot(f, Hash[k])
  <2>1. PICK q \in Paths : Chain(next[f], itb[f][Hash[k]], q) /\ Range(q) = Slot(f, Hash[k])
    BY BucketsAreSlots DEF IInv
  <2> QED BY <1>4, <2>1, PathUnique
<1>6. DestAtEnd'
  <2> SUFFICES ASSUME NEW d \in dest'
               PROVE  LET S == Slot(d.field, Hash[d.key]) IN
                      /\ \A m \in S : key[m] # d.key
                      /\ S = {} => d.last = INVALID_LIST_HEAD
                      /\ S # {} => d.last \in S /\ next[d.field][d.last] = INVALID_LIST_HEAD
    BY <1>2 DEF DestAtEnd, Slot
  <2>1. CASE d \in dest
    BY <2>1 DEF IInv, DestAtEnd
  <2>2. CASE NoMatch(p, k) /\ d = AddressFor(f, k, p)
    <3>1. d.field = f /\ d.key = k /\ d.last = LastOf(p)
      BY <2>2 DEF AddressFor
    <3>2. \A m \in Slot(f, Hash[k]) : key[m] # k
      BY <2>2, <1>5 DEF NoMatch, Range
    <3> QED BY <3>1, <3>2, <1>4, <1>5, ChainEnd
  <2> QED BY <1>4, <2>1, <2>2
<1> QED BY <1>1, <1>2, <1>3, <1>6 DEF IInv

\* do_link appends the item to its slot's chain and leaves the others alone.
LEMMA DoLinkEffect ==
  ASSUME IInv, NEW d \in dest, NEW i \in Items, index_list_do_link(d, i),
         NEW f, f = d.field, NEW b, b = Hash[d.key]
  PROVE  /\ f \in Fields /\ b \in Buckets
         /\ d.last = INVALID_LIST_HEAD \/ (d.last \in Slot(f, b) /\ d.last \in linked[f])
         /\ \A x \in Fields, c \in Buckets : x # f \/ c # b =>
              /\ Slot(x, c)' = Slot(x, c)
              /\ \A m \in Slot(x, c) : next'[x][m] = next[x][m]
              /\ itb'[x][c] = itb[x][c]
         /\ \A m \in Items \ held : next'[next_offset][m] = next[next_offset][m]
         /\ \A p \in Paths : Chain(next[f], itb[f][b], p) /\ Range(p) = Slot(f, b) =>
              /\ Append(p, i) \in Paths
              /\ Chain(next'[f], itb'[f][b], Append(p, i))
              /\ Range(Append(p, i)) = Range(p) \cup {i}
<1>2. /\ f \in Fields /\ d.key \in Keys /\ b \in Buckets
      /\ \A x \in Fields, m \in Items :
           next'[x][m] = IF x = f /\ m = d.last THEN i ELSE next[x][m]
      /\ \A x \in Fields, c \in Buckets :
           itb'[x][c] = IF x = f /\ c = b /\ d.last = INVALID_LIST_HEAD THEN i ELSE itb[x][c]
  BY DoLinkWrites DEF IInv, index_list_do_link
<1>3. /\ i \notin linked[f] /\ key[i] = d.key
      /\ linked' = [linked EXCEPT ![f] = @ \cup {i}]
      /\ UNCHANGED <<free_head, free_tail, key, held, astray>>
  BY ChangesOne DEF index_list_do_link, Writes
<1>4. i \in held /\ next[f][i] = INVALID_LIST_HEAD
  BY <1>2, <1>3 DEF IInv, TypeOK, filled, index_list_do_link
<1>5. \A x \in Fields : linked'[x] = IF x = f THEN linked[x] \cup {i} ELSE linked[x]
  BY <1>2, <1>3 DEF IInv, TypeOK
<1>6. /\ Slot(f, b) = {} => d.last = INVALID_LIST_HEAD
      /\ Slot(f, b) # {} => d.last \in Slot(f, b) /\ next[f][d.last] = INVALID_LIST_HEAD
  BY DEF IInv, DestAtEnd
<1>7. \A x \in Fields, c \in Buckets : Slot(x, c) \subseteq linked[x] /\ linked[x] \subseteq held /\ held \subseteq Items
  BY DEF Slot, IInv, TypeOK
<1>8. d.last = INVALID_LIST_HEAD \/ d.last \in Slot(f, b)
  BY <1>6
<1>9. ASSUME NEW x \in Fields, NEW c \in Buckets, x # f \/ c # b
      PROVE  /\ Slot(x, c)' = Slot(x, c)
             /\ \A m \in Slot(x, c) : next'[x][m] = next[x][m]
             /\ itb'[x][c] = itb[x][c]
  <2>1. Hash[key[i]] = b
    BY <1>3
  <2>2. CASE x # f
    BY <2>2, <1>2, <1>3, <1>5, <1>7 DEF Slot
  <2>3. CASE x = f
    BY <1>9, <2>1, <2>3, <1>2, <1>3, <1>5, <1>7, <1>8 DEF Slot
  <2> QED BY <2>2, <2>3
<1>10. \A m \in Items \ held : next'[next_offset][m] = next[next_offset][m]
  BY <1>2, <1>7, <1>8
<1>11. ASSUME NEW p \in Paths, Chain(next[f], itb[f][b], p), Range(p) = Slot(f, b)
       PROVE  /\ Append(p, i) \in Paths
              /\ Chain(next'[f], itb'[f][b], Append(p, i))
              /\ Range(Append(p, i)) = Range(p) \cup {i}
  <2> DEFINE g  == next[f]
             g2 == next'[f]
             h  == itb[f][b]
             h2 == itb'[f][b]
  <2>2. d.last = LastOf(p)
    BY <1>6, <1>11, ChainEnd
  <2>3. i \in Items /\ i \notin Range(p) /\ g2[i] = INVALID_LIST_HEAD
    BY <1>11, <1>2, <1>3, <1>4, <1>7, <1>8
  <2>4. \A m \in Range(p) : g2[m] = IF m = LastOf(p) THEN i ELSE g[m]
    BY <1>11, <2>2, <1>2, <1>7
  <2>5. h2 = IF Range(p) = {} THEN i ELSE h
    BY <1>11, <2>2, <1>2, ChainEnd
  <2>6. Chain(g, h, p) /\ Appends(g, g2, h, h2, p, i)
    BY <1>11, <2>3, <2>4, <2>5 DEF Appends
  <2> HIDE DEF g, g2, h, h2
  <2>7. /\ Append(p, i) \in Paths
        /\ Chain(g2, h2, Append(p, i))
        /\ Range(Append(p, i)) = Range(p) \cup {i}
    BY <2>3, <2>6, ChainAppend
  <2> QED BY <2>7 DEF g2, h2
<1> QED BY <1>2, <1>7, <1>8, <1>9, <1>10, <1>11

LEMMA DoLinkKeeps ==
  ASSUME NEW d \in dest, NEW i \in Items PROVE IInv /\ index_list_do_link(d, i) => IInv'
<1> SUFFICES ASSUME IInv, index_list_do_link(d, i) PROVE IInv'
  OBVIOUS
<1> DEFINE f == d.field
           b == Hash[d.key]
<1>1. TypeOK'
  BY TypeStep DEF IInv, Next, Call
<1>2. /\ f \in Fields /\ d.key \in Keys /\ b \in Buckets
      /\ \A x \in Fields, m \in Items :
           next'[x][m] = IF x = f /\ m = d.last THEN i ELSE next[x][m]
      /\ \A x \in Fields, c \in Buckets :
           itb'[x][c] = IF x = f /\ c = b /\ d.last = INVALID_LIST_HEAD THEN i ELSE itb[x][c]
  BY DoLinkWrites DEF IInv, index_list_do_link
<1>3. /\ i \notin linked[f] /\ key[i] = d.key
      /\ linked' = [linked EXCEPT ![f] = @ \cup {i}]
      /\ dest' = Settle(f, b)
      /\ UNCHANGED <<free_head, free_tail, key, held, astray>>
  BY ChangesOne DEF index_list_do_link, Writes
<1>4. i \in held /\ next[f][i] = INVALID_LIST_HEAD
  BY <1>2, <1>3 DEF IInv, TypeOK, filled, index_list_do_link
<1>5. \A x \in Fields : linked'[x] = IF x = f THEN linked[x] \cup {i} ELSE linked[x]
  BY <1>2, <1>3 DEF IInv, TypeOK
<1>6. /\ \A m \in Slot(f, b) : key[m] # d.key
      /\ Slot(f, b) = {} => d.last = INVALID_LIST_HEAD
      /\ Slot(f, b) # {} => d.last \in Slot(f, b) /\ next[f][d.last] = INVALID_LIST_HEAD
  BY DEF IInv, DestAtEnd
<1>7. \A x \in Fields, c \in Buckets : Slot(x, c) \subseteq linked[x] /\ linked[x] \subseteq held /\ held \subseteq Items
  BY DEF Slot, IInv, TypeOK
<1>8. /\ d.last = INVALID_LIST_HEAD \/ (d.last \in Slot(f, b) /\ d.last \in linked[f])
      /\ \A m \in Items \ held : next'[next_offset][m] = next[next_offset][m]
      /\ \A x \in Fields, c \in Buckets : x # f \/ c # b =>
           /\ Slot(x, c)' = Slot(x, c)
           /\ \A m \in Slot(x, c) : next'[x][m] = next[x][m]
           /\ itb'[x][c] = itb[x][c]
      /\ \A p \in Paths : Chain(next[f], itb[f][b], p) /\ Range(p) = Slot(f, b) =>
           /\ Append(p, i) \in Paths
           /\ Chain(next'[f], itb'[f][b], Append(p, i))
           /\ Range(Append(p, i)) = Range(p) \cup {i}
  BY DoLinkEffect
<1> HIDE DEF f, b
<1>15. Slot(f, b)' = Slot(f, b) \cup {i}
  <2>1. linked'[f] = linked[f] \cup {i} /\ key' = key /\ Hash[key[i]] = b
    BY <1>2, <1>3, <1>5 DEF b
  <2> QED BY <2>1 DEF Slot
<1>10. FreeListExact'
  <2>1. PICK p \in Paths : /\ Chain(next[next_offset], free_head, p)
                          /\ Range(p) = Items \ held
                          /\ free_tail = LastOf(p)
    BY DEF IInv, FreeListExact
  <2>2. \A m \in Range(p) : next'[next_offset][m] = next[next_offset][m]
    BY <2>1, <1>8
  <2>3. Chain(next'[next_offset], free_head', p)
    BY <2>1, <2>2, <1>3, ChainFrame
  <2> QED BY <2>1, <2>3, <1>3 DEF FreeListExact
<1>11. BucketsExact'
  <2> SUFFICES ASSUME NEW x \in Fields, NEW c \in Buckets
               PROVE  \E q \in Paths : Chain(next'[x], itb'[x][c], q) /\ Range(q) = Slot(x, c)'
    BY DEF BucketsExact, Slot
  <2>1. CASE x # f \/ c # b
    <3>1. /\ Slot(x, c)' = Slot(x, c)
          /\ \A m \in Slot(x, c) : next'[x][m] = next[x][m]
          /\ itb'[x][c] = itb[x][c]
      BY <2>1, <1>8
    <3> QED BY <3>1, SlotFrame DEF IInv
  <2>2. CASE x = f /\ c = b
    <3>1. PICK p \in Paths : Chain(next[f], itb[f][b], p) /\ Range(p) = Slot(f, b)
      BY <1>2, BucketsAreSlots DEF IInv
    <3>2. /\ Append(p, i) \in Paths
          /\ Chain(next'[f], itb'[f][b], Append(p, i))
          /\ Range(Append(p, i)) = Range(p) \cup {i}
      BY <3>1, <1>8
    <3> QED BY <3>1, <3>2, <2>2, <1>15
  <2> QED BY <2>1, <2>2
<1>12. KeysUnique'
  <2>1. \A m \in linked[f] : key[m] # key[i]
    BY <1>3, <1>6 DEF Slot, b
  <2> QED BY <2>1, <1>3, <1>5 DEF IInv, KeysUnique
<1>13. ClearedLinks'
  <2>1. ASSUME NEW m \in held, m \notin linked'[next_offset]
        PROVE  next'[next_offset][m] = INVALID_LIST_HEAD
    <3>1. m \in Items /\ m \notin linked[next_offset] /\ next[next_offset][m] = INVALID_LIST_HEAD
      BY <2>1, <1>5 DEF IInv, TypeOK, ClearedLinks
    <3>2. next_offset = f => m # d.last
      BY <3>1, <1>8, ChainAssumption DEF Items
    <3> QED BY <3>1, <3>2, <1>2
  <2> QED BY <2>1, <1>3 DEF ClearedLinks
<1>14. DestAtEnd'
  <2> SUFFICES ASSUME NEW e \in dest'
               PROVE  LET S == Slot(e.field, Hash[e.key])' IN
                      /\ \A m \in S : key[m] # e.key
                      /\ S = {} => e.last = INVALID_LIST_HEAD
                      /\ S # {} => e.last \in S /\ next'[e.field][e.last] = INVALID_LIST_HEAD
    BY <1>3 DEF DestAtEnd, Slot
  <2>1. e \in dest /\ (e.field # f \/ Hash[e.key] # b)
    BY <1>3 DEF Settle
  <2>2. e.field \in Fields /\ Hash[e.key] \in Buckets
    BY <2>1 DEF IInv, TypeOK, Dest
  <2>3. /\ Slot(e.field, Hash[e.key])' = Slot(e.field, Hash[e.key])
        /\ \A m \in Slot(e.field, Hash[e.key]) : next'[e.field][m] = next[e.field][m]
    BY <2>1, <2>2, <1>8
  <2> QED BY <2>1, <2>3 DEF IInv, DestAtEnd
<1> QED BY <1>1, <1>3, <1>10, <1>11, <1>12, <1>13, <1>14 DEF IInv

\* unlink takes the item out of its slot's chain and leaves the others alone.
LEMMA UnlinkEffect ==
  ASSUME IInv, NEW f \in Fields, NEW b \in Buckets, NEW p \in Paths,
         Chain(next[f], itb[f][b], p), NEW j \in DOMAIN p, UnlinkAt(f, b, p, j), key' = key
  PROVE  /\ Range(p) = Slot(f, b)
         /\ \A x \in Fields, c \in Buckets : x # f \/ c # b =>
              /\ Slot(x, c)' = Slot(x, c)
              /\ \A m \in Slot(x, c) : next'[x][m] = next[x][m]
              /\ itb'[x][c] = itb[x][c]
         /\ \A m \in Items \ held : next'[next_offset][m] = next[next_offset][m]
         /\ Without(p, j) \in Paths
         /\ Chain(next'[f], itb'[f][b], Without(p, j))
         /\ Range(Without(p, j)) = Range(p) \ {p[j]}
<1> DEFINE x == p[j]
           y == p[j - 1]
<1>2. Range(p) = Slot(f, b)
  <2>1. PICK q \in Paths : Chain(next[f], itb[f][b], q) /\ Range(q) = Slot(f, b)
    BY BucketsAreSlots DEF IInv
  <2> QED BY <2>1, PathUnique
<1>3. /\ x \in Slot(f, b)
      /\ j # 1 => y \in Slot(f, b) /\ y # x
      /\ j = 1 => itb[f][b] = x
  BY <1>2, PathShape DEF Range, Chain
<1>4. /\ \A g \in Fields, m \in Items :
            next'[g][m] = IF g # f THEN next[g][m]
                          ELSE IF m = x THEN INVALID_LIST_HEAD
                          ELSE IF j # 1 /\ m = y THEN next[f][x]
                          ELSE next[g][m]
      /\ \A g \in Fields, c \in Buckets :
            itb'[g][c] = IF j = 1 /\ g = f /\ c = b THEN next[f][x] ELSE itb[g][c]
  BY UnlinkWrites DEF IInv
<1>5. linked' = [linked EXCEPT ![f] = @ \ {x}]
  BY DEF UnlinkAt
<1>6. \A g \in Fields : linked'[g] = IF g = f THEN linked[g] \ {x} ELSE linked[g]
  BY <1>5 DEF IInv, TypeOK
<1>7. \A g \in Fields, c \in Buckets :
        Slot(g, c) \subseteq linked[g] /\ linked[g] \subseteq held /\ held \subseteq Items
  BY DEF Slot, IInv, TypeOK
<1>8. x \in Items /\ x \in linked[f] /\ (j # 1 => y \in Items /\ y \in linked[f])
  BY <1>3, <1>7
<1> HIDE DEF x, y
<1>9. ASSUME NEW g \in Fields, NEW c \in Buckets, g # f \/ c # b
      PROVE  /\ Slot(g, c)' = Slot(g, c)
             /\ \A m \in Slot(g, c) : next'[g][m] = next[g][m]
             /\ itb'[g][c] = itb[g][c]
  <2>1. CASE g # f
    BY <2>1, <1>4, <1>6, <1>7 DEF Slot
  <2>2. CASE g = f /\ c # b
    <3>1. linked'[f] = linked[f] \ {x} /\ Hash[key[x]] = b /\ (j # 1 => Hash[key[y]] = b)
      BY <1>3, <1>6 DEF Slot
    <3>2. Slot(f, c)' = Slot(f, c)
      BY <2>2, <3>1 DEF Slot
    <3>3. \A m \in Slot(f, c) : m \in Items /\ m # x /\ (j # 1 => m # y)
      BY <2>2, <3>1, <1>7 DEF Slot
    <3>4. \A m \in Slot(f, c) : next'[f][m] = next[f][m]
      BY <3>3, <1>4
    <3>5. itb'[f][c] = itb[f][c]
      BY <2>2, <1>4
    <3> QED BY <2>2, <3>2, <3>4, <3>5
  <2> QED BY <1>9, <2>1, <2>2
<1>10. \A m \in Items \ held : next'[next_offset][m] = next[next_offset][m]
  BY <1>4, <1>7, <1>8
<1>11. /\ Without(p, j) \in Paths
       /\ Chain(next'[f], itb'[f][b], Without(p, j))
       /\ Range(Without(p, j)) = Range(p) \ {p[j]}
  <2>1. CASE j = 1
    <3>1. itb[f][b] = x /\ x # INVALID_LIST_HEAD /\ itb'[f][b] = next[f][x]
      BY <2>1, <1>3, <1>4, <1>8
    <3>2. PICK q \in Paths : /\ q = Tail(p)
                             /\ Chain(next[f], next[f][x], q)
                             /\ Range(q) = Range(p) \ {x}
      BY <3>1, ChainTail
    <3>3. q = Without(p, j)
      BY <2>1, <3>2, PathShape, PathTail, PathWithout
    <3>4. \A m \in Range(q) : next'[f][m] = next[f][m]
      BY <3>2, <2>1, <1>2, <1>4, <1>7
    <3>5. Chain(next'[f], itb'[f][b], q)
      BY <3>1, <3>2, <3>4, ChainFrame
    <3> QED BY <3>2, <3>3, <3>5 DEF x
  <2>2. CASE j # 1
    <3> DEFINE l  == next[f]
               l2 == next'[f]
               h  == itb[f][b]
    <3>1. l2[p[j - 1]] = l[p[j]]
      BY <2>2, <1>3, <1>4, <1>8 DEF x, y
    <3>2. \A m \in Range(p) \ {p[j - 1], p[j]} : l2[m] = l[m]
      BY <2>2, <1>2, <1>4, <1>7 DEF x, y
    <3>3. Chain(l, h, p) /\ itb'[f][b] = h
      BY <2>2, <1>4
    <3> HIDE DEF l, l2, h
    <3>4. \E q \in Paths : q = Without(p, j) /\ Chain(l2, h, q) /\ Range(q) = Range(p) \ {p[j]}
      BY <3>1, <3>2, <3>3, <2>2, ChainBypass
    <3> QED BY <3>3, <3>4 DEF l2
  <2> QED BY <2>1, <2>2
<1> QED BY <1>2, <1>9, <1>10, <1>11

LEMMA UnlinkKeeps ==
  ASSUME NEW f \in Fields, NEW k \in Keys PROVE IInv /\ index_list_unlink2(f, k) => IInv'
<1> SUFFICES ASSUME IInv, index_list_unlink2(f, k) PROVE IInv'
  OBVIOUS
<1> DEFINE b == Hash[k]
<1>1. TypeOK'
  BY TypeStep DEF IInv, Next, Call
<1>2. UNCHANGED <<free_head, free_tail, key, held, astray>>
  BY DEF index_list_unlink2
<1>3. PICK p \in Paths :
        /\ Chain(next[f], itb[f][b], p)
        /\ \/ \E j \in DOMAIN p : FirstMatch(p, k, j) /\ UnlinkAt(f, b, p, j)
           \/ UNCHANGED <<next, itb, linked, dest>>
  BY DEF index_list_unlink2
<1>4. CASE UNCHANGED <<next, itb, linked, dest>>
  BY <1>1, <1>2, <1>4 DEF IInv, FreeListExact, BucketsExact, KeysUnique, ClearedLinks, DestAtEnd,
     filled, Slot
<1>5. ASSUME NEW j \in DOMAIN p, UnlinkAt(f, b, p, j) PROVE IInv'
  <2> DEFINE x == p[j]
             y == p[j - 1]
  <2>1. b \in Buckets
    OBVIOUS
  <2>2. /\ Range(p) = Slot(f, b)
        /\ \A g \in Fields, c \in Buckets : g # f \/ c # b =>
             /\ Slot(g, c)' = Slot(g, c)
             /\ \A m \in Slot(g, c) : next'[g][m] = next[g][m]
             /\ itb'[g][c] = itb[g][c]
        /\ \A m \in Items \ held : next'[next_offset][m] = next[next_offset][m]
        /\ Without(p, j) \in Paths
        /\ Chain(next'[f], itb'[f][b], Without(p, j))
        /\ Range(Without(p, j)) = Range(p) \ {x}
    BY <1>2, <1>3, <1>5, <2>1, UnlinkEffect
  <2>3. /\ x \in Slot(f, b)
        /\ j # 1 => y \in Slot(f, b) /\ y # x
        /\ j = 1 => itb[f][b] = x
    BY <1>3, <2>2, PathShape DEF Range, Chain
  <2>4. /\ \A g \in Fields, m \in Items :
              next'[g][m] = IF g # f THEN next[g][m]
                            ELSE IF m = x THEN INVALID_LIST_HEAD
                            ELSE IF j # 1 /\ m = y THEN next[f][x]
                            ELSE next[g][m]
        /\ \A g \in Fields, c \in Buckets :
              itb'[g][c] = IF j = 1 /\ g = f /\ c = b THEN next[f][x] ELSE itb[g][c]
    BY <1>5, <2>1, UnlinkWrites DEF IInv
  <2>5. linked' = [linked EXCEPT ![f] = @ \ {x}] /\ dest' = Settle(f, b)
    BY <1>5, ChangesOne DEF UnlinkAt
  <2>6. \A g \in Fields : linked'[g] = IF g = f THEN linked[g] \ {x} ELSE linked[g]
    BY <2>5 DEF IInv, TypeOK
  <2>7. \A g \in Fields, c \in Buckets :
          Slot(g, c) \subseteq linked[g] /\ linked[g] \subseteq held /\ held \subseteq Items
    BY DEF Slot, IInv, TypeOK
  <2>8. x \in Items /\ x \in linked[f] /\ (j # 1 => y \in Items /\ y \in linked[f])
    BY <2>1, <2>3, <2>7
  <2> HIDE DEF x, y
  <2>15. Slot(f, b)' = Slot(f, b) \ {x}
    BY <1>2, <2>6 DEF Slot
  <2>10. FreeListExact'
    <3>1. PICK q \in Paths : /\ Chain(next[next_offset], free_head, q)
                            /\ Range(q) = Items \ held
                            /\ free_tail = LastOf(q)
      BY DEF IInv, FreeListExact
    <3>2. \A m \in Range(q) : next'[next_offset][m] = next[next_offset][m]
      BY <3>1, <2>2
    <3>3. Chain(next'[next_offset], free_head', q)
      BY <3>1, <3>2, <1>2, ChainFrame
    <3> QED BY <3>1, <3>3, <1>2 DEF FreeListExact
  <2>11. BucketsExact'
    <3> SUFFICES ASSUME NEW g \in Fields, NEW c \in Buckets
                 PROVE  \E q \in Paths : Chain(next'[g], itb'[g][c], q) /\ Range(q) = Slot(g, c)'
      BY DEF BucketsExact, Slot
    <3>1. CASE g # f \/ c # b
      <4>1. /\ Slot(g, c)' = Slot(g, c)
            /\ \A m \in Slot(g, c) : next'[g][m] = next[g][m]
            /\ itb'[g][c] = itb[g][c]
        BY <3>1, <2>2
      <4> QED BY <4>1, SlotFrame DEF IInv
    <3>2. CASE g = f /\ c = b
      BY <3>2, <2>2, <2>15
    <3> QED BY <3>1, <3>2
  <2>12. KeysUnique'
    BY <1>2, <2>6 DEF IInv, KeysUnique
  <2>13. ClearedLinks'
    <3>1. ASSUME NEW m \in held, m \notin linked'[next_offset]
          PROVE  next'[next_offset][m] = INVALID_LIST_HEAD
      <4>1. m \in Items
        BY DEF IInv, TypeOK
      <4>2. CASE next_offset = f /\ m = x
        BY <4>1, <4>2, <2>4
      <4>3. CASE next_offset # f \/ m # x
        <5>1. m \notin linked[next_offset] /\ next[next_offset][m] = INVALID_LIST_HEAD
          BY <4>3, <3>1, <2>6 DEF IInv, ClearedLinks
        <5>2. next_offset = f /\ j # 1 => m # y
          BY <5>1, <2>8
        <5> QED BY <4>1, <4>3, <5>1, <5>2, <2>4
      <4> QED BY <4>2, <4>3
    <3> QED BY <3>1, <1>2 DEF ClearedLinks
  <2>14. DestAtEnd'
    <3> SUFFICES ASSUME NEW e \in dest'
                 PROVE  LET S == Slot(e.field, Hash[e.key])' IN
                        /\ \A m \in S : key[m] # e.key
                        /\ S = {} => e.last = INVALID_LIST_HEAD
                        /\ S # {} => e.last \in S /\ next'[e.field][e.last] = INVALID_LIST_HEAD
      BY <1>2 DEF DestAtEnd, Slot
    <3>1. e \in dest /\ (e.field # f \/ Hash[e.key] # b)
      BY <2>5 DEF Settle
    <3>2. e.field \in Fields /\ Hash[e.key] \in Buckets
      BY <3>1 DEF IInv, TypeOK, Dest
    <3>3. /\ Slot(e.field, Hash[e.key])' = Slot(e.field, Hash[e.key])
          /\ \A m \in Slot(e.field, Hash[e.key]) : next'[e.field][m] = next[e.field][m]
      BY <3>1, <3>2, <2>2
    <3> QED BY <3>1, <3>3 DEF IInv, DestAtEnd
  <2> QED BY <1>1, <1>2, <2>10, <2>11, <2>12, <2>13, <2>14 DEF IInv
<1> QED BY <1>3, <1>4, <1>5

LEMMA InvStep ==
  IInv /\ [Next]_vars => IInv' \/ \E d \in dest \cup stale, i \in Items : link_astray(d, i)
<1> SUFFICES ASSUME IInv, [Next]_vars,
                    ~ \E d \in dest \cup stale, i \in Items : link_astray(d, i)
             PROVE  IInv'
  OBVIOUS
<1>1. CASE UNCHANGED vars
  <2>1. TypeOK'
    BY TypeStep DEF IInv
  <2> QED BY <1>1, <2>1 DEF vars, IInv, FreeListExact, BucketsExact, KeysUnique, ClearedLinks,
             DestAtEnd, filled, Slot
<1>2. ~start_over
  BY DEF IInv, start_over
<1> QED BY <1>1, <1>2, AllocKeeps, FreeKeeps, FillKeeps, PrelinkKeeps, UnlinkKeeps, DoLinkKeeps
        DEF Next, Call

\* The invariant of the whole: nothing but the types is left of it while the
\* list is astray, and a new list has all of it.
SInv == TypeOK /\ (~astray => IInv)

LEMMA SInvStep == ASSUME SInv, [Next]_vars, Init' => IInv' PROVE SInv'
<1>1. TypeOK'
  BY TypeStep DEF SInv
<1>2. CASE ~astray
  <2>1. CASE \E d \in dest \cup stale, i \in Items : link_astray(d, i)
    BY <1>1, <2>1 DEF SInv, link_astray
  <2>2. CASE IInv'
    BY <1>1, <2>2 DEF SInv
  <2> QED BY <1>2, <2>1, <2>2, InvStep DEF SInv
<1>3. CASE astray /\ start_over
  BY <1>1, <1>3, StartsOver DEF SInv
<1>4. CASE astray /\ UNCHANGED vars
  BY <1>1, <1>4 DEF SInv, vars
<1> QED BY <1>2, <1>3, <1>4 DEF Next, SInv, TypeOK

\* In every reachable state the types hold and, unless an item was linked at
\* an address that is no longer a place for it, so does the inductive
\* invariant (list.c:45-223).
THEOREM Inductive == Spec => []SInv
<1>1. Init => SInv
  BY InvInit DEF SInv, IInv
<1>2. SInv /\ [Next]_vars /\ (Init' => IInv') => SInv'
  BY SInvStep
<1> QED BY <1>1, <1>2, InvInit, PTL DEF Spec

-----------------------------------------------------------------------------
(* What follows from it.                                                   *)

\* In every reachable state, unless an item was linked astray, the free list
\* visits, once each, exactly the items the client does not hold: alloc hands
\* out no item twice and none is lost.
THEOREM FreeListCorrect == Spec => []FreeListExact
<1>1. SInv => FreeListExact
  BY DEF SInv, IInv, FreeListExact
<1> QED BY <1>1, Inductive, PTL

\* Likewise every slot's chain visits, once each, exactly the items linked in it.
THEOREM BucketsCorrect == Spec => []BucketsExact
<1>1. SInv => BucketsExact
  BY DEF SInv, IInv, BucketsExact
<1> QED BY <1>1, Inductive, PTL

\* And no table holds two items with the same key.
THEOREM KeysStayUnique == Spec => []KeysUnique
<1>1. SInv => KeysUnique
  BY DEF SInv, IInv, KeysUnique
<1> QED BY <1>1, Inductive, PTL

LEMMA InvInNoList == IInv => InNoList
<1> SUFFICES ASSUME IInv, NEW f \in Fields, NEW i \in held \ linked[f]
             PROVE  /\ i \notin Range(itb[f])
                    /\ \A j \in linked[f] : next[f][j] # i
                    /\ f = next_offset => /\ next[f][i] = INVALID_LIST_HEAD
                                          /\ i \notin {free_head, free_tail}
                                          /\ \A j \in Items : next[f][j] # i
  BY DEF InNoList
<1>1. i \in Items /\ i # INVALID_LIST_HEAD
  BY DEF IInv, TypeOK, Items
<1>2. PICK p \in Paths : /\ Chain(next[next_offset], free_head, p)
                        /\ Range(p) = Items \ held
                        /\ free_tail = LastOf(p)
  BY DEF IInv, FreeListExact
<1>3. i \notin {free_head, free_tail}
  BY <1>1, <1>2, ChainEnd
<1>4. ASSUME NEW b \in Buckets PROVE itb[f][b] # i
  <2>1. PICK q \in Paths : Chain(next[f], itb[f][b], q) /\ Range(q) = Slot(f, b)
    BY BucketsAreSlots DEF IInv
  <2>2. i \notin Slot(f, b)
    BY DEF Slot
  <2> QED BY <1>1, <2>1, <2>2, ChainEnd
<1>5. i \notin Range(itb[f])
  BY <1>4 DEF Range, IInv, TypeOK
<1>6. ASSUME NEW j \in linked[f] PROVE next[f][j] # i
  <2>1. key[j] \in Keys
    BY DEF IInv, TypeOK, filled
  <2>2. PICK q \in Paths : /\ Chain(next[f], itb[f][Hash[key[j]]], q)
                          /\ Range(q) = Slot(f, Hash[key[j]])
    BY <2>1, BucketsAreSlots DEF IInv
  <2>3. j \in Slot(f, Hash[key[j]]) /\ i \notin Slot(f, Hash[key[j]])
    BY DEF Slot
  <2> QED BY <1>1, <2>2, <2>3, ChainEnd
<1>7. ASSUME f = next_offset, NEW j \in Items PROVE next[f][j] # i
  <2>1. CASE j \in linked[f]
    BY <2>1, <1>6
  <2>2. CASE j \in held \ linked[f]
    BY <1>1, <1>7, <2>2 DEF IInv, ClearedLinks
  <2>3. CASE j \notin held
    <3>1. j \in Range(p) /\ i \notin Range(p)
      BY <1>2, <2>3
    <3>2. next[next_offset][j] \in Range(p) \cup {INVALID_LIST_HEAD}
      BY <1>2, <3>1, ChainEnd
    <3> QED BY <1>1, <1>7, <3>1, <3>2
  <2> QED BY <2>1, <2>2, <2>3
<1>8. f = next_offset => next[f][i] = INVALID_LIST_HEAD
  BY DEF IInv, ClearedLinks
<1> QED BY <1>3, <1>5, <1>6, <1>7, <1>8

\* An item the client holds and has not linked is in no list, unless an item
\* was linked astray: no head and no link of a linked item leads to it, and its
\* main link is cleared.
THEOREM HeldItemsInNoList == Spec => []InNoList
<1>1. SInv => InNoList
  BY InvInNoList DEF SInv, InNoList
<1> QED BY <1>1, Inductive, PTL

LEMMA InvDestIsLast == IInv => DestIsLast
<1> SUFFICES ASSUME IInv, NEW d \in dest
             PROVE  \E p \in Paths : /\ Chain(next[d.field], itb[d.field][Hash[d.key]], p)
                                     /\ NoMatch(p, d.key)
                                     /\ d.last = LastOf(p)
  BY DEF DestIsLast
<1>1. d.field \in Fields /\ Hash[d.key] \in Buckets
  BY DEF IInv, TypeOK, Dest
<1>2. PICK p \in Paths : /\ Chain(next[d.field], itb[d.field][Hash[d.key]], p)
                        /\ Range(p) = Slot(d.field, Hash[d.key])
  BY <1>1, BucketsAreSlots DEF IInv
<1>5. LET S == Slot(d.field, Hash[d.key]) IN
      /\ \A i \in S : key[i] # d.key
      /\ S = {} => d.last = INVALID_LIST_HEAD
      /\ S # {} => d.last \in S /\ next[d.field][d.last] = INVALID_LIST_HEAD
  BY DEF IInv, DestAtEnd
<1>3. d.last = LastOf(p)
  BY <1>2, <1>5, ChainEnd
<1>4. NoMatch(p, d.key)
  BY <1>2, <1>5 DEF NoMatch, Range
<1> QED BY <1>2, <1>3, <1>4

\* Every address whose slot is as it was is the end of its slot's chain, and the
\* key it was obtained for is absent: do_link through it cuts no chain.
THEOREM DestsStayLast == Spec => []DestIsLast
<1>1. SInv => DestIsLast
  BY InvDestIsLast DEF SInv, DestIsLast
<1> QED BY <1>1, Inductive, PTL

-----------------------------------------------------------------------------
(* The refinement: one call of the library is one step of PoolSpec.        *)

\* What the links spell in a reachable state.
LEMMA Spelled ==
  ASSUME IInv
  PROVE  /\ FreeQueue \in Paths
         /\ Chain(next[next_offset], free_head, FreeQueue)
         /\ Range(FreeQueue) = Items \ held
         /\ \A f \in Fields, b \in Buckets :
              /\ Tables[f][b] \in Paths
              /\ Chain(next[f], itb[f][b], Tables[f][b])
              /\ Range(Tables[f][b]) = Slot(f, b)
<1>1. PICK p \in Paths : Chain(next[next_offset], free_head, p) /\ Range(p) = Items \ held
  BY DEF IInv, FreeListExact
<1>2. FreeQueue = p
  BY <1>1, PathOfChain DEF FreeQueue
<1>3. ASSUME NEW f \in Fields, NEW b \in Buckets
      PROVE  /\ Tables[f][b] \in Paths
             /\ Chain(next[f], itb[f][b], Tables[f][b])
             /\ Range(Tables[f][b]) = Slot(f, b)
  <2>1. PICK q \in Paths : Chain(next[f], itb[f][b], q) /\ Range(q) = Slot(f, b)
    BY BucketsAreSlots DEF IInv
  <2>2. PathOf(next[f], itb[f][b]) = q
    BY <2>1, PathOfChain
  <2>3. Tables[f][b] = q
    BY <2>2 DEF Tables
  <2> QED BY <2>1, <2>3
<1> QED BY <1>1, <1>2, <1>3

\* A step that writes no link of a free item leaves the queue as it was.
LEMMA QueueFrame ==
  ASSUME IInv, free_head' = free_head,
         \A m \in Items \ held : next'[next_offset][m] = next[next_offset][m]
  PROVE  FreeQueue' = FreeQueue
<1>1. Chain(next'[next_offset], free_head', FreeQueue)
  BY Spelled, ChainFrame
<1>2. FreeQueue' = PathOf(next'[next_offset], free_head')
  BY DEF FreeQueue
<1> QED BY <1>1, <1>2, Spelled, PathOfChain

\* A step that makes the chain of one slot q and writes no link of the others.
LEMMA TablesMove ==
  ASSUME IInv, NEW f \in Fields, NEW b \in Buckets, NEW q \in Paths,
         Chain(next'[f], itb'[f][b], q),
         \A x \in Fields, c \in Buckets : x # f \/ c # b =>
           /\ \A m \in Slot(x, c) : next'[x][m] = next[x][m]
           /\ itb'[x][c] = itb[x][c]
  PROVE  Tables' = [Tables EXCEPT ![f][b] = q]
<1>1. ASSUME NEW x \in Fields, NEW c \in Buckets
      PROVE  PathOf(next'[x], itb'[x][c]) = IF x = f /\ c = b THEN q ELSE Tables[x][c]
  <2>1. CASE x = f /\ c = b
    BY <2>1, PathOfChain
  <2>2. CASE x # f \/ c # b
    <3>1. Chain(next'[x], itb'[x][c], Tables[x][c]) /\ Tables[x][c] \in Paths
      BY <2>2, Spelled, ChainFrame
    <3> QED BY <2>2, <3>1, PathOfChain
  <2> QED BY <2>1, <2>2
<1>2. Tables' = [x \in Fields |-> [c \in Buckets |-> PathOf(next'[x], itb'[x][c])]]
  BY DEF Tables
<1>3. Tables = [x \in Fields |-> [c \in Buckets |-> Tables[x][c]]]
  BY DEF Tables
<1>4. Tables' = [x \in Fields |-> [c \in Buckets |-> IF x = f /\ c = b THEN q ELSE Tables[x][c]]]
  BY <1>1, <1>2
<1> HIDE <1>2
<1> QED BY <1>3, <1>4

LEMMA TablesFrame ==
  ASSUME IInv,
         \A f \in Fields, b \in Buckets :
           /\ \A m \in Slot(f, b) : next'[f][m] = next[f][m]
           /\ itb'[f][b] = itb[f][b]
  PROVE  Tables' = Tables
<1>1. \A f \in Fields, b \in Buckets : PathOf(next'[f], itb'[f][b]) = Tables[f][b]
  <2> SUFFICES ASSUME NEW f \in Fields, NEW b \in Buckets
               PROVE  PathOf(next'[f], itb'[f][b]) = Tables[f][b]
    OBVIOUS
  <2>1. Chain(next'[f], itb'[f][b], Tables[f][b]) /\ Tables[f][b] \in Paths
    BY Spelled, ChainFrame
  <2> QED BY <2>1, PathOfChain
<1>2. Tables' = [f \in Fields |-> [b \in Buckets |-> PathOf(next'[f], itb'[f][b])]]
  BY DEF Tables
<1>3. Tables = [f \in Fields |-> [b \in Buckets |-> Tables[f][b]]]
  BY DEF Tables
<1> QED BY <1>1, <1>2, <1>3

LEMMA Unseen ==
  ASSUME IInv, UNCHANGED <<next, free_head, itb>>
  PROVE  FreeQueue' = FreeQueue /\ Tables' = Tables
BY DEF FreeQueue, Tables

LEMMA InitImplements == Init => Pool!Init
<1> SUFFICES ASSUME Init PROVE Pool!Init
  OBVIOUS
<1> DEFINE p == [j \in 1 .. item_total |-> j - 1]
           e == [j \in 1 .. 0 |-> 0]
<1>1. p \in [1 .. item_total -> Items] /\ \A j, k \in 1 .. item_total : p[j] = p[k] => j = k
  BY DEF Items
<1>2. p \in Paths
  BY <1>1, PathIntro
<1>0. next[next_offset] = list_info_init
  BY LinksMade DEF Init
<1>3. Chain(next[next_offset], free_head, p)
  BY <1>0 DEF Chain, Init, list_info_init, Items
<1>4. e \in [1 .. 0 -> Items] /\ \A j, k \in 1 .. 0 : e[j] = e[k] => j = k
  OBVIOUS
<1>5. e \in Paths /\ e = <<>>
  <2>1. e \in Paths /\ Len(e) = 0
    BY <1>4, PathIntro
  <2>2. e \in Seq(Items)
    BY <2>1, PathSeq
  <2> HIDE DEF e
  <2> QED BY <2>1, <2>2, EmptySeq
<1>6. \A f \in Fields, b \in Buckets : Chain(next[f], itb[f][b], e)
  BY DEF Chain, Init
<1> HIDE DEF p, e
<1>7. FreeQueue = p
  BY <1>2, <1>3, PathOfChain DEF FreeQueue
<1>8. \A f \in Fields, b \in Buckets : PathOf(next[f], itb[f][b]) = <<>>
  BY <1>5, <1>6, PathOfChain
<1>9. Tables = [f \in Fields |-> [b \in Buckets |-> <<>>]]
  BY <1>8 DEF Tables
<1>10. Pending = {}
  BY DEF Init, Pending
<1> QED BY <1>7, <1>9, <1>10 DEF Init, Pool!Init, Pool!Items, Items, p

LEMMA AllocImplements == IInv /\ list_alloc_item => Pool!Alloc
<1> SUFFICES ASSUME IInv, list_alloc_item PROVE Pool!Alloc
  OBVIOUS
<1>1. FreeQueue = <<>> <=> free_head = INVALID_LIST_HEAD
  BY Spelled, PathShape DEF Chain
<1>2. CASE free_head = INVALID_LIST_HEAD
  BY <1>1, <1>2, Unseen DEF list_alloc_item, Pool!Alloc, Pending
<1>3. CASE free_head # INVALID_LIST_HEAD
  <2>1. /\ free_head' = next[next_offset][free_head]
        /\ held' = held \cup {free_head}
        /\ refused' = FALSE
        /\ UNCHANGED <<itb, key, linked, dest, astray>>
    BY <1>3 DEF list_alloc_item
  <2>2. \A f \in Fields, i \in Items :
          next'[f][i] = IF f = next_offset /\ i = free_head THEN INVALID_LIST_HEAD ELSE next[f][i]
    BY <1>3, AllocWrites DEF IInv
  <2>3. PICK q \in Paths : /\ q = Tail(FreeQueue) /\ free_head = Head(FreeQueue)
                           /\ Chain(next[next_offset], free_head', q)
                           /\ Range(q) = Range(FreeQueue) \ {free_head}
    BY <1>3, <2>1, Spelled, ChainTail
  <2>4. Chain(next'[next_offset], free_head', q)
    BY <2>2, <2>3, Spelled, ChainFrame
  <2>5. FreeQueue' = q
    BY <2>4, PathOfChain DEF FreeQueue
  <2>6. free_head \notin held
    BY <1>3, Spelled, ChainEnd
  <2>7. Tables' = Tables
    <3>1. \A f \in Fields, b \in Buckets : Slot(f, b) \subseteq held /\ held \subseteq Items
      BY DEF Slot, IInv, TypeOK
    <3> QED BY <3>1, <2>1, <2>2, <2>6, TablesFrame
  <2>8. Pending' = Pending
    BY <2>1 DEF Pending
  <2> QED BY <1>1, <1>3, <2>1, <2>3, <2>5, <2>7, <2>8 DEF Pool!Alloc
<1> QED BY <1>2, <1>3

\* An item in no table of the client's is in no sequence of the slots.
LEMMA NotLinked == ASSUME IInv, NEW i, Unlinked(i) PROVE ~Pool!Linked(i)
<1>1. ASSUME NEW f \in Fields, NEW b \in Buckets PROVE i \notin Pool!ToSet(Tables[f][b])
  <2>1. i \notin Range(Tables[f][b])
    BY Spelled DEF Slot, Unlinked
  <2> QED BY <2>1 DEF Range, Pool!ToSet
<1> QED BY <1>1 DEF Pool!Linked

LEMMA FreeImplements ==
  ASSUME NEW i \in Items PROVE IInv /\ list_free_item(i) => Pool!Free(i)
<1> SUFFICES ASSUME IInv, list_free_item(i) PROVE Pool!Free(i)
  OBVIOUS
<1>1. /\ i \in held /\ Unlinked(i) /\ \A f \in Fields : i \notin linked[f]
      /\ free_head' = IF free_head = INVALID_LIST_HEAD THEN i ELSE free_head
      /\ held' = held \ {i}
      /\ key' = [key EXCEPT ![i] = Unwritten]
      /\ refused' = FALSE
      /\ UNCHANGED <<itb, linked, dest, astray>>
  BY DEF list_free_item, AppendFree, Unlinked
<1>2. \A f \in Fields, m \in Items :
        next'[f][m] = IF f # next_offset THEN next[f][m]
                      ELSE IF m = i THEN INVALID_LIST_HEAD
                      ELSE IF free_head # INVALID_LIST_HEAD /\ m = free_tail THEN i
                      ELSE next[f][m]
  BY FreeWrites DEF IInv
<1> DEFINE p == FreeQueue
<1>3. p \in Paths /\ Chain(next[next_offset], free_head, p) /\ Range(p) = Items \ held
  BY Spelled
<1>4. free_tail = LastOf(p)
  <2>1. PICK r \in Paths : Chain(next[next_offset], free_head, r) /\ free_tail = LastOf(r)
    BY DEF IInv, FreeListExact
  <2> QED BY <1>3, <2>1, PathUnique
<1> HIDE DEF p
<1> DEFINE g  == next[next_offset]
           g2 == next'[next_offset]
<1>5. Appends(g, g2, free_head, free_head', p, i) /\ i \notin Range(p)
  <2>1. \A m \in Range(p) : g2[m] = IF m = LastOf(p) THEN i ELSE g[m]
    BY <1>1, <1>2, <1>3, <1>4, ChainEnd
  <2>2. g2[i] = INVALID_LIST_HEAD /\ i \notin Range(p)
    BY <1>1, <1>2, <1>3
  <2>3. free_head' = IF Range(p) = {} THEN i ELSE free_head
    BY <1>1, <1>3, ChainEnd
  <2> QED BY <2>1, <2>2, <2>3 DEF Appends
<1>6. Chain(g, free_head, p)
  BY <1>3
<1> HIDE DEF g, g2
<1>7. Append(p, i) \in Paths /\ Chain(g2, free_head', Append(p, i))
  BY <1>3, <1>5, <1>6, ChainAppend
<1>8. FreeQueue' = Append(FreeQueue, i)
  BY <1>7, PathOfChain DEF FreeQueue, g2, p
<1>9. Tables' = Tables
  <2>1. \A f \in Fields, b \in Buckets :
          /\ Slot(f, b) \subseteq linked[f] /\ linked[f] \subseteq held /\ held \subseteq Items
          /\ i \notin Slot(f, b)
    BY <1>1 DEF Slot, IInv, TypeOK
  <2>2. free_head # INVALID_LIST_HEAD => free_tail \notin held
    BY <1>3, <1>4, ChainEnd
  <2> QED BY <2>1, <2>2, <1>1, <1>2, TablesFrame
<1>10. Pending' = Pending
  BY <1>1 DEF Pending
<1> QED BY <1>1, <1>8, <1>9, <1>10, NotLinked DEF Pool!Free

LEMMA FillImplements ==
  ASSUME NEW i \in Items, NEW k \in Keys PROVE IInv /\ Fill(i, k) => Pool!Fill(i, k)
<1> SUFFICES ASSUME IInv, Fill(i, k) PROVE Pool!Fill(i, k)
  OBVIOUS
<1>1. /\ i \in held /\ Unlinked(i) /\ \A f \in Fields : i \notin linked[f]
      /\ key' = [key EXCEPT ![i] = k]
      /\ refused' = FALSE
      /\ UNCHANGED <<free_head, itb, held, dest, astray>>
  BY DEF Fill, Unlinked
<1>2. \A f \in Fields, m \in Items : f = next_offset \/ m # i => next'[f][m] = next[f][m]
  BY DEF IInv, TypeOK, Fill, item_set_next2
<1>3. FreeQueue' = FreeQueue
  BY <1>1, <1>2, QueueFrame
<1>4. Tables' = Tables
  <2>1. \A f \in Fields, b \in Buckets :
          Slot(f, b) \subseteq Items /\ i \notin Slot(f, b)
    BY <1>1 DEF Slot, IInv, TypeOK
  <2> QED BY <2>1, <1>1, <1>2, TablesFrame
<1>5. Pending' = Pending
  BY <1>1 DEF Pending
<1> QED BY <1>1, <1>3, <1>4, <1>5, NotLinked DEF Pool!Fill

\* The items is_same_item() accepts are the matches of the abstract slot.
LEMMA MatchesAre ==
  ASSUME IInv, NEW f \in Fields, NEW k \in Keys
  PROVE  Pool!Matches(f, k) = {i \in Slot(f, Hash[k]) : key[i] = k}
<1>1. Pool!ToSet(Tables[f][Hash[k]]) = Slot(f, Hash[k])
  BY Spelled DEF Pool!ToSet, Range
<1> QED BY <1>1 DEF Pool!Matches

LEMMA PrelinkImplements ==
  ASSUME NEW f \in Fields, NEW k \in Keys
  PROVE  IInv /\ index_list_prelink2(f, k) => Pool!Prelink(f, k)
<1> SUFFICES ASSUME IInv, index_list_prelink2(f, k) PROVE Pool!Prelink(f, k)
  OBVIOUS
<1>1. UNCHANGED <<next, free_head, free_tail, itb, key, held, linked, astray>>
  BY DEF index_list_prelink2
<1>2. FreeQueue' = FreeQueue /\ Tables' = Tables
  BY <1>1, Unseen
<1>3. PICK p \in Paths :
        /\ Chain(next[f], itb[f][Hash[k]], p)
        /\ \/ /\ \E j \in DOMAIN p : FirstMatch(p, k, j)
              /\ refused' = TRUE
              /\ UNCHANGED <<dest, stale>>
           \/ /\ NoMatch(p, k)
              /\ refused' = FALSE
              /\ Keeps(AddressFor(f, k, p))
  BY DEF index_list_prelink2
<1>4. Range(p) = Slot(f, Hash[k])
  BY <1>3, Spelled, PathUnique
<1>5. CASE /\ \E j \in DOMAIN p : FirstMatch(p, k, j)
           /\ refused' = TRUE
           /\ UNCHANGED <<dest, stale>>
  <2>1. Pool!Matches(f, k) # {}
    BY <1>4, <1>5, MatchesAre DEF FirstMatch, Range
  <2>2. Pending' = Pending
    BY <1>5 DEF Pending
  <2> QED BY <1>1, <1>2, <1>5, <2>1, <2>2 DEF Pool!Prelink
<1>6. CASE /\ NoMatch(p, k)
           /\ refused' = FALSE
           /\ Keeps(AddressFor(f, k, p))
  <2>1. Pool!Matches(f, k) = {}
    BY <1>4, <1>6, MatchesAre DEF NoMatch, Range
  <2>2. Pending' = Pending \/ Pending' = Pending \cup {[field |-> f, key |-> k]}
    <3> DEFINE a == AddressFor(f, k, p)
    <3>1. a.field = f /\ a.key = k /\ (dest' = dest \/ dest' = dest \cup {a})
      BY <1>6, KeepsOne DEF AddressFor
    <3> HIDE DEF a
    <3> QED BY <3>1 DEF Pending
  <2> QED BY <1>1, <1>2, <1>6, <2>1, <2>2 DEF Pool!Prelink
<1> QED BY <1>3, <1>5, <1>6

\* The addresses the client drops are the insertions that are no longer pending.
LEMMA SettleIs ==
  ASSUME NEW f, NEW b, dest' = Settle(f, b) PROVE Pending' = Pool!Settle(f, b)
BY DEF Pending, Settle, Pool!Settle

LEMMA DoLinkImplements ==
  ASSUME NEW d \in dest, NEW i \in Items
  PROVE  IInv /\ index_list_do_link(d, i) => \E e \in Pending : Pool!DoLink(e, i)
<1> SUFFICES ASSUME IInv, index_list_do_link(d, i) PROVE \E e \in Pending : Pool!DoLink(e, i)
  OBVIOUS
<1> DEFINE f == d.field
           b == Hash[d.key]
           e == [field |-> f, key |-> d.key]
           p == Tables[f][b]
<1>1. e \in Pending /\ e.field = f /\ e.key = d.key /\ Hash[e.key] = b
  BY DEF Pending
<1>2. /\ f \in Fields /\ b \in Buckets
      /\ \A x \in Fields, c \in Buckets : x # f \/ c # b =>
           /\ Slot(x, c)' = Slot(x, c)
           /\ \A m \in Slot(x, c) : next'[x][m] = next[x][m]
           /\ itb'[x][c] = itb[x][c]
      /\ \A m \in Items \ held : next'[next_offset][m] = next[next_offset][m]
      /\ \A r \in Paths : Chain(next[f], itb[f][b], r) /\ Range(r) = Slot(f, b) =>
           /\ Append(r, i) \in Paths
           /\ Chain(next'[f], itb'[f][b], Append(r, i))
           /\ Range(Append(r, i)) = Range(r) \cup {i}
  BY DoLinkEffect
<1>3. /\ i \notin linked[f] /\ key[i] = d.key
      /\ dest' = Settle(f, b)
      /\ refused' = FALSE
      /\ UNCHANGED <<free_head, free_tail, key, held, astray>>
  BY ChangesOne DEF index_list_do_link, Writes
<1> HIDE DEF f, b, e
<1>4. p \in Paths /\ Chain(next[f], itb[f][b], p) /\ Range(p) = Slot(f, b)
  BY <1>2, Spelled
<1>5. Tables' = [Tables EXCEPT ![f][b] = Append(p, i)]
  <2>1. Append(p, i) \in Paths /\ Chain(next'[f], itb'[f][b], Append(p, i))
    BY <1>2, <1>4
  <2>2. \A x \in Fields, c \in Buckets : x # f \/ c # b =>
          /\ \A m \in Slot(x, c) : next'[x][m] = next[x][m]
          /\ itb'[x][c] = itb[x][c]
    BY <1>2
  <2>3. f \in Fields /\ b \in Buckets
    BY <1>2
  <2> HIDE DEF p
  <2> QED BY <2>1, <2>2, <2>3, TablesMove
<1>6. FreeQueue' = FreeQueue
  BY <1>2, <1>3, QueueFrame
<1>7. \A c \in Buckets : i \notin Pool!ToSet(Tables[f][c])
  BY <1>2, <1>3, Spelled DEF Pool!ToSet, Range, Slot
<1>8. Pending' = Pool!Settle(f, b)
  BY <1>3, SettleIs
<1>9. Pool!DoLink(e, i)
  BY <1>1, <1>3, <1>5, <1>6, <1>7, <1>8 DEF Pool!DoLink
<1> QED BY <1>1, <1>9

LEMMA UnlinkImplements ==
  ASSUME NEW f \in Fields, NEW k \in Keys
  PROVE  IInv /\ index_list_unlink2(f, k) => Pool!Unlink(f, k)
<1> SUFFICES ASSUME IInv, index_list_unlink2(f, k) PROVE Pool!Unlink(f, k)
  OBVIOUS
<1> DEFINE b == Hash[k]
           s == Tables[f][b]
<1>1. UNCHANGED <<free_head, free_tail, key, held, astray>> /\ b \in Buckets
  BY DEF index_list_unlink2
<1>2. PICK p \in Paths :
        /\ Chain(next[f], itb[f][b], p)
        /\ \/ \E j \in DOMAIN p : FirstMatch(p, k, j) /\ UnlinkAt(f, b, p, j)
           \/ /\ NoMatch(p, k)
              /\ refused' = TRUE
              /\ UNCHANGED <<next, itb, linked, dest, stale>>
  BY DEF index_list_unlink2
<1>3. p = s /\ Range(p) = Slot(f, b)
  BY <1>1, <1>2, Spelled, PathUnique
<1> HIDE DEF b, s
<1>4. CASE /\ NoMatch(p, k)
           /\ refused' = TRUE
           /\ UNCHANGED <<next, itb, linked, dest, stale>>
  <2>1. Pool!Matches(f, k) = {}
    BY <1>3, <1>4, MatchesAre DEF NoMatch, Range, b
  <2>2. FreeQueue' = FreeQueue /\ Tables' = Tables /\ Pending' = Pending
    BY <1>1, <1>4, Unseen DEF Pending
  <2> QED BY <1>1, <1>4, <2>1, <2>2 DEF Pool!Unlink
<1>5. ASSUME NEW j \in DOMAIN p, FirstMatch(p, k, j), UnlinkAt(f, b, p, j)
      PROVE  Pool!Unlink(f, k)
  <2>1. /\ \A x \in Fields, c \in Buckets : x # f \/ c # b =>
             /\ Slot(x, c)' = Slot(x, c)
             /\ \A m \in Slot(x, c) : next'[x][m] = next[x][m]
             /\ itb'[x][c] = itb[x][c]
        /\ \A m \in Items \ held : next'[next_offset][m] = next[next_offset][m]
        /\ Without(p, j) \in Paths
        /\ Chain(next'[f], itb'[f][b], Without(p, j))
    BY <1>1, <1>2, <1>5, UnlinkEffect
  <2>2. dest' = Settle(f, b) /\ refused' = FALSE /\ key[p[j]] = k
    BY <1>5, ChangesOne DEF UnlinkAt, FirstMatch
  <2>3. Tables' = [Tables EXCEPT ![f][b] = Without(p, j)]
    BY <1>1, <2>1, TablesMove
  <2>4. FreeQueue' = FreeQueue
    BY <1>1, <2>1, QueueFrame
  <2>5. Pending' = Pool!Settle(f, b)
    BY <2>2, SettleIs
  <2>6. Without(p, j) = Pool!RemoveAt(p, j)
    BY DEF Without, Pool!RemoveAt
  <2> QED BY <1>1, <1>3, <1>5, <2>2, <2>3, <2>4, <2>5, <2>6 DEF Pool!Unlink, b, s
<1> QED BY <1>2, <1>4, <1>5

\* An item linked astray was the client's, and no other call changes hands.
LEMMA StrayImplements ==
  ASSUME IInv, NEW d \in dest \cup stale, NEW i \in Items, link_astray(d, i)
  PROVE  d.field \in Fields /\ Pool!Ruin(d.field, i)
<1>1. d.field \in Fields /\ d.key \in Keys
  BY DEF IInv, TypeOK, Dest
<1>2. /\ i \notin linked[d.field] /\ key[i] = d.key
      /\ astray' = TRUE /\ UNCHANGED <<key, held>>
  BY DEF link_astray, Writes
<1>3. key[i] \in Keys /\ i \in held
  BY <1>1, <1>2 DEF IInv, TypeOK, filled
<1>4. \A b \in Buckets : i \notin Pool!ToSet(Tables[d.field][b])
  BY <1>1, <1>2, Spelled DEF Pool!ToSet, Range, Slot
<1> QED BY <1>1, <1>2, <1>3, <1>4 DEF Pool!Ruin

LEMMA CallImplements == IInv /\ Call => Pool!Call
<1> SUFFICES ASSUME IInv, Call PROVE Pool!Call
  OBVIOUS
<1>1. CASE list_alloc_item
  BY <1>1, AllocImplements DEF Pool!Call
<1>2. ASSUME NEW i \in Items, list_free_item(i) \/ \E k \in Keys : Fill(i, k)
      PROVE  Pool!Call
  BY <1>2, FreeImplements, FillImplements DEF Pool!Call, Pool!Items, Items
<1>3. ASSUME NEW f \in Fields, NEW k \in Keys,
             index_list_prelink2(f, k) \/ index_list_unlink2(f, k)
      PROVE  Pool!Call
  BY <1>3, PrelinkImplements, UnlinkImplements DEF Pool!Call
<1>4. ASSUME NEW d \in dest, NEW i \in Items, index_list_do_link(d, i) PROVE Pool!Call
  BY <1>4, DoLinkImplements DEF Pool!Call, Pool!Items, Items
<1>5. ASSUME NEW d \in dest \cup stale, NEW i \in Items, link_astray(d, i) PROVE Pool!Call
  BY <1>5, StrayImplements DEF Pool!Call, Pool!Items, Items
<1> QED BY <1>1, <1>2, <1>3, <1>4, <1>5 DEF Call

\* The array of links implements its promise: for every memory malloc() may
\* return and every sequence of calls, the library answers as a FIFO queue of
\* free items and one sequence per slot would, until the client links an item
\* through an address from before or without its link cleared (list.c:45-223).
THEOREM LibraryIsPool == Spec => ImplementsPool
<1>1. SInv /\ [Next]_vars /\ (Init' => Pool!Init') => [Pool!Next]_(Pool!vars)
  <2> SUFFICES ASSUME SInv, [Next]_vars, Init' => Pool!Init'
               PROVE  Pool!Next \/ UNCHANGED Pool!vars
    OBVIOUS
  <2>1. CASE UNCHANGED vars
    BY <2>1 DEF vars, Pool!vars, Pending, FreeQueue, Tables
  <2>2. CASE ~astray /\ Call
    BY <2>2, CallImplements DEF SInv, Pool!Next
  <2>3. CASE start_over
    <3>1. astray /\ Pool!Init'
      BY <2>3, StartsOver DEF start_over
    <3> QED BY <3>1 DEF Pool!Next, Pool!StartOver
  <2> QED BY <2>1, <2>2, <2>3 DEF Next
<1> QED BY <1>1, InitImplements, Inductive, PTL DEF Spec, ImplementsPool, Pool!Spec
=============================================================================
