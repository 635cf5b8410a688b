------------------------- MODULE PoolThreadsProofs -------------------------
(***************************************************************************)
(* Theorems about PoolThreads.tla, for every number of items and threads.  *)
(***************************************************************************)
EXTENDS PoolThreads, ChainLemmas

USE ChainAssumption, ThreadsAssumption

-----------------------------------------------------------------------------
(* The inductive invariant.                                                *)

\* What a thread may count on at the line it is about to run: what it tested
\* and read inside the lock still holds.
LineFacts ==
  \A t \in Threads :
    /\ pc[t] \in {"85", "86", "64"} => free_head # INVALID_LIST_HEAD
    /\ pc[t] = "86" => item[t] = free_head
    /\ pc[t] = "67" => free_head = INVALID_LIST_HEAD
    /\ Carried(t) \subseteq Items
    /\ pc[t] \in {"61", "63", "64", "67"} => next[item[t]] = INVALID_LIST_HEAD

\* An item with a client leads nowhere (line 93).
Cleared == \A i \in held : next[i] = INVALID_LIST_HEAD

\* Every item is in one place: p is the free list.
Apart(p) ==
  /\ \A t \in Threads : Carried(t) \cap (Range(p) \cup held) = {}
  /\ \A t, u \in Threads : t # u => Carried(t) \cap Carried(u) = {}
  /\ held \cap Range(p) = {}
  /\ \A i \in Items : i \in Range(p) \cup held \/ \E t \in Threads : i \in Carried(t)

\* Where free_tail points while one call has moved the list and not yet it.
TailAt(p) ==
  /\ (\A t \in Threads : pc[t] \notin {"88", "68"}) => free_tail = LastOf(p)
  /\ \A t \in Threads : pc[t] = "88" /\ free_head # INVALID_LIST_HEAD => free_tail = LastOf(p)
  /\ \A t \in Threads : pc[t] \in {"68", "70"} => item[t] = LastOf(p)

FreeList(p) == Chain(next, free_head, p) /\ Apart(p) /\ TailAt(p)

IInv == TypeOK /\ LockHeldInside /\ LineFacts /\ Cleared /\ \E p \in Paths : FreeList(p)

-----------------------------------------------------------------------------
(* Types and the lock.                                                     *)

LEMMA LineMoves ==
  ASSUME TypeOK, NEW t \in Threads, NEW from, NEW to, Line(t, from, to)
  PROVE  /\ pc[t] = from
         /\ \A u \in Threads : pc'[u] = IF u = t THEN to ELSE pc[u]
BY DEF TypeOK, Line

LEMMA TypeInit == Init => TypeOK
BY DEF Init, TypeOK, list_info_init, Items, Links, Lines

LEMMA TypeStep == ASSUME TypeOK, LineFacts, [Next]_vars PROVE TypeOK'
<1> USE DEF TypeOK, Line, Lines, Locked
<1>1. ASSUME NEW t \in Threads, CallAlloc(t) PROVE TypeOK'
  BY <1>1 DEF CallAlloc
<1>2. ASSUME NEW t \in Threads, CallFree(t) PROVE TypeOK'
  BY <1>2 DEF CallFree, Links
<1>3. ASSUME NEW t \in Threads, Line78(t) \/ Line80(t) \/ Line81(t) PROVE TypeOK'
  BY <1>3 DEF Line78, Line80, Line81, get_lock, release_lock
<1>4. ASSUME NEW t \in Threads, Line85(t) PROVE TypeOK'
  BY <1>4 DEF Line85
<1>5. ASSUME NEW t \in Threads, Line86(t) PROVE TypeOK'
  BY <1>5 DEF Line86, LineFacts, Links
<1>6. ASSUME NEW t \in Threads, Line88(t) \/ Line91(t) PROVE TypeOK'
  BY <1>6 DEF Line88, Line91, release_lock, Links
<1>7. ASSUME NEW t \in Threads, Line93(t) PROVE TypeOK'
  BY <1>7 DEF Line93, LineFacts, Carried, Links
<1>8. ASSUME NEW t \in Threads, Line61(t) \/ Line63(t) PROVE TypeOK'
  BY <1>8 DEF Line61, Line63, get_lock
<1>9. ASSUME NEW t \in Threads, Line64(t) \/ Line70(t) PROVE TypeOK'
  BY <1>9 DEF Line64, Line70, Links
<1>10. ASSUME NEW t \in Threads, Line67(t) \/ Line68(t) \/ Line72(t) PROVE TypeOK'
  BY <1>10 DEF Line67, Line68, Line72, release_lock
<1>11. CASE UNCHANGED vars
  BY <1>11 DEF vars
<1> QED BY <1>1, <1>2, <1>3, <1>4, <1>5, <1>6, <1>7, <1>8, <1>9, <1>10, <1>11
        DEF Next, Call, Step

LEMMA LockStep == ASSUME TypeOK, LockHeldInside, [Next]_vars PROVE LockHeldInside'
<1> USE DEF TypeOK, Line, Locked, LockHeldInside
<1>1. ASSUME NEW t \in Threads, Call(t) PROVE LockHeldInside'
  BY <1>1 DEF Call, CallAlloc, CallFree
<1>2. ASSUME NEW t \in Threads, Line61(t) \/ Line78(t) PROVE LockHeldInside'
  BY <1>2 DEF Line61, Line78, get_lock
<1>3. ASSUME NEW t \in Threads, Line81(t) \/ Line91(t) \/ Line72(t) PROVE LockHeldInside'
  BY <1>3 DEF Line81, Line91, Line72, release_lock
<1>4. ASSUME NEW t \in Threads, Line80(t) \/ Line85(t) \/ Line86(t) \/ Line88(t) \/ Line93(t)
      PROVE LockHeldInside'
  BY <1>4 DEF Line80, Line85, Line86, Line88, Line93
<1>5. ASSUME NEW t \in Threads, Line63(t) \/ Line64(t) \/ Line67(t) \/ Line68(t) \/ Line70(t)
      PROVE LockHeldInside'
  BY <1>5 DEF Line63, Line64, Line67, Line68, Line70
<1>6. CASE UNCHANGED vars
  BY <1>6 DEF vars
<1> QED BY <1>1, <1>2, <1>3, <1>4, <1>5, <1>6 DEF Next, Step

-----------------------------------------------------------------------------
(* The free list and what the threads know of it.                          *)

LEMMA InvInit == Init => IInv
<1> SUFFICES ASSUME Init PROVE IInv
  OBVIOUS
<1>1. TypeOK /\ LockHeldInside /\ LineFacts /\ Cleared
  BY TypeInit DEF Init, LockHeldInside, Locked, LineFacts, Carried, Cleared
<1> DEFINE p == [j \in 1 .. item_total |-> j - 1]
<1>2. p \in [1 .. item_total -> Items] /\ \A j, k \in 1 .. item_total : p[j] = p[k] => j = k
  BY DEF Items
<1>3. p \in Paths /\ Len(p) = item_total
  BY <1>2, PathIntro
<1>4. Range(p) = Items
  <2>1. ASSUME NEW i \in Items PROVE i + 1 \in DOMAIN p /\ p[i + 1] = i
    BY DEF Items
  <2>2. Items \subseteq Range(p)
    BY <2>1 DEF Range
  <2>3. Range(p) \subseteq Items
    BY DEF Range, Items
  <2> QED BY <2>2, <2>3
<1>5. Chain(next, free_head, p)
  BY DEF Chain, Init, list_info_init, Items
<1>6. LastOf(p) = item_total - 1
  <2>1. p[item_total] = item_total - 1
    OBVIOUS
  <2> HIDE DEF p
  <2> QED BY <1>3, <2>1, PathShape
<1>7. Apart(p) /\ TailAt(p)
  BY <1>4, <1>6 DEF Apart, TailAt, Init, Carried
<1> HIDE DEF p
<1> QED BY <1>1, <1>3, <1>5, <1>7 DEF IInv, FreeList

\* Lines that only move the program counter, take or release the lock, or copy
\* free_head into `new': no item changes place.
LEMMA QuietKeeps ==
  ASSUME IInv, [Next]_vars, NEW t \in Threads,
         \/ CallAlloc(t) \/ Line78(t) \/ Line80(t) \/ Line81(t) \/ Line85(t) \/ Line91(t)
         \/ Line61(t) \/ Line63(t) \/ Line72(t)
  PROVE  IInv'
<1>1. TypeOK' /\ LockHeldInside'
  BY TypeStep, LockStep DEF IInv
<1>2. UNCHANGED <<next, free_head, free_tail, held>>
  BY DEF CallAlloc, Line78, Line80, Line81, Line85, Line91, Line61, Line63, Line72
<1>3. \A u \in Threads : u # t => pc'[u] = pc[u] /\ item'[u] = item[u]
  BY DEF IInv, TypeOK, Line, CallAlloc, Line78, Line80, Line81, Line85, Line91, Line61,
         Line63, Line72
<1>4. \/ pc[t] = "idle" /\ pc'[t] = "78"
      \/ pc[t] = "78" /\ pc'[t] = "80"
      \/ pc[t] = "80" /\ pc'[t] = IF free_head = INVALID_LIST_HEAD THEN "81" ELSE "85"
      \/ pc[t] = "81" /\ pc'[t] = "idle"
      \/ pc[t] = "85" /\ pc'[t] = "86" /\ item'[t] = free_head
      \/ pc[t] = "91" /\ pc'[t] = "93" /\ item'[t] = item[t]
      \/ pc[t] = "61" /\ pc'[t] = "63" /\ item'[t] = item[t]
      \/ pc[t] = "63" /\ item'[t] = item[t]
         /\ pc'[t] = IF free_head # INVALID_LIST_HEAD THEN "64" ELSE "67"
      \/ pc[t] = "72" /\ pc'[t] = "idle"
  BY DEF IInv, TypeOK, Line, CallAlloc, Line78, Line80, Line81, Line85, Line91, Line61,
         Line63, Line72
<1>5. \A u \in Threads : Carried(u)' = Carried(u)
  BY <1>3, <1>4 DEF Carried
<1>6. LineFacts' /\ Cleared'
  BY <1>2, <1>3, <1>4, <1>5 DEF IInv, LineFacts, Cleared
<1>7. ASSUME NEW p \in Paths, FreeList(p) PROVE FreeList(p)'
  BY <1>2, <1>3, <1>4, <1>5, <1>7 DEF FreeList, Apart, TailAt
<1> QED BY <1>1, <1>6, <1>7 DEF IInv

\* Line 86 takes the first item off the free list.
LEMMA Line86Keeps == ASSUME IInv, [Next]_vars, NEW t \in Threads, Line86(t) PROVE IInv'
<1>1. TypeOK' /\ LockHeldInside'
  BY TypeStep, LockStep DEF IInv
<1>2. /\ UNCHANGED <<next, free_tail, held, item>>
      /\ free_head' = next[free_head]
      /\ item[t] = free_head
      /\ free_head # INVALID_LIST_HEAD
      /\ pc[t] = "86"
      /\ \A u \in Threads : pc'[u] = IF u = t THEN "88" ELSE pc[u]
  BY LineMoves DEF IInv, LineFacts, Line86, Line, TypeOK
<1>3. \A u \in Threads : u # t => pc[u] \notin Locked
  BY <1>2 DEF IInv, LockHeldInside, Locked
<1>4. \A u \in Threads : Carried(u)' = IF u = t THEN {free_head} ELSE Carried(u)
  BY <1>2 DEF Carried
<1>5. PICK p \in Paths : FreeList(p)
  BY DEF IInv
<1>6. PICK q \in Paths :
        /\ Chain(next, next[free_head], q)
        /\ Range(q) = Range(p) \ {free_head}
        /\ LastOf(q) = IF next[free_head] = INVALID_LIST_HEAD THEN INVALID_LIST_HEAD ELSE LastOf(p)
  BY <1>2, <1>5, ChainTail DEF FreeList
<1>7. free_head \in Range(p) /\ free_head \in Items
  BY <1>2, <1>5, ChainEnd DEF FreeList
<1>8. LineFacts' /\ Cleared'
  BY <1>2, <1>3, <1>4, <1>7 DEF IInv, LineFacts, Cleared, Locked
<1>9. Carried(t) = {}
  BY <1>2 DEF Carried
<1>10. Apart(q)'
  BY <1>2, <1>4, <1>5, <1>6, <1>7, <1>9 DEF FreeList, Apart
<1>11. free_tail = LastOf(p)
  BY <1>2, <1>3, <1>5 DEF FreeList, TailAt, Locked
<1>12. TailAt(q)'
  BY <1>2, <1>3, <1>6, <1>11 DEF TailAt, Locked
<1> QED BY <1>1, <1>2, <1>6, <1>8, <1>10, <1>12 DEF IInv, FreeList

\* Line 88 brings free_tail up to date.
LEMMA Line88Keeps == ASSUME IInv, [Next]_vars, NEW t \in Threads, Line88(t) PROVE IInv'
<1>1. TypeOK' /\ LockHeldInside'
  BY TypeStep, LockStep DEF IInv
<1>2. /\ UNCHANGED <<next, free_head, held, item>>
      /\ free_tail' = IF free_head = INVALID_LIST_HEAD THEN INVALID_LIST_HEAD ELSE free_tail
      /\ pc[t] = "88"
      /\ \A u \in Threads : pc'[u] = IF u = t THEN "91" ELSE pc[u]
  BY LineMoves DEF IInv, Line88, Line, TypeOK
<1>3. \A u \in Threads : u # t => pc[u] \notin Locked
  BY <1>2 DEF IInv, LockHeldInside, Locked
<1>4. \A u \in Threads : Carried(u)' = Carried(u)
  BY <1>2 DEF Carried
<1>5. PICK p \in Paths : FreeList(p)
  BY DEF IInv
<1>6. LineFacts' /\ Cleared'
  BY <1>2, <1>4 DEF IInv, LineFacts, Cleared
<1>7. free_tail' = LastOf(p)
  BY <1>2, <1>5, ChainEnd DEF FreeList, TailAt
<1>8. Apart(p)' /\ TailAt(p)'
  BY <1>2, <1>3, <1>4, <1>5, <1>7 DEF FreeList, Apart, TailAt, Locked
<1> QED BY <1>1, <1>2, <1>5, <1>6, <1>8 DEF IInv, FreeList

\* Line 93, outside the lock, clears a link nobody else can see.
LEMMA Line93Keeps == ASSUME IInv, [Next]_vars, NEW t \in Threads, Line93(t) PROVE IInv'
<1>1. TypeOK' /\ LockHeldInside'
  BY TypeStep, LockStep DEF IInv
<1>2. /\ UNCHANGED <<free_head, free_tail, item>>
      /\ next' = [next EXCEPT ![item[t]] = INVALID_LIST_HEAD]
      /\ held' = held \cup {item[t]}
      /\ pc[t] = "93"
      /\ \A u \in Threads : pc'[u] = IF u = t THEN "idle" ELSE pc[u]
  BY LineMoves DEF IInv, Line93, Line, TypeOK
<1>3. Carried(t) = {item[t]} /\ item[t] \in Items
  BY <1>2 DEF IInv, LineFacts, Carried
<1>4. \A i \in Items : next'[i] = IF i = item[t] THEN INVALID_LIST_HEAD ELSE next[i]
  BY <1>2 DEF IInv, TypeOK
<1>5. \A u \in Threads : Carried(u)' = IF u = t THEN {} ELSE Carried(u)
  BY <1>2 DEF Carried
<1>6. PICK p \in Paths : FreeList(p)
  BY DEF IInv
<1>7. item[t] \notin Range(p) /\ \A u \in Threads : u # t => item[t] \notin Carried(u)
  BY <1>3, <1>6 DEF FreeList, Apart
<1>8. LineFacts'
  <2>1. ASSUME NEW u \in Threads, pc'[u] \in {"61", "63", "64", "67"}
        PROVE  next'[item[u]] = INVALID_LIST_HEAD
    BY <2>1, <1>2, <1>4 DEF IInv, LineFacts, Carried
  <2> QED BY <2>1, <1>2, <1>5 DEF IInv, LineFacts
<1>9. Cleared'
  BY <1>2, <1>3, <1>4 DEF IInv, Cleared, TypeOK
<1>10. Chain(next, free_head, p)'
  <2>1. \A i \in Range(p) : next'[i] = next[i]
    BY <1>4, <1>7, PathShape DEF Range
  <2> QED BY <2>1, <1>2, <1>6, ChainFrame DEF FreeList
<1>11. Apart(p)' /\ TailAt(p)'
  BY <1>2, <1>3, <1>5, <1>6, <1>7 DEF FreeList, Apart, TailAt
<1> QED BY <1>1, <1>6, <1>8, <1>9, <1>10, <1>11 DEF IInv, FreeList

\* A client gives an item up to free: it goes from held to the call's hands.
LEMMA CallFreeKeeps == ASSUME IInv, [Next]_vars, NEW t \in Threads, CallFree(t) PROVE IInv'
<1>1. TypeOK' /\ LockHeldInside'
  BY TypeStep, LockStep DEF IInv
<1>2. PICK i \in held : /\ Line(t, "idle", "61")
                        /\ item' = [item EXCEPT ![t] = i]
                        /\ held' = held \ {i}
                        /\ UNCHANGED <<next, free_head, free_tail, lock>>
  BY DEF CallFree
<1>3. /\ pc[t] = "idle"
      /\ \A u \in Threads : pc'[u] = IF u = t THEN "61" ELSE pc[u]
      /\ \A u \in Threads : item'[u] = IF u = t THEN i ELSE item[u]
      /\ i \in Items
  BY <1>2, LineMoves DEF IInv, TypeOK
<1>4. \A u \in Threads : Carried(u)' = IF u = t THEN {i} ELSE Carried(u)
  BY <1>3 DEF Carried
<1>5. PICK p \in Paths : FreeList(p)
  BY DEF IInv
<1>6. next[i] = INVALID_LIST_HEAD
  BY DEF IInv, Cleared
<1>7. LineFacts' /\ Cleared'
  BY <1>2, <1>3, <1>4, <1>6 DEF IInv, LineFacts, Cleared
<1>8. Carried(t) = {}
  BY <1>3 DEF Carried
<1>9. Apart(p)'
  BY <1>2, <1>4, <1>5, <1>8 DEF FreeList, Apart
<1>10. Chain(next, free_head, p)' /\ TailAt(p)'
  BY <1>2, <1>3, <1>5 DEF FreeList, TailAt
<1> QED BY <1>1, <1>5, <1>7, <1>9, <1>10 DEF IInv, FreeList

\* Line 64 or line 67 writes the item where the free list p ends.
LEMMA LinkAppends ==
  ASSUME IInv, NEW t \in Threads, Line64(t) \/ Line67(t), NEW p \in Paths, FreeList(p)
  PROVE  /\ item[t] \in Items /\ item[t] \notin Range(p) \cup held
         /\ free_head = INVALID_LIST_HEAD <=> Range(p) = {}
         /\ Range(p) # {} => free_tail \in Range(p)
         /\ \A m \in Items : next'[m] = IF Range(p) # {} /\ m = free_tail THEN item[t] ELSE next[m]
         /\ Appends(next, next', free_head, free_head', p, item[t])
<1>1. pc[t] \in {"64", "67"}
  BY DEF Line64, Line67, Line
<1>2. \A u \in Threads : u # t => pc[u] \notin Locked
  BY <1>1 DEF IInv, LockHeldInside, Locked
<1>3. Carried(t) = {item[t]}
  BY <1>1 DEF Carried
<1> DEFINE i == item[t]
<1>4. i \in Items /\ next[i] = INVALID_LIST_HEAD
  BY <1>1, <1>3 DEF IInv, LineFacts
<1>5. i \notin Range(p) \cup held
  BY <1>3 DEF FreeList, Apart
<1>6. free_tail = LastOf(p)
  BY <1>1, <1>2 DEF FreeList, TailAt, Locked
<1>7. /\ free_head = INVALID_LIST_HEAD <=> Range(p) = {}
      /\ Range(p) # {} => free_tail \in Range(p) /\ free_tail \in Items
      /\ Range(p) \subseteq Items
  BY <1>6, ChainEnd DEF FreeList
<1>8. /\ \A m \in Items : next'[m] = IF Range(p) # {} /\ m = free_tail THEN i ELSE next[m]
      /\ free_head' = IF Range(p) = {} THEN i ELSE free_head
  <2>1. CASE Line64(t)
    <3>1. free_head # INVALID_LIST_HEAD /\ free_head' = free_head
          /\ next' = [next EXCEPT ![free_tail] = item[t]]
      BY <2>1 DEF Line64, Line, IInv, LineFacts
    <3> QED BY <1>7, <3>1 DEF IInv, TypeOK
  <2>2. CASE Line67(t)
    <3>1. free_head = INVALID_LIST_HEAD /\ next' = next /\ free_head' = item[t]
      BY <2>2 DEF Line67, Line, IInv, LineFacts
    <3> QED BY <1>7, <3>1
  <2> QED BY <2>1, <2>2
<1>9. Appends(next, next', free_head, free_head', p, i)
  BY <1>4, <1>5, <1>6, <1>7, <1>8 DEF Appends
<1> QED BY <1>4, <1>5, <1>7, <1>8, <1>9

\* Line 64 or line 67 puts the item at the end of the free list.
LEMMA LinkKeeps ==
  ASSUME IInv, [Next]_vars, NEW t \in Threads, Line64(t) \/ Line67(t) PROVE IInv'
<1>1. TypeOK' /\ LockHeldInside'
  BY TypeStep, LockStep DEF IInv
<1>2. /\ UNCHANGED <<free_tail, held, item>>
      /\ pc[t] \in {"64", "67"}
      /\ \A u \in Threads : pc'[u] = IF u = t THEN "68" ELSE pc[u]
  BY LineMoves DEF IInv, Line64, Line67
<1>3. \A u \in Threads : u # t => pc[u] \notin Locked
  BY <1>2 DEF IInv, LockHeldInside, Locked
<1>4. /\ \A u \in Threads : Carried(u)' = IF u = t THEN {} ELSE Carried(u)
      /\ Carried(t) = {item[t]}
  BY <1>2 DEF Carried
<1> DEFINE i == item[t]
<1>6. PICK p \in Paths : FreeList(p)
  BY DEF IInv
<1>7. i \in Items /\ i \notin Range(p) \cup held
  BY <1>6, LinkAppends
<1>9. Range(p) # {} => free_tail \in Range(p)
  BY <1>6, LinkAppends
<1>10. \A m \in Items : next'[m] = IF Range(p) # {} /\ m = free_tail THEN i ELSE next[m]
  BY <1>6, LinkAppends
<1>11. Appends(next, next', free_head, free_head', p, i)
  BY <1>6, LinkAppends
<1>12. PICK q \in Paths : /\ Chain(next', free_head', q)
                          /\ Range(q) = Range(p) \cup {i}
                          /\ LastOf(q) = i
  <2>1. Chain(next, free_head, p)
    BY <1>6 DEF FreeList
  <2>2. i \in Items /\ i \notin Range(p)
    BY <1>7
  <2> HIDE DEF i
  <2>3. /\ Append(p, i) \in Paths
        /\ Chain(next', free_head', Append(p, i))
        /\ Range(Append(p, i)) = Range(p) \cup {i}
        /\ LastOf(Append(p, i)) = i
    BY <1>11, <2>1, <2>2, ChainAppend
  <2> QED BY <2>3
<1>13. LineFacts'
  <2>1. ASSUME NEW u \in Threads, pc'[u] \in {"61", "63", "64", "67"}
        PROVE  next'[item[u]] = INVALID_LIST_HEAD
    <3>1. item[u] \in Carried(u) /\ u # t
      BY <1>2, <2>1 DEF Carried
    <3>2. item[u] \in Items /\ next[item[u]] = INVALID_LIST_HEAD /\ item[u] \notin Range(p)
      BY <1>2, <1>6, <2>1, <3>1 DEF IInv, LineFacts, FreeList, Apart
    <3> QED BY <1>9, <1>10, <3>2
  <2>2. \A u \in Threads : pc'[u] \notin {"85", "86", "64", "67"}
    BY <1>2, <1>3 DEF Locked
  <2> QED BY <1>2, <1>4, <2>1, <2>2 DEF IInv, LineFacts
<1>14. Cleared'
  <2>1. ASSUME NEW m \in held PROVE next'[m] = INVALID_LIST_HEAD
    <3>1. m \in Items /\ m \notin Range(p) /\ next[m] = INVALID_LIST_HEAD
      BY <1>6 DEF IInv, TypeOK, Cleared, FreeList, Apart
    <3> QED BY <1>9, <1>10, <3>1
  <2> QED BY <1>2, <2>1 DEF Cleared
<1>15. Apart(q)'
  BY <1>2, <1>4, <1>6, <1>7, <1>12 DEF FreeList, Apart
<1>16. TailAt(q)'
  BY <1>2, <1>3, <1>12 DEF TailAt, Locked
<1> QED BY <1>1, <1>12, <1>13, <1>14, <1>15, <1>16 DEF IInv, FreeList

\* Line 65 or 68 moves free_tail to the item, and line 70 clears its link,
\* which was clear already.
LEMMA Line68Keeps == ASSUME IInv, [Next]_vars, NEW t \in Threads, Line68(t) PROVE IInv'
<1>1. TypeOK' /\ LockHeldInside'
  BY TypeStep, LockStep DEF IInv
<1>2. /\ UNCHANGED <<next, free_head, held, item>>
      /\ free_tail' = item[t]
      /\ pc[t] = "68"
      /\ \A u \in Threads : pc'[u] = IF u = t THEN "70" ELSE pc[u]
  BY LineMoves DEF IInv, Line68
<1>3. \A u \in Threads : Carried(u)' = Carried(u)
  BY <1>2 DEF Carried
<1>4. PICK p \in Paths : FreeList(p)
  BY DEF IInv
<1>5. LineFacts' /\ Cleared'
  BY <1>2, <1>3 DEF IInv, LineFacts, Cleared
<1>6. Apart(p)' /\ TailAt(p)'
  BY <1>2, <1>3, <1>4 DEF FreeList, Apart, TailAt
<1> QED BY <1>1, <1>2, <1>4, <1>5, <1>6 DEF IInv, FreeList

LEMMA Line70Keeps == ASSUME IInv, [Next]_vars, NEW t \in Threads, Line70(t) PROVE IInv'
<1>1. TypeOK' /\ LockHeldInside'
  BY TypeStep, LockStep DEF IInv
<1>2. /\ UNCHANGED <<free_head, free_tail, held, item>>
      /\ next' = [next EXCEPT ![item[t]] = INVALID_LIST_HEAD]
      /\ pc[t] = "70"
      /\ \A u \in Threads : pc'[u] = IF u = t THEN "72" ELSE pc[u]
  BY LineMoves DEF IInv, Line70
<1>3. \A u \in Threads : Carried(u)' = Carried(u)
  BY <1>2 DEF Carried
<1>4. PICK p \in Paths : FreeList(p)
  BY DEF IInv
<1>5. item[t] = LastOf(p)
  BY <1>2, <1>4 DEF FreeList, TailAt
<1>6. \A m \in Items : next'[m] = next[m]
  BY <1>2, <1>4, <1>5, ChainEnd DEF IInv, TypeOK, FreeList
<1>7. next' = next
  BY <1>1, <1>6 DEF IInv, TypeOK
<1>8. LineFacts' /\ Cleared'
  BY <1>2, <1>3, <1>7 DEF IInv, LineFacts, Cleared
<1>9. Chain(next, free_head, p)'
  BY <1>2, <1>4, <1>7 DEF FreeList
<1>10. Apart(p)' /\ TailAt(p)'
  BY <1>2, <1>3, <1>4 DEF FreeList, Apart, TailAt
<1> QED BY <1>1, <1>4, <1>8, <1>9, <1>10 DEF IInv, FreeList

LEMMA InvStep == IInv /\ [Next]_vars => IInv'
<1> SUFFICES ASSUME IInv, [Next]_vars PROVE IInv'
  OBVIOUS
<1>1. ASSUME NEW t \in Threads, Call(t) \/ Step(t) PROVE IInv'
  BY <1>1, QuietKeeps, Line86Keeps, Line88Keeps, Line93Keeps, CallFreeKeeps, LinkKeeps,
     Line68Keeps, Line70Keeps DEF Call, Step
<1>2. CASE UNCHANGED vars
  BY <1>2 DEF vars, IInv, TypeOK, LockHeldInside, LineFacts, Cleared, FreeList, Apart, TailAt,
              Carried
<1> QED BY <1>1, <1>2 DEF Next

THEOREM Inductive == Spec => []IInv
BY InvInit, InvStep, PTL DEF Spec

-----------------------------------------------------------------------------
(* What follows from it.                                                   *)

\* The variables keep their types; every index used on the array is an item.
THEOREM TypeCorrect == Spec => []TypeOK
<1>1. IInv => TypeOK
  BY DEF IInv
<1> QED BY <1>1, Inductive, PTL

\* At most one thread is between a get_lock and a release_lock comment.
THEOREM LockExclusive == Spec => []LockHeldInside
<1>1. IInv => LockHeldInside
  BY DEF IInv
<1> QED BY <1>1, Inductive, PTL

\* However many threads call, no item is handed out twice and none is lost,
\* although line 93 writes outside the lock (list.c:59-96).
THEOREM ItemsSafe == Spec => []NoItemSharedOrLost
<1>1. IInv => NoItemSharedOrLost
  BY DEF IInv, FreeList, Apart, NoItemSharedOrLost
<1> QED BY <1>1, Inductive, PTL

\* Between the calls free_tail is the last item of the free list.
THEOREM TailCorrect == Spec => []TailIsLast
<1>1. IInv => TailIsLast
  <2> SUFFICES ASSUME IInv, lock = NoThread
               PROVE  \E p \in Paths : Chain(next, free_head, p) /\ free_tail = LastOf(p)
    BY DEF TailIsLast
  <2>1. \A t \in Threads : pc[t] \notin Locked
    BY DEF IInv, LockHeldInside
  <2> QED BY <2>1 DEF IInv, FreeList, TailAt, Locked
<1> QED BY <1>1, Inductive, PTL

\* alloc refuses only when every item is with a client or in another call.
THEOREM RefusalsHonest == Spec => RefusedWhenEmpty
<1> DEFINE Honest ==
      \A t \in Threads : pc[t] = "80" /\ pc'[t] = "81" =>
        \A i \in Items : i \in held \/ \E u \in Threads \ {t} : i \in Carried(u)
<1>1. IInv /\ [Next]_vars => [Honest]_vars
  <2> SUFFICES ASSUME IInv, [Next]_vars, NEW t \in Threads, pc[t] = "80", pc'[t] = "81",
                      NEW i \in Items
               PROVE  i \in held \/ \E u \in Threads \ {t} : i \in Carried(u)
    OBVIOUS
  <2>1. free_head = INVALID_LIST_HEAD
    <3>1. \E u \in Threads : Call(u) \/ Step(u)
      BY DEF Next, vars
    <3>2. PICK u \in Threads : Call(u) \/ Step(u)
      BY <3>1
    <3>3. u = t
      BY <3>2 DEF IInv, TypeOK, Call, Step, Line, CallAlloc, CallFree, Line78, Line80, Line81,
                  Line85, Line86, Line88, Line91, Line93, Line61, Line63, Line64, Line67,
                  Line68, Line70, Line72
    <3> QED BY <3>2, <3>3 DEF IInv, TypeOK, Call, Step, Line, CallAlloc, CallFree, Line78,
                  Line80, Line81, Line85, Line86, Line88, Line91, Line93, Line61, Line63,
                  Line64, Line67, Line68, Line70, Line72
  <2>2. PICK p \in Paths : FreeList(p)
    BY DEF IInv
  <2>3. Range(p) = {}
    BY <2>1, <2>2, ChainEnd DEF FreeList
  <2>4. Carried(t) = {}
    BY DEF Carried
  <2> QED BY <2>2, <2>3, <2>4 DEF FreeList, Apart
<1> QED BY <1>1, Inductive, PTL DEF Spec, RefusedWhenEmpty

-----------------------------------------------------------------------------
(* The refinement: seen from outside, one line of each call takes effect.  *)

LEMMA QueueIs ==
  ASSUME NEW p \in Paths, Chain(next, free_head, p)
  PROVE  PathOf(next, free_head) = p
BY PathOfChain

LEMMA InitImplements == Init => Fifo!Init
<1> SUFFICES ASSUME Init PROVE Fifo!Init
  OBVIOUS
<1> DEFINE p == [j \in 1 .. item_total |-> j - 1]
<1>1. p \in [1 .. item_total -> Items] /\ \A j, k \in 1 .. item_total : p[j] = p[k] => j = k
  BY DEF Items
<1>2. p \in Paths
  BY <1>1, PathIntro
<1>3. Chain(next, free_head, p)
  BY DEF Chain, Init, list_info_init, Items
<1> HIDE DEF p
<1>4. PathOf(next, free_head) = p
  BY <1>2, <1>3, PathOfChain
<1> QED BY <1>4 DEF Fifo!Init, p

\* Line 86 takes the first item of the queue.
LEMMA Line86Takes == ASSUME IInv, NEW t \in Threads, Line86(t) PROVE Fifo!Take
<1>1. next' = next /\ free_head' = next[free_head] /\ free_head # INVALID_LIST_HEAD
  BY DEF IInv, LineFacts, Line86, Line
<1>2. PICK p \in Paths : FreeList(p)
  BY DEF IInv
<1>3. PICK q \in Paths : q = Tail(p) /\ Chain(next, next[free_head], q)
  BY <1>1, <1>2, ChainTail DEF FreeList
<1>4. PathOf(next, free_head) = p /\ PathOf(next', free_head') = q
  BY <1>1, <1>2, <1>3, PathOfChain DEF FreeList
<1>5. p # <<>>
  BY <1>1, <1>2, PathShape DEF FreeList, Chain
<1> QED BY <1>3, <1>4, <1>5 DEF Fifo!Take

\* Line 64 or 67 puts the item at the end of the queue.
LEMMA LinkGives == ASSUME IInv, NEW t \in Threads, Line64(t) \/ Line67(t) PROVE Fifo!Give
<1>1. PICK p \in Paths : FreeList(p)
  BY DEF IInv
<1> DEFINE i == item[t]
<1>2. /\ i \in Items /\ i \notin Range(p)
      /\ Appends(next, next', free_head, free_head', p, i)
  BY <1>1, LinkAppends
<1>3. Chain(next, free_head, p)
  BY <1>1 DEF FreeList
<1> HIDE DEF i
<1>4. Append(p, i) \in Paths /\ Chain(next', free_head', Append(p, i))
  BY <1>2, <1>3, ChainAppend
<1>5. PathOf(next, free_head) = p /\ PathOf(next', free_head') = Append(p, i)
  BY <1>3, <1>4, PathOfChain
<1>6. i \notin Fifo!ToSet(p)
  BY <1>2 DEF Fifo!ToSet, Range
<1> QED BY <1>2, <1>5, <1>6 DEF Fifo!Give, Items

\* No other step is seen: it writes no link of an item in the queue.
LEMMA OthersUnseen ==
  ASSUME IInv, NEW t \in Threads, Call(t) \/ Step(t), ~Line86(t), ~Line64(t), ~Line67(t)
  PROVE  PathOf(next, free_head)' = PathOf(next, free_head)
<1>1. PICK p \in Paths : FreeList(p)
  BY DEF IInv
<1>2. free_head' = free_head
  BY DEF Call, Step, CallAlloc, CallFree, Line78, Line80, Line81, Line85, Line88, Line91, Line93,
         Line61, Line63, Line68, Line70, Line72
<1>3. \A i \in Range(p) : next'[i] = next[i]
  <2>1. CASE Line93(t)
    <3>1. next' = [next EXCEPT ![item[t]] = INVALID_LIST_HEAD] /\ item[t] \in Carried(t)
      BY <2>1 DEF Line93, Line, Carried
    <3>2. item[t] \notin Range(p) /\ Range(p) \subseteq Items
      BY <1>1, <3>1, ChainEnd DEF FreeList, Apart
    <3> QED BY <3>1, <3>2 DEF IInv, TypeOK
  <2>2. CASE Line70(t)
    <3>1. next' = [next EXCEPT ![item[t]] = INVALID_LIST_HEAD] /\ item[t] = LastOf(p)
      BY <1>1, <2>2 DEF Line70, Line, FreeList, TailAt
    <3> QED BY <1>1, <3>1, ChainEnd DEF FreeList, IInv, TypeOK
  <2>3. CASE next' = next
    BY <2>3
  <2> QED BY <2>1, <2>2, <2>3 DEF Call, Step, CallAlloc, CallFree, Line78, Line80, Line81,
             Line85, Line88, Line91, Line61, Line63, Line68, Line72
<1>4. Chain(next', free_head', p)
  BY <1>1, <1>2, <1>3, ChainFrame DEF FreeList
<1> QED BY <1>1, <1>4, PathOfChain DEF FreeList

\* However the threads' calls interleave, the pool behaves as a FIFO queue in
\* which every allocation and every free takes effect at one instant: line 86
\* for alloc, line 64 or 67 for free (list.c:59-96).
THEOREM PoolIsFifo == Spec => ImplementsFifo
<1>1. IInv /\ [Next]_vars => [Fifo!Take \/ Fifo!Give]_(PathOf(next, free_head))
  <2> SUFFICES ASSUME IInv, [Next]_vars
               PROVE  Fifo!Take \/ Fifo!Give \/ PathOf(next, free_head)' = PathOf(next, free_head)
    OBVIOUS
  <2>1. CASE UNCHANGED vars
    BY <2>1 DEF vars
  <2>2. ASSUME NEW t \in Threads, Call(t) \/ Step(t)
        PROVE  Fifo!Take \/ Fifo!Give \/ PathOf(next, free_head)' = PathOf(next, free_head)
    BY <2>2, Line86Takes, LinkGives, OthersUnseen
  <2> QED BY <2>1, <2>2 DEF Next
<1> QED BY <1>1, InitImplements, Inductive, PTL DEF Spec, ImplementsFifo, Fifo!Spec
=============================================================================
