---------------------------- MODULE ChainLemmas ----------------------------
(***************************************************************************)
(* What the writes of the list library do to a chain, for arrays of any    *)
(* size and links of any value.                                            *)
(***************************************************************************)
EXTENDS Chains, FunctionTheorems, SequenceTheorems, WellFoundedInduction, TLAPS

USE ChainAssumption

-----------------------------------------------------------------------------
(* Naturals and paths.                                                     *)

NatLess == {ss \in Nat \X Nat : ss[1] < ss[2]}

\* Every non-empty set of naturals has a least element: what induction over
\* the positions of a chain rests on.
LEMMA LeastNat ==
  ASSUME NEW T \in SUBSET Nat, T # {}
  PROVE  \E n \in T : \A m \in T : n <= m
<1>0. NatLess = OpToRel(<, Nat)
  BY DEF NatLess, OpToRel
<1>1. \E n \in T : \A m \in T : <<m, n>> \notin NatLess
  BY <1>0, NatLessThanWellFounded, WFMin
<1>2. ASSUME NEW n \in T, NEW m \in T, <<m, n>> \notin NatLess
      PROVE  n <= m
  BY <1>2 DEF NatLess
<1> QED BY <1>1, <1>2

\* What it means to be a path.
LEMMA PathShape ==
  ASSUME NEW p \in Paths
  PROVE  /\ Len(p) \in Nat
         /\ DOMAIN p = 1 .. Len(p)
         /\ \A j \in DOMAIN p : p[j] \in Items
         /\ \A j, k \in DOMAIN p : p[j] = p[k] => j = k
         /\ LastOf(p) = IF Len(p) = 0 THEN INVALID_LIST_HEAD ELSE p[Len(p)]
<1>1. PICK n \in 0 .. item_total : p \in [1 .. n -> Items]
  BY DEF Paths
<1>2. n \in Nat OBVIOUS
<1>3. Len(p) = n
  BY <1>1, <1>2
<1>4. p = <<>> <=> n = 0
  BY <1>1, <1>2
<1> QED BY <1>1, <1>2, <1>3, <1>4 DEF Paths, IsInjective, LastOf

\* Conversely, a sequence of distinct items is a path: there are never more of
\* them than the pool has items.
LEMMA PathIntro ==
  ASSUME NEW n \in Nat, NEW p \in [1 .. n -> Items],
         \A j, k \in 1 .. n : p[j] = p[k] => j = k
  PROVE  p \in Paths /\ Len(p) = n
<1> DEFINE q == [j \in 1 .. n |-> p[j] + 1]
<1>1. q \in [1 .. n -> 1 .. item_total]
  BY DEF Items
<1>2. \A j, k \in 1 .. n : q[j] = q[k] => j = k
  BY DEF Items
<1>3. q \in Injection(1 .. n, 1 .. item_total)
  BY <1>1, <1>2 DEF Injection, IsInjective
<1>4. n <= item_total
  BY <1>3, Fun_NatInjLeq DEF ExistsInjection
<1> QED BY <1>4 DEF Paths, IsInjective

\* Paths are sequences, and what the sequence operators make of them.
LEMMA PathSeq == ASSUME NEW p \in Paths PROVE p \in Seq(Items)
BY DEF Paths

LEMMA PathTail ==
  ASSUME NEW p \in Paths, Len(p) # 0
  PROVE  Tail(p) = [j \in 1 .. Len(p) - 1 |-> p[j + 1]] /\ Head(p) = p[1]
<1>1. p \in Seq(Items) /\ p # <<>>
  BY PathSeq
<1>2. /\ Tail(p) \in Seq(Items)
      /\ Len(Tail(p)) = Len(p) - 1
      /\ \A j \in 1 .. Len(Tail(p)) : Tail(p)[j] = p[j + 1]
  BY <1>1, HeadTailProperties
<1>3. Tail(p) = [j \in 1 .. Len(Tail(p)) |-> Tail(p)[j]]
  BY <1>2, LenProperties
<1> QED BY <1>1, <1>2, <1>3

LEMMA PathAppend ==
  ASSUME NEW p \in Paths, NEW i \in Items
  PROVE  Append(p, i) = [j \in 1 .. Len(p) + 1 |-> IF j = Len(p) + 1 THEN i ELSE p[j]]
<1>1. /\ Append(p, i) \in Seq(Items)
      /\ Len(Append(p, i)) = Len(p) + 1
      /\ \A j \in 1 .. Len(p) : Append(p, i)[j] = p[j]
      /\ Append(p, i)[Len(p) + 1] = i
  BY PathSeq, AppendProperties
<1>2. Append(p, i) = [j \in 1 .. Len(Append(p, i)) |-> Append(p, i)[j]]
  BY <1>1, LenProperties
<1> QED BY <1>1, <1>2, PathShape

\* The sequence p without its x-th element (RemoveAt of the community modules).
Without(p, x) == SubSeq(p, 1, x - 1) \o SubSeq(p, x + 1, Len(p))

LEMMA PathWithout ==
  ASSUME NEW p \in Paths, NEW x \in DOMAIN p
  PROVE  Without(p, x) = [j \in 1 .. Len(p) - 1 |-> IF j < x THEN p[j] ELSE p[j + 1]]
<1> DEFINE a == SubSeq(p, 1, x - 1)
           b == SubSeq(p, x + 1, Len(p))
<1>1. p \in Seq(Items) /\ x \in 1 .. Len(p) /\ Len(p) \in Nat
  BY PathSeq
<1>2. a \in Seq(Items) /\ Len(a) = x - 1 /\ \A j \in 1 .. x - 1 : a[j] = p[j]
  BY <1>1
<1>3. b \in Seq(Items) /\ Len(b) = Len(p) - x /\ \A j \in 1 .. Len(p) - x : b[j] = p[j + x]
  BY <1>1
<1> HIDE DEF a, b
<1>4. a \o b \in Seq(Items) /\ Len(a \o b) = Len(p) - 1
  BY <1>1, <1>2, <1>3, ConcatProperties
<1>5. \A j \in 1 .. Len(p) - 1 : (a \o b)[j] = IF j < x THEN p[j] ELSE p[j + 1]
  <2> TAKE j \in 1 .. Len(p) - 1
  <2>1. (a \o b)[j] = IF j <= Len(a) THEN a[j] ELSE b[j - Len(a)]
    BY <1>1, <1>2, <1>3, ConcatProperties
  <2>2. CASE j < x
    <3>1. j <= x - 1 /\ j \in 1 .. x - 1
      BY <2>2, <1>1
    <3> QED BY <2>1, <2>2, <3>1, <1>2
  <2>3. CASE ~(j < x)
    <3>1. ~(j <= x - 1) /\ j - (x - 1) \in 1 .. Len(p) - x /\ (j - (x - 1)) + x = j + 1
      BY <2>3, <1>1
    <3> QED BY <2>1, <2>3, <3>1, <1>2, <1>3
  <2> QED BY <2>2, <2>3
<1>6. a \o b = [j \in 1 .. Len(p) - 1 |-> (a \o b)[j]]
  BY <1>4, LenProperties
<1>7. Without(p, x) = a \o b
  BY DEF Without, a, b
<1> QED BY <1>5, <1>6, <1>7

\* Only one path leads from a head to the end.
LEMMA PathUnique ==
  ASSUME NEW g, NEW h, NEW p \in Paths, NEW q \in Paths, Chain(g, h, p), Chain(g, h, q)
  PROVE  p = q
<1> DEFINE Off(j) == ~(j \in DOMAIN p /\ j \in DOMAIN q /\ p[j] = q[j])
           T == {j \in DOMAIN p \cup DOMAIN q : Off(j)}
<1>1. T = {}
  <2> SUFFICES ASSUME T # {} PROVE FALSE
    OBVIOUS
  <2>1. PICK n \in T : \A m \in T : n <= m
    <3>1. T \in SUBSET Nat
      BY PathShape
    <3> QED BY <3>1, LeastNat
  <2>2. n \in Nat /\ n >= 1
    BY PathShape
  <2>3. CASE n = 1
    BY <2>3, PathShape DEF Chain
  <2>4. CASE n > 1
    <3>1. n - 1 \in DOMAIN p \cup DOMAIN q /\ n - 1 \notin T
      BY <2>1, <2>2, <2>4, PathShape
    <3>2. n - 1 \in DOMAIN p /\ n - 1 \in DOMAIN q /\ p[n - 1] = q[n - 1]
      BY <3>1
    <3>3. (n - 1) + 1 = n
      BY <2>2
    <3>4. g[p[n - 1]] = IF n \in DOMAIN p THEN p[n] ELSE INVALID_LIST_HEAD
      BY <3>2, <3>3 DEF Chain
    <3>5. g[p[n - 1]] = IF n \in DOMAIN q THEN q[n] ELSE INVALID_LIST_HEAD
      BY <3>2, <3>3 DEF Chain
    <3> QED BY <3>4, <3>5, <2>1, PathShape
  <2> QED BY <2>2, <2>3, <2>4
<1>2. DOMAIN p = DOMAIN q /\ \A j \in DOMAIN p : p[j] = q[j]
  BY <1>1
<1>3. p = [j \in DOMAIN p |-> p[j]] /\ q = [j \in DOMAIN q |-> q[j]]
  BY DEF Paths
<1> QED BY <1>2, <1>3

\* What the links spell is the path of the chain.
LEMMA PathOfChain ==
  ASSUME NEW g, NEW h, NEW p \in Paths, Chain(g, h, p)
  PROVE  PathOf(g, h) = p
<1> DEFINE D == 1 .. item_total
           Then(f, j) == IF j = 1 THEN h
                         ELSE LET i == f[j - 1]
                              IN  IF i = INVALID_LIST_HEAD THEN INVALID_LIST_HEAD ELSE g[i]
           w == [j \in D |-> IF j \in DOMAIN p THEN p[j] ELSE INVALID_LIST_HEAD]
<1>1. DOMAIN p \subseteq D /\ \A j \in D : j \in DOMAIN p /\ j # 1 => j - 1 \in DOMAIN p
  BY DEF Paths
<1>2. ASSUME NEW j \in D PROVE w[j] = Then(w, j)
  <2>1. CASE j = 1
    BY <2>1 DEF Chain
  <2>2. CASE j # 1
    <3>1. j - 1 \in D /\ (j - 1) + 1 = j
      BY <2>2
    <3>2. CASE j - 1 \in DOMAIN p
      <4>1. g[p[j - 1]] = IF j \in DOMAIN p THEN p[j] ELSE INVALID_LIST_HEAD
        BY <3>1, <3>2 DEF Chain
      <4>2. p[j - 1] # INVALID_LIST_HEAD
        BY <3>2, PathShape
      <4> QED BY <2>2, <3>1, <3>2, <4>1, <4>2
    <3>3. CASE j - 1 \notin DOMAIN p
      BY <1>1, <2>2, <3>1, <3>3
    <3> QED BY <3>2, <3>3
  <2> QED BY <2>1, <2>2
<1>3. ASSUME NEW f, f = [j \in D |-> Then(f, j)] PROVE f = w
  <2> DEFINE T == {j \in D : f[j] # w[j]}
  <2>0. \A j \in D : f[j] = Then(f, j)
    BY <1>3
  <2>1. T = {}
    <3> SUFFICES ASSUME T # {} PROVE FALSE
      OBVIOUS
    <3>1. PICK n \in T : \A m \in T : n <= m
      <4>1. T \in SUBSET Nat
        OBVIOUS
      <4> HIDE DEF T
      <4> QED BY <4>1, LeastNat
    <3>2. n = 1 \/ (n - 1 \in D /\ n - 1 \notin T)
      BY <3>1
    <3>3. Then(f, n) = Then(w, n)
      BY <3>2
    <3> QED BY <1>2, <2>0, <3>1, <3>3
  <2>2. f = [j \in D |-> f[j]]
    BY <1>3
  <2> QED BY <2>1, <2>2
<1>4. Walk(g, h) = w
  <2>1. w = [j \in D |-> Then(w, j)]
    BY <1>2
  <2> HIDE DEF w
  <2> QED BY <1>3, <2>1 DEF Walk
<1>5. {k \in D : w[k] # INVALID_LIST_HEAD} = DOMAIN p
  <2>1. \A j \in DOMAIN p : p[j] # INVALID_LIST_HEAD
    BY PathShape
  <2>2. \A k \in D : w[k] # INVALID_LIST_HEAD <=> k \in DOMAIN p
    BY <2>1
  <2> HIDE DEF w
  <2> QED BY <1>1, <2>2
<1>6. p = [j \in DOMAIN p |-> p[j]]
  BY DEF Paths
<1>7. \A j \in DOMAIN p : w[j] = p[j]
  BY <1>1
<1> HIDE DEF w
<1>8. PathOf(g, h) = [j \in {k \in D : w[k] # INVALID_LIST_HEAD} |-> w[j]]
  BY <1>4 DEF PathOf
<1>9. PathOf(g, h) = [j \in DOMAIN p |-> w[j]]
  BY <1>5, <1>8
<1> QED BY <1>6, <1>7, <1>9
-----------------------------------------------------------------------------
(* What the writes of the library do to a chain.                           *)

\* A chain does not notice writes to other items.
LEMMA ChainFrame ==
  ASSUME NEW g, NEW g2, NEW h, NEW p \in Paths, Chain(g, h, p),
         \A i \in Range(p) : g2[i] = g[i]
  PROVE  Chain(g2, h, p)
BY PathShape DEF Chain, Range

\* The last item is the only one whose link is INVALID_LIST_HEAD.
LEMMA ChainEnd ==
  ASSUME NEW g, NEW h, NEW p \in Paths, Chain(g, h, p)
  PROVE  /\ h = INVALID_LIST_HEAD <=> Range(p) = {}
         /\ LastOf(p) = INVALID_LIST_HEAD <=> Range(p) = {}
         /\ Range(p) # {} => /\ h \in Range(p)
                            /\ LastOf(p) \in Range(p)
                            /\ g[LastOf(p)] = INVALID_LIST_HEAD
         /\ Range(p) \subseteq Items
         /\ \A i \in Range(p) : g[i] = INVALID_LIST_HEAD => i = LastOf(p)
         /\ \A i \in Range(p) : g[i] \in Range(p) \cup {INVALID_LIST_HEAD}
BY PathShape DEF Chain, Range

\* Taking the first item off (list_alloc_item, and unlinking a head).
LEMMA ChainTail ==
  ASSUME NEW g, NEW h, NEW p \in Paths, Chain(g, h, p), h # INVALID_LIST_HEAD
  PROVE  \E q \in Paths :
           /\ q = Tail(p) /\ h = Head(p)
           /\ Chain(g, g[h], q)
           /\ Range(q) = Range(p) \ {h}
           /\ LastOf(q) = IF g[h] = INVALID_LIST_HEAD THEN INVALID_LIST_HEAD ELSE LastOf(p)
<1> DEFINE n == Len(p) - 1
           q == [j \in 1 .. n |-> p[j + 1]]
<1>1. n \in Nat /\ Len(p) = n + 1 /\ DOMAIN p = 1 .. n + 1 /\ h = p[1]
  BY PathShape DEF Chain
<1>2. q \in [1 .. n -> Items] /\ \A j, k \in 1 .. n : q[j] = q[k] => j = k
  BY <1>1, PathShape
<1>3. q \in Paths /\ Len(q) = n
  BY <1>1, <1>2, PathIntro
<1>4. Chain(g, g[h], q)
  <2>1. g[h] = IF 1 \in DOMAIN q THEN q[1] ELSE INVALID_LIST_HEAD
    BY <1>1 DEF Chain
  <2>2. ASSUME NEW j \in DOMAIN q
        PROVE  g[q[j]] = IF j + 1 \in DOMAIN q THEN q[j + 1] ELSE INVALID_LIST_HEAD
    BY <1>1 DEF Chain
  <2> HIDE DEF q
  <2> QED BY <2>1, <2>2 DEF Chain
<1>5. Range(q) = Range(p) \ {h}
  <2>1. ASSUME NEW i \in Range(p), i # h
        PROVE  i \in Range(q)
    <3>1. PICK j \in 1 .. n + 1 : p[j] = i
      BY <1>1 DEF Range
    <3>2. j - 1 \in 1 .. n /\ q[j - 1] = i
      BY <3>1, <2>1, <1>1
    <3> QED BY <3>2 DEF Range
  <2>2. Range(q) \subseteq Range(p)
    BY <1>1 DEF Range
  <2>3. h \notin Range(q)
    BY <1>1, PathShape DEF Range
  <2> QED BY <2>1, <2>2, <2>3
<1>6. LastOf(q) = IF g[h] = INVALID_LIST_HEAD THEN INVALID_LIST_HEAD ELSE LastOf(p)
  <2>1. CASE n = 0
    BY <2>1, <1>1, <1>3, PathShape DEF Chain
  <2>2. CASE n # 0
    <3>1. q[n] = p[n + 1] /\ g[h] = p[2] /\ p[2] \in Items
      BY <2>2, <1>1, PathShape DEF Chain
    <3> HIDE DEF q
    <3> QED BY <3>1, <2>2, <1>1, <1>3, PathShape
  <2> QED BY <2>1, <2>2
<1>7. q = Tail(p) /\ h = Head(p)
  BY <1>1, PathTail
<1> HIDE DEF q
<1> QED BY <1>3, <1>4, <1>5, <1>6, <1>7

\* From links g and head h to g2 and h2: i, its own link cleared, is written
\* into the link of the last item of p, or into the head when p is empty.
Appends(g, g2, h, h2, p, i) ==
  /\ g2[i] = INVALID_LIST_HEAD
  /\ \A m \in Range(p) : g2[m] = IF m = LastOf(p) THEN i ELSE g[m]
  /\ h2 = IF Range(p) = {} THEN i ELSE h

\* Writing item i into the address of the end of a chain (list_free_item and
\* index_list_do_link).
LEMMA ChainAppend ==
  ASSUME NEW g, NEW g2, NEW h, NEW h2, NEW p \in Paths, Chain(g, h, p),
         NEW i \in Items, i \notin Range(p), Appends(g, g2, h, h2, p, i)
  PROVE  /\ Append(p, i) \in Paths
         /\ Chain(g2, h2, Append(p, i))
         /\ Range(Append(p, i)) = Range(p) \cup {i}
         /\ LastOf(Append(p, i)) = i
<1> DEFINE n == Len(p)
           q == [j \in 1 .. n + 1 |-> IF j = n + 1 THEN i ELSE p[j]]
<1>1. n \in Nat /\ DOMAIN p = 1 .. n
  BY PathShape
<1>2. q \in [1 .. n + 1 -> Items] /\ \A j, k \in 1 .. n + 1 : q[j] = q[k] => j = k
  BY <1>1, PathShape DEF Range
<1>3. q \in Paths /\ Len(q) = n + 1
  BY <1>1, <1>2, PathIntro
<1>4. Chain(g2, h2, q)
  <2>1. h2 = q[1]
    <3>1. CASE n = 0
      BY <3>1, <1>1 DEF Appends, Range
    <3>2. CASE n # 0
      <4>1. 1 \in DOMAIN p /\ h = p[1] /\ q[1] = p[1]
        BY <3>2, <1>1 DEF Chain
      <4> QED BY <4>1 DEF Appends, Range
    <3> QED BY <3>1, <3>2
  <2>2. ASSUME NEW j \in 1 .. n + 1
        PROVE  g2[q[j]] = IF j + 1 \in DOMAIN q THEN q[j + 1] ELSE INVALID_LIST_HEAD
    <3>1. CASE j = n + 1
      BY <3>1, <1>1 DEF Appends
    <3>2. CASE j = n
      BY <3>2, <1>1, PathShape DEF Appends, Range
    <3>3. CASE j < n
      <4>1. p[j] \in Range(p) /\ p[j] # LastOf(p)
        BY <3>3, <1>1, PathShape DEF Range
      <4>2. g2[p[j]] = p[j + 1]
        BY <4>1, <3>3, <1>1 DEF Appends, Chain
      <4> QED BY <4>2, <3>3, <1>1
    <3>4. j = n + 1 \/ j = n \/ j < n
      <4> HIDE DEF n, q
      <4> QED BY <1>1
    <3> QED BY <3>1, <3>2, <3>3, <3>4
  <2> QED BY <2>1, <2>2, <1>1 DEF Chain
<1>5. Range(q) = Range(p) \cup {i}
  <2>1. ASSUME NEW m \in Range(p) PROVE m \in Range(q)
    <3>1. PICK j \in 1 .. n : p[j] = m
      BY <1>1 DEF Range
    <3>2. j \in 1 .. n + 1 /\ q[j] = m
      BY <3>1, <1>1
    <3> QED BY <3>2 DEF Range
  <2>2. i = q[n + 1] /\ n + 1 \in DOMAIN q
    BY <1>1
  <2>3. Range(q) \subseteq Range(p) \cup {i}
    BY <1>1 DEF Range
  <2> QED BY <2>1, <2>2, <2>3 DEF Range
<1>6. LastOf(q) = i
  <2>1. q[n + 1] = i
    BY <1>1
  <2> HIDE DEF q
  <2> QED BY <2>1, <1>1, <1>3, PathShape
<1>7. q = Append(p, i)
  BY PathAppend
<1> HIDE DEF q
<1> QED BY <1>3, <1>4, <1>5, <1>6, <1>7

\* Leading the predecessor of an item past it (index_list_unlink2).
LEMMA ChainBypass ==
  ASSUME NEW g, NEW g2, NEW h, NEW p \in Paths, Chain(g, h, p),
         NEW x \in DOMAIN p, x # 1,
         g2[p[x - 1]] = g[p[x]],
         \A m \in Range(p) \ {p[x - 1], p[x]} : g2[m] = g[m]
  PROVE  \E q \in Paths : /\ q = Without(p, x)
                          /\ Chain(g2, h, q)
                          /\ Range(q) = Range(p) \ {p[x]}
<1> DEFINE n == Len(p) - 1
           q == [j \in 1 .. n |-> IF j < x THEN p[j] ELSE p[j + 1]]
<1>1. n \in Nat /\ DOMAIN p = 1 .. n + 1 /\ x \in 2 .. n + 1
  BY PathShape
<1>2. q \in [1 .. n -> Items] /\ \A j, k \in 1 .. n : q[j] = q[k] => j = k
  <2>1. \A j \in 1 .. n : q[j] \in Items
    BY <1>1, PathShape
  <2>2. ASSUME NEW j \in 1 .. n, NEW k \in 1 .. n, q[j] = q[k]
        PROVE  j = k
    <3>1. \A a, b \in 1 .. n + 1 : p[a] = p[b] => a = b
      BY <1>1, PathShape
    <3> QED BY <2>2, <3>1, <1>1
  <2> QED BY <2>1, <2>2
<1>3. q \in Paths /\ Len(q) = n
  BY <1>1, <1>2, PathIntro
<1>4. Chain(g2, h, q)
  <2>1. 1 \in DOMAIN q /\ h = q[1]
    BY <1>1 DEF Chain
  <2>2. ASSUME NEW j \in 1 .. n
        PROVE  g2[q[j]] = IF j + 1 \in DOMAIN q THEN q[j + 1] ELSE INVALID_LIST_HEAD
    <3>1. CASE j < x - 1
      <4>1. p[j] \in Range(p) \ {p[x - 1], p[x]}
        BY <3>1, <1>1, PathShape DEF Range
      <4>2. g2[p[j]] = p[j + 1]
        BY <4>1, <3>1, <1>1 DEF Chain
      <4> QED BY <4>2, <3>1, <1>1
    <3>2. CASE j = x - 1
      BY <3>2, <1>1 DEF Chain
    <3>3. CASE j > x - 1
      <4>1. p[j + 1] \in Range(p) \ {p[x - 1], p[x]}
        BY <3>3, <1>1, PathShape DEF Range
      <4>2. j + 1 \in DOMAIN p /\ g2[p[j + 1]] = g[p[j + 1]]
        BY <4>1, <3>3, <1>1
      <4>3. g[p[j + 1]] = IF j + 1 + 1 \in DOMAIN p THEN p[j + 1 + 1] ELSE INVALID_LIST_HEAD
        BY <4>2 DEF Chain
      <4> QED BY <4>2, <4>3, <3>3, <1>1
    <3> QED BY <3>1, <3>2, <3>3, <1>1
  <2> QED BY <2>1, <2>2 DEF Chain
<1>5. Range(q) = Range(p) \ {p[x]}
  <2>1. ASSUME NEW m \in Range(p), m # p[x] PROVE m \in Range(q)
    <3>1. PICK j \in 1 .. n + 1 : p[j] = m
      BY <1>1 DEF Range
    <3>2. CASE j < x
      <4>1. j \in 1 .. n /\ q[j] = m
        BY <3>1, <3>2, <1>1
      <4> QED BY <4>1 DEF Range
    <3>3. CASE j > x
      <4>1. j - 1 \in 1 .. n /\ q[j - 1] = m
        BY <3>1, <3>3, <1>1
      <4> QED BY <4>1 DEF Range
    <3> QED BY <3>1, <3>2, <3>3, <2>1, <1>1
  <2>2. Range(q) \subseteq Range(p)
    BY <1>1 DEF Range
  <2>3. ASSUME NEW j \in 1 .. n PROVE q[j] # p[x]
    <3>1. \A a, b \in 1 .. n + 1 : p[a] = p[b] => a = b
      BY <1>1, PathShape
    <3> QED BY <3>1, <1>1
  <2>4. p[x] \notin Range(q)
    BY <2>3 DEF Range
  <2> QED BY <2>1, <2>2, <2>4
<1>6. q = Without(p, x)
  BY PathWithout
<1> HIDE DEF q
<1> QED BY <1>3, <1>4, <1>5, <1>6
=============================================================================
