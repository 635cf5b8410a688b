--------------------------- MODULE ProgramProofs ---------------------------
(***************************************************************************)
(* Theorems about the programs that compute something: the balancing of    *)
(* teams, for any number of groups and values; the transfer of data to the *)
(* card, of any size; the bitmap, for words of any size; the conversions   *)
(* of numbers, for any number; the backtrace, for any stack and buffer.    *)
(*                                                                         *)
(* The sizes of the messages and the powers of a base are functions that   *)
(* are defined by recursion: that there are such functions, and but one of *)
(* each, is derived here from the fact that every set of naturals has a    *)
(* least element.                                                          *)
(***************************************************************************)
EXTENDS TeamBalance, HidCom, Bits, Bcd, Itoa, Backtrace,
        FiniteSetTheorems, SequenceTheorems, WellFoundedInduction, TLAPS

-----------------------------------------------------------------------------
(* Recursion on the naturals.                                              *)

NatLess == {pair \in Nat \X Nat : pair[1] < pair[2]}

LEMMA LeastNat ==
  ASSUME NEW S \in SUBSET Nat, S # {}
  PROVE  \E m \in S : \A k \in S : m <= k
<1>1. NatLess = OpToRel(<, Nat)
  BY DEF NatLess, OpToRel
<1>2. \E m \in S : \A k \in S : <<k, m>> \notin NatLess
  BY <1>1, NatLessThanWellFounded, WFMin
<1>3. ASSUME NEW m \in S, NEW k \in S, <<k, m>> \notin NatLess PROVE m <= k
  BY <1>3 DEF NatLess
<1> QED BY <1>2, <1>3

\* Induction, on the set of the numbers for which something holds.
LEMMA AllNats ==
  ASSUME NEW T \in SUBSET Nat, 0 \in T, \A n \in T : n + 1 \in T
  PROVE  T = Nat
<1> DEFINE U == {n \in Nat : n \notin T}
<1> SUFFICES ASSUME U # {} PROVE FALSE
  OBVIOUS
<1>1. PICK m \in U : \A k \in U : m <= k
  <2>1. U \in SUBSET Nat
    OBVIOUS
  <2> HIDE DEF U
  <2> QED BY <2>1, LeastNat
<1>2. m \in Nat /\ m # 0 /\ m \notin T
  BY <1>1
<1>3. m - 1 \in T
  BY <1>1, <1>2
<1>4. (m - 1) + 1 \in T
  BY <1>3
<1> QED BY <1>2, <1>4

\* What s makes of a value at each step, applied again and again.
Iterates(f, S, a, s) ==
  f \in [Nat -> S] /\ f[0] = a /\ \A n \in Nat : f[n + 1] = s[n][f[n]]

LEMMA Iteration ==
  ASSUME NEW S, NEW a \in S, NEW s \in [Nat -> [S -> S]]
  PROVE  \E f : Iterates(f, S, a, s)
<1> DEFINE Begins(g, n) == /\ g \in [0 .. n -> S] /\ g[0] = a
                           /\ \A k \in 0 .. n - 1 : g[k + 1] = s[k][g[k]]
           T == {n \in Nat : \E g : Begins(g, n)}
<1>1. T = Nat
  <2>1. 0 \in T
    <3> DEFINE g == [k \in 0 .. 0 |-> a]
    <3>1. Begins(g, 0)
      OBVIOUS
    <3> QED BY <3>1
  <2>2. ASSUME NEW n \in T PROVE n + 1 \in T
    <3>1. PICK g : Begins(g, n)
      OBVIOUS
    <3> DEFINE h == [k \in 0 .. n + 1 |-> IF k = n + 1 THEN s[n][g[n]] ELSE g[k]]
    <3>2. n \in Nat /\ g[n] \in S /\ s[n] \in [S -> S]
      BY <3>1
    <3>3. h \in [0 .. n + 1 -> S]
      BY <3>1, <3>2
    <3>4. h[0] = a
      BY <3>1, <3>2
    <3>5. ASSUME NEW k \in 0 .. (n + 1) - 1 PROVE h[k + 1] = s[k][h[k]]
      <4>0. k \in 0 .. n
        BY <3>2
      <4>1. CASE k = n
        BY <3>2, <4>1
      <4>2. CASE k # n
        <5>1. k \in 0 .. n - 1 /\ k + 1 \in 0 .. n
          BY <3>2, <4>0, <4>2
        <5> QED BY <3>1, <3>2, <5>1
      <4> QED BY <4>1, <4>2
    <3>6. Begins(h, n + 1)
      <4> HIDE DEF h
      <4> QED BY <3>3, <3>4, <3>5
    <3>7. \E f : Begins(f, n + 1)
      <4> HIDE DEF h, Begins
      <4> QED BY <3>6
    <3> HIDE DEF Begins
    <3> QED BY <3>2, <3>7
  <2>3. T \in SUBSET Nat
    OBVIOUS
  <2> HIDE DEF T
  <2> QED BY <2>1, <2>2, <2>3, AllNats
<1>2. ASSUME NEW m \in Nat, NEW n \in Nat, m <= n, NEW g, NEW h, Begins(g, m), Begins(h, n)
      PROVE  g[m] = h[m]
  <2> DEFINE V == {k \in Nat : k <= m => g[k] = h[k]}
  <2>1. 0 \in V
    BY <1>2
  <2>2. ASSUME NEW k \in V PROVE k + 1 \in V
    <3>1. CASE k + 1 <= m
      <4>1. k \in 0 .. m - 1 /\ k \in 0 .. n - 1 /\ g[k] = h[k]
        BY <1>2, <3>1
      <4>2. g[k + 1] = h[k + 1]
        BY <1>2, <4>1
      <4> QED BY <4>2
    <3> QED BY <3>1
  <2>3. V \in SUBSET Nat
    OBVIOUS
  <2>4. V = Nat
    <3> HIDE DEF V
    <3> QED BY <2>1, <2>2, <2>3, AllNats
  <2>5. m \in V
    BY <2>4
  <2> QED BY <2>5
<1> DEFINE G(n) == CHOOSE g : Begins(g, n)
           f == [n \in Nat |-> G(n)[n]]
<1>3. \A n \in Nat : Begins(G(n), n)
  <2> SUFFICES ASSUME NEW n \in Nat PROVE Begins(G(n), n)
    OBVIOUS
  <2>1. \E g : Begins(g, n)
    BY <1>1
  <2> HIDE DEF Begins
  <2> QED BY <2>1
<1> HIDE DEF G, T
<1>4. f \in [Nat -> S] /\ f[0] = a
  BY <1>3
<1>5. ASSUME NEW n \in Nat PROVE f[n + 1] = s[n][f[n]]
  <2>1. Begins(G(n), n) /\ Begins(G(n + 1), n + 1)
    BY <1>3
  <2>2. G(n)[n] = G(n + 1)[n]
    <3> HIDE DEF Begins
    <3>1. n <= n + 1 /\ n + 1 \in Nat
      OBVIOUS
    <3> QED BY <1>2, <2>1, <3>1
  <2>3. n \in 0 .. (n + 1) - 1
    OBVIOUS
  <2>4. G(n + 1)[n + 1] = s[n][G(n + 1)[n]]
    BY <2>1, <2>3
  <2> QED BY <2>2, <2>4
<1> HIDE DEF f
<1> QED BY <1>4, <1>5 DEF Iterates

-----------------------------------------------------------------------------
(* Quotients, remainders, powers.                                          *)

LEMMA QuotientAndRest ==
  ASSUME NEW a \in Nat, NEW d \in Nat, d > 0
  PROVE  a = d * (a \div d) + (a % d) /\ a % d \in 0 .. d - 1 /\ a \div d \in Nat
<1>1. a % d \in 0 .. d - 1
  OBVIOUS
<1>2. a \div d \in Nat
  BY Z3
<1>3. a = d * (a \div d) + (a % d)
  BY Z3
<1> QED BY <1>1, <1>2, <1>3

LEMMA NotBelow ==
  ASSUME NEW d \in Nat, NEW q \in Nat, NEW r \in Nat, NEW p \in Nat, NEW s \in Nat,
         s < d, d * q + r = d * p + s
  PROVE  q <= p
<1> SUFFICES ASSUME q > p PROVE FALSE
  OBVIOUS
<1>1. d * (q - p) = d * q - d * p
  OBVIOUS
<1>2. d * q \in Nat /\ d * p \in Nat
  OBVIOUS
<1>3. d * (q - p) >= d
  <2>1. q - p - 1 \in Nat
    OBVIOUS
  <2>2. d * (q - p - 1) \in Nat
    BY <2>1
  <2>3. d * (q - p) = d * (q - p - 1) + d
    OBVIOUS
  <2> QED BY <2>2, <2>3
<1> QED BY <1>1, <1>2, <1>3

\* There is but one quotient and one remainder.
LEMMA Quotient ==
  ASSUME NEW a \in Nat, NEW d \in Nat, NEW q \in Nat, NEW r \in Nat, a = d * q + r, r < d
  PROVE  a \div d = q /\ a % d = r
<1>1. a = d * (a \div d) + (a % d) /\ a % d \in Nat /\ a % d < d /\ a \div d \in Nat
  BY QuotientAndRest
<1> DEFINE p == a \div d
           s == a % d
<1>2. d * q + r = d * p + s /\ p \in Nat /\ s \in Nat /\ s < d
  BY <1>1
<1> HIDE DEF p, s
<1>3. q <= p
  BY <1>2, NotBelow
<1>4. p <= q
  BY <1>2, NotBelow
<1>5. p = q
  BY <1>2, <1>3, <1>4
<1>6. s = r
  <2>1. d * q \in Nat /\ d * p = d * q
    BY <1>5
  <2> QED BY <1>2, <2>1
<1> QED BY <1>5, <1>6 DEF p, s

\* One digit more, in base b.
LEMMA NextDigit ==
  ASSUME NEW a \in Nat, NEW d \in Nat, d > 0, NEW b \in Nat, b > 0
  PROVE  /\ (a \div d) \div b = a \div (b * d)
         /\ a % (b * d) = ((a \div d) % b) * d + (a % d)
<1> DEFINE q == a \div d
           r == a % d
           q2 == q \div b
           r2 == q % b
           D == b * d
           x == r2 * d + r
<1>1. a = d * q + r /\ r \in Nat /\ r < d /\ q \in Nat
  BY QuotientAndRest
<1> HIDE DEF q, r
<1>2. q = b * q2 + r2 /\ r2 \in Nat /\ r2 < b /\ q2 \in Nat
  BY <1>1, QuotientAndRest
<1> HIDE DEF q2, r2
<1>3. x \in Nat /\ r2 * d \in Nat /\ D \in Nat
  BY <1>1, <1>2
<1>4. a = D * q2 + x
  <2>1. d * q = d * (b * q2 + r2)
    BY <1>2
  <2>2. d * (b * q2 + r2) = (b * d) * q2 + r2 * d
    BY <1>2
  <2>3. (b * d) * q2 \in Nat /\ d * q \in Nat
    BY <1>1, <1>2
  <2> QED BY <1>1, <1>3, <2>1, <2>2, <2>3
<1>5. x < D
  <2>1. b - 1 - r2 \in Nat
    BY <1>2
  <2>2. (b - 1 - r2) * d \in Nat
    BY <2>1
  <2>3. (b - 1 - r2) * d = b * d - d - r2 * d
    BY <1>2
  <2> QED BY <1>1, <1>3, <2>2, <2>3
<1> HIDE DEF D, x
<1>6. a \div D = q2 /\ a % D = x
  BY <1>2, <1>3, <1>4, <1>5, Quotient
<1> QED BY <1>6 DEF D, x, q2, r2, q, r

-----------------------------------------------------------------------------
(* Powers.                                                                 *)

LEMMA Powers ==
  ASSUME NEW b \in Nat, NEW top \in Nat
  PROVE  /\ Power(b, top) \in [0 .. top -> Nat] /\ Power(b, top)[0] = 1
         /\ \A n \in 0 .. top - 1 : Power(b, top)[n + 1] = b * Power(b, top)[n]
<1> DEFINE Then(f, pos) == IF pos = 0 THEN 1 ELSE b * f[pos - 1]
           s == [n \in Nat |-> [x \in Nat |-> b * x]]
<1>1. s \in [Nat -> [Nat -> Nat]] /\ top \in Nat /\ \A x \in Nat : b * x \in Nat
  OBVIOUS
<1>2. PICK f : Iterates(f, Nat, 1, s)
  <2>1. s \in [Nat -> [Nat -> Nat]] /\ 1 \in Nat
    BY <1>1
  <2> HIDE DEF s
  <2> QED BY <2>1, Iteration
<1>3. f \in [Nat -> Nat] /\ f[0] = 1 /\ \A n \in Nat : f[n + 1] = b * f[n]
  <2>1. f \in [Nat -> Nat] /\ f[0] = 1 /\ \A n \in Nat : f[n + 1] = s[n][f[n]]
    <3> HIDE DEF s
    <3> QED BY <1>2 DEF Iterates
  <2> QED BY <2>1
<1> HIDE DEF s
<1> DEFINE g == [pos \in 0 .. top |-> f[pos]]
<1>4. /\ g \in [0 .. top -> Nat] /\ g[0] = 1
      /\ \A n \in 0 .. top - 1 : g[n + 1] = b * g[n]
  <2>1. ASSUME NEW n \in 0 .. top - 1 PROVE g[n + 1] = b * g[n]
    <3>1. n \in 0 .. top /\ n + 1 \in 0 .. top /\ n \in Nat
      BY <1>1
    <3>2. f[n + 1] = b * f[n]
      BY <1>3, <3>1
    <3> QED BY <3>1, <3>2
  <2>2. g \in [0 .. top -> Nat]
    <3>1. \A pos \in 0 .. top : f[pos] \in Nat
      <4>1. \A pos \in 0 .. top : pos \in Nat
        OBVIOUS
      <4> QED BY <1>3, <4>1
    <3> QED BY <3>1
  <2>3. g[0] = 1
    <3>1. 0 \in 0 .. top
      BY <1>1
    <3> QED BY <1>3, <3>1
  <2> HIDE DEF g
  <2> QED BY <2>1, <2>2, <2>3
<1>5. g = [pos \in 0 .. top |-> Then(g, pos)]
  <2>1. ASSUME NEW pos \in 0 .. top PROVE g[pos] = Then(g, pos)
    <3> HIDE DEF g
    <3>1. CASE pos = 0
      BY <1>4, <3>1
    <3>2. CASE pos # 0
      <4>1. pos - 1 \in 0 .. top - 1 /\ (pos - 1) + 1 = pos
        BY <3>2
      <4> QED BY <1>4, <3>2, <4>1
    <3> QED BY <3>1, <3>2
  <2>2. g = [pos \in 0 .. top |-> g[pos]]
    BY <1>4
  <2> HIDE DEF g, Then
  <2> QED BY <2>1, <2>2
<1>6. ASSUME NEW h, h = [pos \in 0 .. top |-> Then(h, pos)] PROVE h = g
  <2>0. \A pos \in 0 .. top : h[pos] = Then(h, pos)
    BY <1>6
  <2> DEFINE T == {n \in Nat : n <= top => h[n] = g[n]}
  <2>1. 0 \in T
    <3>1. 0 \in 0 .. top
      BY <1>1
    <3> HIDE DEF g
    <3> QED BY <1>4, <2>0, <3>1
  <2>2. ASSUME NEW n \in T PROVE n + 1 \in T
    <3> HIDE DEF g
    <3>1. CASE n + 1 <= top
      <4>0. n \in Nat /\ n <= top
        BY <1>1, <3>1
      <4>1. n \in 0 .. top - 1 /\ n + 1 \in 0 .. top /\ (n + 1) - 1 = n /\ n + 1 # 0
        BY <1>1, <3>1
      <4>3. h[n] = g[n]
        BY <4>0
      <4>2. h[n + 1] = b * h[n]
        BY <2>0, <4>1
      <4> QED BY <1>4, <4>1, <4>2, <4>3
    <3> QED BY <3>1
  <2>3. T = Nat
    <3>1. T \in SUBSET Nat
      OBVIOUS
    <3> HIDE DEF T
    <3> QED BY <2>1, <2>2, <3>1, AllNats
  <2>4. \A pos \in 0 .. top : h[pos] = g[pos]
    <3> SUFFICES ASSUME NEW pos \in 0 .. top PROVE h[pos] = g[pos]
      OBVIOUS
    <3>1. pos \in Nat /\ pos <= top
      BY <1>1
    <3>2. pos \in T
      <4> HIDE DEF T
      <4> QED BY <2>3, <3>1
    <3> HIDE DEF g
    <3> QED BY <3>1, <3>2
  <2>5. h = [pos \in 0 .. top |-> h[pos]]
    BY <1>6
  <2>6. g = [pos \in 0 .. top |-> g[pos]]
    BY <1>4
  <2> HIDE DEF g
  <2> QED BY <2>4, <2>5, <2>6
<1>7. Power(b, top) = g
  <2> HIDE DEF g
  <2> QED BY <1>5, <1>6 DEF Power
<1> HIDE DEF g
<1> QED BY <1>4, <1>7

LEMMA PowersAbove0 ==
  ASSUME NEW b \in Nat, NEW top \in Nat, b > 0, NEW n \in Int, n \in 0 .. top
  PROVE  Power(b, top)[n] \in Nat /\ Power(b, top)[n] > 0
<1> DEFINE T == {k \in Nat : k <= top => Power(b, top)[k] > 0}
<1>1. 0 \in T
  <2>1. Power(b, top)[0] = 1
    BY Powers
  <2> QED BY <2>1
<1>2. ASSUME NEW k \in T PROVE k + 1 \in T
  <2>1. CASE k + 1 <= top
    <3>1. k \in 0 .. top - 1 /\ k \in 0 .. top /\ Power(b, top)[k] > 0
      BY <2>1
    <3>2. Power(b, top)[k] \in Nat /\ Power(b, top)[k + 1] = b * Power(b, top)[k]
      BY <3>1, Powers
    <3>3. \A x \in Nat : x > 0 => b * x > 0
      OBVIOUS
    <3> QED BY <3>1, <3>2, <3>3
  <2> QED BY <2>1
<1>3. T = Nat
  <2>1. T \in SUBSET Nat
    OBVIOUS
  <2> HIDE DEF T
  <2> QED BY <1>1, <1>2, <2>1, AllNats
<1>4. n \in Nat /\ n <= top
  OBVIOUS
<1>5. n \in T
  <2> HIDE DEF T
  <2> QED BY <1>3, <1>4
<1> QED BY <1>4, <1>5, Powers

LEMMA PowerOfSum ==
  ASSUME NEW b \in Nat, NEW top \in Nat, b > 0, NEW m \in Nat, NEW n \in Nat, m + n <= top
  PROVE  Power(b, top)[m + n] = Power(b, top)[m] * Power(b, top)[n]
<1> DEFINE P == Power(b, top)
           T == {k \in Nat : m + k <= top => P[m + k] = P[m] * P[k]}
<1>0. top \in Nat /\ m \in 0 .. top /\ P[m] \in Nat /\ P[0] = 1
  <2>1. top \in Nat /\ m \in 0 .. top
    OBVIOUS
  <2> QED BY <2>1, Powers, PowersAbove0
<1>1. 0 \in T
  BY <1>0
<1>2. ASSUME NEW k \in T PROVE k + 1 \in T
  <2>1. CASE m + (k + 1) <= top
    <3>1. /\ m + k \in 0 .. top - 1 /\ k \in 0 .. top - 1 /\ k \in 0 .. top /\ m + k \in 0 .. top
          /\ P[m + k] = P[m] * P[k] /\ m + (k + 1) = (m + k) + 1
      BY <1>0, <2>1
    <3>2. P[(m + k) + 1] = b * P[m + k] /\ P[k + 1] = b * P[k]
      BY <3>1, Powers
    <3>3. P[k] \in Nat
      BY <3>1, PowersAbove0
    <3>4. \A x \in Nat, y \in Nat : b * (x * y) = x * (b * y)
      OBVIOUS
    <3> HIDE DEF P
    <3>5. b * (P[m] * P[k]) = P[m] * (b * P[k])
      BY <1>0, <3>3, <3>4
    <3> QED BY <3>1, <3>2, <3>5
  <2> QED BY <2>1
<1>3. T = Nat
  <2>1. T \in SUBSET Nat
    OBVIOUS
  <2> HIDE DEF T
  <2> QED BY <1>1, <1>2, <2>1, AllNats
<1>4. n \in T
  <2> HIDE DEF T
  <2> QED BY <1>3
<1> QED BY <1>4

LEMMA TwoPowers ==
  ASSUME NEW top \in Nat
  PROVE  /\ \A n \in 0 .. top : /\ Power(10, top)[n] \in Nat /\ Power(10, top)[n] > 0
                                /\ Power(16, top)[n] \in Nat /\ Power(16, top)[n] > 0
         /\ \A n \in 0 .. top - 1 : /\ Power(10, top)[n + 1] = 10 * Power(10, top)[n]
                                    /\ Power(16, top)[n + 1] = 16 * Power(16, top)[n]
         /\ Power(10, top)[0] = 1 /\ Power(16, top)[0] = 1
<1>0. 10 \in Nat /\ 10 > 0 /\ 16 \in Nat /\ 16 > 0
  OBVIOUS
<1>1. ASSUME NEW n \in 0 .. top
      PROVE  /\ Power(10, top)[n] \in Nat /\ Power(10, top)[n] > 0
             /\ Power(16, top)[n] \in Nat /\ Power(16, top)[n] > 0
  <2>1. n \in Int
    OBVIOUS
  <2>2. Power(10, top)[n] \in Nat /\ Power(10, top)[n] > 0
    BY <1>0, <2>1, PowersAbove0
  <2>3. Power(16, top)[n] \in Nat /\ Power(16, top)[n] > 0
    BY <1>0, <2>1, PowersAbove0
  <2> QED BY <2>2, <2>3
<1>2. /\ \A n \in 0 .. top - 1 : Power(10, top)[n + 1] = 10 * Power(10, top)[n]
      /\ Power(10, top)[0] = 1
  BY <1>0, Powers
<1>3. /\ \A n \in 0 .. top - 1 : Power(16, top)[n + 1] = 16 * Power(16, top)[n]
      /\ Power(16, top)[0] = 1
  BY <1>0, Powers
<1> QED BY <1>1, <1>2, <1>3

-----------------------------------------------------------------------------
(* TeamBalance.                                                            *)

\* The values stay sorted: the code sorts them once.
SortedInv == TeamTypeOK /\ Sorted(values)

\* What is dealt next, and what was before.
LEMMA Dealt ==
  ASSUME SortedInv, deal
  PROVE  /\ values' = values /\ next' = next + 1
         /\ next \in 1 .. N /\ next - 1 \in 0 .. N - 1
         /\ \A k \in 1 .. N : values[k] \in Nat
         /\ \A h \in Groups : load[h] \in Nat /\ group[h] \subseteq 1 .. next - 1
<1>1. values' = values /\ next' = next + 1 /\ next <= N
  BY DEF deal
<1>2. next \in 1 .. N + 1 /\ N \in Nat
  BY TeamAssumption DEF TeamAssumption, SortedInv, TeamTypeOK
<1>3. next \in 1 .. N /\ next - 1 \in 0 .. N - 1
  BY <1>1, <1>2
<1>4. \A k \in 1 .. N : values[k] \in Nat
  BY TeamAssumption DEF TeamAssumption, SortedInv, TeamTypeOK
<1>5. \A h \in Groups : load[h] \in Nat /\ group[h] \subseteq 1 .. next - 1
  BY DEF SortedInv, TeamTypeOK
<1> QED
  BY <1>1, <1>3, <1>4, <1>5

LEMMA AppendTyped ==
  ASSUME SortedInv, deal
  PROVE  SortedInv'
<1>1. PICK g \in Groups : append(g)
  BY DEF deal
<1>2. /\ values' = values /\ next' = next + 1 /\ next \in 1 .. N /\ values[next] \in Nat
  BY Dealt
<1>3. group' \in [Groups -> SUBSET (1 .. next' - 1)]
  <2>1. \A S \in SUBSET (1 .. next - 1) : /\ S \cup {next} \in SUBSET (1 .. next)
                                          /\ S \in SUBSET (1 .. next)
    BY <1>2
  <2>2. next' - 1 = next
    BY <1>2
  <2> QED
    BY <1>1, <2>1, <2>2 DEF append, SortedInv, TeamTypeOK
<1>4. load' \in [Groups -> Nat]
  BY <1>1, <1>2 DEF append, SortedInv, TeamTypeOK
<1>5. next' \in 1 .. N + 1
  BY <1>2, TeamAssumption DEF TeamAssumption
<1> QED
  BY <1>2, <1>3, <1>4, <1>5 DEF SortedInv, TeamTypeOK, Sorted

\* The sums only grow, and the group that a value joins was the least.
LEMMA AppendKeepsBalance ==
  ASSUME SortedInv, NoMoveHelps, deal
  PROVE  NoMoveHelps'
<1>1. PICK m \in Groups : append(m) /\ \A h \in Groups : load[m] <= load[h]
  BY DEF deal
<1>2. /\ values' = values /\ next \in 1 .. N
      /\ \A k \in 1 .. N : values[k] \in Nat
      /\ \A h \in Groups : load[h] \in Nat /\ group[h] \subseteq 1 .. next - 1
  BY Dealt
<1>3. \A h \in Groups : load'[h] = (IF h = m THEN load[h] + values[next] ELSE load[h])
  BY <1>1 DEF append, SortedInv, TeamTypeOK
<1>4. \A h \in Groups : group'[h] = (IF h = m THEN group[h] \cup {next} ELSE group[h])
  BY <1>1 DEF append, SortedInv, TeamTypeOK
<1>5. \A h \in Groups : load'[h] \in Nat /\ load'[h] >= load[h]
  BY <1>2, <1>3
<1>6. SUFFICES ASSUME NEW g \in Groups, NEW h \in Groups, NEW k \in group'[g]
               PROVE  load'[g] - values[k] <= load'[h]
  BY <1>2 DEF NoMoveHelps
<1>7. CASE g = m
  <2>1. k = next \/ (k \in 1 .. N /\ k < next)
    <3>1. k = next \/ k \in 1 .. next - 1
      BY <1>2, <1>4, <1>7
    <3>2. N \in Nat
      BY TeamAssumption DEF TeamAssumption
    <3> QED
      BY <1>2, <3>1, <3>2
  <2>2. values[k] >= values[next] /\ values[k] \in Nat
    BY <2>1, <1>2 DEF SortedInv, Sorted
  <2>3. load'[g] = load[g] + values[next] /\ load[g] <= load[h]
    BY <1>1, <1>3, <1>7
  <2> QED
    BY <2>2, <2>3, <1>2, <1>5
<1>8. CASE g # m
  <2>1. k \in group[g] /\ load'[g] = load[g] /\ values[k] \in Nat
    <3>1. k \in group[g] /\ load'[g] = load[g]
      BY <1>3, <1>4, <1>8
    <3>2. k \in 1 .. next - 1 /\ N \in Nat
      BY <1>2, <3>1, TeamAssumption DEF TeamAssumption
    <3>3. k \in 1 .. N
      BY <1>2, <3>2
    <3> QED
      BY <1>2, <3>1, <3>3
  <2>2. load[g] - values[k] <= load[h]
    BY <2>1 DEF NoMoveHelps
  <2> QED
    BY <2>1, <2>2, <1>2, <1>5
<1> QED
  BY <1>7, <1>8

\* Type correctness, and that the values stay sorted.
THEOREM TeamTypeCorrect == TeamSpec => []SortedInv
<1>1. TeamInit => SortedInv
  BY TeamAssumption DEF TeamAssumption, TeamInit, SortedInv, TeamTypeOK
<1>2. SortedInv /\ [deal]_teamVars => SortedInv'
  <2> SUFFICES ASSUME SortedInv, [deal]_teamVars PROVE SortedInv'
    OBVIOUS
  <2>1. CASE deal
    BY <2>1, AppendTyped
  <2>2. CASE UNCHANGED teamVars
    BY <2>2 DEF teamVars, SortedInv, TeamTypeOK, Sorted
  <2> QED
    BY <2>1, <2>2
<1> QED
  BY <1>1, <1>2, PTL DEF TeamSpec

\* For any groups and values, no value is worth moving at any time: the groups
\* of make_team.py are as even as a single move can make them.
THEOREM NoMoveEverHelps == TeamSpec => []NoMoveHelps
<1>1. TeamInit => NoMoveHelps
  BY DEF TeamInit, NoMoveHelps
<1>2. SortedInv /\ NoMoveHelps /\ [deal]_teamVars => NoMoveHelps'
  <2> SUFFICES ASSUME SortedInv, NoMoveHelps, [deal]_teamVars PROVE NoMoveHelps'
    OBVIOUS
  <2>1. CASE deal
    BY <2>1, AppendKeepsBalance
  <2>2. CASE UNCHANGED teamVars
    BY <2>2 DEF teamVars, NoMoveHelps
  <2> QED
    BY <2>1, <2>2
<1> QED
  BY <1>1, <1>2, TeamTypeCorrect, PTL DEF TeamSpec

-----------------------------------------------------------------------------
(* HidCom.  The bytes in a sequence of messages.                           *)

Sized(ms) == Len(ms) \in Nat /\ \A pos \in 1 .. Len(ms) : ms[pos].len \in Nat

LEMMA BytesAre ==
  ASSUME NEW ms, Sized(ms)
  PROVE  /\ Bytes(ms) \in [0 .. Len(ms) -> Nat] /\ Bytes(ms)[0] = 0
         /\ \A pos \in 1 .. Len(ms) : Bytes(ms)[pos] = Bytes(ms)[pos - 1] + ms[pos].len
<1> DEFINE top == Len(ms)
           Then(f, pos) == IF pos = 0 THEN 0 ELSE f[pos - 1] + ms[pos].len
           len(n) == IF n + 1 \in 1 .. top THEN ms[n + 1].len ELSE 0
           s == [n \in Nat |-> [x \in Nat |-> x + len(n)]]
<1>1. s \in [Nat -> [Nat -> Nat]] /\ top \in Nat /\ \A n \in Nat : len(n) \in Nat
  BY DEF Sized
<1>2. PICK f : Iterates(f, Nat, 0, s)
  <2>1. s \in [Nat -> [Nat -> Nat]] /\ 0 \in Nat
    BY <1>1
  <2> HIDE DEF s
  <2> QED BY <2>1, Iteration
<1>2a. f \in [Nat -> Nat] /\ f[0] = 0 /\ \A n \in Nat : f[n + 1] = s[n][f[n]]
  <2> HIDE DEF s
  <2> QED BY <1>2 DEF Iterates
<1> DEFINE g == [pos \in 0 .. top |-> f[pos]]
<1>3. ASSUME NEW pos \in 1 .. top PROVE g[pos] = g[pos - 1] + ms[pos].len
  <2>1. pos - 1 \in Nat /\ (pos - 1) + 1 = pos /\ pos \in 0 .. top /\ pos - 1 \in 0 .. top
    BY <1>1
  <2>2. f[pos] = f[pos - 1] + len(pos - 1)
    <3> HIDE DEF len
    <3>1. f[(pos - 1) + 1] = s[pos - 1][f[pos - 1]]
      BY <1>2a, <2>1
    <3> QED BY <1>2a, <2>1, <3>1
  <2>3. len(pos - 1) = ms[pos].len
    BY <2>1
  <2> HIDE DEF len
  <2> QED BY <2>1, <2>2, <2>3
<1>4. g \in [0 .. top -> Nat] /\ g[0] = 0
  BY <1>1, <1>2a
<1>5. ASSUME NEW pos \in 0 .. top PROVE g[pos] = Then(g, pos)
  <2> HIDE DEF g
  <2>1. CASE pos = 0
    BY <1>4, <2>1
  <2>2. CASE pos # 0
    <3>1. pos \in 1 .. top
      BY <1>1, <2>2
    <3> QED BY <1>3, <2>2, <3>1
  <2> QED BY <2>1, <2>2
<1>6. g = [pos \in 0 .. top |-> Then(g, pos)]
  <2>1. g = [pos \in 0 .. top |-> g[pos]]
    BY <1>4
  <2> HIDE DEF g, Then
  <2> QED BY <1>5, <2>1
<1>7. ASSUME NEW h, h = [pos \in 0 .. top |-> Then(h, pos)] PROVE h = g
  <2>0. \A pos \in 0 .. top : h[pos] = Then(h, pos)
    BY <1>7
  <2> DEFINE T == {n \in Nat : n <= top => h[n] = g[n]}
  <2>1. 0 \in T
    BY <1>1, <1>4, <2>0
  <2>2. ASSUME NEW n \in T PROVE n + 1 \in T
    <3>1. CASE n + 1 <= top
      <4>1. /\ n + 1 \in 1 .. top /\ n + 1 \in 0 .. top /\ (n + 1) - 1 = n /\ n + 1 # 0
            /\ h[n] = g[n]
        <5> HIDE DEF g
        <5> QED BY <1>1, <3>1
      <4>2. h[n + 1] = Then(h, n + 1)
        BY <2>0, <4>1
      <4>3. h[n + 1] = h[n] + ms[n + 1].len
        BY <4>1, <4>2
      <4>4. g[n + 1] = g[n] + ms[n + 1].len
        <5> HIDE DEF g
        <5> QED BY <1>3, <4>1
      <4> HIDE DEF g
      <4> QED BY <4>1, <4>3, <4>4
    <3> QED BY <3>1
  <2>3. T = Nat
    <3>1. T \in SUBSET Nat
      OBVIOUS
    <3> HIDE DEF T
    <3> QED BY <2>1, <2>2, <3>1, AllNats
  <2>4. \A pos \in 0 .. top : h[pos] = g[pos]
    <3> SUFFICES ASSUME NEW pos \in 0 .. top PROVE h[pos] = g[pos]
      OBVIOUS
    <3>1. pos \in Nat /\ pos <= top
      BY <1>1
    <3>2. pos \in T
      <4> HIDE DEF T
      <4> QED BY <2>3, <3>1
    <3> HIDE DEF g
    <3> QED BY <3>1, <3>2
  <2>5. h = [pos \in 0 .. top |-> h[pos]]
    BY <1>7
  <2>6. g = [pos \in 0 .. top |-> g[pos]]
    BY <1>4
  <2> HIDE DEF g
  <2> QED BY <2>4, <2>5, <2>6
<1>8. Bytes(ms) = g
  <2> HIDE DEF g
  <2> QED BY <1>6, <1>7 DEF Bytes
<1> HIDE DEF g
<1> QED BY <1>3, <1>4, <1>8

LEMMA BytesAppend ==
  ASSUME NEW M, NEW ms \in Seq(M), NEW m \in M, \A e \in M : e.len \in Nat
  PROVE  /\ Sized(ms) /\ Sized(Append(ms, m))
         /\ \A pos \in 0 .. Len(ms) : Bytes(Append(ms, m))[pos] = Bytes(ms)[pos]
         /\ Total(Append(ms, m)) = Total(ms) + m.len /\ Total(ms) \in Nat
<1> DEFINE more == Append(ms, m)
           top == Len(ms)
<1>1. /\ top \in Nat /\ more \in Seq(M) /\ Len(more) = top + 1
      /\ \A pos \in 1 .. top : more[pos] = ms[pos] /\ ms[pos] \in M
      /\ more[top + 1] = m
  BY AppendProperties
<1> HIDE DEF more
<1>2. Sized(ms) /\ Sized(more)
  <2>1. Sized(ms)
    BY <1>1 DEF Sized
  <2>2. ASSUME NEW pos \in 1 .. top + 1 PROVE more[pos] \in M
    <3>1. pos \in 1 .. top \/ pos = top + 1
      BY <1>1
    <3> QED BY <1>1, <3>1
  <2> QED BY <1>1, <2>1, <2>2 DEF Sized
<1>3. /\ Bytes(ms)[0] = 0 /\ Bytes(more)[0] = 0
      /\ \A pos \in 1 .. top : Bytes(ms)[pos] = Bytes(ms)[pos - 1] + ms[pos].len
      /\ \A pos \in 1 .. top + 1 : Bytes(more)[pos] = Bytes(more)[pos - 1] + more[pos].len
      /\ Bytes(ms) \in [0 .. top -> Nat]
  BY <1>1, <1>2, BytesAre
<1> DEFINE T == {n \in Nat : n <= top => Bytes(more)[n] = Bytes(ms)[n]}
<1>4. T = Nat
  <2>1. 0 \in T
    BY <1>3
  <2>2. ASSUME NEW n \in T PROVE n + 1 \in T
    <3>1. CASE n + 1 <= top
      <4>1. /\ n + 1 \in 1 .. top /\ n + 1 \in 1 .. top + 1 /\ (n + 1) - 1 = n
            /\ Bytes(more)[n] = Bytes(ms)[n]
        BY <1>1, <3>1
      <4>2. Bytes(more)[n + 1] = Bytes(more)[n] + more[n + 1].len
        BY <1>3, <4>1
      <4>3. Bytes(ms)[n + 1] = Bytes(ms)[n] + ms[n + 1].len
        BY <1>3, <4>1
      <4> QED BY <1>1, <4>1, <4>2, <4>3
    <3> QED BY <3>1
  <2>3. T \in SUBSET Nat
    OBVIOUS
  <2> HIDE DEF T
  <2> QED BY <2>1, <2>2, <2>3, AllNats
<1>5. ASSUME NEW pos \in 0 .. top PROVE Bytes(more)[pos] = Bytes(ms)[pos]
  <2>1. pos \in Nat /\ pos <= top
    BY <1>1
  <2>2. pos \in T
    <3> HIDE DEF T
    <3> QED BY <1>4, <2>1
  <2> QED BY <2>1, <2>2
<1>6. Bytes(more)[top + 1] = Bytes(ms)[top] + m.len
  <2>1. top + 1 \in 1 .. top + 1 /\ (top + 1) - 1 = top /\ top \in 0 .. top
    BY <1>1
  <2> QED BY <1>1, <1>3, <1>5, <2>1
<1>7. Bytes(ms)[top] \in Nat
  BY <1>1, <1>3
<1> QED BY <1>1, <1>2, <1>5, <1>6, <1>7 DEF Total, more

LEMMA NoBytes == Total(<<>>) = 0
<1>1. Sized(<<>>) /\ Len(<<>>) = 0
  BY DEF Sized
<1> QED BY <1>1, BytesAre DEF Total

-----------------------------------------------------------------------------
(* What each step of a call may count on.                                  *)

Outgoing == [status : {"SINGLE", "MULTI"}, off : Nat, len : Nat, check : BOOLEAN]
Incoming == [status : {"SINGLE", "MULTI"}, len : Nat]

HidType ==
  /\ pc \in {"idle", "send", "receive", "killed"}
  /\ size \in Nat /\ rcv_size \in Nat /\ count \in Nat /\ msg_len \in Nat
  /\ sent \in Seq(Outgoing) /\ replies \in Seq(Incoming) /\ got \in Nat
  /\ faults \in Nat /\ ret \in Int

\* No fault while a call is under way, and nothing received while it sends.
Going ==
  /\ pc \in {"send", "receive"} => faults = 0 /\ ret >= 0
  /\ pc = "send" => count > 0 /\ replies = <<>> /\ got = 0
  /\ pc = "receive" => got = Total(replies)

\* What is sent and what is left make up the whole.
Sending ==
  pc = "send" => /\ Total(sent) + count = size
                 /\ \A pos \in DOMAIN sent : sent[pos].status = "MULTI" /\ sent[pos].len > 0

\* With at most two messages, msg_len is where the next one starts.
InPlace ==
  /\ ChunksInOrder
  /\ pc = "send" => \/ sent = <<>> /\ msg_len = 0
                    \/ Len(sent) = 1 /\ msg_len = MAX_DATASIZE /\ Total(sent) = MAX_DATASIZE

HidInv == /\ HidType /\ Going /\ FaultsReported /\ Sending /\ AllSent
          /\ size <= 2 * MAX_DATASIZE => InPlace

LEMMA NothingSent ==
  ASSUME sent = <<>>, replies = <<>>
  PROVE  /\ sent \in Seq(Outgoing) /\ replies \in Seq(Incoming)
         /\ Total(sent) = 0 /\ Total(replies) = 0 /\ DOMAIN sent = {} /\ ChunksInOrder
<1>1. sent \in Seq(Outgoing) /\ replies \in Seq(Incoming) /\ DOMAIN sent = {}
  OBVIOUS
<1> QED BY <1>1, NoBytes DEF ChunksInOrder

LEMMA HidStart == Init => HidInv
<1> SUFFICES ASSUME Init PROVE HidInv
  OBVIOUS
<1>1. sent = <<>> /\ replies = <<>> /\ pc = "idle" /\ size = 0 /\ rcv_size = 0
  BY DEF Init
<1>2. HidType
  BY <1>1, NothingSent DEF Init, HidType
<1> QED
  BY <1>1, <1>2, NothingSent
     DEF Init, HidInv, Going, FaultsReported, Sending, AllSent, InPlace

LEMMA CallStarts ==
  ASSUME HidInv, NEW n \in Sizes, NEW m \in RcvSizes, send_data(n, m)
  PROVE  HidInv'
<1>1. /\ n \in Nat /\ m \in Nat
      /\ size' = n /\ rcv_size' = m /\ count' = n /\ msg_len' = 0 /\ got' = 0
      /\ sent' = <<>> /\ replies' = <<>> /\ faults' = 0 /\ ret' = 0
      /\ pc' = IF n > 0 THEN "send" ELSE IF m > 0 THEN "receive" ELSE "idle"
  BY HidAssumption DEF send_data, return
<1>2. /\ <<>> \in Seq(Outgoing) /\ <<>> \in Seq(Incoming) /\ Total(<<>>) = 0 /\ DOMAIN <<>> = {}
  BY NoBytes
<1>3. HidType'
  BY <1>1, <1>2 DEF HidType
<1>4. Going' /\ FaultsReported'
  BY <1>1, <1>2 DEF Going, FaultsReported
<1>5. Sending' /\ AllSent'
  BY <1>1, <1>2 DEF Sending, AllSent
<1>6. InPlace'
  BY <1>1, <1>2 DEF InPlace, ChunksInOrder
<1> QED BY <1>3, <1>4, <1>5, <1>6 DEF HidInv

LEMMA MessageSent == ASSUME HidInv, send_msg PROVE HidInv'
<1> DEFINE top == Len(sent)
<1>1. /\ pc = "send" /\ HidType /\ Sending /\ Going /\ count > 0 /\ faults = 0 /\ ret >= 0
      /\ sent \in Seq(Outgoing) /\ top \in Nat /\ count \in Nat /\ size \in Nat /\ msg_len \in Nat
      /\ UNCHANGED <<size, rcv_size, replies, got, faults>>
      /\ count' = count - ChunkLen /\ msg_len' = ChunkLen
      /\ rcv_size \in Nat /\ got \in Nat /\ ret \in Int
  BY DEF send_msg, HidInv, HidType, Going, NextStart
<1>2. /\ ChunkLen \in Nat /\ ChunkLen > 0 /\ ChunkLen <= count /\ ChunkLen <= 30
      /\ FitsInOne <=> count' = 0
      /\ ~FitsInOne => ChunkLen = 30
  BY <1>1 DEF ChunkLen, FitsInOne, MAX_DATASIZE
<1>3. PICK check \in Checks : sent' = Append(sent, Message(check))
  BY DEF send_msg
<1> DEFINE e == Message(check)
<1>4. /\ e \in Outgoing /\ e.len = ChunkLen /\ e.off = msg_len
      /\ e.status = IF FitsInOne THEN "SINGLE" ELSE "MULTI"
  BY <1>1, <1>2 DEF Message, Outgoing, Checks
<1> HIDE DEF e
<1>5. /\ sent' \in Seq(Outgoing) /\ Len(sent') = top + 1 /\ sent'[top + 1] = e
      /\ \A pos \in 1 .. top : sent'[pos] = sent[pos]
  BY <1>1, <1>3, <1>4, AppendProperties DEF e
<1>6. /\ \A pos \in 0 .. top : Bytes(sent')[pos] = Bytes(sent)[pos]
      /\ Total(sent') = Total(sent) + ChunkLen /\ Total(sent) \in Nat
  <2>1. \A x \in Outgoing : x.len \in Nat
    BY DEF Outgoing
  <2> QED BY <1>1, <1>3, <1>4, <2>1, BytesAppend DEF e
<1>7. /\ pc' \in {"idle", "send", "receive"} /\ (pc' = "send" <=> count' > 0)
      /\ pc' = "receive" => ret' = ret
      /\ pc' = "send" => ret' = ret
      /\ pc' = "idle" => ret' = ChunkLen /\ rcv_size = 0
  BY <1>1 DEF send_msg, return
<1>8. HidType'
  BY <1>1, <1>2, <1>5, <1>7 DEF HidType
<1>9. Going' /\ FaultsReported'
  <2>1. Total(replies) = 0 /\ replies' = replies /\ replies = <<>> /\ got' = 0
    BY <1>1, NoBytes DEF Going
  <2> QED BY <1>1, <1>2, <1>7, <2>1 DEF Going, FaultsReported
<1>10. Total(sent') + count' = size'
  BY <1>1, <1>2, <1>6 DEF Sending
<1>11. /\ \A pos \in 1 .. top : sent'[pos].status = "MULTI" /\ sent'[pos].len > 0
       /\ sent'[top + 1].status = (IF FitsInOne THEN "SINGLE" ELSE "MULTI")
       /\ sent'[top + 1].len > 0
       /\ DOMAIN sent' = 1 .. top + 1 /\ DOMAIN sent = 1 .. top
  BY <1>1, <1>2, <1>4, <1>5 DEF Sending
<1>12. Sending' /\ AllSent'
  <2>1. CASE FitsInOne
    <3>1. pc' # "send" /\ Total(sent') = size'
      BY <1>1, <1>2, <1>6, <1>7, <1>10, <2>1
    <3>2. ASSUME NEW pos \in 1 .. top + 1
          PROVE  (sent'[pos].status = "SINGLE") = (pos = top + 1) /\ sent'[pos].len > 0
      <4>1. pos \in 1 .. top \/ pos = top + 1
        BY <1>1
      <4> QED BY <1>1, <1>11, <2>1, <4>1
    <3> QED BY <1>5, <1>11, <3>1, <3>2 DEF Sending, AllSent
  <2>2. CASE ~FitsInOne
    <3>1. pc' = "send"
      BY <1>1, <1>2, <1>7, <2>2
    <3>2. ASSUME NEW pos \in 1 .. top + 1 PROVE sent'[pos].status = "MULTI" /\ sent'[pos].len > 0
      <4>1. pos \in 1 .. top \/ pos = top + 1
        BY <1>1
      <4> QED BY <1>11, <2>2, <4>1
    <3> QED BY <1>10, <1>11, <3>1, <3>2 DEF Sending, AllSent
  <2> QED BY <2>1, <2>2
<1>13. ASSUME size <= 2 * MAX_DATASIZE PROVE InPlace'
  <2>1. ChunksInOrder /\ msg_len = Total(sent)
    BY <1>1, <1>13, NoBytes DEF HidInv, InPlace
  <2>2. ChunksInOrder'
    <3>1. ASSUME NEW pos \in 1 .. top + 1 PROVE sent'[pos].off = Bytes(sent')[pos - 1]
      <4>1. CASE pos \in 1 .. top
        <5>1. pos - 1 \in 0 .. top /\ sent[pos].off = Bytes(sent)[pos - 1]
          BY <1>1, <1>11, <2>1, <4>1 DEF ChunksInOrder
        <5> QED BY <1>5, <1>6, <4>1, <5>1
      <4>2. CASE pos = top + 1
        <5>1. pos - 1 = top /\ top \in 0 .. top
          BY <1>1, <4>2
        <5> QED BY <1>4, <1>5, <1>6, <2>1, <4>2, <5>1 DEF Total
      <4> QED BY <1>1, <4>1, <4>2
    <3> QED BY <1>11, <3>1 DEF ChunksInOrder
  <2>3. ASSUME pc' = "send" PROVE Len(sent') = 1 /\ msg_len' = 30 /\ Total(sent') = 30
    <3>1. ChunkLen = 30 /\ count > 30
      BY <1>1, <1>2, <1>7, <2>3
    <3>2. top = 0
      BY <1>1, <1>13, <3>1 DEF HidInv, InPlace, Sending, MAX_DATASIZE
    <3>3. Total(sent) = 0
      BY <1>1, <3>2, NoBytes
    <3> QED BY <1>1, <1>5, <1>6, <3>1, <3>2, <3>3
  <2> QED BY <2>2, <2>3 DEF InPlace, MAX_DATASIZE
<1> QED BY <1>1, <1>8, <1>9, <1>12, <1>13 DEF HidInv

LEMMA CallEndsEarly ==
  ASSUME HidInv, \/ send_msg_fails \/ rcv_msg_fails \/ send_msg_killed
                 \/ \E n \in ReplyLens : rcv_msg_overruns(n)
  PROVE  HidInv'
<1>1. /\ UNCHANGED <<size, rcv_size, count, msg_len, sent, replies, got>>
      /\ \/ pc' = "idle" /\ ret' = -1 /\ faults' = faults + 1
         \/ pc' = "killed" /\ ret' = ret /\ faults' \in {faults, faults + 1}
  BY DEF send_msg_fails, rcv_msg_fails, send_msg_killed, rcv_msg_overruns, return
<1>2. HidType' /\ faults \in Nat
  BY <1>1 DEF HidInv, HidType
<1>3. Going' /\ FaultsReported'
  BY <1>1, <1>2 DEF Going, FaultsReported
<1>4. Sending' /\ AllSent'
  BY <1>1 DEF Sending, AllSent
<1>5. ASSUME size <= 2 * MAX_DATASIZE PROVE InPlace'
  BY <1>1, <1>5 DEF HidInv, InPlace, ChunksInOrder
<1> QED BY <1>1, <1>2, <1>3, <1>4, <1>5 DEF HidInv

LEMMA StartedAgain == ASSUME HidInv, main PROVE HidInv'
<1>1. /\ size' = 0 /\ rcv_size' = 0 /\ count' = 0 /\ msg_len' = 0 /\ got' = 0
      /\ sent' = <<>> /\ replies' = <<>> /\ faults' = 0 /\ ret' = 0 /\ pc' = "idle"
  BY DEF main
<1>2. /\ <<>> \in Seq(Outgoing) /\ <<>> \in Seq(Incoming) /\ Total(<<>>) = 0 /\ DOMAIN <<>> = {}
  BY NoBytes
<1>3. HidType'
  BY <1>1, <1>2 DEF HidType
<1>4. Going' /\ FaultsReported'
  BY <1>1, <1>2 DEF Going, FaultsReported
<1>5. Sending' /\ AllSent'
  BY <1>1, <1>2 DEF Sending, AllSent
<1>6. InPlace'
  BY <1>1, <1>2 DEF InPlace, ChunksInOrder
<1> QED BY <1>3, <1>4, <1>5, <1>6 DEF HidInv

LEMMA AnswerComes ==
  ASSUME HidInv, NEW status \in {"SINGLE", "MULTI"}, NEW n \in ReplyLens, rcv_msg(status, n)
  PROVE  HidInv'
<1> DEFINE e == [status |-> status, len |-> n]
<1>1. /\ pc = "receive" /\ n \in Nat /\ got \in Nat /\ got = Total(replies)
      /\ faults = 0 /\ ret >= 0
      /\ replies \in Seq(Incoming) /\ e \in Incoming
      /\ UNCHANGED <<size, rcv_size, count, msg_len, sent, faults>>
      /\ replies' = Append(replies, e) /\ got' = got + n
  BY HidAssumption DEF rcv_msg, HidInv, HidType, Going, Incoming
<1>2. IF status = "MULTI" THEN pc' = "receive" /\ ret' = ret ELSE pc' = "idle" /\ ret' = got'
  BY <1>1 DEF rcv_msg, return
<1>3. /\ replies' \in Seq(Incoming) /\ Len(replies') = Len(replies) + 1 /\ Len(replies) \in Nat
      /\ replies'[Len(replies) + 1] = e /\ e.status = status /\ e.len = n
  BY <1>1, AppendProperties
<1>4. Total(replies') = got'
  <2>1. \A x \in Incoming : x.len \in Nat
    BY DEF Incoming
  <2> HIDE DEF e
  <2> QED BY <1>1, <1>3, <2>1, BytesAppend
<1> HIDE DEF e
<1>5. HidType'
  BY <1>1, <1>2, <1>3 DEF HidInv, HidType
<1>6. Going' /\ FaultsReported'
  <2>1. CASE status = "MULTI"
    BY <1>1, <1>2, <1>4, <2>1 DEF Going, FaultsReported
  <2>2. CASE status = "SINGLE"
    <3>1. pc' = "idle" /\ ret' = Total(replies') /\ ret' >= 0 /\ faults' = 0
      BY <1>1, <1>2, <1>4, <2>2
    <3>2. replies' # <<>> /\ Last(replies').status = "SINGLE"
      BY <1>3, <2>2 DEF Last
    <3> QED BY <3>1, <3>2 DEF Going, FaultsReported
  <2> QED BY <2>1, <2>2
<1>7. Sending' /\ AllSent'
  BY <1>1, <1>2 DEF HidInv, Sending, AllSent
<1>8. ASSUME size <= 2 * MAX_DATASIZE PROVE InPlace'
  BY <1>1, <1>2, <1>8 DEF HidInv, InPlace, ChunksInOrder
<1> QED BY <1>1, <1>5, <1>6, <1>7, <1>8 DEF HidInv

LEMMA HidStep == HidInv /\ [Next]_vars => HidInv'
<1> SUFFICES ASSUME HidInv, [Next]_vars PROVE HidInv'
  OBVIOUS
<1>1. ASSUME NEW n \in Sizes, NEW m \in RcvSizes, send_data(n, m) PROVE HidInv'
  BY <1>1, CallStarts
<1>2. CASE send_msg
  BY <1>2, MessageSent
<1>3. CASE \/ send_msg_fails \/ rcv_msg_fails \/ send_msg_killed
           \/ \E n \in ReplyLens : rcv_msg_overruns(n)
  BY <1>3, CallEndsEarly
<1>4. ASSUME NEW status \in {"SINGLE", "MULTI"}, NEW n \in ReplyLens, rcv_msg(status, n)
      PROVE  HidInv'
  BY <1>4, AnswerComes
<1>5. CASE main
  BY <1>5, StartedAgain
<1>6. CASE UNCHANGED vars
  BY <1>6 DEF vars, HidInv, HidType, Going, FaultsReported, Sending, AllSent, InPlace, ChunksInOrder
<1> QED BY <1>1, <1>2, <1>3, <1>4, <1>5, <1>6 DEF Next, Step

LEMMA HidAlways == Spec => []HidInv
BY HidStart, HidStep, PTL DEF Spec

\* A call that returns gives -1 just when something failed, and an answer that it
\* returns is whole, whatever the lengths of messages and buffers.
THEOREM FaultsAreReported == Spec => []FaultsReported
<1>1. HidInv => FaultsReported
  BY DEF HidInv
<1> QED BY <1>1, HidAlways, PTL

\* Every byte's worth is sent, in messages that end with a SINGLE, for buffers of
\* any length, those too of which the wrong bytes are sent.
THEOREM LengthsAddUp == Spec => []AllSent
<1>1. HidInv => AllSent
  BY DEF HidInv
<1> QED BY <1>1, HidAlways, PTL

\* Of a buffer that takes at most two messages the card gets the bytes, in order
\* and whole.  The bound is sharp: 61 bytes are sent wrong.
THEOREM TwoMessagesSentWhole == Spec => [](size <= 2 * MAX_DATASIZE => SentWhole)
<1>1. HidInv => (size <= 2 * MAX_DATASIZE => SentWhole)
  BY DEF HidInv, InPlace, SentWhole
<1> QED BY <1>1, HidAlways, PTL

-----------------------------------------------------------------------------
(* Bits.  A bit is in one word, at one place of it.                        *)

MapBits == 0 .. max_bit

MapInv == arr \in [0 .. Words_ - 1 -> SUBSET (0 .. WordBits - 1)]

LEMMA WordAndPlace ==
  ASSUME NEW b \in Int, b \in MapBits
  PROVE  /\ b \div WordBits \in 0 .. Words_ - 1 /\ b % WordBits \in 0 .. WordBits - 1
         /\ b = WordBits * (b \div WordBits) + (b % WordBits)
<1>1. /\ WordBits \in Nat /\ WordBits > 0 /\ Words_ \in Nat
      /\ b \in Nat /\ b <= WordBits * Words_ - 1
  <2>1. WordBits * Words_ \in Nat
    BY BitsAssumption
  <2> QED BY <2>1, BitsAssumption DEF MapBits, max_bit
<1>2. /\ b = WordBits * (b \div WordBits) + (b % WordBits)
      /\ b % WordBits \in 0 .. WordBits - 1 /\ b \div WordBits \in Nat
  BY <1>1, QuotientAndRest
<1>3. b % WordBits \in 0 .. WordBits - 1
  BY <1>2
<1>4. b \div WordBits \in Nat
  BY <1>2
<1>5. b \div WordBits < Words_
  <2> DEFINE q == b \div WordBits
  <2> SUFFICES ASSUME q >= Words_ PROVE FALSE
    BY <1>1, <1>4
  <2>1. WordBits * (q - Words_) >= 0
    BY <1>1, <1>4
  <2>2. WordBits * (q - Words_) = WordBits * q - WordBits * Words_
    BY <1>1, <1>4
  <2>3. WordBits * q <= b
    BY <1>1, <1>2, <1>3, <1>4
  <2>4. WordBits * q \in Int /\ WordBits * Words_ \in Int
    BY <1>1, <1>4
  <2> HIDE DEF q
  <2> QED BY <1>1, <2>1, <2>2, <2>3, <2>4
<1> QED BY <1>1, <1>2, <1>3, <1>4, <1>5

LEMMA MapType == max_bit \in Nat /\ MapBits \subseteq Int
<1>1. WordBits * Words_ \in Nat /\ WordBits * Words_ # 0
  BY BitsAssumption
<1> QED BY <1>1 DEF max_bit, MapBits

LEMMA SetsOneBit ==
  ASSUME MapInv, NEW b \in Int, b \in MapBits, arr' = set_bit(b)
  PROVE  MapInv' /\ bits_dump' = bits_dump \cup {b}
<1> DEFINE w == b \div WordBits
           pos == b % WordBits
<1>1. w \in 0 .. Words_ - 1 /\ pos \in 0 .. WordBits - 1
  BY WordAndPlace
<1>2. arr' = [arr EXCEPT ![w] = arr[w] \cup {pos}]
  BY DEF set_bit
<1>3. MapInv'
  <2> HIDE DEF w, pos
  <2> QED BY <1>1, <1>2 DEF MapInv
<1>4. ASSUME NEW c \in MapBits
      PROVE  c % WordBits \in arr'[c \div WordBits]
               <=> c = b \/ c % WordBits \in arr[c \div WordBits]
  <2>0. c \in Int
    BY MapType
  <2>1. c \div WordBits \in 0 .. Words_ - 1
    BY <2>0, WordAndPlace
  <2>2. c = b <=> c \div WordBits = w /\ c % WordBits = pos
    BY <2>0, WordAndPlace
  <2> HIDE DEF w, pos
  <2>3. CASE c \div WordBits = w
    <3>1. arr'[c \div WordBits] = arr[c \div WordBits] \cup {pos}
      BY <1>1, <1>2, <2>3 DEF MapInv
    <3> QED BY <2>2, <2>3, <3>1
  <2>4. CASE c \div WordBits # w
    <3>1. arr'[c \div WordBits] = arr[c \div WordBits]
      BY <1>1, <1>2, <2>1, <2>4 DEF MapInv
    <3> QED BY <2>2, <2>4, <3>1
  <2> QED BY <2>3, <2>4
<1>5. bits_dump' = {c \in MapBits : c % WordBits \in arr'[c \div WordBits]}
  BY DEF bits_dump, check_bit, MapBits, max_bit
<1>6. bits_dump = {c \in MapBits : c % WordBits \in arr[c \div WordBits]}
  BY DEF bits_dump, check_bit, MapBits
<1> QED BY <1>3, <1>4, <1>5, <1>6

LEMMA ClearsOneBit ==
  ASSUME MapInv, NEW b \in Int, b \in MapBits, arr' = clear_bit(b)
  PROVE  MapInv' /\ bits_dump' = bits_dump \ {b}
<1> DEFINE w == b \div WordBits
           pos == b % WordBits
<1>1. w \in 0 .. Words_ - 1 /\ pos \in 0 .. WordBits - 1
  BY WordAndPlace
<1>2. arr' = [arr EXCEPT ![w] = arr[w] \ {pos}]
  BY DEF clear_bit
<1>3. MapInv'
  <2> HIDE DEF w, pos
  <2> QED BY <1>1, <1>2 DEF MapInv
<1>4. ASSUME NEW c \in MapBits
      PROVE  c % WordBits \in arr'[c \div WordBits]
               <=> c # b /\ c % WordBits \in arr[c \div WordBits]
  <2>0. c \in Int
    BY MapType
  <2>1. c \div WordBits \in 0 .. Words_ - 1
    BY <2>0, WordAndPlace
  <2>2. c = b <=> c \div WordBits = w /\ c % WordBits = pos
    BY <2>0, WordAndPlace
  <2> HIDE DEF w, pos
  <2>3. CASE c \div WordBits = w
    <3>1. arr'[c \div WordBits] = arr[c \div WordBits] \ {pos}
      BY <1>1, <1>2, <2>3 DEF MapInv
    <3> QED BY <2>2, <2>3, <3>1
  <2>4. CASE c \div WordBits # w
    <3>1. arr'[c \div WordBits] = arr[c \div WordBits]
      BY <1>1, <1>2, <2>1, <2>4 DEF MapInv
    <3> QED BY <2>2, <2>4, <3>1
  <2> QED BY <2>3, <2>4
<1>5. bits_dump' = {c \in MapBits : c % WordBits \in arr'[c \div WordBits]}
  BY DEF bits_dump, check_bit, MapBits, max_bit
<1>6. bits_dump = {c \in MapBits : c % WordBits \in arr[c \div WordBits]}
  BY DEF bits_dump, check_bit, MapBits
<1> QED BY <1>3, <1>4, <1>5, <1>6

\* What the argument asks for, and how far the loops are.
WholeRange == IF range[2] > range[1] THEN range[1] .. range[2] ELSE {range[1]}

Turning == bit \in Int /\ bit >= range[1] /\ (bit = range[1] \/ bit <= range[2])

\* What the loops are made for: it begins in the map, and does not end past it.
Asked == range[1] \in MapBits /\ range[2] \in Int /\ range[2] <= max_bit

BitsInv ==
  /\ MapInv
  /\ bits \in {"start", "set", "shown", "clear", "done", "refused", "lost"}
  /\ bits = "start" => bits_dump = {}
  /\ bits \in {"shown", "clear", "done"} => Asked
  /\ bits = "set" => \/ Asked /\ Turning /\ bits_dump = range[1] .. bit - 1
                     \/ bit \in Int /\ bit < 0
  /\ bits = "shown" => bits_dump = WholeRange
  /\ bits = "clear" => Turning
  /\ bits \in {"clear", "done"} =>
       bit \in Int /\ shown = WholeRange /\ bits_dump = shown \ (range[1] .. bit - 1)

\* An empty map.
LEMMA NothingSet ==
  ASSUME arr = [w \in 0 .. Words_ - 1 |-> {}]
  PROVE  MapInv /\ bits_dump = {}
<1>1. MapInv
  BY DEF MapInv
<1>2. ASSUME NEW b \in MapBits PROVE ~check_bit(b)
  <2>1. b \div WordBits \in 0 .. Words_ - 1
    BY MapType, WordAndPlace
  <2> QED BY <2>1 DEF check_bit
<1> QED BY <1>1, <1>2 DEF bits_dump, MapBits

LEMMA BitsStart == BitsInit => BitsInv
BY NothingSet DEF BitsInit, BitsInv

\* A turn of a loop is made for a bit of the map, and goes on to the range's end.
LEMMA TurnOf ==
  ASSUME BitsInv, (bits = "set" /\ bit >= 0) \/ bits = "clear"
  PROVE  /\ bit \in Int /\ bit \in MapBits /\ range[1] \in Int /\ range[2] \in Int
         /\ range[1] .. (bit + 1) - 1 = (range[1] .. bit - 1) \cup {bit}
         /\ bit + 1 <= range[2] => bit + 1 >= range[1]
         /\ ~(bit + 1 <= range[2]) => range[1] .. (bit + 1) - 1 = WholeRange
<1>1. Asked /\ Turning
  <2>1. CASE bits = "set" /\ bit >= 0
    <3>1. bit \in Int /\ bit < 0 => FALSE
      BY <2>1
    <3> QED BY <2>1, <3>1 DEF BitsInv
  <2>2. CASE bits = "clear"
    BY <2>2 DEF BitsInv
  <2> QED BY <2>1, <2>2
<1>2. /\ range[1] \in 0 .. max_bit /\ range[2] \in Int /\ range[2] <= max_bit
      /\ max_bit \in Nat
  BY <1>1, MapType DEF MapBits, Asked
<1>3. bit \in Int /\ bit >= range[1] /\ (bit = range[1] \/ bit <= range[2])
  BY <1>1 DEF Turning
<1>4. bit \in 0 .. max_bit
  BY <1>2, <1>3
<1>5. range[1] .. (bit + 1) - 1 = (range[1] .. bit - 1) \cup {bit}
  BY <1>2, <1>3
<1>6. ASSUME ~(bit + 1 <= range[2]) PROVE range[1] .. (bit + 1) - 1 = WholeRange
  <2>1. CASE range[2] > range[1]
    <3>1. bit = range[2]
      BY <1>2, <1>3, <1>6, <2>1
    <3> QED BY <1>2, <2>1, <3>1 DEF WholeRange
  <2>2. CASE ~(range[2] > range[1])
    <3>1. bit = range[1]
      BY <1>2, <1>3, <2>2
    <3> QED BY <1>2, <2>2, <3>1 DEF WholeRange
  <2> QED BY <2>1, <2>2
<1> QED BY <1>2, <1>3, <1>4, <1>5, <1>6 DEF MapBits

LEMMA MainStarts ==
  ASSUME BitsInv, NEW first \in -Below .. max_bit + 1, NEW second \in -Below .. max_bit + 1,
         bits_main(first, second)
  PROVE  BitsInv'
<1>1. /\ range' = <<first, second>> /\ bit' = first /\ arr' = arr /\ bits = "start"
      /\ bits' = IF first = -1 \/ first > max_bit \/ second > max_bit THEN "refused" ELSE "set"
  BY DEF bits_main
<1>2. MapInv' /\ bits_dump' = bits_dump /\ bits_dump = {}
  BY <1>1 DEF BitsInv, MapInv, bits_dump, check_bit, max_bit
<1>3. MapBits' = MapBits /\ max_bit' = max_bit
  BY DEF MapBits, max_bit
<1>4. CASE bits' = "refused"
  BY <1>2, <1>4 DEF BitsInv
<1>5. CASE bits' = "set"
  <2>1. first \in Int /\ second \in Int /\ first <= max_bit /\ second <= max_bit
    BY <1>1, <1>5, MapType, BitsAssumption
  <2>2. range'[1] = first /\ range'[2] = second
    BY <1>1
  <2>3. CASE first < 0
    BY <1>1, <1>2, <1>5, <2>1, <2>3 DEF BitsInv
  <2>4. CASE first >= 0
    <3>1. Asked'
      <4>1. first \in MapBits
        BY <2>1, <2>4, MapType DEF MapBits
      <4> QED BY <1>3, <2>1, <2>2, <4>1 DEF Asked
    <3>2. Turning' /\ range'[1] .. bit' - 1 = {}
      BY <1>1, <2>1, <2>2 DEF Turning
    <3> QED BY <1>2, <1>5, <3>1, <3>2 DEF BitsInv
  <2> QED BY <2>1, <2>3, <2>4
<1> QED BY <1>1, <1>4, <1>5

LEMMA TurnSets == ASSUME BitsInv, set_bit_range PROVE BitsInv'
<1>1. /\ bits = "set" /\ bit >= 0
      /\ arr' = set_bit(bit) /\ bit' = bit + 1 /\ range' = range
      /\ bits' = IF bit' <= range[2] THEN "set" ELSE "shown"
  BY DEF set_bit_range
<1>2. MapInv' /\ bits_dump' = bits_dump \cup {bit}
  BY <1>1, TurnOf, SetsOneBit DEF BitsInv
<1>3. bits_dump' = range'[1] .. bit' - 1
  BY <1>1, <1>2, TurnOf DEF BitsInv
<1>4. Asked' = Asked /\ WholeRange' = WholeRange
  BY <1>1 DEF MapBits, max_bit, WholeRange, Asked
<1>5. CASE bit + 1 <= range[2]
  <2>1. Turning'
    BY <1>1, <1>5, TurnOf DEF Turning
  <2> QED BY <1>1, <1>2, <1>3, <1>4, <1>5, <2>1 DEF BitsInv
<1>6. CASE ~(bit + 1 <= range[2])
  <2>1. bits_dump' = WholeRange'
    BY <1>1, <1>3, <1>4, <1>6, TurnOf
  <2> QED BY <1>1, <1>2, <1>4, <1>6, <2>1 DEF BitsInv
<1> QED BY <1>5, <1>6

LEMMA TurnBefore == ASSUME BitsInv, set_bit_before PROVE BitsInv'
BY DEF set_bit_before, BitsInv, MapInv, bits_dump, check_bit, max_bit

LEMMA TurnShows == ASSUME BitsInv, show PROVE BitsInv'
<1>1. /\ bits = "shown" /\ shown' = bits_dump /\ bit' = range[1] /\ bits' = "clear"
      /\ arr' = arr /\ range' = range
  BY DEF show
<1>2. MapInv' /\ bits_dump' = bits_dump /\ Asked' = Asked /\ WholeRange' = WholeRange
  BY <1>1 DEF BitsInv, MapInv, bits_dump, check_bit, max_bit, MapBits, WholeRange, Asked
<1>3. range[1] \in Int /\ Asked
  BY <1>1, MapType DEF BitsInv, Asked
<1>4. Turning' /\ range'[1] .. bit' - 1 = {}
  BY <1>1, <1>3 DEF Turning
<1> QED BY <1>1, <1>2, <1>3, <1>4 DEF BitsInv

LEMMA TurnClears == ASSUME BitsInv, clear_bit_range PROVE BitsInv'
<1>1. /\ bits = "clear" /\ arr' = clear_bit(bit) /\ bit' = bit + 1 /\ range' = range
      /\ shown' = shown /\ bits' = IF bit' <= range[2] THEN "clear" ELSE "done"
  BY DEF clear_bit_range
<1>2. MapInv' /\ bits_dump' = bits_dump \ {bit}
  BY <1>1, TurnOf, ClearsOneBit DEF BitsInv
<1>3. bits_dump' = shown' \ (range'[1] .. bit' - 1)
  BY <1>1, <1>2, TurnOf DEF BitsInv
<1>4. Asked' = Asked /\ WholeRange' = WholeRange
  BY <1>1 DEF MapBits, max_bit, WholeRange, Asked
<1>5. bit' \in Int
  BY <1>1, TurnOf
<1>6. bit + 1 <= range[2] => Turning'
  BY <1>1, TurnOf DEF Turning
<1> QED BY <1>1, <1>2, <1>3, <1>4, <1>5, <1>6 DEF BitsInv

LEMMA BitsStep == BitsInv /\ [BitsNext]_bitsVars => BitsInv'
<1> SUFFICES ASSUME BitsInv, [BitsNext]_bitsVars PROVE BitsInv'
  OBVIOUS
<1>1. ASSUME NEW first \in -Below .. max_bit + 1, NEW second \in -Below .. max_bit + 1,
             bits_main(first, second)
      PROVE  BitsInv'
  BY <1>1, MainStarts
<1>2. CASE set_bit_range
  BY <1>2, TurnSets
<1>3. CASE show
  BY <1>3, TurnShows
<1>7. CASE set_bit_before
  BY <1>7, TurnBefore
<1>4. CASE clear_bit_range
  BY <1>4, TurnClears
<1>5. CASE bits_exit
  <2>1. arr' = [w \in 0 .. Words_ - 1 |-> {}] /\ bits' = "start"
    BY <1>5 DEF bits_exit
  <2>2. MapInv'
    BY <2>1 DEF MapInv
  <2>3. bits_dump' = {}
    <3>1. ASSUME NEW b \in MapBits PROVE ~(b % WordBits \in arr'[b \div WordBits])
      <4>1. b \div WordBits \in 0 .. Words_ - 1
        BY MapType, WordAndPlace
      <4> QED BY <2>1, <4>1
    <3> QED BY <3>1 DEF bits_dump, check_bit, MapBits, max_bit
  <2> QED BY <2>1, <2>2, <2>3 DEF BitsInv
<1>6. CASE UNCHANGED bitsVars
  BY <1>6 DEF bitsVars, BitsInv, MapInv, bits_dump, check_bit, MapBits, max_bit, WholeRange, Turning, Asked
<1> QED BY <1>1, <1>2, <1>3, <1>4, <1>5, <1>6, <1>7 DEF BitsNext

\* In words of any size and bitmaps of any length, and of every argument whose
\* first number does not come out below 0: the bits from the first to the second
\* are what is shown, or the first alone if the second is not above it, and
\* clearing takes them away bit by bit (bit.c:50-65).
THEOREM RangesSetAndCleared == BitsSpec => []RangeSetThenCleared
<1>1. BitsSpec => []BitsInv
  BY BitsStart, BitsStep, PTL DEF BitsSpec
<1>2. BitsInv => RangeSetThenCleared
  BY DEF BitsInv, RangeSetThenCleared, WholeRange
<1> QED BY <1>1, <1>2, PTL

-----------------------------------------------------------------------------
(* Bcd.  There and back.                                                   *)

LEMMA BcdPowers ==
  /\ \A n \in 0 .. W : /\ Power(10, W)[n] \in Nat /\ Power(10, W)[n] > 0
                       /\ Power(16, W)[n] \in Nat /\ Power(16, W)[n] > 0
  /\ \A n \in 0 .. W - 1 : /\ Power(10, W)[n + 1] = 10 * Power(10, W)[n]
                           /\ Power(16, W)[n + 1] = 16 * Power(16, W)[n]
  /\ Power(10, W)[0] = 1 /\ Power(16, W)[0] = 1
<1>1. W \in Nat
  BY BcdAssumption
<1> QED BY <1>1, TwoPowers

\* The n-th decimal digit of g, and the lowest n of them, four bits each.
Digit(g, n) == (g \div Power(10, W)[n]) % 10
IsPacked(h, g) ==
  /\ h \in [0 .. W -> Nat] /\ h[0] = 0
  /\ \A n \in 0 .. W - 1 : h[n + 1] = h[n] + Digit(g, n) * Power(16, W)[n]

LEMMA DigitBounds ==
  ASSUME NEW g \in Nat
  PROVE  \A n \in 0 .. W : Digit(g, n) \in 0 .. 9 /\ g \div Power(10, W)[n] \in Nat
<1> SUFFICES ASSUME NEW n \in 0 .. W
             PROVE  Digit(g, n) \in 0 .. 9 /\ g \div Power(10, W)[n] \in Nat
  OBVIOUS
<1>1. Power(10, W)[n] \in Nat /\ Power(10, W)[n] > 0
  BY BcdPowers
<1> DEFINE q == g \div Power(10, W)[n]
<1>2. q \in Nat
  BY <1>1, QuotientAndRest
<1> HIDE DEF q
<1>3. q % 10 \in 0 .. 9
  BY <1>2
<1> QED BY <1>2, <1>3 DEF q, Digit

LEMMA Packing ==
  ASSUME NEW g \in Nat
  PROVE  \E h : IsPacked(h, g)
<1> DEFINE more(n) == IF n \in 0 .. W - 1 THEN Digit(g, n) * Power(16, W)[n] ELSE 0
           s == [n \in Nat |-> [x \in Nat |-> x + more(n)]]
<1>0. W \in Nat
  BY BcdAssumption
<1>1. \A n \in Nat : more(n) \in Nat
  <2> SUFFICES ASSUME NEW n \in Nat, n \in 0 .. W - 1
               PROVE  Digit(g, n) * Power(16, W)[n] \in Nat
    OBVIOUS
  <2>1. n \in 0 .. W
    BY <1>0
  <2>2. Power(16, W)[n] \in Nat
    BY <2>1, BcdPowers
  <2>3. Digit(g, n) \in 0 .. 9
    BY <2>1, DigitBounds
  <2> HIDE DEF more
  <2> QED BY <2>2, <2>3
<1>2. s \in [Nat -> [Nat -> Nat]]
  <2> HIDE DEF more
  <2> QED BY <1>1
<1>3. PICK f : Iterates(f, Nat, 0, s)
  <2> HIDE DEF s
  <2>1. 0 \in Nat
    OBVIOUS
  <2> QED BY <1>2, <2>1, Iteration
<1>4. f \in [Nat -> Nat] /\ f[0] = 0 /\ \A n \in Nat : f[n + 1] = s[n][f[n]]
  <2> HIDE DEF s
  <2> QED BY <1>3 DEF Iterates
<1> DEFINE h == [n \in 0 .. W |-> f[n]]
<1>5. h \in [0 .. W -> Nat] /\ h[0] = 0
  <2> HIDE DEF s, more
  <2>1. 0 \in 0 .. W
    BY <1>0
  <2> QED BY <1>0, <1>4, <2>1
<1>6. ASSUME NEW n \in 0 .. W - 1 PROVE h[n + 1] = h[n] + Digit(g, n) * Power(16, W)[n]
  <2>1. n \in 0 .. W /\ n + 1 \in 0 .. W /\ n \in Nat
    BY <1>0
  <2>2. f[n + 1] = f[n] + more(n)
    <3> HIDE DEF more
    <3> QED BY <1>4, <2>1
  <2>3. more(n) = Digit(g, n) * Power(16, W)[n]
    OBVIOUS
  <2> HIDE DEF more, s
  <2> QED BY <2>1, <2>2, <2>3
<1>7. IsPacked(h, g)
  <2> HIDE DEF h, s, more
  <2> QED BY <1>5, <1>6 DEF IsPacked
<1> QED BY <1>7

\* n digits of four bits have room in 4 * n bits.
LEMMA PackedBelow ==
  ASSUME NEW g \in Nat, NEW h, IsPacked(h, g)
  PROVE  \A n \in 0 .. W : h[n] \in Nat /\ h[n] < Power(16, W)[n]
<1> DEFINE T == {k \in Nat : k <= W => h[k] < Power(16, W)[k]}
<1>0. W \in Nat /\ h \in [0 .. W -> Nat] /\ h[0] = 0
  BY BcdAssumption DEF IsPacked
<1>1. 0 \in T
  BY <1>0, BcdPowers
<1>2. ASSUME NEW k \in T PROVE k + 1 \in T
  <2>1. CASE k + 1 <= W
    <3>1. k \in 0 .. W - 1 /\ k \in 0 .. W /\ h[k] < Power(16, W)[k]
      BY <1>0, <2>1
    <3>2. /\ Power(16, W)[k + 1] = 16 * Power(16, W)[k]
          /\ h[k + 1] = h[k] + Digit(g, k) * Power(16, W)[k]
      BY <3>1, BcdPowers DEF IsPacked
    <3> DEFINE p == Power(16, W)[k]
               d == Digit(g, k)
    <3>3. p \in Nat /\ d \in 0 .. 9 /\ h[k] \in Nat
      BY <1>0, <3>1, BcdPowers, DigitBounds
    <3> HIDE DEF p, d
    <3>4. d * p <= 9 * p
      <4>1. (9 - d) * p \in Nat /\ (9 - d) * p = 9 * p - d * p
        BY <3>3
      <4>2. d * p \in Nat
        BY <3>3
      <4> QED BY <3>3, <4>1, <4>2
    <3>5. d * p \in Nat
      BY <3>3
    <3>6. h[k + 1] < Power(16, W)[k + 1]
      BY <3>1, <3>2, <3>3, <3>4, <3>5 DEF p, d
    <3> QED BY <3>6
  <2> QED BY <2>1
<1>3. T = Nat
  <2>1. T \in SUBSET Nat
    OBVIOUS
  <2> HIDE DEF T
  <2> QED BY <1>1, <1>2, <2>1, AllNats
<1>4. ASSUME NEW n \in 0 .. W PROVE h[n] \in Nat /\ h[n] < Power(16, W)[n]
  <2>1. n \in Nat /\ n <= W
    BY <1>0
  <2>2. n \in T
    <3> HIDE DEF T
    <3> QED BY <1>3, <2>1
  <2> QED BY <1>0, <2>1, <2>2
<1> QED BY <1>4

\* A turn of ul2bcd.
LEMMA DigitEnters ==
  ASSUME NEW g \in Nat, NEW h, IsPacked(h, g), NEW t \in Int, t \in 0 .. W - 1
  PROVE  /\ (h[t] * Power(16, W)[W - t]) \div 16 + entered((g \div Power(10, W)[t]) % 10)
              = h[t + 1] * Power(16, W)[W - (t + 1)]
         /\ (g \div Power(10, W)[t]) \div 10 = g \div Power(10, W)[t + 1]
<1>0. /\ W \in Nat /\ t \in 0 .. W /\ t \in Nat /\ W - t \in 0 .. W
      /\ W - 1 - t \in 0 .. W - 1 /\ W - 1 - t \in 0 .. W /\ W - 1 - t \in Nat
      /\ (W - 1 - t) + 1 = W - t /\ W - (t + 1) = W - 1 - t /\ t + (W - 1 - t) = W - 1
      /\ W - 1 <= W
  BY BcdAssumption
<1> DEFINE x == h[t]
           d == Digit(g, t)
           p == Power(16, W)[t]
           q == Power(16, W)[W - 1 - t]
<1>1. x \in Nat /\ d \in Nat /\ p \in Nat /\ q \in Nat
  <2>1. x \in Nat
    BY <1>0, PackedBelow
  <2>2. d \in 0 .. 9
    BY <1>0, DigitBounds
  <2>3. p \in Nat /\ q \in Nat
    BY <1>0, BcdPowers
  <2> HIDE DEF x, d, p, q
  <2> QED BY <2>1, <2>2, <2>3
<1>2. Power(16, W)[W - t] = 16 * q
  BY <1>0, BcdPowers
<1>3. Power(16, W)[W - 1] = p * q
  <2>1. t + (W - 1 - t) <= W
    BY <1>0
  <2>2. Power(16, W)[t + (W - 1 - t)] = p * q
    BY <1>0, <2>1, PowerOfSum
  <2> QED BY <1>0, <2>2
<1>4. h[t + 1] = x + d * p
  BY DEF IsPacked
<1>5. entered((g \div Power(10, W)[t]) % 10) = d * Power(16, W)[W - 1]
  BY DEF entered, Digit
<1>6. /\ (g \div Power(10, W)[t]) \div 10 = g \div (10 * Power(10, W)[t])
      /\ Power(10, W)[t + 1] = 10 * Power(10, W)[t]
  <2>1. Power(10, W)[t] \in Nat /\ Power(10, W)[t] > 0 /\ Power(10, W)[t + 1] = 10 * Power(10, W)[t]
    BY <1>0, BcdPowers
  <2>2. 10 \in Nat /\ 10 > 0
    OBVIOUS
  <2> QED BY <2>1, <2>2, NextDigit
<1> HIDE DEF x, d, p, q
<1>7. (x * (16 * q)) \div 16 = x * q
  <2>1. x * q \in Nat /\ x * (16 * q) = 16 * (x * q)
    BY <1>1
  <2> DEFINE y == x * q
  <2> HIDE DEF y
  <2>2. y \in Nat /\ x * (16 * q) = 16 * y
    BY <2>1 DEF y
  <2>3. (16 * y) \div 16 = y
    BY <2>2
  <2> QED BY <2>2, <2>3 DEF y
<1>8. x * q + d * (p * q) = (x + d * p) * q
  BY <1>1
<1>9. h[t] * Power(16, W)[W - t] = x * (16 * q)
  BY <1>2 DEF x
<1>10. h[t + 1] * Power(16, W)[W - (t + 1)] = (x + d * p) * q
  BY <1>0, <1>4 DEF q
<1> QED BY <1>3, <1>5, <1>6, <1>7, <1>8, <1>9, <1>10

\* A turn of bcd2ul.
LEMMA DigitLeaves ==
  ASSUME NEW g \in Nat, NEW h, IsPacked(h, g), NEW m \in Int, m \in 0 .. W - 1, NEW o \in Nat
  PROVE  /\ h[m + 1] \div Power(16, W)[m] = Digit(g, m)
         /\ h[m + 1] % Power(16, W)[m] = h[m]
         /\ (10 * o + Digit(g, m)) * Power(10, W)[m] + (g % Power(10, W)[m])
              = o * Power(10, W)[m + 1] + (g % Power(10, W)[m + 1])
<1>0. W \in Nat /\ m \in 0 .. W /\ m \in Nat
  BY BcdAssumption
<1> DEFINE x == h[m]
           d == Digit(g, m)
           p == Power(16, W)[m]
           t == Power(10, W)[m]
           r == g % Power(10, W)[m]
<1>1. x \in Nat /\ x < p /\ d \in Nat /\ p \in Nat
  <2>1. x \in Nat /\ x < p
    BY <1>0, PackedBelow
  <2>2. d \in 0 .. 9
    BY <1>0, DigitBounds
  <2>3. p \in Nat
    BY <1>0, BcdPowers
  <2> HIDE DEF x, d, p
  <2> QED BY <2>1, <2>2, <2>3
<1>2. t \in Nat /\ t > 0 /\ Power(10, W)[m + 1] = 10 * t
  BY <1>0, BcdPowers
<1>3. h[m + 1] = x + d * p
  BY DEF IsPacked
<1>4. g % (10 * t) = d * t + r
  <2>1. 10 \in Nat /\ 10 > 0
    OBVIOUS
  <2> QED BY <1>2, <2>1, NextDigit DEF Digit
<1>5. r \in Nat
  BY <1>2, QuotientAndRest
<1> HIDE DEF x, d, p, t, r
<1>6. (x + d * p) \div p = d /\ (x + d * p) % p = x
  <2> DEFINE a == x + d * p
  <2>1. a \in Nat /\ a = p * d + x
    BY <1>1
  <2> HIDE DEF a
  <2>2. a \div p = d /\ a % p = x
    BY <1>1, <2>1, Quotient
  <2> QED BY <2>2 DEF a
<1>7. (10 * o + d) * t + r = o * (10 * t) + (d * t + r)
  <2>1. (10 * o + d) * t = o * (10 * t) + d * t
    BY <1>1, <1>2
  <2>2. (10 * o + d) * t \in Nat /\ o * (10 * t) \in Nat /\ d * t \in Nat
    BY <1>1, <1>2
  <2> QED BY <1>5, <2>1, <2>2
<1> QED
  <2>1. h[m + 1] \div Power(16, W)[m] = Digit(g, m) /\ h[m + 1] % Power(16, W)[m] = h[m]
    BY <1>3, <1>6 DEF x, d, p
  <2>2. g % Power(10, W)[m + 1] = d * t + r
    BY <1>2, <1>4
  <2>3. (10 * o + d) * t + r = o * Power(10, W)[m + 1] + (g % Power(10, W)[m + 1])
    BY <1>2, <1>7, <2>2
  <2> QED BY <2>1, <2>3 DEF d, t, r

-----------------------------------------------------------------------------
(* Bcd.  The invariant.                                                    *)

\* What the digits and the result are, by the number that was given.
Goes == \/ /\ loop_ = "ul2bcd" /\ out = 0
           /\ dec = given \div Power(10, W)[turn]
           /\ \E h : IsPacked(h, given) /\ bcd = h[turn] * Power(16, W)[W - turn]
        \/ /\ loop_ = "bcd2ul"
           /\ \E h : IsPacked(h, given) /\ bcd = h[W - turn]
           /\ out * Power(10, W)[W - turn] + (given % Power(10, W)[W - turn])
                = given % Power(10, W)[W]
        \/ loop_ = "main"
        \/ loop_ = "done" /\ RoundTrip

BcdInv == /\ turn \in 0 .. W - 1 /\ given \in Nat /\ out \in Nat
          /\ Goes

LEMMA BcdBegins == BcdInit => BcdInv
  BY BcdAssumption DEF BcdInit, BcdInv, Goes

LEMMA NumberEnters ==
  ASSUME BcdInv, NEW n \in Decimals, ul2bcd(n)
  PROVE  BcdInv'
<1>1. /\ loop_' = "ul2bcd" /\ turn' = 0 /\ given' = n /\ dec' = n /\ bcd' = 0 /\ out' = 0
  BY DEF ul2bcd
<1>2. n \in Nat /\ W \in Nat /\ 0 \in 0 .. W - 1 /\ W \in 0 .. W /\ W - 0 = W
  BY BcdAssumption
<1>3. n = n \div Power(10, W)[0]
  <2>1. Power(10, W)[0] = 1
    BY BcdPowers
  <2>2. n \div 1 = n
    BY <1>2
  <2> QED BY <2>1, <2>2
<1>4. PICK h : IsPacked(h, n)
  BY <1>2, Packing
<1>5. 0 = h[0] * Power(16, W)[W - 0]
  <2>1. h[0] = 0
    BY <1>4 DEF IsPacked
  <2>2. Power(16, W)[W] \in Nat
    BY <1>2, BcdPowers
  <2>3. \A x \in Nat : 0 * x = 0
    OBVIOUS
  <2> QED BY <1>2, <2>1, <2>2, <2>3
<1>6. Goes'
  <2>1. dec' = given' \div Power(10, W)[turn']
    BY <1>1, <1>3
  <2>2. IsPacked(h, given') /\ bcd' = h[turn'] * Power(16, W)[W - turn']
    BY <1>1, <1>4, <1>5
  <2> QED BY <1>1, <2>1, <2>2 DEF Goes
<1> QED BY <1>1, <1>2, <1>6 DEF BcdInv

LEMMA DigitIn ==
  ASSUME BcdInv, ul2bcd_turn
  PROVE  BcdInv'
<1>1. /\ loop_ = "ul2bcd" /\ out = 0 /\ dec = given \div Power(10, W)[turn]
      /\ given' = given /\ out' = out
      /\ bcd' = bcd \div 16 + entered(dec % 10) /\ dec' = dec \div 10
  BY DEF ul2bcd_turn, BcdInv, Goes
<1>2. PICK h : IsPacked(h, given) /\ bcd = h[turn] * Power(16, W)[W - turn]
  BY <1>1 DEF BcdInv, Goes
<1>3. given \in Nat /\ turn \in Int /\ turn \in 0 .. W - 1 /\ W \in Nat /\ W \in 0 .. W
  BY BcdAssumption DEF BcdInv
<1>4. /\ bcd' = h[turn + 1] * Power(16, W)[W - (turn + 1)]
      /\ dec' = given \div Power(10, W)[turn + 1]
  BY <1>1, <1>2, <1>3, DigitEnters
<1>5. CASE turn < W - 1
  <2>1. turn' = turn + 1 /\ loop_' = "ul2bcd" /\ turn + 1 \in 0 .. W - 1
    BY <1>1, <1>3, <1>5 DEF ul2bcd_turn
  <2>2. Goes'
    <3>1. dec' = given' \div Power(10, W)[turn']
      BY <1>1, <1>4, <2>1
    <3>2. IsPacked(h, given') /\ bcd' = h[turn'] * Power(16, W)[W - turn']
      BY <1>1, <1>2, <1>4, <2>1
    <3>3. out' = 0
      BY <1>1
    <3> QED BY <2>1, <3>1, <3>2, <3>3 DEF Goes
  <2>3. out' \in Nat
    BY <1>1
  <2> QED BY <1>1, <1>3, <2>1, <2>2, <2>3 DEF BcdInv
<1>6. CASE ~(turn < W - 1)
  <2>1. turn' = 0 /\ loop_' = "bcd2ul" /\ turn + 1 = W /\ W - W = 0 /\ W - 0 = W
    BY <1>1, <1>3, <1>6 DEF ul2bcd_turn
  <2>2. bcd' = h[W - turn']
    <3>1. Power(16, W)[0] = 1 /\ h[W] \in Nat
      BY <1>2, <1>3, BcdPowers DEF IsPacked
    <3>2. bcd' = h[W] * Power(16, W)[0]
      BY <1>4, <2>1
    <3>3. \A x \in Nat : x * 1 = x
      OBVIOUS
    <3> QED BY <2>1, <3>1, <3>2, <3>3
  <2>3. out' * Power(10, W)[W - turn'] + (given' % Power(10, W)[W - turn'])
          = given' % Power(10, W)[W]
    <3>1. Power(10, W)[W] \in Nat /\ Power(10, W)[W] > 0
      BY <1>3, BcdPowers
    <3>2. given % Power(10, W)[W] \in Nat
      BY <1>3, <3>1, QuotientAndRest
    <3>3. \A x \in Nat, y \in Nat : 0 * x + y = y
      OBVIOUS
    <3> QED BY <1>1, <2>1, <3>1, <3>2, <3>3
  <2>4. Goes'
    <3>1. IsPacked(h, given') /\ bcd' = h[W - turn']
      BY <1>1, <1>2, <2>2
    <3> QED BY <2>1, <2>3, <3>1 DEF Goes
  <2>5. out' \in Nat /\ turn' \in 0 .. W - 1
    BY <1>1, <1>3, <2>1
  <2> QED BY <1>1, <1>3, <2>4, <2>5 DEF BcdInv
<1> QED BY <1>5, <1>6

LEMMA DigitOut ==
  ASSUME BcdInv, bcd2ul_turn
  PROVE  BcdInv'
<1> DEFINE m == W - 1 - turn
<1>1. /\ loop_ = "bcd2ul" /\ given' = given
      /\ out' = 10 * out + bcd \div Power(16, W)[m] /\ bcd' = bcd % Power(16, W)[m]
      /\ out * Power(10, W)[W - turn] + (given % Power(10, W)[W - turn]) = given % Power(10, W)[W]
  BY DEF bcd2ul_turn, BcdInv, Goes, kept
<1>2. PICK h : IsPacked(h, given) /\ bcd = h[W - turn]
  BY <1>1 DEF BcdInv, Goes
<1>3. /\ given \in Nat /\ out \in Nat /\ turn \in Int /\ turn \in 0 .. W - 1 /\ W \in Nat
      /\ m \in Int /\ m \in 0 .. W - 1 /\ m \in 0 .. W /\ m + 1 = W - turn
  BY BcdAssumption DEF BcdInv
<1> HIDE DEF m
<1>4. /\ h[m + 1] \div Power(16, W)[m] = Digit(given, m)
      /\ h[m + 1] % Power(16, W)[m] = h[m]
      /\ (10 * out + Digit(given, m)) * Power(10, W)[m] + (given % Power(10, W)[m])
           = out * Power(10, W)[m + 1] + (given % Power(10, W)[m + 1])
  BY <1>2, <1>3, DigitLeaves
<1>5. Digit(given, m) \in 0 .. 9
  BY <1>3, DigitBounds
<1>6. out' = 10 * out + Digit(given, m) /\ bcd' = h[m] /\ out' \in Nat
  <2>1. out' = 10 * out + Digit(given, m) /\ bcd' = h[m]
    BY <1>1, <1>2, <1>3, <1>4
  <2>2. 10 * out + Digit(given, m) \in Nat
    BY <1>3, <1>5
  <2> QED BY <2>1, <2>2
<1>7. out' * Power(10, W)[m] + (given % Power(10, W)[m]) = given % Power(10, W)[W]
  BY <1>1, <1>3, <1>4, <1>6
<1>8. CASE turn < W - 1
  <2>1. turn' = turn + 1 /\ loop_' = "bcd2ul" /\ turn + 1 \in 0 .. W - 1 /\ W - (turn + 1) = m
    BY <1>1, <1>3, <1>8 DEF bcd2ul_turn, m
  <2>2. Goes'
    <3>1. IsPacked(h, given') /\ bcd' = h[W - turn']
      BY <1>1, <1>2, <1>6, <2>1
    <3>2. out' * Power(10, W)[W - turn'] + (given' % Power(10, W)[W - turn'])
            = given' % Power(10, W)[W]
      BY <1>1, <1>7, <2>1
    <3> QED BY <2>1, <3>1, <3>2 DEF Goes
  <2> QED BY <1>1, <1>3, <1>6, <2>1, <2>2 DEF BcdInv
<1>9. CASE ~(turn < W - 1)
  <2>1. turn' = 0 /\ loop_' = "done" /\ m = 0
    BY <1>1, <1>3, <1>9 DEF bcd2ul_turn, m
  <2>2. RoundTrip'
    <3>1. Power(10, W)[0] = 1
      BY BcdPowers
    <3>2. given % 1 = 0
      BY <1>3
    <3>3. out' * 1 + 0 = given % Power(10, W)[W]
      BY <1>7, <2>1, <3>1, <3>2
    <3>4. out' * 1 + 0 = out'
      BY <1>6
    <3> QED BY <1>1, <3>3, <3>4 DEF RoundTrip
  <2>3. Goes'
    BY <2>1, <2>2 DEF Goes
  <2>4. turn' \in 0 .. W - 1
    BY <1>3, <2>1
  <2> QED BY <1>1, <1>3, <1>6, <2>3, <2>4 DEF BcdInv
<1> QED BY <1>8, <1>9

\* Whatever the number and the size of the word, a number turned into digits
\* and back is what its lowest W decimal digits say (ul2bcd.c, bcd2ul.c).
THEOREM ThereAndBack == BcdSpec => []RoundTrip
<1>1. BcdInv /\ [BcdNext]_bcdVars => BcdInv'
  <2> SUFFICES ASSUME BcdInv, [BcdNext]_bcdVars PROVE BcdInv'
    OBVIOUS
  <2>1. ASSUME NEW n \in Decimals, ul2bcd(n) PROVE BcdInv'
    BY <2>1, NumberEnters
  <2>2. CASE ul2bcd_turn
    BY <2>2, DigitIn
  <2>3. CASE bcd2ul_turn
    BY <2>3, DigitOut
  <2>4. CASE bcd_exit
    BY <2>4 DEF bcd_exit, BcdInv, Goes
  <2>5. CASE UNCHANGED bcdVars
    BY <2>5 DEF bcdVars, BcdInv, Goes, RoundTrip
  <2> QED BY <2>1, <2>2, <2>3, <2>4, <2>5 DEF BcdNext
<1>2. BcdInv => RoundTrip
  BY DEF BcdInv, Goes, RoundTrip
<1> QED BY BcdBegins, <1>1, <1>2, PTL DEF BcdSpec

-----------------------------------------------------------------------------
(* Itoa.  A number and its digits.                                         *)

\* The digit at place j.
DigitAt(num, base, j) == Digits[((num \div Place(base)[j]) % base) + 1]

Characters == {"0", "1", "2", "3", "4", "5", "6", "7", "8", "9", "A", "B", "C", "D", "E", "F", "x"}

LEMMA NoDigitIsNul ==
  \A d \in 0 .. 15 : Digits[d + 1] \in Characters /\ Digits[d + 1] # NUL
<1>1. /\ {Digits[1], Digits[2], Digits[3], Digits[4], Digits[5], Digits[6], Digits[7], Digits[8],
          Digits[9], Digits[10], Digits[11], Digits[12], Digits[13], Digits[14], Digits[15],
          Digits[16]} \subseteq Characters \ {NUL}
  BY DEF Digits, NUL, Characters
<1>2. ASSUME NEW d \in 0 .. 15 PROVE Digits[d + 1] \in Characters \ {NUL}
  <2>1. \/ d = 0 \/ d = 1 \/ d = 2 \/ d = 3 \/ d = 4 \/ d = 5 \/ d = 6 \/ d = 7 \/ d = 8
        \/ d = 9 \/ d = 10 \/ d = 11 \/ d = 12 \/ d = 13 \/ d = 14 \/ d = 15
    OBVIOUS
  <2> QED BY <1>1, <2>1
<1> QED BY <1>2

LEMMA PlacePowers ==
  ASSUME NEW base \in {10, 16}
  PROVE  /\ MaxDigits \in Nat /\ MaxDigits >= 1 /\ MaxDigits <= 10
         /\ \A n \in 0 .. MaxDigits : Place(base)[n] \in Nat /\ Place(base)[n] > 0
         /\ \A n \in 0 .. MaxDigits - 1 : Place(base)[n + 1] = base * Place(base)[n]
         /\ Place(base)[0] = 1
<1>1. MaxDigits \in Nat /\ MaxDigits >= 1 /\ MaxDigits <= 10
  BY ItoaAssumption
<1>2. CASE base = 10
  BY <1>1, <1>2, TwoPowers DEF Place
<1>3. CASE base = 16
  BY <1>1, <1>3, TwoPowers DEF Place
<1> QED BY <1>1, <1>2, <1>3

\* What has MaxDigits digits in base 10 has no more in base 16.
LEMMA NoMoreDigits ==
  ASSUME NEW base \in {10, 16}
  PROVE  Place(10)[MaxDigits] <= Place(base)[MaxDigits]
<1>0. MaxDigits \in Nat /\ 10 \in {10, 16}
  BY PlacePowers
<1> DEFINE T == {k \in Nat : k <= MaxDigits => Place(10)[k] <= Place(base)[k]}
<1>1. 0 \in T
  <2>1. Place(10)[0] = 1 /\ Place(base)[0] = 1
    BY <1>0, PlacePowers
  <2> QED BY <2>1
<1>2. ASSUME NEW k \in T PROVE k + 1 \in T
  <2>1. CASE k + 1 <= MaxDigits
    <3>1. /\ k \in 0 .. MaxDigits - 1 /\ k \in 0 .. MaxDigits
          /\ Place(10)[k] <= Place(base)[k]
      BY <1>0, <2>1
    <3>2. Place(10)[k + 1] = 10 * Place(10)[k] /\ Place(10)[k] \in Nat
      BY <1>0, <3>1, PlacePowers
    <3>3. Place(base)[k + 1] = base * Place(base)[k] /\ Place(base)[k] \in Nat
      BY <3>1, PlacePowers
    <3>4. base = 10 \/ base = 16
      OBVIOUS
    <3>5. Place(10)[k + 1] <= Place(base)[k + 1]
      BY <3>1, <3>2, <3>3, <3>4
    <3> QED BY <3>5
  <2> QED BY <2>1
<1>3. T = Nat
  <2>1. T \in SUBSET Nat
    OBVIOUS
  <2> HIDE DEF T
  <2> QED BY <1>1, <1>2, <2>1, AllNats
<1>4. MaxDigits \in T
  <2> HIDE DEF T
  <2> QED BY <1>0, <1>3
<1> QED BY <1>0, <1>4

\* What num is, by the number of its places.
LEMMA WrittenIs ==
  ASSUME NEW num \in Nat, NEW base \in {10, 16}, NEW k \in Nat, k >= 1, k <= MaxDigits,
         num < Place(base)[k], \A n \in 1 .. k - 1 : num >= Place(base)[n]
  PROVE  Places(num, base) = k /\ Written(num, base) = [n \in 1 .. k |-> DigitAt(num, base, k - n)]
<1> DEFINE S == {n \in 1 .. MaxDigits : num < Place(base)[n]}
<1>0. MaxDigits \in Nat
  BY PlacePowers
<1>1. k \in S
  BY <1>0
<1>2. \A n \in S : k <= n
  <2> SUFFICES ASSUME NEW n \in S PROVE k <= n
    OBVIOUS
  <2>1. n \in 1 .. MaxDigits /\ num < Place(base)[n]
    OBVIOUS
  <2>2. CASE n <= k - 1
    <3>1. n \in 1 .. k - 1 /\ n \in 0 .. MaxDigits
      BY <1>0, <2>1, <2>2
    <3>2. Place(base)[n] \in Nat /\ num >= Place(base)[n]
      BY <3>1, PlacePowers
    <3> QED BY <2>1, <3>2
  <2> HIDE DEF S
  <2> QED BY <2>1, <2>2
<1>3. \A n \in S : n \in Nat
  BY <1>0
<1>4. Places(num, base) = k
  <2> DEFINE m == CHOOSE x \in S : \A y \in S : x <= y
  <2>1. Places(num, base) = m
    BY DEF Places, Min
  <2>2. m \in S /\ \A y \in S : m <= y
    <3> HIDE DEF S
    <3> QED BY <1>1, <1>2
  <2> HIDE DEF S, m
  <2>3. m <= k /\ k <= m /\ m \in Nat
    BY <1>1, <1>2, <1>3, <2>2
  <2> QED BY <2>1, <2>3
<1> QED BY <1>4 DEF Written, DigitAt

-----------------------------------------------------------------------------
(* Itoa.  The invariant.                                                   *)

\* The lowest k digits are in place, and the end is.
Told(k) ==
  /\ i = 11 - k /\ buf[12] = NUL
  /\ \A j \in 0 .. k - 1 : buf[11 - j] = DigitAt(asked.num, asked.base, j)

\* Of a number that is not below zero.
Telling ==
  \/ itoa = "out" /\ DigitsAsWritten
  \/ /\ itoa = "digits"
     /\ \E k \in 0 .. MaxDigits - 1 :
          /\ Told(k) /\ tmp = asked.num \div Place(asked.base)[k]
          /\ \A n \in 1 .. k : asked.num >= Place(asked.base)[n]
  \/ /\ itoa = "return"
     /\ \E k \in 1 .. MaxDigits :
          /\ Told(k) /\ asked.num < Place(asked.base)[k]
          /\ \A n \in 1 .. k - 1 : asked.num >= Place(asked.base)[n]

ItoaInv ==
  /\ asked.num \in Int /\ asked.base \in {10, 16}
  /\ asked.num < Place(10)[MaxDigits]
  /\ buf = [n \in 0 .. 12 |-> buf[n]]
  /\ asked.num >= 0 => Telling
  /\ asked.num < 0 => itoa \in {"out", "digits", "return"}

LEMMA AfterPrefix ==
  ASSUME NEW w \in Seq(Characters)
  PROVE  <<"0", "x">> \o w
           = [n \in 1 .. Len(w) + 2 |-> IF n = 1 THEN "0" ELSE IF n = 2 THEN "x" ELSE w[n - 2]]
<1> DEFINE p == <<"0", "x">>
           f == [n \in 1 .. Len(w) + 2 |-> IF n = 1 THEN "0" ELSE IF n = 2 THEN "x" ELSE w[n - 2]]
<1>1. p \in Seq(Characters) /\ Len(p) = 2 /\ p[1] = "0" /\ p[2] = "x"
  BY DEF Characters
<1> HIDE DEF p
<1>2. /\ p \o w \in Seq(Characters) /\ Len(p \o w) = Len(w) + 2 /\ Len(w) \in Nat
      /\ \A n \in 1 .. Len(w) + 2 : (p \o w)[n] = IF n <= 2 THEN p[n] ELSE w[n - 2]
  <2>1. Len(w) \in Nat /\ Len(p) + Len(w) = Len(w) + 2
    BY <1>1
  <2>2. /\ p \o w \in Seq(Characters) /\ Len(p \o w) = Len(p) + Len(w)
        /\ \A n \in 1 .. Len(p) + Len(w) :
             (p \o w)[n] = IF n <= Len(p) THEN p[n] ELSE w[n - Len(p)]
    BY <1>1, ConcatProperties
  <2>3. ASSUME NEW n \in 1 .. Len(w) + 2
        PROVE  (p \o w)[n] = IF n <= 2 THEN p[n] ELSE w[n - 2]
    <3>1. n \in 1 .. Len(p) + Len(w)
      BY <2>1
    <3> QED BY <1>1, <2>2, <3>1
  <2> QED BY <2>1, <2>2, <2>3
<1>3. p \o w = [n \in 1 .. Len(w) + 2 |-> (p \o w)[n]]
  <2> DEFINE all == p \o w
  <2> HIDE DEF all
  <2>1. all \in Seq(Characters) /\ Len(all) = Len(w) + 2
    BY <1>2 DEF all
  <2>2. all = [n \in 1 .. Len(all) |-> all[n]]
    BY <2>1
  <2> QED BY <2>1, <2>2 DEF all
<1>4. ASSUME NEW n \in 1 .. Len(w) + 2 PROVE (p \o w)[n] = f[n]
  <2>1. n = 1 \/ n = 2 \/ n > 2
    BY <1>2
  <2> QED BY <1>1, <1>2, <2>1
<1>5. f = [n \in 1 .. Len(w) + 2 |-> f[n]]
  OBVIOUS
<1> HIDE DEF f
<1>6. p \o w = f
  BY <1>3, <1>4, <1>5
<1> QED BY <1>6 DEF p, f

LEMMA ItoaBegins == ItoaInit => ItoaInv
<1> SUFFICES ASSUME ItoaInit PROVE ItoaInv
  OBVIOUS
<1>1. /\ itoa = "out" /\ asked.num = 0 /\ asked.base = 16 /\ string = <<"0", "x", "0">>
      /\ buf = [n \in 0 .. 12 |-> NUL]
  BY DEF ItoaInit
<1>2. /\ MaxDigits \in Nat /\ 1 <= MaxDigits /\ 10 \in {10, 16} /\ 16 \in {10, 16}
      /\ MaxDigits \in 0 .. MaxDigits /\ 1 \in 0 .. MaxDigits
  BY PlacePowers
<1>3. Place(10)[MaxDigits] > 0 /\ Place(16)[1] > 0 /\ Place(16)[0] = 1
  BY <1>2, PlacePowers
<1>4. Written(0, 16) = <<"0">>
  <2>1. \A n \in 1 .. 1 - 1 : 0 >= Place(16)[n]
    OBVIOUS
  <2>2. 0 \in Nat /\ 1 \in Nat /\ 1 >= 1
    OBVIOUS
  <2>3. Written(0, 16) = [n \in 1 .. 1 |-> DigitAt(0, 16, 1 - n)]
    BY <1>2, <1>3, <2>1, <2>2, WrittenIs
  <2>4. DigitAt(0, 16, 0) = "0"
    <3>1. (0 \div 1) % 16 = 0
      OBVIOUS
    <3>2. Digits[0 + 1] = "0"
      BY DEF Digits
    <3> QED BY <1>3, <3>1, <3>2 DEF DigitAt
  <2>5. \A n \in 1 .. 1 : DigitAt(0, 16, 1 - n) = "0"
    BY <2>4
  <2>6. Written(0, 16) = [n \in 1 .. 1 |-> "0"]
    BY <2>3, <2>5
  <2> QED BY <2>6
<1>5. DigitsAsWritten
  <2>1. <<"0", "x">> \o <<"0">> = <<"0", "x", "0">>
    <3>1. <<"0">> \in Seq(Characters) /\ Len(<<"0">>) = 1
      BY DEF Characters
    <3>2. \A n \in 1 .. 3 : n = 1 \/ n = 2 \/ n = 3
      OBVIOUS
    <3> DEFINE all == <<"0", "x", "0">>
    <3>3. /\ all = [n \in 1 .. 3 |-> all[n]] /\ all[1] = "0" /\ all[2] = "x"
          /\ all[3] = <<"0">>[3 - 2]
      OBVIOUS
    <3> HIDE DEF all
    <3>4. all = [n \in 1 .. 1 + 2 |-> IF n = 1 THEN "0" ELSE IF n = 2 THEN "x" ELSE <<"0">>[n - 2]]
      BY <3>2, <3>3
    <3> QED BY <3>1, <3>4, AfterPrefix DEF all
  <2>2. Answered(16) => string = <<"0", "x">> \o Written(asked.num, 16)
    BY <1>1, <1>4, <2>1
  <2>3. ~Answered(10)
    BY <1>1 DEF Answered
  <2> QED BY <2>2, <2>3 DEF DigitsAsWritten
<1>6. Telling
  BY <1>1, <1>5 DEF Telling
<1>7. buf = [n \in 0 .. 12 |-> buf[n]]
  BY <1>1
<1> QED BY <1>1, <1>2, <1>3, <1>6, <1>7, PlacePowers DEF ItoaInv

LEMMA NumberAsked ==
  ASSUME ItoaInv, NEW num \in Inputs, NEW base \in {10, 16}, itoA_(num, base)
  PROVE  ItoaInv'
<1>1. /\ itoa' = "digits" /\ asked'.num = num /\ asked'.base = base
      /\ buf' = [buf EXCEPT ![12] = NUL] /\ i' = 11 /\ tmp' = num
  BY DEF itoA_
<1>2. /\ MaxDigits \in Nat /\ 0 \in 0 .. MaxDigits - 1 /\ Place(base)[0] = 1
  BY PlacePowers
<1>3. num \in Int /\ num < Place(10)[MaxDigits]
  BY ItoaAssumption DEF Place
<1>4. buf' = [n \in 0 .. 12 |-> buf'[n]] /\ buf'[12] = NUL
  <2>1. buf = [n \in 0 .. 12 |-> buf[n]]
    BY DEF ItoaInv
  <2>2. buf' = [n \in 0 .. 12 |-> buf'[n]]
    BY <1>1, <2>1
  <2>3. buf'[12] = NUL
    BY <1>1, <2>1
  <2> QED BY <2>2, <2>3
<1>5. ASSUME num >= 0 PROVE Telling'
  <2>1. num \div 1 = num
    BY <1>3, <1>5
  <2>2. Told(0)'
    BY <1>1, <1>4 DEF Told
  <2>3. tmp' = asked'.num \div Place(asked'.base)[0]
    BY <1>1, <1>2, <2>1
  <2>4. \A n \in 1 .. 0 : asked'.num >= Place(asked'.base)[n]
    OBVIOUS
  <2> QED BY <1>1, <1>2, <2>2, <2>3, <2>4 DEF Telling
<1> QED BY <1>1, <1>3, <1>4, <1>5 DEF ItoaInv

LEMMA DigitWritten ==
  ASSUME ItoaInv, digit
  PROVE  ItoaInv'
<1> DEFINE num == asked.num
           base == asked.base
           P == Place(asked.base)
<1>1. /\ itoa = "digits" /\ asked' = asked /\ i' = i - 1 /\ tmp' = quotient
      /\ itoa' = IF i' >= 0 /\ tmp' # 0 THEN "digits" ELSE "return"
  BY DEF digit
<1>2. PICK c \in characters : buf' = [buf EXCEPT ![i] = c]
  BY DEF digit
<1>3. /\ num \in Int /\ base \in {10, 16} /\ num < Place(10)[MaxDigits]
      /\ buf = [n \in 0 .. 12 |-> buf[n]]
  BY DEF ItoaInv
<1>4. buf' = [n \in 0 .. 12 |-> buf'[n]]
  BY <1>2, <1>3
<1>5. num >= 0 => Telling'
  <2> SUFFICES ASSUME num >= 0 PROVE Telling'
    OBVIOUS
  <2>1. PICK k \in 0 .. MaxDigits - 1 :
          /\ Told(k) /\ tmp = num \div P[k]
          /\ \A n \in 1 .. k : num >= P[n]
    BY <1>1 DEF ItoaInv, Telling
  <2>2. MaxDigits \in Nat /\ MaxDigits <= 10
    BY <1>3, PlacePowers
  <2>3. /\ k \in Nat /\ k + 1 \in Nat /\ k \in 0 .. MaxDigits /\ k + 1 \in 1 .. MaxDigits
        /\ k + 1 \in 0 .. MaxDigits /\ k <= 9 /\ (k + 1) - 1 = k
    BY <2>2
  <2>4. P[k] \in Nat /\ P[k] > 0 /\ P[k + 1] = base * P[k] /\ P[k + 1] \in Nat /\ P[k + 1] > 0
    BY <1>3, <2>3, PlacePowers
  <2>5. base \in Nat /\ base > 0 /\ base <= 16 /\ num \in Nat
    BY <1>3
  <2> DEFINE d == (num \div P[k]) % base
  <2>6. num \div P[k] \in Nat /\ d \in 0 .. base - 1
    BY <2>4, <2>5, QuotientAndRest
  <2>7. quotient = num \div P[k + 1] /\ remainder = d
    <3>1. (num \div P[k]) \div base = num \div P[k + 1]
      BY <2>4, <2>5, NextDigit
    <3>2. quotient = tmp \div base
      BY <2>1, <2>6 DEF quotient
    <3> DEFINE t == num \div P[k]
    <3> HIDE DEF num, base, P
    <3>3. t = base * (t \div base) + (t % base) /\ t \div base \in Nat /\ t % base \in Nat
      <4> HIDE DEF t
      <4>1. t \in Nat
        BY <2>6 DEF t
      <4> QED BY <2>5, <4>1, QuotientAndRest
    <3>4. remainder = t - base * (t \div base)
      <4>1. tmp = t
        BY <2>1
      <4>2. remainder = tmp - base * quotient
        BY DEF remainder, base
      <4> QED BY <3>2, <4>1, <4>2
    <3>5. base * (t \div base) \in Nat /\ t \in Nat
      <4>1. t \in Nat
        BY <2>6
      <4> DEFINE x == t \div base
      <4>2. x \in Nat
        BY <3>3
      <4> HIDE DEF t, x
      <4>3. base * x \in Nat
        BY <2>5, <4>2
      <4> QED BY <4>1, <4>3 DEF x
    <3>6. remainder = t % base
      <4> HIDE DEF t
      <4> QED BY <3>3, <3>4, <3>5
    <3> QED BY <2>1, <3>1, <3>2, <3>6
  <2>8. c = DigitAt(num, base, k)
    <3>1. remainder >= 0
      <4> HIDE DEF d
      <4> QED BY <2>5, <2>6, <2>7
    <3>2. c = Digits[remainder + 1]
      BY <3>1 DEF characters
    <3> QED BY <2>7, <3>2 DEF DigitAt
  <2>9. i = 11 - k /\ i \in 0 .. 12 /\ i # 12 /\ i' = 11 - (k + 1) /\ i' >= 0
    BY <1>1, <2>1, <2>3 DEF Told
  <2>10. Told(k + 1)'
    <3>1. buf'[12] = NUL
      BY <1>2, <1>3, <2>1, <2>9 DEF Told
    <3>2. ASSUME NEW j \in 0 .. (k + 1) - 1 PROVE buf'[11 - j] = DigitAt(num, base, j)
      <4>1. j \in 0 .. k /\ 11 - j \in 0 .. 12
        BY <2>3
      <4>2. CASE j = k
        BY <1>2, <1>3, <2>8, <2>9, <4>1, <4>2
      <4>3. CASE j # k
        <5>1. j \in 0 .. k - 1 /\ 11 - j # i
          BY <2>3, <2>9, <4>1, <4>3
        <5>2. buf'[11 - j] = buf[11 - j]
          BY <1>2, <1>3, <4>1, <5>1
        <5> QED BY <2>1, <5>1, <5>2 DEF Told
      <4> QED BY <4>2, <4>3
    <3> QED BY <1>1, <2>9, <3>1, <3>2 DEF Told
  <2> DEFINE Q == num \div P[k + 1]
  <2>11. num = P[k + 1] * Q + (num % P[k + 1]) /\ Q \in Nat /\ num % P[k + 1] \in 0 .. P[k + 1] - 1
    BY <2>4, <2>5, QuotientAndRest
  <2>12. CASE Q = 0
    <3>1. itoa' = "return"
      BY <1>1, <2>7, <2>12
    <3>2. num < P[k + 1]
      <4> DEFINE p == P[k + 1]
                 r == num % P[k + 1]
      <4>1. num = p * 0 + r /\ r \in 0 .. p - 1 /\ p \in Nat
        BY <2>4, <2>11, <2>12
      <4> HIDE DEF p, r
      <4>2. num < p
        BY <4>1
      <4> QED BY <4>2 DEF p
    <3>3. \A n \in 1 .. (k + 1) - 1 : num >= P[n]
      BY <2>1, <2>3
    <3> QED BY <1>1, <2>3, <2>10, <3>1, <3>2, <3>3 DEF Telling
  <2>13. CASE Q # 0
    <3>1. itoa' = "digits"
      BY <1>1, <2>7, <2>9, <2>13
    <3>2. num >= P[k + 1]
      <4> DEFINE p == P[k + 1]
                 r == num % P[k + 1]
      <4> HIDE DEF p, r, Q
      <4>1. num = p * Q + r /\ r \in Nat /\ p \in Nat /\ Q \in Nat /\ Q - 1 \in Nat
        BY <2>4, <2>11, <2>13 DEF p, r
      <4>2. p * (Q - 1) \in Nat /\ p * Q = p * (Q - 1) + p
        BY <4>1
      <4>3. num >= p
        BY <4>1, <4>2
      <4> QED BY <4>3 DEF p
    <3>3. k + 1 # MaxDigits
      <4>1. Place(10)[MaxDigits] <= P[MaxDigits] /\ Place(10)[MaxDigits] \in Nat
        <5>1. 10 \in {10, 16} /\ MaxDigits \in 0 .. MaxDigits
          BY <2>2
        <5> QED BY <1>3, <5>1, NoMoreDigits, PlacePowers
      <4>2. P[MaxDigits] \in Nat
        <5>1. MaxDigits \in 0 .. MaxDigits
          BY <2>2
        <5> QED BY <1>3, <5>1, PlacePowers
      <4> QED BY <1>3, <2>5, <3>2, <4>1, <4>2
    <3>4. k + 1 \in 0 .. MaxDigits - 1
      BY <2>2, <2>3, <3>3
    <3>5. \A n \in 1 .. k + 1 : num >= P[n]
      <4> SUFFICES ASSUME NEW n \in 1 .. k + 1 PROVE num >= P[n]
        OBVIOUS
      <4>1. CASE n = k + 1
        BY <3>2, <4>1
      <4>2. CASE n # k + 1
        <5>1. n \in 1 .. k
          BY <2>3, <4>2
        <5> QED BY <2>1, <5>1
      <4> QED BY <4>1, <4>2
    <3>6. tmp' = num \div P[k + 1]
      BY <1>1, <2>7
    <3> QED BY <1>1, <2>10, <3>1, <3>4, <3>5, <3>6 DEF Telling
  <2> QED BY <2>12, <2>13
<1>6. itoa' \in {"out", "digits", "return"}
  BY <1>1
<1> QED BY <1>1, <1>3, <1>4, <1>5, <1>6 DEF ItoaInv

\* The characters of the digits, up to the first NUL.
LEMMA StringReturned ==
  ASSUME ItoaInv, itoA_return
  PROVE  ItoaInv'
<1> DEFINE num == asked.num
           base == asked.base
           P == Place(asked.base)
           E == {n \in start .. 12 : prefixed[n] = NUL}
           end == Min(E)
<1>1. /\ itoa = "return" /\ itoa' = "out" /\ asked' = asked /\ buf' = prefixed
      /\ string' = [n \in 1 .. end - start |-> prefixed[start + n - 1]]
  BY DEF itoA_return
<1>2. /\ num \in Int /\ base \in {10, 16} /\ num < Place(10)[MaxDigits]
      /\ buf = [n \in 0 .. 12 |-> buf[n]]
  BY DEF ItoaInv
<1>3. buf' = [n \in 0 .. 12 |-> buf'[n]]
  <2>1. CASE base = 16
    BY <1>1, <1>2, <2>1 DEF prefixed
  <2>2. CASE base # 16
    BY <1>1, <1>2, <2>2 DEF prefixed
  <2> QED BY <2>1, <2>2
<1>4. num >= 0 => DigitsAsWritten'
  <2> SUFFICES ASSUME num >= 0 PROVE DigitsAsWritten'
    OBVIOUS
  <2>1. PICK k \in 1 .. MaxDigits :
          /\ Told(k) /\ num < P[k]
          /\ \A n \in 1 .. k - 1 : num >= P[n]
    BY <1>1 DEF ItoaInv, Telling
  <2>2. k \in Nat /\ k >= 1 /\ k <= MaxDigits /\ k <= 10 /\ num \in Nat /\ MaxDigits \in Nat
    BY <1>2, PlacePowers
  <2> DEFINE W_ == [n \in 1 .. k |-> DigitAt(num, base, k - n)]
  <2>3. Written(num, base) = W_
    BY <1>2, <2>1, <2>2, WrittenIs
  <2>4. /\ i = 11 - k /\ buf[12] = NUL
        /\ \A j \in 0 .. k - 1 : buf[11 - j] = DigitAt(num, base, j)
    BY <2>1 DEF Told
  <2>5. \A j \in 0 .. k - 1 : DigitAt(num, base, j) \in Characters \ {NUL}
    <3> SUFFICES ASSUME NEW j \in 0 .. k - 1 PROVE DigitAt(num, base, j) \in Characters \ {NUL}
      OBVIOUS
    <3> DEFINE q == num \div P[j]
               d == q % base
    <3>1. j \in 0 .. MaxDigits
      BY <2>2
    <3>2. P[j] \in Nat /\ P[j] > 0
      BY <1>2, <3>1, PlacePowers
    <3>3. q \in Nat
      BY <2>2, <3>2, QuotientAndRest
    <3> HIDE DEF q
    <3>4. d \in 0 .. 15
      <4>1. CASE base = 10
        BY <3>3, <4>1
      <4>2. CASE base = 16
        BY <3>3, <4>2
      <4> QED BY <1>2, <4>1, <4>2
    <3>5. DigitAt(num, base, j) = Digits[d + 1]
      BY DEF DigitAt, q
    <3> HIDE DEF d
    <3> QED BY <3>4, <3>5, NoDigitIsNul
  <2>6. ASSUME NEW n \in i + 1 .. 11
        PROVE  buf[n] = DigitAt(num, base, 11 - n) /\ buf[n] \in Characters \ {NUL}
    <3>1. 11 - n \in 0 .. k - 1 /\ 11 - (11 - n) = n
      BY <2>2, <2>4
    <3>2. buf[n] = DigitAt(num, base, 11 - n)
      BY <2>4, <3>1
    <3> QED BY <2>5, <3>1, <3>2
  <2>7. W_ \in Seq(Characters) /\ Len(W_) = k
    <3>1. \A n \in 1 .. k : DigitAt(num, base, k - n) \in Characters
      <4> SUFFICES ASSUME NEW n \in 1 .. k PROVE DigitAt(num, base, k - n) \in Characters
        OBVIOUS
      <4>1. k - n \in 0 .. k - 1
        BY <2>2
      <4> QED BY <2>5, <4>1
    <3>2. W_ \in [1 .. k -> Characters]
      BY <3>1
    <3>3. DOMAIN W_ = 1 .. k
      OBVIOUS
    <3> HIDE DEF W_
    <3> QED BY <2>2, <3>2, <3>3
  <2>8. ASSUME NEW n \in 1 .. k
        PROVE  W_[n] = buf[11 - k + n] /\ 11 - k + n \in i + 1 .. 11
    <3>1. 11 - k + n \in i + 1 .. 11 /\ 11 - (11 - k + n) = k - n
      BY <2>2, <2>4
    <3> QED BY <2>6, <3>1
  <2> HIDE DEF W_
  <2>9. CASE base = 16
    <3>1. prefixed = [buf EXCEPT ![i] = "x", ![i - 1] = "0"] /\ start = i - 1
      BY <2>9 DEF prefixed, start
    <3>2. i \in Nat /\ i >= 1 /\ i <= 10 /\ i - 1 \in 0 .. 12 /\ i \in 0 .. 12
      BY <2>2, <2>4
    <3>3. /\ prefixed[i - 1] = "0" /\ prefixed[i] = "x" /\ prefixed[12] = NUL
          /\ \A n \in i + 1 .. 11 : prefixed[n] = buf[n]
      <4>1. \A n \in i + 1 .. 11 : n \in 0 .. 12 /\ n # i /\ n # i - 1
        BY <3>2
      <4>2. i # i - 1 /\ 12 # i /\ 12 # i - 1
        BY <3>2
      <4>3. prefixed[i - 1] = "0"
        BY <1>2, <3>1, <3>2
      <4>4. prefixed[i] = "x"
        BY <1>2, <3>1, <3>2, <4>2
      <4>5. prefixed[12] = NUL
        BY <1>2, <2>4, <3>1, <3>2, <4>2
      <4>6. \A n \in i + 1 .. 11 : prefixed[n] = buf[n]
        BY <1>2, <3>1, <4>1
      <4> QED BY <4>3, <4>4, <4>5, <4>6
    <3>4. \A n \in start .. 12 : prefixed[n] = NUL <=> n = 12
      <4> SUFFICES ASSUME NEW n \in i - 1 .. 12 PROVE prefixed[n] = NUL <=> n = 12
        BY <3>1
      <4>1. n = 12 \/ n = i \/ n = i - 1 \/ n \in i + 1 .. 11
        BY <3>2
      <4>2. "0" # NUL /\ "x" # NUL /\ 12 # i /\ 12 # i - 1
        BY <3>2 DEF NUL
      <4>3. CASE n \in i + 1 .. 11
        <5>1. n # 12 /\ prefixed[n] = buf[n] /\ buf[n] # NUL
          BY <2>6, <3>2, <3>3, <4>3
        <5> QED BY <5>1
      <4>4. CASE n = 12 \/ n = i \/ n = i - 1
        BY <3>3, <4>2, <4>4
      <4> QED BY <4>1, <4>3, <4>4
    <3>5. end = 12 /\ end - start = k + 2
      <4>1. 12 \in start .. 12
        BY <3>1, <3>2
      <4>2. E = {12}
        BY <3>4, <4>1
      <4> HIDE DEF E
      <4>3. end = 12
        BY <4>2 DEF Min
      <4> QED BY <2>2, <2>4, <3>1, <4>3
    <3> HIDE DEF end
    <3>6. string' = [n \in 1 .. k + 2 |-> prefixed[i - 1 + n - 1]]
      BY <1>1, <3>1, <3>5
    <3>7. ASSUME NEW n \in 1 .. k + 2
          PROVE  prefixed[i - 1 + n - 1] = IF n = 1 THEN "0" ELSE IF n = 2 THEN "x" ELSE W_[n - 2]
      <4>1. CASE n = 1
        <5>1. i - 1 + n - 1 = i - 1
          BY <3>2, <4>1
        <5> QED BY <3>3, <4>1, <5>1
      <4>2. CASE n = 2
        <5>1. i - 1 + n - 1 = i
          BY <3>2, <4>2
        <5> QED BY <3>3, <4>2, <5>1
      <4>3. CASE n # 1 /\ n # 2
        <5>1. n - 2 \in 1 .. k /\ 11 - k + (n - 2) = i - 1 + n - 1
          BY <2>2, <2>4, <4>3
        <5>2. W_[n - 2] = buf[i - 1 + n - 1] /\ i - 1 + n - 1 \in i + 1 .. 11
          BY <2>8, <5>1
        <5> QED BY <3>3, <4>3, <5>2
      <4> QED BY <4>1, <4>2, <4>3
    <3>8. string' = [n \in 1 .. k + 2 |-> IF n = 1 THEN "0" ELSE IF n = 2 THEN "x" ELSE W_[n - 2]]
      BY <3>6, <3>7
    <3>9. string' = <<"0", "x">> \o W_
      BY <2>7, <3>8, AfterPrefix
    <3>10. asked'.num = num /\ asked'.base = 16 /\ Written(num, 16) = W_
      BY <1>1, <2>3, <2>9
    <3>11. ~Answered(10)'
      BY <3>10 DEF Answered
    <3>12. string' = <<"0", "x">> \o Written(asked'.num, 16)
      BY <3>9, <3>10
    <3> QED BY <3>11, <3>12 DEF DigitsAsWritten
  <2>10. CASE base = 10
    <3>1. prefixed = buf /\ start = i
      BY <2>10 DEF prefixed, start
    <3>2. i \in Nat /\ i >= 1 /\ i <= 10
      BY <2>2, <2>4
    <3>3. CASE buf[i] = NUL
      <4>1. i \in E /\ \A n \in E : i <= n
        BY <3>1, <3>2, <3>3
      <4>2. \A n \in E : n \in Nat
        BY <3>1, <3>2
      <4> HIDE DEF E
      <4> DEFINE e == CHOOSE x \in E : \A y \in E : x <= y
      <4>3. e \in E /\ \A y \in E : e <= y
        BY <4>1
      <4>4. end = e
        BY DEF Min
      <4> HIDE DEF e
      <4>5. e = i
        <5>1. e <= i /\ i <= e /\ e \in Nat
          BY <4>1, <4>2, <4>3
        <5> QED BY <3>2, <5>1
      <4> HIDE DEF end
      <4>6. 1 .. end - start = {}
        BY <3>1, <3>2, <4>4, <4>5
      <4>7. string' = <<>>
        BY <1>1, <4>6
      <4> QED BY <1>1, <2>10, <4>7 DEF DigitsAsWritten, Answered
    <3>4. CASE buf[i] # NUL
      <4>1. \A n \in start .. 12 : prefixed[n] = NUL <=> n = 12
        <5> SUFFICES ASSUME NEW n \in i .. 12 PROVE buf[n] = NUL <=> n = 12
          BY <3>1
        <5>1. n = 12 \/ n = i \/ n \in i + 1 .. 11
          BY <3>2
        <5>2. CASE n \in i + 1 .. 11
          <6>1. n # 12 /\ buf[n] # NUL
            BY <2>6, <3>2, <5>2
          <6> QED BY <6>1
        <5>3. CASE n = 12 \/ n = i
          BY <2>4, <3>2, <3>4, <5>3
        <5> QED BY <5>1, <5>2, <5>3
      <4>2. end = 12 /\ end - start = k + 1
        <5>1. 12 \in start .. 12
          BY <3>1, <3>2
        <5>2. E = {12}
          BY <4>1, <5>1
        <5> HIDE DEF E
        <5>3. end = 12
          BY <5>2 DEF Min
        <5> QED BY <2>2, <2>4, <3>1, <5>3
      <4> HIDE DEF end
      <4>3. string' = [n \in 1 .. k + 1 |-> buf[i + n - 1]]
        BY <1>1, <3>1, <4>2
      <4> DEFINE s == string'
      <4>4. Tail(s) = [n \in 1 .. k |-> s[n + 1]]
        <5> DEFINE S == {s[n] : n \in 1 .. k + 1}
        <5>1. k + 1 \in Nat /\ k + 1 # 0 /\ (k + 1) - 1 = k
          BY <2>2
        <5>2. s = [n \in 1 .. k + 1 |-> s[n]]
          BY <4>3
        <5> HIDE DEF s
        <5>3. s \in [1 .. k + 1 -> S]
          BY <5>2
        <5> HIDE DEF S
        <5>4. s \in Seq(S) /\ Len(s) = k + 1
          BY <5>1, <5>3
        <5>5. s # <<>>
          BY <5>1, <5>4
        <5>6. /\ Tail(s) \in Seq(S) /\ Len(Tail(s)) = k
              /\ \A n \in 1 .. k : Tail(s)[n] = s[n + 1]
          BY <5>1, <5>4, <5>5, HeadTailProperties
        <5> DEFINE t == Tail(s)
        <5> HIDE DEF t
        <5>7. t = [n \in 1 .. k |-> t[n]]
          <6>1. t \in Seq(S) /\ Len(t) = k
            BY <5>6 DEF t
          <6> QED BY <6>1
        <5> QED BY <5>6, <5>7 DEF t
      <4>5. ASSUME NEW n \in 1 .. k PROVE s[n + 1] = W_[n]
        <5>1. n + 1 \in 1 .. k + 1 /\ i + (n + 1) - 1 = 11 - k + n
          BY <2>2, <2>4
        <5>2. s[n + 1] = buf[i + (n + 1) - 1]
          BY <4>3, <5>1
        <5> QED BY <2>8, <5>1, <5>2
      <4>6. W_ = [n \in 1 .. k |-> W_[n]]
        BY DEF W_
      <4>7. Tail(s) = W_
        BY <4>4, <4>5, <4>6
      <4>8. asked'.num = num /\ asked'.base = 10 /\ Written(num, 10) = W_
        BY <1>1, <2>3, <2>10
      <4>9. ~Answered(16)'
        BY <4>8 DEF Answered
      <4>10. Tail(string') = Written(asked'.num, 10)
        BY <4>7, <4>8
      <4> QED BY <4>9, <4>10 DEF DigitsAsWritten
    <3> QED BY <3>3, <3>4
  <2> QED BY <1>2, <2>9, <2>10
<1>5. num >= 0 => Telling'
  BY <1>1, <1>4 DEF Telling
<1> QED BY <1>1, <1>2, <1>3, <1>5 DEF ItoaInv

\* Whatever numbers are converted, in either base and one after the other, the
\* string is the digits of the number, but for the cell in front of a decimal
\* one (itoa.c:4-29).
THEOREM DigitsOfTheNumber == ItoaSpec => []DigitsAsWritten
<1>1. ItoaInv /\ [ItoaNext]_itoaVars => ItoaInv'
  <2> SUFFICES ASSUME ItoaInv, [ItoaNext]_itoaVars PROVE ItoaInv'
    OBVIOUS
  <2>1. ASSUME NEW num \in Inputs, NEW base \in {10, 16}, itoA_(num, base) PROVE ItoaInv'
    BY <2>1, NumberAsked
  <2>2. CASE digit
    BY <2>2, DigitWritten
  <2>3. CASE itoA_return
    BY <2>3, StringReturned
  <2>4. CASE UNCHANGED itoaVars
    BY <2>4 DEF itoaVars, ItoaInv, Telling, Told, DigitsAsWritten, Answered
  <2> QED BY <2>1, <2>2, <2>3, <2>4 DEF ItoaNext
<1>2. ItoaInv => DigitsAsWritten
  BY DEF ItoaInv, Telling, DigitsAsWritten, Answered
<1> QED BY ItoaBegins, <1>1, <1>2, PTL DEF ItoaSpec

-----------------------------------------------------------------------------
(* Backtrace.  The known frames are counted.                               *)

LEMMA KnownFinite ==
  ASSUME NEW n \in Nat
  PROVE  IsFiniteSet(Known(n)) /\ Cardinality(Known(n)) \in Nat
<1>1. IsFiniteSet(1 .. n)
  BY 1 \in Int, n \in Int, FS_Interval
<1>2. IsFiniteSet(Known(n))
  BY <1>1, FS_Subset DEF Known
<1> QED BY <1>2, FS_CardinalityType

LEMMA KnownGrows ==
  ASSUME NEW m \in Nat, NEW n \in Nat, m <= n
  PROVE  Cardinality(Known(m)) <= Cardinality(Known(n))
<1>1. Known(m) \in SUBSET Known(n)
  BY DEF Known
<1> QED BY <1>1, KnownFinite, FS_Subset

LEMMA OneMoreKnown ==
  ASSUME NEW n \in Nat
  PROVE  Cardinality(Known(n + 1))
           = IF frames[n + 1] = NoAddress THEN Cardinality(Known(n)) ELSE Cardinality(Known(n)) + 1
<1>1. CASE frames[n + 1] = NoAddress
  <2>1. Known(n + 1) = Known(n)
    BY <1>1 DEF Known
  <2> QED BY <1>1, <2>1
<1>2. CASE frames[n + 1] # NoAddress
  <2>1. Known(n + 1) = Known(n) \cup {n + 1} /\ n + 1 \notin Known(n)
    BY <1>2 DEF Known
  <2> QED BY <1>2, <2>1, KnownFinite, FS_AddElement
<1> QED BY <1>1, <1>2

LEMMA NoneKnown == Cardinality(Known(0)) = 0
<1>1. Known(0) = {}
  BY DEF Known
<1> QED BY <1>1, FS_EmptySet

\* The buffer holds the known ones of the frames that were visited.
Collected ==
  /\ frames \in Seq(Nat) /\ buffer \in Seq(Nat)
  /\ visited \in Nat /\ visited <= Len(frames)
  /\ Len(buffer) = Cardinality(Known(visited)) /\ Len(buffer) <= BT_BUFFER_SIZE
  /\ \A pos \in Known(visited) : buffer[Cardinality(Known(pos))] = frames[pos]

\* The unwinding ended at the last frame, or at a known one with the buffer full.
Ended ==
  \/ visited = Len(frames)
  \/ /\ visited < Len(frames) /\ frames[visited + 1] # NoAddress
     /\ Len(buffer) = BT_BUFFER_SIZE

BacktraceInv ==
  /\ Collected
  /\ process \in {"main", "f1", "f2", "f3"} => visited = 0 /\ buffer = <<>>
  /\ process \in {"dump", "exited"} => Ended

LEMMA BacktraceStart == BacktraceInit => BacktraceInv
<1> SUFFICES ASSUME BacktraceInit PROVE BacktraceInv
  OBVIOUS
<1>1. frames = <<>> /\ buffer = <<>> /\ visited = 0 /\ process = "main"
  BY DEF BacktraceInit
<1>2. Known(visited) = {}
  BY <1>1 DEF Known
<1>3. Cardinality(Known(visited)) = 0
  BY <1>2, FS_EmptySet
<1>4. Collected
  BY <1>1, <1>2, <1>3, BacktraceAssumption DEF Collected
<1> QED BY <1>1, <1>4 DEF BacktraceInv

LEMMA StackTaken == ASSUME BacktraceInv, f3 PROVE BacktraceInv'
<1>1. visited' = 0 /\ buffer' = <<>> /\ process' \in {"capture", "killed"}
  BY DEF BacktraceInv, f3
<1>2. frames' \in Seq(Nat)
  BY BacktraceAssumption DEF BacktraceInv, Collected, f3
<1>3. Known(visited)' = {}
  BY <1>1 DEF Known
<1>4. Cardinality(Known(visited))' = 0
  BY <1>3, FS_EmptySet
<1>5. Collected'
  BY <1>1, <1>2, <1>3, <1>4, BacktraceAssumption DEF Collected
<1> QED BY <1>1, <1>5 DEF BacktraceInv

LEMMA FrameTaken == ASSUME BacktraceInv, unwindCallback PROVE BacktraceInv'
<1> DEFINE a == frames[visited + 1]
<1>1. /\ process = "capture" /\ visited < Len(frames) /\ frames' = frames
      /\ visited \in Nat /\ frames \in Seq(Nat) /\ buffer \in Seq(Nat)
  BY DEF unwindCallback, BacktraceInv, Collected
<1>2. a \in Nat
  BY <1>1
<1>3. CASE a # NoAddress /\ full
  <2>1. process' = "dump" /\ visited' = visited /\ buffer' = buffer
    BY <1>3 DEF unwindCallback
  <2>2. Collected'
    BY <1>1, <2>1 DEF BacktraceInv, Collected, Known
  <2>3. Ended'
    BY <1>1, <1>3, <2>1 DEF Ended, full
  <2> QED BY <2>1, <2>2, <2>3 DEF BacktraceInv
<1>4. CASE ~(a # NoAddress /\ full)
  <2>1. /\ visited' = visited + 1 /\ process' = "capture"
        /\ buffer' = IF a = NoAddress THEN buffer ELSE Append(buffer, a)
    BY <1>1, <1>4 DEF unwindCallback
  <2>2. /\ Len(buffer) = Cardinality(Known(visited)) /\ Len(buffer) <= BT_BUFFER_SIZE
        /\ Len(buffer) \in Nat
        /\ \A pos \in Known(visited) : buffer[Cardinality(Known(pos))] = frames[pos]
    BY <1>1 DEF BacktraceInv, Collected
  <2>3. Known(visited)' = Known(visited + 1)
    BY <1>1, <2>1 DEF Known
  <2>4. \A pos : Known(pos)' = Known(pos)
    BY <1>1 DEF Known
  <2>5. CASE a = NoAddress
    <3>1. buffer' = buffer /\ Known(visited + 1) = Known(visited)
      BY <1>1, <2>1, <2>5 DEF Known
    <3> QED BY <1>1, <2>1, <2>2, <2>3, <2>4, <3>1 DEF BacktraceInv, Collected
  <2>6. CASE a # NoAddress
    <3>1. buffer' = Append(buffer, a)
      BY <2>1, <2>6
    <3>2. /\ buffer' \in Seq(Nat) /\ Len(buffer') = Len(buffer) + 1
          /\ buffer'[Len(buffer) + 1] = a
          /\ \A j \in 1 .. Len(buffer) : buffer'[j] = buffer[j]
      BY <1>1, <1>2, <3>1, AppendProperties
    <3>3. Cardinality(Known(visited + 1)) = Len(buffer) + 1
      BY <1>1, <2>2, <2>6, OneMoreKnown
    <3>4. Len(buffer) + 1 <= BT_BUFFER_SIZE
      BY <1>4, <2>2, <2>6, BacktraceAssumption DEF full
    <3>5. ASSUME NEW pos \in Known(visited + 1)
          PROVE  buffer'[Cardinality(Known(pos))] = frames[pos]
      <4>1. pos \in Nat /\ pos >= 1 /\ pos <= visited + 1 /\ frames[pos] # NoAddress
        BY <1>1 DEF Known
      <4>2. CASE pos = visited + 1
        BY <3>2, <3>3, <4>2
      <4>3. CASE pos <= visited
        <5>1. pos \in Known(visited)
          BY <1>1, <4>1, <4>3 DEF Known
        <5>2. Cardinality(Known(pos)) <= Len(buffer)
          BY <1>1, <2>2, <4>1, <4>3, KnownGrows
        <5>3. Cardinality(Known(pos)) \in Nat /\ Cardinality(Known(pos)) >= 1
          <6>1. pos - 1 \in Nat /\ (pos - 1) + 1 = pos
            BY <4>1
          <6>2. Cardinality(Known((pos - 1) + 1)) = Cardinality(Known(pos - 1)) + 1
            BY <4>1, <6>1, OneMoreKnown
          <6>3. Cardinality(Known(pos - 1)) \in Nat
            BY <6>1, KnownFinite
          <6> QED BY <6>1, <6>2, <6>3
        <5>4. buffer[Cardinality(Known(pos))] = frames[pos]
          BY <2>2, <5>1
        <5>5. Cardinality(Known(pos)) \in 1 .. Len(buffer)
          BY <2>2, <5>2, <5>3
        <5> QED BY <3>2, <5>4, <5>5
      <4> QED BY <1>1, <4>1, <4>2, <4>3
    <3>6. frames' = frames /\ frames \in Seq(Nat) /\ visited \in Nat /\ visited < Len(frames)
      BY <1>1 DEF unwindCallback, BacktraceInv, Collected
    <3>7. visited' \in Nat /\ visited' <= Len(frames')
      BY <2>1, <3>6
    <3>8. Len(buffer') = Cardinality(Known(visited)') /\ Len(buffer') <= BT_BUFFER_SIZE
      BY <2>3, <3>2, <3>3, <3>4
    <3>9. ASSUME NEW pos \in Known(visited)'
          PROVE  buffer'[Cardinality(Known(pos)')] = frames'[pos]
      BY <2>3, <2>4, <3>5, <3>6
    <3>10. Collected'
      BY <3>2, <3>6, <3>7, <3>8, <3>9 DEF Collected
    <3> QED BY <2>1, <3>10 DEF BacktraceInv
  <2> QED BY <2>5, <2>6
<1> QED BY <1>3, <1>4

LEMMA BacktraceKept == BacktraceInv /\ [BacktraceNext]_backtraceVars => BacktraceInv'
<1> SUFFICES ASSUME BacktraceInv, [BacktraceNext]_backtraceVars PROVE BacktraceInv'
  OBVIOUS
<1>a. ASSUME UNCHANGED <<frames, visited, buffer>> PROVE Collected' /\ (Ended' <=> Ended)
  BY <1>a DEF BacktraceInv, Collected, Known, Ended
<1>1. CASE signal_init \/ f1 \/ f2
  BY <1>1, <1>a DEF signal_init, f1, f2, BacktraceInv
<1>2. CASE f3
  BY <1>2, StackTaken
<1>3. CASE unwindCallback
  BY <1>3, FrameTaken
<1>4. CASE captureBacktrace_ends
  <2>1. Ended
    BY <1>4 DEF captureBacktrace_ends, Ended
  <2> QED BY <1>4, <1>a, <2>1 DEF captureBacktrace_ends, BacktraceInv
<1>5. CASE dump_backtrace \/ handler_ends \/ second_fault
  BY <1>5, <1>a DEF dump_backtrace, handler_ends, second_fault, BacktraceInv
<1>6. CASE rerun
  <2>1. frames' = <<>> /\ buffer' = <<>> /\ visited' = 0 /\ process' = "main"
    BY <1>6 DEF rerun
  <2>2. Known(visited)' = {}
    BY <2>1 DEF Known
  <2>3. Cardinality(Known(visited))' = 0
    BY <2>2, FS_EmptySet
  <2>4. Collected'
    BY <2>1, <2>2, <2>3, BacktraceAssumption DEF Collected
  <2> QED BY <2>1, <2>4 DEF BacktraceInv
<1>7. CASE UNCHANGED backtraceVars
  BY <1>7, <1>a DEF backtraceVars, BacktraceInv
<1> QED BY <1>1, <1>2, <1>3, <1>4, <1>5, <1>6, <1>7 DEF BacktraceNext, BacktraceStep

\* Of any stack and in a buffer of any size, what is printed are the innermost
\* frames that are known (backTraceInSig.cc:59-79).
THEOREM FramesInnermost == BacktraceSpec => []InnermostFrames
<1>1. BacktraceSpec => []BacktraceInv
  BY BacktraceStart, BacktraceKept, PTL DEF BacktraceSpec
<1>2. BacktraceInv => InnermostFrames
  <2> SUFFICES ASSUME BacktraceInv, process \in {"dump", "exited"}
               PROVE  LET all == Cardinality(Known(Len(frames)))
                      IN  /\ Len(buffer) = IF all <= BT_BUFFER_SIZE THEN all ELSE BT_BUFFER_SIZE
                          /\ \A pos \in Known(Len(frames)) :
                               LET place == Cardinality(Known(pos))
                               IN  place <= Len(buffer) => buffer[place] = frames[pos]
    BY DEF InnermostFrames
  <2>1. Collected /\ Ended
    BY DEF BacktraceInv
  <2>2. /\ visited \in Nat /\ visited <= Len(frames) /\ Len(frames) \in Nat
        /\ Len(buffer) = Cardinality(Known(visited)) /\ Len(buffer) <= BT_BUFFER_SIZE
        /\ Len(buffer) \in Nat /\ BT_BUFFER_SIZE \in Nat
        /\ \A pos \in Known(visited) : buffer[Cardinality(Known(pos))] = frames[pos]
    BY <2>1, BacktraceAssumption DEF Collected
  <2>3. CASE visited = Len(frames)
    BY <2>2, <2>3
  <2>4. CASE visited < Len(frames) /\ frames[visited + 1] # NoAddress
             /\ Len(buffer) = BT_BUFFER_SIZE
    <3>1. Cardinality(Known(visited + 1)) = Len(buffer) + 1
      BY <2>2, <2>4, OneMoreKnown
    <3>2. \A n \in Nat : n >= visited + 1 => Cardinality(Known(n)) >= Len(buffer) + 1
      <4> SUFFICES ASSUME NEW n \in Nat, n >= visited + 1
                   PROVE  Cardinality(Known(n)) >= Len(buffer) + 1
        OBVIOUS
      <4>1. Cardinality(Known(visited + 1)) <= Cardinality(Known(n))
        BY <2>2, KnownGrows
      <4> QED BY <2>2, <3>1, <4>1, KnownFinite
    <3>3. Cardinality(Known(Len(frames))) >= Len(buffer) + 1
          /\ Cardinality(Known(Len(frames))) \in Nat
      BY <2>2, <2>4, <3>2, KnownFinite
    <3>4. ASSUME NEW pos \in Known(Len(frames)), Cardinality(Known(pos)) <= Len(buffer)
          PROVE  buffer[Cardinality(Known(pos))] = frames[pos]
      <4>1. pos \in Nat /\ pos >= 1 /\ frames[pos] # NoAddress
        BY <2>2 DEF Known
      <4>2. Cardinality(Known(pos)) \in Nat
        BY <4>1, KnownFinite
      <4>3. ~(pos >= visited + 1)
        BY <2>2, <3>2, <3>4, <4>1, <4>2
      <4>4. pos \in Known(visited)
        BY <2>2, <4>1, <4>3 DEF Known
      <4> QED BY <2>2, <4>4
    <3> QED BY <2>2, <2>4, <3>3, <3>4
  <2> QED BY <2>1, <2>3, <2>4 DEF Ended
<1> QED BY <1>1, <1>2, PTL
=============================================================================
