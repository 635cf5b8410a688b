--------------------------- MODULE NandEccProofs ---------------------------
(***************************************************************************)
(* Theorems about NandEcc.tla, for any pages, any machines the assumption  *)
(* allows and any two bits that flip.                                      *)
(***************************************************************************)
EXTENDS NandEcc, FiniteSetTheorems, TLAPS

-----------------------------------------------------------------------------
(* The rows.  A bit of a page is a number of 11 or 12 digits, those of its *)
(* byte and of its column; two rows of the code belong to each digit, the  *)
(* even one to the bits in which it is 0, the odd one to the others.       *)

Digit(j, x) ==
  CASE j = 0 -> (x \div 8) % 2
    [] j = 1 -> ((x \div 8) \div 2) % 2
    [] j = 2 -> ((x \div 8) \div 4) % 2
    [] j = 3 -> ((x \div 8) \div 8) % 2
    [] j = 4 -> ((x \div 8) \div 16) % 2
    [] j = 5 -> ((x \div 8) \div 32) % 2
    [] j = 6 -> ((x \div 8) \div 64) % 2
    [] j = 7 -> ((x \div 8) \div 128) % 2
    [] j = 8 -> ((x \div 8) \div 256) % 2
    [] j = 9 -> (x % 8) % 2
    [] j = 10 -> ((x % 8) \div 2) % 2
    [] j = 11 -> ((x % 8) \div 4) % 2

InRowOf(size, k, x) == ~(size = 256 /\ k \in {16, 17}) /\ Digit(k \div 2, x) = k % 2

Cover(size, k) == {x \in 0 .. 8 * size - 1 : InRowOf(size, k, x)}

LEMMA DigitType == ASSUME NEW j \in 0 .. 11, NEW x \in Nat PROVE Digit(j, x) \in {0, 1}
<1>1. x \div 8 \in Nat /\ x % 8 \in Nat
  BY Z3
<1> DEFINE a == x \div 8
           b == x % 8
<1>2. /\ a % 2 \in {0, 1} /\ (a \div 2) % 2 \in {0, 1} /\ (a \div 4) % 2 \in {0, 1}
      /\ (a \div 8) % 2 \in {0, 1} /\ (a \div 16) % 2 \in {0, 1} /\ (a \div 32) % 2 \in {0, 1}
      /\ (a \div 64) % 2 \in {0, 1} /\ (a \div 128) % 2 \in {0, 1} /\ (a \div 256) % 2 \in {0, 1}
      /\ b % 2 \in {0, 1} /\ (b \div 2) % 2 \in {0, 1} /\ (b \div 4) % 2 \in {0, 1}
  <2> HIDE DEF a, b
  <2>1. a \in Nat /\ b \in Nat
    BY <1>1 DEF a, b
  <2> QED BY <2>1, Z3
<1> QED BY <1>2 DEF Digit

\* What the later version looks at of the number of a byte, in its digits.
LEMMA LaneDigits == ASSUME NEW a \in Nat PROVE a % 4 = 2 * ((a \div 2) % 2) + (a % 2)
  BY Z3

LEMMA WordDigits ==
  ASSUME NEW a \in Nat
  PROVE  (a \div 4) % 16 = 8 * ((a \div 32) % 2) + 4 * ((a \div 16) % 2)
                           + 2 * ((a \div 8) % 2) + ((a \div 4) % 2)
  BY Z3

LEMMA TurnDigits ==
  ASSUME NEW a \in Nat
  PROVE  (a \div 64) \div 2 = a \div 128 /\ (a \div 64) \div 4 = a \div 256
  BY Z3

\* Which words have a digit 0, as the lists of the source say it.
LEMMA WordLists ==
  ASSUME NEW d2 \in {0, 1}, NEW d3 \in {0, 1}, NEW d4 \in {0, 1}, NEW d5 \in {0, 1}
  PROVE  LET w == 8 * d5 + 4 * d4 + 2 * d3 + d2
         IN  /\ w \in Words(4) <=> d2 = 0
             /\ w \in Words(6) <=> d3 = 0
             /\ w \in Words(8) <=> d4 = 0
             /\ w \in Words(10) <=> d5 = 0
<1> DEFINE w == 8 * d5 + 4 * d4 + 2 * d3 + d2
<1>1. Words(4) = {0, 2, 4, 6, 8, 10, 12, 14} /\ Words(6) = {0, 1} \cup {4, 5, 8, 9, 12, 13}
      /\ Words(8) = (0 .. 3) \cup (8 .. 11) /\ Words(10) = 0 .. 7
  BY DEF Words
<1>2. w \in {0, 2, 4, 6, 8, 10, 12, 14} <=> d2 = 0
  BY Z3
<1>3. w \in {0, 1} \cup {4, 5, 8, 9, 12, 13} <=> d3 = 0
  BY Z3
<1>4. w \in (0 .. 3) \cup (8 .. 11) <=> d4 = 0
  BY Z3
<1>5. w \in 0 .. 7 <=> d5 = 0
  BY Z3
<1> HIDE DEF w
<1>6. /\ w \in Words(4) <=> d2 = 0
      /\ w \in Words(6) <=> d3 = 0
      /\ w \in Words(8) <=> d4 = 0
      /\ w \in Words(10) <=> d5 = 0
  BY <1>1, <1>2, <1>3, <1>4, <1>5
<1> QED BY <1>6 DEF w

\* Which bytes of a word have a digit 0, on machines of either endianness.
LEMMA LaneLists ==
  ASSUME NEW d0 \in {0, 1}, NEW d1 \in {0, 1}
  PROVE  /\ 3 - (2 * d1 + d0) \in {1, 3} <=> d0 = 0
         /\ 2 * d1 + d0 \in {0, 2} <=> d0 = 0
         /\ 3 - (2 * d1 + d0) \in {2, 3} <=> d1 = 0
         /\ 2 * d1 + d0 \in {0, 1} <=> d1 = 0
  BY Z3

\* The rows of a byte, of the later version.
LEMMA EvenRow ==
  ASSUME NEW big \in BOOLEAN, NEW k \in {0, 2, 4, 6, 8, 10, 12, 14, 16}, NEW x \in Nat
  PROVE  InRow(big, k, x \div 8) <=> Digit(k \div 2, x) = 0
<1> DEFINE a == x \div 8
<1>0. a \in Nat
  BY Z3
<1>a. \A j \in 0 .. 8 : Digit(j, x) \in {0, 1}
  BY DigitType
<1>b. /\ Digit(0, x) = a % 2 /\ Digit(1, x) = (a \div 2) % 2 /\ Digit(2, x) = (a \div 4) % 2
      /\ Digit(3, x) = (a \div 8) % 2 /\ Digit(4, x) = (a \div 16) % 2
      /\ Digit(5, x) = (a \div 32) % 2 /\ Digit(6, x) = (a \div 64) % 2
      /\ Digit(7, x) = (a \div 128) % 2 /\ Digit(8, x) = (a \div 256) % 2
  BY DEF Digit
<1>c. InRow(big, 0, a) <=> Lane(big, a) \in IF big THEN {1, 3} ELSE {0, 2}
  BY DEF InRow
<1>d. InRow(big, 2, a) <=> Lane(big, a) \in IF big THEN {2, 3} ELSE {0, 1}
  BY DEF InRow
<1>e. /\ InRow(big, 4, a) <=> (a \div 4) % 16 \in Words(4)
      /\ InRow(big, 6, a) <=> (a \div 4) % 16 \in Words(6)
      /\ InRow(big, 8, a) <=> (a \div 4) % 16 \in Words(8)
      /\ InRow(big, 10, a) <=> (a \div 4) % 16 \in Words(10)
  BY DEF InRow
<1>f. /\ InRow(big, 12, a) <=> (a \div 64) % 2 = 0
      /\ InRow(big, 14, a) <=> ((a \div 64) \div 2) % 2 = 0
      /\ InRow(big, 16, a) <=> ((a \div 64) \div 4) % 2 = 0
  BY DEF InRow
<1> HIDE DEF a
<1>1. a % 4 = 2 * Digit(1, x) + Digit(0, x)
  BY <1>0, <1>b, LaneDigits
<1>2. (a \div 4) % 16 = 8 * Digit(5, x) + 4 * Digit(4, x) + 2 * Digit(3, x) + Digit(2, x)
  BY <1>0, <1>b, WordDigits
<1>3. InRow(big, 0, a) <=> Digit(0, x) = 0
  BY <1>a, <1>c, <1>1, LaneLists DEF Lane
<1>4. InRow(big, 2, a) <=> Digit(1, x) = 0
  BY <1>a, <1>d, <1>1, LaneLists DEF Lane
<1>5. /\ InRow(big, 4, a) <=> Digit(2, x) = 0
      /\ InRow(big, 6, a) <=> Digit(3, x) = 0
      /\ InRow(big, 8, a) <=> Digit(4, x) = 0
      /\ InRow(big, 10, a) <=> Digit(5, x) = 0
  BY <1>a, <1>e, <1>2, WordLists
<1>6. /\ InRow(big, 12, a) <=> Digit(6, x) = 0
      /\ InRow(big, 14, a) <=> Digit(7, x) = 0
      /\ InRow(big, 16, a) <=> Digit(8, x) = 0
  BY <1>0, <1>b, <1>f, TurnDigits
<1>7. /\ 0 \div 2 = 0 /\ 2 \div 2 = 1 /\ 4 \div 2 = 2 /\ 6 \div 2 = 3 /\ 8 \div 2 = 4
      /\ 10 \div 2 = 5 /\ 12 \div 2 = 6 /\ 14 \div 2 = 7 /\ 16 \div 2 = 8
  BY Z3
<1>8. InRow(big, k, a) <=> Digit(k \div 2, x) = 0
  BY <1>3, <1>4, <1>5, <1>6, <1>7
<1> QED BY <1>8 DEF a

\* The column parities are the rows of the digits of the column.
LEMMA ColumnRow ==
  ASSUME NEW k \in 18 .. 23, NEW x \in Nat
  PROVE  x % 8 \in Column(k) <=> Digit(k \div 2, x) = k % 2
<1>1. PICK d0 \in {0, 1}, d1 \in {0, 1}, d2 \in {0, 1} :
        Digit(9, x) = d0 /\ Digit(10, x) = d1 /\ Digit(11, x) = d2
  BY DigitType
<1>2. x % 8 = 4 * d2 + 2 * d1 + d0
  <2>1. /\ Digit(9, x) = (x % 8) % 2 /\ Digit(10, x) = ((x % 8) \div 2) % 2
        /\ Digit(11, x) = ((x % 8) \div 4) % 2
    BY DEF Digit
  <2>2. x % 8 = 4 * (((x % 8) \div 4) % 2) + 2 * (((x % 8) \div 2) % 2) + ((x % 8) % 2)
    BY Z3
  <2> QED BY <1>1, <2>1, <2>2
<1>3. /\ Column(18) = {0, 2, 4, 6} /\ Column(19) = {1, 3, 5, 7} /\ Column(20) = {0, 1, 4, 5}
      /\ Column(21) = {2, 3, 6, 7} /\ Column(22) = 0 .. 3 /\ Column(23) = 4 .. 7
  BY DEF Column
<1> DEFINE b == 4 * d2 + 2 * d1 + d0
<1>4. /\ b \in {0, 2, 4, 6} <=> d0 = 0
      /\ b \in {1, 3, 5, 7} <=> d0 = 1
      /\ b \in {0, 1, 4, 5} <=> d1 = 0
      /\ b \in {2, 3, 6, 7} <=> d1 = 1
      /\ b \in 0 .. 3 <=> d2 = 0
      /\ b \in 4 .. 7 <=> d2 = 1
  BY Z3
<1> HIDE DEF b
<1>5. x % 8 = b
  BY <1>2 DEF b
<1>6. /\ 18 \div 2 = 9 /\ 19 \div 2 = 9 /\ 20 \div 2 = 10 /\ 21 \div 2 = 10
      /\ 22 \div 2 = 11 /\ 23 \div 2 = 11
      /\ 18 % 2 = 0 /\ 19 % 2 = 1 /\ 20 % 2 = 0 /\ 21 % 2 = 1 /\ 22 % 2 = 0 /\ 23 % 2 = 1
  BY Z3
<1>7. CASE k \in {18, 19}
  BY <1>1, <1>3, <1>4, <1>5, <1>6, <1>7
<1>8. CASE k \in {20, 21}
  BY <1>1, <1>3, <1>4, <1>5, <1>6, <1>8
<1>9. CASE k \in {22, 23}
  BY <1>1, <1>3, <1>4, <1>5, <1>6, <1>9
<1> QED BY <1>7, <1>8, <1>9

\* The later version, on machines of either endianness.
LEMMA Covers28Is ==
  ASSUME NEW size \in Sizes, NEW big \in BOOLEAN, NEW k \in CodeBits
  PROVE  Covers28[size][big][k] = Cover(size, k)
<1> DEFINE N == 0 .. 8 * size - 1
<1>0. N \subseteq Nat
  BY DEF Sizes
<1>1. CASE k \in 18 .. 23
  <2>1. Covers28[size][big][k] = {n \in N : n % 8 \in Column(k)}
    BY <1>1 DEF Covers28
  <2>2. \A n \in N : n % 8 \in Column(k) <=> InRowOf(size, k, n)
    BY <1>0, <1>1, ColumnRow DEF InRowOf
  <2> QED BY <2>1, <2>2 DEF Cover
<1>2. CASE k \in {16, 17} /\ size = 256
  <2>1. Covers28[size][big][k] = {}
    BY <1>2 DEF Covers28
  <2> QED BY <1>2, <2>1 DEF Cover, InRowOf
<1>3. CASE k \in 0 .. 17 /\ ~(k \in {16, 17} /\ size = 256)
  <2>1. Covers28[size][big][k] = {n \in N : InRow(big, k - (k % 2), n \div 8) <=> k % 2 = 0}
    BY <1>3 DEF Covers28
  <2>2. k - (k % 2) \in {0, 2, 4, 6, 8, 10, 12, 14, 16}
        /\ (k - (k % 2)) \div 2 = k \div 2 /\ k \div 2 \in 0 .. 11 /\ k % 2 \in {0, 1}
    BY <1>3, Z3
  <2>3. ASSUME NEW n \in N
        PROVE  (InRow(big, k - (k % 2), n \div 8) <=> k % 2 = 0) <=> InRowOf(size, k, n)
    <3>1. InRow(big, k - (k % 2), n \div 8) <=> Digit(k \div 2, n) = 0
      BY <1>0, <2>2, EvenRow
    <3>2. Digit(k \div 2, n) \in {0, 1}
      BY <1>0, <2>2, DigitType
    <3>3. InRowOf(size, k, n) <=> Digit(k \div 2, n) = k % 2
      BY <1>3 DEF InRowOf
    <3> QED BY <2>2, <3>1, <3>2, <3>3
  <2> QED BY <2>1, <2>3 DEF Cover
<1>4. k \in 18 .. 23 \/ k \in 0 .. 17
  BY DEF CodeBits
<1> QED BY <1>1, <1>2, <1>3, <1>4

\* The version before it.
LEMMA BitOfDigit ==
  ASSUME NEW j \in 0 .. 7, NEW x \in Nat
  PROVE  BitOf(j, x \div 8) = Digit(j, x)
<1> DEFINE a == x \div 8
           w == <<1, 2, 4, 8, 16, 32, 64, 128>>
<1>1. /\ w[0 + 1] = 1 /\ w[1 + 1] = 2 /\ w[2 + 1] = 4 /\ w[3 + 1] = 8
      /\ w[4 + 1] = 16 /\ w[5 + 1] = 32 /\ w[6 + 1] = 64 /\ w[7 + 1] = 128
  OBVIOUS
<1>2. BitOf(j, a) = (a \div w[j + 1]) % 2
  BY DEF BitOf
<1> HIDE DEF w
<1>3. a \div 1 = a
  BY Z3
<1>4. /\ j = 0 => Digit(j, x) = a % 2
      /\ j = 1 => Digit(j, x) = (a \div 2) % 2
      /\ j = 2 => Digit(j, x) = (a \div 4) % 2
      /\ j = 3 => Digit(j, x) = (a \div 8) % 2
      /\ j = 4 => Digit(j, x) = (a \div 16) % 2
      /\ j = 5 => Digit(j, x) = (a \div 32) % 2
      /\ j = 6 => Digit(j, x) = (a \div 64) % 2
      /\ j = 7 => Digit(j, x) = (a \div 128) % 2
  BY DEF Digit
<1> HIDE DEF a
<1>5. j \in {0, 1, 2, 3, 4, 5, 6, 7}
  OBVIOUS
<1>6. BitOf(j, a) = Digit(j, x)
  BY <1>1, <1>2, <1>3, <1>4, <1>5
<1> QED BY <1>6 DEF a

LEMMA Covers27Is ==
  ASSUME NEW k \in CodeBits
  PROVE  Covers27[k] = Cover(256, k)
<1> DEFINE N == 0 .. 2047
<1>0. N = 0 .. 8 * 256 - 1 /\ N \subseteq Nat
  OBVIOUS
<1>a. Cover(256, k) = {n \in N : InRowOf(256, k, n)}
  <2>1. Cover(256, k) = {n \in 0 .. 8 * 256 - 1 : InRowOf(256, k, n)}
    BY DEF Cover
  <2> HIDE DEF N
  <2> QED BY <1>0, <2>1
<1>1. CASE k \in 18 .. 23
  <2>1. Covers27[k] = {n \in N : n % 8 \in Column(k)}
    BY <1>1 DEF Covers27
  <2>2. \A n \in N : n % 8 \in Column(k) <=> InRowOf(256, k, n)
    BY <1>0, <1>1, ColumnRow DEF InRowOf
  <2> HIDE DEF N
  <2> QED BY <1>a, <2>1, <2>2
<1>2. CASE k \in {16, 17}
  <2>1. Covers27[k] = {}
    BY <1>2 DEF Covers27
  <2> QED BY <1>2, <2>1 DEF Cover, InRowOf
<1>3. CASE k \in 0 .. 15
  <2>1. Covers27[k] = {n \in N : BitOf(k \div 2, n \div 8) = k % 2}
    BY <1>3 DEF Covers27
  <2>2. k \div 2 \in 0 .. 7
    BY <1>3, Z3
  <2>3. \A n \in N : BitOf(k \div 2, n \div 8) = Digit(k \div 2, n)
    BY <1>0, <2>2, BitOfDigit
  <2>4. \A n \in N : InRowOf(256, k, n) <=> Digit(k \div 2, n) = k % 2
    BY <1>3 DEF InRowOf
  <2> HIDE DEF N
  <2> QED BY <1>a, <2>1, <2>3, <2>4
<1>4. k \in 18 .. 23 \/ k \in {16, 17} \/ k \in 0 .. 15
  BY DEF CodeBits
<1> QED BY <1>1, <1>2, <1>3, <1>4

-----------------------------------------------------------------------------
(* One code for all.                                                       *)

Code(d) == {c \in CodeBits : ~Odd(d \cap Cover(eccsize, Row(c)))}

LEMMA RowType == \A c \in CodeBits : Row(c) \in CodeBits
<1> SUFFICES ASSUME NEW c \in CodeBits PROVE Row(c) \in CodeBits
  OBVIOUS
<1>1. (c + 8) % 16 \in 0 .. 15
  BY Z3 DEF CodeBits
<1> QED BY <1>1 DEF Row, CodeBits

LEMMA LaterCode ==
  ASSUME NEW big \in BOOLEAN, NEW d, eccsize \in Sizes
  PROVE  calculate28(big, d) = Code(d)
<1>1. \A c \in CodeBits : Covers28[eccsize][big][Row(c)] = Cover(eccsize, Row(c))
  BY RowType, Covers28Is
<1>2. \A c \in CodeBits : Odd(d \cap Covers28[eccsize][big][Row(c)])
                           <=> Odd(d \cap Cover(eccsize, Row(c)))
  BY <1>1
<1> QED BY <1>2 DEF calculate28, Code

LEMMA FormerCode ==
  ASSUME NEW d, eccsize = 256
  PROVE  calculate27(d) = Code(d)
<1>1. \A c \in CodeBits : Covers27[Row(c)] = Cover(eccsize, Row(c))
  BY RowType, Covers27Is
<1>2. \A c \in CodeBits : Odd(d \cap Covers27[Row(c)]) <=> Odd(d \cap Cover(eccsize, Row(c)))
  BY <1>1
<1> QED BY <1>2 DEF calculate27, Code

-----------------------------------------------------------------------------
(* Correction.  The rows of a bit spell it.                                *)

Value(x) ==
  8 * (256 * Digit(8, x)
       + 16 * (Digit(4, x) + 2 * Digit(5, x) + 4 * Digit(6, x) + 8 * Digit(7, x))
       + (Digit(0, x) + 2 * Digit(1, x) + 4 * Digit(2, x) + 8 * Digit(3, x)))
  + (Digit(9, x) + 2 * Digit(10, x) + 4 * Digit(11, x))

LEMMA Spelled == ASSUME NEW x \in Int, x \in 0 .. 4095 PROVE Value(x) = x
<1> DEFINE a == x \div 8
<1>0. a \in 0 .. 511 /\ x = 8 * a + (x % 8)
  BY Z3
<1>1. x % 8 = 4 * (((x % 8) \div 4) % 2) + 2 * (((x % 8) \div 2) % 2) + ((x % 8) % 2)
  BY Z3
<1>2. /\ Digit(0, x) = a % 2 /\ Digit(1, x) = (a \div 2) % 2 /\ Digit(2, x) = (a \div 4) % 2
      /\ Digit(3, x) = (a \div 8) % 2 /\ Digit(4, x) = (a \div 16) % 2
      /\ Digit(5, x) = (a \div 32) % 2 /\ Digit(6, x) = (a \div 64) % 2
      /\ Digit(7, x) = (a \div 128) % 2 /\ Digit(8, x) = (a \div 256) % 2
      /\ Digit(9, x) = (x % 8) % 2 /\ Digit(10, x) = ((x % 8) \div 2) % 2
      /\ Digit(11, x) = ((x % 8) \div 4) % 2
  BY DEF Digit
<1>3. \A j \in 0 .. 11 : Digit(j, x) \in Int
  <2>0. x \in Nat
    OBVIOUS
  <2>1. \A j \in 0 .. 11 : Digit(j, x) \in {0, 1}
    BY <2>0, DigitType
  <2> QED BY <2>1
<1> HIDE DEF a
<1>4. a = Digit(0, x) + 2 * Digit(1, x) + 4 * Digit(2, x) + 8 * Digit(3, x) + 16 * Digit(4, x)
          + 32 * Digit(5, x) + 64 * Digit(6, x) + 128 * Digit(7, x) + 256 * Digit(8, x)
  <2> DEFINE b == a \div 4
             c == a \div 16
             e == a \div 64
  <2>0. a \in 0 .. 511
    BY <1>0
  <2>a. a = 4 * b + 2 * ((a \div 2) % 2) + (a % 2) /\ b \in Nat
    BY <2>0, Z3
  <2>b. b \div 2 = a \div 8 /\ b \div 4 = c
    BY <2>0, Z3
  <2>c. c \div 2 = a \div 32 /\ c \div 4 = e
    BY <2>0, Z3
  <2>d. e \div 2 = a \div 128 /\ e \div 4 = a \div 256
    BY <2>0, Z3
  <2>e. a \div 256 = (a \div 256) % 2
    BY <2>0, Z3
  <2>f. c \in Nat /\ e \in Nat
    BY <2>0, Z3
  <2>2. /\ b % 2 = Digit(2, x) /\ c % 2 = Digit(4, x) /\ e % 2 = Digit(6, x)
    BY <1>2
  <2> HIDE DEF b, c, e
  <2>3. b = 4 * (b \div 4) + 2 * ((b \div 2) % 2) + (b % 2)
    BY <2>a, Z3
  <2>4. c = 4 * (c \div 4) + 2 * ((c \div 2) % 2) + (c % 2)
    BY <2>f, Z3
  <2>5. e = 4 * (e \div 4) + 2 * ((e \div 2) % 2) + (e % 2)
    BY <2>f, Z3
  <2>6. a = 4 * b + 2 * Digit(1, x) + Digit(0, x)
    BY <1>2, <2>a
  <2>7. b = 4 * c + 2 * Digit(3, x) + Digit(2, x)
    BY <1>2, <2>2, <2>3, <2>b
  <2>8. c = 4 * e + 2 * Digit(5, x) + Digit(4, x)
    BY <1>2, <2>2, <2>4, <2>c
  <2>9. e = 4 * Digit(8, x) + 2 * Digit(7, x) + Digit(6, x)
    BY <1>2, <2>2, <2>5, <2>d, <2>e
  <2>10. /\ Digit(0, x) \in Int /\ Digit(1, x) \in Int /\ Digit(2, x) \in Int
         /\ Digit(3, x) \in Int /\ Digit(4, x) \in Int /\ Digit(5, x) \in Int
         /\ Digit(6, x) \in Int /\ Digit(7, x) \in Int /\ Digit(8, x) \in Int
    BY <1>3
  <2>11. b = 64 * Digit(8, x) + 32 * Digit(7, x) + 16 * Digit(6, x) + 8 * Digit(5, x)
             + 4 * Digit(4, x) + 2 * Digit(3, x) + Digit(2, x)
    BY <2>f, <2>7, <2>8, <2>9, <2>10
  <2> QED BY <2>6, <2>10, <2>11
<1>5. x % 8 = 4 * Digit(11, x) + 2 * Digit(10, x) + Digit(9, x)
  BY <1>1, <1>2
<1> QED BY <1>0, <1>3, <1>4, <1>5 DEF Value

\* A set of rows in which each pair says a digit of x.
Spells(size, s, x) ==
  \A j \in Pairs(size) : /\ 2 * j \in s <=> Digit(j, x) = 0
                         /\ 2 * j + 1 \in s <=> Digit(j, x) = 1

LEMMA Decode ==
  ASSUME NEW size \in Sizes, NEW x \in 0 .. 8 * size - 1, NEW s \in SUBSET CodeBits,
         Spells(size, s, x)
  PROVE  SingleError(size, s) /\ FaultyBit(size, s) = x /\ s # {}
<1>0. x \in Nat /\ x \in 0 .. 4095 /\ size \in {256, 512}
  BY DEF Sizes
<1>1. Pairs(size) \subseteq 0 .. 11 /\ {0, 1, 2, 3, 4, 5, 6, 7, 9, 10, 11} \subseteq Pairs(size)
  BY DEF Pairs
<1>a. \A j \in 0 .. 11 : Digit(j, x) \in {0, 1}
  BY <1>0, DigitType
<1>2. SingleError(size, s)
  <2> SUFFICES ASSUME NEW j \in Pairs(size) PROVE (2 * j \in s) # (2 * j + 1 \in s)
    BY DEF SingleError
  <2>1. Digit(j, x) = 0 \/ Digit(j, x) = 1
    BY <1>1, <1>a
  <2> QED BY <2>1 DEF Spells
<1>3. s # {}
  <2>1. 0 \in Pairs(size)
    BY <1>1
  <2>2. (2 * 0 \in s <=> Digit(0, x) = 0) /\ (2 * 0 + 1 \in s <=> Digit(0, x) = 1)
    BY <2>1 DEF Spells
  <2>3. Digit(0, x) = 0 \/ Digit(0, x) = 1
    BY <1>a
  <2> QED BY <2>2, <2>3
<1>b. /\ 1 \in s <=> Digit(0, x) = 1
      /\ 3 \in s <=> Digit(1, x) = 1
      /\ 5 \in s <=> Digit(2, x) = 1
      /\ 7 \in s <=> Digit(3, x) = 1
  <2>1. /\ 2 * 0 + 1 \in s <=> Digit(0, x) = 1
        /\ 2 * 1 + 1 \in s <=> Digit(1, x) = 1
        /\ 2 * 2 + 1 \in s <=> Digit(2, x) = 1
        /\ 2 * 3 + 1 \in s <=> Digit(3, x) = 1
    BY <1>1 DEF Spells
  <2> QED BY <2>1
<1>c. /\ 9 \in s <=> Digit(4, x) = 1
      /\ 11 \in s <=> Digit(5, x) = 1
      /\ 13 \in s <=> Digit(6, x) = 1
      /\ 15 \in s <=> Digit(7, x) = 1
  <2>1. /\ 2 * 4 + 1 \in s <=> Digit(4, x) = 1
        /\ 2 * 5 + 1 \in s <=> Digit(5, x) = 1
        /\ 2 * 6 + 1 \in s <=> Digit(6, x) = 1
        /\ 2 * 7 + 1 \in s <=> Digit(7, x) = 1
    BY <1>1 DEF Spells
  <2> QED BY <2>1
<1>d. /\ 19 \in s <=> Digit(9, x) = 1
      /\ 21 \in s <=> Digit(10, x) = 1
      /\ 23 \in s <=> Digit(11, x) = 1
  <2>1. /\ 2 * 9 + 1 \in s <=> Digit(9, x) = 1
        /\ 2 * 10 + 1 \in s <=> Digit(10, x) = 1
        /\ 2 * 11 + 1 \in s <=> Digit(11, x) = 1
    BY <1>1 DEF Spells
  <2> QED BY <2>1
<1>4. addressbits(s, 0) = Digit(0, x) + 2 * Digit(1, x) + 4 * Digit(2, x) + 8 * Digit(3, x)
  BY <1>a, <1>b DEF addressbits
<1>5. addressbits(s, 8) = Digit(4, x) + 2 * Digit(5, x) + 4 * Digit(6, x) + 8 * Digit(7, x)
  BY <1>a, <1>c DEF addressbits
<1>6. addressbits(s, 18) = Digit(9, x) + 2 * Digit(10, x) + 4 * Digit(11, x)
  <2>1. 25 \notin s
    BY DEF CodeBits
  <2> QED BY <1>a, <1>d, <2>1 DEF addressbits
<1>7. (IF size = 256 THEN 0 ELSE 256 * addressbits(s \cap {16, 17}, 16)) = 256 * Digit(8, x)
  <2>1. CASE size = 256
    <3>1. Digit(8, x) = ((x \div 8) \div 256) % 2
      BY DEF Digit
    <3>2. ((x \div 8) \div 256) % 2 = 0
      <4>1. x \in 0 .. 2047
        BY <2>1
      <4> QED BY <4>1, Z3
    <3> QED BY <2>1, <3>1, <3>2
  <2>2. CASE size = 512
    <3>1. 8 \in Pairs(size)
      BY <2>2 DEF Pairs
    <3>2. 2 * 8 + 1 \in s <=> Digit(8, x) = 1
      BY <3>1 DEF Spells
    <3>3. 17 \in s \cap {16, 17} <=> Digit(8, x) = 1
      BY <3>2
    <3>4. 19 \notin s \cap {16, 17} /\ 21 \notin s \cap {16, 17} /\ 23 \notin s \cap {16, 17}
      OBVIOUS
    <3> DEFINE t == s \cap {16, 17}
    <3> HIDE DEF t
    <3>5. addressbits(t, 16) = Digit(8, x)
      BY <1>a, <3>3, <3>4 DEF addressbits, t
    <3> QED BY <2>2, <3>5 DEF t
  <2> QED BY <1>0, <2>1, <2>2
<1>8. FaultyBit(size, s) = x
  <2>1. \A j \in 0 .. 11 : Digit(j, x) \in Int
    BY <1>a
  <2>2. byte_addr(size, s)
          = 256 * Digit(8, x)
            + 16 * (Digit(4, x) + 2 * Digit(5, x) + 4 * Digit(6, x) + 8 * Digit(7, x))
            + (Digit(0, x) + 2 * Digit(1, x) + 4 * Digit(2, x) + 8 * Digit(3, x))
    BY <1>4, <1>5, <1>7 DEF byte_addr
  <2>3. bit_addr(s) = Digit(9, x) + 2 * Digit(10, x) + 4 * Digit(11, x)
    BY <1>6 DEF bit_addr
  <2>4. FaultyBit(size, s) = Value(x)
    BY <2>2, <2>3, Zenon DEF FaultyBit, Value
  <2>5. x \in 0 .. 4095
    BY <1>0
  <2> QED BY <2>4, <2>5, Spelled
<1> QED BY <1>2, <1>3, <1>8

\* A bit spells itself, and so no other bit is spelled the same.
Rows(size, x) == {k \in CodeBits : InRowOf(size, k, x)}

LEMMA RowsSpell ==
  ASSUME NEW size \in Sizes, NEW x \in 0 .. 8 * size - 1
  PROVE  Spells(size, Rows(size, x), x)
<1> SUFFICES ASSUME NEW j \in Pairs(size)
             PROVE  /\ 2 * j \in Rows(size, x) <=> Digit(j, x) = 0
                    /\ 2 * j + 1 \in Rows(size, x) <=> Digit(j, x) = 1
  BY DEF Spells
<1>1. j \in 0 .. 11 /\ (size = 256 => j # 8)
  BY DEF Pairs
<1>2. /\ (2 * j) \div 2 = j /\ (2 * j) % 2 = 0
      /\ (2 * j + 1) \div 2 = j /\ (2 * j + 1) % 2 = 1
  BY <1>1, Z3
<1>3. 2 * j \in CodeBits /\ 2 * j + 1 \in CodeBits
  BY <1>1 DEF CodeBits
<1>4. size = 256 => 2 * j \notin {16, 17} /\ 2 * j + 1 \notin {16, 17}
  BY <1>1
<1> QED BY <1>2, <1>3, <1>4 DEF Rows, InRowOf

LEMMA BitsDiffer ==
  ASSUME NEW size \in Sizes, NEW x \in 0 .. 8 * size - 1, NEW y \in 0 .. 8 * size - 1, x # y
  PROVE  \E j \in Pairs(size) : Digit(j, x) # Digit(j, y)
<1> SUFFICES ASSUME \A j \in Pairs(size) : Digit(j, x) = Digit(j, y) PROVE FALSE
  OBVIOUS
<1>1. Spells(size, Rows(size, x), x)
  BY RowsSpell
<1>2. Spells(size, Rows(size, x), y)
  BY <1>1 DEF Spells
<1>3. Rows(size, x) \in SUBSET CodeBits
  BY DEF Rows
<1>4. FaultyBit(size, Rows(size, x)) = x
  BY <1>1, <1>3, Decode
<1>5. FaultyBit(size, Rows(size, x)) = y
  BY <1>2, <1>3, Decode
<1> QED BY <1>4, <1>5

-----------------------------------------------------------------------------
(* Parities.                                                               *)

LEMMA ParityFlips ==
  ASSUME NEW S, IsFiniteSet(S), NEW x
  PROVE  /\ IsFiniteSet(SymDiff(S, {x}))
         /\ Odd(SymDiff(S, {x})) <=> ~Odd(S)
<1>0. Cardinality(S) \in Nat
  BY FS_CardinalityType
<1>1. CASE x \in S
  <2>1. SymDiff(S, {x}) = S \ {x}
    BY <1>1 DEF SymDiff
  <2>2. IsFiniteSet(S \ {x}) /\ Cardinality(S \ {x}) = Cardinality(S) - 1
    BY <1>1, FS_RemoveElement
  <2>3. (Cardinality(S) - 1) % 2 = 1 <=> ~(Cardinality(S) % 2 = 1)
    BY <1>0, Z3
  <2> QED BY <2>1, <2>2, <2>3 DEF Odd
<1>2. CASE x \notin S
  <2>1. SymDiff(S, {x}) = S \cup {x}
    BY <1>2 DEF SymDiff
  <2>2. IsFiniteSet(S \cup {x}) /\ Cardinality(S \cup {x}) = Cardinality(S) + 1
    BY <1>2, FS_AddElement
  <2>3. (Cardinality(S) + 1) % 2 = 1 <=> ~(Cardinality(S) % 2 = 1)
    BY <1>0, Z3
  <2> QED BY <2>1, <2>2, <2>3 DEF Odd
<1> QED BY <1>1, <1>2

\* A flipped bit changes the parities of the rows it is in.
LEMMA RowFlips ==
  ASSUME NEW S, IsFiniteSet(S), NEW x, NEW C
  PROVE  Odd(SymDiff(S, {x}) \cap C) <=> (Odd(S \cap C) <=> x \notin C)
<1>1. CASE x \in C
  <2>1. SymDiff(S, {x}) \cap C = SymDiff(S \cap C, {x})
    BY <1>1 DEF SymDiff
  <2>2. IsFiniteSet(S \cap C)
    BY FS_Subset
  <2> QED BY <1>1, <2>1, <2>2, ParityFlips
<1>2. CASE x \notin C
  <2>1. SymDiff(S, {x}) \cap C = S \cap C
    BY <1>2 DEF SymDiff
  <2> QED BY <1>2, <2>1
<1> QED BY <1>1, <1>2

\* A set that falls into two halves of one size is even.
LEMMA Halves ==
  ASSUME NEW A, NEW B, IsFiniteSet(A), A \cap B = {}, ExistsBijection(A, B)
  PROVE  ~Odd(A \cup B)
<1>1. IsFiniteSet(B) /\ Cardinality(B) = Cardinality(A)
  BY FS_Bijection
<1>2. Cardinality(A \cup B) = Cardinality(A) + Cardinality(B) - Cardinality(A \cap B)
  BY <1>1, FS_Union
<1>3. Cardinality(A \cap B) = 0 /\ Cardinality(A) \in Nat
  BY FS_EmptySet, FS_CardinalityType
<1> DEFINE n == Cardinality(A)
<1>4. Cardinality(A \cup B) = 2 * n /\ n \in Nat
  BY <1>1, <1>2, <1>3
<1> HIDE DEF n
<1>5. ~((2 * n) % 2 = 1)
  BY <1>4, Z3
<1> QED BY <1>4, <1>5 DEF Odd

LEMMA Paired ==
  ASSUME NEW C \in SUBSET Int, IsFiniteSet(C), NEW A \in SUBSET C, NEW w \in Int,
         \A x \in A : x + w \in C \ A,
         \A x \in C \ A : x - w \in A
  PROVE  ~Odd(C)
<1> DEFINE B == C \ A
           f == [x \in A |-> x + w]
<1>1. f \in Injection(A, B)
  <2>1. f \in [A -> B]
    OBVIOUS
  <2>2. \A x, y \in A : f[x] = f[y] => x = y
    OBVIOUS
  <2> QED BY <2>1, <2>2 DEF Injection, IsInjective
<1>2. f \in Surjection(A, B)
  <2>1. f \in [A -> B]
    OBVIOUS
  <2>2. \A y \in B : \E x \in A : f[x] = y
    <3> SUFFICES ASSUME NEW y \in B PROVE \E x \in A : f[x] = y
      OBVIOUS
    <3>1. y - w \in A
      OBVIOUS
    <3>2. f[y - w] = y
      BY <3>1
    <3> QED BY <3>1, <3>2
  <2> QED BY <2>1, <2>2 DEF Surjection
<1>3. ExistsBijection(A, B)
  BY <1>1, <1>2 DEF ExistsBijection, Bijection
<1>4. IsFiniteSet(A)
  BY FS_Subset
<1>5. A \cap B = {} /\ A \cup B = C
  OBVIOUS
<1> HIDE DEF B, f
<1> QED BY <1>3, <1>4, <1>5, Halves

\* The neighbour of a bit, and the bit two further on, differ from it in one of
\* the lower digits only.
LEMMA NextDigits ==
  ASSUME NEW x \in Nat, x % 2 = 0, NEW j \in 0 .. 11, j # 9
  PROVE  Digit(j, x + 1) = Digit(j, x)
<1>1. (x + 1) \div 8 = x \div 8 /\ ((x + 1) % 8) \div 2 = (x % 8) \div 2
      /\ ((x + 1) % 8) \div 4 = (x % 8) \div 4
  BY Z3
<1>2. j \in {0, 1, 2, 3, 4, 5, 6, 7, 8, 10, 11}
  OBVIOUS
<1>3. \A y : /\ Digit(0, y) = (y \div 8) % 2
             /\ Digit(1, y) = ((y \div 8) \div 2) % 2
             /\ Digit(2, y) = ((y \div 8) \div 4) % 2
             /\ Digit(3, y) = ((y \div 8) \div 8) % 2
             /\ Digit(4, y) = ((y \div 8) \div 16) % 2
             /\ Digit(5, y) = ((y \div 8) \div 32) % 2
             /\ Digit(6, y) = ((y \div 8) \div 64) % 2
             /\ Digit(7, y) = ((y \div 8) \div 128) % 2
             /\ Digit(8, y) = ((y \div 8) \div 256) % 2
             /\ Digit(10, y) = ((y % 8) \div 2) % 2
             /\ Digit(11, y) = ((y % 8) \div 4) % 2
  BY DEF Digit
<1> QED BY <1>1, <1>2, <1>3

LEMMA SecondNextDigit ==
  ASSUME NEW x \in Nat, (x \div 2) % 2 = 0
  PROVE  Digit(9, x + 2) = Digit(9, x)
<1>1. ((x + 2) % 8) % 2 = (x % 8) % 2
  BY Z3
<1>2. Digit(9, x + 2) = ((x + 2) % 8) % 2 /\ Digit(9, x) = (x % 8) % 2
  BY DEF Digit
<1> QED BY <1>1, <1>2

\* A row has an even number of bits, so that the code of an erased page is all
\* ones.
LEMMA RowsEven ==
  ASSUME NEW size \in Sizes, NEW k \in CodeBits
  PROVE  ~Odd(Cover(size, k))
<1> DEFINE C == Cover(size, k)
           N == 0 .. 8 * size - 1
<1>0. size \in {256, 512} /\ N \subseteq Nat /\ C \subseteq N
  BY DEF Sizes, Cover
<1>1. IsFiniteSet(C)
  <2>1. IsFiniteSet(N)
    BY <1>0, FS_Interval
  <2> QED BY <1>0, <2>1, FS_Subset
<1>2. k \div 2 \in 0 .. 11
  BY Z3 DEF CodeBits
<1>3. \A x, y \in N : Digit(k \div 2, x) = Digit(k \div 2, y) => (x \in C <=> y \in C)
  BY DEF Cover, InRowOf
<1>a. C \in SUBSET Int
  BY <1>0
<1> HIDE DEF C
<1>4. CASE k \div 2 # 9
  <2> DEFINE A == {x \in C : x % 2 = 0}
  <2>1. ASSUME NEW x \in A PROVE x + 1 \in C \ A
    <3>1. x \in N /\ x % 2 = 0
      BY <1>0
    <3>2. x + 1 \in N
      BY <1>0, <3>1, Z3
    <3>3. (x + 1) % 2 # 0
      BY <1>0, <3>1, Z3
    <3>4. Digit(k \div 2, x + 1) = Digit(k \div 2, x)
      BY <1>0, <1>2, <1>4, <3>1, NextDigits
    <3> QED BY <1>3, <3>1, <3>2, <3>3, <3>4
  <2>2. ASSUME NEW x \in C \ A PROVE x - 1 \in A
    <3>1. x \in N /\ x % 2 # 0
      BY <1>0
    <3>2. x - 1 \in N /\ (x - 1) + 1 = x
      BY <1>0, <3>1, Z3
    <3>3. (x - 1) % 2 = 0
      BY <1>0, <3>1, Z3
    <3>4. Digit(k \div 2, (x - 1) + 1) = Digit(k \div 2, x - 1)
      BY <1>0, <1>2, <1>4, <3>2, <3>3, NextDigits
    <3> QED BY <1>3, <3>1, <3>2, <3>3, <3>4
  <2>3. A \in SUBSET C
    OBVIOUS
  <2> HIDE DEF A
  <2>4. /\ \A x \in A : x + 1 \in C \ A
        /\ \A x \in C \ A : x - 1 \in A
    BY <2>1, <2>2
  <2>5. ~Odd(C)
    BY <1>1, <1>a, <2>3, <2>4, Paired
  <2> QED BY <2>5 DEF C
<1>5. CASE k \div 2 = 9
  <2> DEFINE A == {x \in C : (x \div 2) % 2 = 0}
  <2>1. ASSUME NEW x \in A PROVE x + 2 \in C \ A
    <3>1. x \in N /\ (x \div 2) % 2 = 0
      BY <1>0
    <3>2. x + 2 \in N
      BY <1>0, <3>1, Z3
    <3>3. ((x + 2) \div 2) % 2 # 0
      BY <1>0, <3>1, Z3
    <3>4. Digit(k \div 2, x + 2) = Digit(k \div 2, x)
      BY <1>0, <1>5, <3>1, SecondNextDigit
    <3> QED BY <1>3, <3>1, <3>2, <3>3, <3>4
  <2>2. ASSUME NEW x \in C \ A PROVE x - 2 \in A
    <3>1. x \in N /\ (x \div 2) % 2 # 0
      BY <1>0
    <3>2. x - 2 \in N /\ (x - 2) + 2 = x
      BY <1>0, <3>1, Z3
    <3>3. ((x - 2) \div 2) % 2 = 0
      BY <1>0, <3>1, Z3
    <3>4. Digit(k \div 2, (x - 2) + 2) = Digit(k \div 2, x - 2)
      BY <1>0, <1>5, <3>2, <3>3, SecondNextDigit
    <3> QED BY <1>3, <3>1, <3>2, <3>3, <3>4
  <2>3. A \in SUBSET C
    OBVIOUS
  <2> HIDE DEF A
  <2>4. /\ \A x \in A : x + 2 \in C \ A
        /\ \A x \in C \ A : x - 2 \in A
    BY <2>1, <2>2
  <2>5. ~Odd(C)
    BY <1>1, <1>a, <2>3, <2>4, Paired
  <2> QED BY <2>5 DEF C
<1> QED BY <1>4, <1>5

-----------------------------------------------------------------------------
(* Differences.  What nand_correct_data takes a set of rows for: those of  *)
(* one bit or two, of a bit and a row of the code itself, of one row or    *)
(* two.                                                                    *)

Hopeless(size, s) == s # {} /\ ~SingleError(size, s) /\ Cardinality(s) # 1

LEMMA TwoElements ==
  ASSUME NEW s \in SUBSET CodeBits, NEW a \in s, NEW b \in s, a # b
  PROVE  s # {} /\ Cardinality(s) # 1
<1>1. IsFiniteSet(s)
  <2>1. IsFiniteSet(0 .. 23)
    BY 0 \in Int, 23 \in Int, FS_Interval
  <2> QED BY <2>1, FS_Subset DEF CodeBits
<1>2. ASSUME Cardinality(s) = 1 PROVE FALSE
  <2>1. PICK x : s = {x}
    BY <1>1, <1>2, FS_Singleton
  <2> QED BY <2>1
<1> QED BY <1>2

LEMMA PairOf ==
  ASSUME NEW size \in Sizes, NEW j \in Pairs(size)
  PROVE  /\ j \in 0 .. 11 /\ 2 * j \in CodeBits /\ 2 * j + 1 \in CodeBits /\ 2 * j # 2 * j + 1
         /\ (2 * j) \div 2 = j /\ (2 * j + 1) \div 2 = j
         /\ (2 * j) % 2 = 0 /\ (2 * j + 1) % 2 = 1
         /\ \A x : /\ InRowOf(size, 2 * j, x) <=> Digit(j, x) = 0
                   /\ InRowOf(size, 2 * j + 1, x) <=> Digit(j, x) = 1
<1>1. j \in 0 .. 11 /\ (size = 256 => j # 8)
  BY DEF Pairs
<1>2. /\ (2 * j) \div 2 = j /\ (2 * j) % 2 = 0
      /\ (2 * j + 1) \div 2 = j /\ (2 * j + 1) % 2 = 1
  BY <1>1, Z3
<1>3. 2 * j \in CodeBits /\ 2 * j + 1 \in CodeBits /\ 2 * j # 2 * j + 1
  BY <1>1 DEF CodeBits
<1>4. size = 256 => 2 * j \notin {16, 17} /\ 2 * j + 1 \notin {16, 17}
  BY <1>1
<1> QED BY <1>1, <1>2, <1>3, <1>4 DEF InRowOf

LEMMA TwoBits ==
  ASSUME NEW size \in Sizes, NEW x \in 0 .. 8 * size - 1, NEW y \in 0 .. 8 * size - 1, x # y,
         NEW s \in SUBSET CodeBits,
         \A k \in CodeBits : k \in s <=> ~(InRowOf(size, k, x) <=> InRowOf(size, k, y))
  PROVE  Hopeless(size, s)
<1>0. x \in Nat /\ y \in Nat
  BY DEF Sizes
<1>1. PICK j \in Pairs(size) : Digit(j, x) # Digit(j, y)
  BY BitsDiffer
<1>2. Digit(j, x) \in {0, 1} /\ Digit(j, y) \in {0, 1}
  BY <1>0, PairOf, DigitType
<1>3. 2 * j \in s /\ 2 * j + 1 \in s /\ 2 * j # 2 * j + 1
  BY <1>1, <1>2, PairOf
<1>4. ~SingleError(size, s)
  BY <1>3 DEF SingleError
<1> QED BY <1>3, <1>4, TwoElements DEF Hopeless

LEMMA OneBit ==
  ASSUME NEW size \in Sizes, NEW x \in 0 .. 8 * size - 1, NEW s \in SUBSET CodeBits,
         \A k \in CodeBits : k \in s <=> InRowOf(size, k, x)
  PROVE  SingleError(size, s) /\ FaultyBit(size, s) = x /\ s # {}
<1>1. s = Rows(size, x)
  BY DEF Rows
<1> QED BY <1>1, RowsSpell, Decode

LEMMA OneRow ==
  ASSUME NEW size \in Sizes, NEW k \in CodeBits
  PROVE  ~SingleError(size, {k}) /\ Cardinality({k}) = 1
<1>1. 0 \in Pairs(size) /\ 1 \in Pairs(size)
  BY DEF Pairs
<1>2. (2 * 0 \notin {k} /\ 2 * 0 + 1 \notin {k}) \/ (2 * 1 \notin {k} /\ 2 * 1 + 1 \notin {k})
  BY DEF CodeBits
<1>3. ~SingleError(size, {k})
  BY <1>1, <1>2 DEF SingleError
<1> QED BY <1>3, FS_Singleton

LEMMA TwoRows ==
  ASSUME NEW size \in Sizes, NEW k \in CodeBits, NEW l \in CodeBits, k # l
  PROVE  Hopeless(size, {k, l})
<1>1. 0 \in Pairs(size) /\ 1 \in Pairs(size) /\ 2 \in Pairs(size)
  BY DEF Pairs
<1>2. \/ 2 * 0 \notin {k, l} /\ 2 * 0 + 1 \notin {k, l}
      \/ 2 * 1 \notin {k, l} /\ 2 * 1 + 1 \notin {k, l}
      \/ 2 * 2 \notin {k, l} /\ 2 * 2 + 1 \notin {k, l}
  BY DEF CodeBits
<1>3. ~SingleError(size, {k, l})
  BY <1>1, <1>2 DEF SingleError
<1>4. {k, l} \in SUBSET CodeBits
  OBVIOUS
<1> QED BY <1>3, <1>4, TwoElements DEF Hopeless

LEMMA BitAndRow ==
  ASSUME NEW size \in Sizes, NEW x \in 0 .. 8 * size - 1, NEW l \in CodeBits,
         NEW s \in SUBSET CodeBits,
         \A k \in CodeBits : k \in s <=> ~(InRowOf(size, k, x) <=> k = l)
  PROVE  \/ SingleError(size, s) /\ FaultyBit(size, s) = x /\ s # {}
         \/ Hopeless(size, s)
<1>0. x \in Nat
  BY DEF Sizes
<1>1. \A j \in Pairs(size) : Digit(j, x) \in {0, 1}
  BY <1>0, PairOf, DigitType
<1>2. CASE \A j \in Pairs(size) : 2 * j # l /\ 2 * j + 1 # l
  <2>1. Spells(size, s, x)
    BY <1>2, PairOf DEF Spells
  <2> QED BY <2>1, Decode
<1>3. CASE \E j \in Pairs(size) : 2 * j = l \/ 2 * j + 1 = l
  <2>1. PICK j \in Pairs(size) : 2 * j = l \/ 2 * j + 1 = l
    BY <1>3
  <2>2. 2 * j \in s <=> 2 * j + 1 \in s
    BY <1>1, <2>1, PairOf
  <2>3. ~SingleError(size, s)
    BY <2>2 DEF SingleError
  <2>4. {0, 1, 2} \subseteq Pairs(size)
    BY DEF Pairs
  <2>5. PICK i1 \in {0, 1, 2}, i2 \in {0, 1, 2} : i1 # j /\ i2 # j /\ i1 # i2
    <3>1. \/ 0 # j /\ 1 # j
          \/ 0 # j /\ 2 # j
          \/ 1 # j /\ 2 # j
      OBVIOUS
    <3> QED BY <3>1
  <2>6. ASSUME NEW i \in {0, 1, 2}, i # j PROVE 2 * i \in s \/ 2 * i + 1 \in s
    <3>1. i \in Pairs(size) /\ j \in 0 .. 11
      BY <2>4, PairOf
    <3>2. 2 * i # l /\ 2 * i + 1 # l
      BY <2>1, <2>6, <3>1
    <3> QED BY <1>1, <3>1, <3>2, PairOf
  <2>7. PICK a \in s : a \in {2 * i1, 2 * i1 + 1}
    BY <2>5, <2>6
  <2>8. PICK b \in s : b \in {2 * i2, 2 * i2 + 1}
    BY <2>5, <2>6
  <2>9. a # b
    BY <2>5, <2>7, <2>8
  <2> QED BY <2>3, <2>9, TwoElements DEF Hopeless
<1> QED BY <1>2, <1>3

-----------------------------------------------------------------------------
(* The page.                                                               *)

Places == Bits \cup {-1 - c : c \in CodeBits}

\* What was programmed, and at most two flips of it or of its code.
PageInv ==
  /\ machine \in Machines
  /\ written \subseteq Bits
  /\ \/ flips = {}
     \/ \E x \in Places : flips = {x}
     \/ \E x, y \in Places : x # y /\ flips = {x, y}
  /\ data = SymDiff(written, flips \cap Bits)
  /\ code = {c \in CodeBits : c \in Code(written) <=> -1 - c \notin flips}

\* The rows whose parity the flips of data bits change, and those whose bit of
\* the code has flipped.
Turned(k)  == ~(Odd(written \cap Cover(eccsize, k)) <=> Odd(data \cap Cover(eccsize, k)))
Flipped(k) == -1 - Row(k) \in flips

LEMMA MachineFacts ==
  ASSUME machine \in Machines
  PROVE  /\ eccsize \in Sizes
         /\ Versions \subseteq {"2.6.27", "2.6.28"}
         /\ "2.6.27" \in Versions => eccsize = 256
         /\ machine.BIG_ENDIAN \in BOOLEAN
         /\ Pages[eccsize] \subseteq SUBSET Bits
<1>1. eccsize \in Sizes /\ machine.BIG_ENDIAN \in BOOLEAN
  BY EccAssumption DEF eccsize
<1>2. Versions \subseteq IF eccsize = 256 THEN {"2.6.27", "2.6.28"} ELSE {"2.6.28"}
  BY EccAssumption DEF eccsize, Versions
<1>3. Pages[eccsize] \subseteq SUBSET (0 .. 8 * eccsize - 1)
  BY <1>1, EccAssumption
<1>4. "2.6.27" # "2.6.28"
  OBVIOUS
<1> QED BY <1>1, <1>2, <1>3, <1>4 DEF Bits

LEMMA OneCode ==
  ASSUME machine \in Machines, NEW v \in Versions, NEW d
  PROVE  nand_calculate_ecc(v, d) = Code(d)
<1>1. CASE v = "2.6.27"
  BY <1>1, MachineFacts, FormerCode DEF nand_calculate_ecc
<1>2. CASE v # "2.6.27"
  BY <1>2, MachineFacts, LaterCode DEF nand_calculate_ecc
<1> QED BY <1>1, <1>2

LEMMA RowOfRow == \A c \in CodeBits : Row(Row(c)) = c
<1> SUFFICES ASSUME NEW c \in CodeBits PROVE Row(Row(c)) = c
  OBVIOUS
<1>1. CASE machine.CONFIG_MTD_NAND_ECC_SMC \/ c \geq 16
  BY <1>1 DEF Row
<1>2. CASE ~(machine.CONFIG_MTD_NAND_ECC_SMC \/ c \geq 16)
  <2>1. c \in 0 .. 15
    BY <1>2 DEF CodeBits
  <2>2. (c + 8) % 16 \in 0 .. 15 /\ (((c + 8) % 16) + 8) % 16 = c
    BY <2>1, Z3
  <2>3. Row(c) = (c + 8) % 16 /\ ~((c + 8) % 16 \geq 16)
    BY <1>2, <2>2 DEF Row
  <2>4. Row((c + 8) % 16) = (((c + 8) % 16) + 8) % 16
    BY <1>2, <2>3 DEF Row
  <2> QED BY <2>2, <2>3, <2>4
<1> QED BY <1>1, <1>2

LEMMA Syndrome ==
  ASSUME PageInv, NEW v \in Versions
  PROVE  LET s == {Row(c) : c \in SymDiff(code, nand_calculate_ecc(v, data))}
         IN  /\ s \in SUBSET CodeBits
             /\ \A k \in CodeBits : k \in s <=> ~(Turned(k) <=> Flipped(k))
<1> DEFINE t == SymDiff(code, Code(data))
           s == {Row(c) : c \in t}
<1>1. nand_calculate_ecc(v, data) = Code(data)
  BY OneCode DEF PageInv
<1>2. t \subseteq CodeBits
  BY DEF PageInv, SymDiff, Code
<1>3. s \in SUBSET CodeBits
  BY <1>2, RowType
<1>4. ASSUME NEW k \in CodeBits PROVE k \in s <=> Row(k) \in t
  BY <1>2, <1>4, RowOfRow, RowType
<1>5. ASSUME NEW k \in CodeBits PROVE Row(k) \in t <=> ~(Turned(k) <=> Flipped(k))
  <2> DEFINE c == Row(k)
  <2>1. c \in CodeBits /\ Row(c) = k
    BY <1>5, RowOfRow, RowType
  <2>2. c \in Code(written) <=> ~Odd(written \cap Cover(eccsize, k))
    BY <2>1 DEF Code
  <2>3. c \in Code(data) <=> ~Odd(data \cap Cover(eccsize, k))
    BY <2>1 DEF Code
  <2>4. c \in code <=> (c \in Code(written) <=> -1 - c \notin flips)
    BY <2>1 DEF PageInv
  <2>5. c \in t <=> ~(c \in code <=> c \in Code(data))
    BY DEF SymDiff
  <2> QED BY <2>2, <2>3, <2>4, <2>5 DEF Turned, Flipped
<1> QED BY <1>1, <1>3, <1>4, <1>5

LEMMA PageFacts ==
  ASSUME PageInv
  PROVE  /\ eccsize \in Sizes /\ IsFiniteSet(written)
         /\ \A x \in Bits : \A k : x \in Cover(eccsize, k) <=> InRowOf(eccsize, k, x)
<1>1. eccsize \in Sizes
  BY MachineFacts DEF PageInv
<1>2. IsFiniteSet(Bits)
  <2>1. 8 * eccsize - 1 \in Int
    BY <1>1 DEF Sizes
  <2>2. 0 \in Int
    OBVIOUS
  <2> QED BY <2>1, <2>2, FS_Interval DEF Bits
<1>3. IsFiniteSet(written)
  BY <1>2, FS_Subset DEF PageInv
<1> QED BY <1>1, <1>3 DEF Bits, Cover

\* What no flip of the data, one and two of them do.
LEMMA NoneTurned ==
  ASSUME PageInv, flips \cap Bits = {}
  PROVE  data = written /\ \A k : ~Turned(k)
<1>1. data = written
  BY DEF PageInv, SymDiff
<1> QED BY <1>1 DEF Turned

LEMMA OneTurned ==
  ASSUME PageInv, NEW x \in Bits, flips \cap Bits = {x}
  PROVE  /\ data # written /\ SymDiff(data, {x}) = written
         /\ \A k : Turned(k) <=> InRowOf(eccsize, k, x)
<1>1. data = SymDiff(written, {x})
  BY DEF PageInv
<1>2. data # written /\ SymDiff(data, {x}) = written
  BY <1>1 DEF SymDiff
<1>3. ASSUME NEW k PROVE Turned(k) <=> InRowOf(eccsize, k, x)
  <2>1. Odd(data \cap Cover(eccsize, k))
          <=> (Odd(written \cap Cover(eccsize, k)) <=> x \notin Cover(eccsize, k))
    BY <1>1, PageFacts, RowFlips
  <2>2. x \in Cover(eccsize, k) <=> InRowOf(eccsize, k, x)
    BY PageFacts
  <2> QED BY <2>1, <2>2 DEF Turned
<1> QED BY <1>2, <1>3

LEMMA TwoTurned ==
  ASSUME PageInv, NEW x \in Bits, NEW y \in Bits, x # y, flips \cap Bits = {x, y}
  PROVE  \A k : Turned(k) <=> ~(InRowOf(eccsize, k, x) <=> InRowOf(eccsize, k, y))
<1> SUFFICES ASSUME NEW k
             PROVE  Turned(k) <=> ~(InRowOf(eccsize, k, x) <=> InRowOf(eccsize, k, y))
  OBVIOUS
<1> DEFINE once == SymDiff(written, {x})
           C    == Cover(eccsize, k)
<1>1. data = SymDiff(once, {y})
  BY DEF PageInv, SymDiff
<1>2. IsFiniteSet(once)
  BY PageFacts, ParityFlips
<1>3. Odd(once \cap C) <=> (Odd(written \cap C) <=> x \notin C)
  BY PageFacts, RowFlips
<1> HIDE DEF once
<1>4. Odd(data \cap C) <=> (Odd(once \cap C) <=> y \notin C)
  BY <1>1, <1>2, RowFlips
<1>5. (x \in C <=> InRowOf(eccsize, k, x)) /\ (y \in C <=> InRowOf(eccsize, k, y))
  BY PageFacts
<1> QED BY <1>3, <1>4, <1>5 DEF Turned

LEMMA PlaceOrBit ==
  \A c \in CodeBits : -1 - c \notin Bits
BY DEF CodeBits, Bits

\* What a read returns.
Answer(r) ==
  /\ flips = {} => r = [result |-> "clean", buf |-> written]
  /\ \A x : flips = {x} => r = [result |-> "fixed", buf |-> written]
  /\ \A x, y : x # y /\ flips = {x, y} =>
       r = [result |-> "fixed", buf |-> written] \/ r = [result |-> "failed", buf |-> data]

LEMMA CleanRead ==
  ASSUME PageInv, flips = {}, NEW s \in SUBSET CodeBits,
         \A k \in CodeBits : k \in s <=> ~(Turned(k) <=> Flipped(k))
  PROVE  nand_correct_data(eccsize, data, s) = [result |-> "clean", buf |-> written]
<1>1. data = written /\ \A k : ~Turned(k)
  BY NoneTurned
<1>2. s = {}
  BY <1>1 DEF Flipped
<1> QED BY <1>1, <1>2 DEF nand_correct_data

LEMMA BitRead ==
  ASSUME PageInv, NEW x \in Bits, flips = {x}, NEW s \in SUBSET CodeBits,
         \A k \in CodeBits : k \in s <=> ~(Turned(k) <=> Flipped(k))
  PROVE  nand_correct_data(eccsize, data, s) = [result |-> "fixed", buf |-> written]
<1>1. SymDiff(data, {x}) = written /\ \A k : Turned(k) <=> InRowOf(eccsize, k, x)
  BY OneTurned
<1>2. \A k \in CodeBits : ~Flipped(k)
  BY RowType, PlaceOrBit DEF Flipped
<1>3. \A k \in CodeBits : k \in s <=> InRowOf(eccsize, k, x)
  BY <1>1, <1>2
<1>4. SingleError(eccsize, s) /\ FaultyBit(eccsize, s) = x /\ s # {}
  BY <1>3, PageFacts, OneBit DEF Bits
<1> QED BY <1>1, <1>4 DEF nand_correct_data

LEMMA CodeRead ==
  ASSUME PageInv, NEW c \in CodeBits, flips = {-1 - c}, NEW s \in SUBSET CodeBits,
         \A k \in CodeBits : k \in s <=> ~(Turned(k) <=> Flipped(k))
  PROVE  nand_correct_data(eccsize, data, s) = [result |-> "fixed", buf |-> written]
<1>1. data = written /\ \A k : ~Turned(k)
  BY NoneTurned, PlaceOrBit
<1>2. ASSUME NEW k \in CodeBits PROVE Flipped(k) <=> k = Row(c)
  <2>1. Flipped(k) <=> Row(k) = c
    <3>1. Row(k) \in Int /\ c \in Int
      BY RowType DEF CodeBits
    <3> QED BY <3>1 DEF Flipped
  <2> QED BY <2>1, RowOfRow
<1>3. Row(c) \in CodeBits
  BY RowType
<1>4. s = {Row(c)}
  BY <1>1, <1>2, <1>3
<1>5. ~SingleError(eccsize, s) /\ Cardinality(s) = 1 /\ s # {}
  BY <1>3, <1>4, PageFacts, OneRow
<1> QED BY <1>1, <1>5 DEF nand_correct_data

LEMMA BitsRead ==
  ASSUME PageInv, NEW x \in Bits, NEW y \in Bits, x # y, flips = {x, y},
         NEW s \in SUBSET CodeBits,
         \A k \in CodeBits : k \in s <=> ~(Turned(k) <=> Flipped(k))
  PROVE  nand_correct_data(eccsize, data, s) = [result |-> "failed", buf |-> data]
<1>1. \A k : Turned(k) <=> ~(InRowOf(eccsize, k, x) <=> InRowOf(eccsize, k, y))
  BY TwoTurned
<1>2. \A k \in CodeBits : ~Flipped(k)
  BY RowType, PlaceOrBit DEF Flipped
<1>3. \A k \in CodeBits : k \in s <=> ~(InRowOf(eccsize, k, x) <=> InRowOf(eccsize, k, y))
  BY <1>1, <1>2
<1>4. Hopeless(eccsize, s)
  BY <1>3, PageFacts, TwoBits DEF Bits
<1> QED BY <1>4 DEF nand_correct_data, Hopeless

LEMMA BitAndCodeRead ==
  ASSUME PageInv, NEW x \in Bits, NEW c \in CodeBits, flips = {x, -1 - c},
         NEW s \in SUBSET CodeBits,
         \A k \in CodeBits : k \in s <=> ~(Turned(k) <=> Flipped(k))
  PROVE  \/ nand_correct_data(eccsize, data, s) = [result |-> "fixed", buf |-> written]
         \/ nand_correct_data(eccsize, data, s) = [result |-> "failed", buf |-> data]
<1>1. SymDiff(data, {x}) = written /\ \A k : Turned(k) <=> InRowOf(eccsize, k, x)
  <2>1. flips \cap Bits = {x}
    BY PlaceOrBit
  <2> QED BY <2>1, OneTurned
<1>2. ASSUME NEW k \in CodeBits PROVE Flipped(k) <=> k = Row(c)
  <2>1. Flipped(k) <=> Row(k) = c
    <3>1. Row(k) \in CodeBits
      BY RowType
    <3>2. Row(k) \in Int /\ c \in Int
      BY <3>1 DEF CodeBits
    <3>3. -1 - Row(k) # x
      BY <3>1, PlaceOrBit
    <3> QED BY <3>2, <3>3 DEF Flipped
  <2> QED BY <2>1, RowOfRow
<1>3. Row(c) \in CodeBits
  BY RowType
<1>4. \A k \in CodeBits : k \in s <=> ~(InRowOf(eccsize, k, x) <=> k = Row(c))
  BY <1>1, <1>2
<1>5. \/ SingleError(eccsize, s) /\ FaultyBit(eccsize, s) = x /\ s # {}
      \/ Hopeless(eccsize, s)
  BY <1>3, <1>4, PageFacts, BitAndRow DEF Bits
<1> QED BY <1>1, <1>5 DEF nand_correct_data, Hopeless

LEMMA CodesRead ==
  ASSUME PageInv, NEW c \in CodeBits, NEW e \in CodeBits, c # e, flips = {-1 - c, -1 - e},
         NEW s \in SUBSET CodeBits,
         \A k \in CodeBits : k \in s <=> ~(Turned(k) <=> Flipped(k))
  PROVE  nand_correct_data(eccsize, data, s) = [result |-> "failed", buf |-> data]
<1>1. \A k : ~Turned(k)
  BY NoneTurned, PlaceOrBit
<1>2. ASSUME NEW k \in CodeBits PROVE Flipped(k) <=> k \in {Row(c), Row(e)}
  <2>1. Flipped(k) <=> Row(k) = c \/ Row(k) = e
    <3>1. Row(k) \in Int /\ c \in Int /\ e \in Int
      BY RowType DEF CodeBits
    <3> QED BY <3>1 DEF Flipped
  <2> QED BY <2>1, RowOfRow
<1>3. Row(c) \in CodeBits /\ Row(e) \in CodeBits /\ Row(c) # Row(e)
  BY RowType, RowOfRow
<1>4. s = {Row(c), Row(e)}
  BY <1>1, <1>2, <1>3
<1>5. Hopeless(eccsize, s)
  BY <1>3, <1>4, PageFacts, TwoRows
<1> QED BY <1>5 DEF nand_correct_data, Hopeless

LEMMA ReadAnswers ==
  ASSUME PageInv, NEW v \in Versions
  PROVE  LET s == {Row(c) : c \in SymDiff(code, nand_calculate_ecc(v, data))}
         IN  Answer(nand_correct_data(IF v = "2.6.27" THEN 256 ELSE eccsize, data, s))
<1> DEFINE s == {Row(c) : c \in SymDiff(code, nand_calculate_ecc(v, data))}
           n == IF v = "2.6.27" THEN 256 ELSE eccsize
           r == nand_correct_data(eccsize, data, s)
<1>1. s \in SUBSET CodeBits /\ \A k \in CodeBits : k \in s <=> ~(Turned(k) <=> Flipped(k))
  BY Syndrome
<1>2. n = eccsize
  BY MachineFacts DEF PageInv
<1> HIDE DEF s, n
<1>3. ASSUME flips = {} PROVE Answer(r)
  <2>1. r = [result |-> "clean", buf |-> written]
    BY <1>1, <1>3, CleanRead
  <2> HIDE DEF r
  <2> QED BY <1>3, <2>1 DEF Answer
<1>4. ASSUME \E x \in Places : flips = {x} PROVE Answer(r)
  <2>1. r = [result |-> "fixed", buf |-> written]
    BY <1>1, <1>4, BitRead, CodeRead DEF Places
  <2>2. flips # {} /\ \A x, y : x # y => flips # {x, y}
    BY <1>4
  <2> HIDE DEF r
  <2> QED BY <2>1, <2>2 DEF Answer
<1>5. ASSUME \E x, y \in Places : x # y /\ flips = {x, y} PROVE Answer(r)
  <2>1. \/ r = [result |-> "fixed", buf |-> written]
        \/ r = [result |-> "failed", buf |-> data]
    <3>1. PICK x \in Places, y \in Places : x # y /\ flips = {x, y}
      BY <1>5
    <3>2. CASE x \in Bits /\ y \in Bits
      BY <1>1, <3>1, <3>2, BitsRead
    <3>3. CASE x \in Bits /\ y \notin Bits
      BY <1>1, <3>1, <3>3, BitAndCodeRead DEF Places
    <3>4. CASE x \notin Bits /\ y \in Bits
      <4>1. flips = {y, x}
        BY <3>1
      <4> QED BY <1>1, <3>4, <4>1, BitAndCodeRead DEF Places
    <3>5. CASE x \notin Bits /\ y \notin Bits
      <4>1. PICK c \in CodeBits, e \in CodeBits : x = -1 - c /\ y = -1 - e
        BY <3>5 DEF Places
      <4> QED BY <1>1, <3>1, <4>1, CodesRead
    <3> QED BY <3>2, <3>3, <3>4, <3>5
  <2>2. flips # {} /\ \A x : flips # {x}
    BY <1>5
  <2> HIDE DEF r
  <2> QED BY <2>1, <2>2 DEF Answer
<1> HIDE DEF r
<1>6. Answer(r)
  BY <1>3, <1>4, <1>5 DEF PageInv
<1>7. Answer(nand_correct_data(n, data, s))
  BY <1>2, <1>6 DEF r
<1> QED BY <1>7 DEF s, n

\* What TestEcc.c finds in two codes of its own order.
LEMMA TestRows ==
  ASSUME PageInv, eccsize = 256
  PROVE  LET s == SymDiff(calculate_test(written), calculate_test(data))
         IN  s \in SUBSET CodeBits /\ \A k \in CodeBits : k \in s <=> Turned(k)
<1> DEFINE s == SymDiff(calculate_test(written), calculate_test(data))
<1>1. s \in SUBSET CodeBits
  BY DEF SymDiff, calculate_test
<1>2. ASSUME NEW k \in CodeBits PROVE k \in s <=> Turned(k)
  <2>1. Covers27[k] = Cover(256, k)
    BY Covers27Is
  <2>2. k \in calculate_test(written) <=> k \in {16, 17} \/ Odd(written \cap Cover(256, k))
    BY <2>1 DEF calculate_test
  <2>3. k \in calculate_test(data) <=> k \in {16, 17} \/ Odd(data \cap Cover(256, k))
    BY <2>1 DEF calculate_test
  <2>4. k \in s <=> ~(k \in calculate_test(written) <=> k \in calculate_test(data))
    BY DEF SymDiff
  <2>5. k \in {16, 17} => Cover(256, k) = {}
    BY DEF Cover, InRowOf
  <2>6. k \in {16, 17} => ~Turned(k)
    <3>1. k \in {16, 17} => written \cap Cover(256, k) = data \cap Cover(256, k)
      BY <2>5
    <3> QED BY <3>1 DEF Turned
  <2> QED BY <2>2, <2>3, <2>4, <2>6 DEF Turned
<1> QED BY <1>1, <1>2

LEMMA TestFinds ==
  ASSUME PageInv, eccsize = 256, NEW s, s \in SUBSET CodeBits,
         \A k \in CodeBits : k \in s <=> Turned(k)
  PROVE  IF s # {} /\ SingleError(256, s) THEN flips \cap Bits = {FaultyBit(256, s)}
                                          ELSE Cardinality(flips \cap Bits) # 1
<1>0. 256 \in Sizes /\ Bits = 0 .. 8 * 256 - 1
  BY DEF Sizes, Bits
<1>1. \/ flips \cap Bits = {}
      \/ \E x \in Bits : flips \cap Bits = {x}
      \/ \E x, y \in Bits : x # y /\ flips \cap Bits = {x, y}
  <2>1. CASE flips = {}
    BY <2>1
  <2>2. CASE \E x \in Places : flips = {x}
    BY <2>2
  <2>3. CASE \E x, y \in Places : x # y /\ flips = {x, y}
    <3>1. PICK x \in Places, y \in Places : x # y /\ flips = {x, y}
      BY <2>3
    <3>2. CASE x \in Bits /\ y \in Bits
      BY <3>1, <3>2
    <3>3. CASE x \in Bits /\ y \notin Bits
      BY <3>1, <3>3
    <3>4. CASE x \notin Bits /\ y \in Bits
      BY <3>1, <3>4
    <3>5. CASE x \notin Bits /\ y \notin Bits
      BY <3>1, <3>5
    <3> QED BY <3>2, <3>3, <3>4, <3>5
  <2> QED BY <2>1, <2>2, <2>3 DEF PageInv
<1>2. CASE flips \cap Bits = {}
  <2>1. s = {}
    BY <1>2, NoneTurned
  <2>2. Cardinality(flips \cap Bits) = 0
    BY <1>2, FS_EmptySet
  <2> QED BY <2>1, <2>2
<1>3. CASE \E x \in Bits : flips \cap Bits = {x}
  <2>1. PICK x \in Bits : flips \cap Bits = {x}
    BY <1>3
  <2>2. \A k : Turned(k) <=> InRowOf(256, k, x)
    BY <2>1, OneTurned
  <2>3. s # {} /\ SingleError(256, s) /\ FaultyBit(256, s) = x
    <3>1. x \in 0 .. 8 * 256 - 1 /\ \A k \in CodeBits : k \in s <=> InRowOf(256, k, x)
      BY <1>0, <2>2
    <3> QED BY <1>0, <3>1, OneBit
  <2> QED BY <2>1, <2>3
<1>4. CASE \E x, y \in Bits : x # y /\ flips \cap Bits = {x, y}
  <2>1. PICK x \in Bits, y \in Bits : x # y /\ flips \cap Bits = {x, y}
    BY <1>4
  <2>2. \A k : Turned(k) <=> ~(InRowOf(256, k, x) <=> InRowOf(256, k, y))
    BY <2>1, TwoTurned
  <2>3. Hopeless(256, s)
    <3>1. /\ x \in 0 .. 8 * 256 - 1 /\ y \in 0 .. 8 * 256 - 1 /\ x # y
          /\ \A k \in CodeBits : k \in s <=> ~(InRowOf(256, k, x) <=> InRowOf(256, k, y))
      BY <1>0, <2>1, <2>2
    <3> QED BY <1>0, <3>1, TwoBits
  <2>4. Cardinality(flips \cap Bits) = 2
    <3>1. IsFiniteSet({x}) /\ Cardinality({x}) = 1 /\ y \notin {x}
      BY <2>1, FS_Singleton
    <3>2. Cardinality({x} \cup {y}) = 2
      BY <3>1, FS_AddElement
    <3>3. flips \cap Bits = {x} \cup {y}
      BY <2>1
    <3> QED BY <3>2, <3>3
  <2> QED BY <2>3, <2>4 DEF Hopeless
<1> QED BY <1>1, <1>2, <1>3, <1>4

-----------------------------------------------------------------------------
(* The invariant.                                                          *)

ReadInv == result # "unread" => Answer([result |-> result, buf |-> buf])

EccInv == PageInv /\ ReadInv /\ TestLocates

LEMMA AnswersAreRight ==
  PageInv /\ ReadInv => OneFlipCorrected /\ TwoFlipsNotMiscorrected
<1> SUFFICES ASSUME PageInv, ReadInv, result # "unread"
             PROVE  /\ Cardinality(flips) < 2 =>
                         buf = written /\ result = IF flips = {} THEN "clean" ELSE "fixed"
                    /\ Cardinality(flips) = 2 =>
                         IF result = "failed" THEN buf = data ELSE buf = written
  BY DEF OneFlipCorrected, TwoFlipsNotMiscorrected
<1>1. Answer([result |-> result, buf |-> buf])
  BY DEF ReadInv
<1>2. CASE flips = {}
  <2>1. Cardinality(flips) = 0
    BY <1>2, FS_EmptySet
  <2>2. [result |-> result, buf |-> buf] = [result |-> "clean", buf |-> written]
    BY <1>1, <1>2 DEF Answer
  <2> QED BY <1>2, <2>1, <2>2
<1>3. CASE \E x \in Places : flips = {x}
  <2>1. Cardinality(flips) = 1 /\ flips # {}
    BY <1>3, FS_Singleton
  <2>2. [result |-> result, buf |-> buf] = [result |-> "fixed", buf |-> written]
    BY <1>1, <1>3 DEF Answer
  <2> QED BY <2>1, <2>2
<1>4. CASE \E x, y \in Places : x # y /\ flips = {x, y}
  <2>1. PICK x \in Places, y \in Places : x # y /\ flips = {x, y}
    BY <1>4
  <2>2. Cardinality(flips) = 2
    <3>1. IsFiniteSet({x}) /\ Cardinality({x}) = 1 /\ y \notin {x}
      BY <2>1, FS_Singleton
    <3>2. Cardinality({x} \cup {y}) = 2
      BY <3>1, FS_AddElement
    <3>3. flips = {x} \cup {y}
      BY <2>1
    <3> QED BY <3>2, <3>3
  <2>3. \/ [result |-> result, buf |-> buf] = [result |-> "fixed", buf |-> written]
        \/ [result |-> result, buf |-> buf] = [result |-> "failed", buf |-> data]
    BY <1>1, <2>1 DEF Answer
  <2> QED BY <2>2, <2>3
<1> QED BY <1>2, <1>3, <1>4 DEF PageInv

\* Nothing but the machine decides how a code is laid out.
LEMMA SameMachine ==
  ASSUME machine' = machine
  PROVE  /\ eccsize' = eccsize /\ Bits' = Bits /\ Places' = Places
         /\ Code(written)' = Code(written')
BY DEF eccsize, Bits, Places, Code, Row

LEMMA PageUntouched ==
  ASSUME PageInv, UNCHANGED <<machine, written, data, code, flips>>
  PROVE  PageInv'
<1>1. Code(written)' = Code(written)
  BY SameMachine
<1> QED BY <1>1, SameMachine DEF PageInv

\* An erased page is programmed with ones, and has the code of them.
LEMMA ErasedCode == ASSUME machine \in Machines PROVE Code(Bits) = CodeBits
<1>1. ASSUME NEW c \in CodeBits PROVE ~Odd(Bits \cap Cover(eccsize, Row(c)))
  <2>1. Bits \cap Cover(eccsize, Row(c)) = Cover(eccsize, Row(c))
    BY DEF Bits, Cover
  <2> QED BY <2>1, MachineFacts, RowType, RowsEven
<1> QED BY <1>1 DEF Code

LEMMA InitEccInv == Init => EccInv
<1> SUFFICES ASSUME Init PROVE EccInv
  OBVIOUS
<1>1. Code(Bits) = CodeBits
  BY ErasedCode DEF Init
<1>2. PageInv
  BY <1>1 DEF Init, PageInv, SymDiff
<1> QED BY <1>2 DEF Init, EccInv, ReadInv, TestLocates

LEMMA EraseKeeps == ASSUME EccInv, Erase PROVE EccInv'
<1>1. machine \in Machines /\ machine' = machine
  BY DEF EccInv, PageInv, Erase
<1>2. Code(written)' = CodeBits /\ Bits' = Bits
  BY <1>1, ErasedCode, SameMachine DEF Erase
<1>3. PageInv'
  BY <1>1, <1>2 DEF PageInv, Erase, SymDiff
<1> QED BY <1>3 DEF Erase, EccInv, ReadInv, TestLocates

LEMMA ProgramKeeps ==
  ASSUME EccInv, NEW p \in Pages[eccsize], Program(p)
  PROVE  EccInv'
<1>1. machine \in Machines /\ machine' = machine
  BY DEF EccInv, PageInv, Program
<1>2. p \subseteq Bits
  BY <1>1, MachineFacts
<1>3. code' = Code(written')
  BY <1>1, OneCode DEF Program
<1>4. Code(written)' = Code(written') /\ Bits' = Bits
  BY <1>1, SameMachine
<1>5. code' \subseteq CodeBits
  BY <1>3 DEF Code
<1>6. PageInv'
  BY <1>1, <1>2, <1>3, <1>4, <1>5 DEF PageInv, Program, SymDiff
<1> QED BY <1>6 DEF Program, EccInv, ReadInv, TestLocates

LEMMA OneMoreFlip ==
  ASSUME PageInv, NEW x \in Places, MayFlip(x), machine' = machine,
         flips' = flips \cup {x}
  PROVE  \/ flips' = {}
         \/ \E a \in Places' : flips' = {a}
         \/ \E a, b \in Places' : a # b /\ flips' = {a, b}
<1>0. Places' = Places
  BY SameMachine
<1>1. CASE flips = {}
  BY <1>0, <1>1
<1>2. CASE \E y \in Places : flips = {y}
  <2>1. PICK y \in Places : flips = {y}
    BY <1>2
  <2>2. y # x /\ flips' = {y, x}
    BY <2>1 DEF MayFlip
  <2> QED BY <1>0, <2>2
<1>3. CASE \E y, z \in Places : y # z /\ flips = {y, z}
  <2>1. PICK y \in Places, z \in Places : y # z /\ flips = {y, z}
    BY <1>3
  <2>2. IsFiniteSet({y}) /\ Cardinality({y}) = 1 /\ z \notin {y}
    BY <2>1, FS_Singleton
  <2>3. Cardinality({y} \cup {z}) = 2
    BY <2>2, FS_AddElement
  <2>4. flips = {y} \cup {z}
    BY <2>1
  <2> QED BY <2>3, <2>4 DEF MayFlip
<1> QED BY <1>1, <1>2, <1>3 DEF PageInv

LEMMA FlipKeeps == ASSUME EccInv, Flip PROVE EccInv'
<1>0. PageInv /\ machine' = machine /\ written' = written
  BY DEF EccInv, Flip
<1>1. Code(written)' = Code(written) /\ Bits' = Bits
  BY <1>0, SameMachine
<1>2. ASSUME \E n \in Bits : MayFlip(n) /\ data' = SymDiff(data, {n})
                             /\ flips' = flips \cup {n} /\ code' = code
      PROVE  PageInv'
  <2>1. PICK n \in Bits : MayFlip(n) /\ data' = SymDiff(data, {n})
                          /\ flips' = flips \cup {n} /\ code' = code
    BY <1>2
  <2>2. n \notin flips /\ n \in Places
    BY <2>1 DEF MayFlip, Places
  <2>3. data' = SymDiff(written, flips' \cap Bits)
    BY <1>0, <2>1, <2>2 DEF PageInv, SymDiff
  <2>4. \A c \in CodeBits : -1 - c \notin flips' <=> -1 - c \notin flips
    BY <2>1, PlaceOrBit
  <2>5. code' = {c \in CodeBits : c \in Code(written) <=> -1 - c \notin flips'}
    BY <1>0, <2>1, <2>4 DEF PageInv
  <2>8. \/ flips' = {}
        \/ \E a \in Places' : flips' = {a}
        \/ \E a, b \in Places' : a # b /\ flips' = {a, b}
    BY <1>0, <2>1, <2>2, OneMoreFlip
  <2> QED BY <1>0, <1>1, <2>1, <2>3, <2>5, <2>8 DEF PageInv
<1>3. ASSUME \E c \in CodeBits : MayFlip(-1 - c) /\ code' = SymDiff(code, {c})
                                 /\ flips' = flips \cup {-1 - c} /\ data' = data
      PROVE  PageInv'
  <2>1. PICK c \in CodeBits : MayFlip(-1 - c) /\ code' = SymDiff(code, {c})
                              /\ flips' = flips \cup {-1 - c} /\ data' = data
    BY <1>3
  <2>2. -1 - c \notin flips /\ -1 - c \in Places
    BY <2>1 DEF MayFlip, Places
  <2>3. flips' \cap Bits = flips \cap Bits
    BY <2>1, PlaceOrBit
  <2>4. data' = SymDiff(written, flips' \cap Bits)
    BY <1>0, <2>1, <2>3 DEF PageInv
  <2>5. ASSUME NEW e \in CodeBits
        PROVE  e \in code' <=> (e \in Code(written) <=> -1 - e \notin flips')
    <3>1. e \in code <=> (e \in Code(written) <=> -1 - e \notin flips)
      BY <1>0 DEF PageInv
    <3>2. -1 - e = -1 - c <=> e = c
      BY DEF CodeBits
    <3>3. -1 - e \in flips' <=> -1 - e \in flips \/ e = c
      BY <2>1, <3>2
    <3>4. e \in code' <=> ~(e \in code <=> e = c)
      BY <2>1 DEF SymDiff
    <3> QED BY <2>2, <3>1, <3>2, <3>3, <3>4
  <2>6. code' \subseteq CodeBits
    BY <1>0, <2>1 DEF PageInv, SymDiff
  <2>7. code' = {e \in CodeBits : e \in Code(written) <=> -1 - e \notin flips'}
    BY <2>5, <2>6
  <2>8. \/ flips' = {}
        \/ \E a \in Places' : flips' = {a}
        \/ \E a, b \in Places' : a # b /\ flips' = {a, b}
    BY <1>0, <2>1, <2>2, OneMoreFlip
  <2> QED BY <1>0, <1>1, <2>1, <2>4, <2>7, <2>8 DEF PageInv
<1>4. PageInv' => EccInv'
  BY DEF Flip, EccInv, ReadInv, TestLocates
<1>5. PageInv'
  BY <1>2, <1>3 DEF Flip
<1> QED BY <1>4, <1>5

LEMMA ReadKeeps == ASSUME EccInv, NEW v \in Versions, Read(v) PROVE EccInv'
<1> DEFINE s == {Row(c) : c \in SymDiff(code, nand_calculate_ecc(v, data))}
           r == nand_correct_data(IF v = "2.6.27" THEN 256 ELSE eccsize, data, s)
<1>1. PageInv /\ PageInv'
  BY PageUntouched DEF EccInv, Read
<1>2. Answer(r)
  BY <1>1, ReadAnswers
<1>3. buf' = r.buf /\ result' = r.result /\ located' = Untested
      /\ UNCHANGED <<machine, written, data, code, flips>>
  BY DEF Read
<1>4. r = [result |-> r.result, buf |-> r.buf]
  BY DEF nand_correct_data
<1> HIDE DEF r
<1>5. ReadInv'
  BY <1>2, <1>3, <1>4 DEF ReadInv, Answer
<1> QED BY <1>1, <1>3, <1>5 DEF EccInv, TestLocates

LEMMA TestKeeps == ASSUME EccInv, TestEcc PROVE EccInv'
<1> DEFINE s == SymDiff(calculate_test(written), calculate_test(data))
<1>1. PageInv /\ PageInv'
  BY PageUntouched DEF EccInv, TestEcc
<1>2. eccsize = 256 /\ result' = "unread"
      /\ located' = (IF s # {} /\ SingleError(256, s) THEN FaultyBit(256, s) ELSE -1)
      /\ UNCHANGED <<machine, written, data, code, flips, buf, result>>
  BY DEF TestEcc
<1>3. s \in SUBSET CodeBits /\ \A k \in CodeBits : k \in s <=> Turned(k)
  BY <1>1, <1>2, TestRows
<1> HIDE DEF s
<1>4. \/ flips \cap Bits = {located'}
      \/ located' = -1 /\ Cardinality(flips \cap Bits) # 1
  BY <1>1, <1>2, <1>3, TestFinds
<1>5. Bits' = Bits
  BY <1>2, SameMachine
<1> QED BY <1>1, <1>2, <1>4, <1>5 DEF EccInv, ReadInv, TestLocates

LEMMA StepEccInv == EccInv /\ [Next]_vars => EccInv'
<1> SUFFICES ASSUME EccInv, [Next]_vars PROVE EccInv'
  OBVIOUS
<1>1. CASE Erase
  BY <1>1, EraseKeeps
<1>2. ASSUME NEW p \in Pages[eccsize], Program(p) PROVE EccInv'
  BY <1>2, ProgramKeeps
<1>3. CASE Flip
  BY <1>3, FlipKeeps
<1>4. ASSUME NEW v \in Versions, Read(v) PROVE EccInv'
  BY <1>4, ReadKeeps
<1>5. CASE TestEcc
  BY <1>5, TestKeeps
<1>6. CASE UNCHANGED vars
  <2>1. PageInv' /\ Bits' = Bits
    BY <1>6, PageUntouched, SameMachine DEF vars, EccInv
  <2> QED BY <1>6, <2>1 DEF vars, EccInv, ReadInv, TestLocates, Answer
<1> QED BY <1>1, <1>2, <1>3, <1>4, <1>5, <1>6 DEF Next

LEMMA Protected == Spec => []EccInv
BY InitEccInv, StepEccInv, PTL DEF Spec

-----------------------------------------------------------------------------
(* Theorems.                                                               *)

\* Whatever the page holds, a flip of any one bit of it or of its code is undone
\* in the buffer (nand_ecc-2.6.28-later.c:472-509).
THEOREM SingleFlipsCorrected == Spec => []OneFlipCorrected
<1>1. EccInv => OneFlipCorrected
  BY AnswersAreRight DEF EccInv
<1> QED BY <1>1, Protected, PTL

\* Whatever the page holds, no two flips of it or of its code, in any bytes, make
\* a wrong page pass for a good one.
THEOREM DoubleFlipsNotMiscorrected == Spec => []TwoFlipsNotMiscorrected
<1>1. EccInv => TwoFlipsNotMiscorrected
  BY AnswersAreRight DEF EccInv
<1> QED BY <1>1, Protected, PTL

\* Of any page the byte-wise and the word-wise version compute the same code, the
\* latter on machines of either endianness (nand_ecc-2.6.28-later.c:196-349).
THEOREM VersionsCompute == Spec => []VersionsAgree
<1>1. EccInv => VersionsAgree
  <2> SUFFICES ASSUME EccInv, "2.6.27" \in Versions, NEW big \in BOOLEAN
               PROVE  calculate28(big, data) = calculate27(data)
    BY DEF VersionsAgree
  <2>1. eccsize \in Sizes /\ eccsize = 256
    BY MachineFacts DEF EccInv, PageInv
  <2> QED BY <2>1, LaterCode, FormerCode
<1> QED BY <1>1, Protected, PTL

\* Nor does the code of a larger page depend on the endianness of the machine
\* (nand_ecc-2.6.28-later.c:303-327).
THEOREM CodeIsPortable == Spec => []EndianNeutral
<1>1. EccInv => EndianNeutral
  <2> SUFFICES ASSUME EccInv PROVE calculate28(TRUE, data) = calculate28(FALSE, data)
    BY DEF EndianNeutral
  <2>1. eccsize \in Sizes
    BY MachineFacts DEF EccInv, PageInv
  <2> QED BY <2>1, LaterCode
<1> QED BY <1>1, Protected, PTL

\* Whatever the page, TestEcc.c prints the bit in which it differs from the
\* original if that is one, and no bit if they are equal or differ in two
\* (TestEcc.c:122-163).
THEOREM TestNamesTheBit == Spec => []TestLocates
<1>1. EccInv => TestLocates
  BY DEF EccInv
<1> QED BY <1>1, Protected, PTL

=============================================================================
