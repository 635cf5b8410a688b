----------------------------- MODULE FileProofs -----------------------------
(***************************************************************************)
(* Theorems about the programs that work on files: the directory lister,   *)
(* for any tree of directories, any number of streams and any failures;    *)
(* the toolchain scripts, for any number of faults.                        *)
(***************************************************************************)
EXTENDS DirList, Toolchain,
        SequenceTheorems, FiniteSetTheorems, WellFoundedInduction, TLAPS

-----------------------------------------------------------------------------
(* Sums over the calls in progress.  The sum of w over 1 .. n is v when    *)
(* there are running totals that lead from 0 to v.                         *)

Sums(w, n, v) ==
  \E s \in [0 .. n -> Int] :
    s[0] = 0 /\ (\A i \in 1 .. n : s[i] = s[i - 1] + w[i]) /\ s[n] = v

LEMMA SumsNone == ASSUME NEW w, NEW v \in Int PROVE Sums(w, 0, v) <=> v = 0
<1>1. ASSUME Sums(w, 0, v) PROVE v = 0
  BY <1>1 DEF Sums
<1>2. ASSUME v = 0 PROVE Sums(w, 0, v)
  <2> DEFINE s == [i \in 0 .. 0 |-> 0]
  <2>1. s \in [0 .. 0 -> Int] /\ s[0] = 0 /\ \A i \in 1 .. 0 : s[i] = s[i - 1] + w[i]
    OBVIOUS
  <2> HIDE DEF s
  <2> QED BY <1>2, <2>1 DEF Sums
<1> QED BY <1>1, <1>2

LEMMA SumsPush ==
  ASSUME NEW n \in Nat, NEW v \in Int, NEW w, NEW w2, Sums(w, n, v),
         \A i \in 1 .. n : w2[i] = w[i], w2[n + 1] \in Int
  PROVE  Sums(w2, n + 1, v + w2[n + 1])
<1>1. PICK s \in [0 .. n -> Int] :
        s[0] = 0 /\ (\A i \in 1 .. n : s[i] = s[i - 1] + w[i]) /\ s[n] = v
  BY DEF Sums
<1> DEFINE x == w2[n + 1]
           r == [i \in 0 .. n + 1 |-> IF i = n + 1 THEN v + x ELSE s[i]]
<1>2. x \in Int
  OBVIOUS
<1>3. r \in [0 .. n + 1 -> Int] /\ r[0] = 0 /\ r[n + 1] = v + x
  BY <1>1, <1>2
<1>4. ASSUME NEW i \in 1 .. n + 1 PROVE r[i] = r[i - 1] + w2[i]
  <2>1. CASE i = n + 1
    BY <2>1, <1>1, <1>2
  <2>2. CASE i # n + 1
    <3>1. i \in 1 .. n /\ i - 1 \in 0 .. n
      BY <2>2
    <3> QED BY <3>1, <1>1
  <2> QED BY <2>1, <2>2
<1> HIDE DEF r, x
<1>5. Sums(w2, n + 1, v + x)
  BY <1>3, <1>4 DEF Sums
<1> QED BY <1>5 DEF x

LEMMA SumsPop ==
  ASSUME NEW n \in Nat, n # 0, NEW v \in Int, NEW w, NEW w2, Sums(w, n, v),
         \A i \in 1 .. n - 1 : w2[i] = w[i], w[n] \in Int
  PROVE  Sums(w2, n - 1, v - w[n])
<1>1. PICK s \in [0 .. n -> Int] :
        s[0] = 0 /\ (\A i \in 1 .. n : s[i] = s[i - 1] + w[i]) /\ s[n] = v
  BY DEF Sums
<1> DEFINE m == n - 1
           r == [i \in 0 .. m |-> s[i]]
<1>2. r \in [0 .. m -> Int] /\ r[0] = 0
  BY <1>1
<1>3. \A i \in 1 .. m : r[i] = r[i - 1] + w2[i]
  BY <1>1
<1>4. r[m] = v - w[n]
  <2>1. s[n] = s[n - 1] + w[n] /\ n - 1 \in 0 .. n
    BY <1>1
  <2>2. s[n - 1] \in Int
    BY <1>1, <2>1
  <2> QED BY <2>1, <2>2, <1>1
<1> HIDE DEF r
<1> QED BY <1>2, <1>3, <1>4 DEF Sums

\* A step that changes the last term, and one that adds an empty one as well.
LEMMA SumsTop ==
  ASSUME NEW n \in Nat, n # 0, NEW v \in Int, NEW w, NEW w2, Sums(w, n, v),
         \A i \in 1 .. n - 1 : w2[i] = w[i], w[n] \in Int, w2[n] \in Int
  PROVE  Sums(w2, n, v - w[n] + w2[n])
<1> DEFINE m == n - 1
           u == v - w[n]
<1>1. m \in Nat /\ u \in Int /\ m + 1 = n
  OBVIOUS
<1>2. Sums(w2, m, u)
  BY SumsPop
<1> HIDE DEF m, u
<1>3. Sums(w2, m + 1, u + w2[m + 1])
  BY <1>1, <1>2, SumsPush
<1> QED BY <1>1, <1>3 DEF u

LEMMA SumsOver ==
  ASSUME NEW n \in Nat, n # 0, NEW v \in Int, NEW w, NEW w2, Sums(w, n, v),
         \A i \in 1 .. n - 1 : w2[i] = w[i], w[n] \in Int, w2[n] \in Int, w2[n + 1] = 0
  PROVE  Sums(w2, n + 1, v - w[n] + w2[n])
<1> DEFINE u == v - w[n] + w2[n]
<1>1. u \in Int /\ u + 0 = u
  OBVIOUS
<1>2. Sums(w2, n, u)
  BY SumsTop
<1> DEFINE x == w2[n + 1]
<1>3. x \in Int /\ x = 0 /\ \A i \in 1 .. n : w2[i] = w2[i]
  OBVIOUS
<1> HIDE DEF u
<1>4. Sums(w2, n + 1, u + x)
  BY <1>1, <1>2, <1>3, SumsPush
<1> QED BY <1>1, <1>3, <1>4 DEF u

-----------------------------------------------------------------------------
(* The stack of calls.                                                     *)

Errnos   == {"0", "EACCES", "EIO", "EMFILE", "ENOMEM"}
Failures == {"opendir", "malloc", "scandir", "readdir", "lstat"}

Call == [path : Seq(Names), pc : {"opendir", "malloc", "scandir", "top", "read", "free", "lstat"},
         left : SUBSET Names, olderrno : Errnos]

LEMMA StackLast ==
  ASSUME calls \in Seq(Call), calls # <<>>
  PROVE  /\ Len(calls) \in Nat \ {0} /\ here = calls[Len(calls)] /\ here \in Call
         /\ Front(calls) \in Seq(Call) /\ Len(Front(calls)) = Len(calls) - 1
         /\ \A i \in 1 .. Len(calls) - 1 : Front(calls)[i] = calls[i]
<1>1. Len(calls) \in Nat \ {0}
  BY EmptySeq
<1>2. here = calls[Len(calls)] /\ here \in Call
  BY <1>1, ElementOfSeq DEF here, Last
<1> DEFINE m == Len(calls) - 1
<1>3. m \in Nat /\ 1 \in Int /\ \A i \in 1 .. m : calls[i] \in Call
  BY <1>1, ElementOfSeq
<1>4. Front(calls) = SubSeq(calls, 1, m)
  BY DEF Front
<1>5. /\ SubSeq(calls, 1, m) \in Seq(Call)
      /\ Len(SubSeq(calls, 1, m)) = m
      /\ \A i \in 1 .. m : SubSeq(calls, 1, m)[i] = calls[i]
  <2> HIDE DEF m
  <2>1. /\ SubSeq(calls, 1, m) \in Seq(Call)
        /\ Len(SubSeq(calls, 1, m)) = IF 1 <= m THEN m - 1 + 1 ELSE 0
        /\ \A i \in 1 .. m - 1 + 1 : SubSeq(calls, 1, m)[i] = calls[1 + i - 1]
    BY <1>3, SubSeqProperties
  <2> QED BY <2>1, <1>3
<1> QED BY <1>1, <1>2, <1>4, <1>5

LEMMA StackTop ==
  ASSUME calls \in Seq(Call), calls # <<>>, NEW r \in Call, becomes(r)
  PROVE  /\ Len(calls) \in Nat \ {0} /\ here = calls[Len(calls)] /\ here \in Call
         /\ calls' \in Seq(Call) /\ Len(calls') = Len(calls)
         /\ calls'[Len(calls)] = r
         /\ \A i \in 1 .. Len(calls) - 1 : calls'[i] = calls[i]
<1>1. Len(calls) \in Nat \ {0} /\ here = calls[Len(calls)] /\ here \in Call
  BY StackLast
<1> DEFINE f == Front(calls)
<1>2. f \in Seq(Call) /\ Len(f) = Len(calls) - 1 /\ \A i \in 1 .. Len(calls) - 1 : f[i] = calls[i]
  BY StackLast
<1>3. calls' = Append(f, r)
  BY DEF becomes
<1> HIDE DEF f
<1> QED BY <1>1, <1>2, <1>3, AppendProperties

LEMMA StackPop ==
  ASSUME calls \in Seq(Call), calls # <<>>, return_up
  PROVE  /\ Len(calls) \in Nat \ {0} /\ here = calls[Len(calls)] /\ here \in Call
         /\ calls' \in Seq(Call) /\ Len(calls') = Len(calls) - 1
         /\ \A i \in 1 .. Len(calls) - 1 : calls'[i] = calls[i]
<1>1. Len(calls) \in Nat \ {0} /\ here = calls[Len(calls)] /\ here \in Call
  BY StackLast
<1> QED BY StackLast DEF return_up

LEMMA TwoTogether ==
  ASSUME NEW f \in Seq(Call), NEW g \in Seq(Call)
  PROVE  /\ f \o g \in Seq(Call) /\ Len(f \o g) = Len(f) + Len(g)
         /\ \A i \in 1 .. Len(f) + Len(g) :
              (f \o g)[i] = IF i <= Len(f) THEN f[i] ELSE g[i - Len(f)]
  BY ConcatProperties

LEMMA StackPush ==
  ASSUME calls \in Seq(Call), calls # <<>>, NEW r \in Call, NEW c \in Call,
         calls' = Front(calls) \o <<r, c>>
  PROVE  /\ Len(calls) \in Nat \ {0} /\ here = calls[Len(calls)] /\ here \in Call
         /\ calls' \in Seq(Call) /\ Len(calls') = Len(calls) + 1
         /\ calls'[Len(calls)] = r /\ calls'[Len(calls) + 1] = c
         /\ \A i \in 1 .. Len(calls) - 1 : calls'[i] = calls[i]
<1>1. Len(calls) \in Nat \ {0} /\ here = calls[Len(calls)] /\ here \in Call
  BY StackLast
<1> DEFINE f == Front(calls)
           g == <<r, c>>
<1>2. f \in Seq(Call) /\ Len(f) = Len(calls) - 1 /\ \A i \in 1 .. Len(calls) - 1 : f[i] = calls[i]
  BY StackLast
<1>3. g \in Seq(Call) /\ Len(g) = 2 /\ g[1] = r /\ g[2] = c
  OBVIOUS
<1>4. calls' = f \o g
  OBVIOUS
<1> HIDE DEF f, g
<1>5. /\ f \o g \in Seq(Call) /\ Len(f \o g) = Len(f) + Len(g)
      /\ \A i \in 1 .. Len(f) + Len(g) :
           (f \o g)[i] = IF i <= Len(f) THEN f[i] ELSE g[i - Len(f)]
  BY <1>2, <1>3, TwoTogether
<1> DEFINE n == Len(calls)
<1>6. n \in Nat \ {0} /\ Len(f) = n - 1 /\ Len(f) + Len(g) = n + 1
  BY <1>1, <1>2, <1>3
<1>7. calls'[n] = r /\ calls'[n + 1] = c /\ calls' \in Seq(Call) /\ Len(calls') = n + 1
  <2>1. n \in 1 .. n + 1 /\ n + 1 \in 1 .. n + 1 /\ ~ (n <= n - 1) /\ ~ (n + 1 <= n - 1)
        /\ n - (n - 1) = 1 /\ n + 1 - (n - 1) = 2
    BY <1>6
  <2>2. calls'[n] = g[n - (n - 1)]
    BY <2>1, <1>4, <1>5, <1>6
  <2>3. calls'[n + 1] = g[n + 1 - (n - 1)]
    BY <2>1, <1>4, <1>5, <1>6
  <2> QED BY <2>1, <2>2, <2>3, <1>3, <1>4, <1>5, <1>6
<1>8. \A i \in 1 .. n - 1 : calls'[i] = calls[i]
  <2>1. \A i \in 1 .. n - 1 : i \in 1 .. n + 1 /\ i <= n - 1
    BY <1>6
  <2> QED BY <2>1, <1>2, <1>4, <1>5, <1>6
<1> QED BY <1>1, <1>7, <1>8

\* The records the steps write over a call's.
LEMMA CallWrites ==
  ASSUME NEW c \in Call, NEW s \in {"opendir", "malloc", "scandir", "top", "read", "free", "lstat"},
         NEW l \in SUBSET Names
  PROVE  /\ [c EXCEPT !.pc = s] \in Call
         /\ [c EXCEPT !.pc = s].path = c.path /\ [c EXCEPT !.pc = s].pc = s
         /\ [c EXCEPT !.pc = s].left = c.left /\ [c EXCEPT !.pc = s].olderrno = c.olderrno
         /\ [c EXCEPT !.pc = s, !.left = l] \in Call
         /\ [c EXCEPT !.pc = s, !.left = l].path = c.path /\ [c EXCEPT !.pc = s, !.left = l].pc = s
         /\ [c EXCEPT !.pc = s, !.left = l].left = l
         /\ [c EXCEPT !.pc = s, !.left = l].olderrno = c.olderrno
<1> DEFINE d == [c EXCEPT !.pc = s]
<1>1. d \in Call /\ d.path = c.path /\ d.pc = s /\ d.left = c.left /\ d.olderrno = c.olderrno
  BY DEF Call
<1>2. [c EXCEPT !.pc = s, !.left = l] = [d EXCEPT !.left = l]
  BY DEF Call
<1> HIDE DEF d
<1>3. /\ [d EXCEPT !.left = l] \in Call
      /\ [d EXCEPT !.left = l].path = d.path /\ [d EXCEPT !.left = l].pc = d.pc
      /\ [d EXCEPT !.left = l].left = l /\ [d EXCEPT !.left = l].olderrno = d.olderrno
  BY <1>1 DEF Call
<1>4. [c EXCEPT !.pc = s] = d
  BY DEF d
<1> QED BY <1>1, <1>2, <1>3, <1>4

-----------------------------------------------------------------------------
(* What the calls hold.  Nobody counts the streams and blocks: NothingHeld *)
(* follows because they are, at every step, what the calls in progress     *)
(* hold, and the entries that scandir's loop lost.                         *)

StreamsOf(c) == IF c.pc \in {"opendir", "lstat"} THEN 0 ELSE 1

BlocksOf(v, c) ==
  (IF c.pc \in {"scandir", "top", "read", "free"} THEN IF v = "dirlist_r" THEN 2 ELSE 1 ELSE 0)
  + (IF v = "_scandir" /\ c.pc \in {"top", "read"} THEN 1 + Cardinality(c.left) ELSE 0)

StreamsHeld == [i \in 1 .. Len(calls) |-> StreamsOf(calls[i])]
BlocksHeld  == [i \in 1 .. Len(calls) |-> BlocksOf(version, calls[i])]

Account == /\ Sums(StreamsHeld, Len(calls), streams)
           /\ Sums(BlocksHeld, Len(calls), heap - hidden)

ListType == /\ version \in Versions \cup {"none"}
            /\ calls \in Seq(Call)
            /\ errno \in Errnos
            /\ streams \in Int /\ heap \in Int /\ hidden \in Int
            /\ failures \in Seq(Failures)

\* A call that has called itself is at the top of its loop; one in the loop
\* has left to read what its directory still gives; and while it reads, errno
\* is what it saved.
Fits(c, e, v) ==
  /\ c.pc # "lstat" => c.path \in DOMAIN Listing
  /\ c.pc \in {"top", "read"} => c.left \subseteq Listing[c.path]
  /\ c.pc = "read" => c.olderrno = e
  /\ c.pc = "scandir" => v = "_scandir"

StackFacts ==
  \A i \in 1 .. Len(calls) :
    /\ i # Len(calls) => calls[i].pc = "top"
    /\ Fits(calls[i], errno, version)

\* Every directory that was come across is listed or being listed.
Done(d) == \A n \in Listing[d] \ Dots : Append(d, n) \in printed

Covers(c, d, paths) ==
  /\ c.path = d
  /\ c.pc # "free"
  /\ c.pc \in {"top", "read"} =>
       \A n \in Listing[d] \ (Dots \cup c.left) : Append(d, n) \in paths

Underway(d) == \E i \in 1 .. Len(calls) : Covers(calls[i], d, printed)

Progress == version # "none" /\ failures = <<>> =>
              \A d \in DOMAIN Listing : d = Root \/ d \in printed => Done(d) \/ Underway(d)

ListInv == /\ ListType /\ StackFacts /\ Account /\ Progress
           /\ ~alarm /\ printed \subseteq AllPaths

LEMMA BlocksType ==
  ASSUME NEW c \in Call, NEW e, NEW v, Fits(c, e, v)
  PROVE  StreamsOf(c) \in Int /\ BlocksOf(v, c) \in Int
<1>1. c.pc \in {"top", "read"} => Cardinality(c.left) \in Nat
  BY ListingAssumption, FS_Subset, FS_CardinalityType DEF Call, Fits, ListingAssumption
<1> QED BY <1>1 DEF StreamsOf, BlocksOf

\* What the calls hold, when only what the innermost holds is new.
LEMMA Frame ==
  ASSUME NEW n \in Nat, \A i \in 1 .. n : calls'[i] = calls[i],
         n <= Len(calls), n <= Len(calls'), Len(calls) \in Nat, Len(calls') \in Nat,
         version' = version
  PROVE  /\ \A i \in 1 .. n : StreamsHeld'[i] = StreamsHeld[i]
         /\ \A i \in 1 .. n : BlocksHeld'[i] = BlocksHeld[i]
<1>1. \A i \in 1 .. n : i \in 1 .. Len(calls) /\ i \in 1 .. Len(calls')
  OBVIOUS
<1> QED BY <1>1 DEF StreamsHeld, BlocksHeld

LEMMA HeldAt ==
  ASSUME ListType, StackFacts, NEW i \in 1 .. Len(calls)
  PROVE  /\ StreamsHeld[i] = StreamsOf(calls[i]) /\ BlocksHeld[i] = BlocksOf(version, calls[i])
         /\ StreamsHeld[i] \in Int /\ BlocksHeld[i] \in Int
<1>1. calls[i] \in Call
  BY ElementOfSeq DEF ListType
<1>2. Fits(calls[i], errno, version)
  BY DEF StackFacts
<1>3. StreamsOf(calls[i]) \in Int /\ BlocksOf(version, calls[i]) \in Int
  BY <1>1, <1>2, BlocksType
<1> QED BY <1>3 DEF StreamsHeld, BlocksHeld

LEMMA Totals ==
  ASSUME ListType, Account
  PROVE  /\ Sums(StreamsHeld, Len(calls), streams) /\ Sums(BlocksHeld, Len(calls), heap - hidden)
         /\ streams \in Int /\ heap - hidden \in Int
  BY DEF ListType, Account

\* The accounts of a step that moves the innermost call.
LEMMA AccountTop ==
  ASSUME ListType, StackFacts, Account, NEW r \in Call, Fits(r, errno', version),
         calls # <<>>, becomes(r), version' = version,
         streams' = streams - StreamsOf(here) + StreamsOf(r),
         heap' - hidden' = heap - hidden - BlocksOf(version, here) + BlocksOf(version, r)
  PROVE  Account'
<1> DEFINE n == Len(calls)
           s == StreamsHeld
           s2 == StreamsHeld'
           w == BlocksHeld
           w2 == BlocksHeld'
<1>1. /\ n \in Nat \ {0} /\ here = calls[n] /\ here \in Call
      /\ Len(calls') = n /\ calls'[n] = r
      /\ \A i \in 1 .. n - 1 : calls'[i] = calls[i]
  BY StackTop DEF ListType
<1>2. n - 1 \in Nat /\ n \in 1 .. Len(calls) /\ n \in 1 .. Len(calls')
  BY <1>1
<1>3. s[n] = StreamsOf(here) /\ w[n] = BlocksOf(version, here) /\ s[n] \in Int /\ w[n] \in Int
  BY <1>1, <1>2, HeldAt
<1>4. s2[n] = StreamsOf(r) /\ w2[n] = BlocksOf(version, r)
  BY <1>1, <1>2 DEF StreamsHeld, BlocksHeld
<1>5. s2[n] \in Int /\ w2[n] \in Int
  <2>1. StreamsOf(r) \in Int /\ BlocksOf(version, r) \in Int
    BY BlocksType
  <2> QED BY <2>1, <1>4
<1>6. (\A i \in 1 .. n - 1 : s2[i] = s[i]) /\ (\A i \in 1 .. n - 1 : w2[i] = w[i])
  <2>1. n - 1 <= Len(calls) /\ n - 1 <= Len(calls') /\ Len(calls) \in Nat /\ Len(calls') \in Nat
    BY <1>1
  <2> QED BY <2>1, <1>1, <1>2, Frame
<1>7. Sums(s, n, streams) /\ Sums(w, n, heap - hidden) /\ streams \in Int /\ heap - hidden \in Int
  BY Totals
<1> HIDE DEF n, s, s2, w, w2
<1>8. Sums(s2, n, streams - s[n] + s2[n])
  BY <1>1, <1>3, <1>5, <1>6, <1>7, SumsTop
<1>9. Sums(w2, n, heap - hidden - w[n] + w2[n])
  BY <1>1, <1>3, <1>5, <1>6, <1>7, SumsTop
<1> QED BY <1>1, <1>3, <1>4, <1>8, <1>9 DEF Account, n, s2, w2

\* Of one that returns.
LEMMA AccountPop ==
  ASSUME ListType, StackFacts, Account, calls # <<>>, return_up, version' = version,
         streams' = streams - StreamsOf(here),
         heap' - hidden' = heap - hidden - BlocksOf(version, here)
  PROVE  Account'
<1> DEFINE n == Len(calls)
           s == StreamsHeld
           s2 == StreamsHeld'
           w == BlocksHeld
           w2 == BlocksHeld'
<1>1. /\ n \in Nat \ {0} /\ here = calls[n] /\ here \in Call
      /\ Len(calls') = n - 1
      /\ \A i \in 1 .. n - 1 : calls'[i] = calls[i]
  BY StackPop DEF ListType
<1>2. n - 1 \in Nat /\ n \in 1 .. Len(calls)
  BY <1>1
<1>3. s[n] = StreamsOf(here) /\ w[n] = BlocksOf(version, here) /\ s[n] \in Int /\ w[n] \in Int
  BY <1>1, <1>2, HeldAt
<1>6. (\A i \in 1 .. n - 1 : s2[i] = s[i]) /\ (\A i \in 1 .. n - 1 : w2[i] = w[i])
  <2>1. n - 1 <= Len(calls) /\ n - 1 <= Len(calls') /\ Len(calls) \in Nat /\ Len(calls') \in Nat
    BY <1>1
  <2> QED BY <2>1, <1>1, <1>2, Frame
<1>7. Sums(s, n, streams) /\ Sums(w, n, heap - hidden) /\ streams \in Int /\ heap - hidden \in Int
  BY Totals
<1> HIDE DEF n, s, s2, w, w2
<1>8. Sums(s2, n - 1, streams - s[n])
  BY <1>1, <1>3, <1>6, <1>7, SumsPop
<1>9. Sums(w2, n - 1, heap - hidden - w[n])
  BY <1>1, <1>3, <1>6, <1>7, SumsPop
<1> QED BY <1>1, <1>3, <1>8, <1>9 DEF Account, n, s2, w2

\* Of one that calls itself: the new call holds nothing yet.
LEMMA AccountPush ==
  ASSUME ListType, StackFacts, Account, NEW r \in Call, Fits(r, errno', version), NEW c \in Call,
         calls # <<>>, calls' = Front(calls) \o <<r, c>>, version' = version, c.pc = "lstat",
         streams' = streams - StreamsOf(here) + StreamsOf(r),
         heap' - hidden' = heap - hidden - BlocksOf(version, here) + BlocksOf(version, r)
  PROVE  Account'
<1> DEFINE n == Len(calls)
           s == StreamsHeld
           s2 == StreamsHeld'
           w == BlocksHeld
           w2 == BlocksHeld'
<1>1. /\ n \in Nat \ {0} /\ here = calls[n] /\ here \in Call
      /\ Len(calls') = n + 1 /\ calls'[n] = r /\ calls'[n + 1] = c
      /\ \A i \in 1 .. n - 1 : calls'[i] = calls[i]
  BY StackPush DEF ListType
<1>2. /\ n - 1 \in Nat /\ n \in 1 .. Len(calls) /\ n \in 1 .. Len(calls')
      /\ n + 1 \in 1 .. Len(calls')
  BY <1>1
<1>3. s[n] = StreamsOf(here) /\ w[n] = BlocksOf(version, here) /\ s[n] \in Int /\ w[n] \in Int
  BY <1>1, <1>2, HeldAt
<1>4. s2[n] = StreamsOf(r) /\ w2[n] = BlocksOf(version, r)
  BY <1>1, <1>2 DEF StreamsHeld, BlocksHeld
<1>10. s2[n + 1] = 0 /\ w2[n + 1] = 0
  <2>1. s2[n + 1] = StreamsOf(c) /\ w2[n + 1] = BlocksOf(version, c)
    BY <1>1, <1>2 DEF StreamsHeld, BlocksHeld
  <2> QED BY <2>1 DEF StreamsOf, BlocksOf
<1>5. s2[n] \in Int /\ w2[n] \in Int
  <2>1. StreamsOf(r) \in Int /\ BlocksOf(version, r) \in Int
    BY BlocksType
  <2> QED BY <2>1, <1>4
<1>6. (\A i \in 1 .. n - 1 : s2[i] = s[i]) /\ (\A i \in 1 .. n - 1 : w2[i] = w[i])
  <2>1. n - 1 <= Len(calls) /\ n - 1 <= Len(calls') /\ Len(calls) \in Nat /\ Len(calls') \in Nat
    BY <1>1
  <2> QED BY <2>1, <1>1, <1>2, Frame
<1>7. Sums(s, n, streams) /\ Sums(w, n, heap - hidden) /\ streams \in Int /\ heap - hidden \in Int
  BY Totals
<1> HIDE DEF n, s, s2, w, w2
<1>8. Sums(s2, n + 1, streams - s[n] + s2[n])
  BY <1>1, <1>3, <1>5, <1>6, <1>7, <1>10, SumsOver
<1>9. Sums(w2, n + 1, heap - hidden - w[n] + w2[n])
  BY <1>1, <1>3, <1>5, <1>6, <1>7, <1>10, SumsOver
<1> QED BY <1>1, <1>3, <1>4, <1>8, <1>9 DEF Account, n, s2, w2
-----------------------------------------------------------------------------
(* The steps on the stack, for the facts about it.                         *)

LEMMA FactsTop ==
  ASSUME ListType, StackFacts, calls # <<>>, NEW r \in Call, becomes(r),
         version' = version, Fits(r, errno', version)
  PROVE  StackFacts'
<1>1. /\ Len(calls) \in Nat \ {0} /\ Len(calls') = Len(calls) /\ calls'[Len(calls)] = r
      /\ \A i \in 1 .. Len(calls) - 1 : calls'[i] = calls[i]
  BY StackTop DEF ListType
<1> SUFFICES ASSUME NEW i \in 1 .. Len(calls)
             PROVE  /\ i # Len(calls) => calls'[i].pc = "top"
                    /\ Fits(calls'[i], errno', version')
  BY <1>1 DEF StackFacts
<1>2. CASE i = Len(calls)
  BY <1>1, <1>2
<1>3. CASE i # Len(calls)
  <2>1. calls'[i] = calls[i] /\ calls[i].pc = "top" /\ Fits(calls[i], errno, version)
    BY <1>1, <1>3 DEF StackFacts
  <2> QED BY <2>1 DEF Fits
<1> QED BY <1>2, <1>3

LEMMA FactsPop ==
  ASSUME ListType, StackFacts, calls # <<>>, return_up, version' = version
  PROVE  StackFacts'
<1>1. /\ Len(calls) \in Nat \ {0} /\ Len(calls') = Len(calls) - 1
      /\ \A i \in 1 .. Len(calls) - 1 : calls'[i] = calls[i]
  BY StackPop DEF ListType
<1> SUFFICES ASSUME NEW i \in 1 .. Len(calls) - 1
             PROVE  calls'[i].pc = "top" /\ Fits(calls'[i], errno', version')
  BY <1>1 DEF StackFacts
<1>2. i \in 1 .. Len(calls) /\ i # Len(calls)
  BY <1>1
<1>3. calls'[i] = calls[i] /\ calls[i].pc = "top" /\ Fits(calls[i], errno, version)
  BY <1>1, <1>2 DEF StackFacts
<1> QED BY <1>3 DEF Fits

LEMMA FactsPush ==
  ASSUME ListType, StackFacts, calls # <<>>, NEW r \in Call, NEW c \in Call,
         calls' = Front(calls) \o <<r, c>>, version' = version,
         r.pc = "top", Fits(r, errno', version), Fits(c, errno', version)
  PROVE  StackFacts'
<1>1. /\ Len(calls) \in Nat \ {0} /\ Len(calls') = Len(calls) + 1
      /\ calls'[Len(calls)] = r /\ calls'[Len(calls) + 1] = c
      /\ \A i \in 1 .. Len(calls) - 1 : calls'[i] = calls[i]
  BY StackPush DEF ListType
<1> SUFFICES ASSUME NEW i \in 1 .. Len(calls) + 1
             PROVE  /\ i # Len(calls) + 1 => calls'[i].pc = "top"
                    /\ Fits(calls'[i], errno', version')
  BY <1>1 DEF StackFacts
<1>2. CASE i = Len(calls) + 1
  BY <1>1, <1>2
<1>3. CASE i = Len(calls)
  BY <1>1, <1>3
<1>4. CASE i \in 1 .. Len(calls) - 1
  <2>1. i \in 1 .. Len(calls) /\ i # Len(calls)
    BY <1>1, <1>4
  <2>2. calls'[i] = calls[i] /\ calls[i].pc = "top" /\ Fits(calls[i], errno, version)
    BY <2>1, <1>1, <1>4 DEF StackFacts
  <2> QED BY <2>2 DEF Fits
<1> QED BY <1>1, <1>2, <1>3, <1>4

\* And for the directories that are being listed.
LEMMA UnderwayTop ==
  ASSUME ListType, calls # <<>>, NEW r \in Call, becomes(r), printed' = printed,
         NEW d, Covers(here, d, printed) => Covers(r, d, printed) \/ Done(d), Underway(d)
  PROVE  Done(d)' \/ Underway(d)'
<1>1. /\ Len(calls) \in Nat \ {0} /\ here = calls[Len(calls)]
      /\ Len(calls') = Len(calls) /\ calls'[Len(calls)] = r
      /\ \A i \in 1 .. Len(calls) - 1 : calls'[i] = calls[i]
  BY StackTop DEF ListType
<1>2. PICK i \in 1 .. Len(calls) : Covers(calls[i], d, printed)
  BY DEF Underway
<1>3. CASE i = Len(calls)
  <2>1. CASE Done(d)
    BY <2>1 DEF Done
  <2>2. CASE Covers(r, d, printed)
    BY <2>2, <1>1 DEF Underway
  <2> QED BY <1>1, <1>2, <1>3, <2>1, <2>2
<1>4. CASE i # Len(calls)
  <2>1. calls'[i] = calls[i] /\ i \in 1 .. Len(calls')
    BY <1>1, <1>4
  <2> QED BY <1>2, <2>1 DEF Underway
<1> QED BY <1>3, <1>4

LEMMA UnderwayPop ==
  ASSUME ListType, calls # <<>>, return_up, printed' = printed,
         NEW d, ~Covers(here, d, printed), Underway(d)
  PROVE  Underway(d)'
<1>1. /\ Len(calls) \in Nat \ {0} /\ here = calls[Len(calls)]
      /\ Len(calls') = Len(calls) - 1
      /\ \A i \in 1 .. Len(calls) - 1 : calls'[i] = calls[i]
  BY StackPop DEF ListType
<1>2. PICK i \in 1 .. Len(calls) : Covers(calls[i], d, printed)
  BY DEF Underway
<1>3. calls'[i] = calls[i] /\ i \in 1 .. Len(calls')
  BY <1>1, <1>2
<1> QED BY <1>2, <1>3 DEF Underway

LEMMA UnderwayPush ==
  ASSUME ListType, calls # <<>>, NEW r \in Call, NEW c \in Call,
         calls' = Front(calls) \o <<r, c>>, printed \subseteq printed',
         NEW d, Covers(here, d, printed) => Covers(r, d, printed'), Underway(d)
  PROVE  Underway(d)'
<1>1. /\ Len(calls) \in Nat \ {0} /\ here = calls[Len(calls)]
      /\ Len(calls') = Len(calls) + 1 /\ calls'[Len(calls)] = r
      /\ \A i \in 1 .. Len(calls) - 1 : calls'[i] = calls[i]
  BY StackPush DEF ListType
<1>2. PICK i \in 1 .. Len(calls) : Covers(calls[i], d, printed)
  BY DEF Underway
<1>3. i \in 1 .. Len(calls')
  BY <1>1
<1>4. CASE i = Len(calls)
  BY <1>1, <1>2, <1>3, <1>4 DEF Underway
<1>5. CASE i # Len(calls)
  <2>1. Covers(calls[i], d, printed')
    BY <1>2 DEF Covers
  <2>2. i \in 1 .. Len(calls) - 1
    BY <1>1, <1>5
  <2>3. calls'[i] = calls[i]
    BY <1>1, <2>2
  <2> QED BY <2>1, <2>3, <1>3 DEF Underway
<1> QED BY <1>4, <1>5

LEMMA ProgressKept ==
  ASSUME Progress, version' = version, printed \subseteq printed',
         failures' = <<>> => failures = <<>>,
         failures' = <<>> => \A d \in DOMAIN Listing : Underway(d) => Done(d)' \/ Underway(d)',
         failures' = <<>> => \A d \in DOMAIN Listing :
                               d \in printed' /\ d \notin printed => Underway(d)'
  PROVE  Progress'
<1> SUFFICES ASSUME version # "none", failures' = <<>>, NEW d \in DOMAIN Listing,
                    d = Root \/ d \in printed'
             PROVE  Done(d)' \/ Underway(d)'
  BY DEF Progress
<1>1. CASE d = Root \/ d \in printed
  <2>1. Done(d) \/ Underway(d)
    BY <1>1 DEF Progress
  <2>2. Done(d) => Done(d)'
    BY DEF Done
  <2> QED BY <2>1, <2>2
<1>2. CASE d \in printed' /\ d \notin printed
  BY <1>2
<1> QED BY <1>1, <1>2
-----------------------------------------------------------------------------
(* Three kinds of step: the innermost call moves, returns, calls itself.   *)

LEMMA Innermost ==
  ASSUME ListInv, calls # <<>>
  PROVE  /\ here \in Call /\ Fits(here, errno, version) /\ StreamsOf(here) \in Int
         /\ BlocksOf(version, here) \in Int
<1>1. Len(calls) \in Nat \ {0} /\ here = calls[Len(calls)] /\ here \in Call
  BY StackLast DEF ListInv, ListType
<1>2. Fits(here, errno, version)
  BY <1>1 DEF ListInv, StackFacts
<1> QED BY <1>1, <1>2, BlocksType

LEMMA Moves ==
  ASSUME ListInv, calls # <<>>, NEW r \in Call, becomes(r), Fits(r, errno', version),
         UNCHANGED <<version, printed>>, ~alarm',
         errno' \in Errnos, failures' \in Seq(Failures), heap' \in Int, hidden' \in Int,
         streams' = streams - StreamsOf(here) + StreamsOf(r),
         heap' - hidden' = heap - hidden - BlocksOf(version, here) + BlocksOf(version, r),
         failures' = <<>> => failures = <<>>,
         failures' = <<>> => \A d \in DOMAIN Listing :
                               Covers(here, d, printed) => Covers(r, d, printed) \/ Done(d)
  PROVE  ListInv'
<1>1. ListType /\ StackFacts /\ Account /\ Progress /\ printed \subseteq AllPaths
  BY DEF ListInv
<1>2. StreamsOf(here) \in Int /\ StreamsOf(r) \in Int
  BY Innermost, BlocksType
<1>3. ListType'
  <2>1. calls' \in Seq(Call)
    BY <1>1, StackTop DEF ListType
  <2> QED BY <1>1, <1>2, <2>1 DEF ListType
<1>4. StackFacts'
  BY <1>1, FactsTop
<1>5. Account'
  BY <1>1, AccountTop
<1>6. Progress'
  <2>1. failures' = <<>> => \A d \in DOMAIN Listing : Underway(d) => Done(d)' \/ Underway(d)'
    BY <1>1, UnderwayTop
  <2>2. \A d \in DOMAIN Listing : ~ (d \in printed' /\ d \notin printed)
    OBVIOUS
  <2> QED BY <1>1, <2>1, <2>2, ProgressKept
<1>7. AllPaths' = AllPaths
  BY DEF AllPaths
<1> QED BY <1>1, <1>3, <1>4, <1>5, <1>6, <1>7 DEF ListInv

LEMMA Returns ==
  ASSUME ListInv, calls # <<>>, return_up, UNCHANGED <<version, printed, alarm>>,
         errno' \in Errnos, failures' \in Seq(Failures), heap' \in Int, hidden' \in Int,
         streams' = streams - StreamsOf(here),
         heap' - hidden' = heap - hidden - BlocksOf(version, here),
         failures' = <<>> => failures = <<>>,
         failures' = <<>> => \A d \in DOMAIN Listing : ~Covers(here, d, printed)
  PROVE  ListInv'
<1>1. ListType /\ StackFacts /\ Account /\ Progress /\ printed \subseteq AllPaths /\ ~alarm
  BY DEF ListInv
<1>2. StreamsOf(here) \in Int
  BY Innermost
<1>3. ListType'
  <2>1. calls' \in Seq(Call)
    BY <1>1, StackPop DEF ListType
  <2> QED BY <1>1, <1>2, <2>1 DEF ListType
<1>4. StackFacts'
  BY <1>1, FactsPop
<1>5. Account'
  BY <1>1, AccountPop
<1>6. Progress'
  <2>1. failures' = <<>> => \A d \in DOMAIN Listing : Underway(d) => Done(d)' \/ Underway(d)'
    BY <1>1, UnderwayPop
  <2>2. \A d \in DOMAIN Listing : ~ (d \in printed' /\ d \notin printed)
    OBVIOUS
  <2> QED BY <1>1, <2>1, <2>2, ProgressKept
<1>7. AllPaths' = AllPaths
  BY DEF AllPaths
<1> QED BY <1>1, <1>3, <1>4, <1>5, <1>6, <1>7 DEF ListInv

LEMMA CallsItself ==
  ASSUME ListInv, calls # <<>>, NEW r \in Call, NEW c \in Call,
         calls' = Front(calls) \o <<r, c>>, r.pc = "top", c.pc = "lstat",
         Fits(r, errno', version), Fits(c, errno', version),
         UNCHANGED <<version, errno, failures, alarm>>,
         printed' = printed \cup {c.path}, c.path \in AllPaths, heap' \in Int, hidden' \in Int,
         streams' = streams - StreamsOf(here) + StreamsOf(r),
         heap' - hidden' = heap - hidden - BlocksOf(version, here) + BlocksOf(version, r),
         \A d \in DOMAIN Listing : Covers(here, d, printed) => Covers(r, d, printed')
  PROVE  ListInv'
<1>1. ListType /\ StackFacts /\ Account /\ Progress /\ printed \subseteq AllPaths /\ ~alarm
  BY DEF ListInv
<1>2. StreamsOf(here) \in Int /\ StreamsOf(r) \in Int
  BY Innermost, BlocksType
<1>8. /\ Len(calls) \in Nat \ {0} /\ calls' \in Seq(Call)
      /\ Len(calls') = Len(calls) + 1 /\ calls'[Len(calls) + 1] = c
  BY <1>1, StackPush DEF ListType
<1>3. ListType'
  BY <1>1, <1>2, <1>8 DEF ListType
<1>4. StackFacts'
  BY <1>1, FactsPush
<1>5. Account'
  BY <1>1, AccountPush
<1>6. Progress'
  <2>1. \A d \in DOMAIN Listing : Underway(d) => Underway(d)'
    BY <1>1, UnderwayPush
  <2>2. ASSUME NEW d \in DOMAIN Listing, d \in printed', d \notin printed
        PROVE  Underway(d)'
    <3>1. Covers(c, d, printed') /\ Len(calls) + 1 \in 1 .. Len(calls')
      BY <2>2, <1>8 DEF Covers
    <3> QED BY <3>1, <1>8 DEF Underway
  <2> QED BY <1>1, <2>1, <2>2, ProgressKept
<1>7. AllPaths' = AllPaths
  BY DEF AllPaths
<1> QED BY <1>1, <1>3, <1>4, <1>5, <1>6, <1>7 DEF ListInv
-----------------------------------------------------------------------------
(* Every step keeps the invariant.                                         *)

LEMMA OneMore ==
  ASSUME NEW S, NEW s \in Seq(S), NEW x \in S
  PROVE  Append(s, x) \in Seq(S) /\ Append(s, x) # <<>>
<1>1. Append(s, x) \in Seq(S) /\ Len(Append(s, x)) = Len(s) + 1
  BY AppendProperties
<1>2. Len(s) \in Nat
  BY LenProperties
<1>3. Len(Append(s, x)) # 0
  BY <1>1, <1>2
<1> QED BY <1>1, <1>3, EmptySeq

LEMMA FailureNoted ==
  ASSUME failures \in Seq(Failures), NEW f \in Failures, NEW e \in Errnos,
         fails(f, e) \/ exhausted(f)
  PROVE  failures' \in Seq(Failures) /\ failures' # <<>> /\ errno' \in Errnos
<1>1. failures' = Append(failures, f)
  BY Zenon DEF fails, exhausted
<1>2. errno' = e \/ errno' = "EMFILE"
  BY Zenon DEF fails, exhausted
<1>3. "EMFILE" \in Errnos
  BY DEF Errnos
<1>4. Append(failures, f) \in Seq(Failures) /\ Append(failures, f) # <<>>
  BY OneMore
<1>5. errno' \in Errnos
  BY <1>2, <1>3
<1> QED BY <1>1, <1>4, <1>5, Zenon

LEMMA opendirKeeps == ASSUME ListInv, calls # <<>>, opendir PROVE ListInv'
<1>1. here \in Call /\ Fits(here, errno, version) /\ here.pc = "opendir" /\ ListType /\ ~alarm
  BY Innermost DEF opendir, here_at, ListInv
<1>2. /\ StreamsOf(here) = 0 /\ BlocksOf(version, here) = 0
      /\ streams \in Int /\ heap \in Int /\ hidden \in Int /\ heap' = heap /\ hidden' = hidden
      /\ heap - hidden - 0 = heap - hidden /\ streams - 0 = streams
      /\ errno \in Errnos /\ failures \in Seq(Failures)
      /\ UNCHANGED <<version, printed, alarm>>
  BY <1>1 DEF opendir, StreamsOf, BlocksOf, ListType
<1>3. CASE succeeds /\ streams' = streams + 1 /\ goto("malloc")
  <2> DEFINE r == [here EXCEPT !.pc = "malloc"]
  <2>1. r \in Call /\ r.path = here.path /\ r.pc = "malloc"
    BY <1>1, CallWrites DEF Call
  <2>2. becomes(r)
    BY <1>3 DEF goto
  <2> HIDE DEF r
  <2>3. Fits(r, errno', version)
    BY <1>1, <2>1 DEF Fits
  <2>4. StreamsOf(r) = 1 /\ BlocksOf(version, r) = 0
    BY <2>1 DEF StreamsOf, BlocksOf
  <2>5. \A d \in DOMAIN Listing : Covers(here, d, printed) => Covers(r, d, printed)
    BY <1>1, <2>1 DEF Covers
  <2>6. failures' = failures /\ errno' = errno
    BY <1>3 DEF succeeds
  <2>7. /\ streams' = streams - StreamsOf(here) + StreamsOf(r)
        /\ heap' - hidden' = heap - hidden - BlocksOf(version, here) + BlocksOf(version, r)
    BY <1>2, <1>3, <2>4
  <2> QED BY <1>1, <1>2, <2>1, <2>2, <2>3, <2>5, <2>6, <2>7, Moves
<1>4. CASE (fails("opendir", "EACCES") \/ exhausted("opendir")) /\ return_up /\ UNCHANGED streams
  <2>1. "opendir" \in Failures /\ "EACCES" \in Errnos
    BY DEF Failures, Errnos
  <2>2. failures' \in Seq(Failures) /\ failures' # <<>> /\ errno' \in Errnos
    BY <1>2, <1>4, <2>1, FailureNoted
  <2>3. /\ streams' = streams - StreamsOf(here)
        /\ heap' - hidden' = heap - hidden - BlocksOf(version, here)
    BY <1>2, <1>4
  <2> QED BY <1>2, <1>4, <2>1, <2>2, <2>3, Returns
<1> QED BY <1>3, <1>4 DEF opendir

LEMMA mallocKeeps == ASSUME ListInv, calls # <<>>, malloc PROVE ListInv'
<1>1. here \in Call /\ Fits(here, errno, version) /\ here.pc = "malloc" /\ ListType /\ ~alarm
  BY Innermost DEF malloc, here_at, ListInv
<1>2. /\ StreamsOf(here) = 1 /\ BlocksOf(version, here) = 0
      /\ streams \in Int /\ heap \in Int /\ hidden \in Int /\ hidden' = hidden
      /\ errno \in Errnos /\ failures \in Seq(Failures)
      /\ UNCHANGED <<version, printed, alarm>>
  BY <1>1 DEF malloc, StreamsOf, BlocksOf, ListType
<1>3. CASE succeeds /\ heap' = heap + Blocks /\ UNCHANGED streams
           /\ IF version = "_scandir" THEN goto("scandir")
              ELSE becomes([here EXCEPT !.pc = "top", !.left = Listing[here.path]])
  <2>6. failures' = failures /\ errno' = errno /\ Blocks \in Int
    BY <1>3 DEF succeeds, Blocks
  <2>7. CASE version = "_scandir"
    <3> DEFINE r == [here EXCEPT !.pc = "scandir"]
    <3>1. r \in Call /\ r.path = here.path /\ r.pc = "scandir"
      BY <1>1, CallWrites DEF Call
    <3>2. becomes(r)
      BY <1>3, <2>7 DEF goto
    <3> HIDE DEF r
    <3>3. Fits(r, errno', version)
      BY <1>1, <2>7, <3>1 DEF Fits
    <3>4. StreamsOf(r) = 1 /\ BlocksOf(version, r) = Blocks
      BY <3>1, <2>7 DEF StreamsOf, BlocksOf, Blocks
    <3>5. \A d \in DOMAIN Listing : Covers(here, d, printed) => Covers(r, d, printed)
      BY <1>1, <3>1 DEF Covers
    <3>6. /\ streams' = streams - StreamsOf(here) + StreamsOf(r)
          /\ heap' - hidden' = heap - hidden - BlocksOf(version, here) + BlocksOf(version, r)
          /\ heap' \in Int
      BY <1>2, <1>3, <2>6, <3>4
    <3> QED BY <1>1, <1>2, <2>6, <3>1, <3>2, <3>3, <3>5, <3>6, Moves
  <2>8. CASE version # "_scandir"
    <3> DEFINE l == Listing[here.path]
               r == [here EXCEPT !.pc = "top", !.left = l]
    <3>1. l \in SUBSET Names /\ here.path \in DOMAIN Listing
      BY <1>1 DEF Fits, Names
    <3>2. becomes(r)
      BY <1>3, <2>8
    <3> HIDE DEF l
    <3>3. r \in Call /\ r.path = here.path /\ r.pc = "top" /\ r.left = l
      BY <1>1, <3>1, CallWrites DEF Call
    <3> HIDE DEF r
    <3>4. Fits(r, errno', version)
      BY <1>1, <3>1, <3>3 DEF Fits, l
    <3>5. StreamsOf(r) = 1 /\ BlocksOf(version, r) = Blocks
      BY <3>3, <2>8 DEF StreamsOf, BlocksOf, Blocks
    <3>6. \A d \in DOMAIN Listing : Covers(here, d, printed) => Covers(r, d, printed)
      BY <1>1, <3>3 DEF Covers, l
    <3>7. /\ streams' = streams - StreamsOf(here) + StreamsOf(r)
          /\ heap' - hidden' = heap - hidden - BlocksOf(version, here) + BlocksOf(version, r)
          /\ heap' \in Int
      BY <1>2, <1>3, <2>6, <3>5
    <3> QED BY <1>1, <1>2, <2>6, <3>2, <3>3, <3>4, <3>6, <3>7, Moves
  <2> QED BY <2>7, <2>8
<1>4. CASE fails("malloc", "ENOMEM") /\ out_of_memory /\ UNCHANGED heap
  <2>1. "malloc" \in Failures /\ "ENOMEM" \in Errnos
    BY DEF Failures, Errnos
  <2>2. failures' \in Seq(Failures) /\ failures' # <<>> /\ errno' \in Errnos
    BY <1>2, <1>4, <2>1, FailureNoted
  <2>3. /\ streams' = streams - StreamsOf(here) /\ return_up
        /\ heap' - hidden' = heap - hidden - BlocksOf(version, here)
    BY <1>2, <1>4 DEF out_of_memory
  <2> QED BY <1>2, <1>4, <2>1, <2>2, <2>3, Returns
<1> QED BY <1>3, <1>4 DEF malloc

LEMMA scandirKeeps == ASSUME ListInv, calls # <<>>, scandir PROVE ListInv'
<1>1. /\ here \in Call /\ Fits(here, errno, version) /\ here.pc = "scandir" /\ ListType /\ ~alarm
      /\ version = "_scandir"
  BY Innermost DEF scandir, here_at, ListInv, Fits
<1>2. /\ StreamsOf(here) = 1 /\ BlocksOf(version, here) = 1
      /\ streams \in Int /\ heap \in Int /\ hidden \in Int /\ hidden' = hidden /\ streams' = streams
      /\ errno \in Errnos /\ failures \in Seq(Failures)
      /\ UNCHANGED <<version, printed, alarm>>
  BY <1>1 DEF scandir, StreamsOf, BlocksOf, ListType
<1>3. CASE succeeds /\ heap' = heap + 1 + Cardinality(Listing[here.path])
           /\ becomes([here EXCEPT !.pc = "top", !.left = Listing[here.path]])
  <2> DEFINE l == Listing[here.path]
             r == [here EXCEPT !.pc = "top", !.left = l]
  <2>1. l \in SUBSET Names /\ here.path \in DOMAIN Listing
    BY <1>1 DEF Fits, Names
  <2>2. Cardinality(l) \in Nat
    BY <2>1, ListingAssumption, FS_CardinalityType DEF ListingAssumption
  <2>3. becomes(r) /\ heap' = heap + 1 + Cardinality(l)
    BY <1>3
  <2> HIDE DEF l
  <2>4. r \in Call /\ r.path = here.path /\ r.pc = "top" /\ r.left = l
    BY <1>1, <2>1, CallWrites DEF Call
  <2> HIDE DEF r
  <2>5. Fits(r, errno', version)
    BY <1>1, <2>1, <2>4 DEF Fits, l
  <2>6. StreamsOf(r) = 1 /\ BlocksOf(version, r) = 1 + (1 + Cardinality(l))
    BY <1>1, <2>4 DEF StreamsOf, BlocksOf
  <2>7. \A d \in DOMAIN Listing : Covers(here, d, printed) => Covers(r, d, printed)
    BY <1>1, <2>4 DEF Covers, l
  <2>8. /\ streams' = streams - StreamsOf(here) + StreamsOf(r)
        /\ heap' - hidden' = heap - hidden - BlocksOf(version, here) + BlocksOf(version, r)
        /\ heap' \in Int
    BY <1>2, <2>2, <2>3, <2>6
  <2>9. failures' = failures /\ errno' = errno
    BY <1>3 DEF succeeds
  <2> QED BY <1>1, <1>2, <2>3, <2>4, <2>5, <2>7, <2>8, <2>9, Moves
<1>4. CASE (fails("scandir", "ENOMEM") \/ exhausted("scandir")) /\ goto("free") /\ UNCHANGED heap
  <2> DEFINE r == [here EXCEPT !.pc = "free"]
  <2>1. r \in Call /\ r.path = here.path /\ r.pc = "free"
    BY <1>1, CallWrites DEF Call
  <2>2. becomes(r)
    BY <1>4 DEF goto
  <2> HIDE DEF r
  <2>3. Fits(r, errno', version)
    BY <1>1, <2>1 DEF Fits
  <2>4. StreamsOf(r) = 1 /\ BlocksOf(version, r) = 1
    BY <1>1, <2>1 DEF StreamsOf, BlocksOf
  <2>5. "scandir" \in Failures /\ "ENOMEM" \in Errnos
    BY DEF Failures, Errnos
  <2>6. failures' \in Seq(Failures) /\ failures' # <<>> /\ errno' \in Errnos
    BY <1>2, <1>4, <2>5, FailureNoted
  <2>7. /\ streams' = streams - StreamsOf(here) + StreamsOf(r)
        /\ heap' - hidden' = heap - hidden - BlocksOf(version, here) + BlocksOf(version, r)
        /\ heap' \in Int
    BY <1>2, <1>4, <2>4
  <2> QED BY <1>1, <1>2, <2>1, <2>2, <2>3, <2>5, <2>6, <2>7, Moves
<1> QED BY <1>3, <1>4 DEF scandir
LEMMA loopKeeps == ASSUME ListInv, calls # <<>>, loop PROVE ListInv'
<1>1. here \in Call /\ Fits(here, errno, version) /\ here.pc = "top" /\ ListType /\ ~alarm
  BY Innermost DEF loop, top, here_at, ListInv
<1>2. /\ streams \in Int /\ heap \in Int /\ hidden \in Int
      /\ errno \in Errnos /\ failures \in Seq(Failures)
      /\ UNCHANGED <<version, errno, streams, heap, printed, hidden, failures, alarm>>
      /\ StreamsOf(here) \in Int /\ BlocksOf(version, here) \in Int
  BY <1>1, Innermost DEF loop, ListType
<1> DEFINE r == [here EXCEPT !.pc = "read", !.olderrno = errno]
<1>3. becomes(r)
  BY DEF loop, top
<1>4. r \in Call /\ r.path = here.path /\ r.pc = "read" /\ r.left = here.left /\ r.olderrno = errno
  <2> DEFINE d == [here EXCEPT !.pc = "read"]
  <2>1. d \in Call /\ d.path = here.path /\ d.pc = "read" /\ d.left = here.left
    BY <1>1 DEF Call
  <2>2. r = [d EXCEPT !.olderrno = errno]
    BY <1>1 DEF Call
  <2> HIDE DEF d, r
  <2> QED BY <1>2, <2>1, <2>2 DEF Call
<1> HIDE DEF r
<1>5. Fits(r, errno', version)
  BY <1>1, <1>2, <1>4 DEF Fits
<1>6. StreamsOf(r) = StreamsOf(here) /\ BlocksOf(version, r) = BlocksOf(version, here)
  BY <1>1, <1>4 DEF StreamsOf, BlocksOf
<1>7. \A d \in DOMAIN Listing : Covers(here, d, printed) => Covers(r, d, printed)
  BY <1>1, <1>4 DEF Covers
<1>8. /\ streams' = streams - StreamsOf(here) + StreamsOf(r)
      /\ heap' - hidden' = heap - hidden - BlocksOf(version, here) + BlocksOf(version, r)
  BY <1>2, <1>6
<1> QED BY <1>1, <1>2, <1>3, <1>4, <1>5, <1>7, <1>8, Moves

LEMMA readdirKeeps == ASSUME ListInv, calls # <<>>, readdir_fails PROVE ListInv'
<1>1. /\ here \in Call /\ Fits(here, errno, version) /\ here.pc = "read" /\ ListType /\ ~alarm
      /\ version # "_scandir"
  BY Innermost DEF readdir_fails, here_at, ListInv
<1>2. /\ streams \in Int /\ heap \in Int /\ hidden \in Int
      /\ failures \in Seq(Failures)
      /\ UNCHANGED <<version, streams, heap, printed, hidden, alarm>>
      /\ StreamsOf(here) \in Int /\ BlocksOf(version, here) \in Int
  BY <1>1, Innermost DEF readdir_fails, ListType
<1> DEFINE r == [here EXCEPT !.pc = "free"]
<1>3. becomes(r)
  BY DEF readdir_fails, goto
<1>4. r \in Call /\ r.path = here.path /\ r.pc = "free"
  BY <1>1, CallWrites DEF Call
<1> HIDE DEF r
<1>5. Fits(r, errno', version)
  BY <1>1, <1>4 DEF Fits
<1>6. StreamsOf(r) = StreamsOf(here) /\ BlocksOf(version, r) = BlocksOf(version, here)
  BY <1>1, <1>4 DEF StreamsOf, BlocksOf
<1>7. failures' \in Seq(Failures) /\ failures' # <<>> /\ errno' \in Errnos
  <2>1. "readdir" \in Failures /\ "EIO" \in Errnos
    BY DEF Failures, Errnos
  <2>2. fails("readdir", "EIO")
    BY DEF readdir_fails
  <2> QED BY <1>2, <2>1, <2>2, FailureNoted
<1>8. /\ streams' = streams - StreamsOf(here) + StreamsOf(r)
      /\ heap' - hidden' = heap - hidden - BlocksOf(version, here) + BlocksOf(version, r)
  BY <1>2, <1>6
<1> QED BY <1>1, <1>2, <1>3, <1>4, <1>5, <1>7, <1>8, Moves

LEMMA read_endKeeps == ASSUME ListInv, calls # <<>>, read_end PROVE ListInv'
<1>1. /\ here \in Call /\ Fits(here, errno, version) /\ here.pc = "read" /\ ListType /\ ~alarm
      /\ here.left = {} /\ here.olderrno = errno
  BY Innermost DEF read_end, here_at, ListInv, Fits
<1>2. /\ streams \in Int /\ heap \in Int /\ hidden \in Int
      /\ errno \in Errnos /\ failures \in Seq(Failures)
      /\ UNCHANGED <<version, errno, streams, printed, hidden, failures>>
      /\ heap' = IF version = "_scandir" THEN heap - 1 ELSE heap
  BY <1>1 DEF read_end, ListType
<1> DEFINE r == [here EXCEPT !.pc = "free"]
<1>3. becomes(r)
  BY DEF read_end, goto
<1>4. r \in Call /\ r.path = here.path /\ r.pc = "free"
  BY <1>1, CallWrites DEF Call
<1> HIDE DEF r
<1>5. Fits(r, errno', version)
  BY <1>1, <1>4 DEF Fits
<1>6. /\ StreamsOf(here) = 1 /\ StreamsOf(r) = 1
      /\ BlocksOf(version, r) \in Int
      /\ BlocksOf(version, here) = BlocksOf(version, r) + IF version = "_scandir" THEN 1 ELSE 0
  <2>1. Cardinality({}) = 0
    BY FS_EmptySet
  <2> QED BY <1>1, <1>4, <2>1 DEF StreamsOf, BlocksOf
<1>7. \A d \in DOMAIN Listing : Covers(here, d, printed) => Done(d)
  BY <1>1 DEF Covers, Done
<1>8. /\ streams' = streams - StreamsOf(here) + StreamsOf(r)
      /\ heap' - hidden' = heap - hidden - BlocksOf(version, here) + BlocksOf(version, r)
      /\ heap' \in Int
  BY <1>2, <1>6
<1>9. ~alarm'
  BY <1>1 DEF read_end
<1> QED BY <1>1, <1>2, <1>3, <1>4, <1>5, <1>7, <1>8, <1>9, Moves

LEMMA freeKeeps == ASSUME ListInv, calls # <<>>, free PROVE ListInv'
<1>1. here \in Call /\ here.pc = "free" /\ ListType
  BY Innermost DEF free, here_at, ListInv
<1>2. /\ streams \in Int /\ heap \in Int /\ hidden \in Int
      /\ errno \in Errnos /\ failures \in Seq(Failures)
      /\ UNCHANGED <<version, errno, printed, hidden, failures, alarm>>
      /\ streams' = streams - 1 /\ heap' = heap - Blocks /\ return_up
  BY <1>1 DEF free, ListType
<1>3. StreamsOf(here) = 1 /\ BlocksOf(version, here) = Blocks /\ Blocks \in Int
  BY <1>1 DEF StreamsOf, BlocksOf, Blocks
<1>4. /\ streams' = streams - StreamsOf(here)
      /\ heap' - hidden' = heap - hidden - BlocksOf(version, here) /\ heap' \in Int
  BY <1>2, <1>3
<1>5. \A d \in DOMAIN Listing : ~Covers(here, d, printed)
  BY <1>1 DEF Covers
<1> QED BY <1>2, <1>4, <1>5, Returns

LEMMA lstatKeeps == ASSUME ListInv, calls # <<>>, lstat PROVE ListInv'
<1>1. here \in Call /\ here.pc = "lstat" /\ ListType /\ ~alarm
  BY Innermost DEF lstat, here_at, ListInv
<1>2. /\ streams \in Int /\ heap \in Int /\ hidden \in Int
      /\ errno \in Errnos /\ failures \in Seq(Failures)
      /\ UNCHANGED <<version, streams, heap, printed, hidden, alarm>>
  BY <1>1 DEF lstat, ListType
<1>3. StreamsOf(here) = 0 /\ BlocksOf(version, here) = 0
  BY <1>1 DEF StreamsOf, BlocksOf
<1>4. /\ streams' = streams - StreamsOf(here)
      /\ heap' - hidden' = heap - hidden - BlocksOf(version, here)
  BY <1>2, <1>3
<1>5. CASE succeeds /\ here.path \in DOMAIN Listing /\ goto("opendir")
  <2> DEFINE r == [here EXCEPT !.pc = "opendir"]
  <2>1. r \in Call /\ r.path = here.path /\ r.pc = "opendir"
    BY <1>1, CallWrites DEF Call
  <2>2. becomes(r) /\ failures' = failures /\ errno' = errno
    BY <1>5 DEF goto, succeeds
  <2> HIDE DEF r
  <2>3. Fits(r, errno', version)
    BY <1>5, <2>1 DEF Fits
  <2>4. StreamsOf(r) = 0 /\ BlocksOf(version, r) = 0
    BY <2>1 DEF StreamsOf, BlocksOf
  <2>5. \A d \in DOMAIN Listing : Covers(here, d, printed) => Covers(r, d, printed)
    BY <1>1, <2>1 DEF Covers
  <2>6. /\ streams' = streams - StreamsOf(here) + StreamsOf(r)
        /\ heap' - hidden' = heap - hidden - BlocksOf(version, here) + BlocksOf(version, r)
    BY <1>2, <1>3, <2>4
  <2> QED BY <1>1, <1>2, <2>1, <2>2, <2>3, <2>5, <2>6, Moves
<1>6. CASE succeeds /\ here.path \notin DOMAIN Listing /\ return_up
  <2>1. \A d \in DOMAIN Listing : ~Covers(here, d, printed)
    BY <1>6 DEF Covers
  <2>2. failures' = failures /\ errno' = errno
    BY <1>6 DEF succeeds
  <2> QED BY <1>2, <1>4, <1>6, <2>1, <2>2, Returns
<1>7. CASE (\E e \in {"EACCES", "EIO"} : fails("lstat", e)) /\ return_up
  <2>1. PICK e \in {"EACCES", "EIO"} : fails("lstat", e)
    BY <1>7
  <2>2. "lstat" \in Failures /\ e \in Errnos
    BY DEF Failures, Errnos
  <2>3. failures' \in Seq(Failures) /\ failures' # <<>> /\ errno' \in Errnos
    BY <1>2, <2>1, <2>2, FailureNoted
  <2> QED BY <1>2, <1>4, <1>7, <2>3, Returns
<1> QED BY <1>5, <1>6, <1>7 DEF lstat

\* What the tests on the first characters say of a name.
LEMMA DotNames == ASSUME NEW name \in Names PROVE is_dot_or_dotdot(name) <=> name \in Dots
<1>1. name \in Seq(STRING) /\ name # <<>>
  BY ListingAssumption DEF ListingAssumption
<1>2. Len(name) \in Nat \ {0}
  BY <1>1, EmptySeq, LenProperties
<1>3. ASSUME is_dot_or_dotdot(name) PROVE name \in Dots
  <2>1. name[1] = "."
    BY <1>3 DEF is_dot_or_dotdot
  <2>2. CASE Len(name) > 1 /\ name[2] = "."
    <3>1. Len(name) = 2
      BY <1>3, <2>2 DEF is_dot_or_dotdot
    <3>2. <<".", ".">> \in Seq({"."}) /\ Len(<<".", ".">>) = 2
          /\ <<".", ".">>[1] = "." /\ <<".", ".">>[2] = "."
      OBVIOUS
    <3> DEFINE t == <<".", ".">>
    <3>3. t \in Seq({"."}) /\ Len(t) = 2 /\ t[1] = "." /\ t[2] = "."
      BY <3>2
    <3> HIDE DEF t
    <3>4. \A i \in 1 .. Len(name) : name[i] = t[i]
      BY <2>1, <2>2, <3>1, <3>3
    <3>5. name = t
      BY <1>1, <3>1, <3>3, <3>4, SeqEqual
    <3> QED BY <3>5 DEF Dots, t
  <2>3. CASE ~ (Len(name) > 1 /\ name[2] = ".")
    <3>1. Len(name) = 1
      BY <1>3, <2>3 DEF is_dot_or_dotdot
    <3> DEFINE t == <<".">>
    <3>3. t \in Seq({"."}) /\ Len(t) = 1 /\ t[1] = "."
      OBVIOUS
    <3> HIDE DEF t
    <3>4. \A i \in 1 .. Len(name) : name[i] = t[i]
      BY <2>1, <3>1, <3>3
    <3>5. name = t
      BY <1>1, <3>1, <3>3, <3>4, SeqEqual
    <3> QED BY <3>5 DEF Dots, t
  <2> QED BY <2>2, <2>3
<1>4. ASSUME name \in Dots PROVE is_dot_or_dotdot(name)
  <2>1. CASE name = <<".">>
    BY <2>1 DEF is_dot_or_dotdot
  <2>2. CASE name = <<".", ".">>
    BY <2>2 DEF is_dot_or_dotdot
  <2> QED BY <1>4, <2>1, <2>2 DEF Dots
<1> QED BY <1>3, <1>4

LEMMA read_entryKeeps ==
  ASSUME ListInv, calls # <<>>, NEW name \in here.left, read_entry(name) PROVE ListInv'
<1>1. /\ here \in Call /\ Fits(here, errno, version) /\ here.pc = "read" /\ ListType /\ ~alarm
      /\ here.path \in DOMAIN Listing /\ here.left \subseteq Listing[here.path]
  BY Innermost DEF read_entry, here_at, ListInv, Fits
<1>2. /\ streams \in Int /\ heap \in Int /\ hidden \in Int
      /\ errno \in Errnos /\ failures \in Seq(Failures)
      /\ UNCHANGED <<version, errno, streams, failures, alarm>>
      /\ freed(name)
  BY <1>1 DEF read_entry, ListType
<1> DEFINE l == here.left \ {name}
           r == [here EXCEPT !.pc = "top", !.left = l]
<1>3. name \in Names /\ l \in SUBSET Names /\ here.path \in Seq(Names)
  BY <1>1 DEF Call
<1>4. is_dot_or_dotdot(name) <=> name \in Dots
  BY <1>3, DotNames
<1>5. Cardinality(here.left) \in Nat /\ Cardinality(l) = Cardinality(here.left) - 1
  <2>1. IsFiniteSet(here.left)
    BY <1>1, ListingAssumption, FS_Subset DEF ListingAssumption
  <2> QED BY <2>1, FS_CardinalityType, FS_RemoveElement
<1>6. r \in Call /\ r.path = here.path /\ r.pc = "top" /\ r.left = l
  <2> HIDE DEF l
  <2> QED BY <1>1, <1>3, CallWrites DEF Call
<1>7. r = [here EXCEPT !.pc = "top", !.left = rest(name)]
  BY DEF rest
<1>8. l \subseteq here.left /\ l \subseteq Listing[here.path]
  BY <1>1
<1>9. \A n : n \notin l => n = name \/ n \notin here.left
  OBVIOUS
<1> HIDE DEF l, r
<1>10. Fits(r, errno', version)
  BY <1>1, <1>6, <1>8 DEF Fits
<1>11. StreamsOf(r) = 1 /\ StreamsOf(here) = 1 /\ streams' = streams - StreamsOf(here) + StreamsOf(r)
  BY <1>1, <1>2, <1>6 DEF StreamsOf
<1>12. /\ heap' \in Int /\ hidden' \in Int
       /\ heap' - hidden' = heap - hidden - BlocksOf(version, here) + BlocksOf(version, r)
  <2>1. BlocksOf(version, here) \in Int /\ BlocksOf(version, r) \in Int
    BY <1>1, <1>5, <1>6 DEF BlocksOf
  <2>2. PICK m \in Int, n \in Int : m = BlocksOf(version, here) /\ n = BlocksOf(version, r)
    BY <2>1
  <2>3. CASE version # "_scandir"
    <3>1. heap' = heap /\ hidden' = hidden
      BY <1>2, <2>3 DEF freed
    <3>2. n = m
      BY <1>1, <1>5, <1>6, <2>2, <2>3 DEF BlocksOf
    <3> QED BY <1>2, <2>2, <3>1, <3>2
  <2>4. CASE version = "_scandir"
    <3>1. n = m - 1
      BY <1>1, <1>5, <1>6, <2>2, <2>4 DEF BlocksOf
    <3>2. CASE heap' = heap /\ hidden' = hidden + 1
      BY <1>2, <2>2, <3>1, <3>2
    <3>3. CASE heap' = heap - 1 /\ hidden' = hidden
      BY <1>2, <2>2, <3>1, <3>3
    <3> QED BY <1>2, <2>4, <3>2, <3>3 DEF freed
  <2> QED BY <2>3, <2>4
<1>13. CASE name \in Dots
  <2>1. becomes(r) /\ printed' = printed
    BY <1>4, <1>7, <1>13 DEF read_entry
  <2>2. \A d \in DOMAIN Listing : Covers(here, d, printed) => Covers(r, d, printed)
    BY <1>1, <1>6, <1>9, <1>13 DEF Covers
  <2> QED BY <1>1, <1>2, <1>6, <1>10, <1>11, <1>12, <2>1, <2>2, Moves
<1>14. CASE name \notin Dots
  <2> DEFINE q == Append(here.path, name)
             c == [call(q) EXCEPT !.pc = "lstat"]
  <2>1. printed' = printed \cup {q} /\ calls' = Front(calls) \o <<r, c>>
    BY <1>4, <1>7, <1>14 DEF read_entry
  <2>2. q \in Seq(Names)
    BY <1>3, AppendProperties
  <2>3. q \in AllPaths
    BY <1>1, <1>14 DEF AllPaths
  <2>4. q = Append(here.path, name)
    OBVIOUS
  <2> HIDE DEF q
  <2>5. c \in Call /\ c.path = q /\ c.pc = "lstat"
    BY <2>2 DEF call, Call, Errnos
  <2> HIDE DEF c
  <2>6. Fits(c, errno', version)
    BY <2>5 DEF Fits
  <2>7. \A d \in DOMAIN Listing : Covers(here, d, printed) => Covers(r, d, printed')
    BY <1>1, <1>6, <1>9, <2>1, <2>4 DEF Covers
  <2> QED BY <1>1, <1>2, <1>6, <1>10, <1>11, <1>12, <2>1, <2>3, <2>5, <2>6, <2>7, CallsItself
<1> QED BY <1>13, <1>14

LEMMA mainStarts == ASSUME list_main PROVE ListInv'
<1> DEFINE c == call(Root)
<1>1. /\ version' \in Versions /\ calls' = <<c>> /\ errno' = "0" /\ streams' = 0 /\ heap' = 0
      /\ printed' = {} /\ hidden' = 0 /\ failures' = <<>> /\ ~alarm'
  BY DEF list_main
<1>2. c \in Call /\ c.path = Root /\ c.pc = "opendir"
  <2>1. Root \in Seq(Names)
    BY ListingAssumption DEF ListingAssumption
  <2> QED BY <2>1 DEF call, Call, Errnos
<1> HIDE DEF c
<1>3. calls' \in Seq(Call) /\ Len(calls') = 1 /\ calls'[1] = c
  BY <1>1, <1>2
<1>4. ListType'
  BY <1>1, <1>3 DEF ListType, Errnos
<1>5. Fits(c, errno', version')
  BY <1>2, ListingAssumption DEF Fits, ListingAssumption
<1>6. StackFacts'
  BY <1>3, <1>5 DEF StackFacts
<1>7. Account'
  <2> DEFINE s == StreamsHeld'
             w == BlocksHeld'
  <2>1. s[1] = StreamsOf(c) /\ w[1] = BlocksOf(version', c)
    BY <1>3 DEF StreamsHeld, BlocksHeld
  <2>2. s[1] = 0 /\ w[1] = 0
    BY <2>1, <1>2 DEF StreamsOf, BlocksOf
  <2> HIDE DEF s, w
  <2>3. Sums(s, 0, 0) /\ Sums(w, 0, 0)
    BY SumsNone
  <2> DEFINE z == 0
  <2>4. z \in Nat /\ z \in Int /\ z + 1 = 1 /\ (\A i \in 1 .. z : s[i] = s[i]) /\ z + 0 = 0
    OBVIOUS
  <2>5. Sums(s, z + 1, z + s[z + 1])
    BY <2>2, <2>3, <2>4, SumsPush
  <2>6. Sums(w, z + 1, z + w[z + 1])
    BY <2>2, <2>3, <2>4, SumsPush
  <2>7. Sums(s, 1, 0) /\ Sums(w, 1, 0)
    BY <2>2, <2>4, <2>5, <2>6
  <2> QED BY <1>1, <1>3, <2>7 DEF Account, s, w
<1>8. Progress'
  <2>1. Covers(c, Root, printed')
    BY <1>2 DEF Covers
  <2>2. Underway(Root)'
    BY <2>1, <1>3 DEF Underway
  <2> QED BY <2>2, <1>1 DEF Progress
<1> QED BY <1>1, <1>4, <1>6, <1>7, <1>8 DEF ListInv

LEMMA ListStarts == ListInit => ListInv
<1> SUFFICES ASSUME ListInit PROVE ListInv
  OBVIOUS
<1>1. calls \in Seq(Call) /\ Len(calls) = 0 /\ failures \in Seq(Failures)
  BY DEF ListInit
<1>2. ListType
  BY <1>1 DEF ListInit, ListType, Errnos
<1>3. Account
  BY <1>1, SumsNone DEF ListInit, Account
<1>4. StackFacts /\ Progress /\ ~alarm /\ printed \subseteq AllPaths
  BY <1>1 DEF ListInit, StackFacts, Progress
<1> QED BY <1>2, <1>3, <1>4 DEF ListInv

LEMMA ListKeeps == ListInv /\ [ListNext]_listVars => ListInv'
<1> SUFFICES ASSUME ListInv, [ListNext]_listVars PROVE ListInv'
  OBVIOUS
<1>1. CASE list_main
  BY <1>1, mainStarts
<1>2. CASE ListStep
  BY <1>2, opendirKeeps, mallocKeeps, scandirKeeps, loopKeeps, lstatKeeps, readdirKeeps,
     read_endKeeps, freeKeeps, read_entryKeeps DEF ListStep
<1>3. CASE UNCHANGED listVars
  BY <1>3 DEF listVars, ListInv, ListType, StackFacts, Account, StreamsHeld, BlocksHeld,
     Progress, Done, Underway, AllPaths
<1> QED BY <1>1, <1>2, <1>3 DEF ListNext

LEMMA Listed == ListSpec => []ListInv
<1> QED BY ListStarts, ListKeeps, PTL DEF ListSpec

-----------------------------------------------------------------------------
(* Theorems.                                                               *)

\* However a run went, whatever failed in it, every stream is closed and every
\* block is freed when it ends, but for the entries that _scandir forgets
\* (dirlist.c:90-91): the property NothingHeld of the runs, for any tree.
THEOREM ListHoldsNothing == ListSpec => []NothingHeld
<1>1. ListInv => NothingHeld
  <2> SUFFICES ASSUME ListInv, calls = <<>> PROVE streams = 0 /\ heap = hidden
    BY DEF NothingHeld
  <2>1. Sums(StreamsHeld, 0, streams) /\ Sums(BlocksHeld, 0, heap - hidden)
        /\ streams \in Int /\ heap \in Int /\ hidden \in Int
    BY DEF ListInv, Account, ListType
  <2>2. heap - hidden \in Int
    BY <2>1
  <2>3. streams = 0 /\ heap - hidden = 0
    BY <2>1, <2>2, SumsNone
  <2> QED BY <2>1, <2>3
<1> QED BY <1>1, Listed, PTL

\* The least element of a set of naturals.
NatLess == {pair \in Nat \X Nat : pair[1] < pair[2]}

LEMMA LeastNat ==
  ASSUME NEW S \in SUBSET Nat, S # {}
  PROVE  \E m \in S : \A k \in S : m <= k
<1>1. NatLess = OpToRel(<, Nat)
  BY DEF NatLess, OpToRel
<1>2. \E m \in S : \A k \in S : <<k, m>> \notin NatLess
  BY <1>1, NatLessThanWellFounded, WFMin
<1>3. ASSUME NEW m \in S, NEW k \in S, <<k, m>> \notin NatLess PROVE m <= k
  BY <1>3 DEF NatLess
<1> QED BY <1>2, <1>3

\* A directory other than the one given to main comes after another one, of
\* which it is an entry.
LEMMA Parent ==
  ASSUME NEW d \in DOMAIN Listing, d # Root
  PROVE  /\ Front(d) \in DOMAIN Listing /\ Last(d) \in Listing[Front(d)] \ Dots
         /\ Append(Front(d), Last(d)) = d /\ Len(Front(d)) = Len(d) - 1 /\ Len(d) \in Nat
<1>1. d \in Seq(Names) /\ Front(d) \in DOMAIN Listing /\ Last(d) \in Listing[Front(d)] \ Dots
      /\ Front(d) \in Seq(Names)
  BY ListingAssumption DEF ListingAssumption
<1>2. Len(d) \in Nat \ {0}
  BY <1>1, EmptySeq, LenProperties DEF Root
<1>3. \A i \in 1 .. Len(d) : d[i] \in Names
  BY <1>1, ElementOfSeq
<1> DEFINE f == Front(d)
           x == Last(d)
<1>4. f = SubSeq(d, 1, Len(d) - 1) /\ x = d[Len(d)] /\ x \in Names
  BY <1>2, <1>3 DEF Front, Last
<1>5. Len(f) = Len(d) - 1 /\ \A i \in 1 .. Len(d) - 1 : f[i] = d[i]
  <2> DEFINE m == Len(d) - 1
  <2>1. m \in Nat /\ 1 \in Int /\ \A i \in 1 .. m : d[i] \in Names
    BY <1>2, <1>3
  <2> HIDE DEF m
  <2>2. /\ Len(SubSeq(d, 1, m)) = IF 1 <= m THEN m - 1 + 1 ELSE 0
        /\ \A i \in 1 .. m - 1 + 1 : SubSeq(d, 1, m)[i] = d[1 + i - 1]
    BY <1>1, <2>1, SubSeqProperties
  <2>3. Len(SubSeq(d, 1, m)) = m /\ \A i \in 1 .. m : SubSeq(d, 1, m)[i] = d[i]
    BY <2>1, <2>2
  <2> QED BY <1>4, <2>3 DEF m
<1>6. f \in Seq(Names)
  BY <1>1
<1> HIDE DEF f, x
<1>7. /\ Append(f, x) \in Seq(Names) /\ Len(Append(f, x)) = Len(d)
      /\ \A i \in 1 .. Len(d) : Append(f, x)[i] = d[i]
  <2>1. /\ Append(f, x) \in Seq(Names) /\ Len(Append(f, x)) = Len(f) + 1
        /\ \A i \in 1 .. Len(f) : Append(f, x)[i] = f[i]
        /\ Append(f, x)[Len(f) + 1] = x
    BY <1>4, <1>6, AppendProperties
  <2>2. Len(f) + 1 = Len(d)
    BY <1>2, <1>5
  <2>3. \A i \in 1 .. Len(d) : i \in 1 .. Len(d) - 1 \/ i = Len(d)
    BY <1>2
  <2> QED BY <2>1, <2>2, <2>3, <1>4, <1>5
<1>8. Append(f, x) = d
  BY <1>1, <1>7, SeqEqual
<1> QED BY <1>1, <1>2, <1>5, <1>8 DEF f, x

\* A run in which no library call failed prints all that is in the tree but `.'
\* and `..', and nothing else, however deep it is and in whatever order its
\* directories give their entries; and no version takes the end of a directory
\* for an error, whatever the calls below have left in errno (dirlist.c:30-37,
\* 88-103, 150-163, 201-225): the property CompleteListing of the runs.
THEOREM ListIsComplete == ListSpec => []CompleteListing
<1>1. ListInv => CompleteListing
  <2> SUFFICES ASSUME ListInv PROVE CompleteListing
    OBVIOUS
  <2>1. ~alarm /\ printed \subseteq AllPaths /\ Progress
    BY DEF ListInv
  <2> SUFFICES ASSUME version # "none", calls = <<>>, failures = <<>>
               PROVE  AllPaths \subseteq printed
    BY <2>1 DEF CompleteListing
  <2>2. \A d \in DOMAIN Listing : ~Underway(d)
    BY DEF Underway
  <2>3. \A d \in DOMAIN Listing : d = Root \/ d \in printed => Done(d)
    BY <2>1, <2>2 DEF Progress
  <2>4. \A d \in DOMAIN Listing : Done(d)
    <3> SUFFICES ASSUME NEW e \in DOMAIN Listing, ~Done(e) PROVE FALSE
      OBVIOUS
    <3> DEFINE L == {Len(d) : d \in {x \in DOMAIN Listing : ~Done(x)}}
    <3>1. L \in SUBSET Nat /\ Len(e) \in L
      BY ListingAssumption, LenProperties DEF ListingAssumption
    <3>2. PICK m \in L : \A k \in L : m <= k
      BY <3>1, LeastNat
    <3>3. PICK d \in DOMAIN Listing : ~Done(d) /\ Len(d) = m
      BY <3>2
    <3>4. d # Root
      BY <2>3, <3>3
    <3>5. /\ Front(d) \in DOMAIN Listing /\ Last(d) \in Listing[Front(d)] \ Dots
          /\ Append(Front(d), Last(d)) = d /\ Len(Front(d)) = Len(d) - 1 /\ Len(d) \in Nat
      BY <3>4, Parent
    <3>6. Done(Front(d))
      <4>1. Len(Front(d)) \notin L
        BY <3>2, <3>3, <3>5
      <4> QED BY <4>1, <3>5
    <3>7. d \in printed
      BY <3>5, <3>6 DEF Done
    <3> QED BY <2>3, <3>3, <3>7
  <2> SUFFICES ASSUME NEW q \in AllPaths PROVE q \in printed
    OBVIOUS
  <2>5. PICK d \in DOMAIN Listing : q \in {Append(d, n) : n \in Listing[d] \ Dots}
    BY DEF AllPaths
  <2>6. PICK n \in Listing[d] \ Dots : q = Append(d, n)
    BY <2>5
  <2> QED BY <2>4, <2>6 DEF Done
<1> QED BY <1>1, Listed, PTL

-----------------------------------------------------------------------------
(* Toolchain.  The two lists.                                              *)

LEMMA PackageList ==
  /\ Len(PACKAGES) = 13 /\ \A j \in 1 .. 13 : PACKAGES[j] \in Packages
  /\ \A q \in Packages : \E j \in 1 .. 13 : PACKAGES[j] = q
  /\ "kernel" \in Packages /\ "gmp" \in Packages
<1>1. Len(PACKAGES) = 13 /\ DOMAIN PACKAGES = 1 .. 13
  BY DEF PACKAGES
<1>2. Packages = {PACKAGES[j] : j \in 1 .. 13}
  BY <1>1 DEF Packages, ToSet
<1>3. PACKAGES[2] = "kernel" /\ PACKAGES[6] = "gmp"
  BY DEF PACKAGES
<1> QED
  BY <1>1, <1>2, <1>3

LEMMA BuildList ==
  /\ Len(BUILDS) = 14 /\ \A j \in 1 .. 14 : BUILDS[j] \in Builds
  /\ \A c \in Builds : \E j \in 1 .. 14 : BUILDS[j] = c
<1>1. Len(BUILDS) = 14 /\ DOMAIN BUILDS = 1 .. 14
  BY DEF BUILDS
<1>2. Builds = {BUILDS[j] : j \in 1 .. 14}
  BY <1>1 DEF Builds, ToSet
<1> QED
  BY <1>1, <1>2

\* Every package but the kernel is unpacked by some build.
LEMMA EveryPackageBuilt ==
  \A q \in Packages \ {"kernel"} : \E j \in 1 .. 14 : BUILDS[j] # "headers" /\ Archive(BUILDS[j]) = q
<1>1. Packages = {PACKAGES[j] : j \in 1 .. 13}
  BY DEF Packages, ToSet, PACKAGES
<1>2. Packages \ {"kernel"} = {"bc", "file", "ncurses", "m4", "gmp", "mpfr", "mpc", "cloog", "isl",
                              "binutils", "gcc", "uclibc"}
  BY <1>1 DEF PACKAGES
<1>3. /\ BUILDS[1] = "file" /\ BUILDS[2] = "bc" /\ BUILDS[4] = "m4" /\ BUILDS[5] = "ncurses"
      /\ BUILDS[6] = "gmp" /\ BUILDS[7] = "mpfr" /\ BUILDS[8] = "mpc" /\ BUILDS[9] = "isl"
      /\ BUILDS[10] = "cloog" /\ BUILDS[11] = "binutils" /\ BUILDS[12] = "gcc_static"
      /\ BUILDS[13] = "uclibc"
  BY DEF BUILDS
<1> QED
  BY <1>2, <1>3 DEF Archive

-----------------------------------------------------------------------------
(* The inductive invariant.                                                *)

\* Where the scripts are, and the archives.
PlaceInv ==
  /\ script \in {"none", "prepare", "build"}
  /\ script = "prepare" => at \in 1 .. 13
  /\ script = "build" => at \in 1 .. 14
  /\ script = "none" => at = 1
  /\ second \in BOOLEAN /\ (second => script = "prepare")
  /\ tarball \in [Packages -> States] /\ download \in States /\ tree \in States

\* gmp is renamed when it has just been downloaded.
RenameInv == (second /\ p = "gmp" => download = "whole") /\ RenamedIsWhole

\* What prepare.sh has passed is there.
PrepareInv ==
  /\ script = "prepare" => \A j \in 1 .. at - 1 :
       tarball[PACKAGES[j]] # "none" /\ (PACKAGES[j] = "kernel" => tree # "none")
  /\ second /\ p = "kernel" => tarball["kernel"] # "none"
  /\ PreparedHasAll

\* What build-toolchain.sh has passed is installed, from whole archives.
BuildInv ==
  /\ script = "build" => \A j \in 1 .. at - 1 :
       /\ BUILDS[j] \in installed
       /\ BUILDS[j] # "headers" => tarball[Archive(BUILDS[j])] = "whole"
       /\ BUILDS[j] = "uclibc" => copied = Extras
  /\ installed \subseteq Builds
  /\ BuiltFromWhole

ScriptsInv == PlaceInv /\ RenameInv /\ PrepareInv /\ BuildInv

LEMMA ScriptsInit == Init => ScriptsInv
  BY PackageList DEF Init, ScriptsInv, PlaceInv, RenameInv, PrepareInv, BuildInv, States,
     RenamedIsWhole, PreparedHasAll, BuiltFromWhole

LEMMA CurrentPackage == PlaceInv /\ script = "prepare" => p \in Packages
  BY PackageList DEF PlaceInv, p

\* What a step of prepare.sh may do to the archives and to the tree: something
\* is made of nothing.
Grows == /\ tarball' \in [Packages -> States] /\ tree' \in States /\ download' \in States
         /\ \A q \in Packages : tarball[q] # "none" => tarball'[q] = tarball[q]
         /\ tarball'["gmp"] # "part"
         /\ tree # "none" => tree' = tree

LEMMA FetchGrows ==
  ASSUME ScriptsInv, script = "prepare", tarball[p] = "none",
         NEW state \in {"none", "part", "whole"}, fetches(state), tree' = tree
  PROVE  Grows
<1>1. p \in Packages
  BY CurrentPackage DEF ScriptsInv
<1>2. CASE p = "gmp"
  BY <1>2 DEF fetches, Grows, ScriptsInv, PlaceInv, RenameInv, RenamedIsWhole, States
<1>3. CASE p # "gmp"
  BY <1>1, <1>3, PackageList DEF fetches, Grows, ScriptsInv, PlaceInv, RenameInv, RenamedIsWhole, States
<1> QED
  BY <1>2, <1>3

\* The script goes on to the next package with what it leaves behind it there,
\* or comes to its end with everything there.
LEMMA NextPackage ==
  ASSUME ScriptsInv, script = "prepare", Grows, next_package,
         tarball'[p] # "none", p = "kernel" => tree' # "none",
         UNCHANGED <<copied, installed, built>>
  PROVE  ScriptsInv'
<1> USE DEF ScriptsInv
<1>1. at \in 1 .. 13 /\ Len(PACKAGES) = 13 /\ p = PACKAGES[at]
  BY PackageList DEF PlaceInv, p
<1>2. \A j \in 1 .. at : tarball'[PACKAGES[j]] # "none" /\ (PACKAGES[j] = "kernel" => tree' # "none")
  <2> SUFFICES ASSUME NEW j \in 1 .. at
               PROVE  tarball'[PACKAGES[j]] # "none" /\ (PACKAGES[j] = "kernel" => tree' # "none")
    OBVIOUS
  <2>1. CASE j = at
    BY <1>1, <2>1
  <2>2. CASE j # at
    <3>1. j \in 1 .. at - 1 /\ PACKAGES[j] \in Packages
      BY <1>1, <2>2, PackageList
    <3>2. tarball[PACKAGES[j]] # "none" /\ (PACKAGES[j] = "kernel" => tree # "none")
      BY <3>1 DEF PrepareInv
    <3> QED
      BY <3>1, <3>2 DEF Grows
  <2> QED
    BY <2>1, <2>2
<1>3. second' = FALSE
  BY DEF next_package
<1>4. CASE at < 13
  <2>1. at' = at + 1 /\ script' = "prepare" /\ prepared' = prepared
    BY <1>1, <1>4 DEF next_package
  <2>2. PlaceInv'
    <3>1. at' \in 1 .. 13
      BY <1>1, <1>4, <2>1
    <3> QED
      BY <1>3, <2>1, <3>1 DEF PlaceInv, Grows
  <2>3. PrepareInv'
    BY <1>1, <1>2, <1>3, <2>1 DEF PrepareInv, PreparedHasAll, Grows
  <2>4. BuildInv'
    BY <2>1 DEF BuildInv, BuiltFromWhole, Grows
  <2> QED
    BY <1>3, <2>2, <2>3, <2>4 DEF RenameInv, RenamedIsWhole, Grows
<1>5. CASE at = 13
  <2>1. at' = 1 /\ script' = "none" /\ prepared' = TRUE
    BY <1>1, <1>5 DEF next_package
  <2>2. PlaceInv'
    BY <1>3, <2>1 DEF PlaceInv, Grows
  <2>3. PrepareInv'
    <3>1. \A q \in Packages : tarball'[q] # "none"
      BY <1>2, <1>5, PackageList
    <3>2. tree' # "none"
      BY <1>2, <1>5, PackageList
    <3> QED
      BY <1>3, <2>1, <3>1, <3>2 DEF PrepareInv, PreparedHasAll
  <2>4. BuildInv'
    BY <2>1 DEF BuildInv, BuiltFromWhole, Grows
  <2> QED
    BY <1>3, <2>2, <2>3, <2>4 DEF RenameInv, RenamedIsWhole, Grows
<1> QED
  BY <1>1, <1>4, <1>5

\* The script stays at a package, for its second command.
LEMMA SecondCommand ==
  ASSUME ScriptsInv, script = "prepare", Grows,
         second' = TRUE, UNCHANGED <<script, at, prepared, copied, installed, built>>,
         p = "gmp" => download' = "whole",
         p = "kernel" => tarball'["kernel"] # "none"
  PROVE  ScriptsInv'
<1> USE DEF ScriptsInv
<1>1. p' = p
  BY DEF p
<1>2. PlaceInv'
  BY DEF PlaceInv, Grows
<1>3. PrepareInv'
  <2>1. \A j \in 1 .. at - 1 : tarball'[PACKAGES[j]] # "none" /\ (PACKAGES[j] = "kernel" => tree' # "none")
    <3> SUFFICES ASSUME NEW j \in 1 .. at - 1
                 PROVE  tarball'[PACKAGES[j]] # "none" /\ (PACKAGES[j] = "kernel" => tree' # "none")
      OBVIOUS
    <3>1. at \in 1 .. 13
      BY DEF PlaceInv
    <3>2. PACKAGES[j] \in Packages
      BY <3>1, PackageList
    <3>3. tarball[PACKAGES[j]] # "none" /\ (PACKAGES[j] = "kernel" => tree # "none")
      BY DEF PrepareInv
    <3> QED
      BY <3>2, <3>3 DEF Grows
  <2> QED
    BY <1>1, <2>1, PackageList DEF PrepareInv, PreparedHasAll, Grows
<1>4. BuildInv'
  BY DEF BuildInv, BuiltFromWhole, Grows
<1> QED
  BY <1>1, <1>2, <1>3, <1>4 DEF RenameInv, RenamedIsWhole, Grows

\* The script ends early, wherever it was.
LEMMA EndsEarly ==
  ASSUME ScriptsInv, script' = "none", at' = 1, second' = FALSE, Grows,
         UNCHANGED <<prepared, copied, installed, built>>
  PROVE  ScriptsInv'
<1> USE DEF ScriptsInv
<1>1. PlaceInv'
  BY DEF PlaceInv, Grows
<1>2. PrepareInv'
  BY PackageList DEF PrepareInv, PreparedHasAll, Grows
<1>3. BuildInv'
  BY DEF BuildInv, BuiltFromWhole, Grows
<1> QED
  BY <1>1, <1>2, <1>3 DEF RenameInv, RenamedIsWhole, Grows

LEMMA NothingGrows == ScriptsInv /\ UNCHANGED <<tarball, download, tree>> => Grows
  BY DEF ScriptsInv, PlaceInv, RenameInv, RenamedIsWhole, Grows

-----------------------------------------------------------------------------
(* The steps of prepare.sh.                                                *)

LEMMA StepOfPrepare ==
  ASSUME ScriptsInv, Prepare
  PROVE  ScriptsInv'
<1> USE DEF ScriptsInv
<1>1. script = "prepare" /\ UNCHANGED <<copied, installed, built>>
  BY DEF Prepare, present, fetch, rename, unpack, unpack_fails, exit
<1>2. p \in Packages
  BY <1>1, CurrentPackage
<1>3. CASE present
  <2>1. Grows /\ tarball'[p] # "none"
    BY <1>3, NothingGrows DEF present
  <2>2. CASE p = "kernel"
    BY <1>1, <1>3, <2>1, <2>2, SecondCommand DEF present, after_fetch
  <2>3. CASE p # "kernel"
    BY <1>1, <1>3, <2>1, <2>3, NextPackage DEF present, after_fetch
  <2> QED
    BY <2>2, <2>3
<1>4. CASE fetch
  <2>1. Grows
    BY <1>4, FetchGrows DEF fetch
  <2>2. p = "gmp" => download' = "whole"
    BY <1>4 DEF fetch, fetches
  <2>3. p # "gmp" => tarball'[p] # "none"
    BY <1>2, <1>4 DEF fetch, fetches, PlaceInv
  <2>4. CASE p \in {"kernel", "gmp"}
    BY <1>1, <1>4, <2>1, <2>2, <2>3, <2>4, SecondCommand DEF fetch, after_fetch
  <2>5. CASE p \notin {"kernel", "gmp"}
    BY <1>1, <1>4, <2>1, <2>3, <2>5, NextPackage DEF fetch, after_fetch
  <2> QED
    BY <2>4, <2>5
<1>5. CASE rename
  <2>1. download = "whole" /\ tarball["gmp"] # "part"
    BY <1>5 DEF rename, RenameInv, RenamedIsWhole
  <2>2. tarball["gmp"] \in {"none", "whole"}
    BY <2>1, PackageList DEF PlaceInv, States
  <2>3. tarball' = [tarball EXCEPT !["gmp"] = "whole"] /\ download' = "none" /\ tree' = tree
    BY <1>5, <2>1 DEF rename
  <2>4. Grows
    BY <2>2, <2>3, PackageList DEF Grows, PlaceInv, States
  <2>5. tarball'[p] # "none" /\ p # "kernel"
    BY <1>5, <2>3, PackageList DEF rename, PlaceInv
  <2> QED
    BY <1>1, <1>5, <2>4, <2>5, NextPackage DEF rename
<1>6. CASE unpack
  <2>1. tree' # "none" /\ UNCHANGED <<tarball, download>> /\ (tree # "none" => tree' = tree)
    BY <1>6 DEF unpack, must_unpack
  <2>2. Grows
    BY <1>6, <2>1 DEF Grows, PlaceInv, RenameInv, RenamedIsWhole, States, unpack
  <2>3. tarball'[p] # "none"
    BY <1>6, <2>1 DEF unpack, PrepareInv
  <2> QED
    BY <1>1, <1>6, <2>1, <2>2, <2>3, NextPackage DEF unpack
<1>7. CASE unpack_fails
  <2>1. Grows
    BY <1>7 DEF Grows, PlaceInv, RenameInv, RenamedIsWhole, States, unpack_fails, must_unpack
  <2> QED
    BY <1>1, <1>7, <2>1, EndsEarly DEF unpack_fails, exit
<1> QED
  BY <1>3, <1>4, <1>5, <1>6, <1>7 DEF Prepare

LEMMA FaultOfPrepare ==
  ASSUME ScriptsInv, fetch_fails \/ prepare_interrupted
  PROVE  ScriptsInv'
<1> USE DEF ScriptsInv
<1>1. CASE fetch_fails
  <2>1. PICK state \in {"none", "part"} :
          fetches(IF p = "gmp" /\ download # "none" THEN download ELSE state)
    BY <1>1 DEF fetch_fails
  <2>2. (IF p = "gmp" /\ download # "none" THEN download ELSE state) \in {"none", "part", "whole"}
    BY DEF PlaceInv, States
  <2>3. Grows
    BY <1>1, <2>1, <2>2, FetchGrows DEF fetch_fails
  <2> QED
    BY <1>1, <2>3, EndsEarly DEF fetch_fails, exit
<1>2. CASE prepare_interrupted
  <2>1. tree' \in States /\ (tree # "none" => tree' = tree)
    BY <1>2 DEF prepare_interrupted, must_unpack, PlaceInv, States
  <2>2. Grows
    BY <1>2, <2>1 DEF prepare_interrupted, Grows, PlaceInv, RenameInv, RenamedIsWhole
  <2> QED
    BY <1>2, <2>2, EndsEarly DEF prepare_interrupted
<1> QED
  BY <1>1, <1>2

-----------------------------------------------------------------------------
(* The user, and build-toolchain.sh.                                       *)

LEMMA StepOfUser ==
  ASSUME ScriptsInv, \/ start_prepare \/ start_build
                     \/ \E q \in Packages : clean(q)
                     \/ \E f \in Extras : copy(f)
  PROVE  ScriptsInv'
<1> USE DEF ScriptsInv
<1>1. start_prepare \/ start_build \/ (\E q \in Packages : clean(q)) => script = "none"
  BY DEF start_prepare, start_build, clean
<1>2. CASE start_prepare
  <2>1. PlaceInv' /\ RenameInv' /\ PrepareInv'
    BY <1>1, <1>2 DEF start_prepare, PlaceInv, RenameInv, RenamedIsWhole, PrepareInv, PreparedHasAll
  <2> QED
    BY <1>1, <1>2, <2>1 DEF start_prepare, BuildInv, BuiltFromWhole
<1>3. CASE start_build
  <2>1. PlaceInv' /\ RenameInv' /\ PrepareInv'
    BY <1>1, <1>3 DEF start_build, PlaceInv, RenameInv, RenamedIsWhole, PrepareInv, PreparedHasAll
  <2>2. at' = 1
    BY <1>1, <1>3 DEF start_build, PlaceInv
  <2> QED
    BY <1>3, <2>1, <2>2 DEF start_build, BuildInv, BuiltFromWhole
<1>4. ASSUME NEW q \in Packages, clean(q)
      PROVE  ScriptsInv'
  <2>1. /\ tarball' = [tarball EXCEPT ![q] = IF tarball[q] = "part" THEN "none" ELSE tarball[q]]
        /\ tree' = IF q = "kernel" THEN "none" ELSE tree
        /\ prepared' = FALSE
        /\ script = "none"
        /\ UNCHANGED <<script, at, second, download, copied, installed, built>>
    BY <1>4 DEF clean
  <2>2. \A r \in Packages : tarball'[r] = "whole" <=> tarball[r] = "whole"
    BY <2>1 DEF PlaceInv
  <2>3. PlaceInv'
    BY <2>1 DEF PlaceInv, States
  <2>4. RenameInv'
    BY <1>1, <2>1, PackageList DEF RenameInv, RenamedIsWhole, PlaceInv
  <2>5. PrepareInv'
    BY <1>1, <2>1 DEF PrepareInv, PreparedHasAll, PlaceInv
  <2>6. BuildInv'
    BY <1>1, <2>1, <2>2 DEF BuildInv, BuiltFromWhole
  <2> QED
    BY <2>3, <2>4, <2>5, <2>6
<1>5. ASSUME NEW f \in Extras, copy(f)
      PROVE  ScriptsInv'
  <2>1. /\ copied' = copied \cup {f}
        /\ UNCHANGED <<script, at, second, tarball, download, tree, installed, prepared, built>>
    BY <1>5 DEF copy
  <2>2. PlaceInv' /\ RenameInv' /\ PrepareInv'
    BY <2>1 DEF PlaceInv, RenameInv, RenamedIsWhole, PrepareInv, PreparedHasAll, p
  <2>3. copied = Extras => copied' = Extras
    BY <2>1
  <2>4. BuildInv'
    BY <2>1, <2>3 DEF BuildInv, BuiltFromWhole
  <2> QED
    BY <2>2, <2>4
<1> QED
  BY <1>2, <1>3, <1>4, <1>5

\* A build is made of a whole archive, and the last one leaves all of them made.
LEMMA StepOfBuild ==
  ASSUME ScriptsInv, build
  PROVE  ScriptsInv'
<1> USE DEF ScriptsInv
<1>1. /\ script = "build" /\ at \in 1 .. 14 /\ Len(BUILDS) = 14
      /\ b = BUILDS[at] /\ b \in Builds
      /\ second = FALSE
  BY BuildList DEF build, PlaceInv, b
<1>2. installed' = installed \cup {b} /\ UNCHANGED <<second, tarball, download, tree, copied, prepared>>
  BY DEF build
<1>3. (b # "headers" => tarball[Archive(b)] = "whole") /\ (b = "uclibc" => copied = Extras)
  BY DEF build, unpacks, finds_all
<1>4. \A j \in 1 .. at : /\ BUILDS[j] \in installed'
                         /\ BUILDS[j] # "headers" => tarball[Archive(BUILDS[j])] = "whole"
                         /\ BUILDS[j] = "uclibc" => copied = Extras
  <2> SUFFICES ASSUME NEW j \in 1 .. at
               PROVE  /\ BUILDS[j] \in installed'
                      /\ BUILDS[j] # "headers" => tarball[Archive(BUILDS[j])] = "whole"
                      /\ BUILDS[j] = "uclibc" => copied = Extras
    OBVIOUS
  <2>1. CASE j = at
    BY <1>1, <1>2, <1>3, <2>1
  <2>2. CASE j # at
    <3>1. j \in 1 .. at - 1
      BY <1>1, <2>2
    <3> QED
      BY <1>1, <1>2, <3>1 DEF BuildInv
  <2> QED
    BY <2>1, <2>2
<1>5. RenameInv'
  BY <1>1, <1>2 DEF RenameInv, RenamedIsWhole
<1>6. CASE at < 14
  <2>1. at' = at + 1 /\ script' = "build" /\ built' = built
    BY <1>1, <1>6 DEF build
  <2>2. PlaceInv'
    <3>1. at' \in 1 .. 14
      BY <1>1, <1>6, <2>1
    <3> QED
      BY <1>1, <1>2, <2>1, <3>1 DEF PlaceInv
  <2>3. PrepareInv'
    BY <1>1, <1>2, <2>1 DEF PrepareInv, PreparedHasAll
  <2>4. BuildInv'
    <3>1. at' - 1 = at
      BY <1>1, <2>1
    <3> QED
      BY <1>1, <1>2, <1>4, <2>1, <3>1 DEF BuildInv, BuiltFromWhole
  <2> QED
    BY <1>5, <2>2, <2>3, <2>4
<1>7. CASE at = 14
  <2>1. at' = 1 /\ script' = "none" /\ built' = TRUE
    BY <1>1, <1>7 DEF build
  <2>2. PlaceInv'
    BY <1>1, <1>2, <2>1 DEF PlaceInv
  <2>3. PrepareInv'
    BY <1>1, <1>2, <2>1 DEF PrepareInv, PreparedHasAll
  <2>4. installed' = Builds
    BY <1>1, <1>2, <1>4, <1>7, BuildList DEF BuildInv
  <2>5. \A q \in Packages \ {"kernel"} : tarball'[q] = "whole"
    BY <1>2, <1>4, <1>7, EveryPackageBuilt
  <2>6. copied' = Extras
    <3>1. BUILDS[13] = "uclibc"
      BY DEF BUILDS
    <3> QED
      BY <1>2, <1>4, <1>7, <3>1
  <2> QED
    BY <1>5, <2>1, <2>2, <2>3, <2>4, <2>5, <2>6 DEF BuildInv, BuiltFromWhole
<1> QED
  BY <1>1, <1>6, <1>7

LEMMA FaultOfBuild ==
  ASSUME ScriptsInv, build_fails \/ build_interrupted
  PROVE  ScriptsInv'
<1>1. /\ script' = "none" /\ at' = 1 /\ second' = FALSE
      /\ UNCHANGED <<tarball, download, tree, copied, installed, prepared, built>>
  BY DEF build_fails, build_interrupted, exit
<1> QED
  BY <1>1, NothingGrows, EndsEarly

LEMMA ScriptsStep == ScriptsInv /\ [Next]_vars => ScriptsInv'
<1> SUFFICES ASSUME ScriptsInv, [Next]_vars PROVE ScriptsInv'
  OBVIOUS
<1>1. CASE Next
  BY <1>1, StepOfPrepare, FaultOfPrepare, StepOfUser, StepOfBuild, FaultOfBuild DEF Next, Build
<1>2. CASE UNCHANGED vars
  BY <1>2 DEF vars, ScriptsInv, PlaceInv, RenameInv, PrepareInv, BuildInv, RenamedIsWhole,
     PreparedHasAll, BuiltFromWhole, p
<1> QED
  BY <1>1, <1>2

LEMMA ScriptsAlways == Spec => []ScriptsInv
  BY ScriptsInit, ScriptsStep, PTL DEF Spec

-----------------------------------------------------------------------------
(* The theorems, for any number of lost connections and interrupts.        *)

\* gmp is never there in part under the name it is looked for
\* (prepare.sh:74-77): the rename keeps a download that was not finished out.
THEOREM GmpIsWhole == Spec => []RenamedIsWhole
<1>1. ScriptsInv => RenamedIsWhole
  BY DEF ScriptsInv, RenameInv
<1> QED
  BY <1>1, ScriptsAlways, PTL

\* When prepare.sh has come to its end, nothing it looks for is missing
\* (prepare.sh:35-117).
THEOREM PreparationComplete == Spec => []PreparedHasAll
<1>1. ScriptsInv => PreparedHasAll
  BY DEF ScriptsInv, PrepareInv
<1> QED
  BY <1>1, ScriptsAlways, PTL

\* A build that came to its end has installed everything, from whole archives
\* and with the files that the user has copied (build-toolchain.sh:47-226).
THEOREM BuildComplete == Spec => []BuiltFromWhole
<1>1. ScriptsInv => BuiltFromWhole
  BY DEF ScriptsInv, BuildInv
<1> QED
  BY <1>1, ScriptsAlways, PTL

\* No script writes again what is there under its final name, in part or whole
\* (prepare.sh:35-117): what a failed run left is only ever removed by the user.
THEOREM NamesUntouched == Spec => FinalNamesUntouched
<1> DEFINE Kept == /\ \A q \in Packages : tarball[q] # "none" => tarball'[q] = tarball[q]
                   /\ tree # "none" => tree' = tree
<1>1. ASSUME ScriptsInv, [Next]_vars, script # "none"
      PROVE  Kept
  <2>1. CASE present \/ unpack \/ unpack_fails \/ prepare_interrupted
    BY <2>1 DEF present, unpack, unpack_fails, prepare_interrupted, must_unpack
  <2>2. CASE fetch
    BY <1>1, <2>2, FetchGrows DEF fetch, Grows
  <2>3. CASE fetch_fails
    <3>1. PICK state \in {"none", "part"} :
            fetches(IF p = "gmp" /\ download # "none" THEN download ELSE state)
      BY <2>3 DEF fetch_fails
    <3>2. (IF p = "gmp" /\ download # "none" THEN download ELSE state) \in {"none", "part", "whole"}
      BY <1>1 DEF ScriptsInv, PlaceInv, States
    <3> QED
      BY <1>1, <2>3, <3>1, <3>2, FetchGrows DEF fetch_fails, Grows
  <2>4. CASE rename
    <3>1. tarball["gmp"] \in {"none", "whole"} /\ download = "whole"
      BY <1>1, <2>4, PackageList DEF rename, ScriptsInv, RenameInv, RenamedIsWhole, PlaceInv, States
    <3> QED
      BY <1>1, <2>4, <3>1 DEF rename, ScriptsInv, PlaceInv
  <2>5. CASE build \/ build_fails \/ build_interrupted \/ (\E f \in Extras : copy(f)) \/ UNCHANGED vars
    BY <2>5 DEF build, build_fails, build_interrupted, copy, vars
  <2>6. ~start_prepare /\ ~start_build /\ \A q \in Packages : ~clean(q)
    BY <1>1 DEF start_prepare, start_build, clean
  <2> QED
    BY <1>1, <2>1, <2>2, <2>3, <2>4, <2>5, <2>6 DEF Next, Prepare, Build
<1>2. ScriptsInv /\ [Next]_vars => [(script # "none") => Kept]_vars
  BY <1>1
<1>3. Spec => [][(script # "none") => Kept]_vars
  BY <1>2, ScriptsAlways, PTL DEF Spec
<1> QED
  BY <1>3 DEF FinalNamesUntouched

=============================================================================
