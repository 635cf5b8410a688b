------------------------------ MODULE NandEcc ------------------------------
(***************************************************************************)
(* The error-correcting code of embedded/nand-flash/ECC: the kernel's      *)
(* nand_ecc.c of 2.6.27 and of 2.6.28 and later, and TestEcc.c, around one *)
(* flash page whose bits may flip.  A page is the set of its bits that are *)
(* 1 (bit j of byte a is 8 * a + j), a code the set of its 24 bits that    *)
(* are 1, so that an exclusive-or is a symmetric difference and every      *)
(* bit of a code is the parity of the data bits it covers.                 *)
(***************************************************************************)
EXTENDS Integers, FiniteSetsExt

CONSTANTS Machines,  \* how the code is built, and the versions of it that read the page
          Pages,     \* what may be programmed, by the size of a page
          Weak       \* bytes in which two bits may flip, likewise

Sizes     == {256, 512}
CodeBits  == 0 .. 23

ASSUME EccAssumption ==
  /\ \A m \in Machines :
       /\ m.eccsize \in Sizes
       /\ m.CONFIG_MTD_NAND_ECC_SMC \in BOOLEAN /\ m.BIG_ENDIAN \in BOOLEAN
       /\ m.versions \subseteq IF m.eccsize = 256 THEN {"2.6.27", "2.6.28"} ELSE {"2.6.28"}
  /\ \A size \in Sizes : /\ Pages[size] \subseteq SUBSET (0 .. 8 * size - 1)
                         /\ Weak[size] \subseteq 0 .. size - 1

VARIABLES machine,  \* does not change
          written,  \* what was programmed, or all ones
          data,     \* the page in the flash, with the bits that flipped
          code,     \* its code in the spare area, likewise
          flips,    \* data bits, and code bits as negative numbers
          buf,      \* the page in memory, after the last read
          result,   \* nand_correct_data: "clean" 0, "fixed" 1, "failed" -1
          located   \* the bit TestEcc.c printed, -1 if it printed none, or Untested

vars == <<machine, written, data, code, flips, buf, result, located>>

Untested == -2

eccsize  == machine.eccsize
Versions == machine.versions
Bits     == 0 .. 8 * eccsize - 1

-----------------------------------------------------------------------------
(* Calculation.  Rows are numbered as in the source: 0 .. 17 are rp0 ..    *)
(* rp17 and 18 .. 23 the column parities, in the order of code[2].         *)

Odd(S) == Cardinality(S) % 2 = 1

Column(k) == CASE k = 18 -> {0, 2, 4, 6} [] k = 19 -> {1, 3, 5, 7}
               [] k = 20 -> {0, 1, 4, 5} [] k = 21 -> {2, 3, 6, 7}
               [] k = 22 -> 0 .. 3       [] k = 23 -> 4 .. 7

\* Words with line 231 left out: word 9 is missing from rp6.
Words_slip(k) == CASE k = 4  -> {0, 2, 4, 6, 8, 10, 12, 14}
                   [] k = 6  -> {0, 1} \cup {4, 5, 8, 12, 13}
                   [] k = 8  -> (0 .. 3) \cup (8 .. 11)
                   [] k = 10 -> 0 .. 7

\* The loop reads 16 words of 4 bytes per turn; the words each rp takes in,
\* directly or from tmppar (lines 197-252), and then the turns (255-260).
Words(k) == CASE k = 4  -> {0, 2, 4, 6, 8, 10, 12, 14}
              [] k = 6  -> {0, 1} \cup {4, 5, 8, 9, 12, 13}
              [] k = 8  -> (0 .. 3) \cup (8 .. 11)
              [] k = 10 -> 0 .. 7

\* Where byte a lies in its word, from the low end (the #ifdefs of 303-327).
Lane_slip(big, a) == a % 4
Lane(big, a)      == IF big THEN 3 - (a % 4) ELSE a % 4

InRow(big, k, a) ==
  LET word == (a \div 4) % 16
      turn == a \div 64
  IN  CASE k = 0 -> Lane(big, a) \in IF big THEN {1, 3} ELSE {0, 2}
        [] k = 2 -> Lane(big, a) \in IF big THEN {2, 3} ELSE {0, 1}
        [] k \in {4, 6, 8, 10} -> word \in Words(k)
        [] k = 12 -> turn % 2 = 0
        [] k = 14 -> (turn \div 2) % 2 = 0
        [] k = 16 -> (turn \div 4) % 2 = 0

\* The data bits row k is the parity of.  An odd row is par ^ the even one, and
\* for 256 bytes code[2] ends in two ones, the parities of nothing.
Covers28 ==
  [size \in Sizes |-> [big \in BOOLEAN |-> [k \in CodeBits |->
    CASE k \in 18 .. 23 -> {n \in 0 .. 8 * size - 1 : n % 8 \in Column(k)}
      [] k \in {16, 17} /\ size = 256 -> {}
      [] OTHER -> {n \in 0 .. 8 * size - 1 : InRow(big, k - (k % 2), n \div 8) <=> k % 2 = 0}]]]

\* A bit of the number of a byte.
BitOf(j, i) == (i \div <<1, 2, 4, 8, 16, 32, 64, 128>>[j + 1]) % 2

\* Bit j of reg3 is the parity of the bytes at addresses with bit j set, bit j
\* of reg2 that of the others; they end up in bits 2j + 1 and 2j of tmp1, tmp2.
Covers27_slip ==
  [k \in CodeBits |->
    CASE k \in 18 .. 23 -> {n \in 0 .. 2047 : n % 8 \in Column(k)}
      [] k \in {16, 17} -> {}
      [] OTHER -> {n \in 0 .. 2047 : BitOf(k \div 2, n \div 8) = 1 - (k % 2)}]

Covers27 ==
  [k \in CodeBits |->
    CASE k \in 18 .. 23 -> {n \in 0 .. 2047 : n % 8 \in Column(k)}
      [] k \in {16, 17} -> {}
      [] OTHER -> {n \in 0 .. 2047 : BitOf(k \div 2, n \div 8) = k % 2}]

\* The row a bit of the code stands for: code[0] and code[1] are swapped but in
\* SmartMedia order.
Row(c) == IF machine.CONFIG_MTD_NAND_ECC_SMC \/ c \geq 16 THEN c ELSE (c + 8) % 16

\* invparity: a bit of the code is 1 when the parity is even.
calculate28(big, d) == {c \in CodeBits : ~Odd(d \cap Covers28[eccsize][big][Row(c)])}
calculate27(d)      == {c \in CodeBits : ~Odd(d \cap Covers27[Row(c)])}

nand_calculate_ecc(v, d) ==
  IF v = "2.6.27" THEN calculate27(d) ELSE calculate28(machine.BIG_ENDIAN, d)

\* tmp1 before tmp2, as in the kernel.
calculate_test_slip(d) ==
  {c \in CodeBits : c \in {16, 17} \/ Odd(d \cap Covers27[IF c < 16 THEN (c + 8) % 16 ELSE c])}

\* TestEcc.c leaves the inversion out and stores tmp2 before tmp1.
calculate_test(d)      == {c \in CodeBits : c \in {16, 17} \/ Odd(d \cap Covers27[c])}

-----------------------------------------------------------------------------
(* Correction.  s is the set of rows in which two codes differ.            *)

Pairs(size) == IF size = 256 THEN (0 .. 11) \ {8} ELSE 0 .. 11

\* The column parities are not looked at.
SingleError_slip(size, s) ==
  \A j \in Pairs(size) \ (9 .. 11) : (2 * j \in s) # (2 * j + 1 \in s)

\* One of each pair of rows differs.
SingleError(size, s) == \A j \in Pairs(size) : (2 * j \in s) # (2 * j + 1 \in s)

\* The table filters the odd rows out of the byte of a code.
addressbits(s, first) == LET value(row, weight) == IF first + row \in s THEN weight ELSE 0
                         IN  value(1, 1) + value(3, 2) + value(5, 4) + value(7, 8)

byte_addr(size, s) == (IF size = 256 THEN 0 ELSE 256 * addressbits(s \cap {16, 17}, 16))
                      + 16 * addressbits(s, 8) + addressbits(s, 0)
bit_addr(s)        == addressbits(s, 18)

FaultyBit(size, s) == 8 * byte_addr(size, s) + bit_addr(s)

\* What nand_correct_data returns and leaves in the buffer.
nand_correct_data(size, d, s) ==
  IF s = {} THEN [result |-> "clean", buf |-> d]
  ELSE IF SingleError(size, s)
       THEN [result |-> "fixed", buf |-> SymDiff(d, {FaultyBit(size, s)})]
  ELSE IF Cardinality(s) = 1 THEN [result |-> "fixed", buf |-> d]
  ELSE [result |-> "failed", buf |-> d]

-----------------------------------------------------------------------------
(* The page.                                                               *)

\* An erased page reads all ones, spare area included.
Init == /\ machine \in Machines
        /\ written = Bits /\ data = Bits /\ code = CodeBits
        /\ flips = {}
        /\ buf = {} /\ result = "unread" /\ located = Untested

Erase == /\ machine' = machine
         /\ written' = Bits /\ data' = Bits /\ code' = CodeBits
         /\ flips' = {}
         /\ buf' = {} /\ result' = "unread" /\ located' = Untested

Program(p) == /\ written = Bits /\ flips = {}
              /\ written' = p /\ data' = p
              /\ \E v \in Versions : code' = nand_calculate_ecc(v, p)
              /\ buf' = {} /\ result' = "unread" /\ located' = Untested
              /\ UNCHANGED <<machine, flips>>

\* Bounds: at most two bits flip, one of them anywhere in a programmed page, or
\* both in the code and weak bytes.
MayFlip(x) ==
  /\ x \notin flips
  /\ Cardinality(flips) < 2
  /\ \/ flips = {} /\ written # Bits
     \/ \A y \in flips \cup {x} : y < 0 \/ y \div 8 \in Weak[eccsize]

Flip == /\ \/ \E n \in Bits : MayFlip(n) /\ data' = SymDiff(data, {n})
                              /\ flips' = flips \cup {n} /\ code' = code
           \/ \E c \in CodeBits : MayFlip(-1 - c) /\ code' = SymDiff(code, {c})
                                  /\ flips' = flips \cup {-1 - c} /\ data' = data
        /\ buf' = {} /\ result' = "unread" /\ located' = Untested
        /\ UNCHANGED <<machine, written>>

\* Reading again would only do the same.
Read(v) ==
  LET s == {Row(c) : c \in SymDiff(code, nand_calculate_ecc(v, data))}
      r == nand_correct_data(IF v = "2.6.27" THEN 256 ELSE eccsize, data, s)
  IN  /\ result = "unread"
      /\ buf' = r.buf /\ result' = r.result /\ located' = Untested
      /\ UNCHANGED <<machine, written, data, code, flips>>

\* TestEcc.c compares the code of a page with that of a changed page.
TestEcc ==
  LET s == SymDiff(calculate_test(written), calculate_test(data))
  IN  /\ eccsize = 256 /\ result = "unread"
      /\ located' = IF s # {} /\ SingleError(256, s) THEN FaultyBit(256, s) ELSE -1
      /\ UNCHANGED <<machine, written, data, code, flips, buf, result>>

Next == \/ Erase
        \/ \E p \in Pages[eccsize] : Program(p)
        \/ Flip
        \/ \E v \in Versions : Read(v)
        \/ TestEcc

Spec == Init /\ [][Next]_vars

-----------------------------------------------------------------------------
(* Properties.                                                             *)

\* One flipped bit, of the data or of the code, of a programmed or of an erased
\* page, is undone in the buffer and reported (nand_ecc-2.6.28-later.c:472-509).
OneFlipCorrected ==
  result # "unread" /\ Cardinality(flips) < 2 =>
    buf = written /\ result = IF flips = {} THEN "clean" ELSE "fixed"

\* Two flipped bits never pass for a good page: either the call fails and leaves
\* the buffer alone, or the buffer is right (the second flip hit code[2]'s two
\* unused bits).
TwoFlipsNotMiscorrected ==
  result # "unread" /\ Cardinality(flips) = 2 =>
    IF result = "failed" THEN buf = data ELSE buf = written

\* The two versions, and the word-wise one on machines of either endianness,
\* compute one code: a page written by one kernel is read by the other.
VersionsAgree ==
  result = "unread" /\ "2.6.27" \in Versions =>
    \A big \in BOOLEAN : calculate28(big, data) = calculate27(data)

\* The word-wise code does not depend on the endianness of the machine
\* (nand_ecc-2.6.28-later.c:303-327).
EndianNeutral == result = "unread" => calculate28(TRUE, data) = calculate28(FALSE, data)

\* TestEcc.c names the bit in which a page differs from the original, and none
\* only when they are equal or differ in two bits (TestEcc.c:122-163).
TestLocates ==
  located # Untested =>
    \/ flips \cap Bits = {located}
    \/ located = -1 /\ Cardinality(flips \cap Bits) # 1
=============================================================================
