-------------------------------- MODULE Itoa --------------------------------
(***************************************************************************)
(* itoA_ of lang/c/gadget/itoa.c: the digits of a number, written from the *)
(* end of a static buffer, in which the calls before have left theirs.     *)
(***************************************************************************)
EXTENDS Numbers, SequencesExt, FiniteSetsExt

CONSTANTS Inputs,      \* numbers that are converted
          MaxDigits    \* decimal digits of the largest: an int has at most ten

ASSUME ItoaAssumption ==
  /\ MaxDigits \in 1 .. 10
  /\ \A num \in Inputs : num \in Int /\ num < Power(10, MaxDigits)[MaxDigits]

VARIABLES itoa,    \* "out", "digits" or "return"
          buf,     \* buf[0] .. buf[12]
          i, tmp,
          asked,   \* number and base of the last call
          string   \* what it returned

itoaVars == <<itoa, buf, i, tmp, asked, string>>

NUL    == "NUL"
Digits == <<"0", "1", "2", "3", "4", "5", "6", "7", "8", "9", "A", "B", "C", "D", "E", "F">>

ItoaInit == /\ itoa = "out"
            /\ buf = [n \in 0 .. 12 |-> NUL] /\ i = 0 /\ tmp = 0
            /\ asked = [num |-> 0, base |-> 16] /\ string = <<"0", "x", "0">>

itoA_(num, base) ==
  /\ itoa = "out"
  /\ itoa' = "digits" /\ asked' = [num |-> num, base |-> base]
  /\ buf' = [buf EXCEPT ![12] = NUL] /\ i' = 11 /\ tmp' = num
  /\ UNCHANGED string

\* C's division, which rounds towards zero.
quotient  == IF tmp >= 0 THEN tmp \div asked.base ELSE -((-tmp) \div asked.base)
remainder == tmp - asked.base * quotient

\* Below zero the index is out of the digits: what is there is any character.
characters == IF remainder >= 0 THEN {Digits[remainder + 1]} ELSE {NUL, "9"}

\* `while (tmp != 0)' before the body: zero has no digit.
digit_slip ==
  /\ itoa = "digits"
  /\ IF tmp # 0
     THEN /\ \E c \in characters : buf' = [buf EXCEPT ![i] = c]
          /\ i' = i - 1 /\ tmp' = quotient /\ UNCHANGED itoa
     ELSE itoa' = "return" /\ UNCHANGED <<buf, i, tmp>>
  /\ UNCHANGED <<asked, string>>

digit ==
  /\ itoa = "digits"
  /\ \E c \in characters : buf' = [buf EXCEPT ![i] = c]
  /\ i' = i - 1 /\ tmp' = quotient
  /\ itoa' = IF i' >= 0 /\ tmp' # 0 THEN "digits" ELSE "return"
  /\ UNCHANGED <<asked, string>>

\* i is where the next digit would have gone; the prefix takes two places more,
\* the second of which i is left at.
prefixed == IF asked.base = 16 THEN [buf EXCEPT ![i] = "x", ![i - 1] = "0"] ELSE buf
start    == IF asked.base = 16 THEN i - 1 ELSE i

\* The characters from &buf[i] up to the first NUL.
itoA_return ==
  /\ itoa = "return" /\ itoa' = "out"
  /\ buf' = prefixed
  /\ LET end == Min({n \in start .. 12 : prefixed[n] = NUL})
     IN  string' = [n \in 1 .. end - start |-> prefixed[start + n - 1]]
  /\ UNCHANGED <<i, tmp, asked>>

ItoaNext == (\E num \in Inputs, base \in {10, 16} : itoA_(num, base)) \/ digit \/ itoA_return

ItoaSpec == ItoaInit /\ [][ItoaNext]_itoaVars

-----------------------------------------------------------------------------
(* Properties.                                                             *)

\* A number in a base, by the place of each digit.
Place(base)        == Power(base, MaxDigits)
Places(num, base)  == Min({n \in 1 .. MaxDigits : num < Place(base)[n]})
Written(num, base) == [n \in 1 .. Places(num, base) |->
                         Digits[((num \div Place(base)[Places(num, base) - n]) % base) + 1]]

Answered(base) == itoa = "out" /\ asked.base = base /\ asked.num >= 0

\* A hexadecimal number is 0x and its digits, from the second call on as well,
\* when the buffer holds the digits of other numbers.  A decimal number starts
\* one cell early: it is empty if that cell was never written, and else has a
\* character of an earlier call in front (itoa.c:11-26).
DigitsAsWritten ==
  /\ Answered(16) => string = <<"0", "x">> \o Written(asked.num, 16)
  /\ Answered(10) => string = <<>> \/ Tail(string) = Written(asked.num, 10)

\* ">Sorry, only hex and dec supported." (itoa.c:9): a decimal number is its
\* digits.
DecimalAsWritten == Answered(10) => string = Written(asked.num, 10)
=============================================================================
