-------------------------------- MODULE Bits --------------------------------
(***************************************************************************)
(* lang/c/gadget/bit.c: a bitmap in an array of words, and the program     *)
(* that sets a range of it and clears it again.  A word is the set of the  *)
(* bits in it that are 1.                                                  *)
(***************************************************************************)
EXTENDS Integers

CONSTANTS WordBits,   \* 32, or fewer
          Words_,     \* 8, or fewer
          Below       \* how far below 0 a number of the argument may be

ASSUME BitsAssumption ==
  WordBits \in Nat \ {0} /\ Words_ \in Nat \ {0} /\ Below \in Nat

VARIABLES bits,    \* "start", "set", "shown", "clear", "done", "refused" or "lost"
          arr,
          range,   \* what get_range made of the argument
          bit,     \* Start of the loop
          shown    \* what the first bits_dump printed

bitsVars == <<bits, arr, range, bit, shown>>

max_bit == WordBits * Words_ - 1

BitsInit == /\ bits = "start" /\ arr = [w \in 0 .. Words_ - 1 |-> {}]
            /\ range = <<0, 0>> /\ bit = 0 /\ shown = {}

check_bit(b) == b % WordBits \in arr[b \div WordBits]

set_bit(b)      == [arr EXCEPT ![b \div WordBits] = @ \cup {b % WordBits}]

\* The whole word is cleared.
clear_bit_slip(b) == [arr EXCEPT ![b \div WordBits] = {}]
clear_bit(b)      == [arr EXCEPT ![b \div WordBits] = @ \ {b % WordBits}]

bits_dump == {b \in 0 .. max_bit : check_bit(b)}

\* get_range finds two numbers in the argument, or one, or none; `a-b' with b
\* below a is no error, and one number alone is a range that ends at 0.  atoi
\* makes a negative number of one that is too large for an int; of those main
\* refuses -1 alone, as the first.
bits_main(first, second) ==
  /\ bits = "start"
  /\ range' = <<first, second>> /\ bit' = first
  /\ bits' = IF first = -1 \/ first > max_bit \/ second > max_bit THEN "refused" ELSE "set"
  /\ UNCHANGED <<arr, shown>>

\* One turn of the do-while, which is made at least once.
set_bit_range ==
  /\ bits = "set" /\ bit >= 0
  /\ arr' = set_bit(bit) /\ bit' = bit + 1
  /\ bits' = IF bit' <= range[2] THEN "set" ELSE "shown"
  /\ UNCHANGED <<range, shown>>

\* A bit below 0 is shifted by a negative count and stored in front of the array,
\* on the stack: what the program does from here on is not known.
set_bit_before ==
  /\ bits = "set" /\ bit < 0
  /\ bits' = "lost"
  /\ UNCHANGED <<arr, range, bit, shown>>

show == /\ bits = "shown"
        /\ shown' = bits_dump /\ bit' = range[1] /\ bits' = "clear"
        /\ UNCHANGED <<arr, range>>

clear_bit_range ==
  /\ bits = "clear"
  /\ arr' = clear_bit(bit) /\ bit' = bit + 1
  /\ bits' = IF bit' <= range[2] THEN "clear" ELSE "done"
  /\ UNCHANGED <<range, shown>>

bits_exit == /\ bits \in {"done", "refused", "lost"}
             /\ bits' = "start" /\ arr' = [w \in 0 .. Words_ - 1 |-> {}]
             /\ range' = <<0, 0>> /\ bit' = 0 /\ shown' = {}

BitsNext == \/ \E first, second \in -Below .. max_bit + 1 : bits_main(first, second)
            \/ set_bit_range \/ set_bit_before \/ show \/ clear_bit_range \/ bits_exit

BitsSpec == BitsInit /\ [][BitsNext]_bitsVars

-----------------------------------------------------------------------------
(* Properties.                                                             *)

\* What is shown after the range was set is the range, across words too; of one
\* that is turned around, or a single number, its first bit.  Clearing goes over
\* the same bits from the low end and touches no other, so that at every turn
\* what is left is the rest of what was set (bit.c:50-65).  Of an argument whose
\* first number comes out below 0 nothing is said: the dump is not reached by a
\* program that is known to be whole.
RangeSetThenCleared ==
  bits \in {"clear", "done"} =>
    /\ shown = IF range[2] > range[1] THEN range[1] .. range[2] ELSE {range[1]}
    /\ bits_dump = shown \ (range[1] .. bit - 1)
=============================================================================
