-------------------------------- MODULE Bcd --------------------------------
(***************************************************************************)
(* lang/c/gadget/ul2bcd.c and bcd2ul.c: a number is turned into decimal    *)
(* digits of four bits each, and these into a number, by loops over a word *)
(* of W digits (16 in the code, whose words have 64 bits).                 *)
(***************************************************************************)
EXTENDS Numbers

CONSTANTS W,
          Decimals   \* what is converted

ASSUME BcdAssumption == W \in Nat \ {0} /\ Decimals \subseteq 0 .. Power(16, W)[W] - 1

VARIABLES turn,    \* i
          loop_,   \* "main", "ul2bcd", "bcd2ul" or "done"
          given,   \* the number
          dec, bcd, out

bcdVars == <<turn, loop_, given, dec, bcd, out>>

BcdInit == /\ loop_ = "main" /\ turn = 0
           /\ given = 0 /\ dec = 0 /\ bcd = 0 /\ out = 0

ul2bcd(n) == /\ loop_ = "main"
             /\ loop_' = "ul2bcd" /\ turn' = 0
             /\ given' = n /\ dec' = n /\ bcd' = 0 /\ out' = 0

\* A digit comes in at the top and is shifted down by the turns after it; the
\* top is empty then, and the or is a sum.
entered(digit) == digit * Power(16, W)[W - 1]

ul2bcd_turn ==
  /\ loop_ = "ul2bcd"
  /\ bcd' = bcd \div 16 + entered(dec % 10)
  /\ dec' = dec \div 10
  /\ IF turn < W - 1 THEN turn' = turn + 1 /\ UNCHANGED loop_
     ELSE turn' = 0 /\ loop_' = "bcd2ul"
  /\ UNCHANGED <<given, out>>

\* The mask is not shifted with the turns.
kept_slip(digits) == digits % Power(16, W)[W - 1]

\* 0x0FFF... >> (i << 2): the digits below the one just taken.
kept(digits) == digits % Power(16, W)[W - 1 - turn]

\* count is W - i: bcd2ul takes what is left at the top.
bcd2ul_turn ==
  /\ loop_ = "bcd2ul"
  /\ out' = 10 * out + bcd \div Power(16, W)[W - 1 - turn]
  /\ bcd' = kept(bcd)
  /\ IF turn < W - 1 THEN turn' = turn + 1 /\ UNCHANGED loop_
     ELSE turn' = 0 /\ loop_' = "done"
  /\ UNCHANGED <<given, dec>>

bcd_exit == /\ loop_ = "done" /\ loop_' = "main"
            /\ given' = 0 /\ dec' = 0 /\ bcd' = 0 /\ out' = 0 /\ UNCHANGED turn

BcdNext == (\E n \in Decimals : ul2bcd(n)) \/ ul2bcd_turn \/ bcd2ul_turn \/ bcd_exit

BcdSpec == BcdInit /\ [][BcdNext]_bcdVars

-----------------------------------------------------------------------------
(* Properties.                                                             *)

\* There and back, a number is the same, or, when it has more digits than there
\* is room for, what the lowest ones say (bcd2ul.c:19-37, ul2bcd.c:7-23).
RoundTrip == loop_ = "done" => out = given % Power(10, W)[W]
=============================================================================
