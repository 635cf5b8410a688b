------------------------------ MODULE Numbers ------------------------------
(* Powers, for the shifts and digits of Bcd.tla and Itoa.tla, as a         *)
(* function: the provers know no more of ^ than its values for constants.  *)
EXTENDS Integers

\* b to the powers of 0 to top.
Power(b, top) == LET to[n \in 0 .. top] == IF n = 0 THEN 1 ELSE b * to[n - 1] IN to
=============================================================================
