------------------------------- MODULE MCItoa -------------------------------
(* Numbers for Itoa.tla: zero, one digit and more, in either base; one     *)
(* below zero.                                                             *)
EXTENDS Itoa

SmallInputs == {-3, 0, 7, 10, 42, 255, 4096}
=============================================================================
