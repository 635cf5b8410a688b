------------------------------ MODULE MCHidCom ------------------------------
(* Small instances of HidCom.tla: lengths around the limits of a message.  *)
EXTENDS HidCom

OneOrTwoMessages   == {0, 1, 5, 28, 29, 30, 31, 58, 59, 60}
ThreeOrMore        == {61, 90, 91}
Buffers            == {0, 32, 60}
Answers            == {0, 1, 5, Capacity, Capacity + 1}
=============================================================================
