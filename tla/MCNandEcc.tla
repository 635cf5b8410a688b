----------------------------- MODULE MCNandEcc -----------------------------
(* Small instances of NandEcc.tla.                                         *)
EXTENDS NandEcc

\* Both versions on pages of 256 bytes, and the later one as it is for 512.
SmallAndLarge ==
  {[eccsize |-> 256, CONFIG_MTD_NAND_ECC_SMC |-> FALSE, BIG_ENDIAN |-> FALSE,
    versions |-> {"2.6.27", "2.6.28"}],
   [eccsize |-> 512, CONFIG_MTD_NAND_ECC_SMC |-> TRUE, BIG_ENDIAN |-> TRUE,
    versions |-> {"2.6.28"}]}

\* An empty page, and one with bits of every column, word and turn.
SomePages == [size \in Sizes |-> {{}, {n \in 0 .. 8 * size - 1 : n % 9 = 0 /\ n % 5 = 1}}]

\* Addresses that differ in each of their bits, and both ends.
WeakBytes == [size \in Sizes |-> {0, 6, size - 1}]
=============================================================================
