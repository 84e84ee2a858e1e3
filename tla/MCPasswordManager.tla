------------------------- MODULE MCPasswordManager -------------------------
(***************************************************************************)
(* PasswordManager on small instances: the constants a configuration       *)
(* cannot write down itself.                                               *)
(***************************************************************************)
EXTENDS PasswordManager, Bitwise, TLC

BitwiseAnd(a, b) == a & b

OneSlot == {1}
AllSlots == 1 .. 4

Symmetry == Permutations(Masters) \cup Permutations(Sites) \cup Permutations(Words)
=============================================================================
