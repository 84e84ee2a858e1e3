----------------------- MODULE MCPasswordManagerVault -----------------------
(* PasswordManagerVault on small instances. *)
EXTENDS PasswordManagerVault, Bitwise

BitwiseAnd(a, b) == a & b

OneSlot == {1}
TwoSlots == {1, 2}
=============================================================================
