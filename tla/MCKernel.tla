------------------------------ MODULE MCKernel ------------------------------
(***************************************************************************)
(* Values for the constants of Kernel.                                     *)
(***************************************************************************)
EXTENDS Kernel, TLC

CONSTANTS main, b2, b3

MCBlocks == {main, b2, b3}

\* Blocks other than that of the main thread are alike.
MCSymmetry == Permutations(MCBlocks \ {main})

=============================================================================
