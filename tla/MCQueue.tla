------------------------------ MODULE MCQueue ------------------------------
(***************************************************************************)
(* Values of the constants of Queue for TLC.                               *)
(***************************************************************************)
EXTENDS Queue, TLC

\* Threads are interchangeable, and so are values, in Queue as in Locks and
\* Fifo; the run checks no liveness.
MCSymmetry == Permutations(Threads) \cup Permutations(Values)
=============================================================================
