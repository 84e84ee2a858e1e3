------------------------------- MODULE MCSync -------------------------------
(***************************************************************************)
(* Values of the constants of Sync for TLC.                                *)
(***************************************************************************)
EXTENDS SyncLocks, TLC

\* Threads are interchangeable, in Sync as in Locks; no run that uses it checks
\* liveness.
MCSymmetry == Permutations(Threads)
=============================================================================
