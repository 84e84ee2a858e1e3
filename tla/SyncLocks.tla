----------------------------- MODULE SyncLocks -----------------------------
(***************************************************************************)
(* Sync implements Locks.  The levels are read off the kernel's own state: *)
(* a thread has a mutex when the kernel says it is the owner and the call  *)
(* that asked for it has returned.                                         *)
(***************************************************************************)
EXTENDS Sync

KernelLevels ==
    [t \in Threads |-> [m \in Mutexes |->
        IF owner[m] = t /\ this[t] # m THEN DepthToLevels(m, recursiveDepth[m]) ELSE 0]]

KernelParked ==
    [t \in Threads |-> [m \in Mutexes |->
        IF at[t] \in {"cond", "relock"} /\ this[t] = m THEN DepthToLevels(m, depth[t]) ELSE 0]]

L == INSTANCE Locks WITH levels <- KernelLevels, parked <- KernelParked

\* Every step of the kernel is a step of the abstract locks, or changes
\* nothing a program can tell: handing a mutex over, a wakeup nobody asked
\* for, or a change of priority give no thread a mutex it did not ask for.
ImplementsLocks == L!Spec
=============================================================================
