------------------------------- MODULE Locks -------------------------------
(***************************************************************************)
(* What a program may expect of mutexes and of a condition variable,       *)
(* whatever the kernel does with priorities, queues and wakeups: at most   *)
(* one thread has a mutex, on as many levels as it locked it; a thread     *)
(* that waits on the condition variable has none of the levels, and all of *)
(* them again when the wait is over.                                       *)
(***************************************************************************)
EXTENDS Naturals

CONSTANTS Threads, Mutexes, Recursive

VARIABLES
    levels,     \* of a thread and a mutex: on how many levels it has it
    parked      \* of a thread and a mutex: the levels it gave up in a wait

vars == <<levels, parked>>

Init ==
    /\ levels = [t \in Threads |-> [m \in Mutexes |-> 0]]
    /\ parked = levels

Free(t, m) == \A u \in Threads \ {t} : levels[u][m] = 0

Acquire(t, m) ==
    /\ Free(t, m)
    /\ levels[t][m] > 0 => m \in Recursive
    /\ parked[t] = [k \in Mutexes |-> 0]
    /\ levels' = [levels EXCEPT ![t][m] = @ + 1]
    /\ UNCHANGED parked

Release(t, m) ==
    /\ levels[t][m] > 0
    /\ levels' = [levels EXCEPT ![t][m] = @ - 1]
    /\ UNCHANGED parked

Park(t, m) ==
    /\ levels[t][m] > 0
    /\ parked' = [parked EXCEPT ![t][m] = levels[t][m]]
    /\ levels' = [levels EXCEPT ![t][m] = 0]

Unpark(t, m) ==
    /\ Free(t, m)
    /\ parked[t][m] > 0
    /\ levels' = [levels EXCEPT ![t][m] = parked[t][m]]
    /\ parked' = [parked EXCEPT ![t][m] = 0]

Next == \E t \in Threads, m \in Mutexes :
           Acquire(t, m) \/ Release(t, m) \/ Park(t, m) \/ Unpark(t, m)

Spec == Init /\ [][Next]_vars
=============================================================================
