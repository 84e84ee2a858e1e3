------------------------------ MODULE Pthread ------------------------------
(***************************************************************************)
(* pthread_mutex_t, which is what FastMutex is, and pthread_cond_t.        *)
(*                                                                         *)
(* Every call runs with interrupts disabled up to its return or to the     *)
(* yield that makes its wait effective, so a call is one action, and a     *)
(* thread that waits is resumed by another.  Where a thread stands:        *)
(*                                                                         *)
(*   "run"      in the program;                                            *)
(*   "lock"     in the loop at the end of IRQdoMutexLock;                  *)
(*   "cond"     in pthread_cond_wait, before it locks again;               *)
(*   "relock"   in the loop of the IRQdoMutexLockToDepth it ends with;     *)
(*   "away"     in a call of another part that waits with IRQwait.         *)
(*                                                                         *)
(* Unlike Mutex, there are no priorities here: those who wait are served   *)
(* in order of arrival.  Their list is made of variables on their stacks,  *)
(* linked from first on; last is looked at only while the list is not      *)
(* empty, and so a sequence says all of it.                                *)
(***************************************************************************)
EXTENDS Integers, Sequences

CONSTANTS
    Threads,
    Mutexes,         \* numbers, in the order in which programs lock them
    Recursive,       \* those made PTHREAD_MUTEX_RECURSIVE
    CondMutex,       \* the mutex of those who wait on the condition variable
    MaxDepth,        \* bound on recursive locking
    NoThread, NoMutex

ASSUME PthreadAssumption ==
    /\ Mutexes \subseteq Nat /\ Recursive \subseteq Mutexes
    /\ CondMutex \in Mutexes
    /\ MaxDepth \in Nat
    /\ NoThread \notin Threads /\ NoMutex \notin Mutexes

VARIABLES
    owner,           \* of a mutex: the thread that holds it
    recursive,       \* of a mutex: -1 when it is not, else locks beyond the first
    list,            \* of a mutex: the threads from first to last
    condList,        \* the same of the condition variable
    wait,            \* of a thread: the flag WAIT
    condWait,        \* of a thread: the flag WAIT_COND
    at,              \* of a thread: where it stands
    this,            \* of a thread: the mutex of the call it waits in
    depth,           \* of a thread: the local variable of pthread_cond_wait
    nested           \* what the program knows: locks minus unlocks

mutexVars == <<owner, recursive, list>>
callVars  == <<at, this, depth>>
pthreadVars == <<mutexVars, condList, wait, condWait, callVars, nested>>

-----------------------------------------------------------------------------
(* Helpers.                                                                *)

Elements(s) == {s[i] : i \in DOMAIN s}

Ready(t) == ~wait[t] /\ ~condWait[t]
Runs(t)  == at[t] = "run" /\ Ready(t)

\* Programs lock in increasing order, and a mutex they hold again only if it
\* is recursive: locking another one twice reboots the board.
MayLock(t, m) ==
    IF nested[t][m] > 0 THEN m \in Recursive /\ nested[t][m] <= MaxDepth
    ELSE \A k \in Mutexes : nested[t][k] > 0 => k < m

Locked(t, m)   == nested' = [nested EXCEPT ![t][m] = @ + 1]
Unlocked(t, m) == nested' = [nested EXCEPT ![t][m] = @ - 1]

Waits(t, place, m) == at' = [at EXCEPT ![t] = place] /\ this' = [this EXCEPT ![t] = m]
Returns(t)         == at' = [at EXCEPT ![t] = "run"] /\ this' = [this EXCEPT ![t] = NoMutex]

-----------------------------------------------------------------------------
PthreadTypeOK ==
    /\ owner \in [Mutexes -> Threads \cup {NoThread}]
    /\ recursive \in [Mutexes -> Nat \cup {-1}]
    /\ \A m \in Mutexes : m \in Recursive <=> recursive[m] >= 0
    /\ list \in [Mutexes -> Seq(Threads)]
    /\ condList \in Seq(Threads)
    /\ wait \in [Threads -> BOOLEAN]
    /\ condWait \in [Threads -> BOOLEAN]
    /\ at \in [Threads -> {"run", "lock", "cond", "relock", "away"}]
    /\ this \in [Threads -> Mutexes \cup {NoMutex}]
    /\ depth \in [Threads -> Nat]
    /\ nested \in [Threads -> [Mutexes -> Nat]]

PthreadInit ==
    /\ owner = [m \in Mutexes |-> NoThread]
    /\ recursive = [m \in Mutexes |-> IF m \in Recursive THEN 0 ELSE -1]
    /\ list = [m \in Mutexes |-> <<>>]
    /\ condList = <<>>
    /\ wait = [t \in Threads |-> FALSE]
    /\ condWait = [t \in Threads |-> FALSE]
    /\ at = [t \in Threads |-> "run"]
    /\ this = [t \in Threads |-> NoMutex]
    /\ depth = [t \in Threads |-> 0]
    /\ nested = [t \in Threads |-> [m \in Mutexes |-> 0]]

-----------------------------------------------------------------------------
(* What the calls have in common.                                          *)

\* Wrong: nobody asks whose it is.
TakeAnyway(t, m) ==
    /\ owner' = [owner EXCEPT ![m] = t]
    /\ UNCHANGED <<list, wait>>

\* A free mutex goes to the thread that asks.
Take(t, m) ==
    /\ owner[m] = NoThread
    /\ owner' = [owner EXCEPT ![m] = t]
    /\ UNCHANGED <<list, wait>>

\* A mutex that another thread holds: last in the list, and wait.
Enqueue(t, m) ==
    /\ owner[m] \notin {NoThread, t}
    /\ list' = [list EXCEPT ![m] = Append(@, t)]
    /\ wait' = [wait EXCEPT ![t] = TRUE]
    /\ UNCHANGED owner

\* A recursive mutex that the thread holds already.
Deeper(t, m) ==
    /\ owner[m] = t
    /\ recursive[m] >= 0
    /\ recursive' = [recursive EXCEPT ![m] = @ + 1]
    /\ UNCHANGED <<owner, list, wait>>

\* Wrong: the mutex is free until the thread that was woken runs.
LeaveToTheQuickest(m) ==
    /\ owner' = [owner EXCEPT ![m] = NoThread]
    /\ IF list[m] = <<>> THEN UNCHANGED <<list, wait>>
       ELSE /\ wait' = [wait EXCEPT ![Head(list[m])] = FALSE]
            /\ list' = [list EXCEPT ![m] = Tail(@)]

\* A mutex that is given up goes to the first in the list, before that thread
\* runs.
HandOver(m) ==
    IF list[m] = <<>>
    THEN owner' = [owner EXCEPT ![m] = NoThread] /\ UNCHANGED <<list, wait>>
    ELSE /\ wait' = [wait EXCEPT ![Head(list[m])] = FALSE]
         /\ owner' = [owner EXCEPT ![m] = Head(list[m])]
         /\ list' = [list EXCEPT ![m] = Tail(@)]

\* Wrong: IRQdoMutexLockToDepth forgets the depth.
ForgetDepth(m, d) == UNCHANGED recursive

\* IRQdoMutexLockToDepth sets the depth of a recursive mutex.
SetDepth(m, d) ==
    recursive' = IF recursive[m] >= 0 THEN [recursive EXCEPT ![m] = d] ELSE recursive

-----------------------------------------------------------------------------
(* Mutexes.                                                                *)

\* pthread_mutex_lock.
Lock(t, m) ==
    /\ Runs(t) /\ MayLock(t, m)
    /\ \/ Take(t, m) /\ Locked(t, m) /\ UNCHANGED <<recursive, at, this>>
       \/ Deeper(t, m) /\ Locked(t, m) /\ UNCHANGED <<at, this>>
       \/ Enqueue(t, m) /\ Waits(t, "lock", m) /\ UNCHANGED <<recursive, nested>>
    /\ UNCHANGED <<condList, condWait, depth>>

\* pthread_mutex_trylock, when it returns 0.  It never waits, so any order
\* will do.
TryLock(t, m) ==
    /\ Runs(t) /\ nested[t][m] <= MaxDepth
    /\ \/ Take(t, m) /\ UNCHANGED recursive
       \/ Deeper(t, m)
    /\ Locked(t, m)
    /\ UNCHANGED <<condList, condWait, callVars>>

\* pthread_mutex_unlock, by a thread that locked.
Unlock(t, m) ==
    /\ Runs(t) /\ nested[t][m] > 0
    /\ IF recursive[m] > 0
       THEN recursive' = [recursive EXCEPT ![m] = @ - 1] /\ UNCHANGED <<owner, list, wait>>
       ELSE HandOver(m) /\ UNCHANGED recursive
    /\ Unlocked(t, m)
    /\ UNCHANGED <<condList, condWait, callVars>>

\* A thread in one of the two loops is resumed: it is the owner by now, or
\* the wakeup was somebody else's and it waits again.
Granted(t) ==
    /\ at[t] \in {"lock", "relock"} /\ Ready(t) /\ owner[this[t]] = t
    /\ IF at[t] = "lock" THEN Locked(t, this[t]) /\ UNCHANGED recursive
       ELSE SetDepth(this[t], depth[t]) /\ UNCHANGED nested
    /\ Returns(t)
    /\ depth' = [depth EXCEPT ![t] = 0]
    /\ UNCHANGED <<owner, list, condList, wait, condWait>>

\* Wrong: the loops an if.
ReturnAnyway(t) ==
    /\ at[t] \in {"lock", "relock"} /\ Ready(t) /\ owner[this[t]] # t
    /\ IF at[t] = "lock" THEN Locked(t, this[t]) ELSE UNCHANGED nested
    /\ Returns(t)
    /\ UNCHANGED <<mutexVars, condList, wait, condWait, depth>>

WaitAgain(t) ==
    /\ at[t] \in {"lock", "relock"} /\ Ready(t) /\ owner[this[t]] # t
    /\ wait' = [wait EXCEPT ![t] = TRUE]
    /\ UNCHANGED <<mutexVars, condList, condWait, callVars, nested>>

-----------------------------------------------------------------------------
(* The condition variable.                                                 *)

\* pthread_cond_wait up to the yield: last in the list, and the mutex given
\* up on all levels.  By the order of locking no mutex above it is held.
CondWait(t) ==
    /\ Runs(t) /\ nested[t][CondMutex] > 0
    /\ \A k \in Mutexes : nested[t][k] > 0 => k <= CondMutex
    /\ condList' = Append(condList, t)
    /\ condWait' = [condWait EXCEPT ![t] = TRUE]
    /\ HandOver(CondMutex)
    /\ IF recursive[CondMutex] < 0
       THEN depth' = [depth EXCEPT ![t] = 0] /\ UNCHANGED recursive
       ELSE /\ depth' = [depth EXCEPT ![t] = recursive[CondMutex]]
            /\ recursive' = [recursive EXCEPT ![CondMutex] = 0]
    /\ Waits(t, "cond", CondMutex)
    /\ UNCHANGED nested

\* The rest of it: IRQdoMutexLockToDepth.
CondReturn(t) ==
    /\ at[t] = "cond" /\ Ready(t)
    /\ \/ /\ Take(t, this[t]) /\ SetDepth(this[t], depth[t]) /\ Returns(t)
          /\ depth' = [depth EXCEPT ![t] = 0]
       \/ /\ Enqueue(t, this[t]) /\ Waits(t, "relock", this[t])
          /\ UNCHANGED <<recursive, depth>>
    /\ UNCHANGED <<condList, condWait, nested>>

\* pthread_cond_signal.
Signal(t) ==
    /\ Runs(t) /\ condList # <<>>
    /\ condWait' = [condWait EXCEPT ![Head(condList)] = FALSE]
    /\ condList' = Tail(condList)
    /\ UNCHANGED <<mutexVars, wait, callVars, nested>>

\* pthread_cond_broadcast.
Broadcast(t) ==
    /\ Runs(t) /\ condList # <<>>
    /\ condWait' = [u \in Threads |-> condWait[u] /\ u \notin Elements(condList)]
    /\ condList' = <<>>
    /\ UNCHANGED <<mutexVars, wait, callVars, nested>>

-----------------------------------------------------------------------------
\* Thread::wakeup, which anybody may call on a thread that waits.
Wakeup(t) ==
    /\ wait[t]
    /\ wait' = [wait EXCEPT ![t] = FALSE]
    /\ UNCHANGED <<mutexVars, condList, condWait, callVars, nested>>

PthreadNext ==
    \/ \E t \in Threads, m \in Mutexes : Lock(t, m) \/ TryLock(t, m) \/ Unlock(t, m)
    \/ \E t \in Threads :
          \/ Granted(t) \/ WaitAgain(t)
          \/ CondWait(t) \/ CondReturn(t) \/ Signal(t) \/ Broadcast(t)
          \/ Wakeup(t)

-----------------------------------------------------------------------------
(* Properties.                                                             *)

\* What the program may rely on: a thread that locked a mutex and is not in a
\* call that gives it away is the owner, on as many levels as it locked it.
Exclusion ==
    \A t \in Threads, m \in Mutexes :
        nested[t][m] > 0 /\ ~(at[t] \in {"cond", "relock"} /\ this[t] = m) =>
            /\ owner[m] = t
            /\ m \in Recursive => recursive[m] = nested[t][m] - 1

\* Nobody sleeps in a call of this module without somebody who is to wake it:
\* a thread that sleeps for a mutex is in the list of one that another thread
\* owns, and one that sleeps on the condition variable is in its list.
NoneForgotten ==
    \A t \in Threads :
        /\ wait[t] /\ at[t] # "away" =>
               /\ this[t] # NoMutex
               /\ t \in Elements(list[this[t]])
               /\ owner[this[t]] \notin {NoThread, t}
        /\ condWait[t] => t \in Elements(condList)

-----------------------------------------------------------------------------
(* The same abstract locks that Mutex implements.                          *)

\* The levels of a mutex whose depth is d.
DepthToLevels(m, d) == IF m \in Recursive THEN d + 1 ELSE 1

PthreadLevels ==
    [t \in Threads |-> [m \in Mutexes |->
        IF owner[m] = t /\ this[t] # m THEN DepthToLevels(m, recursive[m]) ELSE 0]]

PthreadParked ==
    [t \in Threads |-> [m \in Mutexes |->
        IF at[t] \in {"cond", "relock"} /\ this[t] = m THEN DepthToLevels(m, depth[t]) ELSE 0]]

L == INSTANCE Locks WITH levels <- PthreadLevels, parked <- PthreadParked
=============================================================================
