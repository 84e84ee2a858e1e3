-------------------------------- MODULE Sync --------------------------------
(***************************************************************************)
(* miosix::Mutex, with its priority inheritance, and a ConditionVariable,  *)
(* as sync.cpp implements them on the threads of kernel.cpp.               *)
(*                                                                         *)
(* Every call runs with the kernel paused up to its return or to the yield *)
(* that makes its wait effective, so a call is one action, and a thread    *)
(* that waits is resumed by another.  What a thread does when resumed      *)
(* depends on where it stands:                                             *)
(*                                                                         *)
(*   "run"      in the program;                                            *)
(*   "lock"     in the loop at the end of PKlock;                          *)
(*   "cond"     in ConditionVariable::wait, before it locks again;         *)
(*   "relock"   in the loop of the PKlockToDepth that wait ends with.      *)
(*                                                                         *)
(* A thread is ready when neither of its two waiting flags is set.  Any    *)
(* ready thread may be the next to run: the scheduler lets one of a lower  *)
(* priority run on until the next tick or yield.                           *)
(***************************************************************************)
EXTENDS Integers, Sequences, FiniteSets

CONSTANTS
    Threads,
    Mutexes,         \* numbers, in the order in which programs lock them
    Recursive,       \* those made with the RECURSIVE option
    CondMutex,       \* the mutex of those who wait on the condition variable
    PriorityMax,     \* PRIORITY_MAX: priorities are below it
    MaxDepth,        \* bound on recursive locking
    NoThread, NoMutex

ASSUME SyncAssumption ==
    /\ Mutexes \subseteq Nat /\ Recursive \subseteq Mutexes
    /\ CondMutex \in Mutexes
    /\ PriorityMax \in Nat \ {0} /\ MaxDepth \in Nat
    /\ NoThread \notin Threads /\ NoMutex \notin Mutexes

VARIABLES
    owner,           \* of a mutex: the thread that holds it
    waiting,         \* of a mutex: the threads in its heap
    front,           \* of a mutex: the first element of that heap
    recursiveDepth,  \* of a mutex, -1 when it is not recursive
    priority,        \* of a thread, as the scheduler sees it
    savedPriority,   \* of a thread: its own, while it holds mutexes
    mutexLocked,     \* of a thread: the list of the mutexes it holds
    mutexWaiting,    \* of a thread: the mutex whose heap it is in
    wait,            \* of a thread: the flag WAIT
    condWait,        \* of a thread: the flag WAIT_COND
    queue,           \* of the condition variable, in order of arrival
    at,              \* of a thread: where it stands
    this,            \* of a thread: the mutex of the call it waits in
    depth,           \* of a thread: the local variable of wait
    \* What the program knows, and the kernel does not look at:
    base,            \* of a thread: the priority it last asked for
    nested           \* of a thread and a mutex: locks minus unlocks

mutexVars  == <<owner, waiting, front, recursiveDepth>>
threadVars == <<priority, savedPriority, mutexLocked, mutexWaiting, wait, condWait>>
userVars   == <<base, nested>>
callVars   == <<at, this, depth>>
vars == <<mutexVars, threadVars, queue, callVars, userVars>>

-----------------------------------------------------------------------------
(* Helpers.                                                                *)

Priorities == 0 .. PriorityMax - 1

Ready(t) == ~wait[t] /\ ~condWait[t]
Runs(t)  == at[t] = "run" /\ Ready(t)

Highest(S) == CHOOSE x \in S : \A y \in S : y <= x

\* The elements a heap of these threads may have in front.
Fronts(S, pr) == IF S = {} THEN {NoThread}
                 ELSE {t \in S : \A u \in S : pr[u] <= pr[t]}

\* What is left of a heap when its front is popped: pop_heap compares the
\* elements below it, and leaves a greatest one in front.
AfterPop(m, pr) == Fronts(waiting[m] \ {front[m]}, pr)

\* The threads that the walk of PKlock reaches from o: o, the owner of the
\* mutex that o waits for, and so on.
Chain(o) ==
    {u \in Threads :
        \A S \in SUBSET Threads :
            (/\ o \in S
             /\ \A v \in S : mutexWaiting[v] # NoMutex => owner[mutexWaiting[v]] \in S)
            => u \in S}

\* How the walk changes a priority: it sets that of the thread that locks.
WalkPriority(old, new) == new

\* Wrong: the walk without its make_heap.
NoHeaps(chain) == {}

\* Which heaps the walk makes again: one for each thread of the chain that
\* itself waits.
WalkHeaps(chain) == {mutexWaiting[u] : u \in chain} \ {NoMutex}

\* The priority of a thread that holds the mutexes in locked.
Inherited(saved, locked, pr) ==
    Highest({saved} \cup {pr[front[m]] : m \in {k \in locked : waiting[k] # {}}})

\* Wrong: a priority given back only with the last mutex.
GivenBackAtTheEnd(t, left) == IF left = {} THEN savedPriority[t] ELSE priority[t]

\* What a thread is left with when it keeps the mutexes in left.
GivenBack(t, left) ==
    IF left = {} THEN savedPriority[t] ELSE Inherited(savedPriority[t], left, priority)

\* Programs lock in increasing order, and a mutex they hold again only if it
\* is recursive; so no cycle of waiting threads is theirs.
MayLock(t, m) ==
    IF nested[t][m] > 0 THEN m \in Recursive /\ nested[t][m] <= MaxDepth
    ELSE \A k \in Mutexes : nested[t][k] > 0 => k < m

-----------------------------------------------------------------------------
TypeOK ==
    /\ owner \in [Mutexes -> Threads \cup {NoThread}]
    /\ waiting \in [Mutexes -> SUBSET Threads]
    /\ front \in [Mutexes -> Threads \cup {NoThread}]
    /\ recursiveDepth \in [Mutexes -> Nat \cup {-1}]
    /\ \A m \in Mutexes : m \in Recursive <=> recursiveDepth[m] >= 0
    /\ priority \in [Threads -> Priorities]
    /\ savedPriority \in [Threads -> Priorities]
    /\ mutexLocked \in [Threads -> SUBSET Mutexes]
    /\ mutexWaiting \in [Threads -> Mutexes \cup {NoMutex}]
    /\ wait \in [Threads -> BOOLEAN]
    /\ condWait \in [Threads -> BOOLEAN]
    /\ queue \in Seq(Threads)
    /\ at \in [Threads -> {"run", "lock", "cond", "relock"}]
    /\ this \in [Threads -> Mutexes \cup {NoMutex}]
    /\ depth \in [Threads -> Nat]
    /\ base \in [Threads -> Priorities]
    /\ nested \in [Threads -> [Mutexes -> Nat]]

Init ==
    /\ owner = [m \in Mutexes |-> NoThread]
    /\ waiting = [m \in Mutexes |-> {}]
    /\ front = [m \in Mutexes |-> NoThread]
    /\ recursiveDepth = [m \in Mutexes |-> IF m \in Recursive THEN 0 ELSE -1]
    /\ base \in [Threads -> Priorities]
    /\ priority = base
    /\ savedPriority = [t \in Threads |-> 0]
    /\ mutexLocked = [t \in Threads |-> {}]
    /\ mutexWaiting = [t \in Threads |-> NoMutex]
    /\ wait = [t \in Threads |-> FALSE]
    /\ condWait = [t \in Threads |-> FALSE]
    /\ queue = <<>>
    /\ at = [t \in Threads |-> "run"]
    /\ this = [t \in Threads |-> NoMutex]
    /\ depth = [t \in Threads |-> 0]
    /\ nested = [t \in Threads |-> [m \in Mutexes |-> 0]]

-----------------------------------------------------------------------------
(* What the calls have in common.                                          *)

\* A free mutex goes to the thread that asks.
Take(t, m) ==
    /\ owner[m] = NoThread
    /\ owner' = [owner EXCEPT ![m] = t]
    /\ savedPriority' = IF mutexLocked[t] = {}
                        THEN [savedPriority EXCEPT ![t] = priority[t]]
                        ELSE savedPriority
    /\ mutexLocked' = [mutexLocked EXCEPT ![t] = @ \cup {m}]
    /\ UNCHANGED <<waiting, front, priority, mutexWaiting, wait>>

\* A mutex that another thread holds: queue, lend the priority, wait.
Enqueue(t, m) ==
    LET raise  == priority[t] > priority[owner[m]]
        chain  == IF raise THEN Chain(owner[m]) ELSE {}
        again  == WalkHeaps(chain)
        pr     == [u \in Threads |-> IF u \in chain
                                     THEN WalkPriority(priority[u], priority[t])
                                     ELSE priority[u]]
        pushed == IF waiting[m] = {} \/ priority[t] > priority[front[m]]
                  THEN t ELSE front[m]
    IN  /\ owner[m] \notin {NoThread, t}
        /\ waiting' = [waiting EXCEPT ![m] = @ \cup {t}]
        /\ mutexWaiting' = [mutexWaiting EXCEPT ![t] = m]
        /\ priority' = pr
        /\ \E f \in [again -> Threads] :
              /\ \A k \in again : f[k] \in Fronts(waiting[k], pr)
              /\ front' = [k \in Mutexes |-> IF k \in again THEN f[k]
                                             ELSE IF k = m THEN pushed
                                             ELSE front[k]]
        /\ wait' = [wait EXCEPT ![t] = TRUE]
        /\ UNCHANGED <<owner, savedPriority, mutexLocked>>

\* The last unlock of a mutex: the thread gives back what it inherited
\* through it, and the mutex goes to the front of its heap.
Release(t, m) ==
    LET left  == mutexLocked[t] \ {m}
        given == [priority EXCEPT ![t] = GivenBack(t, left)]
        heir  == front[m]
    IN  /\ owner[m] = t
        /\ \/ /\ waiting[m] = {}
              /\ owner' = [owner EXCEPT ![m] = NoThread]
              /\ mutexLocked' = [mutexLocked EXCEPT ![t] = left]
              /\ priority' = given
              /\ UNCHANGED <<waiting, front, savedPriority, mutexWaiting, wait>>
           \/ /\ waiting[m] # {}
              /\ owner' = [owner EXCEPT ![m] = heir]
              /\ waiting' = [waiting EXCEPT ![m] = @ \ {heir}]
              /\ mutexWaiting' = [mutexWaiting EXCEPT ![heir] = NoMutex]
              /\ wait' = [wait EXCEPT ![heir] = FALSE]
              /\ savedPriority' = IF mutexLocked[heir] = {}
                                  THEN [savedPriority EXCEPT ![heir] = given[heir]]
                                  ELSE savedPriority
              /\ mutexLocked' = [mutexLocked EXCEPT ![t] = left, ![heir] = @ \cup {m}]
              /\ \E f \in AfterPop(m, given) :
                    /\ front' = [front EXCEPT ![m] = f]
                    /\ priority' = IF f # NoThread /\ given[f] > given[heir]
                                   THEN [given EXCEPT ![heir] = given[f]]
                                   ELSE given

\* Wrong: PKtryLock without its test for a recursive mutex.
DeeperAlways(t, m) ==
    /\ owner[m] = t
    /\ recursiveDepth' = [recursiveDepth EXCEPT ![m] = @ + 1]
    /\ UNCHANGED <<owner, waiting, front, threadVars>>

\* A recursive mutex that the thread holds already.
Deeper(t, m) ==
    /\ owner[m] = t
    /\ recursiveDepth[m] >= 0
    /\ recursiveDepth' = [recursiveDepth EXCEPT ![m] = @ + 1]
    /\ UNCHANGED <<owner, waiting, front, threadVars>>

\* Wrong: PKlockToDepth forgets the depth.
ForgetDepth(m, d) == UNCHANGED recursiveDepth

\* PKlockToDepth sets the depth of a recursive mutex.
SetDepth(m, d) ==
    recursiveDepth' = IF recursiveDepth[m] >= 0
                      THEN [recursiveDepth EXCEPT ![m] = d] ELSE recursiveDepth

Locked(t, m)   == nested' = [nested EXCEPT ![t][m] = @ + 1]
Unlocked(t, m) == nested' = [nested EXCEPT ![t][m] = @ - 1]

\* A call that has to wait, and one that returns.
Waits(t, place, m) == at' = [at EXCEPT ![t] = place] /\ this' = [this EXCEPT ![t] = m]
Returns(t)         == at' = [at EXCEPT ![t] = "run"] /\ this' = [this EXCEPT ![t] = NoMutex]

-----------------------------------------------------------------------------
(* Mutex.                                                                  *)

\* PKlock; locking a mutex that is held and not recursive reboots the board.
Lock(t, m) ==
    /\ Runs(t) /\ MayLock(t, m)
    /\ \/ /\ Take(t, m) /\ Locked(t, m)
          /\ UNCHANGED <<recursiveDepth, condWait, at, this>>
       \/ /\ Deeper(t, m) /\ Locked(t, m)
          /\ UNCHANGED <<at, this>>
       \/ /\ Enqueue(t, m) /\ Waits(t, "lock", m)
          /\ UNCHANGED <<recursiveDepth, condWait, nested>>
    /\ UNCHANGED <<queue, depth, base>>

\* PKtryLock, when it returns true.  It never waits, so any order will do.
TryLock(t, m) ==
    /\ Runs(t) /\ nested[t][m] <= MaxDepth
    /\ \/ Take(t, m) /\ UNCHANGED <<recursiveDepth, condWait>>
       \/ Deeper(t, m)
    /\ Locked(t, m)
    /\ UNCHANGED <<queue, callVars, base>>

\* PKunlock, by a thread that locked.
Unlock(t, m) ==
    /\ Runs(t) /\ nested[t][m] > 0
    /\ \/ /\ owner[m] = t /\ recursiveDepth[m] > 0
          /\ recursiveDepth' = [recursiveDepth EXCEPT ![m] = @ - 1]
          /\ UNCHANGED <<owner, waiting, front, threadVars>>
       \/ /\ recursiveDepth[m] <= 0
          /\ Release(t, m)
          /\ UNCHANGED <<recursiveDepth, condWait>>
    /\ Unlocked(t, m)
    /\ UNCHANGED <<queue, callVars, base>>

\* A thread in the loop of PKlock or PKlockToDepth is resumed: it has the
\* mutex, or the wakeup was somebody else's and it waits again.
Granted(t) ==
    /\ at[t] \in {"lock", "relock"} /\ Ready(t) /\ owner[this[t]] = t
    /\ IF at[t] = "lock" THEN Locked(t, this[t]) /\ UNCHANGED recursiveDepth
       ELSE SetDepth(this[t], depth[t]) /\ UNCHANGED nested
    /\ Returns(t)
    /\ UNCHANGED <<owner, waiting, front, threadVars, queue, depth, base>>

\* Wrong: the loop of PKlock an if.
ReturnAnyway(t) ==
    /\ at[t] \in {"lock", "relock"} /\ Ready(t) /\ owner[this[t]] # t
    /\ IF at[t] = "lock" THEN Locked(t, this[t]) ELSE UNCHANGED nested
    /\ Returns(t)
    /\ UNCHANGED <<mutexVars, threadVars, queue, depth, base>>

WaitAgain(t) ==
    /\ at[t] \in {"lock", "relock"} /\ Ready(t) /\ owner[this[t]] # t
    /\ wait' = [wait EXCEPT ![t] = TRUE]
    /\ UNCHANGED <<mutexVars, priority, savedPriority, mutexLocked, mutexWaiting,
                   condWait, queue, callVars, userVars>>

-----------------------------------------------------------------------------
(* ConditionVariable.                                                      *)

\* wait, up to the yield: at the end of the queue, and the mutex unlocked on
\* all levels.  By the order of locking no mutex above CondMutex is held.
CondWait(t) ==
    /\ Runs(t) /\ nested[t][CondMutex] > 0
    /\ \A k \in Mutexes : nested[t][k] > 0 => k <= CondMutex
    /\ queue' = Append(queue, t)
    /\ condWait' = [condWait EXCEPT ![t] = TRUE]
    /\ Release(t, CondMutex)
    /\ IF recursiveDepth[CondMutex] < 0
       THEN depth' = [depth EXCEPT ![t] = 0] /\ UNCHANGED recursiveDepth
       ELSE /\ depth' = [depth EXCEPT ![t] = recursiveDepth[CondMutex]]
            /\ recursiveDepth' = [recursiveDepth EXCEPT ![CondMutex] = 0]
    /\ Waits(t, "cond", CondMutex)
    /\ UNCHANGED userVars

\* The rest of wait: PKlockToDepth.
CondReturn(t) ==
    /\ at[t] = "cond" /\ Ready(t)
    /\ \/ /\ Take(t, this[t])
          /\ SetDepth(this[t], depth[t])
          /\ Returns(t)
       \/ /\ Enqueue(t, this[t])
          /\ Waits(t, "relock", this[t])
          /\ UNCHANGED recursiveDepth
    /\ UNCHANGED <<condWait, queue, depth, userVars>>

Signal(t) ==
    /\ Runs(t) /\ queue # <<>>
    /\ condWait' = [condWait EXCEPT ![Head(queue)] = FALSE]
    /\ queue' = Tail(queue)
    /\ UNCHANGED <<mutexVars, priority, savedPriority, mutexLocked, mutexWaiting,
                   wait, callVars, userVars>>

\* Wrong: the queue emptied, the first thread woken.
BroadcastWakesOne(t) ==
    /\ Runs(t) /\ queue # <<>>
    /\ condWait' = [condWait EXCEPT ![Head(queue)] = FALSE]
    /\ queue' = <<>>
    /\ UNCHANGED <<mutexVars, priority, savedPriority, mutexLocked, mutexWaiting,
                   wait, callVars, userVars>>

Broadcast(t) ==
    /\ Runs(t) /\ queue # <<>>
    /\ condWait' = [u \in Threads |-> condWait[u] /\ \A i \in DOMAIN queue : queue[i] # u]
    /\ queue' = <<>>
    /\ UNCHANGED <<mutexVars, priority, savedPriority, mutexLocked, mutexWaiting,
                   wait, callVars, userVars>>

-----------------------------------------------------------------------------
(* Thread.                                                                 *)

\* Thread::wakeup, which anybody may call on a thread that waits.
Wakeup(t) ==
    /\ wait[t]
    /\ wait' = [wait EXCEPT ![t] = FALSE]
    /\ UNCHANGED <<mutexVars, priority, savedPriority, mutexLocked, mutexWaiting,
                   condWait, queue, callVars, userVars>>

\* Thread::setPriority.
SetPriority(t, pr) ==
    /\ Runs(t) /\ pr # base[t]
    /\ base' = [base EXCEPT ![t] = pr]
    /\ IF mutexLocked[t] = {}
       THEN priority' = [priority EXCEPT ![t] = pr] /\ UNCHANGED savedPriority
       ELSE IF savedPriority[t] = pr THEN UNCHANGED <<priority, savedPriority>>
       ELSE /\ savedPriority' = [savedPriority EXCEPT ![t] = pr]
            /\ priority' = [priority EXCEPT ![t] = Inherited(pr, mutexLocked[t], priority)]
    /\ UNCHANGED <<mutexVars, mutexLocked, mutexWaiting, wait, condWait, queue,
                   callVars, nested>>

-----------------------------------------------------------------------------
Next ==
    \/ \E t \in Threads, m \in Mutexes : Lock(t, m) \/ TryLock(t, m) \/ Unlock(t, m)
    \/ \E t \in Threads :
          \/ Granted(t) \/ WaitAgain(t)
          \/ CondWait(t) \/ CondReturn(t) \/ Signal(t) \/ Broadcast(t)
          \/ Wakeup(t)
          \/ \E pr \in Priorities : SetPriority(t, pr)

Spec == Init /\ [][Next]_vars

-----------------------------------------------------------------------------
(* Properties.                                                             *)

\* The levels of a mutex whose depth is d.
DepthToLevels(m, d) == IF m \in Recursive THEN d + 1 ELSE 1

\* What the program may rely on: a thread that locked a mutex and is not in a
\* call that gives it away has it, on as many levels as it locked it.  wait
\* gives its mutex away and takes it back with all its levels.
HoldsInProgram(t, m) ==
    nested[t][m] > 0 /\ ~(at[t] \in {"cond", "relock"} /\ this[t] = m)

MutualExclusion ==
    \A t \in Threads, m \in Mutexes :
        HoldsInProgram(t, m) =>
            /\ owner[m] = t
            /\ m \in Recursive => recursiveDepth[m] = nested[t][m] - 1

\* No wakeup is lost: a thread that sleeps in a lock is in the heap of a
\* mutex that somebody holds and will hand over, and one that sleeps in wait
\* is in the queue of the condition variable.
NoLostWakeup ==
    \A t \in Threads :
        /\ wait[t] => /\ this[t] # NoMutex
                      /\ t \in waiting[this[t]]
                      /\ owner[this[t]] \notin {NoThread, t}
        /\ condWait[t] => \E i \in DOMAIN queue : queue[i] = t

\* Heaps stay heaps, whatever happens to the priorities of those in them: the
\* next owner of a mutex is a waiting thread of the highest priority.
HeapOrder ==
    \A m \in Mutexes : waiting[m] # {} =>
        /\ front[m] \in waiting[m]
        /\ \A t \in waiting[m] : priority[t] <= priority[front[m]]

\* A thread has no more than the priority it asked for, or that of a thread
\* that waits for one of its mutexes: what is lent is given back.
NothingKept ==
    \A t \in Threads :
        \/ priority[t] <= base[t]
        \/ \E m \in mutexLocked[t] : \E u \in waiting[m] : priority[t] <= priority[u]

\* sync.h says of the owner of a mutex that it "inherits the highest priority
\* among the threads that are waiting if it is higher than its original
\* priority".
OwnerInherits ==
    \A t \in Threads :
        /\ priority[t] >= base[t]
        /\ \A m \in mutexLocked[t] : \A u \in waiting[m] : priority[t] >= priority[u]

-----------------------------------------------------------------------------
\* Programs that use no condition variable.
LockNext ==
    \/ \E t \in Threads, m \in Mutexes : Lock(t, m) \/ Unlock(t, m)
    \/ \E t \in Threads : Granted(t) \/ \E pr \in Priorities : SetPriority(t, pr)

LockSpec == Init /\ [][LockNext]_vars

=============================================================================
