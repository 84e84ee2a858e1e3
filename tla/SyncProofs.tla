----------------------------- MODULE SyncProofs -----------------------------
(***************************************************************************)
(* Proofs about Sync, for all threads and mutexes.  The invariant has five *)
(* parts: types, what the waiting threads are waiting for (Queues, Sleeps),*)
(* how the program's count of its locks agrees with the kernel's (Counts), *)
(* the order in which threads lock (Ordered), and what is lent (Lending).  *)
(* At the end, every step of Sync is shown to be a step of the abstract    *)
(* Locks, or nothing that the program could tell.                          *)
(***************************************************************************)
EXTENDS SyncLocks, SequenceTheorems, WellFoundedInduction, TLAPS

InLoop == {"lock", "relock"}

\* A thread that waits is in the heap of the mutex its call is about, which
\* another thread holds, or has been given that mutex.
Queues ==
    /\ \A t \in Threads : at[t] = "run" <=> this[t] = NoMutex
    /\ \A t \in Threads, m \in Mutexes : t \in waiting[m] <=> mutexWaiting[t] = m
    /\ \A t \in Threads, m \in Mutexes :
          t \in waiting[m] => /\ at[t] \in InLoop /\ this[t] = m
                              /\ owner[m] \notin {NoThread, t}
    /\ \A t \in Threads :
          at[t] \in InLoop => t \in waiting[this[t]] \/ owner[this[t]] = t
    /\ \A m \in Mutexes : waiting[m] # {} => front[m] \in waiting[m]

\* A thread sleeps only where somebody will wake it.
Sleeps ==
    /\ \A t \in Threads : wait[t] => at[t] \in InLoop /\ t \in waiting[this[t]]
    /\ \A t \in Threads : condWait[t] =>
          at[t] = "cond" /\ \E i \in DOMAIN queue : queue[i] = t

\* The program's count of its locks is the kernel's, but for the mutex of a
\* call that has not returned.
Counts ==
    /\ \A t \in Threads, m \in Mutexes :
          nested[t][m] > 0 /\ this[t] # m =>
              owner[m] = t /\ nested[t][m] = DepthToLevels(m, recursiveDepth[m])
    /\ \A t \in Threads, m \in Mutexes :
          owner[m] = t => IF this[t] = m THEN at[t] \in InLoop ELSE nested[t][m] > 0
    /\ \A m \in Recursive :
          (owner[m] = NoThread \/ this[owner[m]] = m) => recursiveDepth[m] = 0
    /\ \A t \in Threads :
          /\ at[t] = "lock" => nested[t][this[t]] = 0
          /\ at[t] \in {"cond", "relock"} =>
                 nested[t][this[t]] = DepthToLevels(this[t], depth[t])

Inv == TypeOK /\ Queues /\ Sleeps /\ Counts

-----------------------------------------------------------------------------
(* Priorities.                                                             *)

\* A set of priorities has a highest one.
LEMMA HighestIn ==
    ASSUME NEW S, S \subseteq Priorities, S # {}
    PROVE  Highest(S) \in S
<1> DEFINE T == {PriorityMax - p : p \in S}
           R == {ss \in Nat \X Nat : ss[1] < ss[2]}
<1>1. IsWellFoundedOn(R, Nat)
  BY NatLessThanWellFounded DEF OpToRel
<1>2. \A p \in S : p \in Nat /\ PriorityMax - p \in Nat
  BY SyncAssumption DEF Priorities
<1>3. T \subseteq Nat /\ T # {}
  BY <1>2
<1>4. PICK x \in T : \A y \in T : ~(<<y, x>> \in R)
  <2> HIDE DEF T, R
  <2> QED BY <1>1, <1>3, WFMin
<1>5. PICK p \in S : x = PriorityMax - p
  OBVIOUS
<1>6. ASSUME NEW q \in S PROVE q <= p
  <2>1. PriorityMax - q \in T /\ PriorityMax - p \in T
    BY <1>5
  <2>2. ~(PriorityMax - q < PriorityMax - p)
    BY <1>3, <1>4, <1>5, <2>1
  <2>3. QED BY <1>2, <2>2, SyncAssumption
<1>7. QED BY <1>6 DEF Highest

\* What a thread inherits is a priority.
LEMMA InheritedType ==
    ASSUME TypeOK, Queues, NEW saved \in Priorities, NEW locked \in SUBSET Mutexes
    PROVE  Inherited(saved, locked, priority) \in Priorities
<1> DEFINE S == {saved} \cup {priority[front[m]] : m \in {k \in locked : waiting[k] # {}}}
<1>1. \A m \in locked : waiting[m] # {} => front[m] \in Threads
  BY DEF Queues, TypeOK
<1>2. S \subseteq Priorities
  BY <1>1 DEF TypeOK
<1>3. Highest(S) \in S
  <2> HIDE DEF S
  <2> S # {} BY DEF S
  <2> QED BY <1>2, HighestIn
<1>4. QED BY <1>2, <1>3 DEF Inherited

-----------------------------------------------------------------------------
(* Types.                                                                  *)

\* What Take, Enqueue and Release change.
BlockTyped ==
    /\ owner \in [Mutexes -> Threads \cup {NoThread}]
    /\ waiting \in [Mutexes -> SUBSET Threads]
    /\ front \in [Mutexes -> Threads \cup {NoThread}]
    /\ priority \in [Threads -> Priorities]
    /\ savedPriority \in [Threads -> Priorities]
    /\ mutexLocked \in [Threads -> SUBSET Mutexes]
    /\ mutexWaiting \in [Threads -> Mutexes \cup {NoMutex}]
    /\ wait \in [Threads -> BOOLEAN]

LEMMA TakeType ==
    ASSUME TypeOK, NEW t \in Threads, NEW m \in Mutexes, Take(t, m)
    PROVE  BlockTyped'
<1>1. priority[t] \in Priorities
  BY DEF TypeOK
<1>2. savedPriority' \in [Threads -> Priorities]
  BY <1>1 DEF TypeOK, Take
<1>3. mutexLocked' \in [Threads -> SUBSET Mutexes]
  BY DEF TypeOK, Take
<1>4. owner' \in [Mutexes -> Threads \cup {NoThread}]
  BY DEF TypeOK, Take
<1>5. QED BY <1>2, <1>3, <1>4 DEF TypeOK, Take, BlockTyped

LEMMA EnqueueType ==
    ASSUME TypeOK, NEW t \in Threads, NEW m \in Mutexes, Enqueue(t, m)
    PROVE  BlockTyped'
<1> DEFINE raise == priority[t] > priority[owner[m]]
           chain == IF raise THEN Chain(owner[m]) ELSE {}
           pr    == [u \in Threads |-> IF u \in chain
                                       THEN WalkPriority(priority[u], priority[t])
                                       ELSE priority[u]]
<1>1. priority' \in [Threads -> Priorities]
  <2>1. \A u \in Threads : priority[u] \in Priorities
    BY DEF TypeOK
  <2>2. priority' = pr
    BY DEF Enqueue
  <2>3. QED
    <3> HIDE DEF chain
    <3> QED BY <2>1, <2>2 DEF WalkPriority
<1>2. front' \in [Mutexes -> Threads \cup {NoThread}]
  <2> DEFINE again == WalkHeaps(chain)
             pushed == IF waiting[m] = {} \/ priority[t] > priority[front[m]]
                       THEN t ELSE front[m]
  <2>1. PICK f \in [again -> Threads] :
          front' = [k \in Mutexes |-> IF k \in again THEN f[k]
                                      ELSE IF k = m THEN pushed ELSE front[k]]
    BY DEF Enqueue
  <2>2. pushed \in Threads \cup {NoThread}
    BY DEF TypeOK
  <2>3. \A k \in Mutexes : front[k] \in Threads \cup {NoThread}
    BY DEF TypeOK
  <2> HIDE DEF again, pushed
  <2>4. QED BY <2>1, <2>2, <2>3
<1>3. waiting' \in [Mutexes -> SUBSET Threads]
  BY DEF TypeOK, Enqueue
<1>4. mutexWaiting' \in [Threads -> Mutexes \cup {NoMutex}]
  BY DEF TypeOK, Enqueue
<1>5. wait' \in [Threads -> BOOLEAN]
  BY DEF TypeOK, Enqueue
<1>6. QED BY <1>1, <1>2, <1>3, <1>4, <1>5 DEF TypeOK, Enqueue, BlockTyped

\* What a thread is left with is a priority.
LEMMA GivenBackType ==
    ASSUME TypeOK, Queues, NEW t \in Threads, NEW left \in SUBSET Mutexes
    PROVE  [priority EXCEPT ![t] = GivenBack(t, left)] \in [Threads -> Priorities]
<1>1. savedPriority[t] \in Priorities
  BY DEF TypeOK
<1>2. Inherited(savedPriority[t], left, priority) \in Priorities
  BY <1>1, InheritedType
<1>3. GivenBack(t, left) \in Priorities
  BY <1>1, <1>2 DEF GivenBack
<1>4. QED BY <1>3 DEF TypeOK

LEMMA ReleaseType ==
    ASSUME TypeOK, Queues, NEW t \in Threads, NEW m \in Mutexes, Release(t, m)
    PROVE  BlockTyped'
<1> DEFINE left  == mutexLocked[t] \ {m}
           given == [priority EXCEPT ![t] = GivenBack(t, left)]
           heir  == front[m]
<1>1. given \in [Threads -> Priorities]
  <2>1. left \in SUBSET Mutexes
    BY DEF TypeOK
  <2>2. QED BY <2>1, GivenBackType
<1>2. CASE waiting[m] = {}
  <2>1. /\ owner' = [owner EXCEPT ![m] = NoThread]
        /\ mutexLocked' = [mutexLocked EXCEPT ![t] = left]
        /\ priority' = given
        /\ UNCHANGED <<waiting, front, savedPriority, mutexWaiting, wait>>
    BY <1>2 DEF Release
  <2>2. mutexLocked' \in [Threads -> SUBSET Mutexes]
    BY <2>1 DEF TypeOK
  <2>3. owner' \in [Mutexes -> Threads \cup {NoThread}]
    BY <2>1 DEF TypeOK
  <2> HIDE DEF given
  <2>4. QED BY <1>1, <2>1, <2>2, <2>3 DEF TypeOK, BlockTyped
<1>3. CASE waiting[m] # {}
  <2>1. /\ owner' = [owner EXCEPT ![m] = heir]
        /\ waiting' = [waiting EXCEPT ![m] = @ \ {heir}]
        /\ mutexWaiting' = [mutexWaiting EXCEPT ![heir] = NoMutex]
        /\ wait' = [wait EXCEPT ![heir] = FALSE]
        /\ savedPriority' = IF mutexLocked[heir] = {}
                            THEN [savedPriority EXCEPT ![heir] = given[heir]]
                            ELSE savedPriority
        /\ mutexLocked' = [mutexLocked EXCEPT ![t] = left, ![heir] = @ \cup {m}]
    BY <1>3 DEF Release
  <2>2. PICK f \in AfterPop(m, given) :
          /\ front' = [front EXCEPT ![m] = f]
          /\ priority' = IF f # NoThread /\ given[f] > given[heir]
                         THEN [given EXCEPT ![heir] = given[f]]
                         ELSE given
    BY <1>3 DEF Release
  <2>3. heir \in waiting[m] /\ heir \in Threads
    BY <1>3 DEF Queues, TypeOK
  <2>4. f \in Threads \cup {NoThread}
    BY <2>2 DEF AfterPop, Fronts, TypeOK
  <2>5. owner' \in [Mutexes -> Threads \cup {NoThread}]
    BY <2>1, <2>3 DEF TypeOK
  <2>6. waiting' \in [Mutexes -> SUBSET Threads]
    BY <2>1, <2>3 DEF TypeOK
  <2>7. front' \in [Mutexes -> Threads \cup {NoThread}]
    BY <2>2, <2>4 DEF TypeOK
  <2>8. mutexWaiting' \in [Threads -> Mutexes \cup {NoMutex}]
    BY <2>1 DEF TypeOK
  <2>9. wait' \in [Threads -> BOOLEAN]
    BY <2>1 DEF TypeOK
  <2>10. mutexLocked' \in [Threads -> SUBSET Mutexes]
    BY <2>1, <2>3 DEF TypeOK
  <2> HIDE DEF given
  <2>11. priority' \in [Threads -> Priorities]
    BY <1>1, <2>2, <2>3, <2>4
  <2>12. savedPriority' \in [Threads -> Priorities]
    BY <1>1, <2>1, <2>3 DEF TypeOK
  <2>13. QED
    BY <2>5, <2>6, <2>7, <2>8, <2>9, <2>10, <2>11, <2>12 DEF BlockTyped
<1>4. QED BY <1>2, <1>3

\* What the calls change besides.
RestTyped ==
    /\ recursiveDepth \in [Mutexes -> Nat \cup {-1}]
    /\ \A m \in Mutexes : m \in Recursive <=> recursiveDepth[m] >= 0
    /\ condWait \in [Threads -> BOOLEAN]
    /\ queue \in Seq(Threads)
    /\ at \in [Threads -> {"run", "lock", "cond", "relock"}]
    /\ this \in [Threads -> Mutexes \cup {NoMutex}]
    /\ depth \in [Threads -> Nat]
    /\ base \in [Threads -> Priorities]
    /\ nested \in [Threads -> [Mutexes -> Nat]]

LEMMA TypeParts == TypeOK <=> BlockTyped /\ RestTyped
BY DEF TypeOK, BlockTyped, RestTyped

LEMMA NestedType ==
    ASSUME TypeOK, NEW t \in Threads, NEW m \in Mutexes
    PROVE  /\ Locked(t, m) => nested' \in [Threads -> [Mutexes -> Nat]]
           /\ Unlocked(t, m) /\ nested[t][m] > 0 => nested' \in [Threads -> [Mutexes -> Nat]]
<1>1. nested \in [Threads -> [Mutexes -> Nat]] /\ nested[t] \in [Mutexes -> Nat]
  BY DEF TypeOK
<1>2. nested[t][m] \in Nat
  BY <1>1
<1>3. \A n \in Nat : [nested EXCEPT ![t][m] = n] \in [Threads -> [Mutexes -> Nat]]
  BY <1>1
<1>4. QED BY <1>2, <1>3 DEF Locked, Unlocked

LEMMA DepthType ==
    ASSUME TypeOK, NEW m \in Mutexes, NEW d \in Nat
    PROVE  SetDepth(m, d) =>
              /\ recursiveDepth' \in [Mutexes -> Nat \cup {-1}]
              /\ \A k \in Mutexes : k \in Recursive <=> recursiveDepth'[k] >= 0
BY DEF TypeOK, SetDepth

LEMMA DeeperType ==
    ASSUME TypeOK, NEW t \in Threads, NEW m \in Mutexes, Deeper(t, m)
    PROVE  /\ BlockTyped' /\ UNCHANGED condWait
           /\ recursiveDepth' \in [Mutexes -> Nat \cup {-1}]
           /\ \A k \in Mutexes : k \in Recursive <=> recursiveDepth'[k] >= 0
<1>1. BlockTyped'
  BY DEF TypeOK, BlockTyped, Deeper, threadVars
<1>2. recursiveDepth[m] + 1 \in Nat
  <2>1. recursiveDepth[m] \in Nat \cup {-1} /\ recursiveDepth[m] >= 0
    BY DEF TypeOK, Deeper
  <2>2. QED BY <2>1
<1>3. QED BY <1>1, <1>2 DEF TypeOK, Deeper, threadVars

LEMMA WaitsType ==
    ASSUME TypeOK, NEW t \in Threads, NEW m \in Mutexes,
           NEW place \in {"lock", "cond", "relock"}, Waits(t, place, m)
    PROVE  /\ at' \in [Threads -> {"run", "lock", "cond", "relock"}]
           /\ this' \in [Threads -> Mutexes \cup {NoMutex}]
BY DEF TypeOK, Waits

LEMMA ReturnsType ==
    ASSUME TypeOK, NEW t \in Threads, Returns(t)
    PROVE  /\ at' \in [Threads -> {"run", "lock", "cond", "relock"}]
           /\ this' \in [Threads -> Mutexes \cup {NoMutex}]
BY DEF TypeOK, Returns

\* In a call that waits, this is a mutex.
LEMMA ThisType ==
    ASSUME TypeOK, Queues, NEW t \in Threads, at[t] # "run"
    PROVE  this[t] \in Mutexes
BY DEF TypeOK, Queues

LEMMA TypeStep == TypeOK /\ Queues /\ [Next]_vars => TypeOK'
<1> SUFFICES ASSUME TypeOK, Queues, [Next]_vars PROVE BlockTyped' /\ RestTyped'
  BY DEF TypeOK, BlockTyped, RestTyped
<1>0. BlockTyped /\ RestTyped
  BY TypeParts
<1>1. ASSUME NEW t \in Threads, NEW m \in Mutexes, Lock(t, m)
      PROVE  BlockTyped' /\ RestTyped'
  <2>1. CASE /\ Take(t, m) /\ Locked(t, m)
             /\ UNCHANGED <<recursiveDepth, condWait, at, this>>
    BY <1>0, <1>1, <2>1, TakeType, NestedType DEF Lock, RestTyped
  <2>2. CASE Deeper(t, m) /\ Locked(t, m) /\ UNCHANGED <<at, this>>
    BY <1>0, <1>1, <2>2, DeeperType, NestedType DEF Lock, RestTyped
  <2>3. CASE /\ Enqueue(t, m) /\ Waits(t, "lock", m)
             /\ UNCHANGED <<recursiveDepth, condWait, nested>>
    BY <1>0, <1>1, <2>3, EnqueueType, WaitsType DEF Lock, RestTyped
  <2>4. QED BY <1>1, <2>1, <2>2, <2>3 DEF Lock
<1>2. ASSUME NEW t \in Threads, NEW m \in Mutexes, TryLock(t, m)
      PROVE  BlockTyped' /\ RestTyped'
  <2>1. CASE Take(t, m) /\ UNCHANGED <<recursiveDepth, condWait>>
    BY <1>0, <1>2, <2>1, TakeType, NestedType DEF TryLock, RestTyped, callVars
  <2>2. CASE Deeper(t, m)
    BY <1>0, <1>2, <2>2, DeeperType, NestedType DEF TryLock, RestTyped, callVars
  <2>3. QED BY <1>2, <2>1, <2>2 DEF TryLock
<1>3. ASSUME NEW t \in Threads, NEW m \in Mutexes, Unlock(t, m)
      PROVE  BlockTyped' /\ RestTyped'
  <2>0. nested' \in [Threads -> [Mutexes -> Nat]]
    BY <1>3, NestedType DEF Unlock
  <2>1. CASE /\ owner[m] = t /\ recursiveDepth[m] > 0
             /\ recursiveDepth' = [recursiveDepth EXCEPT ![m] = @ - 1]
             /\ UNCHANGED <<owner, waiting, front, threadVars>>
    <3>1. BlockTyped' /\ UNCHANGED condWait
      BY <1>0, <2>1 DEF BlockTyped, threadVars
    <3>2. recursiveDepth[m] - 1 \in Nat
      <4>1. recursiveDepth[m] \in Nat \cup {-1}
        BY <1>0 DEF RestTyped
      <4>2. QED BY <2>1, <4>1
    <3>3. QED
      BY <1>0, <1>3, <2>0, <2>1, <3>1, <3>2 DEF Unlock, RestTyped, callVars
  <2>2. CASE recursiveDepth[m] <= 0 /\ Release(t, m) /\ UNCHANGED <<recursiveDepth, condWait>>
    BY <1>0, <1>3, <2>0, <2>2, ReleaseType DEF Unlock, RestTyped, callVars
  <2>3. QED BY <1>3, <2>1, <2>2 DEF Unlock
<1>4. ASSUME NEW t \in Threads, Granted(t) PROVE BlockTyped' /\ RestTyped'
  <2>1. this[t] \in Mutexes
    BY <1>4, ThisType DEF Granted
  <2>2. depth[t] \in Nat
    BY DEF TypeOK
  <2>3. BlockTyped' /\ UNCHANGED condWait
    BY <1>0, <1>4 DEF Granted, BlockTyped, threadVars
  <2>4. CASE at[t] = "lock"
    BY <1>0, <1>4, <2>1, <2>3, <2>4, NestedType, ReturnsType DEF Granted, RestTyped
  <2>5. CASE at[t] # "lock"
    BY <1>0, <1>4, <2>1, <2>2, <2>3, <2>5, DepthType, ReturnsType DEF Granted, RestTyped
  <2>6. QED BY <2>4, <2>5
<1>5. ASSUME NEW t \in Threads, WaitAgain(t) PROVE BlockTyped' /\ RestTyped'
  BY <1>0, <1>5 DEF WaitAgain, BlockTyped, RestTyped, mutexVars, callVars, userVars
<1>6. ASSUME NEW t \in Threads, CondWait(t) PROVE BlockTyped' /\ RestTyped'
  <2>1. CondMutex \in Mutexes
    BY SyncAssumption
  <2>2. BlockTyped'
    BY <1>6, <2>1, ReleaseType DEF CondWait
  <2>3. queue' \in Seq(Threads) /\ condWait' \in [Threads -> BOOLEAN]
    BY <1>0, <1>6 DEF CondWait, RestTyped
  <2>4. /\ recursiveDepth' \in [Mutexes -> Nat \cup {-1}]
        /\ \A k \in Mutexes : k \in Recursive <=> recursiveDepth'[k] >= 0
        /\ depth' \in [Threads -> Nat]
    <3>1. /\ recursiveDepth \in [Mutexes -> Nat \cup {-1}]
          /\ \A k \in Mutexes : k \in Recursive <=> recursiveDepth[k] >= 0
          /\ depth \in [Threads -> Nat]
      BY DEF TypeOK
    <3>2. IF recursiveDepth[CondMutex] < 0
          THEN depth' = [depth EXCEPT ![t] = 0] /\ UNCHANGED recursiveDepth
          ELSE /\ depth' = [depth EXCEPT ![t] = recursiveDepth[CondMutex]]
               /\ recursiveDepth' = [recursiveDepth EXCEPT ![CondMutex] = 0]
      BY <1>6 DEF CondWait
    <3>3. recursiveDepth[CondMutex] \in Nat \/ recursiveDepth[CondMutex] = -1
      BY <2>1, <3>1
    <3>4. QED BY <2>1, <3>1, <3>2, <3>3
  <2>5. QED
    BY <1>0, <1>6, <2>1, <2>2, <2>3, <2>4, WaitsType DEF CondWait, RestTyped, userVars
<1>7. ASSUME NEW t \in Threads, CondReturn(t) PROVE BlockTyped' /\ RestTyped'
  <2>1. this[t] \in Mutexes /\ depth[t] \in Nat
    BY <1>7, ThisType DEF CondReturn, TypeOK
  <2>2. CASE Take(t, this[t]) /\ SetDepth(this[t], depth[t]) /\ Returns(t)
    BY <1>0, <1>7, <2>1, <2>2, TakeType, DepthType, ReturnsType
       DEF CondReturn, RestTyped, userVars
  <2>3. CASE /\ Enqueue(t, this[t]) /\ Waits(t, "relock", this[t])
             /\ UNCHANGED recursiveDepth
    BY <1>0, <1>7, <2>1, <2>3, EnqueueType, WaitsType DEF CondReturn, RestTyped, userVars
  <2>4. QED BY <1>7, <2>2, <2>3 DEF CondReturn
<1>8. ASSUME NEW t \in Threads, Signal(t) \/ Broadcast(t) PROVE BlockTyped' /\ RestTyped'
  <2>1. BlockTyped'
    BY <1>0, <1>8 DEF Signal, Broadcast, BlockTyped, mutexVars
  <2>2. queue' \in Seq(Threads)
    <3>1. queue \in Seq(Threads) /\ queue # <<>>
      BY <1>0, <1>8 DEF Signal, Broadcast, RestTyped
    <3>2. queue' = Tail(queue) \/ queue' = <<>>
      BY <1>8 DEF Signal, Broadcast
    <3>3. Tail(queue) \in Seq(Threads) /\ <<>> \in Seq(Threads)
      BY <3>1, HeadTailProperties
    <3>4. QED BY <3>2, <3>3
  <2>3. condWait' \in [Threads -> BOOLEAN]
    BY <1>0, <1>8 DEF Signal, Broadcast, RestTyped
  <2>4. QED
    BY <1>0, <1>8, <2>1, <2>2, <2>3
       DEF Signal, Broadcast, RestTyped, mutexVars, callVars, userVars
<1>9. ASSUME NEW t \in Threads, Wakeup(t) PROVE BlockTyped' /\ RestTyped'
  BY <1>0, <1>9 DEF Wakeup, BlockTyped, RestTyped, mutexVars, callVars, userVars
<1>10. ASSUME NEW t \in Threads, NEW pr \in Priorities, SetPriority(t, pr)
       PROVE  BlockTyped' /\ RestTyped'
  <2>1. mutexLocked[t] \in SUBSET Mutexes
    BY <1>0 DEF BlockTyped
  <2>2. Inherited(pr, mutexLocked[t], priority) \in Priorities
    BY <2>1, InheritedType
  <2>3. priority' \in [Threads -> Priorities] /\ savedPriority' \in [Threads -> Priorities]
    BY <1>0, <1>10, <2>2 DEF SetPriority, BlockTyped
  <2>4. QED
    BY <1>0, <1>10, <2>3
       DEF SetPriority, BlockTyped, RestTyped, mutexVars, callVars
<1>11. CASE UNCHANGED vars
  BY <1>0, <1>11
     DEF vars, mutexVars, threadVars, callVars, userVars, BlockTyped, RestTyped
<1>12. QED
  BY <1>1, <1>2, <1>3, <1>4, <1>5, <1>6, <1>7, <1>8, <1>9, <1>10, <1>11 DEF Next

-----------------------------------------------------------------------------
(* Queues.                                                                 *)

\* The types that Queues needs.
QueuesTyped ==
    /\ owner \in [Mutexes -> Threads \cup {NoThread}]
    /\ waiting \in [Mutexes -> SUBSET Threads]
    /\ front \in [Mutexes -> Threads \cup {NoThread}]
    /\ mutexWaiting \in [Threads -> Mutexes \cup {NoMutex}]
    /\ at \in [Threads -> {"run", "lock", "cond", "relock"}]
    /\ this \in [Threads -> Mutexes \cup {NoMutex}]

\* A thread gets a free mutex at once: by Lock, by TryLock, or back from wait.
LEMMA TakeQueues ==
    ASSUME QueuesTyped, Queues, NEW t \in Threads, NEW m \in Mutexes, Take(t, m),
           at[t] \in {"run", "cond"},
           Returns(t) \/ UNCHANGED <<at, this>>
    PROVE  Queues'
<1>1. waiting[m] = {}
  BY DEF Queues, QueuesTyped, Take
<1>2. NoMutex \notin Mutexes /\ NoThread \notin Threads
  BY SyncAssumption
<1>3. \A u \in Threads : at'[u] = "run" <=> this'[u] = NoMutex
  BY DEF Queues, QueuesTyped, Returns
<1>4. \A u \in Threads : at'[u] # at[u] => u = t
  BY DEF QueuesTyped, Returns
<1>5. \A u \in Threads, k \in Mutexes : u \in waiting[k] =>
          /\ at'[u] \in InLoop /\ this'[u] = k /\ owner'[k] \notin {NoThread, u}
  BY <1>1, <1>2 DEF Queues, QueuesTyped, Returns, Take, InLoop
<1>6. \A u \in Threads :
          at'[u] \in InLoop => u \in waiting[this'[u]] \/ owner'[this'[u]] = u
  BY <1>1, <1>2 DEF Queues, QueuesTyped, Returns, Take, InLoop
<1>7. QED BY <1>3, <1>5, <1>6 DEF Queues, Take

\* A thread queues: in Lock, or at the end of wait.
LEMMA EnqueueQueues ==
    ASSUME QueuesTyped, Queues, NEW t \in Threads, NEW m \in Mutexes, Enqueue(t, m),
           at[t] \in {"run", "cond"}, NEW place \in InLoop, Waits(t, place, m)
    PROVE  Queues'
<1>1. NoMutex \notin Mutexes /\ NoThread \notin Threads
  BY SyncAssumption
<1>2. /\ waiting' = [waiting EXCEPT ![m] = @ \cup {t}]
      /\ mutexWaiting' = [mutexWaiting EXCEPT ![t] = m]
      /\ owner' = owner /\ owner[m] \notin {NoThread, t}
      /\ at' = [at EXCEPT ![t] = place] /\ this' = [this EXCEPT ![t] = m]
  BY DEF Enqueue, Waits
<1>3. \A k \in Mutexes : t \notin waiting[k]
  BY DEF Queues, InLoop
<1>4. \A u \in Threads : at'[u] = "run" <=> this'[u] = NoMutex
  BY <1>1, <1>2 DEF Queues, QueuesTyped, InLoop
<1>5. \A u \in Threads, k \in Mutexes : u \in waiting'[k] <=> mutexWaiting'[u] = k
  BY <1>2, <1>3 DEF Queues, QueuesTyped
<1>6. \A u \in Threads, k \in Mutexes : u \in waiting'[k] =>
          /\ at'[u] \in InLoop /\ this'[u] = k /\ owner'[k] \notin {NoThread, u}
  BY <1>2, <1>3 DEF Queues, QueuesTyped
<1>7. \A u \in Threads :
          at'[u] \in InLoop => u \in waiting'[this'[u]] \/ owner'[this'[u]] = u
  BY <1>2 DEF Queues, QueuesTyped
<1>8. \A k \in Mutexes : waiting'[k] # {} => front'[k] \in waiting'[k]
  <2> DEFINE chain == IF priority[t] > priority[owner[m]] THEN Chain(owner[m]) ELSE {}
             again == WalkHeaps(chain)
             pushed == IF waiting[m] = {} \/ priority[t] > priority[front[m]]
                       THEN t ELSE front[m]
  <2>1. PICK f \in [again -> Threads] :
          /\ \A k \in again : f[k] \in Fronts(waiting[k], priority')
          /\ front' = [k \in Mutexes |-> IF k \in again THEN f[k]
                                         ELSE IF k = m THEN pushed ELSE front[k]]
    BY DEF Enqueue
  <2>2. \A k \in again : waiting[k] # {}
    BY DEF WalkHeaps, Queues, QueuesTyped, Chain
  <2>3. \A k \in again : f[k] \in waiting[k]
    BY <2>1, <2>2 DEF Fronts
  <2>4. pushed \in waiting'[m]
    BY <1>2 DEF Queues, QueuesTyped
  <2> HIDE DEF again, pushed
  <2>5. QED BY <1>2, <2>1, <2>3, <2>4 DEF Queues, QueuesTyped
<1>9. QED BY <1>4, <1>5, <1>6, <1>7, <1>8 DEF Queues

\* A mutex is given away: by Unlock, or at the start of wait.
LEMMA ReleaseQueues ==
    ASSUME QueuesTyped, Queues, NEW t \in Threads, NEW m \in Mutexes, Release(t, m),
           at[t] = "run", Waits(t, "cond", m) \/ UNCHANGED <<at, this>>
    PROVE  Queues'
<1>1. NoMutex \notin Mutexes /\ NoThread \notin Threads
  BY SyncAssumption
<1>2. \A u \in Threads : at'[u] = "run" <=> this'[u] = NoMutex
  BY <1>1 DEF Queues, QueuesTyped, Waits
<1>3. \A u \in Threads \ {t} : at'[u] = at[u] /\ this'[u] = this[u]
  BY DEF QueuesTyped, Waits
<1>4. at'[t] \notin InLoop /\ at[t] \notin InLoop
  BY DEF QueuesTyped, Waits, InLoop
<1>5. owner[m] = t
  BY DEF Release
<1>6. CASE waiting[m] = {}
  <2>1. owner' = [owner EXCEPT ![m] = NoThread] /\ UNCHANGED <<waiting, front, mutexWaiting>>
    BY <1>6 DEF Release
  <2>2. \A u \in Threads, k \in Mutexes : u \in waiting'[k] =>
            /\ at'[u] \in InLoop /\ this'[u] = k /\ owner'[k] \notin {NoThread, u}
    BY <1>3, <1>4, <1>6, <2>1 DEF Queues, QueuesTyped
  <2>3. \A u \in Threads :
            at'[u] \in InLoop => u \in waiting'[this'[u]] \/ owner'[this'[u]] = u
    BY <1>3, <1>4, <1>5, <2>1 DEF Queues, QueuesTyped
  <2>4. QED BY <1>2, <2>1, <2>2, <2>3 DEF Queues
<1>7. CASE waiting[m] # {}
  <2> DEFINE heir == front[m]
             rest == waiting[m] \ {heir}
  <2>1. /\ owner' = [owner EXCEPT ![m] = heir]
        /\ waiting' = [waiting EXCEPT ![m] = rest]
        /\ mutexWaiting' = [mutexWaiting EXCEPT ![heir] = NoMutex]
    BY <1>7 DEF Release
  <2>2. \E f : f \in (IF rest = {} THEN {NoThread} ELSE rest) /\ front' = [front EXCEPT ![m] = f]
    BY <1>7 DEF Release, AfterPop, Fronts
  <2>3. heir \in Threads /\ heir \in waiting[m] /\ heir # t /\ this[heir] = m
    BY <1>1, <1>4, <1>5, <1>7 DEF Queues, QueuesTyped
  <2> HIDE DEF heir
  <2>4. \A u \in Threads, k \in Mutexes : u \in waiting'[k] <=> mutexWaiting'[u] = k
    BY <1>1, <2>1, <2>3 DEF Queues, QueuesTyped
  <2>5. \A u \in Threads, k \in Mutexes : u \in waiting'[k] =>
            /\ at'[u] \in InLoop /\ this'[u] = k /\ owner'[k] \notin {NoThread, u}
    BY <1>1, <1>3, <1>4, <2>1, <2>3 DEF Queues, QueuesTyped
  <2>6. \A u \in Threads :
            at'[u] \in InLoop => u \in waiting'[this'[u]] \/ owner'[this'[u]] = u
    BY <1>3, <1>4, <1>5, <2>1, <2>3 DEF Queues, QueuesTyped
  <2>7. \A k \in Mutexes : waiting'[k] # {} => front'[k] \in waiting'[k]
    BY <2>1, <2>2 DEF Queues, QueuesTyped
  <2>8. QED BY <1>2, <2>4, <2>5, <2>6, <2>7 DEF Queues
<1>8. QED BY <1>6, <1>7

LEMMA QueuesStep == TypeOK /\ Queues /\ [Next]_vars => Queues'
<1> SUFFICES ASSUME TypeOK, Queues, [Next]_vars PROVE Queues'
  OBVIOUS
<1>0. QueuesTyped
  BY DEF TypeOK, QueuesTyped
<1>1. ASSUME UNCHANGED <<owner, waiting, front, mutexWaiting, at, this>> PROVE Queues'
  BY <1>1 DEF Queues
<1>2. ASSUME NEW t \in Threads, NEW m \in Mutexes, Lock(t, m) PROVE Queues'
  <2>1. at[t] = "run"
    BY <1>2 DEF Lock, Runs
  <2>2. CASE Take(t, m) /\ UNCHANGED <<at, this>>
    BY <1>0, <2>1, <2>2, TakeQueues
  <2>3. CASE Deeper(t, m) /\ UNCHANGED <<at, this>>
    BY <1>1, <2>3 DEF Deeper, threadVars
  <2>4. CASE Enqueue(t, m) /\ Waits(t, "lock", m)
    BY <1>0, <2>1, <2>4, EnqueueQueues DEF InLoop
  <2>5. QED BY <1>2, <2>2, <2>3, <2>4 DEF Lock
<1>3. ASSUME NEW t \in Threads, NEW m \in Mutexes, TryLock(t, m) PROVE Queues'
  <2>1. at[t] = "run" /\ UNCHANGED <<at, this>>
    BY <1>3 DEF TryLock, Runs, callVars
  <2>2. CASE Take(t, m)
    BY <1>0, <2>1, <2>2, TakeQueues
  <2>3. CASE Deeper(t, m)
    BY <1>1, <2>1, <2>3 DEF Deeper, threadVars
  <2>4. QED BY <1>3, <2>2, <2>3 DEF TryLock
<1>4. ASSUME NEW t \in Threads, NEW m \in Mutexes, Unlock(t, m) PROVE Queues'
  <2>1. at[t] = "run" /\ UNCHANGED <<at, this>>
    BY <1>4 DEF Unlock, Runs, callVars
  <2>2. CASE UNCHANGED <<owner, waiting, front, threadVars>>
    BY <1>1, <2>1, <2>2 DEF threadVars
  <2>3. CASE Release(t, m)
    BY <1>0, <2>1, <2>3, ReleaseQueues
  <2>4. QED BY <1>4, <2>2, <2>3 DEF Unlock
<1>5. ASSUME NEW t \in Threads, Granted(t) PROVE Queues'
  <2>1. /\ at[t] \in InLoop /\ owner[this[t]] = t /\ Returns(t)
        /\ UNCHANGED <<owner, waiting, front, mutexWaiting>>
    BY <1>5 DEF Granted, InLoop, threadVars
  <2>2. \A u \in Threads \ {t} : at'[u] = at[u] /\ this'[u] = this[u]
    BY <1>0, <2>1 DEF QueuesTyped, Returns
  <2>3. at'[t] = "run" /\ this'[t] = NoMutex
    BY <1>0, <2>1 DEF QueuesTyped, Returns
  <2>4. \A k \in Mutexes : t \notin waiting[k]
    BY <2>1 DEF Queues
  <2>5. QED BY <2>1, <2>2, <2>3, <2>4 DEF Queues, InLoop
<1>6. ASSUME NEW t \in Threads, CondWait(t) PROVE Queues'
  BY <1>0, <1>6, ReleaseQueues, SyncAssumption DEF CondWait, Runs
<1>7. ASSUME NEW t \in Threads, CondReturn(t) PROVE Queues'
  <2>1. at[t] = "cond" /\ this[t] \in Mutexes
    BY <1>7, ThisType DEF CondReturn
  <2>2. CASE Take(t, this[t]) /\ Returns(t)
    BY <1>0, <2>1, <2>2, TakeQueues
  <2>3. CASE Enqueue(t, this[t]) /\ Waits(t, "relock", this[t])
    BY <1>0, <2>1, <2>3, EnqueueQueues DEF InLoop
  <2>4. QED BY <1>7, <2>2, <2>3 DEF CondReturn
<1>8. ASSUME NEW t \in Threads,
             \/ WaitAgain(t) \/ Signal(t) \/ Broadcast(t) \/ Wakeup(t)
             \/ \E pr \in Priorities : SetPriority(t, pr)
      PROVE  Queues'
  BY <1>1, <1>8
     DEF WaitAgain, Signal, Broadcast, Wakeup, SetPriority, mutexVars, callVars
<1>9. CASE UNCHANGED vars
  BY <1>1, <1>9 DEF vars, mutexVars, threadVars, callVars
<1>10. QED
  BY <1>2, <1>3, <1>4, <1>5, <1>6, <1>7, <1>8, <1>9 DEF Next

-----------------------------------------------------------------------------
(* Sleeping.                                                               *)

LEMMA SleepsStep == TypeOK /\ Queues /\ Sleeps /\ [Next]_vars => Sleeps'
<1> SUFFICES ASSUME TypeOK, Queues, Sleeps, [Next]_vars PROVE Sleeps'
  OBVIOUS
<1> DEFINE Asleep(t) == wait[t] => at[t] \in InLoop /\ t \in waiting[this[t]]
           InQueue(t) == condWait[t] =>
                            at[t] = "cond" /\ \E i \in DOMAIN queue : queue[i] = t
<1>0. \A t \in Threads : Asleep(t) /\ InQueue(t)
  BY DEF Sleeps
<1>1. \A t \in Threads : Runs(t) => ~wait[t] /\ ~condWait[t] /\ at[t] = "run"
  BY DEF Runs, Ready
<1>2. ASSUME NEW t \in Threads, NEW m \in Mutexes, Lock(t, m) PROVE Sleeps'
  <2>1. UNCHANGED <<condWait, queue>> /\ ~wait[t] /\ ~condWait[t]
    BY <1>1, <1>2 DEF Lock, Deeper, threadVars
  <2>2. CASE UNCHANGED <<wait, waiting, at, this>>
    BY <1>0, <2>1, <2>2 DEF Sleeps
  <2>3. CASE Enqueue(t, m) /\ Waits(t, "lock", m)
    BY <1>0, <2>1, <2>3 DEF Sleeps, Enqueue, Waits, TypeOK, InLoop
  <2>4. QED BY <1>2, <2>2, <2>3 DEF Lock, Take, Deeper, threadVars
<1>3. ASSUME NEW t \in Threads, NEW m \in Mutexes, TryLock(t, m) PROVE Sleeps'
  BY <1>3 DEF Sleeps, TryLock, Take, Deeper, threadVars, callVars
<1>4. ASSUME NEW t \in Threads, NEW m \in Mutexes, Release(t, m), ~wait[t], at[t] = "run",
             Waits(t, "cond", m) \/ UNCHANGED <<at, this>>
      PROVE  \A u \in Threads : Asleep(u)'
  <2>0. \A u \in Threads \ {t} : at'[u] = at[u] /\ this'[u] = this[u]
    BY <1>4 DEF TypeOK, Waits
  <2>1. CASE waiting[m] = {}
    <3>1. UNCHANGED <<waiting, wait>>
      BY <2>1, <1>4 DEF Release
    <3>2. QED BY <1>0, <1>4, <2>0, <3>1
  <2>2. CASE waiting[m] # {}
    <3>1. /\ waiting' = [waiting EXCEPT ![m] = @ \ {front[m]}]
          /\ wait' = [wait EXCEPT ![front[m]] = FALSE]
      BY <1>4, <2>2 DEF Release
    <3>2. front[m] \in Threads /\ front[m] # t
      BY <1>4, <2>2 DEF Queues, TypeOK, InLoop
    <3>3. ASSUME NEW u \in Threads, wait'[u] PROVE Asleep(u)'
      <4>1. u # front[m] /\ wait[u] /\ u # t
        BY <1>4, <3>1, <3>2, <3>3 DEF TypeOK
      <4>2. at[u] \in InLoop /\ u \in waiting[this[u]] /\ this[u] \in Mutexes
        BY <1>0, <4>1, ThisType DEF InLoop
      <4>3. u \in waiting'[this[u]]
        BY <3>1, <4>1, <4>2 DEF TypeOK
      <4>4. QED BY <2>0, <4>1, <4>2, <4>3
    <3>4. QED BY <3>3
  <2>3. QED BY <2>1, <2>2
<1>5. ASSUME NEW t \in Threads, NEW m \in Mutexes, Unlock(t, m) PROVE Sleeps'
  <2>1. UNCHANGED <<condWait, queue, at, this>> /\ ~wait[t] /\ at[t] = "run"
    BY <1>1, <1>5 DEF Unlock, threadVars, callVars
  <2>2. CASE UNCHANGED <<owner, waiting, front, threadVars>>
    BY <1>0, <2>1, <2>2 DEF Sleeps, threadVars
  <2>3. CASE Release(t, m)
    <3>1. \A u \in Threads : Asleep(u)'
      BY <1>4, <2>1, <2>3
    <3>2. QED BY <1>0, <2>1, <3>1 DEF Sleeps
  <2>4. QED BY <1>5, <2>2, <2>3 DEF Unlock
<1>6. ASSUME NEW t \in Threads, Granted(t) PROVE Sleeps'
  BY <1>0, <1>6 DEF Granted, Sleeps, Ready, Returns, TypeOK, threadVars
<1>7. ASSUME NEW t \in Threads, WaitAgain(t) PROVE Sleeps'
  <2>1. at[t] \in InLoop /\ t \in waiting[this[t]]
    BY <1>7 DEF WaitAgain, Queues, InLoop
  <2>2. QED BY <1>0, <1>7, <2>1 DEF WaitAgain, Sleeps, TypeOK, mutexVars, callVars
<1>8. ASSUME NEW t \in Threads, CondWait(t) PROVE Sleeps'
  <2>1. \A u \in Threads : Asleep(u)'
    BY <1>1, <1>4, <1>8, SyncAssumption DEF CondWait
  <2>2. /\ queue' = Append(queue, t) /\ queue \in Seq(Threads)
        /\ condWait' = [condWait EXCEPT ![t] = TRUE]
        /\ at' = [at EXCEPT ![t] = "cond"]
    BY <1>8 DEF CondWait, Waits, TypeOK
  <2>3. /\ DOMAIN queue' = 1 .. Len(queue) + 1
        /\ \A i \in DOMAIN queue : i \in DOMAIN queue' /\ queue'[i] = queue[i]
        /\ queue'[Len(queue) + 1] = t
    BY <2>2
  <2>4. Len(queue) + 1 \in DOMAIN queue'
    BY <2>2, <2>3
  <2>5. ASSUME NEW u \in Threads PROVE InQueue(u)'
    <3>1. CASE u = t
      BY <2>2, <2>3, <2>4, <3>1 DEF TypeOK
    <3>2. CASE u # t
      <4>1. condWait'[u] = condWait[u] /\ at'[u] = at[u]
        BY <2>2, <3>2 DEF TypeOK
      <4>2. QED BY <1>0, <2>3, <4>1
    <3>3. QED BY <3>1, <3>2
  <2>6. QED BY <2>1, <2>5 DEF Sleeps
<1>9. ASSUME NEW t \in Threads, CondReturn(t) PROVE Sleeps'
  <2>1. /\ UNCHANGED <<condWait, queue>> /\ ~wait[t] /\ ~condWait[t]
        /\ at[t] = "cond" /\ this[t] \in Mutexes
    BY <1>9, ThisType DEF CondReturn, Ready
  <2>2. CASE Take(t, this[t]) /\ Returns(t)
    BY <1>0, <2>1, <2>2 DEF Sleeps, Take, Returns, TypeOK
  <2>3. CASE Enqueue(t, this[t]) /\ Waits(t, "relock", this[t])
    BY <1>0, <2>1, <2>3 DEF Sleeps, Enqueue, Waits, TypeOK, InLoop
  <2>4. QED BY <1>9, <2>2, <2>3 DEF CondReturn
<1>10. ASSUME NEW t \in Threads, Signal(t) PROVE Sleeps'
  <2>1. /\ queue \in Seq(Threads) /\ queue # <<>> /\ queue' = Tail(queue)
        /\ condWait' = [condWait EXCEPT ![Head(queue)] = FALSE]
        /\ UNCHANGED <<wait, waiting, at, this>>
    BY <1>10 DEF Signal, TypeOK, mutexVars, callVars
  <2>2. Head(queue) = queue[1] /\ Head(queue) \in Threads
    BY <2>1, HeadTailProperties
  <2>3. ASSUME NEW i \in DOMAIN queue, i # 1
        PROVE  i - 1 \in DOMAIN queue' /\ queue'[i - 1] = queue[i]
    <3>1. i \in 1 .. Len(queue) /\ i # 1 /\ Len(queue) \in Nat
      BY <2>1, <2>3
    <3>2. i - 1 \in 1 .. Len(queue) - 1
      BY <3>1
    <3>3. /\ Tail(queue) \in Seq(Threads) /\ Len(Tail(queue)) = Len(queue) - 1
          /\ Tail(queue)[i - 1] = queue[i - 1 + 1]
      BY <2>1, <3>2, HeadTailProperties
    <3>4. DOMAIN Tail(queue) = 1 .. Len(Tail(queue))
      BY <3>3
    <3>5. i - 1 + 1 = i
      BY <3>1
    <3>6. QED BY <2>1, <3>2, <3>3, <3>4, <3>5
  <2>4. ASSUME NEW u \in Threads PROVE InQueue(u)'
    <3>1. CASE u = Head(queue)
      BY <2>1, <3>1 DEF TypeOK
    <3>2. CASE u # Head(queue)
      <4>1. condWait'[u] = condWait[u] /\ at'[u] = at[u]
        BY <2>1, <3>2 DEF TypeOK
      <4>2. ASSUME condWait[u]
            PROVE  at[u] = "cond" /\ \E i \in DOMAIN queue' : queue'[i] = u
        <5>1. PICK i \in DOMAIN queue : queue[i] = u
          BY <1>0, <4>2
        <5>2. i # 1
          BY <2>2, <3>2, <5>1
        <5>3. i - 1 \in DOMAIN queue' /\ queue'[i - 1] = u
          BY <2>3, <5>1, <5>2
        <5>4. QED BY <1>0, <4>2, <5>3
      <4>3. QED BY <4>1, <4>2
    <3>3. QED BY <3>1, <3>2
  <2>5. QED BY <1>0, <2>1, <2>4 DEF Sleeps
<1>11. ASSUME NEW t \in Threads, Broadcast(t) PROVE Sleeps'
  <2>1. UNCHANGED <<wait, waiting, at, this>>
    BY <1>11 DEF Broadcast, mutexVars, callVars
  <2>2. \A u \in Threads : ~condWait'[u]
    BY <1>0, <1>11 DEF Broadcast
  <2>3. QED BY <1>0, <2>1, <2>2 DEF Sleeps
<1>12. ASSUME NEW t \in Threads, Wakeup(t) PROVE Sleeps'
  BY <1>0, <1>12 DEF Wakeup, Sleeps, TypeOK, mutexVars, callVars
<1>13. ASSUME NEW t \in Threads, NEW pr \in Priorities, SetPriority(t, pr) PROVE Sleeps'
  BY <1>0, <1>13 DEF SetPriority, Sleeps, mutexVars, callVars
<1>14. CASE UNCHANGED vars
  BY <1>0, <1>14 DEF Sleeps, vars, mutexVars, threadVars, callVars
<1>15. QED
  BY <1>2, <1>3, <1>5, <1>6, <1>7, <1>8, <1>9, <1>10, <1>11, <1>12, <1>13, <1>14 DEF Next

-----------------------------------------------------------------------------
(* Counts.                                                                 *)

\* The types that Counts needs.
CountsTyped ==
    /\ owner \in [Mutexes -> Threads \cup {NoThread}]
    /\ recursiveDepth \in [Mutexes -> Nat \cup {-1}]
    /\ \A m \in Mutexes : m \in Recursive <=> recursiveDepth[m] >= 0
    /\ at \in [Threads -> {"run", "lock", "cond", "relock"}]
    /\ this \in [Threads -> Mutexes \cup {NoMutex}]
    /\ depth \in [Threads -> Nat]
    /\ nested \in [Threads -> [Mutexes -> Nat]]

LEMMA NestedValue ==
    ASSUME CountsTyped, NEW t \in Threads, NEW m \in Mutexes
    PROVE  /\ nested[t][m] \in Nat
           /\ Locked(t, m) => \A u \in Threads, k \in Mutexes :
                 nested'[u][k] = IF u = t /\ k = m THEN nested[t][m] + 1 ELSE nested[u][k]
           /\ Unlocked(t, m) => \A u \in Threads, k \in Mutexes :
                 nested'[u][k] = IF u = t /\ k = m THEN nested[t][m] - 1 ELSE nested[u][k]
BY DEF CountsTyped, Locked, Unlocked

\* What SetDepth leaves: the depth of a recursive mutex.
LEMMA SetDepthValue ==
    ASSUME CountsTyped, NEW m \in Mutexes, NEW d \in Nat, SetDepth(m, d)
    PROVE  /\ \A k \in Mutexes \ {m} : recursiveDepth'[k] = recursiveDepth[k]
           /\ DepthToLevels(m, recursiveDepth'[m]) = DepthToLevels(m, d)
BY DEF CountsTyped, SetDepth, DepthToLevels

\* A program that takes a free mutex, or is given the one it waited for, had
\* not locked it.
LEMMA NewLock ==
    ASSUME CountsTyped, Counts, Queues, NEW t \in Threads, NEW m \in Mutexes,
           at[t] = "run", owner[m] # t
    PROVE  this[t] # m /\ nested[t][m] = 0
<1>1. this[t] = NoMutex /\ NoMutex \notin Mutexes
  BY SyncAssumption DEF Queues
<1>2. nested[t][m] \in Nat
  BY DEF CountsTyped
<1>3. QED BY <1>1, <1>2 DEF Counts

\* The mutex a running thread holds: its levels are those the program counts.
LEMMA OldLock ==
    ASSUME CountsTyped, Counts, Queues, NEW t \in Threads, NEW m \in Mutexes,
           at[t] = "run", nested[t][m] > 0 \/ owner[m] = t
    PROVE  /\ this[t] # m /\ owner[m] = t /\ nested[t][m] > 0
           /\ nested[t][m] = DepthToLevels(m, recursiveDepth[m])
<1>1. this[t] = NoMutex /\ NoMutex \notin Mutexes
  BY SyncAssumption DEF Queues
<1>2. QED BY <1>1 DEF Counts

\* Lock and TryLock, when the mutex is free or the thread's own.
LEMMA LockCounts ==
    ASSUME CountsTyped, Counts, Queues, NEW t \in Threads, NEW m \in Mutexes,
           at[t] = "run", UNCHANGED <<at, this, depth>>, Locked(t, m),
           \/ Take(t, m) /\ UNCHANGED recursiveDepth
           \/ Deeper(t, m)
    PROVE  Counts'
<1>1. \A u \in Threads, k \in Mutexes :
          nested'[u][k] = IF u = t /\ k = m THEN nested[t][m] + 1 ELSE nested[u][k]
  BY NestedValue
<1>2. \A k \in Mutexes \ {m} : owner'[k] = owner[k] /\ recursiveDepth'[k] = recursiveDepth[k]
  BY DEF Take, Deeper, CountsTyped
<1>3. owner'[m] = t /\ \A u \in Threads \ {t} : owner[m] # u
  BY SyncAssumption DEF Take, Deeper, CountsTyped
<1>4. this[t] # m /\ nested'[t][m] > 0 /\ nested'[t][m] = DepthToLevels(m, recursiveDepth'[m])
  <2>1. CASE Take(t, m) /\ UNCHANGED recursiveDepth
    <3>1. owner[m] = NoThread /\ owner[m] # t
      BY <2>1, SyncAssumption DEF Take
    <3>2. this[t] # m /\ nested[t][m] = 0
      BY <3>1, NewLock
    <3>3. m \in Recursive => recursiveDepth[m] = 0
      BY <3>1 DEF Counts
    <3>4. QED BY <1>1, <2>1, <3>2, <3>3 DEF DepthToLevels
  <2>2. CASE Deeper(t, m)
    <3>1. /\ owner[m] = t /\ recursiveDepth[m] >= 0 /\ recursiveDepth'[m] = recursiveDepth[m] + 1
          /\ m \in Recursive /\ recursiveDepth[m] \in Nat
      BY <2>2 DEF Deeper, CountsTyped
    <3>2. this[t] # m /\ nested[t][m] = recursiveDepth[m] + 1
      BY <3>1, OldLock DEF DepthToLevels
    <3>3. QED BY <1>1, <3>1, <3>2 DEF DepthToLevels
  <2>3. QED BY <2>1, <2>2
<1>5. \A u \in Threads, k \in Mutexes :
          nested'[u][k] > 0 /\ this'[u] # k =>
              owner'[k] = u /\ nested'[u][k] = DepthToLevels(k, recursiveDepth'[k])
  BY <1>1, <1>2, <1>3, <1>4 DEF Counts
<1>6. \A u \in Threads, k \in Mutexes :
          owner'[k] = u => IF this'[u] = k THEN at'[u] \in InLoop ELSE nested'[u][k] > 0
  BY <1>1, <1>2, <1>3, <1>4 DEF Counts
<1>7. \A k \in Recursive :
          (owner'[k] = NoThread \/ this'[owner'[k]] = k) => recursiveDepth'[k] = 0
  BY <1>2, <1>3, <1>4, SyncAssumption DEF Counts
<1>8. ASSUME NEW u \in Threads
      PROVE  /\ at'[u] = "lock" => nested'[u][this'[u]] = 0
             /\ at'[u] \in {"cond", "relock"} =>
                    nested'[u][this'[u]] = DepthToLevels(this'[u], depth'[u])
  <2>1. CASE u = t
    BY <2>1
  <2>2. CASE u # t
    <3>1. at[u] # "run" => this[u] \in Mutexes
      BY DEF Queues, CountsTyped
    <3>2. at[u] # "run" => nested'[u][this[u]] = nested[u][this[u]]
      BY <1>1, <2>2, <3>1
    <3>3. QED BY <2>2, <3>2 DEF Counts
  <2>3. QED BY <2>1, <2>2
<1>9. QED BY <1>5, <1>6, <1>7, <1>8 DEF Counts

\* A thread begins to wait for a mutex that another one holds.
LEMMA EnqueueCounts ==
    ASSUME CountsTyped, Counts, Queues, NEW t \in Threads, NEW m \in Mutexes,
           Enqueue(t, m), UNCHANGED <<recursiveDepth, depth, nested>>,
           \/ at[t] = "run" /\ Waits(t, "lock", m)
           \/ at[t] = "cond" /\ this[t] = m /\ Waits(t, "relock", m)
    PROVE  Counts'
<1>1. owner' = owner /\ owner[m] # t
  BY DEF Enqueue
<1>2. \A u \in Threads \ {t} : at'[u] = at[u] /\ this'[u] = this[u]
  BY DEF CountsTyped, Waits
<1>3. this'[t] = m /\ at'[t] \in InLoop
  BY DEF CountsTyped, Waits, InLoop
<1>4. at[t] = "run" => this[t] # m /\ nested[t][m] = 0 /\ at'[t] = "lock"
  BY <1>1, NewLock DEF Waits, CountsTyped
<1>5. at[t] = "cond" => this[t] = m /\ at'[t] = "relock"
  BY DEF Waits, CountsTyped
<1>6. at[t] \in {"run", "cond"} /\ (at[t] = "run" => this[t] = NoMutex)
  BY DEF Queues
<1>7. \A u \in Threads, k \in Mutexes :
          nested'[u][k] > 0 /\ this'[u] # k =>
              owner'[k] = u /\ nested'[u][k] = DepthToLevels(k, recursiveDepth'[k])
  BY <1>1, <1>2, <1>3, <1>5, <1>6, SyncAssumption DEF Counts
<1>8. \A u \in Threads, k \in Mutexes :
          owner'[k] = u => IF this'[u] = k THEN at'[u] \in InLoop ELSE nested'[u][k] > 0
  BY <1>1, <1>2, <1>3, <1>5, <1>6, SyncAssumption DEF Counts, InLoop
<1>9. \A k \in Recursive :
          (owner'[k] = NoThread \/ this'[owner'[k]] = k) => recursiveDepth'[k] = 0
  <2>1. ASSUME NEW k \in Recursive, owner[k] # NoThread, this'[owner[k]] = k
        PROVE  this[owner[k]] = k
    <3>1. owner[k] \in Threads
      BY <2>1, SyncAssumption DEF CountsTyped
    <3>2. owner[k] # t
      BY <1>1, <1>3, <2>1
    <3>3. QED BY <1>2, <2>1, <3>1, <3>2
  <2>2. QED BY <1>1, <2>1 DEF Counts
<1>10. \A u \in Threads :
          /\ at'[u] = "lock" => nested'[u][this'[u]] = 0
          /\ at'[u] \in {"cond", "relock"} =>
                 nested'[u][this'[u]] = DepthToLevels(this'[u], depth'[u])
  BY <1>2, <1>3, <1>4, <1>5, <1>6 DEF Counts
<1>11. QED BY <1>7, <1>8, <1>9, <1>10 DEF Counts

\* Who has a mutex that was released: nobody, or a thread whose call asks for it.
LEMMA Heir ==
    ASSUME TypeOK, Queues, NEW t \in Threads, NEW m \in Mutexes, Release(t, m),
           at[t] = "run"
    PROVE  /\ \A k \in Mutexes \ {m} : owner'[k] = owner[k]
           /\ \/ owner'[m] = NoThread
              \/ /\ owner'[m] \in Threads \ {t}
                 /\ this[owner'[m]] = m /\ at[owner'[m]] \in InLoop
<1>1. \/ owner' = [owner EXCEPT ![m] = NoThread]
      \/ waiting[m] # {} /\ owner' = [owner EXCEPT ![m] = front[m]]
  BY DEF Release
<1>2. waiting[m] # {} =>
          front[m] \in Threads \ {t} /\ this[front[m]] = m /\ at[front[m]] \in InLoop
  BY DEF Queues, TypeOK, InLoop
<1>3. QED BY <1>1, <1>2 DEF TypeOK

\* Unlock.
LEMMA UnlockCounts ==
    ASSUME TypeOK, Counts, Queues, NEW t \in Threads, NEW m \in Mutexes, Unlock(t, m)
    PROVE  Counts'
<1>0. CountsTyped
  BY DEF TypeOK, CountsTyped
<1>1. at[t] = "run" /\ nested[t][m] > 0 /\ UNCHANGED <<at, this, depth>>
  BY DEF Unlock, Runs, callVars
<1>2. \A u \in Threads, k \in Mutexes :
          nested'[u][k] = IF u = t /\ k = m THEN nested[t][m] - 1 ELSE nested[u][k]
  BY <1>0, NestedValue DEF Unlock
<1>3. /\ this[t] # m /\ owner[m] = t /\ nested[t][m] \in Nat
      /\ nested[t][m] = DepthToLevels(m, recursiveDepth[m])
  BY <1>0, <1>1, OldLock, NestedValue
<1>4. \A u \in Threads : /\ at[u] = "lock" => nested'[u][this[u]] = 0
                         /\ at[u] \in {"cond", "relock"} =>
                                nested'[u][this[u]] = DepthToLevels(this[u], depth[u])
  <2>1. \A u \in Threads \ {t} : at[u] # "run" => this[u] \in Mutexes
    BY <1>0 DEF Queues, CountsTyped
  <2>2. QED BY <1>1, <1>2, <2>1 DEF Counts
<1>5. CASE /\ recursiveDepth[m] > 0
           /\ recursiveDepth' = [recursiveDepth EXCEPT ![m] = @ - 1]
           /\ UNCHANGED <<owner, waiting, front, threadVars>>
  <2>1. m \in Recursive /\ recursiveDepth[m] \in Nat /\ recursiveDepth'[m] = recursiveDepth[m] - 1
    BY <1>0, <1>5 DEF CountsTyped
  <2>2. \A k \in Mutexes \ {m} : recursiveDepth'[k] = recursiveDepth[k]
    BY <1>0, <1>5 DEF CountsTyped
  <2>3. nested'[t][m] = DepthToLevels(m, recursiveDepth'[m]) /\ nested'[t][m] > 0
    BY <1>2, <1>3, <1>5, <2>1 DEF DepthToLevels
  <2>4. \A u \in Threads, k \in Mutexes :
            nested'[u][k] > 0 /\ this'[u] # k =>
                owner'[k] = u /\ nested'[u][k] = DepthToLevels(k, recursiveDepth'[k])
    BY <1>1, <1>2, <1>3, <1>5, <2>2, <2>3 DEF Counts
  <2>5. \A u \in Threads, k \in Mutexes :
            owner'[k] = u => IF this'[u] = k THEN at'[u] \in InLoop ELSE nested'[u][k] > 0
    BY <1>1, <1>2, <1>3, <1>5, <2>3 DEF Counts
  <2>6. \A k \in Recursive :
            (owner'[k] = NoThread \/ this'[owner'[k]] = k) => recursiveDepth'[k] = 0
    BY <1>1, <1>3, <1>5, <2>2, SyncAssumption DEF Counts
  <2>7. QED BY <1>1, <1>4, <2>4, <2>5, <2>6 DEF Counts
<1>6. CASE recursiveDepth[m] <= 0 /\ Release(t, m) /\ UNCHANGED recursiveDepth
  <2>1. m \in Recursive => recursiveDepth[m] = 0
    BY <1>0, <1>6 DEF CountsTyped
  <2>2. nested'[t][m] = 0
    BY <1>2, <1>3, <2>1 DEF DepthToLevels
  <2>3. /\ \A k \in Mutexes \ {m} : owner'[k] = owner[k]
        /\ \/ owner'[m] = NoThread
           \/ /\ owner'[m] \in Threads \ {t}
              /\ this[owner'[m]] = m /\ at[owner'[m]] \in InLoop
    BY <1>1, <1>6, Heir
  <2>4. \A u \in Threads, k \in Mutexes :
            nested'[u][k] > 0 /\ this'[u] # k =>
                owner'[k] = u /\ nested'[u][k] = DepthToLevels(k, recursiveDepth'[k])
    BY <1>1, <1>2, <1>3, <1>6, <2>2, <2>3 DEF Counts
  <2>5. \A u \in Threads, k \in Mutexes :
            owner'[k] = u => IF this'[u] = k THEN at'[u] \in InLoop ELSE nested'[u][k] > 0
    BY <1>1, <1>2, <1>3, <2>3, SyncAssumption DEF Counts
  <2>6. \A k \in Recursive :
            (owner'[k] = NoThread \/ this'[owner'[k]] = k) => recursiveDepth'[k] = 0
    BY <1>1, <1>6, <2>1, <2>3, SyncAssumption DEF Counts
  <2>7. QED BY <1>1, <1>4, <2>4, <2>5, <2>6 DEF Counts
<1>7. QED BY <1>5, <1>6 DEF Unlock

\* wait gives all levels away, and keeps their number.
LEMMA CondWaitCounts ==
    ASSUME TypeOK, Counts, Queues, NEW t \in Threads, CondWait(t)
    PROVE  Counts'
<1> DEFINE m == CondMutex
<1>0. CountsTyped /\ m \in Mutexes
  BY SyncAssumption DEF TypeOK, CountsTyped
<1>1. /\ at[t] = "run" /\ nested[t][m] > 0 /\ nested' = nested /\ Release(t, m)
      /\ at' = [at EXCEPT ![t] = "cond"] /\ this' = [this EXCEPT ![t] = m]
      /\ IF recursiveDepth[m] < 0
         THEN depth' = [depth EXCEPT ![t] = 0] /\ UNCHANGED recursiveDepth
         ELSE /\ depth' = [depth EXCEPT ![t] = recursiveDepth[m]]
              /\ recursiveDepth' = [recursiveDepth EXCEPT ![m] = 0]
  BY DEF CondWait, Runs, Waits, userVars
<1> HIDE DEF m
<1>2. /\ this[t] # m /\ owner[m] = t /\ nested[t][m] \in Nat
      /\ nested[t][m] = DepthToLevels(m, recursiveDepth[m])
  BY <1>0, <1>1, OldLock, NestedValue
<1>3. /\ \A k \in Mutexes \ {m} : owner'[k] = owner[k]
      /\ \/ owner'[m] = NoThread
         \/ /\ owner'[m] \in Threads \ {t}
            /\ this[owner'[m]] = m /\ at[owner'[m]] \in InLoop
  BY <1>0, <1>1, Heir
<1>4. /\ \A u \in Threads \ {t} : at'[u] = at[u] /\ this'[u] = this[u] /\ depth'[u] = depth[u]
      /\ at'[t] = "cond" /\ this'[t] = m
      /\ \A k \in Mutexes \ {m} : recursiveDepth'[k] = recursiveDepth[k]
  BY <1>0, <1>1 DEF CountsTyped
<1>5. m \in Recursive => recursiveDepth'[m] = 0 /\ depth'[t] = recursiveDepth[m]
  BY <1>0, <1>1 DEF CountsTyped
<1>6. nested'[t][m] = DepthToLevels(m, depth'[t])
  BY <1>1, <1>2, <1>5 DEF DepthToLevels
<1>7. \A k \in Mutexes : this[t] # k
  BY <1>1, SyncAssumption DEF Queues
<1>8. \A u \in Threads, k \in Mutexes :
          nested'[u][k] > 0 /\ this'[u] # k =>
              owner'[k] = u /\ nested'[u][k] = DepthToLevels(k, recursiveDepth'[k])
  BY <1>1, <1>2, <1>3, <1>4, <1>7 DEF Counts
<1>9. \A u \in Threads, k \in Mutexes :
          owner'[k] = u => IF this'[u] = k THEN at'[u] \in InLoop ELSE nested'[u][k] > 0
  BY <1>1, <1>2, <1>3, <1>4, <1>7, SyncAssumption DEF Counts
<1>10. ASSUME NEW k \in Recursive, owner'[k] = NoThread \/ this'[owner'[k]] = k
       PROVE  recursiveDepth'[k] = 0
  <2>1. CASE k = m
    BY <1>5, <2>1
  <2>2. CASE k # m
    <3>1. k \in Mutexes /\ owner'[k] = owner[k] /\ recursiveDepth'[k] = recursiveDepth[k]
      BY <1>3, <1>4, <2>2, SyncAssumption
    <3>2. owner[k] = NoThread \/ this[owner[k]] = k
      <4>1. CASE owner[k] = NoThread
        BY <4>1
      <4>2. CASE owner[k] # NoThread
        <5>1. owner[k] \in Threads /\ owner[k] # t
          BY <1>0, <1>4, <1>10, <2>2, <3>1, <4>2 DEF CountsTyped
        <5>2. QED BY <1>4, <1>10, <3>1, <4>2, <5>1
      <4>3. QED BY <4>1, <4>2
    <3>3. QED BY <3>1, <3>2 DEF Counts
  <2>3. QED BY <2>1, <2>2
<1>11. \A u \in Threads :
          /\ at'[u] = "lock" => nested'[u][this'[u]] = 0
          /\ at'[u] \in {"cond", "relock"} =>
                 nested'[u][this'[u]] = DepthToLevels(this'[u], depth'[u])
  BY <1>1, <1>4, <1>6 DEF Counts
<1>12. QED BY <1>8, <1>9, <1>10, <1>11 DEF Counts

\* A call returns with its mutex: PKlock, or PKlockToDepth with all levels.
LEMMA ReturnCounts ==
    ASSUME TypeOK, Counts, Queues, NEW t \in Threads, NEW m \in Mutexes,
           at[t] # "run", this[t] = m, owner'[m] = t,
           owner[m] \in {t, NoThread},
           \A k \in Mutexes \ {m} : owner'[k] = owner[k],
           Returns(t), UNCHANGED depth,
           \/ at[t] = "lock" /\ owner[m] = t /\ Locked(t, m) /\ UNCHANGED recursiveDepth
           \/ at[t] # "lock" /\ SetDepth(m, depth[t]) /\ UNCHANGED nested
    PROVE  Counts'
<1>0. CountsTyped /\ NoMutex \notin Mutexes /\ NoThread \notin Threads
  BY SyncAssumption DEF TypeOK, CountsTyped
<1>1. /\ at'[t] = "run" /\ this'[t] = NoMutex
      /\ \A u \in Threads \ {t} : at'[u] = at[u] /\ this'[u] = this[u]
  BY <1>0 DEF CountsTyped, Returns
<1>2. \A k \in Mutexes \ {m} : recursiveDepth'[k] = recursiveDepth[k]
  BY <1>0, SetDepthValue DEF CountsTyped
<1>3. /\ nested'[t][m] > 0 /\ nested'[t][m] = DepthToLevels(m, recursiveDepth'[m])
      /\ \A u \in Threads, k \in Mutexes : u # t \/ k # m => nested'[u][k] = nested[u][k]
  <2>1. CASE at[t] = "lock"
    <3>1. nested[t][m] = 0
      BY <2>1 DEF Counts
    <3>2. m \in Recursive => recursiveDepth'[m] = 0
      BY <2>1 DEF Counts
    <3>3. \A u \in Threads, k \in Mutexes :
              nested'[u][k] = IF u = t /\ k = m THEN nested[t][m] + 1 ELSE nested[u][k]
      BY <1>0, <2>1, NestedValue
    <3>4. QED BY <3>1, <3>2, <3>3 DEF DepthToLevels
  <2>2. CASE at[t] # "lock"
    <3>1. depth[t] \in Nat /\ at[t] \in {"cond", "relock"}
      BY <1>0, <2>2 DEF CountsTyped
    <3>2. nested[t][m] = DepthToLevels(m, depth[t])
      BY <3>1 DEF Counts
    <3>3. DepthToLevels(m, recursiveDepth'[m]) = DepthToLevels(m, depth[t])
      BY <1>0, <2>2, <3>1, SetDepthValue
    <3>4. DepthToLevels(m, depth[t]) > 0
      BY <3>1 DEF DepthToLevels
    <3>5. QED BY <2>2, <3>2, <3>3, <3>4
  <2>3. QED BY <2>1, <2>2
<1>4. \A u \in Threads, k \in Mutexes :
          nested'[u][k] > 0 /\ this'[u] # k =>
              owner'[k] = u /\ nested'[u][k] = DepthToLevels(k, recursiveDepth'[k])
  BY <1>0, <1>1, <1>2, <1>3 DEF Counts
<1>5. \A u \in Threads, k \in Mutexes :
          owner'[k] = u => IF this'[u] = k THEN at'[u] \in InLoop ELSE nested'[u][k] > 0
  BY <1>0, <1>1, <1>3 DEF Counts
<1>6. ASSUME NEW k \in Recursive, owner'[k] = NoThread \/ this'[owner'[k]] = k
      PROVE  recursiveDepth'[k] = 0
  <2>1. k # m /\ k \in Mutexes
    BY <1>0, <1>1, <1>6, SyncAssumption
  <2>2. owner'[k] = owner[k] /\ recursiveDepth'[k] = recursiveDepth[k]
    BY <1>2, <2>1
  <2>3. owner[k] = NoThread \/ this[owner[k]] = k
    BY <1>0, <1>1, <1>6, <2>1, <2>2 DEF CountsTyped
  <2>4. QED BY <2>2, <2>3 DEF Counts
<1>7. \A u \in Threads :
          /\ at'[u] = "lock" => nested'[u][this'[u]] = 0
          /\ at'[u] \in {"cond", "relock"} =>
                 nested'[u][this'[u]] = DepthToLevels(this'[u], depth'[u])
  <2>1. \A u \in Threads : at[u] # "run" => this[u] \in Mutexes
    BY <1>0 DEF Queues, CountsTyped
  <2>2. QED BY <1>1, <1>3, <2>1 DEF Counts
<1>8. QED BY <1>4, <1>5, <1>6, <1>7 DEF Counts

LEMMA CountsStep == TypeOK /\ Queues /\ Counts /\ [Next]_vars => Counts'
<1> SUFFICES ASSUME TypeOK, Queues, Counts, [Next]_vars PROVE Counts'
  OBVIOUS
<1>0. CountsTyped
  BY DEF TypeOK, CountsTyped
<1>1. ASSUME UNCHANGED <<owner, recursiveDepth, at, this, depth, nested>> PROVE Counts'
  BY <1>1 DEF Counts
<1>2. ASSUME NEW t \in Threads, NEW m \in Mutexes, Lock(t, m) \/ TryLock(t, m)
      PROVE  Counts'
  <2>1. at[t] = "run" /\ UNCHANGED depth
    BY <1>2 DEF Lock, TryLock, Runs, callVars
  <2>2. CASE /\ UNCHANGED <<at, this>> /\ Locked(t, m)
             /\ (Take(t, m) /\ UNCHANGED recursiveDepth) \/ Deeper(t, m)
    BY <1>0, <2>1, <2>2, LockCounts
  <2>3. CASE Enqueue(t, m) /\ Waits(t, "lock", m) /\ UNCHANGED <<recursiveDepth, nested>>
    BY <1>0, <2>1, <2>3, EnqueueCounts
  <2>4. QED BY <1>2, <2>2, <2>3 DEF Lock, TryLock, callVars
<1>3. ASSUME NEW t \in Threads, NEW m \in Mutexes, Unlock(t, m) PROVE Counts'
  BY <1>3, UnlockCounts
<1>4. ASSUME NEW t \in Threads, Granted(t) PROVE Counts'
  <2>1. this[t] \in Mutexes /\ at[t] # "run"
    BY <1>4, ThisType DEF Granted
  <2>2. QED BY <1>4, <2>1, ReturnCounts DEF Granted
<1>5. ASSUME NEW t \in Threads, CondWait(t) PROVE Counts'
  BY <1>5, CondWaitCounts
<1>6. ASSUME NEW t \in Threads, CondReturn(t) PROVE Counts'
  <2>1. this[t] \in Mutexes /\ at[t] = "cond" /\ UNCHANGED <<depth, nested>>
    BY <1>6, ThisType DEF CondReturn, userVars
  <2>2. CASE Take(t, this[t]) /\ SetDepth(this[t], depth[t]) /\ Returns(t)
    <3>1. /\ owner[this[t]] = NoThread /\ owner'[this[t]] = t
          /\ \A k \in Mutexes \ {this[t]} : owner'[k] = owner[k]
      BY <1>0, <2>1, <2>2 DEF Take, CountsTyped
    <3>2. QED BY <2>1, <2>2, <3>1, ReturnCounts
  <2>3. CASE /\ Enqueue(t, this[t]) /\ Waits(t, "relock", this[t])
             /\ UNCHANGED recursiveDepth
    BY <1>0, <2>1, <2>3, EnqueueCounts
  <2>4. QED BY <1>6, <2>2, <2>3 DEF CondReturn
<1>7. ASSUME NEW t \in Threads,
             \/ WaitAgain(t) \/ Signal(t) \/ Broadcast(t) \/ Wakeup(t)
             \/ \E pr \in Priorities : SetPriority(t, pr)
      PROVE  Counts'
  BY <1>1, <1>7
     DEF WaitAgain, Signal, Broadcast, Wakeup, SetPriority, mutexVars, callVars, userVars
<1>8. CASE UNCHANGED vars
  BY <1>1, <1>8 DEF vars, mutexVars, callVars, userVars
<1>9. QED
  BY <1>2, <1>3, <1>4, <1>5, <1>6, <1>7, <1>8 DEF Next

-----------------------------------------------------------------------------
(* The theorems.                                                           *)

LEMMA InvInit == Init => Inv
<1> SUFFICES ASSUME Init PROVE Inv
  OBVIOUS
<1>1. priority \in [Threads -> Priorities] /\ 0 \in Priorities
  BY SyncAssumption DEF Init, Priorities
<1>2. TypeOK
  BY <1>1, SyncAssumption DEF Init, TypeOK
<1>3. Queues
  BY SyncAssumption DEF Init, Queues, InLoop
<1>4. Sleeps
  BY DEF Init, Sleeps
<1>5. Counts
  BY SyncAssumption DEF Init, Counts, DepthToLevels
<1>6. QED BY <1>2, <1>3, <1>4, <1>5 DEF Inv

LEMMA InvStep == Inv /\ [Next]_vars => Inv'
BY TypeStep, QueuesStep, SleepsStep, CountsStep DEF Inv

LEMMA InvHolds == Spec => []Inv
BY InvInit, InvStep, PTL DEF Spec

\* For any number of threads, mutexes, priorities and levels, the variables
\* keep their types; in particular what a thread inherits is a priority.
THEOREM TypeCorrect == Spec => []TypeOK
<1>1. Inv => TypeOK
  BY DEF Inv
<1>2. QED BY InvHolds, <1>1, PTL

\* No two threads are ever in a section guarded by the same mutex, and wait
\* gives back as many levels as it took, whatever the interleaving of locks,
\* handovers, wakeups and changes of priority.
THEOREM Exclusive == Spec => []MutualExclusion
<1>1. Inv => MutualExclusion
  <2> SUFFICES ASSUME Inv, NEW t \in Threads, NEW m \in Mutexes, HoldsInProgram(t, m)
               PROVE  /\ owner[m] = t
                      /\ m \in Recursive => recursiveDepth[m] = nested[t][m] - 1
    BY DEF MutualExclusion
  <2>1. this[t] # m
    <3>1. CASE at[t] = "lock"
      BY <3>1 DEF Inv, Counts, HoldsInProgram
    <3>2. CASE at[t] = "run"
      BY <3>2, SyncAssumption DEF Inv, Queues
    <3>3. CASE at[t] \in {"cond", "relock"}
      BY <3>3 DEF HoldsInProgram
    <3>4. QED BY <3>1, <3>2, <3>3 DEF Inv, TypeOK
  <2>2. owner[m] = t /\ nested[t][m] = DepthToLevels(m, recursiveDepth[m])
    BY <2>1 DEF Inv, Counts, HoldsInProgram
  <2>3. recursiveDepth[m] \in Nat \cup {-1}
    BY DEF Inv, TypeOK
  <2>4. QED BY <2>2, <2>3 DEF DepthToLevels
<1>2. QED BY InvHolds, <1>1, PTL

\* A thread that sleeps in a lock will be handed the mutex by the thread that
\* holds it, and one that sleeps in wait is still in the queue to be signalled.
THEOREM Woken == Spec => []NoLostWakeup
<1>1. Inv => NoLostWakeup
  <2> SUFFICES ASSUME Inv, NEW t \in Threads
               PROVE  /\ wait[t] => /\ this[t] # NoMutex
                                    /\ t \in waiting[this[t]]
                                    /\ owner[this[t]] \notin {NoThread, t}
                      /\ condWait[t] => \E i \in DOMAIN queue : queue[i] = t
    BY DEF NoLostWakeup
  <2>1. wait[t] => at[t] \in InLoop /\ t \in waiting[this[t]]
    BY DEF Inv, Sleeps
  <2>2. at[t] \in InLoop => this[t] \in Mutexes
    BY ThisType DEF Inv, InLoop
  <2>3. QED BY <2>1, <2>2, SyncAssumption DEF Inv, Queues, Sleeps
<1>2. QED BY InvHolds, <1>1, PTL

-----------------------------------------------------------------------------
(* Priorities: what is lent, to whom, and what the heaps make of it.       *)

\* Who is in a call that waits holds no mutex above that of the call.
Ordered ==
    \A t \in Threads, m \in Mutexes : nested[t][m] > 0 /\ at[t] # "run" => m <= this[t]

\* A thread's list has the mutexes it owns, and the priority it asked for is
\* kept where it will be given back from.
Accounts ==
    /\ \A t \in Threads, m \in Mutexes : m \in mutexLocked[t] <=> owner[m] = t
    /\ \A t \in Threads : IF mutexLocked[t] = {} THEN priority[t] = base[t]
                          ELSE savedPriority[t] = base[t]

Lending == Accounts /\ HeapOrder /\ NothingKept

LEMMA OrderedStep == Inv /\ Ordered /\ [Next]_vars => Ordered'
<1> SUFFICES ASSUME Inv, Ordered, [Next]_vars PROVE Ordered'
  OBVIOUS
<1>0. CountsTyped /\ TypeOK /\ Queues /\ Counts
  BY DEF Inv, TypeOK, CountsTyped
<1>1. \A t \in Threads, m \in Mutexes : nested[t][m] \in Nat /\ m \in Nat
  BY <1>0, SyncAssumption DEF CountsTyped
<1>2. ASSUME UNCHANGED <<at, this, nested>> PROVE Ordered'
  BY <1>2 DEF Ordered
<1>3. ASSUME NEW t \in Threads, at[t] = "run",
             \A u \in Threads \ {t}, k \in Mutexes : nested'[u][k] = nested[u][k],
             UNCHANGED <<at, this>>
      PROVE  Ordered'
  BY <1>3 DEF Ordered
<1>4. ASSUME NEW t \in Threads, NEW m \in Mutexes, NEW place, Waits(t, place, m),
             \A k \in Mutexes : nested[t][k] > 0 => k <= m, UNCHANGED nested
      PROVE  Ordered'
  BY <1>0, <1>4 DEF Ordered, Waits, CountsTyped
<1>5. ASSUME NEW t \in Threads, Returns(t),
             \A u \in Threads \ {t}, k \in Mutexes : nested'[u][k] = nested[u][k]
      PROVE  Ordered'
  BY <1>0, <1>5 DEF Ordered, Returns, CountsTyped
<1>6. ASSUME NEW t \in Threads, NEW m \in Mutexes, Lock(t, m) PROVE Ordered'
  <2>1. at[t] = "run"
    BY <1>6 DEF Lock, Runs
  <2>2. CASE Locked(t, m) /\ UNCHANGED <<at, this>>
    BY <1>0, <1>3, <2>1, <2>2, NestedValue
  <2>3. CASE Enqueue(t, m) /\ Waits(t, "lock", m) /\ UNCHANGED nested
    <3>1. owner[m] # t
      BY <2>3 DEF Enqueue
    <3>2. ~(nested[t][m] > 0)
      BY <1>0, <2>1, <3>1, OldLock
    <3>3. \A k \in Mutexes : nested[t][k] > 0 => k <= m
      BY <1>1, <1>6, <3>2 DEF Lock, MayLock
    <3>4. QED BY <1>4, <2>3, <3>3
  <2>4. QED BY <1>6, <2>2, <2>3 DEF Lock
<1>7. ASSUME NEW t \in Threads, NEW m \in Mutexes, TryLock(t, m) \/ Unlock(t, m) PROVE Ordered'
  <2>1. at[t] = "run" /\ UNCHANGED <<at, this>> /\ (Locked(t, m) \/ Unlocked(t, m))
    BY <1>7 DEF TryLock, Unlock, Runs, callVars
  <2>2. QED BY <1>0, <1>3, <2>1, NestedValue
<1>8. ASSUME NEW t \in Threads, Granted(t) PROVE Ordered'
  <2>1. this[t] \in Mutexes
    BY <1>0, <1>8, ThisType DEF Granted
  <2>2. \A u \in Threads \ {t}, k \in Mutexes : nested'[u][k] = nested[u][k]
    BY <1>0, <1>8, <2>1, NestedValue DEF Granted
  <2>3. QED BY <1>5, <1>8, <2>2 DEF Granted
<1>9. ASSUME NEW t \in Threads, CondWait(t) PROVE Ordered'
  BY <1>4, <1>9, SyncAssumption DEF CondWait, userVars
<1>10. ASSUME NEW t \in Threads, CondReturn(t) PROVE Ordered'
  <2>1. this[t] \in Mutexes /\ at[t] # "run" /\ UNCHANGED nested
    BY <1>0, <1>10, ThisType DEF CondReturn, userVars
  <2>2. \A k \in Mutexes : nested[t][k] > 0 => k <= this[t]
    BY <2>1 DEF Ordered
  <2>3. Returns(t) \/ Waits(t, "relock", this[t])
    BY <1>10 DEF CondReturn
  <2>4. QED BY <1>4, <1>5, <2>1, <2>2, <2>3
<1>11. ASSUME NEW t \in Threads,
              \/ WaitAgain(t) \/ Signal(t) \/ Broadcast(t) \/ Wakeup(t)
              \/ \E pr \in Priorities : SetPriority(t, pr)
       PROVE  Ordered'
  BY <1>2, <1>11
     DEF WaitAgain, Signal, Broadcast, Wakeup, SetPriority, callVars, userVars
<1>12. CASE UNCHANGED vars
  BY <1>2, <1>12 DEF vars, callVars, userVars
<1>13. QED
  BY <1>6, <1>7, <1>8, <1>9, <1>10, <1>11, <1>12 DEF Next

-----------------------------------------------------------------------------
(* The walk of PKlock.                                                     *)

\* A thread waits for a mutex above those it holds.
LEMMA WaitsUp ==
    ASSUME Inv, Ordered, NEW t \in Threads, NEW m \in Mutexes, owner[m] = t,
           mutexWaiting[t] # NoMutex
    PROVE  mutexWaiting[t] \in Mutexes /\ m < mutexWaiting[t]
<1> DEFINE k == mutexWaiting[t]
<1>1. k \in Mutexes
  BY DEF Inv, TypeOK
<1>2. t \in waiting[k]
  BY <1>1 DEF Inv, Queues
<1>3. at[t] \in InLoop /\ this[t] = k /\ owner[k] # t
  BY <1>1, <1>2 DEF Inv, Queues
<1>4. nested[t][m] > 0
  BY <1>3 DEF Inv, Counts
<1>5. m <= k
  BY <1>3, <1>4 DEF Ordered, InLoop
<1>6. m \in Nat /\ k \in Nat /\ m # k
  BY <1>1, <1>3, SyncAssumption
<1>7. QED BY <1>1, <1>5, <1>6

LEMMA ChainClosed ==
    ASSUME Inv, NEW o \in Threads, NEW u \in Chain(o), mutexWaiting[u] # NoMutex
    PROVE  owner[mutexWaiting[u]] \in Chain(o)
<1>1. u \in Threads /\ mutexWaiting[u] \in Mutexes
  BY DEF Chain, Inv, TypeOK
<1>2. owner[mutexWaiting[u]] \in Threads
  BY <1>1 DEF Inv, Queues, TypeOK
<1>3. QED BY <1>2 DEF Chain

\* Whom the walk reaches holds a mutex that another it reaches waits for, but
\* for the first.
LEMMA ChainOwns ==
    ASSUME Inv, NEW o \in Threads, NEW u \in Chain(o), u # o
    PROVE  \E v \in Chain(o) : mutexWaiting[v] # NoMutex /\ owner[mutexWaiting[v]] = u
<1> SUFFICES ASSUME \A v \in Chain(o) : mutexWaiting[v] # NoMutex => owner[mutexWaiting[v]] # u
             PROVE  FALSE
  OBVIOUS
<1> DEFINE S == Chain(o) \ {u}
<1>1. S \in SUBSET Threads /\ o \in S
  BY DEF Chain
<1>2. \A v \in S : mutexWaiting[v] # NoMutex => owner[mutexWaiting[v]] \in S
  BY ChainClosed
<1>3. u \in S
  <2> HIDE DEF S
  <2> QED BY <1>1, <1>2 DEF Chain
<1>4. QED BY <1>3

\* The walk from the owner of m only meets threads that wait for mutexes
\* above m; so it ends, and never comes back to m.
LEMMA ChainAbove ==
    ASSUME Inv, Ordered, NEW m \in Mutexes, owner[m] \in Threads, NEW u \in Chain(owner[m]),
           mutexWaiting[u] # NoMutex
    PROVE  mutexWaiting[u] \in Mutexes /\ m < mutexWaiting[u]
<1> DEFINE S == {v \in Threads :
                    mutexWaiting[v] # NoMutex => mutexWaiting[v] \in Mutexes /\ m < mutexWaiting[v]}
<1>1. owner[m] \in S
  BY WaitsUp
<1>2. ASSUME NEW v \in S, mutexWaiting[v] # NoMutex
      PROVE  owner[mutexWaiting[v]] \in S
  <2> DEFINE k == mutexWaiting[v]
             w == owner[k]
  <2>1. v \in Threads /\ k \in Mutexes /\ m < k
    BY <1>2
  <2>2. w \in Threads
    BY <2>1 DEF Inv, Queues, TypeOK
  <2>3. mutexWaiting[w] # NoMutex => mutexWaiting[w] \in Mutexes /\ k < mutexWaiting[w]
    BY <2>1, <2>2, WaitsUp
  <2>4. mutexWaiting[w] # NoMutex => m < mutexWaiting[w]
    <3>1. SUFFICES ASSUME mutexWaiting[w] # NoMutex PROVE m < mutexWaiting[w]
      OBVIOUS
    <3>2. mutexWaiting[w] \in Mutexes /\ k < mutexWaiting[w]
      BY <2>3, <3>1
    <3>3. m \in Nat /\ k \in Nat /\ mutexWaiting[w] \in Nat
      BY <2>1, <3>2, SyncAssumption
    <3>4. QED
      <4> HIDE DEF k, w
      <4> QED BY <2>1, <3>2, <3>3
  <2>5. QED BY <2>2, <2>3, <2>4
<1>3. u \in S
  <2>1. S \in SUBSET Threads
    OBVIOUS
  <2> HIDE DEF S
  <2>2. QED BY <1>1, <1>2, <2>1 DEF Chain
<1>4. QED BY <1>3

-----------------------------------------------------------------------------
(* What the steps do to the priorities.                                    *)

\* A thread in the program, or one that has been signalled, is in no heap.
LEMMA NotWaiting ==
    ASSUME Queues, NEW t \in Threads, at[t] \notin InLoop
    PROVE  \A m \in Mutexes : t \notin waiting[m]
BY DEF Queues

LEMMA TakeLends ==
    ASSUME Inv, Lending, NEW t \in Threads, NEW m \in Mutexes, Take(t, m), UNCHANGED base
    PROVE  Lending'
<1>1. /\ owner[m] = NoThread /\ owner' = [owner EXCEPT ![m] = t]
      /\ mutexLocked' = [mutexLocked EXCEPT ![t] = @ \cup {m}]
      /\ UNCHANGED <<waiting, front, priority>>
  BY DEF Take
<1>2. mutexLocked[t] # {} => UNCHANGED savedPriority
  BY DEF Take
<1>3. mutexLocked[t] = {} => savedPriority' = [savedPriority EXCEPT ![t] = priority[t]]
  BY DEF Take
<1>4. TypeOK /\ NoThread \notin Threads
  BY SyncAssumption DEF Inv
<1>5. \A u \in Threads : mutexLocked'[u] = IF u = t THEN mutexLocked[u] \cup {m} ELSE mutexLocked[u]
  BY <1>1, <1>4 DEF TypeOK
<1>6. Accounts'
  <2>1. \A u \in Threads, k \in Mutexes : k \in mutexLocked'[u] <=> owner'[k] = u
    BY <1>1, <1>4, <1>5 DEF Lending, Accounts, TypeOK
  <2>2. \A u \in Threads : IF mutexLocked'[u] = {} THEN priority[u] = base[u]
                           ELSE savedPriority'[u] = base[u]
    <3>1. mutexLocked[t] = {} => savedPriority'[t] = priority[t]
      BY <1>3, <1>4 DEF TypeOK
    <3>2. \A u \in Threads \ {t} : savedPriority'[u] = savedPriority[u]
      BY <1>2, <1>3, <1>4 DEF TypeOK
    <3>3. \A u \in Threads : IF mutexLocked[u] = {} THEN priority[u] = base[u]
                             ELSE savedPriority[u] = base[u]
      BY DEF Lending, Accounts
    <3>4. mutexLocked'[t] # {} /\ savedPriority'[t] = base[t]
      BY <1>2, <1>5, <3>1, <3>3
    <3>5. \A u \in Threads \ {t} : mutexLocked'[u] = mutexLocked[u]
      BY <1>5
    <3>6. QED BY <3>2, <3>3, <3>4, <3>5
  <2>3. QED BY <1>1, <2>1, <2>2 DEF Accounts
<1>7. HeapOrder'
  BY <1>1 DEF Lending, HeapOrder
<1>8. NothingKept'
  <2>1. \A u \in Threads : mutexLocked[u] \subseteq mutexLocked'[u]
    BY <1>5
  <2>2. QED BY <1>1, <2>1 DEF Lending, NothingKept
<1>9. QED BY <1>6, <1>7, <1>8 DEF Lending

LEMMA EnqueueLends ==
    ASSUME Inv, Ordered, Lending, NEW t \in Threads, NEW m \in Mutexes, Enqueue(t, m),
           at[t] \notin InLoop, UNCHANGED base
    PROVE  Lending'
<1> DEFINE o      == owner[m]
           chain  == IF priority[t] > priority[o] THEN Chain(o) ELSE {}
           again  == WalkHeaps(chain)
           pushed == IF waiting[m] = {} \/ priority[t] > priority[front[m]]
                     THEN t ELSE front[m]
<1>1. /\ o \in Threads /\ o # t
      /\ waiting' = [waiting EXCEPT ![m] = @ \cup {t}]
      /\ UNCHANGED <<owner, savedPriority, mutexLocked>>
  BY DEF Enqueue, Inv, TypeOK
<1>2. \A u \in Threads : priority'[u] = IF u \in chain THEN priority[t] ELSE priority[u]
  <2> HIDE DEF chain
  <2>1. priority' = [u \in Threads |-> IF u \in chain
                                       THEN WalkPriority(priority[u], priority[t])
                                       ELSE priority[u]]
    BY DEF Enqueue, chain
  <2>2. QED BY <2>1 DEF WalkPriority
<1>3. PICK f \in [again -> Threads] :
        /\ \A k \in again : f[k] \in Fronts(waiting[k], priority')
        /\ front' = [k \in Mutexes |-> IF k \in again THEN f[k]
                                       ELSE IF k = m THEN pushed ELSE front[k]]
  BY DEF Enqueue
<1>4. chain \subseteq Threads /\ (chain = {} \/ o \in chain)
  BY <1>1 DEF Chain
<1>5. \A u \in chain : mutexWaiting[u] # NoMutex =>
          mutexWaiting[u] \in Mutexes /\ m < mutexWaiting[u]
  BY <1>1, ChainAbove
<1>6. m \notin again
  <2>1. m \in Nat
    BY SyncAssumption
  <2> HIDE DEF chain
  <2>2. QED BY <1>5, <2>1 DEF WalkHeaps
<1>7. \A u \in chain : mutexWaiting[u] # NoMutex => owner[mutexWaiting[u]] \in chain
  BY <1>1, ChainClosed
<1>8. \A u \in chain : u # o =>
          \E v \in chain : mutexWaiting[v] # NoMutex /\ owner[mutexWaiting[v]] = u
  BY <1>1, ChainOwns
<1>9. TypeOK /\ Queues /\ NoMutex \notin Mutexes
  BY SyncAssumption DEF Inv
<1>10. \A u \in Threads : priority[u] \in Priorities /\ priority[u] \in Nat
  BY <1>9 DEF TypeOK, Priorities
<1>11. \A k \in Mutexes : t \notin waiting[k]
  BY <1>9, NotWaiting
<1>12. \A k \in Mutexes : waiting'[k] = IF k = m THEN waiting[m] \cup {t} ELSE waiting[k]
  BY <1>1, <1>9 DEF TypeOK
<1>13. \A u \in chain : mutexLocked[u] # {}
  <2>1. \A u \in chain : \E k \in Mutexes : owner[k] = u
    BY <1>5, <1>8
  <2>2. QED BY <1>4, <2>1 DEF Lending, Accounts
<1>14. priority'[t] = priority[t]
  BY <1>2
<1>15. \A u \in Threads : priority'[u] \in Nat
  BY <1>2, <1>10
<1> HIDE DEF chain, again, pushed
<1>16. Accounts'
  <2>1. \A u \in Threads : mutexLocked[u] = {} => priority'[u] = priority[u]
    BY <1>2, <1>13
  <2>2. QED BY <1>1, <2>1 DEF Lending, Accounts
<1>17. HeapOrder'
  <2> SUFFICES ASSUME NEW k \in Mutexes, waiting'[k] # {}
               PROVE  /\ front'[k] \in waiting'[k]
                      /\ \A u \in waiting'[k] : priority'[u] <= priority'[front'[k]]
    BY DEF HeapOrder
  <2>1. CASE k \in again
    <3>1. k # m /\ waiting'[k] = waiting[k] /\ front'[k] = f[k]
      BY <1>3, <1>6, <1>12, <2>1
    <3>2. f[k] \in Fronts(waiting[k], priority') /\ waiting[k] # {}
      BY <1>3, <2>1, <3>1
    <3>3. QED BY <3>1, <3>2 DEF Fronts
  <2>2. CASE k \notin again
    <3>1. \A u \in waiting[k] : priority'[u] = priority[u]
      <4> SUFFICES ASSUME NEW u \in waiting[k], u \in chain PROVE FALSE
        BY <1>2, <1>9 DEF TypeOK
      <4>1. mutexWaiting[u] = k
        BY <1>4, <1>9 DEF Queues
      <4>2. QED BY <1>9, <2>2, <4>1 DEF again, WalkHeaps
    <3>2. CASE k # m
      <4>1. waiting'[k] = waiting[k] /\ front'[k] = front[k]
        BY <1>3, <1>12, <2>2, <3>2
      <4>2. QED BY <3>1, <4>1 DEF Lending, HeapOrder
    <3>3. CASE k = m
      <4>1. waiting'[m] = waiting[m] \cup {t} /\ front'[m] = pushed
        BY <1>3, <1>12, <2>2, <3>3
      <4>2. waiting[m] # {} =>
                /\ front[m] \in waiting[m] /\ front[m] \in Threads
                /\ \A u \in waiting[m] : priority[u] <= priority[front[m]]
        BY <1>9 DEF Lending, HeapOrder, TypeOK
      <4>3. waiting[m] \subseteq Threads
        BY <1>9 DEF TypeOK
      <4>4. CASE waiting[m] = {}
        BY <1>15, <3>3, <4>1, <4>4 DEF pushed
      <4>5. CASE waiting[m] # {} /\ priority[t] > priority[front[m]]
        <5>1. pushed = t
          BY <4>5 DEF pushed
        <5>2. \A u \in waiting[m] : priority'[u] <= priority'[t]
          BY <1>10, <1>14, <3>1, <3>3, <4>2, <4>3, <4>5
        <5>3. QED BY <1>15, <3>3, <4>1, <5>1, <5>2
      <4>6. CASE waiting[m] # {} /\ ~(priority[t] > priority[front[m]])
        <5>1. pushed = front[m]
          BY <4>6 DEF pushed
        <5>2. priority'[t] <= priority'[front[m]]
          BY <1>10, <1>14, <3>1, <3>3, <4>2, <4>6
        <5>3. QED BY <3>1, <3>3, <4>1, <4>2, <4>6, <5>1, <5>2
      <4>7. QED BY <4>4, <4>5, <4>6
    <3>4. QED BY <3>2, <3>3
  <2>3. QED BY <2>1, <2>2
<1>18. NothingKept'
  <2> SUFFICES ASSUME NEW u \in Threads, ~(priority'[u] <= base[u])
               PROVE  \E k \in mutexLocked[u] : \E v \in waiting'[k] :
                          priority'[u] <= priority'[v]
    BY <1>1 DEF NothingKept
  <2>1. CASE u \in chain /\ u = o
    <3>1. m \in mutexLocked[u] /\ t \in waiting'[m]
      BY <1>12, <2>1 DEF Lending, Accounts
    <3>2. priority'[u] <= priority'[t]
      BY <1>2, <1>10, <1>14, <2>1
    <3>3. QED BY <3>1, <3>2
  <2>2. CASE u \in chain /\ u # o
    <3>1. PICK v \in chain : mutexWaiting[v] # NoMutex /\ owner[mutexWaiting[v]] = u
      BY <1>8, <2>2
    <3>2. v \in Threads /\ mutexWaiting[v] \in Mutexes
      BY <1>4, <1>5, <3>1
    <3>3. v \in waiting'[mutexWaiting[v]] /\ mutexWaiting[v] \in mutexLocked[u]
      BY <1>9, <1>12, <3>1, <3>2 DEF Queues, Lending, Accounts
    <3>4. priority'[u] = priority[t] /\ priority'[v] = priority[t]
      BY <1>2, <2>2, <3>2
    <3>5. QED BY <1>10, <3>3, <3>4
  <2>3. CASE u \notin chain
    <3>1. priority'[u] = priority[u]
      BY <1>2, <2>3
    <3>2. PICK k \in mutexLocked[u] : \E v \in waiting[k] : priority[u] <= priority[v]
      BY <3>1 DEF Lending, NothingKept
    <3>3. PICK v \in waiting[k] : priority[u] <= priority[v]
      BY <3>2
    <3>4. k \in Mutexes /\ v \in Threads /\ owner[k] = u
      BY <1>9, <3>3 DEF TypeOK, Lending, Accounts
    <3>5. v \notin chain
      BY <1>7, <1>9, <2>3, <3>3, <3>4 DEF Queues
    <3>6. v \in waiting'[k] /\ priority'[v] = priority[v]
      BY <1>2, <1>12, <3>3, <3>4, <3>5
    <3>7. QED BY <3>1, <3>3, <3>6
  <2>4. QED BY <2>1, <2>2, <2>3
<1>19. QED BY <1>16, <1>17, <1>18 DEF Lending

\* What a thread inherits, and why: its own priority, or that of the front of
\* the heap of a mutex it keeps.
LEMMA InheritedFrom ==
    ASSUME TypeOK, Queues, NEW saved \in Priorities, NEW locked \in SUBSET Mutexes
    PROVE  \/ Inherited(saved, locked, priority) = saved
           \/ \E m \in locked :
                 waiting[m] # {} /\ Inherited(saved, locked, priority) = priority[front[m]]
<1> DEFINE S == {saved} \cup {priority[front[m]] : m \in {k \in locked : waiting[k] # {}}}
<1>1. \A m \in locked : waiting[m] # {} => front[m] \in Threads
  BY DEF Queues, TypeOK
<1>2. S \subseteq Priorities
  BY <1>1 DEF TypeOK
<1>3. Highest(S) \in S
  <2> HIDE DEF S
  <2> S # {} BY DEF S
  <2> QED BY <1>2, HighestIn
<1>4. QED BY <1>3 DEF Inherited

LEMMA ReleaseLends ==
    ASSUME Inv, Lending, NEW t \in Threads, NEW m \in Mutexes, Release(t, m),
           at[t] \notin InLoop, UNCHANGED base
    PROVE  Lending'
<1> DEFINE left  == mutexLocked[t] \ {m}
           given == [priority EXCEPT ![t] = GivenBack(t, left)]
           heir  == front[m]
<1>1. TypeOK /\ Queues /\ NoThread \notin Threads /\ NoMutex \notin Mutexes
  BY SyncAssumption DEF Inv
<1>2. \A k \in Mutexes : t \notin waiting[k]
  BY <1>1, NotWaiting
<1>3. owner[m] = t /\ m \in mutexLocked[t] /\ left \in SUBSET Mutexes
  BY <1>1 DEF Release, Lending, Accounts, TypeOK
<1>4. given \in [Threads -> Priorities] /\ \A u \in Threads \ {t} : given[u] = priority[u]
  BY <1>1, <1>3, GivenBackType DEF TypeOK
<1>5. savedPriority[t] = base[t] /\ base[t] \in Nat /\ savedPriority[t] \in Priorities
  BY <1>1, <1>3 DEF Lending, Accounts, TypeOK, Priorities
<1>6. given[t] = GivenBack(t, left)
  BY <1>1 DEF TypeOK
<1>7. left = {} => given[t] = base[t]
  BY <1>5, <1>6 DEF GivenBack
<1>8. \/ given[t] = base[t]
      \/ \E k \in left : waiting[k] # {} /\ given[t] = priority[front[k]]
  <2> HIDE DEF left, given
  <2>1. \/ Inherited(savedPriority[t], left, priority) = savedPriority[t]
        \/ \E k \in left : /\ waiting[k] # {}
                           /\ Inherited(savedPriority[t], left, priority) = priority[front[k]]
    BY <1>1, <1>3, <1>5, InheritedFrom
  <2>2. QED BY <1>5, <1>6, <2>1 DEF GivenBack
<1>9. \A u \in Threads : given[u] \in Nat
  BY <1>4 DEF Priorities
<1> HIDE DEF given
<1>10. CASE waiting[m] = {}
  <2>1. /\ owner' = [owner EXCEPT ![m] = NoThread]
        /\ mutexLocked' = [mutexLocked EXCEPT ![t] = left]
        /\ priority' = given
        /\ UNCHANGED <<waiting, front, savedPriority>>
    BY <1>10 DEF Release, given
  <2>2. \A u \in Threads : mutexLocked'[u] = IF u = t THEN left ELSE mutexLocked[u]
    BY <1>1, <2>1 DEF TypeOK
  <2>3. Accounts'
    <3>1. \A u \in Threads, k \in Mutexes : k \in mutexLocked'[u] <=> owner'[k] = u
      BY <1>1, <1>3, <2>1, <2>2 DEF Lending, Accounts, TypeOK
    <3>2. \A u \in Threads : IF mutexLocked'[u] = {} THEN given[u] = base[u]
                             ELSE savedPriority[u] = base[u]
      BY <1>4, <1>5, <1>7, <2>2 DEF Lending, Accounts
    <3>3. QED BY <2>1, <3>1, <3>2 DEF Accounts
  <2>4. HeapOrder'
    <3>1. \A k \in Mutexes : \A u \in waiting[k] : given[u] = priority[u]
      BY <1>1, <1>2, <1>4 DEF TypeOK
    <3>2. QED BY <2>1, <3>1 DEF Lending, HeapOrder
  <2>5. NothingKept'
    <3>1. \A k \in Mutexes : \A u \in waiting[k] : given[u] = priority[u]
      BY <1>1, <1>2, <1>4 DEF TypeOK
    <3> SUFFICES ASSUME NEW u \in Threads, ~(given[u] <= base[u])
                 PROVE  \E k \in mutexLocked'[u] : \E v \in waiting[k] : given[u] <= given[v]
      BY <2>1 DEF NothingKept
    <3>2. CASE u = t
      <4>1. PICK k \in left : waiting[k] # {} /\ given[t] = priority[front[k]]
        BY <1>5, <1>8, <3>2
      <4>2. k \in Mutexes /\ front[k] \in waiting[k]
        BY <1>1, <1>3, <4>1 DEF Queues
      <4>3. given[front[k]] = given[t]
        BY <3>1, <4>1, <4>2
      <4>4. QED BY <1>9, <2>2, <3>2, <4>1, <4>2, <4>3
    <3>3. CASE u # t
      <4>1. PICK k \in mutexLocked[u] : \E v \in waiting[k] : priority[u] <= priority[v]
        BY <1>4, <3>3 DEF Lending, NothingKept
      <4>2. k \in Mutexes
        BY <1>1, <4>1 DEF TypeOK
      <4>3. QED BY <1>4, <2>2, <3>1, <3>3, <4>1, <4>2
    <3>4. QED BY <3>2, <3>3
  <2>6. QED BY <2>3, <2>4, <2>5 DEF Lending
<1>11. CASE waiting[m] # {}
  <2>1. /\ owner' = [owner EXCEPT ![m] = heir]
        /\ waiting' = [waiting EXCEPT ![m] = @ \ {heir}]
        /\ savedPriority' = IF mutexLocked[heir] = {}
                            THEN [savedPriority EXCEPT ![heir] = given[heir]]
                            ELSE savedPriority
        /\ mutexLocked' = [mutexLocked EXCEPT ![t] = left, ![heir] = @ \cup {m}]
    BY <1>11 DEF Release, given
  <2>2. PICK f \in AfterPop(m, given) :
          /\ front' = [front EXCEPT ![m] = f]
          /\ priority' = IF f # NoThread /\ given[f] > given[heir]
                         THEN [given EXCEPT ![heir] = given[f]]
                         ELSE given
    BY <1>11 DEF Release, given
  <2>3. heir \in waiting[m] /\ heir \in Threads /\ heir # t
    BY <1>1, <1>2, <1>11 DEF Queues, TypeOK
  <2>4. \A k \in Mutexes \ {m} : heir \notin waiting[k]
    BY <1>1, <2>3 DEF Queues
  <2>5. \A k \in Mutexes : waiting'[k] = IF k = m THEN waiting[m] \ {heir} ELSE waiting[k]
    BY <1>1, <2>1 DEF TypeOK
  <2>6. \A k \in Mutexes : waiting'[k] \subseteq Threads \ {t, heir}
    <3> HIDE DEF heir
    <3>1. \A k \in Mutexes : waiting[k] \subseteq Threads
      BY <1>1 DEF TypeOK
    <3>2. QED BY <1>2, <2>4, <2>5, <3>1
  <2>7. \A u \in Threads : mutexLocked'[u] = IF u = t THEN left
                                             ELSE IF u = heir THEN mutexLocked[u] \cup {m}
                                             ELSE mutexLocked[u]
    <3> HIDE DEF heir
    <3> QED BY <1>1, <2>1, <2>3 DEF TypeOK
  <2>8. waiting'[m] # {} => /\ f \in waiting'[m]
                            /\ \A u \in waiting'[m] : given[u] <= given[f]
    BY <2>2, <2>5 DEF AfterPop, Fronts
  <2>9. waiting'[m] = {} => f = NoThread
    BY <2>2, <2>5 DEF AfterPop, Fronts
  <2> HIDE DEF heir
  <2>10. \A u \in Threads \ {heir} : priority'[u] = given[u]
    BY <1>4, <2>2, <2>3
  <2>11. \A u \in Threads \ {heir, t} : priority'[u] = priority[u]
    BY <1>4, <2>10
  <2>12. \/ priority'[heir] = priority[heir]
         \/ f \in waiting'[m] /\ priority'[heir] = given[f]
    BY <1>4, <2>2, <2>3, <2>9, <2>8
  <2>13. priority'[t] = given[t]
    BY <2>3, <2>10
  <2>14. Accounts'
    <3>1. \A u \in Threads, k \in Mutexes : k \in mutexLocked'[u] <=> owner'[k] = u
      <4>1. \A k \in Mutexes : owner'[k] = IF k = m THEN heir ELSE owner[k]
        BY <1>1, <2>1 DEF TypeOK
      <4>2. \A u \in Threads, k \in Mutexes : k \in mutexLocked[u] <=> owner[k] = u
        BY DEF Lending, Accounts
      <4>3. ASSUME NEW k \in Mutexes PROVE k \in mutexLocked'[t] <=> owner'[k] = t
        <5>1. mutexLocked'[t] = mutexLocked[t] \ {m}
          BY <2>7
        <5>2. k \in mutexLocked[t] <=> owner[k] = t
          BY <4>2
        <5>3. QED BY <2>3, <4>1, <5>1, <5>2
      <4>4. ASSUME NEW k \in Mutexes PROVE k \in mutexLocked'[heir] <=> owner'[k] = heir
        <5>1. mutexLocked'[heir] = mutexLocked[heir] \cup {m}
          BY <2>3, <2>7
        <5>2. k \in mutexLocked[heir] <=> owner[k] = heir
          BY <2>3, <4>2
        <5>3. QED BY <4>1, <5>1, <5>2
      <4>5. ASSUME NEW u \in Threads \ {heir, t}, NEW k \in Mutexes
            PROVE  k \in mutexLocked'[u] <=> owner'[k] = u
        BY <1>3, <2>7, <4>1, <4>2
      <4>6. QED BY <4>3, <4>4, <4>5
    <3>2. savedPriority'[heir] = base[heir]
      <4>1. mutexLocked[heir] = {} => savedPriority'[heir] = priority[heir]
        BY <1>1, <1>4, <2>1, <2>3 DEF TypeOK
      <4>2. QED BY <2>1, <2>3, <4>1 DEF Lending, Accounts
    <3>3. \A u \in Threads \ {heir} : savedPriority'[u] = savedPriority[u]
      BY <1>1, <2>1 DEF TypeOK
    <3>4. \A u \in Threads : IF mutexLocked'[u] = {} THEN priority'[u] = base[u]
                             ELSE savedPriority'[u] = base[u]
      <4>1. ASSUME NEW u \in Threads \ {heir, t}
            PROVE  IF mutexLocked'[u] = {} THEN priority'[u] = base[u]
                   ELSE savedPriority'[u] = base[u]
        BY <2>7, <2>11, <3>3 DEF Lending, Accounts
      <4>2. IF mutexLocked'[t] = {} THEN priority'[t] = base[t]
            ELSE savedPriority'[t] = base[t]
        BY <1>5, <1>7, <2>3, <2>7, <2>13, <3>3
      <4>3. mutexLocked'[heir] # {}
        BY <2>3, <2>7
      <4>4. QED BY <3>2, <4>1, <4>2, <4>3
    <3>5. QED BY <3>1, <3>4 DEF Accounts
  <2>15. HeapOrder'
    <3> SUFFICES ASSUME NEW k \in Mutexes, waiting'[k] # {}
                 PROVE  /\ front'[k] \in waiting'[k]
                        /\ \A u \in waiting'[k] : priority'[u] <= priority'[front'[k]]
      BY DEF HeapOrder
    <3>1. CASE k = m
      <4>1. front'[m] = f
        BY <1>1, <2>2 DEF TypeOK
      <4>2. QED BY <2>6, <2>8, <2>10, <3>1, <4>1
    <3>2. CASE k # m
      <4>1. front'[k] = front[k] /\ waiting'[k] = waiting[k]
        BY <1>1, <2>2, <2>5, <3>2 DEF TypeOK
      <4>2. /\ front[k] \in waiting[k]
            /\ \A u \in waiting[k] : priority[u] <= priority[front[k]]
        BY <4>1 DEF Lending, HeapOrder
      <4>3. \A u \in waiting[k] : priority'[u] = priority[u]
        BY <2>6, <2>11, <4>1
      <4>4. QED BY <4>1, <4>2, <4>3
    <3>3. QED BY <3>1, <3>2
  <2>16. NothingKept'
    <3> SUFFICES ASSUME NEW u \in Threads, ~(priority'[u] <= base[u])
                 PROVE  \E k \in mutexLocked'[u] : \E v \in waiting'[k] :
                            priority'[u] <= priority'[v]
      BY DEF NothingKept
    <3>1. CASE u = t
      <4>1. PICK k \in left : waiting[k] # {} /\ given[t] = priority[front[k]]
        BY <1>5, <1>8, <2>13, <3>1
      <4>2. k \in Mutexes \ {m} /\ front[k] \in waiting[k]
        BY <1>1, <1>3, <4>1 DEF Queues
      <4>3. front[k] \in waiting'[k] /\ k \in mutexLocked'[t]
        BY <2>5, <2>7, <4>1, <4>2
      <4>4. priority'[front[k]] = priority[front[k]]
        BY <2>6, <2>11, <4>2, <4>3
      <4>5. priority'[t] <= priority'[front[k]]
        BY <1>9, <2>13, <4>1, <4>4
      <4>6. QED BY <3>1, <4>3, <4>5
    <3>2. ASSUME u # t, priority'[u] = priority[u]
          PROVE  \E k \in mutexLocked'[u] : \E v \in waiting'[k] :
                     priority'[u] <= priority'[v]
      <4>1. PICK k \in mutexLocked[u] : \E v \in waiting[k] : priority[u] <= priority[v]
        BY <3>2 DEF Lending, NothingKept
      <4>2. PICK v \in waiting[k] : priority[u] <= priority[v]
        BY <4>1
      <4>3. k \in Mutexes /\ owner[k] = u /\ k # m
        BY <1>1, <1>3, <3>2, <4>1 DEF TypeOK, Lending, Accounts
      <4>4. v \in waiting'[k] /\ k \in mutexLocked'[u]
        BY <2>5, <2>7, <3>2, <4>1, <4>2, <4>3
      <4>5. priority'[v] = priority[v]
        BY <2>6, <2>11, <4>3, <4>4
      <4>6. QED BY <3>2, <4>2, <4>4, <4>5
    <3>3. CASE u = heir
      <4>1. CASE f \in waiting'[m] /\ priority'[heir] = given[f]
        <5>1. m \in mutexLocked'[heir] /\ priority'[f] = given[f] /\ f \in Threads
          BY <2>3, <2>6, <2>7, <2>10, <4>1
        <5>2. QED BY <1>9, <3>3, <4>1, <5>1
      <4>2. CASE priority'[heir] = priority[heir]
        BY <2>3, <3>2, <3>3, <4>2
      <4>3. QED BY <2>12, <4>1, <4>2
    <3>4. CASE u \notin {t, heir}
      BY <2>11, <3>2, <3>4
    <3>5. QED BY <3>1, <3>3, <3>4
  <2>17. QED BY <2>14, <2>15, <2>16 DEF Lending
<1>12. QED BY <1>10, <1>11

LEMMA SetPriorityLends ==
    ASSUME Inv, Lending, NEW t \in Threads, NEW pr \in Priorities, SetPriority(t, pr)
    PROVE  Lending'
<1>1. TypeOK /\ Queues
  BY DEF Inv
<1>2. /\ at[t] = "run" /\ base' = [base EXCEPT ![t] = pr] /\ pr # base[t]
      /\ UNCHANGED <<owner, waiting, front, mutexLocked>>
  BY DEF SetPriority, Runs, mutexVars
<1>3. \A k \in Mutexes : t \notin waiting[k]
  BY <1>1, <1>2, NotWaiting DEF InLoop
<1>4. \A u \in Threads \ {t} : /\ priority'[u] = priority[u] /\ base'[u] = base[u]
                               /\ savedPriority'[u] = savedPriority[u]
  BY <1>1 DEF SetPriority, TypeOK
<1>5. base'[t] = pr
  BY <1>1, <1>2 DEF TypeOK
<1>6. mutexLocked[t] = {} => priority'[t] = pr
  BY <1>1 DEF SetPriority, TypeOK
<1>7. mutexLocked[t] # {} =>
          /\ savedPriority'[t] = pr
          /\ priority'[t] = Inherited(pr, mutexLocked[t], priority)
  BY <1>1, <1>2 DEF SetPriority, TypeOK, Lending, Accounts
<1>8. \A k \in Mutexes : \A u \in waiting[k] : priority'[u] = priority[u]
  BY <1>1, <1>3, <1>4 DEF TypeOK
<1>9. Accounts'
  BY <1>2, <1>4, <1>5, <1>6, <1>7 DEF Lending, Accounts
<1>10. HeapOrder'
  BY <1>2, <1>8 DEF Lending, HeapOrder
<1>11. NothingKept'
  <2> SUFFICES ASSUME NEW u \in Threads, ~(priority'[u] <= base'[u])
               PROVE  \E k \in mutexLocked[u] : \E v \in waiting[k] : priority'[u] <= priority'[v]
    BY <1>2 DEF NothingKept
  <2>1. CASE u = t
    <3>1. mutexLocked[t] \in SUBSET Mutexes /\ pr \in Nat
      BY <1>1 DEF TypeOK, Priorities
    <3>2. mutexLocked[t] # {} /\ priority'[t] # pr
      BY <1>5, <1>6, <2>1, <3>1
    <3>3. PICK k \in mutexLocked[t] : waiting[k] # {} /\ priority'[t] = priority[front[k]]
      BY <1>1, <1>7, <3>1, <3>2, InheritedFrom
    <3>4. k \in Mutexes /\ front[k] \in waiting[k] /\ front[k] \in Threads
      BY <1>1, <3>1, <3>3 DEF Queues, TypeOK
    <3>5. priority[front[k]] \in Nat /\ priority'[front[k]] = priority[front[k]]
      BY <1>1, <1>8, <3>4 DEF TypeOK, Priorities
    <3>6. QED BY <2>1, <3>3, <3>4, <3>5
  <2>2. CASE u # t
    <3>1. PICK k \in mutexLocked[u] : \E v \in waiting[k] : priority[u] <= priority[v]
      BY <1>4, <2>2 DEF Lending, NothingKept
    <3>2. k \in Mutexes
      BY <1>1, <3>1 DEF TypeOK
    <3>3. QED BY <1>4, <1>8, <2>2, <3>1, <3>2
  <2>3. QED BY <2>1, <2>2
<1>12. QED BY <1>9, <1>10, <1>11 DEF Lending

LEMMA LendingStep == Inv /\ Ordered /\ Lending /\ [Next]_vars => Lending'
<1> SUFFICES ASSUME Inv, Ordered, Lending, [Next]_vars PROVE Lending'
  OBVIOUS
<1>1. ASSUME UNCHANGED <<owner, waiting, front, priority, savedPriority, mutexLocked, base>>
      PROVE  Lending'
  BY <1>1 DEF Lending, Accounts, HeapOrder, NothingKept
<1>2. ASSUME NEW t \in Threads, NEW m \in Mutexes, Lock(t, m) PROVE Lending'
  <2>1. at[t] \notin InLoop /\ UNCHANGED base
    BY <1>2 DEF Lock, Runs, InLoop
  <2>2. QED
    BY <1>1, <1>2, <2>1, TakeLends, EnqueueLends DEF Lock, Deeper, threadVars
<1>3. ASSUME NEW t \in Threads, NEW m \in Mutexes, TryLock(t, m) PROVE Lending'
  BY <1>1, <1>3, TakeLends DEF TryLock, Deeper, threadVars
<1>4. ASSUME NEW t \in Threads, NEW m \in Mutexes, Unlock(t, m) PROVE Lending'
  <2>1. at[t] \notin InLoop /\ UNCHANGED base
    BY <1>4 DEF Unlock, Runs, InLoop
  <2>2. QED BY <1>1, <1>4, <2>1, ReleaseLends DEF Unlock, threadVars
<1>5. ASSUME NEW t \in Threads, CondWait(t) PROVE Lending'
  BY <1>5, ReleaseLends, SyncAssumption DEF CondWait, Runs, InLoop, userVars
<1>6. ASSUME NEW t \in Threads, CondReturn(t) PROVE Lending'
  <2>1. at[t] \notin InLoop /\ UNCHANGED base /\ this[t] \in Mutexes
    BY <1>6, ThisType DEF CondReturn, InLoop, userVars, Inv
  <2>2. QED BY <1>6, <2>1, TakeLends, EnqueueLends DEF CondReturn
<1>7. ASSUME NEW t \in Threads, NEW pr \in Priorities, SetPriority(t, pr) PROVE Lending'
  BY <1>7, SetPriorityLends
<1>8. ASSUME NEW t \in Threads,
             Granted(t) \/ WaitAgain(t) \/ Signal(t) \/ Broadcast(t) \/ Wakeup(t)
      PROVE  Lending'
  BY <1>1, <1>8
     DEF Granted, WaitAgain, Signal, Broadcast, Wakeup, mutexVars, threadVars, userVars
<1>9. CASE UNCHANGED vars
  BY <1>1, <1>9 DEF vars, mutexVars, threadVars, userVars
<1>10. QED BY <1>2, <1>3, <1>4, <1>5, <1>6, <1>7, <1>8, <1>9 DEF Next

LEMMA LendingHolds == Spec => [](Inv /\ Ordered /\ Lending)
<1>1. Init => Ordered /\ Lending
  <2> SUFFICES ASSUME Init PROVE Ordered /\ Lending
    OBVIOUS
  <2>1. Ordered
    BY DEF Init, Ordered
  <2>2. Accounts
    BY SyncAssumption DEF Init, Accounts
  <2>3. HeapOrder
    BY DEF Init, HeapOrder
  <2>4. NothingKept
    BY DEF Init, NothingKept, Priorities
  <2>5. QED BY <2>1, <2>2, <2>3, <2>4 DEF Lending
<1>2. QED BY <1>1, InvInit, InvStep, OrderedStep, LendingStep, PTL DEF Spec

\* The heap of a mutex is a heap at every moment, although the priorities of
\* the threads in it are changed behind its back by who waits elsewhere: the
\* next owner is a waiting thread of the highest priority.
THEOREM HeapsKept == Spec => []HeapOrder
<1>1. Lending => HeapOrder
  BY DEF Lending
<1>2. QED BY <1>1, LendingHolds, PTL

\* No thread keeps a priority that it neither asked for nor has from a thread
\* that still waits for one of its mutexes.
THEOREM AllGivenBack == Spec => []NothingKept
<1>1. Lending => NothingKept
  BY DEF Lending
<1>2. QED BY <1>1, LendingHolds, PTL

\* A thread that holds no mutex runs at the priority it last asked for: what
\* the walks of others did to it while it held one leaves no trace.
THEOREM OwnPriority ==
    Spec => [](\A t \in Threads : mutexLocked[t] = {} => priority[t] = base[t])
<1>1. Lending => \A t \in Threads : mutexLocked[t] = {} => priority[t] = base[t]
  BY DEF Lending, Accounts
<1>2. QED BY <1>1, LendingHolds, PTL

-----------------------------------------------------------------------------
(* Sync implements Locks.                                                  *)

LevelOf(t, m) ==
    IF owner[m] = t /\ this[t] # m THEN DepthToLevels(m, recursiveDepth[m]) ELSE 0

ParkedOf(t, m) ==
    IF at[t] \in {"cond", "relock"} /\ this[t] = m THEN DepthToLevels(m, depth[t]) ELSE 0

\* The abstract variables, entry by entry.
LocksRead ==
    /\ KernelLevels \in [Threads -> [Mutexes -> Nat]]
    /\ KernelParked \in [Threads -> [Mutexes -> Nat]]
    /\ \A t \in Threads, m \in Mutexes :
          KernelLevels[t][m] = LevelOf(t, m) /\ KernelParked[t][m] = ParkedOf(t, m)

LEMMA LocksType == Inv => LocksRead
<1> SUFFICES ASSUME Inv PROVE LocksRead
  OBVIOUS
<1>1. ASSUME NEW m \in Mutexes PROVE DepthToLevels(m, recursiveDepth[m]) \in Nat
  <2>1. recursiveDepth[m] \in Nat \cup {-1} /\ (m \in Recursive => recursiveDepth[m] >= 0)
    BY DEF Inv, TypeOK
  <2>2. QED BY <2>1 DEF DepthToLevels
<1>2. \A t \in Threads, m \in Mutexes : DepthToLevels(m, depth[t]) \in Nat
  BY DEF Inv, TypeOK, DepthToLevels
<1>3. \A t \in Threads, m \in Mutexes : LevelOf(t, m) \in Nat /\ ParkedOf(t, m) \in Nat
  BY <1>1, <1>2 DEF LevelOf, ParkedOf
<1>4. /\ KernelLevels = [t \in Threads |-> [m \in Mutexes |-> LevelOf(t, m)]]
      /\ KernelParked = [t \in Threads |-> [m \in Mutexes |-> ParkedOf(t, m)]]
  BY DEF KernelLevels, KernelParked, LevelOf, ParkedOf
<1> HIDE DEF LevelOf, ParkedOf
<1>5. QED BY <1>3, <1>4 DEF LocksRead

LEMMA NextLocksType == Inv' => LocksRead'
BY LocksType, PTL

\* A table that differs in one entry.
LEMMA OneEntry ==
    ASSUME NEW f \in [Threads -> [Mutexes -> Nat]], NEW g \in [Threads -> [Mutexes -> Nat]],
           NEW t \in Threads, NEW m \in Mutexes,
           \A u \in Threads, k \in Mutexes : u # t \/ k # m => g[u][k] = f[u][k]
    PROVE  g = [f EXCEPT ![t][m] = g[t][m]]
<1>1. \A u \in Threads : g[u] \in [Mutexes -> Nat] /\ f[u] \in [Mutexes -> Nat]
  OBVIOUS
<1>2. ASSUME NEW u \in Threads \ {t} PROVE g[u] = f[u]
  <2>1. \A k \in Mutexes : g[u][k] = f[u][k]
    OBVIOUS
  <2>2. g[u] = [k \in Mutexes |-> g[u][k]] /\ f[u] = [k \in Mutexes |-> f[u][k]]
    BY <1>1
  <2>3. QED BY <2>1, <2>2
<1>3. g[t] = [f[t] EXCEPT ![m] = g[t][m]]
  BY <1>1
<1>4. g = [f EXCEPT ![t] = [f[t] EXCEPT ![m] = g[t][m]]]
  BY <1>2, <1>3
<1>5. QED BY <1>4

LEMMA NoEntry ==
    ASSUME NEW f \in [Threads -> [Mutexes -> Nat]], NEW g \in [Threads -> [Mutexes -> Nat]],
           \A u \in Threads, k \in Mutexes : g[u][k] = f[u][k]
    PROVE  g = f
<1>1. \A u \in Threads : g[u] \in [Mutexes -> Nat] /\ f[u] \in [Mutexes -> Nat]
  OBVIOUS
<1>2. ASSUME NEW u \in Threads PROVE g[u] = f[u]
  <2>1. g[u] = [k \in Mutexes |-> g[u][k]] /\ f[u] = [k \in Mutexes |-> f[u][k]]
    BY <1>1
  <2>2. QED BY <2>1
<1>3. QED BY <1>2

\* A thread in the program has parked nothing.
LEMMA NothingParked ==
    ASSUME Inv, NEW t \in Threads, at[t] \notin {"cond", "relock"}
    PROVE  KernelParked[t] = [k \in Mutexes |-> 0]
BY DEF KernelParked

-----------------------------------------------------------------------------
(* The four steps of Locks.                                                *)

\* The entries besides one that a step leaves alone.
OthersKept(t, m) ==
    \A u \in Threads, k \in Mutexes : u # t \/ k # m =>
        LevelOf(u, k)' = LevelOf(u, k) /\ ParkedOf(u, k)' = ParkedOf(u, k)

LEMMA Acquires ==
    ASSUME Inv, Inv', NEW t \in Threads, NEW m \in Mutexes, OthersKept(t, m),
           at[t] \notin {"cond", "relock"}, ParkedOf(t, m)' = ParkedOf(t, m),
           owner[m] \in {NoThread, t}, LevelOf(t, m) > 0 => m \in Recursive,
           LevelOf(t, m)' = LevelOf(t, m) + 1
    PROVE  L!Acquire(t, m)
<1>1. LocksRead /\ LocksRead'
  BY LocksType, NextLocksType
<1>2. L!Free(t, m)
  BY <1>1, SyncAssumption DEF L!Free, LocksRead, LevelOf
<1>3. KernelParked' = KernelParked
  <2>1. \A u \in Threads, k \in Mutexes : KernelParked'[u][k] = KernelParked[u][k]
    BY <1>1 DEF LocksRead, OthersKept
  <2>2. QED BY <1>1, <2>1, NoEntry DEF LocksRead
<1>4. KernelLevels' = [KernelLevels EXCEPT ![t][m] = KernelLevels'[t][m]]
  <2>1. \A u \in Threads, k \in Mutexes : u # t \/ k # m =>
            KernelLevels'[u][k] = KernelLevels[u][k]
    BY <1>1 DEF LocksRead, OthersKept
  <2>2. QED BY <1>1, <2>1, OneEntry DEF LocksRead
<1>5. KernelLevels'[t][m] = KernelLevels[t][m] + 1
  BY <1>1 DEF LocksRead
<1>6. KernelLevels' = [KernelLevels EXCEPT ![t][m] = @ + 1]
  BY <1>4, <1>5
<1>7. KernelLevels[t][m] > 0 => m \in Recursive
  BY <1>1 DEF LocksRead
<1>8. QED BY <1>2, <1>3, <1>6, <1>7, NothingParked DEF L!Acquire

LEMMA Releases ==
    ASSUME Inv, Inv', NEW t \in Threads, NEW m \in Mutexes, OthersKept(t, m),
           ParkedOf(t, m)' = ParkedOf(t, m),
           LevelOf(t, m) > 0, LevelOf(t, m)' = LevelOf(t, m) - 1
    PROVE  L!Release(t, m)
<1>1. LocksRead /\ LocksRead'
  BY LocksType, NextLocksType
<1>2. KernelParked' = KernelParked
  <2>1. \A u \in Threads, k \in Mutexes : KernelParked'[u][k] = KernelParked[u][k]
    BY <1>1 DEF LocksRead, OthersKept
  <2>2. QED BY <1>1, <2>1, NoEntry DEF LocksRead
<1>3. KernelLevels' = [KernelLevels EXCEPT ![t][m] = KernelLevels'[t][m]]
  <2>1. \A u \in Threads, k \in Mutexes : u # t \/ k # m =>
            KernelLevels'[u][k] = KernelLevels[u][k]
    BY <1>1 DEF LocksRead, OthersKept
  <2>2. QED BY <1>1, <2>1, OneEntry DEF LocksRead
<1>4. KernelLevels'[t][m] = KernelLevels[t][m] - 1 /\ KernelLevels[t][m] > 0
  BY <1>1 DEF LocksRead
<1>5. KernelLevels' = [KernelLevels EXCEPT ![t][m] = @ - 1]
  BY <1>3, <1>4
<1>6. QED BY <1>2, <1>4, <1>5 DEF L!Release

LEMMA Parks ==
    ASSUME Inv, Inv', NEW t \in Threads, NEW m \in Mutexes, OthersKept(t, m),
           LevelOf(t, m) > 0, LevelOf(t, m)' = 0, ParkedOf(t, m)' = LevelOf(t, m)
    PROVE  L!Park(t, m)
<1>1. LocksRead /\ LocksRead'
  BY LocksType, NextLocksType
<1>2. /\ KernelLevels' = [KernelLevels EXCEPT ![t][m] = KernelLevels'[t][m]]
      /\ KernelParked' = [KernelParked EXCEPT ![t][m] = KernelParked'[t][m]]
  <2>1. \A u \in Threads, k \in Mutexes : u # t \/ k # m =>
            /\ KernelLevels'[u][k] = KernelLevels[u][k]
            /\ KernelParked'[u][k] = KernelParked[u][k]
    BY <1>1 DEF LocksRead, OthersKept
  <2>2. QED BY <1>1, <2>1, OneEntry DEF LocksRead
<1>3. /\ KernelLevels[t][m] > 0 /\ KernelLevels'[t][m] = 0
      /\ KernelParked'[t][m] = KernelLevels[t][m]
  BY <1>1 DEF LocksRead
<1>4. QED BY <1>2, <1>3 DEF L!Park

LEMMA Unparks ==
    ASSUME Inv, Inv', NEW t \in Threads, NEW m \in Mutexes, OthersKept(t, m),
           owner[m] \in {NoThread, t},
           ParkedOf(t, m) > 0, ParkedOf(t, m)' = 0, LevelOf(t, m)' = ParkedOf(t, m)
    PROVE  L!Unpark(t, m)
<1>1. LocksRead /\ LocksRead'
  BY LocksType, NextLocksType
<1>2. /\ KernelLevels' = [KernelLevels EXCEPT ![t][m] = KernelLevels'[t][m]]
      /\ KernelParked' = [KernelParked EXCEPT ![t][m] = KernelParked'[t][m]]
  <2>1. \A u \in Threads, k \in Mutexes : u # t \/ k # m =>
            /\ KernelLevels'[u][k] = KernelLevels[u][k]
            /\ KernelParked'[u][k] = KernelParked[u][k]
    BY <1>1 DEF LocksRead, OthersKept
  <2>2. QED BY <1>1, <2>1, OneEntry DEF LocksRead
<1>3. /\ KernelParked[t][m] > 0 /\ KernelParked'[t][m] = 0
      /\ KernelLevels'[t][m] = KernelParked[t][m]
  BY <1>1 DEF LocksRead
<1>4. L!Free(t, m)
  BY <1>1, SyncAssumption DEF L!Free, LocksRead, LevelOf
<1>5. QED BY <1>2, <1>3, <1>4 DEF L!Unpark

\* A step that changes no entry.
LEMMA Stutters ==
    ASSUME Inv, Inv',
           \A u \in Threads, k \in Mutexes :
               LevelOf(u, k)' = LevelOf(u, k) /\ ParkedOf(u, k)' = ParkedOf(u, k)
    PROVE  UNCHANGED L!vars
<1>1. LocksRead /\ LocksRead'
  BY LocksType, NextLocksType
<1>2. \A u \in Threads, k \in Mutexes : /\ KernelLevels'[u][k] = KernelLevels[u][k]
                                        /\ KernelParked'[u][k] = KernelParked[u][k]
  BY <1>1 DEF LocksRead
<1>3. KernelLevels' = KernelLevels /\ KernelParked' = KernelParked
  BY <1>1, <1>2, NoEntry DEF LocksRead
<1>4. QED BY <1>3 DEF L!vars

-----------------------------------------------------------------------------
(* The steps of Sync.                                                      *)

\* What the invariant says of one thread and one mutex.
LEMMA Standing ==
    ASSUME Inv, NEW t \in Threads, NEW m \in Mutexes
    PROVE  /\ t # NoThread /\ m # NoMutex
           /\ recursiveDepth[m] \in Nat \cup {-1} /\ (m \in Recursive <=> recursiveDepth[m] >= 0)
           /\ depth[t] \in Nat
           /\ at[t] = "run" <=> this[t] = NoMutex
           /\ owner[m] = NoThread => (m \in Recursive => recursiveDepth[m] = 0)
           /\ owner[m] = t /\ this[t] = m => (m \in Recursive => recursiveDepth[m] = 0)
           /\ at[t] = "run" /\ nested[t][m] > 0 => owner[m] = t
           /\ at[t] = "run" /\ owner[m] = t => nested[t][m] = DepthToLevels(m, recursiveDepth[m])
BY SyncAssumption
   DEF Inv, TypeOK, Queues, Counts

\* Lock and TryLock, when the mutex is free or the thread's own.
LEMMA LockAcquires ==
    ASSUME Inv, Inv', NEW t \in Threads, NEW m \in Mutexes,
           at[t] = "run", UNCHANGED <<at, this, depth>>,
           (Take(t, m) /\ UNCHANGED recursiveDepth) \/ Deeper(t, m)
    PROVE  L!Acquire(t, m)
<1>1. /\ owner[m] \in {NoThread, t} /\ owner'[m] = t
      /\ \A k \in Mutexes \ {m} : owner'[k] = owner[k] /\ recursiveDepth'[k] = recursiveDepth[k]
  BY DEF Inv, TypeOK, Take, Deeper
<1>2. this[t] # m
  BY Standing
<1>3. OthersKept(t, m) /\ ParkedOf(t, m)' = ParkedOf(t, m)
  BY <1>1, SyncAssumption DEF OthersKept, LevelOf, ParkedOf
<1>4. (LevelOf(t, m) > 0 => m \in Recursive) /\ LevelOf(t, m)' = LevelOf(t, m) + 1
  <2>1. CASE Take(t, m) /\ UNCHANGED recursiveDepth
    <3>1. owner[m] # t /\ (m \in Recursive => recursiveDepth[m] = 0)
      BY <2>1, Standing DEF Take
    <3>2. QED BY <1>1, <1>2, <2>1, <3>1 DEF LevelOf, DepthToLevels
  <2>2. CASE Deeper(t, m)
    <3>1. owner[m] = t /\ m \in Recursive /\ recursiveDepth[m] \in Nat
          /\ recursiveDepth'[m] = recursiveDepth[m] + 1
      BY <2>2, Standing DEF Deeper, Inv, TypeOK
    <3>2. QED BY <1>1, <1>2, <3>1 DEF LevelOf, DepthToLevels
  <2>3. QED BY <2>1, <2>2
<1>5. QED BY <1>1, <1>3, <1>4, Acquires

\* To wait for a mutex changes nothing.
LEMMA EnqueueStutters ==
    ASSUME Inv, Inv', NEW t \in Threads, NEW m \in Mutexes,
           Enqueue(t, m), UNCHANGED <<recursiveDepth, depth>>,
           \/ at[t] = "run" /\ Waits(t, "lock", m)
           \/ at[t] = "cond" /\ this[t] = m /\ Waits(t, "relock", m)
    PROVE  UNCHANGED L!vars
<1>1. owner' = owner /\ owner[m] # t
  BY DEF Enqueue
<1>2. /\ \A u \in Threads \ {t} : at'[u] = at[u] /\ this'[u] = this[u]
      /\ this'[t] = m /\ at'[t] = IF at[t] = "run" THEN "lock" ELSE "relock"
  BY DEF Waits, Inv, TypeOK
<1>3. at[t] = "run" => this[t] = NoMutex
  BY Standing
<1>4. \A u \in Threads, k \in Mutexes :
          LevelOf(u, k)' = LevelOf(u, k) /\ ParkedOf(u, k)' = ParkedOf(u, k)
  BY <1>1, <1>2, <1>3, SyncAssumption DEF LevelOf, ParkedOf
<1>5. QED BY <1>4, Stutters

\* Who has a mutex that is given up is in a call that asks for it.
LEMMA HeirWaits ==
    ASSUME Inv, NEW t \in Threads, NEW m \in Mutexes, Release(t, m), at[t] = "run"
    PROVE  /\ \A k \in Mutexes \ {m} : owner'[k] = owner[k]
           /\ \A u \in Threads : owner'[m] = u => u # t /\ this[u] = m
BY Heir, SyncAssumption DEF Inv

LEMMA UnlockReleases ==
    ASSUME Inv, Inv', NEW t \in Threads, NEW m \in Mutexes, Unlock(t, m)
    PROVE  L!Release(t, m)
<1>1. at[t] = "run" /\ nested[t][m] > 0 /\ UNCHANGED <<at, this, depth>>
  BY DEF Unlock, Runs, callVars
<1>2. this[t] # m /\ owner[m] = t /\ recursiveDepth[m] \in Nat \cup {-1}
      /\ (m \in Recursive <=> recursiveDepth[m] >= 0)
  BY <1>1, Standing
<1>3. ParkedOf(t, m)' = ParkedOf(t, m)
  BY <1>1 DEF ParkedOf
<1>4. CASE /\ recursiveDepth[m] > 0 /\ recursiveDepth' = [recursiveDepth EXCEPT ![m] = @ - 1]
           /\ UNCHANGED <<owner, waiting, front, threadVars>>
  <2>1. /\ \A k \in Mutexes \ {m} : recursiveDepth'[k] = recursiveDepth[k]
        /\ recursiveDepth'[m] = recursiveDepth[m] - 1 /\ recursiveDepth[m] \in Nat
    BY <1>2, <1>4 DEF Inv, TypeOK
  <2>2. OthersKept(t, m)
    BY <1>1, <1>2, <1>4, <2>1 DEF OthersKept, LevelOf, ParkedOf
  <2>3. LevelOf(t, m) > 0 /\ LevelOf(t, m)' = LevelOf(t, m) - 1
    BY <1>1, <1>2, <1>4, <2>1 DEF LevelOf, DepthToLevels
  <2>4. QED BY <1>3, <2>2, <2>3, Releases
<1>5. CASE recursiveDepth[m] <= 0 /\ Release(t, m) /\ UNCHANGED recursiveDepth
  <2>1. /\ \A k \in Mutexes \ {m} : owner'[k] = owner[k]
        /\ \A u \in Threads : owner'[m] = u => u # t /\ this[u] = m
    BY <1>1, <1>5, HeirWaits
  <2>2. OthersKept(t, m)
    BY <1>1, <1>2, <1>5, <2>1 DEF OthersKept, LevelOf, ParkedOf
  <2>3. LevelOf(t, m) = 1 /\ LevelOf(t, m)' = 0
    BY <1>1, <1>2, <1>5, <2>1 DEF LevelOf, DepthToLevels
  <2>4. QED BY <1>3, <2>2, <2>3, Releases
<1>6. QED BY <1>4, <1>5 DEF Unlock

LEMMA CondWaitParks ==
    ASSUME Inv, Inv', NEW t \in Threads, CondWait(t)
    PROVE  L!Park(t, CondMutex)
<1> DEFINE m == CondMutex
<1>1. /\ m \in Mutexes /\ at[t] = "run" /\ nested[t][m] > 0 /\ Release(t, m)
      /\ at' = [at EXCEPT ![t] = "cond"] /\ this' = [this EXCEPT ![t] = m]
      /\ IF recursiveDepth[m] < 0
         THEN depth' = [depth EXCEPT ![t] = 0] /\ UNCHANGED recursiveDepth
         ELSE /\ depth' = [depth EXCEPT ![t] = recursiveDepth[m]]
              /\ recursiveDepth' = [recursiveDepth EXCEPT ![m] = 0]
  BY SyncAssumption DEF CondWait, Runs, Waits
<1> HIDE DEF m
<1>2. /\ this[t] = NoMutex /\ m # NoMutex /\ owner[m] = t /\ recursiveDepth[m] \in Nat \cup {-1}
      /\ (m \in Recursive <=> recursiveDepth[m] >= 0)
  BY <1>1, Standing
<1>3. /\ \A k \in Mutexes \ {m} : owner'[k] = owner[k]
      /\ \A u \in Threads : owner'[m] = u => u # t /\ this[u] = m
  BY <1>1, HeirWaits
<1>4. /\ \A u \in Threads \ {t} : at'[u] = at[u] /\ this'[u] = this[u] /\ depth'[u] = depth[u]
      /\ at'[t] = "cond" /\ this'[t] = m
      /\ \A k \in Mutexes \ {m} : recursiveDepth'[k] = recursiveDepth[k]
      /\ m \in Recursive => depth'[t] = recursiveDepth[m]
  BY <1>1, <1>2 DEF Inv, TypeOK
<1>5. OthersKept(t, m)
  <2>1. \A u \in Threads \ {t}, k \in Mutexes :
            LevelOf(u, k)' = LevelOf(u, k) /\ ParkedOf(u, k)' = ParkedOf(u, k)
    BY <1>2, <1>3, <1>4 DEF LevelOf, ParkedOf
  <2>2. \A k \in Mutexes \ {m} :
            LevelOf(t, k)' = LevelOf(t, k) /\ ParkedOf(t, k)' = ParkedOf(t, k)
    BY <1>1, <1>2, <1>3, <1>4, SyncAssumption DEF LevelOf, ParkedOf
  <2>3. QED BY <2>1, <2>2 DEF OthersKept
<1>6. LevelOf(t, m) > 0
  BY <1>2 DEF LevelOf, DepthToLevels
<1>7. LevelOf(t, m)' = 0
  BY <1>4 DEF LevelOf
<1>8. ParkedOf(t, m)' = LevelOf(t, m)
  BY <1>2, <1>4 DEF ParkedOf, LevelOf, DepthToLevels
<1>9. L!Park(t, m)
  BY <1>1, <1>5, <1>6, <1>7, <1>8, Parks
<1>10. QED BY <1>9 DEF m

\* A call returns with its mutex.
LEMMA Return ==
    ASSUME Inv, Inv', NEW t \in Threads, NEW m \in Mutexes,
           at[t] # "run", this[t] = m, Returns(t),
           owner[m] \in {t, NoThread}, owner'[m] = t,
           \A k \in Mutexes \ {m} : owner'[k] = owner[k],
           \A u \in Threads \ {t} : depth'[u] = depth[u],
           \/ at[t] = "lock" /\ owner[m] = t /\ UNCHANGED recursiveDepth
           \/ at[t] # "lock" /\ SetDepth(m, depth[t])
    PROVE  L!Acquire(t, m) \/ L!Unpark(t, m)
<1>0. /\ m # NoMutex /\ depth[t] \in Nat
      /\ recursiveDepth[m] \in Nat \cup {-1} /\ (m \in Recursive <=> recursiveDepth[m] >= 0)
      /\ at[t] \in {"lock", "cond", "relock"}
  <2>1. at[t] \in {"run", "lock", "cond", "relock"}
    BY DEF Inv, TypeOK
  <2>2. QED BY <2>1, Standing
<1>1. /\ \A u \in Threads \ {t} : at'[u] = at[u] /\ this'[u] = this[u]
      /\ at'[t] = "run" /\ this'[t] = NoMutex
  BY DEF Returns, Inv, TypeOK
<1>2. \A k \in Mutexes \ {m} : recursiveDepth'[k] = recursiveDepth[k]
  BY DEF SetDepth, Inv, TypeOK
<1>3. OthersKept(t, m)
  <2>1. \A u \in Threads \ {t}, k \in Mutexes :
            LevelOf(u, k)' = LevelOf(u, k) /\ ParkedOf(u, k)' = ParkedOf(u, k)
    BY <1>1, <1>2, SyncAssumption DEF LevelOf, ParkedOf
  <2>2. \A k \in Mutexes \ {m} :
            LevelOf(t, k)' = LevelOf(t, k) /\ ParkedOf(t, k)' = ParkedOf(t, k)
    BY <1>1, <1>2, SyncAssumption DEF LevelOf, ParkedOf
  <2>3. QED BY <2>1, <2>2 DEF OthersKept
<1>4. LevelOf(t, m) = 0 /\ ParkedOf(t, m)' = 0
      /\ LevelOf(t, m)' = DepthToLevels(m, recursiveDepth'[m])
  BY <1>0, <1>1 DEF LevelOf, ParkedOf
<1>5. CASE at[t] = "lock"
  <2>1. UNCHANGED recursiveDepth /\ owner[m] = t
    BY <1>5
  <2>2. LevelOf(t, m)' = 1
    BY <1>4, <2>1, Standing DEF DepthToLevels
  <2>3. ParkedOf(t, m) = 0
    BY <1>5 DEF ParkedOf
  <2>4. QED BY <1>3, <1>4, <1>5, <2>2, <2>3, Acquires
<1>6. CASE at[t] # "lock"
  <2>1. ParkedOf(t, m) = DepthToLevels(m, depth[t])
    BY <1>0, <1>6 DEF ParkedOf
  <2>2. DepthToLevels(m, recursiveDepth'[m]) = DepthToLevels(m, depth[t])
    BY <1>0, <1>6 DEF SetDepth, DepthToLevels, Inv, TypeOK
  <2>3. DepthToLevels(m, depth[t]) > 0
    BY <1>0 DEF DepthToLevels
  <2>4. QED BY <1>3, <1>4, <2>1, <2>2, <2>3, Unparks
<1>7. QED BY <1>5, <1>6

\* Each step of Sync is a step of Locks, or none.
LEMMA LocksStep == Inv /\ Next => L!Next \/ UNCHANGED L!vars
<1> SUFFICES ASSUME Inv, Next PROVE L!Next \/ UNCHANGED L!vars
  OBVIOUS
<1>0. Inv'
  BY InvStep
<1>1. ASSUME NEW t \in Threads, NEW m \in Mutexes, Lock(t, m) \/ TryLock(t, m)
      PROVE  L!Acquire(t, m) \/ UNCHANGED L!vars
  <2>1. at[t] = "run" /\ UNCHANGED depth
    BY <1>1 DEF Lock, TryLock, Runs, callVars
  <2>2. CASE /\ UNCHANGED <<at, this>>
             /\ (Take(t, m) /\ UNCHANGED recursiveDepth) \/ Deeper(t, m)
    BY <1>0, <2>1, <2>2, LockAcquires
  <2>3. CASE Enqueue(t, m) /\ Waits(t, "lock", m) /\ UNCHANGED recursiveDepth
    BY <1>0, <2>1, <2>3, EnqueueStutters
  <2>4. QED BY <1>1, <2>2, <2>3 DEF Lock, TryLock, callVars
<1>2. ASSUME NEW t \in Threads, NEW m \in Mutexes, Unlock(t, m) PROVE L!Release(t, m)
  BY <1>0, <1>2, UnlockReleases
<1>3. ASSUME NEW t \in Threads, Granted(t)
      PROVE  L!Acquire(t, this[t]) \/ L!Unpark(t, this[t])
  <2>1. at[t] # "run" /\ this[t] \in Mutexes
    BY <1>3, ThisType DEF Granted, Inv
  <2>2. \A u \in Threads \ {t} : depth'[u] = depth[u]
    BY <1>3 DEF Granted, Inv, TypeOK
  <2>3. QED BY <1>0, <1>3, <2>1, <2>2, Return DEF Granted
<1>4. ASSUME NEW t \in Threads, CondWait(t) PROVE L!Park(t, CondMutex)
  BY <1>0, <1>4, CondWaitParks
<1>5. ASSUME NEW t \in Threads, CondReturn(t)
      PROVE  L!Acquire(t, this[t]) \/ L!Unpark(t, this[t]) \/ UNCHANGED L!vars
  <2>1. at[t] = "cond" /\ at[t] # "run" /\ this[t] \in Mutexes
    BY <1>5, ThisType DEF CondReturn, Inv
  <2>2. CASE Take(t, this[t]) /\ SetDepth(this[t], depth[t]) /\ Returns(t) /\ UNCHANGED depth
    <3>1. /\ owner[this[t]] = NoThread /\ owner'[this[t]] = t
          /\ \A k \in Mutexes \ {this[t]} : owner'[k] = owner[k]
          /\ \A u \in Threads \ {t} : depth'[u] = depth[u]
      BY <2>1, <2>2 DEF Take, Inv, TypeOK
    <3>2. QED BY <1>0, <2>1, <2>2, <3>1, Return
  <2>3. CASE /\ Enqueue(t, this[t]) /\ Waits(t, "relock", this[t])
             /\ UNCHANGED <<recursiveDepth, depth>>
    BY <1>0, <2>1, <2>3, EnqueueStutters
  <2>4. QED BY <1>5, <2>2, <2>3 DEF CondReturn
<1>6. ASSUME NEW t \in Threads,
             \/ WaitAgain(t) \/ Signal(t) \/ Broadcast(t) \/ Wakeup(t)
             \/ \E pr \in Priorities : SetPriority(t, pr)
      PROVE  UNCHANGED L!vars
  <2>1. UNCHANGED <<owner, recursiveDepth, at, this, depth>>
    BY <1>6 DEF WaitAgain, Signal, Broadcast, Wakeup, SetPriority, mutexVars, callVars
  <2>2. QED BY <1>0, <2>1, Stutters DEF LevelOf, ParkedOf
<1>7. CondMutex \in Mutexes /\ \A t \in Threads : at[t] # "run" => this[t] \in Mutexes
  BY ThisType, SyncAssumption DEF Inv
<1>8. \A t \in Threads : Granted(t) \/ CondReturn(t) => this[t] \in Mutexes
  BY <1>7 DEF Granted, CondReturn
<1>9. QED BY <1>1, <1>2, <1>3, <1>4, <1>5, <1>6, <1>7, <1>8 DEF Next, L!Next

LEMMA LocksInit == Init => L!Init
BY SyncAssumption DEF Init, L!Init, KernelLevels, KernelParked

\* The mutexes and the condition variable of sync.cpp are abstract locks to
\* the program: lending priorities, reordering heaps, handovers and wakeups
\* that nobody asked for give no thread a mutex, and take none from it.
THEOREM MutexesAreLocks == Spec => ImplementsLocks
<1>1. Inv /\ UNCHANGED vars => UNCHANGED L!vars
  BY DEF vars, mutexVars, callVars, L!vars, KernelLevels, KernelParked
<1>2. Inv /\ [Next]_vars => [L!Next]_L!vars
  BY <1>1, LocksStep
<1>3. QED BY InvHolds, LocksInit, <1>2, PTL DEF Spec, ImplementsLocks, L!Spec
=============================================================================
