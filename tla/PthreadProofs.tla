---------------------------- MODULE PthreadProofs ----------------------------
(***************************************************************************)
(* Proofs about Pthread, for all threads and mutexes: the invariant of its *)
(* mutexes and its condition variable, and that each of its actions keeps  *)
(* it; and that each is a step of Locks.  QueueProofs adds the queue.      *)
(***************************************************************************)
EXTENDS Pthread, SequenceTheorems, TLAPS

InLoop   == {"lock", "relock"}
OffMutex == {"run", "away"}

Distinct(s) == \A i, j \in DOMAIN s : s[i] = s[j] => i = j

\* Who is in a list is there once, in the loop of a call that asks for the
\* mutex, and another thread has it; who is in that loop and in no list has
\* been given the mutex.
MutexLists ==
    /\ \A m \in Mutexes : Distinct(list[m])
    /\ \A t \in Threads : at[t] \in OffMutex <=> this[t] = NoMutex
    /\ \A t \in Threads, m \in Mutexes :
          t \in Elements(list[m]) => /\ at[t] \in InLoop /\ this[t] = m
                                     /\ owner[m] \notin {NoThread, t}
    /\ \A t \in Threads :
          at[t] \in InLoop => t \in Elements(list[this[t]]) \/ owner[this[t]] = t

\* The same of those who wait on the condition variable.
CondLists ==
    /\ Distinct(condList)
    /\ \A t \in Threads : t \in Elements(condList) => at[t] = "cond" /\ condWait[t]

Lists == MutexLists /\ CondLists

\* A thread sleeps only where somebody will wake it; of "away" Pthread says
\* nothing.
Sleeps ==
    /\ \A t \in Threads : wait[t] =>
          at[t] = "away" \/ (at[t] \in InLoop /\ t \in Elements(list[this[t]]))
    /\ \A t \in Threads : condWait[t] => t \in Elements(condList)

\* The program's count of its locks is the mutex's, but for the mutex of a
\* call that has not returned.
Counts ==
    /\ \A t \in Threads, m \in Mutexes :
          nested[t][m] > 0 /\ this[t] # m =>
              owner[m] = t /\ nested[t][m] = DepthToLevels(m, recursive[m])
    /\ \A t \in Threads, m \in Mutexes :
          owner[m] = t => IF this[t] = m THEN at[t] \in InLoop ELSE nested[t][m] > 0
    /\ \A m \in Recursive :
          (owner[m] = NoThread \/ this[owner[m]] = m) => recursive[m] = 0
    /\ \A t \in Threads :
          /\ at[t] = "lock" => nested[t][this[t]] = 0
          /\ at[t] \in {"cond", "relock"} =>
                 nested[t][this[t]] = DepthToLevels(this[t], depth[t])

PthreadInv == PthreadTypeOK /\ Lists /\ Sleeps /\ Counts

-----------------------------------------------------------------------------
(* Lists.                                                                  *)

\* A thread that is put last is in the list, and once.
LEMMA PutLast ==
    ASSUME NEW s \in Seq(Threads), Distinct(s), NEW t \in Threads, t \notin Elements(s)
    PROVE  /\ Append(s, t) \in Seq(Threads) /\ Distinct(Append(s, t))
           /\ Elements(Append(s, t)) = Elements(s) \cup {t}
<1> DEFINE n == Len(s) + 1
<1>1. /\ Append(s, t) \in Seq(Threads)
      /\ DOMAIN s = 1 .. Len(s) /\ Len(s) \in Nat /\ DOMAIN Append(s, t) = 1 .. n
      /\ \A i \in 1 .. Len(s) : Append(s, t)[i] = s[i]
      /\ Append(s, t)[n] = t
  OBVIOUS
<1>2. \A i \in 1 .. n : i = n \/ i \in 1 .. Len(s)
  BY <1>1
<1>3. \A i \in 1 .. Len(s) : s[i] # t /\ i \in 1 .. n
  BY <1>1 DEF Elements
<1>4. Distinct(Append(s, t))
  BY <1>1, <1>2, <1>3 DEF Distinct
<1>5. n \in 1 .. n
  BY <1>1
<1>6. QED BY <1>1, <1>2, <1>3, <1>4, <1>5 DEF Elements

\* When the first is taken out, all the others are left.
LEMMA TakeFirst ==
    ASSUME NEW s \in Seq(Threads), Distinct(s), s # <<>>
    PROVE  /\ Head(s) \in Threads /\ Head(s) \in Elements(s)
           /\ Tail(s) \in Seq(Threads) /\ Distinct(Tail(s))
           /\ Elements(Tail(s)) = Elements(s) \ {Head(s)}
<1>1. /\ Head(s) = s[1] /\ Head(s) \in Threads
      /\ Tail(s) \in Seq(Threads) /\ Len(Tail(s)) = Len(s) - 1
      /\ \A i \in 1 .. Len(s) - 1 : Tail(s)[i] = s[i + 1]
  BY HeadTailProperties
<1>2. /\ DOMAIN s = 1 .. Len(s) /\ Len(s) \in Nat /\ Len(s) > 0
      /\ DOMAIN Tail(s) = 1 .. Len(s) - 1
  BY <1>1
<1>3. \A i \in 1 .. Len(s) - 1 : i + 1 \in 1 .. Len(s) /\ i + 1 # 1
  BY <1>2
<1>4. \A i \in 1 .. Len(s) : i # 1 => i - 1 \in 1 .. Len(s) - 1 /\ (i - 1) + 1 = i
  BY <1>2
<1>5. 1 \in 1 .. Len(s)
  BY <1>2
<1>6. Distinct(Tail(s))
  BY <1>1, <1>2, <1>3 DEF Distinct
<1>7. ASSUME NEW x \in Elements(Tail(s)) PROVE x \in Elements(s) /\ x # Head(s)
  BY <1>1, <1>2, <1>3, <1>5 DEF Elements, Distinct
<1>8. ASSUME NEW x \in Elements(s), x # Head(s) PROVE x \in Elements(Tail(s))
  <2>1. PICK i \in 1 .. Len(s) : x = s[i]
    BY <1>2 DEF Elements
  <2>2. i - 1 \in DOMAIN Tail(s) /\ Tail(s)[i - 1] = x
    BY <1>1, <1>2, <1>4, <1>8, <2>1
  <2>3. QED BY <2>2 DEF Elements
<1>9. Head(s) \in Elements(s)
  BY <1>1, <1>2, <1>5 DEF Elements
<1>10. QED BY <1>1, <1>6, <1>7, <1>8, <1>9

LEMMA NobodyListed == Elements(<<>>) = {}
BY DEF Elements

\* While threads wait for a mutex it has an owner, which is none of them.
LEMMA OwnedWhileListed ==
    ASSUME PthreadInv, NEW m \in Mutexes, list[m] # <<>>
    PROVE  Head(list[m]) \in Threads /\ owner[m] \notin {NoThread, Head(list[m])}
<1>1. list[m] \in Seq(Threads) /\ Distinct(list[m])
  BY DEF PthreadInv, PthreadTypeOK, Lists, MutexLists
<1>2. Head(list[m]) \in Threads /\ Head(list[m]) \in Elements(list[m])
  BY <1>1, TakeFirst
<1>3. QED BY <1>2 DEF PthreadInv, Lists, MutexLists

-----------------------------------------------------------------------------
(* Types.                                                                  *)

\* What Take, Enqueue and HandOver change.
BlockTyped ==
    /\ owner \in [Mutexes -> Threads \cup {NoThread}]
    /\ list \in [Mutexes -> Seq(Threads)]
    /\ wait \in [Threads -> BOOLEAN]

\* What SetDepth, Deeper and Unlock change.
DepthTyped ==
    /\ recursive \in [Mutexes -> Nat \cup {-1}]
    /\ \A m \in Mutexes : m \in Recursive <=> recursive[m] >= 0

\* What the calls change besides.
RestTyped ==
    /\ condList \in Seq(Threads)
    /\ condWait \in [Threads -> BOOLEAN]
    /\ at \in [Threads -> {"run", "lock", "cond", "relock", "away"}]
    /\ this \in [Threads -> Mutexes \cup {NoMutex}]
    /\ depth \in [Threads -> Nat]
    /\ nested \in [Threads -> [Mutexes -> Nat]]

LEMMA TypeParts == PthreadTypeOK <=> BlockTyped /\ DepthTyped /\ RestTyped
BY DEF PthreadTypeOK, BlockTyped, DepthTyped, RestTyped

LEMMA BlockType ==
    ASSUME PthreadTypeOK, NEW t \in Threads, NEW m \in Mutexes
    PROVE  /\ Take(t, m) => BlockTyped'
           /\ Enqueue(t, m) => BlockTyped'
           /\ HandOver(m) => BlockTyped'
<1>1. Take(t, m) => BlockTyped'
  BY DEF PthreadTypeOK, BlockTyped, Take
<1>2. Enqueue(t, m) => BlockTyped'
  BY DEF PthreadTypeOK, BlockTyped, Enqueue
<1>3. ASSUME HandOver(m) PROVE BlockTyped'
  <2>1. CASE list[m] = <<>>
    BY <1>3, <2>1 DEF PthreadTypeOK, BlockTyped, HandOver
  <2>2. CASE list[m] # <<>>
    <3>1. Head(list[m]) \in Threads /\ Tail(list[m]) \in Seq(Threads)
      BY <2>2, HeadTailProperties DEF PthreadTypeOK
    <3>2. QED BY <1>3, <2>2, <3>1 DEF PthreadTypeOK, BlockTyped, HandOver
  <2>3. QED BY <2>1, <2>2
<1>4. QED BY <1>1, <1>2, <1>3

LEMMA DepthType ==
    ASSUME PthreadTypeOK, NEW m \in Mutexes
    PROVE  /\ \A d \in Nat : SetDepth(m, d) => DepthTyped'
           /\ \A t \in Threads : Deeper(t, m) => DepthTyped'
           /\ recursive[m] > 0 /\ recursive' = [recursive EXCEPT ![m] = @ - 1] => DepthTyped'
<1>1. recursive[m] \in Nat \cup {-1}
  BY DEF PthreadTypeOK
<1>2. \A d \in Nat : recursive[m] >= 0 /\ recursive' = [recursive EXCEPT ![m] = d] => DepthTyped'
  BY DEF PthreadTypeOK, DepthTyped
<1>3. recursive' = recursive => DepthTyped'
  BY DEF PthreadTypeOK, DepthTyped
<1>4. recursive[m] >= 0 => recursive[m] + 1 \in Nat
  BY <1>1
<1>5. recursive[m] > 0 => recursive[m] - 1 \in Nat
  BY <1>1
<1>6. \A d \in Nat : SetDepth(m, d) => DepthTyped'
  BY <1>2, <1>3 DEF SetDepth
<1>7. \A t \in Threads : Deeper(t, m) => DepthTyped'
  BY <1>2, <1>4 DEF Deeper
<1>8. QED BY <1>1, <1>2, <1>5, <1>6, <1>7

LEMMA NestedType ==
    ASSUME PthreadTypeOK, NEW t \in Threads, NEW m \in Mutexes
    PROVE  /\ Locked(t, m) => nested' \in [Threads -> [Mutexes -> Nat]]
           /\ Unlocked(t, m) /\ nested[t][m] > 0 => nested' \in [Threads -> [Mutexes -> Nat]]
<1>1. nested \in [Threads -> [Mutexes -> Nat]] /\ nested[t] \in [Mutexes -> Nat]
  BY DEF PthreadTypeOK
<1>2. nested[t][m] \in Nat
  BY <1>1
<1>3. \A n \in Nat : [nested EXCEPT ![t][m] = n] \in [Threads -> [Mutexes -> Nat]]
  BY <1>1
<1>4. QED BY <1>2, <1>3 DEF Locked, Unlocked

\* In a call that waits for a mutex, this is one.
LEMMA ThisType ==
    ASSUME PthreadTypeOK, MutexLists, NEW t \in Threads, at[t] \notin OffMutex
    PROVE  this[t] \in Mutexes
BY DEF PthreadTypeOK, MutexLists

LEMMA LoopType ==
    ASSUME PthreadTypeOK, MutexLists
    PROVE  \A t \in Threads : at[t] \in InLoop => this[t] \in Mutexes
BY ThisType DEF InLoop, OffMutex

LEMMA TypeStep == PthreadTypeOK /\ Lists /\ PthreadNext => PthreadTypeOK'
<1> SUFFICES ASSUME PthreadTypeOK, Lists, PthreadNext
             PROVE  BlockTyped' /\ DepthTyped' /\ RestTyped'
  BY DEF PthreadTypeOK, BlockTyped, DepthTyped, RestTyped
<1>0. BlockTyped /\ DepthTyped /\ RestTyped
  BY TypeParts
<1>1. ASSUME NEW t \in Threads, NEW m \in Mutexes, Lock(t, m) \/ TryLock(t, m)
      PROVE  BlockTyped' /\ DepthTyped' /\ RestTyped'
  <2>1. CASE Take(t, m) /\ Locked(t, m) /\ UNCHANGED <<recursive, at, this>>
    BY <1>0, <1>1, <2>1, BlockType, NestedType
       DEF Lock, TryLock, DepthTyped, RestTyped, callVars
  <2>2. CASE Deeper(t, m) /\ Locked(t, m) /\ UNCHANGED <<at, this>>
    BY <1>0, <1>1, <2>2, DepthType, NestedType
       DEF Lock, TryLock, Deeper, BlockTyped, RestTyped, callVars
  <2>3. CASE /\ Enqueue(t, m) /\ Waits(t, "lock", m)
             /\ UNCHANGED <<recursive, nested, condList, condWait, depth>>
    BY <1>0, <1>1, <2>3, BlockType DEF Waits, DepthTyped, RestTyped
  <2>4. QED BY <1>1, <2>1, <2>2, <2>3 DEF Lock, TryLock, callVars
<1>2. ASSUME NEW t \in Threads, NEW m \in Mutexes, Unlock(t, m)
      PROVE  BlockTyped' /\ DepthTyped' /\ RestTyped'
  <2>1. RestTyped'
    BY <1>0, <1>2, NestedType DEF Unlock, RestTyped, callVars
  <2>2. BlockTyped' /\ DepthTyped'
    BY <1>0, <1>2, BlockType, DepthType DEF Unlock, BlockTyped, DepthTyped
  <2>3. QED BY <2>1, <2>2
<1>3. ASSUME NEW t \in Threads, Granted(t)
      PROVE  BlockTyped' /\ DepthTyped' /\ RestTyped'
  <2>1. this[t] \in Mutexes /\ depth[t] \in Nat
    BY <1>3, ThisType DEF Granted, Lists, OffMutex, PthreadTypeOK
  <2>2. BlockTyped'
    BY <1>0, <1>3 DEF Granted, BlockTyped
  <2>3. DepthTyped'
    BY <1>0, <1>3, <2>1, DepthType DEF Granted, DepthTyped
  <2>4. nested' \in [Threads -> [Mutexes -> Nat]]
    BY <1>0, <1>3, <2>1, NestedType DEF Granted, RestTyped
  <2>5. QED BY <1>0, <1>3, <2>2, <2>3, <2>4 DEF Granted, Returns, RestTyped
<1>4. ASSUME NEW t \in Threads, CondWait(t)
      PROVE  BlockTyped' /\ DepthTyped' /\ RestTyped'
  <2>1. CondMutex \in Mutexes
    BY PthreadAssumption
  <2>2. BlockTyped'
    BY <1>4, <2>1, BlockType DEF CondWait
  <2>3. recursive[CondMutex] \in Nat \cup {-1}
    BY <2>1 DEF PthreadTypeOK
  <2>4. DepthTyped' /\ depth' \in [Threads -> Nat]
    <3>1. CASE recursive[CondMutex] < 0
      BY <1>0, <1>4, <3>1 DEF CondWait, DepthTyped, RestTyped
    <3>2. CASE recursive[CondMutex] >= 0
      <4>1. /\ depth' = [depth EXCEPT ![t] = recursive[CondMutex]]
            /\ recursive' = [recursive EXCEPT ![CondMutex] = 0]
            /\ recursive[CondMutex] \in Nat
        BY <1>4, <2>3, <3>2 DEF CondWait
      <4>2. QED BY <1>0, <2>1, <3>2, <4>1 DEF DepthTyped, RestTyped
    <3>3. QED BY <2>3, <3>1, <3>2
  <2>5. QED BY <1>0, <1>4, <2>1, <2>2, <2>4 DEF CondWait, Waits, RestTyped
<1>5. ASSUME NEW t \in Threads, CondReturn(t)
      PROVE  BlockTyped' /\ DepthTyped' /\ RestTyped'
  <2>1. this[t] \in Mutexes /\ depth[t] \in Nat
    BY <1>5, ThisType DEF CondReturn, Lists, OffMutex, PthreadTypeOK
  <2>2. BlockTyped'
    BY <1>5, <2>1, BlockType DEF CondReturn
  <2>3. DepthTyped'
    BY <1>0, <1>5, <2>1, DepthType DEF CondReturn, DepthTyped
  <2>4. /\ depth' \in [Threads -> Nat]
        /\ at' \in [Threads -> {"run", "lock", "cond", "relock", "away"}]
        /\ this' \in [Threads -> Mutexes \cup {NoMutex}]
    <3>1. CASE Returns(t) /\ depth' = [depth EXCEPT ![t] = 0]
      BY <1>0, <3>1 DEF Returns, RestTyped
    <3>2. CASE Waits(t, "relock", this[t]) /\ depth' = depth
      BY <1>0, <2>1, <3>2 DEF Waits, RestTyped
    <3>3. QED BY <1>5, <3>1, <3>2 DEF CondReturn
  <2>5. QED BY <1>0, <1>5, <2>2, <2>3, <2>4 DEF CondReturn, RestTyped
<1>6. ASSUME NEW t \in Threads, WaitAgain(t) \/ Wakeup(t)
      PROVE  BlockTyped' /\ DepthTyped' /\ RestTyped'
  BY <1>0, <1>6 DEF WaitAgain, Wakeup, mutexVars, callVars, BlockTyped, DepthTyped, RestTyped
<1>7. ASSUME NEW t \in Threads, Signal(t)
      PROVE  BlockTyped' /\ DepthTyped' /\ RestTyped'
  <2>1. Tail(condList) \in Seq(Threads)
    BY <1>0, <1>7, HeadTailProperties DEF Signal, RestTyped
  <2>2. QED BY <1>0, <1>7, <2>1 DEF Signal, mutexVars, callVars, BlockTyped, DepthTyped, RestTyped
<1>8. ASSUME NEW t \in Threads, Broadcast(t)
      PROVE  BlockTyped' /\ DepthTyped' /\ RestTyped'
  <2>1. condWait' \in [Threads -> BOOLEAN]
    BY <1>0, <1>8 DEF Broadcast, RestTyped
  <2>2. QED BY <1>0, <1>8, <2>1
           DEF Broadcast, mutexVars, callVars, BlockTyped, DepthTyped, RestTyped
<1>9. QED BY <1>1, <1>2, <1>3, <1>4, <1>5, <1>6, <1>7, <1>8 DEF PthreadNext

-----------------------------------------------------------------------------
(* Lists.                                                                  *)

\* A thread that is not in the loop of a mutex is in none of its lists.
LEMMA NotListed ==
    ASSUME MutexLists, NEW t \in Threads, at[t] \notin InLoop
    PROVE  \A m \in Mutexes : t \notin Elements(list[m])
BY DEF MutexLists

\* A free mutex is taken: by Lock, TryLock, or at the end of pthread_cond_wait.
LEMMA TakeLists ==
    ASSUME PthreadTypeOK, MutexLists, NEW t \in Threads, NEW m \in Mutexes, Take(t, m),
           at[t] \in {"run", "cond"}, Returns(t) \/ UNCHANGED <<at, this>>
    PROVE  MutexLists'
<1>1. NoMutex \notin Mutexes /\ NoThread \notin Threads
  BY PthreadAssumption
<1>2. /\ list' = list /\ owner[m] = NoThread
      /\ \A k \in Mutexes : owner'[k] = IF k = m THEN t ELSE owner[k]
  BY DEF Take, PthreadTypeOK
<1>3. /\ \A u \in Threads : at'[u] # at[u] \/ this'[u] # this[u] => u = t
      /\ at'[t] \in {"run", "cond"} /\ (at'[t] \in OffMutex <=> this'[t] = NoMutex)
  BY DEF Returns, PthreadTypeOK, MutexLists, OffMutex
<1>4. \A u \in Threads : at'[u] \in OffMutex <=> this'[u] = NoMutex
  BY <1>3 DEF MutexLists
<1>5. \A u \in Threads, k \in Mutexes : u \in Elements(list'[k]) =>
          /\ at'[u] \in InLoop /\ this'[u] = k /\ owner'[k] \notin {NoThread, u}
  BY <1>2, <1>3 DEF MutexLists, InLoop
<1>6. \A u \in Threads :
          at'[u] \in InLoop => u \in Elements(list'[this'[u]]) \/ owner'[this'[u]] = u
  <2>1. \A u \in Threads : at[u] \in InLoop => this[u] \in Mutexes
    BY LoopType
  <2>2. QED BY <1>1, <1>2, <1>3, <2>1 DEF MutexLists, InLoop
<1>7. QED BY <1>2, <1>4, <1>5, <1>6 DEF MutexLists

\* A thread queues: in Lock, or at the end of pthread_cond_wait.
LEMMA EnqueueLists ==
    ASSUME PthreadTypeOK, MutexLists, NEW t \in Threads, NEW m \in Mutexes, Enqueue(t, m),
           at[t] \in {"run", "cond"}, NEW place \in InLoop, Waits(t, place, m)
    PROVE  MutexLists'
<1>1. NoMutex \notin Mutexes /\ NoThread \notin Threads
  BY PthreadAssumption
<1>2. t \notin Elements(list[m]) /\ list[m] \in Seq(Threads) /\ Distinct(list[m])
  BY NotListed DEF PthreadTypeOK, MutexLists, InLoop
<1>3. /\ \A k \in Mutexes \ {m} : list'[k] = list[k]
      /\ Distinct(list'[m]) /\ Elements(list'[m]) = Elements(list[m]) \cup {t}
  BY <1>2, PutLast DEF Enqueue, PthreadTypeOK
<1>4. owner' = owner /\ owner[m] \notin {NoThread, t}
  BY DEF Enqueue
<1>5. /\ \A u \in Threads \ {t} : at'[u] = at[u] /\ this'[u] = this[u]
      /\ at'[t] \in InLoop /\ this'[t] = m
  BY DEF Waits, PthreadTypeOK
<1>6. \A u \in Threads : at'[u] \in OffMutex <=> this'[u] = NoMutex
  BY <1>1, <1>5 DEF MutexLists, InLoop, OffMutex
<1>7. \A k \in Mutexes : t \notin Elements(list[k])
  BY NotListed DEF InLoop
<1>8. \A u \in Threads, k \in Mutexes : u \in Elements(list'[k]) =>
          /\ at'[u] \in InLoop /\ this'[u] = k /\ owner'[k] \notin {NoThread, u}
  BY <1>3, <1>4, <1>5, <1>7 DEF MutexLists
<1>9. ASSUME NEW u \in Threads, at'[u] \in InLoop
      PROVE  u \in Elements(list'[this'[u]]) \/ owner'[this'[u]] = u
  <2>1. CASE u = t
    BY <1>3, <1>5, <2>1
  <2>2. CASE u # t
    <3>1. at[u] \in InLoop /\ this'[u] = this[u] /\ this[u] \in Mutexes
      BY <1>5, <1>9, <2>2, LoopType
    <3>2. QED BY <1>3, <1>4, <3>1 DEF MutexLists
  <2>3. QED BY <2>1, <2>2
<1>10. QED BY <1>3, <1>6, <1>8, <1>9 DEF MutexLists

\* A mutex is given up: in Unlock, or at the start of pthread_cond_wait.
LEMMA HandOverLists ==
    ASSUME PthreadTypeOK, MutexLists, NEW t \in Threads, NEW m \in Mutexes, HandOver(m),
           at[t] = "run", owner[m] = t, Waits(t, "cond", m) \/ UNCHANGED <<at, this>>
    PROVE  MutexLists'
<1>1. NoMutex \notin Mutexes /\ NoThread \notin Threads
  BY PthreadAssumption
<1>2. /\ \A u \in Threads \ {t} : at'[u] = at[u] /\ this'[u] = this[u]
      /\ at'[t] \notin InLoop /\ at[t] \notin InLoop
      /\ at'[t] \in OffMutex <=> this'[t] = NoMutex
  BY <1>1 DEF Waits, PthreadTypeOK, MutexLists, InLoop, OffMutex
<1>3. \A u \in Threads : at'[u] \in OffMutex <=> this'[u] = NoMutex
  BY <1>2 DEF MutexLists
<1>4. \A u \in Threads : at[u] \in InLoop => this[u] \in Mutexes
  BY LoopType
<1>5. list[m] \in Seq(Threads) /\ Distinct(list[m])
  BY DEF PthreadTypeOK, MutexLists
<1>6. CASE list[m] = <<>>
  <2>1. list' = list /\ \A k \in Mutexes : owner'[k] = IF k = m THEN NoThread ELSE owner[k]
    BY <1>6 DEF HandOver, PthreadTypeOK
  <2>2. Elements(list[m]) = {}
    BY <1>6, NobodyListed
  <2>3. \A u \in Threads, k \in Mutexes : u \in Elements(list'[k]) =>
            /\ at'[u] \in InLoop /\ this'[u] = k /\ owner'[k] \notin {NoThread, u}
    BY <1>2, <2>1, <2>2 DEF MutexLists
  <2>4. \A u \in Threads :
            at'[u] \in InLoop => u \in Elements(list'[this'[u]]) \/ owner'[this'[u]] = u
    BY <1>2, <1>4, <2>1 DEF MutexLists
  <2>5. QED BY <1>3, <2>1, <2>3, <2>4 DEF MutexLists
<1>7. CASE list[m] # <<>>
  <2> DEFINE heir == Head(list[m])
  <2>1. /\ heir \in Threads /\ heir \in Elements(list[m])
        /\ Distinct(Tail(list[m])) /\ Elements(Tail(list[m])) = Elements(list[m]) \ {heir}
    BY <1>5, <1>7, TakeFirst
  <2>2. heir # t /\ this[heir] = m /\ at[heir] \in InLoop
    BY <1>2, <2>1 DEF MutexLists
  <2>3. /\ \A k \in Mutexes : owner'[k] = IF k = m THEN heir ELSE owner[k]
        /\ \A k \in Mutexes : list'[k] = IF k = m THEN Tail(list[m]) ELSE list[k]
    BY <1>7 DEF HandOver, PthreadTypeOK
  <2> HIDE DEF heir
  <2>4. \A u \in Threads, k \in Mutexes : u \in Elements(list'[k]) =>
            /\ at'[u] \in InLoop /\ this'[u] = k /\ owner'[k] \notin {NoThread, u}
    BY <1>1, <1>2, <2>1, <2>3 DEF MutexLists
  <2>5. \A u \in Threads :
            at'[u] \in InLoop => u \in Elements(list'[this'[u]]) \/ owner'[this'[u]] = u
    BY <1>2, <1>4, <2>1, <2>2, <2>3 DEF MutexLists
  <2>6. QED BY <1>3, <2>1, <2>3, <2>4, <2>5 DEF MutexLists
<1>8. QED BY <1>6, <1>7

\* A thread that unlocks, or waits on the condition variable, has the mutex.
Owners ==
    \A t \in Threads, m \in Mutexes : nested[t][m] > 0 /\ this[t] # m => owner[m] = t

LEMMA OwnersHold ==
    ASSUME MutexLists, Owners, NEW t \in Threads, NEW m \in Mutexes,
           at[t] \in OffMutex, nested[t][m] > 0
    PROVE  owner[m] = t
BY PthreadAssumption DEF MutexLists, Owners

LEMMA MutexListsStep ==
    ASSUME PthreadTypeOK, MutexLists, Owners, PthreadNext
    PROVE  MutexLists'
<1>1. ASSUME UNCHANGED <<owner, list, at, this>> PROVE MutexLists'
  BY <1>1 DEF MutexLists
<1>2. ASSUME NEW t \in Threads, NEW m \in Mutexes, Lock(t, m) \/ TryLock(t, m)
      PROVE  MutexLists'
  <2>1. at[t] = "run"
    BY <1>2 DEF Lock, TryLock, Runs
  <2>2. CASE Take(t, m) /\ UNCHANGED <<at, this>>
    BY <2>1, <2>2, TakeLists
  <2>3. CASE Deeper(t, m) /\ UNCHANGED <<at, this>>
    BY <1>1, <2>3 DEF Deeper
  <2>4. CASE Enqueue(t, m) /\ Waits(t, "lock", m)
    BY <2>1, <2>4, EnqueueLists DEF InLoop
  <2>5. QED BY <1>2, <2>2, <2>3, <2>4 DEF Lock, TryLock, callVars
<1>3. ASSUME NEW t \in Threads, NEW m \in Mutexes, Unlock(t, m) PROVE MutexLists'
  <2>1. at[t] = "run" /\ UNCHANGED <<at, this>> /\ owner[m] = t
    BY <1>3, OwnersHold DEF Unlock, Runs, callVars, OffMutex
  <2>2. CASE UNCHANGED <<owner, list>>
    BY <1>1, <2>1, <2>2
  <2>3. CASE HandOver(m)
    BY <2>1, <2>3, HandOverLists
  <2>4. QED BY <1>3, <2>2, <2>3 DEF Unlock
<1>4. ASSUME NEW t \in Threads, Granted(t) PROVE MutexLists'
  <2>1. /\ at[t] \in InLoop /\ owner[this[t]] = t /\ Returns(t)
        /\ UNCHANGED <<owner, list>>
    BY <1>4 DEF Granted, InLoop
  <2>2. \A u \in Threads \ {t} : at'[u] = at[u] /\ this'[u] = this[u]
    BY <2>1 DEF PthreadTypeOK, Returns
  <2>3. at'[t] = "run" /\ this'[t] = NoMutex
    BY <2>1 DEF PthreadTypeOK, Returns
  <2>4. \A k \in Mutexes : t \notin Elements(list[k])
    BY <2>1 DEF MutexLists
  <2>5. QED BY <2>1, <2>2, <2>3, <2>4 DEF MutexLists, InLoop, OffMutex
<1>5. ASSUME NEW t \in Threads, CondWait(t) PROVE MutexLists'
  <2>1. at[t] = "run" /\ owner[CondMutex] = t /\ CondMutex \in Mutexes
    BY <1>5, OwnersHold, PthreadAssumption DEF CondWait, Runs, OffMutex
  <2>2. QED BY <1>5, <2>1, HandOverLists DEF CondWait
<1>6. ASSUME NEW t \in Threads, CondReturn(t) PROVE MutexLists'
  <2>1. at[t] = "cond" /\ this[t] \in Mutexes
    BY <1>6, ThisType DEF CondReturn, OffMutex
  <2>2. CASE Take(t, this[t]) /\ Returns(t)
    BY <2>1, <2>2, TakeLists
  <2>3. CASE Enqueue(t, this[t]) /\ Waits(t, "relock", this[t])
    BY <2>1, <2>3, EnqueueLists DEF InLoop
  <2>4. QED BY <1>6, <2>2, <2>3 DEF CondReturn
<1>7. ASSUME NEW t \in Threads, WaitAgain(t) \/ Signal(t) \/ Broadcast(t) \/ Wakeup(t)
      PROVE  MutexLists'
  BY <1>1, <1>7 DEF WaitAgain, Signal, Broadcast, Wakeup, mutexVars, callVars
<1>8. QED BY <1>2, <1>3, <1>4, <1>5, <1>6, <1>7 DEF PthreadNext

LEMMA CondListsStep ==
    ASSUME PthreadTypeOK, CondLists, PthreadNext
    PROVE  CondLists'
<1>1. ASSUME UNCHANGED <<condList, condWait>>,
             NEW t \in Threads, ~condWait[t], \A u \in Threads \ {t} : at'[u] = at[u]
      PROVE  CondLists'
  BY <1>1 DEF CondLists
<1>2. ASSUME NEW t \in Threads, NEW m \in Mutexes, Lock(t, m) \/ TryLock(t, m) \/ Unlock(t, m)
      PROVE  CondLists'
  <2>1. UNCHANGED <<condList, condWait>> /\ ~condWait[t]
    BY <1>2 DEF Lock, TryLock, Unlock, Runs, Ready
  <2>2. \A u \in Threads \ {t} : at'[u] = at[u]
    BY <1>2 DEF Lock, TryLock, Unlock, callVars, Waits, PthreadTypeOK
  <2>3. QED BY <1>1, <2>1, <2>2
<1>3. ASSUME NEW t \in Threads, Granted(t) \/ CondReturn(t) PROVE CondLists'
  <2>1. UNCHANGED <<condList, condWait>> /\ ~condWait[t]
    BY <1>3 DEF Granted, CondReturn, Ready
  <2>2. \A u \in Threads \ {t} : at'[u] = at[u]
    BY <1>3 DEF Granted, CondReturn, Returns, Waits, PthreadTypeOK
  <2>3. QED BY <1>1, <2>1, <2>2
<1>4. ASSUME NEW t \in Threads, WaitAgain(t) \/ Wakeup(t) PROVE CondLists'
  BY <1>4 DEF WaitAgain, Wakeup, callVars, CondLists
<1>5. ASSUME NEW t \in Threads, CondWait(t) PROVE CondLists'
  <2>1. t \notin Elements(condList) /\ condList \in Seq(Threads) /\ Distinct(condList)
    BY <1>5 DEF CondWait, Runs, CondLists, PthreadTypeOK
  <2>2. Distinct(condList') /\ Elements(condList') = Elements(condList) \cup {t}
    BY <1>5, <2>1, PutLast DEF CondWait
  <2>3. \A u \in Threads : /\ at'[u] = IF u = t THEN "cond" ELSE at[u]
                           /\ condWait'[u] = IF u = t THEN TRUE ELSE condWait[u]
    BY <1>5 DEF CondWait, Waits, PthreadTypeOK
  <2>4. QED BY <2>2, <2>3 DEF CondLists
<1>6. ASSUME NEW t \in Threads, Signal(t) PROVE CondLists'
  <2> DEFINE first == Head(condList)
  <2>1. /\ first \in Threads /\ Distinct(condList')
        /\ Elements(condList') = Elements(condList) \ {first}
    BY <1>6, TakeFirst DEF Signal, CondLists, PthreadTypeOK
  <2>2. condWait' = [condWait EXCEPT ![first] = FALSE] /\ at' = at
    BY <1>6 DEF Signal, callVars
  <2> HIDE DEF first
  <2>3. QED BY <2>1, <2>2 DEF CondLists, PthreadTypeOK
<1>7. ASSUME NEW t \in Threads, Broadcast(t) PROVE CondLists'
  BY <1>7, NobodyListed DEF Broadcast, CondLists, Distinct
<1>8. QED BY <1>2, <1>3, <1>4, <1>5, <1>6, <1>7 DEF PthreadNext

-----------------------------------------------------------------------------
(* Sleeping.                                                               *)

\* Where a sleeping thread may be, as far as mutexes go.
Asleep(t) == wait[t] =>
    at[t] = "away" \/ (at[t] \in InLoop /\ t \in Elements(list[this[t]]))

LEMMA EnqueueSleeps ==
    ASSUME PthreadTypeOK, MutexLists, Sleeps, NEW t \in Threads, NEW m \in Mutexes,
           Enqueue(t, m), at[t] \in {"run", "cond"}, NEW place \in InLoop, Waits(t, place, m)
    PROVE  \A u \in Threads : Asleep(u)'
<1>1. t \notin Elements(list[m]) /\ list[m] \in Seq(Threads) /\ Distinct(list[m])
  BY NotListed DEF PthreadTypeOK, MutexLists, InLoop
<1>2. \A k \in Mutexes : Elements(list'[k]) = IF k = m THEN Elements(list[m]) \cup {t}
                                              ELSE Elements(list[k])
  BY <1>1, PutLast DEF Enqueue, PthreadTypeOK
<1>3. /\ \A u \in Threads \ {t} : at'[u] = at[u] /\ this'[u] = this[u] /\ wait'[u] = wait[u]
      /\ at'[t] \in InLoop /\ this'[t] = m
  BY DEF Waits, Enqueue, PthreadTypeOK
<1>4. ASSUME NEW u \in Threads, wait'[u] PROVE Asleep(u)'
  <2>1. CASE u = t
    BY <1>2, <1>3, <2>1 DEF Asleep
  <2>2. CASE u # t
    <3>1. at[u] \in InLoop => this[u] \in Mutexes
      BY LoopType
    <3>2. QED BY <1>2, <1>3, <1>4, <2>2, <3>1 DEF Asleep, Sleeps
  <2>3. QED BY <2>1, <2>2
<1>5. QED BY <1>4 DEF Asleep

LEMMA HandOverSleeps ==
    ASSUME PthreadTypeOK, MutexLists, Sleeps, NEW t \in Threads, NEW m \in Mutexes,
           HandOver(m), ~wait[t], at[t] = "run", Waits(t, "cond", m) \/ UNCHANGED <<at, this>>
    PROVE  \A u \in Threads : Asleep(u)'
<1>1. \A u \in Threads \ {t} : at'[u] = at[u] /\ this'[u] = this[u]
  BY DEF PthreadTypeOK, Waits
<1>2. CASE list[m] = <<>>
  <2>1. UNCHANGED <<list, wait>>
    BY <1>2 DEF HandOver
  <2>2. QED BY <1>1, <2>1 DEF Sleeps, Asleep
<1>3. CASE list[m] # <<>>
  <2> DEFINE heir == Head(list[m])
  <2>1. heir \in Threads /\ Elements(Tail(list[m])) = Elements(list[m]) \ {heir}
    BY <1>3, TakeFirst DEF PthreadTypeOK, MutexLists
  <2>2. /\ \A u \in Threads : wait'[u] = IF u = heir THEN FALSE ELSE wait[u]
        /\ \A k \in Mutexes : list'[k] = IF k = m THEN Tail(list[m]) ELSE list[k]
    BY <1>3, <2>1 DEF HandOver, PthreadTypeOK
  <2> HIDE DEF heir
  <2>3. ASSUME NEW u \in Threads, wait'[u] PROVE Asleep(u)'
    <3>1. u # heir /\ wait[u] /\ u # t
      BY <2>2, <2>3
    <3>2. at[u] \in InLoop => this[u] \in Mutexes
      BY LoopType
    <3>3. QED BY <1>1, <2>1, <2>2, <3>1, <3>2 DEF Asleep, Sleeps
  <2>4. QED BY <2>3 DEF Asleep
<1>4. QED BY <1>2, <1>3

LEMMA SleepsStep ==
    ASSUME PthreadTypeOK, MutexLists, CondLists, Sleeps, PthreadNext
    PROVE  Sleeps'
<1> SUFFICES /\ \A u \in Threads : Asleep(u)'
             /\ \A u \in Threads : condWait'[u] => u \in Elements(condList')
  BY DEF Sleeps, Asleep
<1>0. /\ \A u \in Threads : Asleep(u)
      /\ \A u \in Threads : condWait[u] => u \in Elements(condList)
  BY DEF Sleeps, Asleep
<1>1. ASSUME UNCHANGED <<wait, list, at, this>> PROVE \A u \in Threads : Asleep(u)'
  BY <1>0, <1>1 DEF Asleep
<1>2. ASSUME NEW t \in Threads, ~wait[t], Returns(t), UNCHANGED <<wait, list>>
      PROVE  \A u \in Threads : Asleep(u)'
  BY <1>0, <1>2 DEF Asleep, Returns, PthreadTypeOK
<1>3. ASSUME NEW t \in Threads, NEW m \in Mutexes, Lock(t, m) \/ TryLock(t, m)
      PROVE  UNCHANGED <<condWait, condList>> /\ \A u \in Threads : Asleep(u)'
  <2>1. UNCHANGED <<condWait, condList>> /\ at[t] = "run"
    BY <1>3 DEF Lock, TryLock, Runs
  <2>2. CASE UNCHANGED <<wait, list, at, this>>
    BY <1>1, <2>1, <2>2
  <2>3. CASE Enqueue(t, m) /\ Waits(t, "lock", m)
    BY <2>1, <2>3, EnqueueSleeps DEF InLoop
  <2>4. QED BY <1>3, <2>1, <2>2, <2>3 DEF Lock, TryLock, Take, Deeper, callVars
<1>4. ASSUME NEW t \in Threads, NEW m \in Mutexes, Unlock(t, m)
      PROVE  UNCHANGED <<condWait, condList>> /\ \A u \in Threads : Asleep(u)'
  <2>1. UNCHANGED <<condWait, condList, at, this>> /\ at[t] = "run" /\ ~wait[t]
    BY <1>4 DEF Unlock, Runs, Ready, callVars
  <2>2. CASE UNCHANGED <<wait, list>>
    BY <1>1, <2>1, <2>2
  <2>3. CASE HandOver(m)
    BY <2>1, <2>3, HandOverSleeps
  <2>4. QED BY <1>4, <2>1, <2>2, <2>3 DEF Unlock
<1>5. ASSUME NEW t \in Threads, Granted(t)
      PROVE  UNCHANGED <<condWait, condList>> /\ \A u \in Threads : Asleep(u)'
  BY <1>2, <1>5 DEF Granted, Ready
<1>6. ASSUME NEW t \in Threads, WaitAgain(t)
      PROVE  UNCHANGED <<condWait, condList>> /\ \A u \in Threads : Asleep(u)'
  <2>1. at[t] \in InLoop /\ t \in Elements(list[this[t]])
    BY <1>6 DEF WaitAgain, MutexLists, InLoop
  <2>2. QED BY <1>0, <1>6, <2>1 DEF WaitAgain, Asleep, PthreadTypeOK, mutexVars, callVars
<1>7. ASSUME NEW t \in Threads, Wakeup(t)
      PROVE  UNCHANGED <<condWait, condList>> /\ \A u \in Threads : Asleep(u)'
  BY <1>0, <1>7 DEF Wakeup, Asleep, PthreadTypeOK, mutexVars, callVars
<1>8. ASSUME NEW t \in Threads, CondWait(t)
      PROVE  /\ \A u \in Threads : condWait'[u] => u \in Elements(condList')
             /\ \A u \in Threads : Asleep(u)'
  <2>1. \A u \in Threads : Asleep(u)'
    BY <1>8, HandOverSleeps, PthreadAssumption DEF CondWait, Runs, Ready
  <2>2. t \notin Elements(condList) /\ condList \in Seq(Threads) /\ Distinct(condList)
    BY <1>8 DEF CondWait, Runs, CondLists, PthreadTypeOK
  <2>3. Elements(condList') = Elements(condList) \cup {t}
    BY <1>8, <2>2, PutLast DEF CondWait
  <2>4. QED BY <1>0, <1>8, <2>1, <2>3 DEF CondWait, PthreadTypeOK
<1>9. ASSUME NEW t \in Threads, CondReturn(t)
      PROVE  UNCHANGED <<condWait, condList>> /\ \A u \in Threads : Asleep(u)'
  <2>1. /\ UNCHANGED <<condWait, condList>> /\ ~wait[t]
        /\ at[t] = "cond" /\ this[t] \in Mutexes
    BY <1>9, ThisType DEF CondReturn, Ready, OffMutex
  <2>2. CASE Take(t, this[t]) /\ Returns(t)
    BY <1>2, <2>1, <2>2 DEF Take
  <2>3. CASE Enqueue(t, this[t]) /\ Waits(t, "relock", this[t])
    BY <2>1, <2>3, EnqueueSleeps DEF InLoop
  <2>4. QED BY <1>9, <2>1, <2>2, <2>3 DEF CondReturn
<1>10. ASSUME NEW t \in Threads, Signal(t)
       PROVE  /\ \A u \in Threads : condWait'[u] => u \in Elements(condList')
              /\ \A u \in Threads : Asleep(u)'
  <2> DEFINE first == Head(condList)
  <2>1. first \in Threads /\ Elements(condList') = Elements(condList) \ {first}
    BY <1>10, TakeFirst DEF Signal, CondLists, PthreadTypeOK
  <2>2. /\ \A u \in Threads : condWait'[u] = IF u = first THEN FALSE ELSE condWait[u]
        /\ UNCHANGED <<wait, list, at, this>>
    BY <1>10, <2>1 DEF Signal, mutexVars, callVars, PthreadTypeOK
  <2> HIDE DEF first
  <2>3. QED BY <1>0, <1>1, <2>1, <2>2
<1>11. ASSUME NEW t \in Threads, Broadcast(t)
       PROVE  /\ \A u \in Threads : condWait'[u] => u \in Elements(condList')
              /\ \A u \in Threads : Asleep(u)'
  <2>1. UNCHANGED <<wait, list, at, this>>
    BY <1>11 DEF Broadcast, mutexVars, callVars
  <2>2. \A u \in Threads : ~condWait'[u]
    BY <1>0, <1>11 DEF Broadcast
  <2>3. QED BY <1>1, <2>1, <2>2
<1>12. QED
  BY <1>0, <1>3, <1>4, <1>5, <1>6, <1>7, <1>8, <1>9, <1>10, <1>11 DEF PthreadNext

-----------------------------------------------------------------------------
(* Counts.                                                                 *)

\* The types that Counts needs.
CountsTyped ==
    /\ owner \in [Mutexes -> Threads \cup {NoThread}]
    /\ recursive \in [Mutexes -> Nat \cup {-1}]
    /\ \A m \in Mutexes : m \in Recursive <=> recursive[m] >= 0
    /\ at \in [Threads -> {"run", "lock", "cond", "relock", "away"}]
    /\ this \in [Threads -> Mutexes \cup {NoMutex}]
    /\ depth \in [Threads -> Nat]
    /\ nested \in [Threads -> [Mutexes -> Nat]]

LEMMA NestedValue ==
    ASSUME CountsTyped, NEW t \in Threads, NEW m \in Mutexes
    PROVE  /\ nested[t][m] \in Nat
           /\ Locked(t, m) => \A u \in Threads, k \in Mutexes :
                 nested'[u][k] = IF u = t /\ k = m THEN nested[t][m] + 1 ELSE nested[u][k]
           /\ Unlocked(t, m) => \A u \in Threads, k \in Mutexes :
                 nested'[u][k] = IF u = t /\ k = m THEN nested[t][m] - 1 ELSE nested[u][k]
BY DEF CountsTyped, Locked, Unlocked

\* What SetDepth leaves: the depth of a recursive mutex.
LEMMA SetDepthValue ==
    ASSUME CountsTyped, NEW m \in Mutexes, NEW d \in Nat, SetDepth(m, d)
    PROVE  /\ \A k \in Mutexes \ {m} : recursive'[k] = recursive[k]
           /\ DepthToLevels(m, recursive'[m]) = DepthToLevels(m, d)
BY DEF CountsTyped, SetDepth, DepthToLevels

\* A program that takes a free mutex, or is given the one it waited for, had
\* not locked it.
LEMMA NewLock ==
    ASSUME CountsTyped, Counts, MutexLists, NEW t \in Threads, NEW m \in Mutexes,
           at[t] = "run", owner[m] # t
    PROVE  this[t] # m /\ nested[t][m] = 0
<1>1. this[t] = NoMutex /\ NoMutex \notin Mutexes
  BY PthreadAssumption DEF MutexLists, OffMutex
<1>2. nested[t][m] \in Nat
  BY DEF CountsTyped
<1>3. QED BY <1>1, <1>2 DEF Counts

\* The mutex a running thread holds: its levels are those the program counts.
LEMMA OldLock ==
    ASSUME CountsTyped, Counts, MutexLists, NEW t \in Threads, NEW m \in Mutexes,
           at[t] = "run", nested[t][m] > 0 \/ owner[m] = t
    PROVE  /\ this[t] # m /\ owner[m] = t /\ nested[t][m] > 0
           /\ nested[t][m] = DepthToLevels(m, recursive[m])
<1>1. this[t] = NoMutex /\ NoMutex \notin Mutexes
  BY PthreadAssumption DEF MutexLists, OffMutex
<1>2. QED BY <1>1 DEF Counts

\* Lock and TryLock, when the mutex is free or the thread's own.
LEMMA LockCounts ==
    ASSUME CountsTyped, Counts, MutexLists, NEW t \in Threads, NEW m \in Mutexes,
           at[t] = "run", UNCHANGED <<at, this, depth>>, Locked(t, m),
           \/ Take(t, m) /\ UNCHANGED recursive
           \/ Deeper(t, m)
    PROVE  Counts'
<1>1. \A u \in Threads, k \in Mutexes :
          nested'[u][k] = IF u = t /\ k = m THEN nested[t][m] + 1 ELSE nested[u][k]
  BY NestedValue
<1>2. \A k \in Mutexes \ {m} : owner'[k] = owner[k] /\ recursive'[k] = recursive[k]
  BY DEF Take, Deeper, CountsTyped
<1>3. owner'[m] = t /\ \A u \in Threads \ {t} : owner[m] # u
  BY PthreadAssumption DEF Take, Deeper, CountsTyped
<1>4. this[t] # m /\ nested'[t][m] > 0 /\ nested'[t][m] = DepthToLevels(m, recursive'[m])
  <2>1. CASE Take(t, m) /\ UNCHANGED recursive
    <3>1. owner[m] = NoThread /\ owner[m] # t
      BY <2>1, PthreadAssumption DEF Take
    <3>2. this[t] # m /\ nested[t][m] = 0
      BY <3>1, NewLock
    <3>3. m \in Recursive => recursive[m] = 0
      BY <3>1 DEF Counts
    <3>4. QED BY <1>1, <2>1, <3>2, <3>3 DEF DepthToLevels
  <2>2. CASE Deeper(t, m)
    <3>1. /\ owner[m] = t /\ recursive[m] >= 0 /\ recursive'[m] = recursive[m] + 1
          /\ m \in Recursive /\ recursive[m] \in Nat
      BY <2>2 DEF Deeper, CountsTyped
    <3>2. this[t] # m /\ nested[t][m] = recursive[m] + 1
      BY <3>1, OldLock DEF DepthToLevels
    <3>3. QED BY <1>1, <3>1, <3>2 DEF DepthToLevels
  <2>3. QED BY <2>1, <2>2
<1>5. \A u \in Threads, k \in Mutexes :
          nested'[u][k] > 0 /\ this'[u] # k =>
              owner'[k] = u /\ nested'[u][k] = DepthToLevels(k, recursive'[k])
  BY <1>1, <1>2, <1>3, <1>4 DEF Counts
<1>6. \A u \in Threads, k \in Mutexes :
          owner'[k] = u => IF this'[u] = k THEN at'[u] \in InLoop ELSE nested'[u][k] > 0
  BY <1>1, <1>2, <1>3, <1>4 DEF Counts
<1>7. \A k \in Recursive :
          (owner'[k] = NoThread \/ this'[owner'[k]] = k) => recursive'[k] = 0
  BY <1>2, <1>3, <1>4, PthreadAssumption DEF Counts
<1>8. ASSUME NEW u \in Threads
      PROVE  /\ at'[u] = "lock" => nested'[u][this'[u]] = 0
             /\ at'[u] \in {"cond", "relock"} =>
                    nested'[u][this'[u]] = DepthToLevels(this'[u], depth'[u])
  <2>1. CASE u = t
    BY <2>1
  <2>2. CASE u # t
    <3>1. at[u] \notin OffMutex => this[u] \in Mutexes
      BY DEF MutexLists, CountsTyped
    <3>2. at[u] \notin OffMutex => nested'[u][this[u]] = nested[u][this[u]]
      BY <1>1, <2>2, <3>1
    <3>3. QED BY <2>2, <3>2 DEF Counts, OffMutex
  <2>3. QED BY <2>1, <2>2
<1>9. QED BY <1>5, <1>6, <1>7, <1>8 DEF Counts

\* A thread begins to wait for a mutex that another one holds.
LEMMA EnqueueCounts ==
    ASSUME CountsTyped, Counts, MutexLists, NEW t \in Threads, NEW m \in Mutexes,
           Enqueue(t, m), UNCHANGED <<recursive, depth, nested>>,
           \/ at[t] = "run" /\ Waits(t, "lock", m)
           \/ at[t] = "cond" /\ this[t] = m /\ Waits(t, "relock", m)
    PROVE  Counts'
<1>1. owner' = owner /\ owner[m] # t
  BY DEF Enqueue
<1>2. \A u \in Threads \ {t} : at'[u] = at[u] /\ this'[u] = this[u]
  BY DEF CountsTyped, Waits
<1>3. this'[t] = m /\ at'[t] \in InLoop
  BY DEF CountsTyped, Waits, InLoop
<1>4. at[t] = "run" => this[t] # m /\ nested[t][m] = 0 /\ at'[t] = "lock"
  BY <1>1, NewLock DEF Waits, CountsTyped
<1>5. at[t] = "cond" => this[t] = m /\ at'[t] = "relock"
  BY DEF Waits, CountsTyped
<1>6. at[t] \in {"run", "cond"} /\ (at[t] = "run" => this[t] = NoMutex)
  BY DEF MutexLists, OffMutex
<1>7. \A u \in Threads, k \in Mutexes :
          nested'[u][k] > 0 /\ this'[u] # k =>
              owner'[k] = u /\ nested'[u][k] = DepthToLevels(k, recursive'[k])
  BY <1>1, <1>2, <1>3, <1>5, <1>6, PthreadAssumption DEF Counts
<1>8. \A u \in Threads, k \in Mutexes :
          owner'[k] = u => IF this'[u] = k THEN at'[u] \in InLoop ELSE nested'[u][k] > 0
  BY <1>1, <1>2, <1>3, <1>5, <1>6, PthreadAssumption DEF Counts, InLoop
<1>9. \A k \in Recursive :
          (owner'[k] = NoThread \/ this'[owner'[k]] = k) => recursive'[k] = 0
  <2>1. ASSUME NEW k \in Recursive, owner[k] # NoThread, this'[owner[k]] = k
        PROVE  this[owner[k]] = k
    <3>1. owner[k] \in Threads
      BY <2>1, PthreadAssumption DEF CountsTyped
    <3>2. owner[k] # t
      BY <1>1, <1>3, <2>1
    <3>3. QED BY <1>2, <2>1, <3>1, <3>2
  <2>2. QED BY <1>1, <2>1 DEF Counts
<1>10. \A u \in Threads :
          /\ at'[u] = "lock" => nested'[u][this'[u]] = 0
          /\ at'[u] \in {"cond", "relock"} =>
                 nested'[u][this'[u]] = DepthToLevels(this'[u], depth'[u])
  BY <1>2, <1>3, <1>4, <1>5, <1>6 DEF Counts
<1>11. QED BY <1>7, <1>8, <1>9, <1>10 DEF Counts

\* Who has a mutex that was released: nobody, or a thread whose call asks for it.
LEMMA Heir ==
    ASSUME PthreadTypeOK, MutexLists, NEW t \in Threads, NEW m \in Mutexes, HandOver(m),
           at[t] = "run"
    PROVE  /\ \A k \in Mutexes \ {m} : owner'[k] = owner[k]
           /\ \/ owner'[m] = NoThread
              \/ /\ owner'[m] \in Threads \ {t}
                 /\ this[owner'[m]] = m /\ at[owner'[m]] \in InLoop
<1>1. list[m] \in Seq(Threads) /\ Distinct(list[m])
  BY DEF PthreadTypeOK, MutexLists
<1>2. CASE list[m] = <<>>
  BY <1>2 DEF HandOver, PthreadTypeOK
<1>3. CASE list[m] # <<>>
  <2>1. Head(list[m]) \in Threads /\ Head(list[m]) \in Elements(list[m])
    BY <1>1, <1>3, TakeFirst
  <2>2. owner' = [owner EXCEPT ![m] = Head(list[m])]
    BY <1>3 DEF HandOver
  <2>3. QED BY <2>1, <2>2 DEF PthreadTypeOK, MutexLists, InLoop
<1>4. QED BY <1>2, <1>3

\* Unlock.
LEMMA UnlockCounts ==
    ASSUME PthreadTypeOK, Counts, MutexLists, NEW t \in Threads, NEW m \in Mutexes, Unlock(t, m)
    PROVE  Counts'
<1>0. CountsTyped
  BY DEF PthreadTypeOK, CountsTyped
<1>1. at[t] = "run" /\ nested[t][m] > 0 /\ UNCHANGED <<at, this, depth>>
  BY DEF Unlock, Runs, callVars
<1>2. \A u \in Threads, k \in Mutexes :
          nested'[u][k] = IF u = t /\ k = m THEN nested[t][m] - 1 ELSE nested[u][k]
  BY <1>0, NestedValue DEF Unlock
<1>3. /\ this[t] # m /\ owner[m] = t /\ nested[t][m] \in Nat
      /\ nested[t][m] = DepthToLevels(m, recursive[m])
  BY <1>0, <1>1, OldLock, NestedValue
<1>4. \A u \in Threads : /\ at[u] = "lock" => nested'[u][this[u]] = 0
                         /\ at[u] \in {"cond", "relock"} =>
                                nested'[u][this[u]] = DepthToLevels(this[u], depth[u])
  <2>1. \A u \in Threads \ {t} : at[u] \notin OffMutex => this[u] \in Mutexes
    BY <1>0 DEF MutexLists, CountsTyped
  <2>2. QED BY <1>1, <1>2, <2>1 DEF Counts, OffMutex
<1>5. CASE /\ recursive[m] > 0
           /\ recursive' = [recursive EXCEPT ![m] = @ - 1]
           /\ UNCHANGED <<owner, list, wait>>
  <2>1. m \in Recursive /\ recursive[m] \in Nat /\ recursive'[m] = recursive[m] - 1
    BY <1>0, <1>5 DEF CountsTyped
  <2>2. \A k \in Mutexes \ {m} : recursive'[k] = recursive[k]
    BY <1>0, <1>5 DEF CountsTyped
  <2>3. nested'[t][m] = DepthToLevels(m, recursive'[m]) /\ nested'[t][m] > 0
    BY <1>2, <1>3, <1>5, <2>1 DEF DepthToLevels
  <2>4. \A u \in Threads, k \in Mutexes :
            nested'[u][k] > 0 /\ this'[u] # k =>
                owner'[k] = u /\ nested'[u][k] = DepthToLevels(k, recursive'[k])
    BY <1>1, <1>2, <1>3, <1>5, <2>2, <2>3 DEF Counts
  <2>5. \A u \in Threads, k \in Mutexes :
            owner'[k] = u => IF this'[u] = k THEN at'[u] \in InLoop ELSE nested'[u][k] > 0
    BY <1>1, <1>2, <1>3, <1>5, <2>3 DEF Counts
  <2>6. \A k \in Recursive :
            (owner'[k] = NoThread \/ this'[owner'[k]] = k) => recursive'[k] = 0
    BY <1>1, <1>3, <1>5, <2>2, PthreadAssumption DEF Counts
  <2>7. QED BY <1>1, <1>4, <2>4, <2>5, <2>6 DEF Counts
<1>6. CASE recursive[m] <= 0 /\ HandOver(m) /\ UNCHANGED recursive
  <2>1. m \in Recursive => recursive[m] = 0
    BY <1>0, <1>6 DEF CountsTyped
  <2>2. nested'[t][m] = 0
    BY <1>2, <1>3, <2>1 DEF DepthToLevels
  <2>3. /\ \A k \in Mutexes \ {m} : owner'[k] = owner[k]
        /\ \/ owner'[m] = NoThread
           \/ /\ owner'[m] \in Threads \ {t}
              /\ this[owner'[m]] = m /\ at[owner'[m]] \in InLoop
    BY <1>1, <1>6, Heir
  <2>4. \A u \in Threads, k \in Mutexes :
            nested'[u][k] > 0 /\ this'[u] # k =>
                owner'[k] = u /\ nested'[u][k] = DepthToLevels(k, recursive'[k])
    BY <1>1, <1>2, <1>3, <1>6, <2>2, <2>3 DEF Counts
  <2>5. \A u \in Threads, k \in Mutexes :
            owner'[k] = u => IF this'[u] = k THEN at'[u] \in InLoop ELSE nested'[u][k] > 0
    BY <1>1, <1>2, <1>3, <2>3, PthreadAssumption DEF Counts
  <2>6. \A k \in Recursive :
            (owner'[k] = NoThread \/ this'[owner'[k]] = k) => recursive'[k] = 0
    BY <1>1, <1>6, <2>1, <2>3, PthreadAssumption DEF Counts
  <2>7. QED BY <1>1, <1>4, <2>4, <2>5, <2>6 DEF Counts
<1>7. recursive[m] > 0 \/ recursive[m] <= 0
  BY <1>0 DEF CountsTyped
<1>8. QED BY <1>5, <1>6, <1>7 DEF Unlock

\* wait gives all levels away, and keeps their number.
LEMMA CondWaitCounts ==
    ASSUME PthreadTypeOK, Counts, MutexLists, NEW t \in Threads, CondWait(t)
    PROVE  Counts'
<1> DEFINE m == CondMutex
<1>0. CountsTyped /\ m \in Mutexes
  BY PthreadAssumption DEF PthreadTypeOK, CountsTyped
<1>1. /\ at[t] = "run" /\ nested[t][m] > 0 /\ nested' = nested /\ HandOver(m)
      /\ at' = [at EXCEPT ![t] = "cond"] /\ this' = [this EXCEPT ![t] = m]
      /\ IF recursive[m] < 0
         THEN depth' = [depth EXCEPT ![t] = 0] /\ UNCHANGED recursive
         ELSE /\ depth' = [depth EXCEPT ![t] = recursive[m]]
              /\ recursive' = [recursive EXCEPT ![m] = 0]
  BY DEF CondWait, Runs, Waits
<1> HIDE DEF m
<1>2. /\ this[t] # m /\ owner[m] = t /\ nested[t][m] \in Nat
      /\ nested[t][m] = DepthToLevels(m, recursive[m])
  BY <1>0, <1>1, OldLock, NestedValue
<1>3. /\ \A k \in Mutexes \ {m} : owner'[k] = owner[k]
      /\ \/ owner'[m] = NoThread
         \/ /\ owner'[m] \in Threads \ {t}
            /\ this[owner'[m]] = m /\ at[owner'[m]] \in InLoop
  BY <1>0, <1>1, Heir
<1>4. /\ \A u \in Threads \ {t} : at'[u] = at[u] /\ this'[u] = this[u] /\ depth'[u] = depth[u]
      /\ at'[t] = "cond" /\ this'[t] = m
      /\ \A k \in Mutexes \ {m} : recursive'[k] = recursive[k]
  BY <1>0, <1>1 DEF CountsTyped
<1>5. m \in Recursive => recursive'[m] = 0 /\ depth'[t] = recursive[m]
  BY <1>0, <1>1 DEF CountsTyped
<1>6. nested'[t][m] = DepthToLevels(m, depth'[t])
  BY <1>1, <1>2, <1>5 DEF DepthToLevels
<1>7. \A k \in Mutexes : this[t] # k
  BY <1>1, PthreadAssumption DEF MutexLists, OffMutex
<1>8. \A u \in Threads, k \in Mutexes :
          nested'[u][k] > 0 /\ this'[u] # k =>
              owner'[k] = u /\ nested'[u][k] = DepthToLevels(k, recursive'[k])
  BY <1>1, <1>2, <1>3, <1>4, <1>7 DEF Counts
<1>9. \A u \in Threads, k \in Mutexes :
          owner'[k] = u => IF this'[u] = k THEN at'[u] \in InLoop ELSE nested'[u][k] > 0
  BY <1>1, <1>2, <1>3, <1>4, <1>7, PthreadAssumption DEF Counts
<1>10. ASSUME NEW k \in Recursive, owner'[k] = NoThread \/ this'[owner'[k]] = k
       PROVE  recursive'[k] = 0
  <2>1. CASE k = m
    BY <1>5, <2>1
  <2>2. CASE k # m
    <3>1. k \in Mutexes /\ owner'[k] = owner[k] /\ recursive'[k] = recursive[k]
      BY <1>3, <1>4, <2>2, PthreadAssumption
    <3>2. owner[k] = NoThread \/ this[owner[k]] = k
      <4>1. CASE owner[k] = NoThread
        BY <4>1
      <4>2. CASE owner[k] # NoThread
        <5>1. owner[k] \in Threads /\ owner[k] # t
          BY <1>0, <1>4, <1>10, <2>2, <3>1, <4>2 DEF CountsTyped
        <5>2. QED BY <1>4, <1>10, <3>1, <4>2, <5>1
      <4>3. QED BY <4>1, <4>2
    <3>3. QED BY <3>1, <3>2 DEF Counts
  <2>3. QED BY <2>1, <2>2
<1>11. \A u \in Threads :
          /\ at'[u] = "lock" => nested'[u][this'[u]] = 0
          /\ at'[u] \in {"cond", "relock"} =>
                 nested'[u][this'[u]] = DepthToLevels(this'[u], depth'[u])
  BY <1>1, <1>4, <1>6 DEF Counts
<1>12. QED BY <1>8, <1>9, <1>10, <1>11 DEF Counts

\* A call returns with its mutex: PKlock, or PKlockToDepth with all levels.
LEMMA ReturnCounts ==
    ASSUME PthreadTypeOK, Counts, MutexLists, NEW t \in Threads, NEW m \in Mutexes,
           at[t] \notin OffMutex, this[t] = m, owner'[m] = t,
           owner[m] \in {t, NoThread},
           \A k \in Mutexes \ {m} : owner'[k] = owner[k],
           Returns(t), \A u \in Threads \ {t} : depth'[u] = depth[u],
           \/ at[t] = "lock" /\ owner[m] = t /\ Locked(t, m) /\ UNCHANGED recursive
           \/ at[t] # "lock" /\ SetDepth(m, depth[t]) /\ UNCHANGED nested
    PROVE  Counts'
<1>0. CountsTyped /\ NoMutex \notin Mutexes /\ NoThread \notin Threads
  BY PthreadAssumption DEF PthreadTypeOK, CountsTyped
<1>1. /\ at'[t] = "run" /\ this'[t] = NoMutex
      /\ \A u \in Threads \ {t} : at'[u] = at[u] /\ this'[u] = this[u]
  BY <1>0 DEF CountsTyped, Returns
<1>2. \A k \in Mutexes \ {m} : recursive'[k] = recursive[k]
  BY <1>0, SetDepthValue DEF CountsTyped
<1>3. /\ nested'[t][m] > 0 /\ nested'[t][m] = DepthToLevels(m, recursive'[m])
      /\ \A u \in Threads, k \in Mutexes : u # t \/ k # m => nested'[u][k] = nested[u][k]
  <2>1. CASE at[t] = "lock"
    <3>1. nested[t][m] = 0
      BY <2>1 DEF Counts
    <3>2. m \in Recursive => recursive'[m] = 0
      BY <2>1 DEF Counts
    <3>3. \A u \in Threads, k \in Mutexes :
              nested'[u][k] = IF u = t /\ k = m THEN nested[t][m] + 1 ELSE nested[u][k]
      BY <1>0, <2>1, NestedValue
    <3>4. QED BY <3>1, <3>2, <3>3 DEF DepthToLevels
  <2>2. CASE at[t] # "lock"
    <3>1. depth[t] \in Nat /\ at[t] \in {"cond", "relock"}
      BY <1>0, <2>2 DEF CountsTyped, OffMutex
    <3>2. nested[t][m] = DepthToLevels(m, depth[t])
      BY <3>1 DEF Counts
    <3>3. DepthToLevels(m, recursive'[m]) = DepthToLevels(m, depth[t])
      BY <1>0, <2>2, <3>1, SetDepthValue
    <3>4. DepthToLevels(m, depth[t]) > 0
      BY <3>1 DEF DepthToLevels
    <3>5. QED BY <2>2, <3>2, <3>3, <3>4
  <2>3. QED BY <2>1, <2>2
<1>4. \A u \in Threads, k \in Mutexes :
          nested'[u][k] > 0 /\ this'[u] # k =>
              owner'[k] = u /\ nested'[u][k] = DepthToLevels(k, recursive'[k])
  BY <1>0, <1>1, <1>2, <1>3 DEF Counts
<1>5. \A u \in Threads, k \in Mutexes :
          owner'[k] = u => IF this'[u] = k THEN at'[u] \in InLoop ELSE nested'[u][k] > 0
  BY <1>0, <1>1, <1>3 DEF Counts
<1>6. ASSUME NEW k \in Recursive, owner'[k] = NoThread \/ this'[owner'[k]] = k
      PROVE  recursive'[k] = 0
  <2>1. k # m /\ k \in Mutexes
    BY <1>0, <1>1, <1>6, PthreadAssumption
  <2>2. owner'[k] = owner[k] /\ recursive'[k] = recursive[k]
    BY <1>2, <2>1
  <2>3. owner[k] = NoThread \/ this[owner[k]] = k
    BY <1>0, <1>1, <1>6, <2>1, <2>2 DEF CountsTyped
  <2>4. QED BY <2>2, <2>3 DEF Counts
<1>7. \A u \in Threads :
          /\ at'[u] = "lock" => nested'[u][this'[u]] = 0
          /\ at'[u] \in {"cond", "relock"} =>
                 nested'[u][this'[u]] = DepthToLevels(this'[u], depth'[u])
  <2>1. \A u \in Threads : at[u] \notin OffMutex => this[u] \in Mutexes
    BY <1>0 DEF MutexLists, CountsTyped
  <2>2. QED BY <1>1, <1>3, <2>1 DEF Counts, OffMutex
<1>8. QED BY <1>4, <1>5, <1>6, <1>7 DEF Counts

LEMMA CountsStep == PthreadTypeOK /\ MutexLists /\ Counts /\ PthreadNext => Counts'
<1> SUFFICES ASSUME PthreadTypeOK, MutexLists, Counts, PthreadNext PROVE Counts'
  OBVIOUS
<1>0. CountsTyped
  BY DEF PthreadTypeOK, CountsTyped
<1>1. ASSUME UNCHANGED <<owner, recursive, at, this, depth, nested>> PROVE Counts'
  BY <1>1 DEF Counts
<1>2. ASSUME NEW t \in Threads, NEW m \in Mutexes, Lock(t, m) \/ TryLock(t, m)
      PROVE  Counts'
  <2>1. at[t] = "run" /\ UNCHANGED depth
    BY <1>2 DEF Lock, TryLock, Runs, callVars
  <2>2. CASE /\ UNCHANGED <<at, this>> /\ Locked(t, m)
             /\ (Take(t, m) /\ UNCHANGED recursive) \/ Deeper(t, m)
    BY <1>0, <2>1, <2>2, LockCounts
  <2>3. CASE Enqueue(t, m) /\ Waits(t, "lock", m) /\ UNCHANGED <<recursive, nested>>
    BY <1>0, <2>1, <2>3, EnqueueCounts
  <2>4. QED BY <1>2, <2>2, <2>3 DEF Lock, TryLock, callVars
<1>3. ASSUME NEW t \in Threads, NEW m \in Mutexes, Unlock(t, m) PROVE Counts'
  BY <1>3, UnlockCounts
<1>4. ASSUME NEW t \in Threads, Granted(t) PROVE Counts'
  <2>1. this[t] \in Mutexes /\ at[t] \notin OffMutex
    BY <1>4, ThisType DEF Granted, OffMutex
  <2>2. QED BY <1>4, <2>1, ReturnCounts DEF Granted
<1>5. ASSUME NEW t \in Threads, CondWait(t) PROVE Counts'
  BY <1>5, CondWaitCounts
<1>6. ASSUME NEW t \in Threads, CondReturn(t) PROVE Counts'
  <2>1. this[t] \in Mutexes /\ at[t] = "cond" /\ UNCHANGED nested
    BY <1>6, ThisType DEF CondReturn, OffMutex
  <2>2. CASE /\ Take(t, this[t]) /\ SetDepth(this[t], depth[t]) /\ Returns(t)
             /\ depth' = [depth EXCEPT ![t] = 0]
    <3>1. /\ owner[this[t]] = NoThread /\ owner'[this[t]] = t
          /\ \A k \in Mutexes \ {this[t]} : owner'[k] = owner[k]
      BY <1>0, <2>1, <2>2 DEF Take, CountsTyped
    <3>2. \A u \in Threads \ {t} : depth'[u] = depth[u]
      BY <1>0, <2>2 DEF CountsTyped
    <3>3. at[t] \notin OffMutex
      BY <2>1 DEF OffMutex
    <3>4. QED BY <2>1, <2>2, <3>1, <3>2, <3>3, ReturnCounts
  <2>3. CASE /\ Enqueue(t, this[t]) /\ Waits(t, "relock", this[t])
             /\ UNCHANGED <<recursive, depth>>
    BY <1>0, <2>1, <2>3, EnqueueCounts
  <2>4. QED BY <1>6, <2>2, <2>3 DEF CondReturn
<1>7. ASSUME NEW t \in Threads,
             WaitAgain(t) \/ Signal(t) \/ Broadcast(t) \/ Wakeup(t)
      PROVE  Counts'
  BY <1>1, <1>7
     DEF WaitAgain, Signal, Broadcast, Wakeup, mutexVars, callVars
<1>8. QED BY <1>2, <1>3, <1>4, <1>5, <1>6, <1>7 DEF PthreadNext

-----------------------------------------------------------------------------
(* What the modules that use Pthread need of it.                           *)

LEMMA PthreadInvInit == PthreadInit => PthreadInv
<1> SUFFICES ASSUME PthreadInit PROVE PthreadInv
  OBVIOUS
<1>1. PthreadTypeOK
  BY PthreadAssumption DEF PthreadInit, PthreadTypeOK
<1>2. Lists
  BY PthreadAssumption, NobodyListed
     DEF PthreadInit, Lists, MutexLists, CondLists, Distinct, InLoop, OffMutex
<1>3. Sleeps
  BY DEF PthreadInit, Sleeps
<1>4. Counts
  BY PthreadAssumption DEF PthreadInit, Counts, DepthToLevels
<1>5. QED BY <1>1, <1>2, <1>3, <1>4 DEF PthreadInv

LEMMA PthreadInvStep == PthreadInv /\ PthreadNext => PthreadInv'
<1>1. Counts => Owners
  BY DEF Counts, Owners
<1>2. QED
  BY <1>1, TypeStep, MutexListsStep, CondListsStep, SleepsStep, CountsStep DEF PthreadInv, Lists

LEMMA InvExcludes == PthreadInv => Exclusion
<1> SUFFICES ASSUME PthreadInv, NEW t \in Threads, NEW m \in Mutexes, nested[t][m] > 0,
                    ~(at[t] \in {"cond", "relock"} /\ this[t] = m)
             PROVE  owner[m] = t /\ (m \in Recursive => recursive[m] = nested[t][m] - 1)
  BY DEF Exclusion
<1>1. this[t] # m
  <2>1. CASE at[t] = "lock"
    BY <2>1 DEF PthreadInv, Counts
  <2>2. CASE at[t] \in OffMutex
    BY <2>2, PthreadAssumption DEF PthreadInv, Lists, MutexLists
  <2>3. QED BY <2>1, <2>2 DEF PthreadInv, PthreadTypeOK, OffMutex
<1>2. owner[m] = t /\ nested[t][m] = DepthToLevels(m, recursive[m])
  BY <1>1 DEF PthreadInv, Counts
<1>3. recursive[m] \in Nat \cup {-1}
  BY DEF PthreadInv, PthreadTypeOK
<1>4. QED BY <1>2, <1>3 DEF DepthToLevels

LEMMA InvRemembers == PthreadInv => NoneForgotten
<1> SUFFICES ASSUME PthreadInv, NEW t \in Threads
             PROVE  /\ wait[t] /\ at[t] # "away" =>
                           /\ this[t] # NoMutex
                           /\ t \in Elements(list[this[t]])
                           /\ owner[this[t]] \notin {NoThread, t}
                    /\ condWait[t] => t \in Elements(condList)
  BY DEF NoneForgotten
<1>1. wait[t] /\ at[t] # "away" => at[t] \in InLoop /\ t \in Elements(list[this[t]])
  BY DEF PthreadInv, Sleeps
<1>2. at[t] \in InLoop => this[t] \in Mutexes
  BY LoopType DEF PthreadInv, Lists
<1>3. QED BY <1>1, <1>2, PthreadAssumption DEF PthreadInv, Lists, MutexLists, Sleeps

\* Every change of an owner, while threads wait, is a handover.
LEMMA InOrder ==
    ASSUME PthreadInv, PthreadNext, NEW m \in Mutexes, list[m] # <<>>, owner'[m] # owner[m]
    PROVE  owner'[m] = Head(list[m])
<1>1. owner[m] # NoThread
  BY OwnedWhileListed
<1>2. owner \in [Mutexes -> Threads \cup {NoThread}]
  BY DEF PthreadInv, PthreadTypeOK
<1>3. ASSUME NEW t \in Threads, NEW k \in Mutexes, Take(t, k) PROVE FALSE
  BY <1>1, <1>2, <1>3 DEF Take
<1>4. ASSUME NEW k \in Mutexes, HandOver(k) PROVE owner'[m] = Head(list[m])
  BY <1>2, <1>4 DEF HandOver
<1>5. ASSUME NEW t \in Threads, NEW k \in Mutexes, Lock(t, k) \/ TryLock(t, k) PROVE FALSE
  BY <1>3, <1>5 DEF Lock, TryLock, Deeper, Enqueue
<1>6. ASSUME NEW t \in Threads, NEW k \in Mutexes, Unlock(t, k)
      PROVE  owner'[m] = Head(list[m])
  BY <1>4, <1>6 DEF Unlock
<1>7. ASSUME NEW t \in Threads, CondWait(t) PROVE owner'[m] = Head(list[m])
  BY <1>4, <1>7, PthreadAssumption DEF CondWait
<1>8. ASSUME NEW t \in Threads, CondReturn(t) PROVE FALSE
  <2>1. this[t] \in Mutexes
    BY <1>8, ThisType DEF CondReturn, PthreadInv, Lists, OffMutex
  <2>2. QED BY <1>3, <1>8, <2>1 DEF CondReturn, Enqueue
<1>9. ASSUME NEW t \in Threads,
             Granted(t) \/ WaitAgain(t) \/ Signal(t) \/ Broadcast(t) \/ Wakeup(t)
      PROVE  FALSE
  BY <1>9 DEF Granted, WaitAgain, Signal, Broadcast, Wakeup, mutexVars
<1>10. QED BY <1>5, <1>6, <1>7, <1>8, <1>9 DEF PthreadNext

-----------------------------------------------------------------------------
(* Every step is a step of the abstract Locks, or nothing that the program *)
(* could tell.                                                             *)

LevelOf(t, m) ==
    IF owner[m] = t /\ this[t] # m THEN DepthToLevels(m, recursive[m]) ELSE 0

ParkedOf(t, m) ==
    IF at[t] \in {"cond", "relock"} /\ this[t] = m THEN DepthToLevels(m, depth[t]) ELSE 0

\* The abstract variables, entry by entry.
LocksRead ==
    /\ PthreadLevels \in [Threads -> [Mutexes -> Nat]]
    /\ PthreadParked \in [Threads -> [Mutexes -> Nat]]
    /\ \A t \in Threads, m \in Mutexes :
          PthreadLevels[t][m] = LevelOf(t, m) /\ PthreadParked[t][m] = ParkedOf(t, m)

LEMMA LocksType == PthreadInv => LocksRead
<1> SUFFICES ASSUME PthreadInv PROVE LocksRead
  OBVIOUS
<1>1. ASSUME NEW m \in Mutexes PROVE DepthToLevels(m, recursive[m]) \in Nat
  <2>1. recursive[m] \in Nat \cup {-1} /\ (m \in Recursive => recursive[m] >= 0)
    BY DEF PthreadInv, PthreadTypeOK
  <2>2. QED BY <2>1 DEF DepthToLevels
<1>2. \A t \in Threads, m \in Mutexes : DepthToLevels(m, depth[t]) \in Nat
  BY DEF PthreadInv, PthreadTypeOK, DepthToLevels
<1>3. \A t \in Threads, m \in Mutexes : LevelOf(t, m) \in Nat /\ ParkedOf(t, m) \in Nat
  BY <1>1, <1>2 DEF LevelOf, ParkedOf
<1>4. /\ PthreadLevels = [t \in Threads |-> [m \in Mutexes |-> LevelOf(t, m)]]
      /\ PthreadParked = [t \in Threads |-> [m \in Mutexes |-> ParkedOf(t, m)]]
  BY DEF PthreadLevels, PthreadParked, LevelOf, ParkedOf
<1> HIDE DEF LevelOf, ParkedOf
<1>5. QED BY <1>3, <1>4 DEF LocksRead

LEMMA NextLocksType == PthreadInv' => LocksRead'
BY LocksType, PTL

\* A table that differs in one entry.
LEMMA OneEntry ==
    ASSUME NEW f \in [Threads -> [Mutexes -> Nat]], NEW g \in [Threads -> [Mutexes -> Nat]],
           NEW t \in Threads, NEW m \in Mutexes,
           \A u \in Threads, k \in Mutexes : u # t \/ k # m => g[u][k] = f[u][k]
    PROVE  g = [f EXCEPT ![t][m] = g[t][m]]
<1>1. \A u \in Threads : g[u] \in [Mutexes -> Nat] /\ f[u] \in [Mutexes -> Nat]
  OBVIOUS
<1>2. ASSUME NEW u \in Threads \ {t} PROVE g[u] = f[u]
  <2>1. \A k \in Mutexes : g[u][k] = f[u][k]
    OBVIOUS
  <2>2. g[u] = [k \in Mutexes |-> g[u][k]] /\ f[u] = [k \in Mutexes |-> f[u][k]]
    BY <1>1
  <2>3. QED BY <2>1, <2>2
<1>3. g[t] = [f[t] EXCEPT ![m] = g[t][m]]
  BY <1>1
<1>4. g = [f EXCEPT ![t] = [f[t] EXCEPT ![m] = g[t][m]]]
  BY <1>2, <1>3
<1>5. QED BY <1>4

LEMMA NoEntry ==
    ASSUME NEW f \in [Threads -> [Mutexes -> Nat]], NEW g \in [Threads -> [Mutexes -> Nat]],
           \A u \in Threads, k \in Mutexes : g[u][k] = f[u][k]
    PROVE  g = f
<1>1. \A u \in Threads : g[u] \in [Mutexes -> Nat] /\ f[u] \in [Mutexes -> Nat]
  OBVIOUS
<1>2. ASSUME NEW u \in Threads PROVE g[u] = f[u]
  <2>1. g[u] = [k \in Mutexes |-> g[u][k]] /\ f[u] = [k \in Mutexes |-> f[u][k]]
    BY <1>1
  <2>2. QED BY <2>1
<1>3. QED BY <1>2

\* A thread in the program has parked nothing.
LEMMA NothingParked ==
    ASSUME PthreadInv, NEW t \in Threads, at[t] \notin {"cond", "relock"}
    PROVE  PthreadParked[t] = [k \in Mutexes |-> 0]
BY DEF PthreadParked

-----------------------------------------------------------------------------
(* The four steps of Locks.                                                *)

\* The entries besides one that a step leaves alone.
OthersKept(t, m) ==
    \A u \in Threads, k \in Mutexes : u # t \/ k # m =>
        LevelOf(u, k)' = LevelOf(u, k) /\ ParkedOf(u, k)' = ParkedOf(u, k)

LEMMA Acquires ==
    ASSUME PthreadInv, PthreadInv', NEW t \in Threads, NEW m \in Mutexes, OthersKept(t, m),
           at[t] \notin {"cond", "relock"}, ParkedOf(t, m)' = ParkedOf(t, m),
           owner[m] \in {NoThread, t}, LevelOf(t, m) > 0 => m \in Recursive,
           LevelOf(t, m)' = LevelOf(t, m) + 1
    PROVE  L!Acquire(t, m)
<1>1. LocksRead /\ LocksRead'
  BY LocksType, NextLocksType
<1>2. L!Free(t, m)
  BY <1>1, PthreadAssumption DEF L!Free, LocksRead, LevelOf
<1>3. PthreadParked' = PthreadParked
  <2>1. \A u \in Threads, k \in Mutexes : PthreadParked'[u][k] = PthreadParked[u][k]
    BY <1>1 DEF LocksRead, OthersKept
  <2>2. QED BY <1>1, <2>1, NoEntry DEF LocksRead
<1>4. PthreadLevels' = [PthreadLevels EXCEPT ![t][m] = PthreadLevels'[t][m]]
  <2>1. \A u \in Threads, k \in Mutexes : u # t \/ k # m =>
            PthreadLevels'[u][k] = PthreadLevels[u][k]
    BY <1>1 DEF LocksRead, OthersKept
  <2>2. QED BY <1>1, <2>1, OneEntry DEF LocksRead
<1>5. PthreadLevels'[t][m] = PthreadLevels[t][m] + 1
  BY <1>1 DEF LocksRead
<1>6. PthreadLevels' = [PthreadLevels EXCEPT ![t][m] = @ + 1]
  BY <1>4, <1>5
<1>7. PthreadLevels[t][m] > 0 => m \in Recursive
  BY <1>1 DEF LocksRead
<1>8. QED BY <1>2, <1>3, <1>6, <1>7, NothingParked DEF L!Acquire

LEMMA Releases ==
    ASSUME PthreadInv, PthreadInv', NEW t \in Threads, NEW m \in Mutexes, OthersKept(t, m),
           ParkedOf(t, m)' = ParkedOf(t, m),
           LevelOf(t, m) > 0, LevelOf(t, m)' = LevelOf(t, m) - 1
    PROVE  L!Release(t, m)
<1>1. LocksRead /\ LocksRead'
  BY LocksType, NextLocksType
<1>2. PthreadParked' = PthreadParked
  <2>1. \A u \in Threads, k \in Mutexes : PthreadParked'[u][k] = PthreadParked[u][k]
    BY <1>1 DEF LocksRead, OthersKept
  <2>2. QED BY <1>1, <2>1, NoEntry DEF LocksRead
<1>3. PthreadLevels' = [PthreadLevels EXCEPT ![t][m] = PthreadLevels'[t][m]]
  <2>1. \A u \in Threads, k \in Mutexes : u # t \/ k # m =>
            PthreadLevels'[u][k] = PthreadLevels[u][k]
    BY <1>1 DEF LocksRead, OthersKept
  <2>2. QED BY <1>1, <2>1, OneEntry DEF LocksRead
<1>4. PthreadLevels'[t][m] = PthreadLevels[t][m] - 1 /\ PthreadLevels[t][m] > 0
  BY <1>1 DEF LocksRead
<1>5. PthreadLevels' = [PthreadLevels EXCEPT ![t][m] = @ - 1]
  BY <1>3, <1>4
<1>6. QED BY <1>2, <1>4, <1>5 DEF L!Release

LEMMA Parks ==
    ASSUME PthreadInv, PthreadInv', NEW t \in Threads, NEW m \in Mutexes, OthersKept(t, m),
           LevelOf(t, m) > 0, LevelOf(t, m)' = 0, ParkedOf(t, m)' = LevelOf(t, m)
    PROVE  L!Park(t, m)
<1>1. LocksRead /\ LocksRead'
  BY LocksType, NextLocksType
<1>2. /\ PthreadLevels' = [PthreadLevels EXCEPT ![t][m] = PthreadLevels'[t][m]]
      /\ PthreadParked' = [PthreadParked EXCEPT ![t][m] = PthreadParked'[t][m]]
  <2>1. \A u \in Threads, k \in Mutexes : u # t \/ k # m =>
            /\ PthreadLevels'[u][k] = PthreadLevels[u][k]
            /\ PthreadParked'[u][k] = PthreadParked[u][k]
    BY <1>1 DEF LocksRead, OthersKept
  <2>2. QED BY <1>1, <2>1, OneEntry DEF LocksRead
<1>3. /\ PthreadLevels[t][m] > 0 /\ PthreadLevels'[t][m] = 0
      /\ PthreadParked'[t][m] = PthreadLevels[t][m]
  BY <1>1 DEF LocksRead
<1>4. QED BY <1>2, <1>3 DEF L!Park

LEMMA Unparks ==
    ASSUME PthreadInv, PthreadInv', NEW t \in Threads, NEW m \in Mutexes, OthersKept(t, m),
           owner[m] \in {NoThread, t},
           ParkedOf(t, m) > 0, ParkedOf(t, m)' = 0, LevelOf(t, m)' = ParkedOf(t, m)
    PROVE  L!Unpark(t, m)
<1>1. LocksRead /\ LocksRead'
  BY LocksType, NextLocksType
<1>2. /\ PthreadLevels' = [PthreadLevels EXCEPT ![t][m] = PthreadLevels'[t][m]]
      /\ PthreadParked' = [PthreadParked EXCEPT ![t][m] = PthreadParked'[t][m]]
  <2>1. \A u \in Threads, k \in Mutexes : u # t \/ k # m =>
            /\ PthreadLevels'[u][k] = PthreadLevels[u][k]
            /\ PthreadParked'[u][k] = PthreadParked[u][k]
    BY <1>1 DEF LocksRead, OthersKept
  <2>2. QED BY <1>1, <2>1, OneEntry DEF LocksRead
<1>3. /\ PthreadParked[t][m] > 0 /\ PthreadParked'[t][m] = 0
      /\ PthreadLevels'[t][m] = PthreadParked[t][m]
  BY <1>1 DEF LocksRead
<1>4. L!Free(t, m)
  BY <1>1, PthreadAssumption DEF L!Free, LocksRead, LevelOf
<1>5. QED BY <1>2, <1>3, <1>4 DEF L!Unpark

\* A step that changes no entry.
LEMMA Stutters ==
    ASSUME PthreadInv, PthreadInv',
           \A u \in Threads, k \in Mutexes :
               LevelOf(u, k)' = LevelOf(u, k) /\ ParkedOf(u, k)' = ParkedOf(u, k)
    PROVE  UNCHANGED L!vars
<1>1. LocksRead /\ LocksRead'
  BY LocksType, NextLocksType
<1>2. \A u \in Threads, k \in Mutexes : /\ PthreadLevels'[u][k] = PthreadLevels[u][k]
                                        /\ PthreadParked'[u][k] = PthreadParked[u][k]
  BY <1>1 DEF LocksRead
<1>3. PthreadLevels' = PthreadLevels /\ PthreadParked' = PthreadParked
  BY <1>1, <1>2, NoEntry DEF LocksRead
<1>4. QED BY <1>3 DEF L!vars

-----------------------------------------------------------------------------
(* The steps of Pthread.                                                   *)

\* What the invariant says of one thread and one mutex.
LEMMA Standing ==
    ASSUME PthreadInv, NEW t \in Threads, NEW m \in Mutexes
    PROVE  /\ t # NoThread /\ m # NoMutex
           /\ recursive[m] \in Nat \cup {-1} /\ (m \in Recursive <=> recursive[m] >= 0)
           /\ depth[t] \in Nat
           /\ at[t] \in OffMutex <=> this[t] = NoMutex
           /\ owner[m] = NoThread => (m \in Recursive => recursive[m] = 0)
           /\ owner[m] = t /\ this[t] = m => (m \in Recursive => recursive[m] = 0)
           /\ at[t] = "run" /\ nested[t][m] > 0 => owner[m] = t
           /\ at[t] = "run" /\ owner[m] = t => nested[t][m] = DepthToLevels(m, recursive[m])
BY PthreadAssumption
   DEF PthreadInv, PthreadTypeOK, Lists, MutexLists, Counts, OffMutex

\* Lock and TryLock, when the mutex is free or the thread's own.
LEMMA LockAcquires ==
    ASSUME PthreadInv, PthreadInv', NEW t \in Threads, NEW m \in Mutexes,
           at[t] = "run", UNCHANGED <<at, this, depth>>,
           (Take(t, m) /\ UNCHANGED recursive) \/ Deeper(t, m)
    PROVE  L!Acquire(t, m)
<1>1. /\ owner[m] \in {NoThread, t} /\ owner'[m] = t
      /\ \A k \in Mutexes \ {m} : owner'[k] = owner[k] /\ recursive'[k] = recursive[k]
  BY DEF PthreadInv, PthreadTypeOK, Take, Deeper
<1>2. this[t] # m
  BY Standing DEF OffMutex
<1>3. OthersKept(t, m) /\ ParkedOf(t, m)' = ParkedOf(t, m)
  BY <1>1, PthreadAssumption DEF OthersKept, LevelOf, ParkedOf
<1>4. (LevelOf(t, m) > 0 => m \in Recursive) /\ LevelOf(t, m)' = LevelOf(t, m) + 1
  <2>1. CASE Take(t, m) /\ UNCHANGED recursive
    <3>1. owner[m] # t /\ (m \in Recursive => recursive[m] = 0)
      BY <2>1, Standing DEF Take
    <3>2. QED BY <1>1, <1>2, <2>1, <3>1 DEF LevelOf, DepthToLevels
  <2>2. CASE Deeper(t, m)
    <3>1. owner[m] = t /\ m \in Recursive /\ recursive[m] \in Nat
          /\ recursive'[m] = recursive[m] + 1
      BY <2>2, Standing DEF Deeper, PthreadInv, PthreadTypeOK
    <3>2. QED BY <1>1, <1>2, <3>1 DEF LevelOf, DepthToLevels
  <2>3. QED BY <2>1, <2>2
<1>5. QED BY <1>1, <1>3, <1>4, Acquires

\* To wait for a mutex changes nothing.
LEMMA EnqueueStutters ==
    ASSUME PthreadInv, PthreadInv', NEW t \in Threads, NEW m \in Mutexes,
           Enqueue(t, m), UNCHANGED <<recursive, depth>>,
           \/ at[t] = "run" /\ Waits(t, "lock", m)
           \/ at[t] = "cond" /\ this[t] = m /\ Waits(t, "relock", m)
    PROVE  UNCHANGED L!vars
<1>1. owner' = owner /\ owner[m] # t
  BY DEF Enqueue
<1>2. /\ \A u \in Threads \ {t} : at'[u] = at[u] /\ this'[u] = this[u]
      /\ this'[t] = m /\ at'[t] = IF at[t] = "run" THEN "lock" ELSE "relock"
  BY DEF Waits, PthreadInv, PthreadTypeOK
<1>3. at[t] = "run" => this[t] = NoMutex
  BY Standing DEF OffMutex
<1>4. \A u \in Threads, k \in Mutexes :
          LevelOf(u, k)' = LevelOf(u, k) /\ ParkedOf(u, k)' = ParkedOf(u, k)
  BY <1>1, <1>2, <1>3, PthreadAssumption DEF LevelOf, ParkedOf
<1>5. QED BY <1>4, Stutters

\* Who has a mutex that is given up is in a call that asks for it.
LEMMA HeirWaits ==
    ASSUME PthreadInv, NEW t \in Threads, NEW m \in Mutexes, HandOver(m), at[t] = "run"
    PROVE  /\ \A k \in Mutexes \ {m} : owner'[k] = owner[k]
           /\ \A u \in Threads : owner'[m] = u => u # t /\ this[u] = m
BY Heir, PthreadAssumption DEF PthreadInv, Lists

LEMMA UnlockReleases ==
    ASSUME PthreadInv, PthreadInv', NEW t \in Threads, NEW m \in Mutexes, Unlock(t, m)
    PROVE  L!Release(t, m)
<1>1. at[t] = "run" /\ nested[t][m] > 0 /\ UNCHANGED <<at, this, depth>>
  BY DEF Unlock, Runs, callVars
<1>2. this[t] # m /\ owner[m] = t /\ recursive[m] \in Nat \cup {-1}
      /\ (m \in Recursive <=> recursive[m] >= 0)
  BY <1>1, Standing DEF OffMutex
<1>3. ParkedOf(t, m)' = ParkedOf(t, m)
  BY <1>1 DEF ParkedOf
<1>4. CASE /\ recursive[m] > 0 /\ recursive' = [recursive EXCEPT ![m] = @ - 1]
           /\ UNCHANGED <<owner, list, wait>>
  <2>1. /\ \A k \in Mutexes \ {m} : recursive'[k] = recursive[k]
        /\ recursive'[m] = recursive[m] - 1 /\ recursive[m] \in Nat
    BY <1>2, <1>4 DEF PthreadInv, PthreadTypeOK
  <2>2. OthersKept(t, m)
    BY <1>1, <1>2, <1>4, <2>1 DEF OthersKept, LevelOf, ParkedOf
  <2>3. LevelOf(t, m) > 0 /\ LevelOf(t, m)' = LevelOf(t, m) - 1
    BY <1>1, <1>2, <1>4, <2>1 DEF LevelOf, DepthToLevels
  <2>4. QED BY <1>3, <2>2, <2>3, Releases
<1>5. CASE ~(recursive[m] > 0) /\ HandOver(m) /\ UNCHANGED recursive
  <2>1. /\ \A k \in Mutexes \ {m} : owner'[k] = owner[k]
        /\ \A u \in Threads : owner'[m] = u => u # t /\ this[u] = m
    BY <1>1, <1>5, HeirWaits
  <2>2. OthersKept(t, m)
    BY <1>1, <1>2, <1>5, <2>1 DEF OthersKept, LevelOf, ParkedOf
  <2>3. LevelOf(t, m) = 1 /\ LevelOf(t, m)' = 0
    BY <1>1, <1>2, <1>5, <2>1 DEF LevelOf, DepthToLevels
  <2>4. QED BY <1>3, <2>2, <2>3, Releases
<1>6. QED BY <1>4, <1>5 DEF Unlock

LEMMA CondWaitParks ==
    ASSUME PthreadInv, PthreadInv', NEW t \in Threads, CondWait(t)
    PROVE  L!Park(t, CondMutex)
<1> DEFINE m == CondMutex
<1>1. /\ m \in Mutexes /\ at[t] = "run" /\ nested[t][m] > 0 /\ HandOver(m)
      /\ at' = [at EXCEPT ![t] = "cond"] /\ this' = [this EXCEPT ![t] = m]
      /\ IF recursive[m] < 0
         THEN depth' = [depth EXCEPT ![t] = 0] /\ UNCHANGED recursive
         ELSE /\ depth' = [depth EXCEPT ![t] = recursive[m]]
              /\ recursive' = [recursive EXCEPT ![m] = 0]
  BY PthreadAssumption DEF CondWait, Runs, Waits
<1> HIDE DEF m
<1>2. /\ this[t] = NoMutex /\ m # NoMutex /\ owner[m] = t /\ recursive[m] \in Nat \cup {-1}
      /\ (m \in Recursive <=> recursive[m] >= 0)
  BY <1>1, Standing DEF OffMutex
<1>3. /\ \A k \in Mutexes \ {m} : owner'[k] = owner[k]
      /\ \A u \in Threads : owner'[m] = u => u # t /\ this[u] = m
  BY <1>1, HeirWaits
<1>4. /\ \A u \in Threads \ {t} : at'[u] = at[u] /\ this'[u] = this[u] /\ depth'[u] = depth[u]
      /\ at'[t] = "cond" /\ this'[t] = m
      /\ \A k \in Mutexes \ {m} : recursive'[k] = recursive[k]
      /\ m \in Recursive => depth'[t] = recursive[m]
  BY <1>1, <1>2 DEF PthreadInv, PthreadTypeOK
<1>5. OthersKept(t, m)
  <2>1. \A u \in Threads \ {t}, k \in Mutexes :
            LevelOf(u, k)' = LevelOf(u, k) /\ ParkedOf(u, k)' = ParkedOf(u, k)
    BY <1>2, <1>3, <1>4 DEF LevelOf, ParkedOf
  <2>2. \A k \in Mutexes \ {m} :
            LevelOf(t, k)' = LevelOf(t, k) /\ ParkedOf(t, k)' = ParkedOf(t, k)
    BY <1>1, <1>2, <1>3, <1>4, PthreadAssumption DEF LevelOf, ParkedOf
  <2>3. QED BY <2>1, <2>2 DEF OthersKept
<1>6. LevelOf(t, m) > 0
  BY <1>2 DEF LevelOf, DepthToLevels
<1>7. LevelOf(t, m)' = 0
  BY <1>4 DEF LevelOf
<1>8. ParkedOf(t, m)' = LevelOf(t, m)
  BY <1>2, <1>4 DEF ParkedOf, LevelOf, DepthToLevels
<1>9. L!Park(t, m)
  BY <1>1, <1>5, <1>6, <1>7, <1>8, Parks
<1>10. QED BY <1>9 DEF m

\* A call returns with its mutex.
LEMMA Return ==
    ASSUME PthreadInv, PthreadInv', NEW t \in Threads, NEW m \in Mutexes,
           at[t] \notin OffMutex, this[t] = m, Returns(t),
           owner[m] \in {t, NoThread}, owner'[m] = t,
           \A k \in Mutexes \ {m} : owner'[k] = owner[k],
           \A u \in Threads \ {t} : depth'[u] = depth[u],
           \/ at[t] = "lock" /\ owner[m] = t /\ UNCHANGED recursive
           \/ at[t] # "lock" /\ SetDepth(m, depth[t])
    PROVE  L!Acquire(t, m) \/ L!Unpark(t, m)
<1>0. /\ m # NoMutex /\ depth[t] \in Nat
      /\ recursive[m] \in Nat \cup {-1} /\ (m \in Recursive <=> recursive[m] >= 0)
      /\ at[t] \in {"lock", "cond", "relock"}
  BY Standing DEF PthreadInv, PthreadTypeOK, OffMutex
<1>1. /\ \A u \in Threads \ {t} : at'[u] = at[u] /\ this'[u] = this[u]
      /\ at'[t] = "run" /\ this'[t] = NoMutex
  BY DEF Returns, PthreadInv, PthreadTypeOK
<1>2. \A k \in Mutexes \ {m} : recursive'[k] = recursive[k]
  BY DEF SetDepth, PthreadInv, PthreadTypeOK
<1>3. OthersKept(t, m)
  <2>1. \A u \in Threads \ {t}, k \in Mutexes :
            LevelOf(u, k)' = LevelOf(u, k) /\ ParkedOf(u, k)' = ParkedOf(u, k)
    BY <1>1, <1>2, PthreadAssumption DEF LevelOf, ParkedOf
  <2>2. \A k \in Mutexes \ {m} :
            LevelOf(t, k)' = LevelOf(t, k) /\ ParkedOf(t, k)' = ParkedOf(t, k)
    BY <1>1, <1>2, PthreadAssumption DEF LevelOf, ParkedOf
  <2>3. QED BY <2>1, <2>2 DEF OthersKept
<1>4. LevelOf(t, m) = 0 /\ ParkedOf(t, m)' = 0
      /\ LevelOf(t, m)' = DepthToLevels(m, recursive'[m])
  BY <1>0, <1>1 DEF LevelOf, ParkedOf
<1>5. CASE at[t] = "lock"
  <2>1. UNCHANGED recursive /\ owner[m] = t
    BY <1>5
  <2>2. LevelOf(t, m)' = 1
    BY <1>4, <2>1, Standing DEF DepthToLevels
  <2>3. ParkedOf(t, m) = 0
    BY <1>5 DEF ParkedOf
  <2>4. QED BY <1>3, <1>4, <1>5, <2>2, <2>3, Acquires
<1>6. CASE at[t] # "lock"
  <2>1. ParkedOf(t, m) = DepthToLevels(m, depth[t])
    BY <1>0, <1>6 DEF ParkedOf
  <2>2. DepthToLevels(m, recursive'[m]) = DepthToLevels(m, depth[t])
    BY <1>0, <1>6 DEF SetDepth, DepthToLevels, PthreadInv, PthreadTypeOK
  <2>3. DepthToLevels(m, depth[t]) > 0
    BY <1>0 DEF DepthToLevels
  <2>4. QED BY <1>3, <1>4, <2>1, <2>2, <2>3, Unparks
<1>7. QED BY <1>5, <1>6

\* Each step of Pthread is a step of Locks, or none.
LEMMA LocksStep == PthreadInv /\ PthreadNext => L!Next \/ UNCHANGED L!vars
<1> SUFFICES ASSUME PthreadInv, PthreadNext PROVE L!Next \/ UNCHANGED L!vars
  OBVIOUS
<1>0. PthreadInv'
  BY PthreadInvStep
<1>1. ASSUME NEW t \in Threads, NEW m \in Mutexes, Lock(t, m) \/ TryLock(t, m)
      PROVE  L!Acquire(t, m) \/ UNCHANGED L!vars
  <2>1. at[t] = "run" /\ UNCHANGED depth
    BY <1>1 DEF Lock, TryLock, Runs, callVars
  <2>2. CASE /\ UNCHANGED <<at, this>>
             /\ (Take(t, m) /\ UNCHANGED recursive) \/ Deeper(t, m)
    BY <1>0, <2>1, <2>2, LockAcquires
  <2>3. CASE Enqueue(t, m) /\ Waits(t, "lock", m) /\ UNCHANGED recursive
    BY <1>0, <2>1, <2>3, EnqueueStutters
  <2>4. QED BY <1>1, <2>2, <2>3 DEF Lock, TryLock, callVars
<1>2. ASSUME NEW t \in Threads, NEW m \in Mutexes, Unlock(t, m) PROVE L!Release(t, m)
  BY <1>0, <1>2, UnlockReleases
<1>3. ASSUME NEW t \in Threads, Granted(t)
      PROVE  L!Acquire(t, this[t]) \/ L!Unpark(t, this[t])
  <2>1. at[t] \notin OffMutex /\ this[t] \in Mutexes
    BY <1>3, ThisType DEF Granted, OffMutex, PthreadInv, Lists
  <2>2. \A u \in Threads \ {t} : depth'[u] = depth[u]
    BY <1>3 DEF Granted, PthreadInv, PthreadTypeOK
  <2>3. QED BY <1>0, <1>3, <2>1, <2>2, Return DEF Granted
<1>4. ASSUME NEW t \in Threads, CondWait(t) PROVE L!Park(t, CondMutex)
  BY <1>0, <1>4, CondWaitParks
<1>5. ASSUME NEW t \in Threads, CondReturn(t)
      PROVE  L!Acquire(t, this[t]) \/ L!Unpark(t, this[t]) \/ UNCHANGED L!vars
  <2>1. at[t] = "cond" /\ at[t] \notin OffMutex /\ this[t] \in Mutexes
    BY <1>5, ThisType DEF CondReturn, OffMutex, PthreadInv, Lists
  <2>2. CASE /\ Take(t, this[t]) /\ SetDepth(this[t], depth[t]) /\ Returns(t)
             /\ depth' = [depth EXCEPT ![t] = 0]
    <3>1. /\ owner[this[t]] = NoThread /\ owner'[this[t]] = t
          /\ \A k \in Mutexes \ {this[t]} : owner'[k] = owner[k]
          /\ \A u \in Threads \ {t} : depth'[u] = depth[u]
      BY <2>1, <2>2 DEF Take, PthreadInv, PthreadTypeOK
    <3>2. QED BY <1>0, <2>1, <2>2, <3>1, Return
  <2>3. CASE /\ Enqueue(t, this[t]) /\ Waits(t, "relock", this[t])
             /\ UNCHANGED <<recursive, depth>>
    BY <1>0, <2>1, <2>3, EnqueueStutters
  <2>4. QED BY <1>5, <2>2, <2>3 DEF CondReturn
<1>6. ASSUME NEW t \in Threads,
             WaitAgain(t) \/ Signal(t) \/ Broadcast(t) \/ Wakeup(t)
      PROVE  UNCHANGED L!vars
  <2>1. UNCHANGED <<owner, recursive, at, this, depth>>
    BY <1>6 DEF WaitAgain, Signal, Broadcast, Wakeup, mutexVars, callVars
  <2>2. QED BY <1>0, <2>1, Stutters DEF LevelOf, ParkedOf
<1>7. CondMutex \in Mutexes /\ \A t \in Threads : at[t] \notin OffMutex => this[t] \in Mutexes
  BY ThisType, PthreadAssumption DEF PthreadInv, Lists
<1>8. \A t \in Threads : Granted(t) \/ CondReturn(t) => this[t] \in Mutexes
  BY <1>7 DEF Granted, CondReturn, OffMutex
<1>9. QED BY <1>1, <1>2, <1>3, <1>4, <1>5, <1>6, <1>7, <1>8 DEF PthreadNext, L!Next

LEMMA LocksInit == PthreadInit => L!Init
BY PthreadAssumption DEF PthreadInit, L!Init, PthreadLevels, PthreadParked
=============================================================================
