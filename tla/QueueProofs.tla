----------------------------- MODULE QueueProofs -----------------------------
(***************************************************************************)
(* Proofs about Queue, for all threads, mutexes, values and capacities.    *)
(* The invariant is that of the mutexes, of which the queue's calls change *)
(* only where a thread stands and its flag WAIT, and three facts of the    *)
(* queue itself: where the ring ends, who is in a call, and who sleeps.    *)
(***************************************************************************)
EXTENDS Queue, PthreadProofs

\* putPos follows from the two others.
PutPlace == IF getPos + numElem < Capacity THEN getPos + numElem
            ELSE getPos + numElem - Capacity

Ring ==
    /\ buffer \in [0 .. Capacity - 1 -> Values \cup {NoValue}]
    /\ numElem \in 0 .. Capacity
    /\ getPos \in 0 .. Capacity - 1
    /\ putPos = PutPlace
    /\ out \in Values \cup {NoValue}

\* A thread is in a call exactly where it waits in one, and holds the mutex
\* of its side.
Callers ==
    /\ call \in [Threads -> Calls \cup {"none"}]
    /\ arg \in [Threads -> Values \cup {NoValue}]
    /\ \A t \in Threads : at[t] = "away" <=> call[t] # "none"
    /\ \A t \in Threads : call[t] # "none" => nested[t][Guard(call[t])] > 0
    /\ \A t \in Threads : call[t] = "put" => arg[t] \in Values

Sleeper == waiting \in Threads \cup {NoThread} /\ NoneStranded

QueueInv ==
    /\ PthreadInv /\ Ring /\ Callers /\ Sleeper
    /\ irq \in Sides \cup {"none"}

-----------------------------------------------------------------------------
(* The mutexes do not notice the queue.                                    *)

\* A call of the queue moves its thread between the program and a wait, and
\* may wake others; whoever sleeps because of it sleeps "away".
LEMMA AwayStep ==
    ASSUME PthreadInv, UNCHANGED otherVars,
           at' \in [Threads -> {"run", "lock", "cond", "relock", "away"}],
           wait' \in [Threads -> BOOLEAN],
           \A u \in Threads : at'[u] = at[u] \/ (at[u] \in OffMutex /\ at'[u] \in OffMutex),
           \A u \in Threads : wait'[u] => (wait[u] /\ at'[u] = at[u]) \/ at'[u] = "away"
    PROVE  PthreadInv'
<1>1. UNCHANGED <<owner, recursive, list, condList, condWait, this, depth, nested>>
  BY DEF otherVars, mutexVars
<1>2. PthreadTypeOK'
  BY <1>1 DEF PthreadInv, PthreadTypeOK
<1>3. \A u \in Threads : /\ at'[u] \in InLoop <=> at[u] \in InLoop
                         /\ at'[u] \in InLoop => at'[u] = at[u]
                         /\ at'[u] \in OffMutex <=> at[u] \in OffMutex
                         /\ at'[u] = "cond" <=> at[u] = "cond"
                         /\ at'[u] = "lock" <=> at[u] = "lock"
                         /\ at'[u] = "relock" <=> at[u] = "relock"
  BY DEF InLoop, OffMutex
<1>4. MutexLists'
  BY <1>1, <1>3 DEF PthreadInv, Lists, MutexLists
<1>5. CondLists'
  BY <1>1, <1>3 DEF PthreadInv, Lists, CondLists
<1>6. Sleeps'
  BY <1>1, <1>3 DEF PthreadInv, Sleeps
<1>7. Counts'
  BY <1>1, <1>3 DEF PthreadInv, Counts
<1>8. QED BY <1>2, <1>4, <1>5, <1>6, <1>7 DEF PthreadInv, Lists

LEMMA WokenValue ==
    ASSUME PthreadInv, Sleeper
    PROVE  /\ Woken \in [Threads -> BOOLEAN]
           /\ \A u \in Threads : Woken[u] <=> wait[u] /\ u # waiting
BY PthreadAssumption DEF PthreadInv, PthreadTypeOK, Sleeper, Woken

-----------------------------------------------------------------------------
(* The ring.                                                               *)

Free == \E v \in Values : Insert(v) /\ ~isFull
Used == Extract /\ ~isEmpty
Emptied == numElem' = 0 /\ getPos' = 0 /\ putPos' = 0 /\ UNCHANGED <<buffer, out>>

LEMMA RingStep ==
    ASSUME Ring, Free \/ Used \/ Emptied \/ UNCHANGED ringVars
    PROVE  Ring'
<1>0. Capacity \in Nat \ {0}
  BY QueueAssumption
<1>1. CASE Free
  <2>1. PICK v \in Values : Insert(v) /\ numElem # Capacity
    BY <1>1 DEF Free, isFull
  <2>2. /\ numElem' = numElem + 1 /\ putPos' = Following(putPos)
        /\ buffer' = [buffer EXCEPT ![putPos] = v] /\ UNCHANGED <<getPos, out>>
    BY <2>1 DEF Insert
  <2>3. numElem' \in 0 .. Capacity
    BY <1>0, <2>1, <2>2 DEF Ring
  <2>4. putPos' = PutPlace'
    BY <1>0, <2>1, <2>2 DEF Ring, PutPlace, Following
  <2>5. buffer' \in [0 .. Capacity - 1 -> Values \cup {NoValue}]
    BY <2>2 DEF Ring
  <2>6. QED BY <2>2, <2>3, <2>4, <2>5 DEF Ring
<1>2. CASE Used
  <2>1. /\ numElem # 0 /\ numElem' = numElem - 1 /\ out' = buffer[getPos]
        /\ getPos' = Following(getPos) /\ UNCHANGED <<buffer, putPos>>
    BY <1>2 DEF Used, isEmpty, Extract
  <2>2. numElem' \in 0 .. Capacity
    BY <1>0, <2>1 DEF Ring
  <2>3. getPos' \in 0 .. Capacity - 1
    BY <1>0, <2>1 DEF Ring, Following
  <2>4. putPos' = PutPlace'
    BY <1>0, <2>1 DEF Ring, PutPlace, Following
  <2>5. out' \in Values \cup {NoValue}
    BY <2>1 DEF Ring
  <2>6. QED BY <2>1, <2>2, <2>3, <2>4, <2>5 DEF Ring
<1>3. CASE Emptied
  BY <1>0, <1>3 DEF Emptied, Ring, PutPlace
<1>4. CASE UNCHANGED ringVars
  BY <1>4 DEF ringVars, Ring, PutPlace
<1>5. QED BY <1>1, <1>2, <1>3, <1>4

\* Contents is a sequence of what the cells hold.
ContentsRead ==
    /\ Contents \in Seq(Values \cup {NoValue}) /\ Len(Contents) = numElem
    /\ \A i \in 1 .. numElem : PlaceOf(i) \in 0 .. Capacity - 1
    /\ \A i \in 1 .. numElem : Contents[i] = buffer[PlaceOf(i)]

LEMMA ContentsType == Ring => ContentsRead
<1> SUFFICES ASSUME Ring PROVE ContentsRead
  OBVIOUS
<1>0. Capacity \in Nat \ {0} /\ numElem \in Nat
  BY QueueAssumption DEF Ring
<1>1. \A i \in 1 .. numElem : PlaceOf(i) \in 0 .. Capacity - 1
  BY <1>0 DEF Ring, PlaceOf
<1>2. \A i \in 1 .. numElem : buffer[PlaceOf(i)] \in Values \cup {NoValue}
  BY <1>1 DEF Ring
<1>3. Contents \in [1 .. numElem -> Values \cup {NoValue}]
  BY <1>2 DEF Contents
<1>4. Contents \in Seq(Values \cup {NoValue}) /\ Len(Contents) = numElem
  BY <1>0, <1>3
<1>5. QED BY <1>1, <1>4 DEF Contents, ContentsRead

LEMMA NextContents == Ring' => ContentsRead'
BY ContentsType, PTL

\* What is put is the last.
LEMMA InsertIsPut ==
    ASSUME Ring, NEW v \in Values, Insert(v), ~isFull
    PROVE  F!Put(v)
<1>0. /\ Capacity \in Nat \ {0} /\ numElem \in 0 .. Capacity - 1 /\ getPos \in 0 .. Capacity - 1
      /\ numElem' = numElem + 1 /\ UNCHANGED <<getPos, out>>
      /\ buffer' = [buffer EXCEPT ![putPos] = v]
  BY QueueAssumption DEF Ring, Insert, isFull
<1>1. putPos = PlaceOf(numElem + 1) /\ putPos \in 0 .. Capacity - 1
  BY <1>0 DEF Ring, PutPlace, PlaceOf
<1>2. \A i \in 1 .. numElem : PlaceOf(i) # putPos
  BY <1>0, <1>1 DEF PlaceOf
<1>3. \A i \in 1 .. numElem' : PlaceOf(i)' = PlaceOf(i)
  BY <1>0 DEF PlaceOf
<1>4. Ring'
  BY RingStep DEF Free
<1>5. /\ Contents \in Seq(Values \cup {NoValue}) /\ Len(Contents) = numElem
      /\ \A i \in 1 .. numElem : Contents[i] = buffer[PlaceOf(i)]
      /\ \A i \in 1 .. numElem : PlaceOf(i) \in 0 .. Capacity - 1
  BY ContentsType DEF ContentsRead
<1>6. /\ Contents' \in Seq(Values \cup {NoValue}) /\ Len(Contents') = numElem + 1
      /\ \A i \in 1 .. numElem + 1 : Contents'[i] = buffer'[PlaceOf(i)]
  <2>1. /\ Contents' \in Seq(Values \cup {NoValue}) /\ Len(Contents') = numElem'
        /\ \A i \in 1 .. numElem' : Contents'[i] = buffer'[PlaceOf(i)']
    BY <1>4, NextContents DEF ContentsRead
  <2>2. QED BY <1>0, <1>3, <2>1
<1>7. \A i \in 1 .. numElem : Contents'[i] = Contents[i]
  <2>1. \A i \in 1 .. numElem : i \in 1 .. numElem + 1
    BY <1>0
  <2>2. \A i \in 1 .. numElem : buffer'[PlaceOf(i)] = buffer[PlaceOf(i)]
    BY <1>0, <1>2, <1>5 DEF Ring
  <2>3. QED BY <1>5, <1>6, <2>1, <2>2
<1>8. Contents'[numElem + 1] = v
  BY <1>0, <1>1, <1>6 DEF Ring
<1>9. Contents' = Append(Contents, v)
  <2> DEFINE s == Contents
             r == Contents'
             n == numElem
  <2>1. /\ s \in Seq(Values \cup {NoValue}) /\ r \in Seq(Values \cup {NoValue})
        /\ n \in Nat /\ Len(s) = n /\ Len(r) = n + 1 /\ v \in Values
        /\ \A i \in 1 .. n : r[i] = s[i]
        /\ r[n + 1] = v
    BY <1>0, <1>5, <1>6, <1>7, <1>8
  <2> HIDE DEF s, r, n
  <2>2. r = Append(s, v)
    BY <2>1
  <2>3. QED BY <2>2 DEF s, r
<1>10. QED BY <1>0, <1>5, <1>9 DEF F!Put

\* What is taken out was the first.
LEMMA ExtractIsGet ==
    ASSUME Ring, Extract, ~isEmpty
    PROVE  F!Get
<1>0. /\ Capacity \in Nat \ {0} /\ numElem \in 1 .. Capacity /\ getPos \in 0 .. Capacity - 1
      /\ numElem' = numElem - 1 /\ out' = buffer[getPos] /\ getPos' = Following(getPos)
      /\ buffer' = buffer
  BY QueueAssumption DEF Ring, Extract, isEmpty
<1>1. PlaceOf(1) = getPos
  BY <1>0 DEF PlaceOf
<1>2. \A i \in 1 .. numElem - 1 : PlaceOf(i)' = PlaceOf(i + 1)
  BY <1>0 DEF PlaceOf, Following
<1>3. Ring'
  BY RingStep DEF Used
<1>4. /\ Contents \in Seq(Values \cup {NoValue}) /\ Len(Contents) = numElem
      /\ \A i \in 1 .. numElem : Contents[i] = buffer[PlaceOf(i)]
  BY ContentsType DEF ContentsRead
<1>5. /\ Contents' \in Seq(Values \cup {NoValue}) /\ Len(Contents') = numElem - 1
      /\ \A i \in 1 .. numElem - 1 : Contents'[i] = buffer[PlaceOf(i + 1)]
  <2>1. /\ Contents' \in Seq(Values \cup {NoValue}) /\ Len(Contents') = numElem'
        /\ \A i \in 1 .. numElem' : Contents'[i] = buffer'[PlaceOf(i)']
    BY <1>3, NextContents DEF ContentsRead
  <2>2. QED BY <1>0, <1>2, <2>1
<1>6. \A i \in 1 .. numElem - 1 : Contents'[i] = Contents[i + 1]
  <2>1. \A i \in 1 .. numElem - 1 : i + 1 \in 1 .. numElem
    BY <1>0
  <2>2. QED BY <1>4, <1>5, <2>1
<1>7. Contents[1] = out'
  <2>1. 1 \in 1 .. numElem
    BY <1>0
  <2>2. QED BY <1>0, <1>1, <1>4, <2>1
<1>8. Contents # <<>> /\ out' = Head(Contents) /\ Contents' = Tail(Contents)
  <2> DEFINE s == Contents
             r == Contents'
             n == numElem
  <2>1. /\ s \in Seq(Values \cup {NoValue}) /\ r \in Seq(Values \cup {NoValue})
        /\ n \in Nat \ {0} /\ Len(s) = n /\ Len(r) = n - 1
        /\ \A i \in 1 .. n - 1 : r[i] = s[i + 1]
        /\ s[1] = out'
    BY <1>0, <1>4, <1>5, <1>6, <1>7
  <2> HIDE DEF s, r, n
  <2>2. s # <<>>
    BY <2>1
  <2>3. /\ Head(s) = s[1] /\ Tail(s) \in Seq(Values \cup {NoValue})
        /\ Len(Tail(s)) = n - 1 /\ \A i \in 1 .. n - 1 : Tail(s)[i] = s[i + 1]
    BY <2>1, <2>2, HeadTailProperties
  <2>4. r = Tail(s)
    BY <2>1, <2>3
  <2>5. QED BY <2>1, <2>2, <2>3, <2>4 DEF s, r
<1>9. QED BY <1>8 DEF F!Get

LEMMA RingIsFifo ==
    ASSUME Ring, Free \/ Used \/ Emptied \/ UNCHANGED ringVars
    PROVE  F!Next \/ UNCHANGED F!vars
<1>1. CASE Free
  BY <1>1, InsertIsPut DEF Free, F!Next
<1>2. CASE Used
  BY <1>2, ExtractIsGet DEF Used, F!Next
<1>3. CASE Emptied
  <2>1. Contents' = <<>> /\ out' = out
    BY <1>3 DEF Emptied, Contents
  <2>2. QED BY <2>1 DEF F!Clear, F!Next
<1>4. CASE UNCHANGED ringVars
  BY <1>4 DEF ringVars, Contents, PlaceOf, F!vars
<1>5. QED BY <1>1, <1>2, <1>3, <1>4

-----------------------------------------------------------------------------
(* The queue does not notice the mutexes.                                  *)

\* Pthread neither moves a thread that is in a call of the queue, nor takes
\* its locks, nor puts it to sleep.
LEMMA AwayLeftAlone ==
    ASSUME PthreadInv, PthreadNext
    PROVE  \A u \in Threads :
               /\ at[u] = "away" <=> at'[u] = "away"
               /\ at[u] = "away" => nested'[u] = nested[u] /\ (wait'[u] => wait[u])
<1> DEFINE Alone(t) == \A u \in Threads \ {t} :
               at'[u] = at[u] /\ nested'[u] = nested[u] /\ (wait'[u] => wait[u])
<1>0. /\ at \in [Threads -> {"run", "lock", "cond", "relock", "away"}]
      /\ wait \in [Threads -> BOOLEAN] /\ nested \in [Threads -> [Mutexes -> Nat]]
  BY DEF PthreadInv, PthreadTypeOK
<1>1. ASSUME NEW t \in Threads, NEW m \in Mutexes
      PROVE  /\ Locked(t, m) \/ Unlocked(t, m) => \A u \in Threads \ {t} : nested'[u] = nested[u]
             /\ HandOver(m) => \A u \in Threads : wait'[u] => wait[u]
             /\ Enqueue(t, m) => \A u \in Threads \ {t} : wait'[u] => wait[u]
  <2>1. Locked(t, m) \/ Unlocked(t, m) => \A u \in Threads \ {t} : nested'[u] = nested[u]
    BY <1>0 DEF Locked, Unlocked
  <2>2. HandOver(m) => \A u \in Threads : wait'[u] => wait[u]
    BY <1>0 DEF HandOver
  <2>3. Enqueue(t, m) => \A u \in Threads \ {t} : wait'[u] => wait[u]
    BY <1>0 DEF Enqueue
  <2>4. QED BY <2>1, <2>2, <2>3
<1>2. ASSUME NEW t \in Threads, at[t] # "away", at'[t] # "away", Alone(t)
      PROVE  \A u \in Threads :
                 /\ at[u] = "away" <=> at'[u] = "away"
                 /\ at[u] = "away" => nested'[u] = nested[u] /\ (wait'[u] => wait[u])
  BY <1>2
<1>3. ASSUME NEW t \in Threads, NEW m \in Mutexes, Lock(t, m) \/ TryLock(t, m) \/ Unlock(t, m)
      PROVE  at[t] # "away" /\ at'[t] # "away" /\ Alone(t)
  <2>1. at[t] = "run"
    BY <1>3 DEF Lock, TryLock, Unlock, Runs
  <2>2. at'[t] # "away" /\ \A u \in Threads \ {t} : at'[u] = at[u]
    BY <1>0, <1>3, <2>1 DEF Lock, TryLock, Unlock, Waits, callVars
  <2>3. \A u \in Threads \ {t} : nested'[u] = nested[u]
    BY <1>1, <1>3 DEF Lock, TryLock, Unlock
  <2>4. \A u \in Threads \ {t} : wait'[u] => wait[u]
    BY <1>1, <1>3 DEF Lock, TryLock, Unlock, Take, Deeper
  <2>5. QED BY <2>1, <2>2, <2>3, <2>4
<1>4. ASSUME NEW t \in Threads, Granted(t) \/ WaitAgain(t) \/ CondWait(t) \/ CondReturn(t)
      PROVE  at[t] # "away" /\ at'[t] # "away" /\ Alone(t)
  <2>1. at[t] # "away"
    BY <1>4 DEF Granted, WaitAgain, CondWait, CondReturn, Runs
  <2>2. at'[t] # "away" /\ \A u \in Threads \ {t} : at'[u] = at[u]
    BY <1>0, <1>4, <2>1 DEF Granted, WaitAgain, CondWait, CondReturn, Waits, Returns, callVars
  <2>3. CondMutex \in Mutexes /\ (at[t] \notin OffMutex => this[t] \in Mutexes)
    BY ThisType, PthreadAssumption DEF PthreadInv, Lists
  <2>4. \A u \in Threads \ {t} : nested'[u] = nested[u]
    BY <1>1, <1>4, <2>3 DEF Granted, WaitAgain, CondWait, CondReturn, OffMutex
  <2>5. \A u \in Threads \ {t} : wait'[u] => wait[u]
    <3>1. CASE Granted(t)
      BY <3>1 DEF Granted
    <3>2. CASE WaitAgain(t)
      BY <1>0, <3>2 DEF WaitAgain
    <3>3. CASE CondWait(t)
      BY <1>1, <2>3, <3>3 DEF CondWait
    <3>4. CASE CondReturn(t)
      BY <1>1, <2>3, <3>4 DEF CondReturn, OffMutex, Take
    <3>5. QED BY <1>4, <3>1, <3>2, <3>3, <3>4
  <2>6. QED BY <2>1, <2>2, <2>4, <2>5
<1>5. ASSUME NEW t \in Threads, Signal(t) \/ Broadcast(t) \/ Wakeup(t)
      PROVE  UNCHANGED <<at, nested>> /\ \A u \in Threads : wait'[u] => wait[u]
  BY <1>0, <1>5 DEF Signal, Broadcast, Wakeup, callVars
<1> HIDE DEF Alone
<1>6. QED BY <1>2, <1>3, <1>4, <1>5 DEF PthreadNext

LEMMA PthreadKeepsInv ==
    ASSUME QueueInv, PthreadNext, UNCHANGED queueVars
    PROVE  QueueInv'
<1>1. UNCHANGED <<buffer, numElem, putPos, getPos, out, waiting, irq, call, arg>>
  BY DEF queueVars, ringVars
<1>2. PthreadInv'
  BY PthreadInvStep DEF QueueInv
<1>3. Ring'
  BY RingStep DEF QueueInv, queueVars
<1>4. Callers'
  BY <1>1, AwayLeftAlone DEF QueueInv, Callers, Guard, Side
<1>5. Sleeper'
  BY <1>1, AwayLeftAlone DEF QueueInv, Sleeper, NoneStranded, MustWait, isEmpty, isFull
<1>6. QED BY <1>1, <1>2, <1>3, <1>4, <1>5 DEF QueueInv

-----------------------------------------------------------------------------
(* The calls of the queue.                                                 *)

\* A call that returns at once, or again.
LEMMA RoundStep ==
    ASSUME QueueInv, NEW t \in Threads, NEW c \in Calls, NEW v \in Values \cup {NoValue},
           c = "put" => v \in Values, at[t] \in OffMutex, ~wait[t],
           nested[t][Guard(c)] > 0, Round(t, c, v), UNCHANGED otherVars
    PROVE  QueueInv' /\ (Free \/ Used \/ UNCHANGED ringVars)
<1>0. /\ UNCHANGED <<nested, irq>> /\ t # NoThread /\ at[t] \in {"run", "away"}
      /\ at \in [Threads -> {"run", "lock", "cond", "relock", "away"}]
      /\ wait \in [Threads -> BOOLEAN]
  BY PthreadAssumption DEF otherVars, QueueInv, PthreadInv, PthreadTypeOK, OffMutex
<1>1. /\ Woken \in [Threads -> BOOLEAN]
      /\ \A u \in Threads : Woken[u] <=> wait[u] /\ u # waiting
  BY WokenValue DEF QueueInv
<1>2. /\ call \in [Threads -> Calls \cup {"none"}] /\ arg \in [Threads -> Values \cup {NoValue}]
      /\ "none" \notin Calls
  BY DEF QueueInv, Callers, Calls, Sides
<1>3. CASE MustWait(c)
  <2>1. /\ waiting' = t /\ wait' = [Woken EXCEPT ![t] = TRUE]
        /\ at' = [at EXCEPT ![t] = "away"] /\ call' = [call EXCEPT ![t] = c]
        /\ arg' = IF c = "put" THEN [arg EXCEPT ![t] = v] ELSE arg
        /\ UNCHANGED ringVars
    BY <1>3 DEF Round
  <2>2. PthreadInv'
    <3>1. /\ at' \in [Threads -> {"run", "lock", "cond", "relock", "away"}]
          /\ wait' \in [Threads -> BOOLEAN]
      BY <1>0, <1>1, <2>1
    <3>2. \A u \in Threads : at'[u] = at[u] \/ (at[u] \in OffMutex /\ at'[u] \in OffMutex)
      BY <1>0, <2>1 DEF OffMutex
    <3>3. \A u \in Threads : wait'[u] => (wait[u] /\ at'[u] = at[u]) \/ at'[u] = "away"
      BY <1>0, <1>1, <2>1
    <3>4. QED BY <3>1, <3>2, <3>3, AwayStep DEF QueueInv
  <2>3. Ring'
    BY <2>1, RingStep DEF QueueInv
  <2>4. Callers'
    <3>1. /\ call' \in [Threads -> Calls \cup {"none"}]
          /\ arg' \in [Threads -> Values \cup {NoValue}]
      BY <1>2, <2>1
    <3>2. \A u \in Threads : at'[u] = "away" <=> call'[u] # "none"
      BY <1>0, <1>2, <2>1 DEF QueueInv, Callers
    <3>3. \A u \in Threads : call'[u] # "none" => nested'[u][Guard(call'[u])] > 0
      BY <1>0, <1>2, <2>1 DEF QueueInv, Callers
    <3>4. \A u \in Threads : call'[u] = "put" => arg'[u] \in Values
      BY <1>2, <2>1 DEF QueueInv, Callers
    <3>5. QED BY <3>1, <3>2, <3>3, <3>4 DEF Callers, Guard, Side
  <2>5. Sleeper'
    <3>1. \A u \in Threads : at'[u] = "away" /\ wait'[u] => u = t
      BY <1>0, <1>1, <2>1 DEF QueueInv, Sleeper, NoneStranded
    <3>2. MustWait(c)' /\ call'[t] = c
      BY <1>2, <1>3, <2>1 DEF MustWait, isEmpty, isFull, ringVars
    <3>3. QED BY <2>1, <3>1, <3>2 DEF Sleeper, NoneStranded, MustWait
  <2>6. QED BY <1>0, <2>1, <2>2, <2>3, <2>4, <2>5 DEF QueueInv
<1>4. CASE ~MustWait(c)
  <2>1. /\ waiting' = NoThread /\ wait' = Woken
        /\ at' = [at EXCEPT ![t] = "run"] /\ call' = [call EXCEPT ![t] = "none"]
        /\ arg' = [arg EXCEPT ![t] = NoValue]
        /\ IF c = "put" THEN Insert(v) ELSE IF c = "get" THEN Extract ELSE UNCHANGED ringVars
    BY <1>4 DEF Round
  <2>2. PthreadInv'
    <3>1. /\ at' \in [Threads -> {"run", "lock", "cond", "relock", "away"}]
          /\ wait' \in [Threads -> BOOLEAN]
      BY <1>0, <1>1, <2>1
    <3>2. \A u \in Threads : at'[u] = at[u] \/ (at[u] \in OffMutex /\ at'[u] \in OffMutex)
      BY <1>0, <2>1 DEF OffMutex
    <3>3. \A u \in Threads : wait'[u] => (wait[u] /\ at'[u] = at[u]) \/ at'[u] = "away"
      BY <1>0, <1>1, <2>1
    <3>4. QED BY <3>1, <3>2, <3>3, AwayStep DEF QueueInv
  <2>3. Free \/ Used \/ UNCHANGED ringVars
    BY <1>4, <2>1 DEF Free, Used, MustWait
  <2>4. Ring'
    BY <2>3, RingStep DEF QueueInv
  <2>5. Callers'
    <3>1. /\ call' \in [Threads -> Calls \cup {"none"}]
          /\ arg' \in [Threads -> Values \cup {NoValue}]
      BY <1>2, <2>1
    <3>2. \A u \in Threads : at'[u] = "away" <=> call'[u] # "none"
      BY <1>0, <1>2, <2>1 DEF QueueInv, Callers
    <3>3. \A u \in Threads : call'[u] # "none" => nested'[u][Guard(call'[u])] > 0
      BY <1>0, <1>2, <2>1 DEF QueueInv, Callers
    <3>4. \A u \in Threads : call'[u] = "put" => arg'[u] \in Values
      BY <1>2, <2>1 DEF QueueInv, Callers
    <3>5. QED BY <3>1, <3>2, <3>3, <3>4 DEF Callers, Guard, Side
  <2>6. Sleeper'
    <3>1. \A u \in Threads : ~(at'[u] = "away" /\ wait'[u])
      BY <1>0, <1>1, <2>1 DEF QueueInv, Sleeper, NoneStranded
    <3>2. QED BY <2>1, <3>1 DEF Sleeper, NoneStranded
  <2>7. QED BY <1>0, <2>2, <2>3, <2>4, <2>5, <2>6 DEF QueueInv
<1>5. QED BY <1>3, <1>4

\* A call of an interrupt handler, and reset: the thread that waits is woken.
LEMMA WakingStep ==
    ASSUME QueueInv, wait' = Woken, waiting' = NoThread, UNCHANGED <<otherVars, at, call, arg>>,
           Free \/ Used \/ Emptied \/ UNCHANGED ringVars
    PROVE  QueueInv'
<1>1. /\ Woken \in [Threads -> BOOLEAN]
      /\ \A u \in Threads : Woken[u] <=> wait[u] /\ u # waiting
  BY WokenValue DEF QueueInv
<1>2. at \in [Threads -> {"run", "lock", "cond", "relock", "away"}]
  BY DEF QueueInv, PthreadInv, PthreadTypeOK
<1>3. PthreadInv'
  BY <1>1, <1>2, AwayStep DEF QueueInv
<1>4. Ring'
  BY RingStep DEF QueueInv
<1>5. Callers' /\ irq' \in Sides \cup {"none"}
  BY DEF QueueInv, Callers, otherVars, Guard, Side
<1>6. Sleeper'
  BY <1>1 DEF QueueInv, Sleeper, NoneStranded
<1>7. QED BY <1>3, <1>4, <1>5, <1>6 DEF QueueInv

\* Every step of the queue keeps the invariant, and to the ring it is an
\* insertion where there is room, an extraction of what is there, or a reset.
LEMMA QueueStep ==
    ASSUME QueueInv, QueueNext
    PROVE  QueueInv' /\ (Free \/ Used \/ Emptied \/ UNCHANGED ringVars)
<1>1. ASSUME NEW t \in Threads, NEW c \in Calls, NEW v \in Values, Enter(t, c, v)
      PROVE  QueueInv' /\ (Free \/ Used \/ UNCHANGED ringVars)
  <2>1. /\ at[t] \in OffMutex /\ ~wait[t] /\ nested[t][Guard(c)] > 0
        /\ Round(t, c, v) /\ UNCHANGED otherVars
    BY <1>1 DEF Enter, Runs, Ready, OffMutex
  <2>2. QED BY <2>1, RoundStep
<1>2. ASSUME NEW t \in Threads, Again(t)
      PROVE  QueueInv' /\ (Free \/ Used \/ UNCHANGED ringVars)
  <2>1. /\ at[t] \in OffMutex /\ ~wait[t] /\ at[t] = "away"
        /\ Round(t, call[t], arg[t]) /\ UNCHANGED otherVars
    BY <1>2 DEF Again, Ready, OffMutex
  <2>2. /\ call[t] \in Calls /\ arg[t] \in Values \cup {NoValue}
        /\ nested[t][Guard(call[t])] > 0 /\ (call[t] = "put" => arg[t] \in Values)
    BY <2>1 DEF QueueInv, Callers
  <2>3. QED BY <2>1, <2>2, RoundStep
<1>3. ASSUME NEW v \in Values, IRQput(v) PROVE QueueInv' /\ (Free \/ UNCHANGED ringVars)
  <2>1. Free \/ UNCHANGED ringVars
    BY <1>3 DEF IRQput, Free
  <2>2. QED BY <1>3, <2>1, WakingStep DEF IRQput
<1>4. ASSUME IRQget PROVE QueueInv' /\ (Used \/ UNCHANGED ringVars)
  <2>1. Used \/ UNCHANGED ringVars
    BY <1>4 DEF IRQget, Used
  <2>2. QED BY <1>4, <2>1, WakingStep DEF IRQget
<1>5. ASSUME Reset PROVE QueueInv' /\ Emptied
  <2>1. Emptied
    BY <1>5 DEF Reset, Emptied
  <2>2. QED BY <1>5, <2>1, WakingStep DEF Reset
<1>6. QED BY <1>1, <1>2, <1>3, <1>4, <1>5 DEF QueueNext

-----------------------------------------------------------------------------
(* The theorems.                                                           *)

LEMMA InvInit == Init => QueueInv
<1> SUFFICES ASSUME Init PROVE QueueInv
  OBVIOUS
<1>0. Capacity \in Nat \ {0}
  BY QueueAssumption
<1>1. PthreadInv
  BY PthreadInvInit DEF Init
<1>2. Ring
  BY <1>0 DEF Init, Ring, PutPlace
<1>3. Callers
  BY DEF Init, PthreadInit, Callers
<1>4. Sleeper
  BY DEF Init, PthreadInit, Sleeper, NoneStranded
<1>5. QED BY <1>1, <1>2, <1>3, <1>4 DEF Init, QueueInv

LEMMA InvStep == QueueInv /\ [Next]_vars => QueueInv'
<1>1. QueueInv /\ QueueNext => QueueInv'
  BY QueueStep
<1>2. QueueInv /\ PthreadNext /\ UNCHANGED queueVars => QueueInv'
  BY PthreadKeepsInv
<1>3. QueueInv /\ UNCHANGED vars => QueueInv'
  <2> SUFFICES ASSUME QueueInv, UNCHANGED vars PROVE QueueInv'
    OBVIOUS
  <2>1. /\ UNCHANGED <<owner, recursive, list, condList, wait, condWait, at, this, depth, nested>>
        /\ UNCHANGED <<buffer, numElem, putPos, getPos, out, waiting, irq, call, arg>>
        /\ UNCHANGED otherVars /\ UNCHANGED ringVars
    BY DEF vars, pthreadVars, mutexVars, callVars, queueVars, ringVars, otherVars
  <2>2. PthreadInv'
    BY <2>1 DEF QueueInv, PthreadInv, PthreadTypeOK, Lists, MutexLists, CondLists, Sleeps, Counts
  <2>3. Ring' /\ Callers'
    BY <2>1, RingStep DEF QueueInv, Callers, Guard, Side
  <2>4. Sleeper'
    BY <2>1 DEF QueueInv, Sleeper, NoneStranded, MustWait, isEmpty, isFull
  <2>5. QED BY <2>1, <2>2, <2>3, <2>4 DEF QueueInv
<1>4. QED BY <1>1, <1>2, <1>3 DEF Next

LEMMA InvHolds == Spec => []QueueInv
BY InvInit, InvStep, PTL DEF Spec

\* For any number of threads and mutexes and any length of the queue the
\* variables keep their types: neither put nor get leaves the buffer, and no
\* interleaving counts more elements than there is room for.
THEOREM TypeCorrect == Spec => []TypeOK
<1>1. QueueInv => TypeOK
  <2> SUFFICES ASSUME QueueInv PROVE TypeOK
    OBVIOUS
  <2>1. putPos \in 0 .. Capacity - 1
    BY QueueAssumption DEF QueueInv, Ring, PutPlace
  <2>2. QED BY <2>1 DEF QueueInv, PthreadInv, Ring, Callers, Sleeper, TypeOK
<1>2. QED BY InvHolds, <1>1, PTL

\* pthread_mutex_lock, trylock and unlock keep every other thread out, and
\* pthread_cond_wait gives back as many levels as it took, whatever the queue
\* and its interrupts do with the same threads and their flag WAIT.
THEOREM Exclusive == Spec => []Exclusion
<1>1. QueueInv => Exclusion
  BY InvExcludes DEF QueueInv
<1>2. QED BY InvHolds, <1>1, PTL

\* Nobody sleeps whom nobody will wake: not for a mutex, not on the condition
\* variable, and not in the queue, where it could only be the thread that the
\* next put, get or reset wakes, and what it waits for has not happened.
THEOREM NobodyStranded == Spec => []NoLostWakeup
<1>1. QueueInv => NoLostWakeup
  BY InvRemembers DEF QueueInv, Sleeper, NoLostWakeup
<1>2. QED BY InvHolds, <1>1, PTL

\* The queue has room for one waiting thread only, and the mutexes make sure
\* that on each side there is never another.
THEOREM OneAtATime == Spec => []OnePerSide
<1>1. QueueInv => OnePerSide
  <2> SUFFICES ASSUME QueueInv, NEW t \in Threads, NEW u \in Threads, t # u,
                      "none" \notin {call[t], call[u]}, Side(call[t]) = Side(call[u])
               PROVE  FALSE
    BY DEF OnePerSide
  <2> DEFINE m == Guard(call[t])
  <2>1. m \in Mutexes /\ m = Guard(call[u])
    BY QueueAssumption DEF Guard
  <2>2. nested[t][m] > 0 /\ nested[u][m] > 0 /\ at[t] = "away" /\ at[u] = "away"
    BY <2>1 DEF QueueInv, Callers
  <2> HIDE DEF m
  <2>3. Exclusion
    BY InvExcludes DEF QueueInv
  <2>4. owner[m] = t /\ owner[m] = u
    BY <2>1, <2>2, <2>3 DEF Exclusion
  <2>5. QED BY <2>4
<1>2. QED BY InvHolds, <1>1, PTL

\* Mutexes are granted in order of arrival, to any number of threads.
THEOREM Fair == Spec => NoOvertaking
<1>1. QueueInv /\ [Next]_vars =>
          [\A m \in Mutexes :
              list[m] # <<>> /\ owner'[m] # owner[m] => owner'[m] = Head(list[m])]_vars
  <2> SUFFICES ASSUME QueueInv, Next, NEW m \in Mutexes, list[m] # <<>>, owner'[m] # owner[m]
               PROVE  owner'[m] = Head(list[m])
    BY DEF vars
  <2>1. CASE PthreadNext
    BY <2>1, InOrder DEF QueueInv
  <2>2. CASE QueueNext
    BY <2>2 DEF QueueNext, Enter, Again, IRQput, IRQget, Reset, otherVars, mutexVars
  <2>3. QED BY <2>1, <2>2 DEF Next
<1>2. QED BY InvHolds, <1>1, PTL DEF Spec, NoOvertaking

\* For any capacity and any number of users the ring is a first-in-first-out
\* channel: no interleaving of waits, spurious wakeups and interrupts loses,
\* repeats or reorders an element.
THEOREM QueueIsFifo == Spec => ImplementsFifo
<1>1. Init => F!Init
  BY DEF Init, F!Init, Contents
<1>2. QueueInv /\ [Next]_vars => [F!Next]_F!vars
  <2>1. QueueInv /\ QueueNext => [F!Next]_F!vars
    BY QueueStep, RingIsFifo DEF QueueInv
  <2>2. UNCHANGED queueVars => UNCHANGED F!vars
    BY DEF queueVars, ringVars, Contents, PlaceOf, F!vars
  <2>3. QED BY <2>1, <2>2 DEF Next, vars
<1>3. QED BY InvHolds, <1>1, <1>2, PTL DEF Spec, ImplementsFifo, F!Spec

\* Where a thread stands outside of the mutexes is nothing the locks tell.
LEMMA LocksUnmoved ==
    ASSUME PthreadInv, QueueNext \/ UNCHANGED vars
    PROVE  UNCHANGED L!vars
<1>1. UNCHANGED <<owner, recursive, this, depth>>
  BY DEF QueueNext, Enter, Again, IRQput, IRQget, Reset, otherVars, mutexVars,
         vars, pthreadVars, callVars
<1>2. \A t \in Threads : /\ at'[t] = "cond" <=> at[t] = "cond"
                         /\ at'[t] = "relock" <=> at[t] = "relock"
  BY DEF QueueNext, Enter, Runs, Again, Round, IRQput, IRQget, Reset,
         vars, pthreadVars, callVars, PthreadInv, PthreadTypeOK
<1>3. QED BY <1>1, <1>2 DEF L!vars, PthreadLevels, PthreadParked

\* The program sees abstract locks: whatever waits, handovers, wakeups and
\* interrupts there are, a step locks, unlocks, gives up all levels for a wait
\* on the condition variable, takes them back, or is none of its business.
THEOREM MutexesAreLocks == Spec => ImplementsLocks
<1>1. Init => L!Init
  BY LocksInit DEF Init
<1>2. QueueInv /\ [Next]_vars => [L!Next]_L!vars
  BY LocksStep, LocksUnmoved DEF QueueInv, Next
<1>3. QED BY InvHolds, <1>1, <1>2, PTL DEF Spec, ImplementsLocks, L!Spec
=============================================================================
