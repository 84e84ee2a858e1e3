------------------------------- MODULE Queue -------------------------------
(***************************************************************************)
(* Queue<T,len>, used as queue.h asks: on each side either an interrupt    *)
(* handler or threads, and of several threads the one that holds the mutex *)
(* of that side.  The mutexes are those of Pthread, on the same threads:   *)
(* waiting for a mutex and waiting in the queue share the flag WAIT.       *)
(*                                                                         *)
(* A call runs with interrupts disabled up to its return or to the yield   *)
(* that makes its wait effective.                                          *)
(***************************************************************************)
EXTENDS Pthread

CONSTANTS
    Values,
    NoValue,         \* what nobody has put
    Capacity,        \* len
    GetMutex,        \* held by those who take out
    PutMutex         \* held by those who put in

ASSUME QueueAssumption ==
    /\ Capacity \in Nat \ {0}
    /\ NoValue \notin Values
    /\ {GetMutex, PutMutex} \subseteq Mutexes /\ GetMutex # PutMutex

VARIABLES
    buffer,
    waiting,         \* the thread that waits, or NoThread
    numElem,
    putPos, getPos,
    irq,             \* which side is an interrupt handler's: "put", "get" or none
    call,            \* of a thread: which call it is in
    arg,             \* of a thread: what it puts
    out              \* what was taken last, by whomever

ringVars  == <<buffer, numElem, putPos, getPos, out>>
queueVars == <<ringVars, waiting, irq, call, arg>>
vars == <<pthreadVars, queueVars>>

Sides == {"put", "get"}
Calls == Sides \cup {"notFull", "notEmpty"}

-----------------------------------------------------------------------------
(* The ring buffer.                                                        *)

isEmpty == numElem = 0

\* Wrong: one too many.
FullTooLate == numElem > Capacity

isFull == numElem = Capacity

\* Wrong: wraps one place too late.
PastTheEnd(i) == IF i = Capacity THEN 0 ELSE i + 1

\* ++pos, and back to 0 at the end.
Following(i) == IF i + 1 = Capacity THEN 0 ELSE i + 1

Insert(v) ==
    /\ numElem' = numElem + 1
    /\ buffer' = [buffer EXCEPT ![putPos] = v]
    /\ putPos' = Following(putPos)
    /\ UNCHANGED <<getPos, out>>

Extract ==
    /\ numElem' = numElem - 1
    /\ out' = buffer[getPos]
    /\ getPos' = Following(getPos)
    /\ UNCHANGED <<buffer, putPos>>

\* Wrong: forgets the thread and does not wake it.
OnlyForgotten == wait

\* IRQwakeWaitingThread: WAIT as it leaves it.
Woken == IF waiting = NoThread THEN wait ELSE [wait EXCEPT ![waiting] = FALSE]

-----------------------------------------------------------------------------
(* Calls of threads.                                                       *)

\* What a call waits for to end.
MustWait(c) == IF c \in {"get", "notEmpty"} THEN isEmpty ELSE isFull

Side(c)  == IF c \in {"get", "notEmpty"} THEN "get" ELSE "put"
Guard(c) == IF Side(c) = "get" THEN GetMutex ELSE PutMutex

\* One round of the loop: another thread that waits is woken; then the call
\* does its work and returns, or the thread waits itself.
Round(t, c, v) ==
    IF MustWait(c)
    THEN /\ waiting' = t
         /\ wait' = [Woken EXCEPT ![t] = TRUE]
         /\ at' = [at EXCEPT ![t] = "away"]
         /\ call' = [call EXCEPT ![t] = c]
         /\ arg' = IF c = "put" THEN [arg EXCEPT ![t] = v] ELSE arg
         /\ UNCHANGED ringVars
    ELSE /\ waiting' = NoThread
         /\ wait' = Woken
         /\ at' = [at EXCEPT ![t] = "run"]
         /\ call' = [call EXCEPT ![t] = "none"]
         /\ IF c = "put" THEN Insert(v)
            ELSE IF c = "get" THEN Extract
            ELSE UNCHANGED ringVars
         /\ arg' = [arg EXCEPT ![t] = NoValue]

otherVars == <<mutexVars, condList, condWait, this, depth, nested, irq>>

\* get, put, waitUntilNotEmpty, waitUntilNotFull.  A thread that held the
\* other mutex as well could wait for itself.
Enter(t, c, v) ==
    /\ Runs(t)
    /\ irq # Side(c)
    /\ nested[t][Guard(c)] > 0
    /\ \A m \in {GetMutex, PutMutex} \ {Guard(c)} : nested[t][m] = 0
    /\ Round(t, c, v)
    /\ UNCHANGED otherVars

\* A thread that waits in one of them is resumed.
Again(t) ==
    /\ at[t] = "away" /\ Ready(t)
    /\ Round(t, call[t], arg[t])
    /\ UNCHANGED otherVars

\* reset and IRQreset.
Reset ==
    /\ wait' = Woken /\ waiting' = NoThread
    /\ putPos' = 0 /\ getPos' = 0 /\ numElem' = 0
    /\ UNCHANGED <<otherVars, at, buffer, out, call, arg>>

-----------------------------------------------------------------------------
(* Calls of interrupt handlers.                                            *)

IRQput(v) ==
    /\ irq = "put"
    /\ wait' = Woken /\ waiting' = NoThread
    /\ IF isFull THEN UNCHANGED ringVars ELSE Insert(v)
    /\ UNCHANGED <<otherVars, at, call, arg>>

IRQget ==
    /\ irq = "get"
    /\ wait' = Woken /\ waiting' = NoThread
    /\ IF isEmpty THEN UNCHANGED ringVars ELSE Extract
    /\ UNCHANGED <<otherVars, at, call, arg>>

-----------------------------------------------------------------------------
TypeOK ==
    /\ PthreadTypeOK
    /\ buffer \in [0 .. Capacity - 1 -> Values \cup {NoValue}]
    /\ waiting \in Threads \cup {NoThread}
    /\ numElem \in 0 .. Capacity
    /\ putPos \in 0 .. Capacity - 1
    /\ getPos \in 0 .. Capacity - 1
    /\ irq \in Sides \cup {"none"}
    /\ call \in [Threads -> Calls \cup {"none"}]
    /\ arg \in [Threads -> Values \cup {NoValue}]
    /\ out \in Values \cup {NoValue}

\* The buffer is not initialised: it holds what nobody has put.
Init ==
    /\ PthreadInit
    /\ buffer = [i \in 0 .. Capacity - 1 |-> NoValue]
    /\ waiting = NoThread
    /\ numElem = 0 /\ putPos = 0 /\ getPos = 0
    /\ irq \in Sides \cup {"none"}
    /\ call = [t \in Threads |-> "none"]
    /\ arg = [t \in Threads |-> NoValue]
    /\ out = NoValue

QueueNext ==
    \/ \E t \in Threads, c \in Calls, v \in Values : Enter(t, c, v)
    \/ \E t \in Threads : Again(t)
    \/ \E v \in Values : IRQput(v)
    \/ IRQget
    \/ Reset

Next == QueueNext \/ (PthreadNext /\ UNCHANGED queueVars)

Spec == Init /\ [][Next]_vars

-----------------------------------------------------------------------------
(* Properties.                                                             *)

\* The ring holds numElem values from getPos on.
PlaceOf(i) == IF getPos + i - 1 < Capacity THEN getPos + i - 1
              ELSE getPos + i - 1 - Capacity

Contents == [i \in 1 .. numElem |-> buffer[PlaceOf(i)]]

F == INSTANCE Fifo WITH items <- Contents

\* Whoever waits, is woken, retries or is interrupted: what is taken is what
\* was put, once and in order, and nothing is put that does not fit.
ImplementsFifo == F!Spec

\* The mutexes do what abstract locks do, with the queue's sleepers among the
\* threads.
ImplementsLocks == L!Spec

\* The hazard of a condition checked, a flag set and a yield: a thread that
\* sleeps in the queue is the one that the next call will wake, and what it
\* waits for has not happened.
NoneStranded ==
    \A t \in Threads :
        at[t] = "away" /\ wait[t] => waiting = t /\ MustWait(call[t])

NoLostWakeup == NoneForgotten /\ NoneStranded

\* The mutexes do for the queue what queue.h asks of them: at most one thread
\* waits on each side, also while others are woken at the wrong moment.
OnePerSide ==
    \A t, u \in Threads :
        t # u /\ "none" \notin {call[t], call[u]} => Side(call[t]) # Side(call[u])

\* Nobody overtakes: as long as threads wait for a mutex, the next owner is
\* the first of them, also when others try to lock it before that one runs.
NoOvertaking ==
    [][\A m \in Mutexes : list[m] # <<>> /\ owner'[m] # owner[m] => owner'[m] = Head(list[m])]_vars
=============================================================================
