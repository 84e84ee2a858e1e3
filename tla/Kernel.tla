------------------------------- MODULE Kernel -------------------------------
(***************************************************************************)
(* The threads of the Miosix kernel (kernel.cpp) under its priority        *)
(* scheduler: creation, priorities, sleeping, waiting, joining, detaching, *)
(* deletion, the tick and the pausing of the kernel.                       *)
(*                                                                         *)
(* A thread is known by the block of memory that holds it.  Blocks are     *)
(* given out again after a thread is deleted, and programs may keep a      *)
(* pointer longer than the thread lasts: join and exists are made for      *)
(* that.                                                                   *)
(*                                                                         *)
(* Only the thread cur executes; a tick may come after each of its calls.  *)
(* A call that ends with a yield is one action with it, since a tick       *)
(* between the two is the same as one right after.  Critical sections of   *)
(* one call between which the thread can be preempted are actions of their *)
(* own.  at says where a thread stands:                                    *)
(*                                                                         *)
(*   "free"   no thread is in this block;                                  *)
(*   "run"    in the program;                                              *)
(*   "join"   in the loop of join;                                         *)
(*   "reap"   in join, before its PKremoveDeadThreads;                     *)
(*   "ended"  past the end of threadLauncher.                              *)
(***************************************************************************)
EXTENDS Integers, Sequences, FiniteSets

CONSTANTS
    Blocks,          \* blocks of memory for threads
    Main,            \* the block of the main thread, created by startKernel
    Idle,            \* the idle thread, which is in no list
    NoThread,        \* NULL
    Result,          \* what threads return, where a Thread* might be expected
    PriorityMax,     \* PRIORITY_MAX
    MainPriority,    \* MAIN_PRIORITY
    MaxSleep,        \* bound on the ticks a thread asks to sleep
    MaxPause         \* bound on nested calls of pauseKernel

ASSUME KernelAssumption ==
    /\ Main \in Blocks
    /\ NoThread \notin Blocks /\ Idle \notin Blocks /\ Result \notin Blocks
    /\ Result # NoThread
    /\ PriorityMax \in Nat /\ MainPriority \in 0 .. PriorityMax - 1
    /\ MaxSleep \in Nat /\ MaxPause \in Nat

VARIABLES
    thread_list,     \* of a priority: its circular list, from the head on
    cur,             \* the thread that runs
    kernel_running,  \* calls of pauseKernel minus calls of restartKernel
    tick_skew,       \* true if a tick occurred while the kernel was paused
    sleeping_list,   \* of [p, left]: who sleeps, and wakeup_time - tick
    exist_deleted,   \* there may be threads to deallocate
    priority,        \* of a thread
    flags,           \* of a thread, without DELETING and WAIT_COND
    joinData,        \* of a thread: waitingForJoin or, later, result
    at, joinOn       \* where a thread stands, and the `this' of its join

threadVars == <<priority, flags, joinData, at, joinOn>>
vars == <<thread_list, cur, kernel_running, tick_skew, sleeping_list, exist_deleted,
          threadVars>>

-----------------------------------------------------------------------------
(* Lists of threads, and the choice of the next one.                       *)

Priorities == 0 .. PriorityMax - 1

NotReady == {"WAIT", "SLEEP", "DELETED", "WAIT_JOIN"}
Ready(f) == f \cap NotReady = {}

IsDeleted(f) == {"DELETED", "DETACHED"} \subseteq f

\* The place in a list where the next thread to run is: the search starts
\* after the head, and comes to the head last.
Turns(s, fl) == {k \in DOMAIN s : Ready(fl[s[k]])}
Turn(s, fl) ==
    IF Turns(s, fl) \subseteq {1} THEN 1
    ELSE CHOOSE k \in Turns(s, fl) \ {1} : \A l \in Turns(s, fl) \ {1} : k <= l

\* Wrong: the head stays.
NoRotation(s, k) == s

Rotated(s, k) == SubSeq(s, k, Len(s)) \o SubSeq(s, 1, k - 1)

\* IRQfindNextThread on these lists and flags.
FindNextThread(lists, fl) ==
    LET busy == {p \in Priorities : Turns(lists[p], fl) # {}}
        top  == CHOOSE p \in busy : \A q \in busy : q <= p
        k    == Turn(lists[top], fl)
    IN  IF kernel_running # 0
        THEN thread_list' = lists /\ UNCHANGED cur
        ELSE IF busy = {} THEN thread_list' = lists /\ cur' = Idle
        ELSE /\ cur' = lists[top][k]
             /\ thread_list' = [lists EXCEPT ![top] = Rotated(@, k)]

Inserted(s, t) == IF s = <<>> THEN <<t>> ELSE <<Head(s), t>> \o Tail(s)

\* What stays of a list keeps its order: an entry moves up by as many places
\* as there were entries before it that go.
Without(s, S) ==
    LET stay      == {k \in DOMAIN s : s[k] \notin S}
        Before(k) == Cardinality({l \in stay : l < k})
    IN  [i \in 1 .. Cardinality(stay) |-> s[CHOOSE k \in stay : Before(k) = i - 1]]

\* Wrong: a thread put into its new list only.
MovedOnlyIn(lists, t, old, new) == [lists EXCEPT ![new] = Inserted(@, t)]

Moved(lists, t, old, new) ==
    [[lists EXCEPT ![old] = Without(@, {t})] EXCEPT ![new] = Inserted(@, t)]

\* Sleepers are kept in the order in which they wake.  Wrong: a new one last.
SleeperLast(s, x) == Append(s, x)

SleeperAdded(s, x) ==
    LET place == CHOOSE k \in 1 .. Len(s) + 1 :
                    /\ \A i \in 1 .. k - 1 : s[i].left < x.left
                    /\ k <= Len(s) => s[k].left >= x.left
    IN  SubSeq(s, 1, place - 1) \o <<x>> \o SubSeq(s, place, Len(s))

-----------------------------------------------------------------------------
TypeOK ==
    /\ thread_list \in [Priorities -> Seq(Blocks)]
    /\ cur \in Blocks \cup {Idle}
    /\ kernel_running \in 0 .. MaxPause
    /\ tick_skew \in BOOLEAN
    /\ sleeping_list \in Seq([p : Blocks, left : Int])
    /\ exist_deleted \in BOOLEAN
    /\ priority \in [Blocks -> Priorities]
    /\ flags \in [Blocks -> SUBSET (NotReady \cup {"DETACHED"})]
    /\ joinData \in [Blocks -> Blocks \cup {NoThread, Result}]
    /\ at \in [Blocks -> {"free", "run", "join", "reap", "ended"}]
    /\ joinOn \in [Blocks -> Blocks \cup {NoThread}]

\* startKernel, up to the first instruction of main.
Init ==
    /\ thread_list = [p \in Priorities |-> IF p = MainPriority THEN <<Main>> ELSE <<>>]
    /\ cur = Main
    /\ kernel_running = 0 /\ tick_skew = FALSE
    /\ sleeping_list = <<>>
    /\ exist_deleted = FALSE
    /\ priority = [b \in Blocks |-> IF b = Main THEN MainPriority ELSE 0]
    /\ flags = [b \in Blocks |-> IF b = Main THEN {"DETACHED"} ELSE {}]
    /\ joinData = [b \in Blocks |-> NoThread]
    /\ at = [b \in Blocks |-> IF b = Main THEN "run" ELSE "free"]
    /\ joinOn = [b \in Blocks |-> NoThread]

Runs(t)     == cur = t /\ at[t] = "run"
MayBlock(t) == Runs(t) /\ kernel_running = 0
Exists(b)   == at[b] # "free" /\ ~IsDeleted(flags[b])

-----------------------------------------------------------------------------
(* Creation, priorities, waiting, sleeping.                                *)

\* Wrong: a thread keeps what the block held before.
OldJoinData(b) == joinData

\* What the constructor of Thread does to the union in the block.
NewJoinData(b) == [joinData EXCEPT ![b] = NoThread]

\* create; the options are turned into flags by doCreate.
Create(t, b, pr, options) ==
    /\ Runs(t) /\ at[b] = "free"
    /\ thread_list' = [thread_list EXCEPT ![pr] = Inserted(@, b)]
    /\ priority' = [priority EXCEPT ![b] = pr]
    /\ flags' = [flags EXCEPT ![b] = options]
    /\ joinData' = NewJoinData(b)
    /\ at' = [at EXCEPT ![b] = "run"]
    /\ UNCHANGED <<cur, kernel_running, tick_skew, sleeping_list, exist_deleted, joinOn>>

\* setPriority of a thread that holds no mutex; Sync has the rest.
SetPriority(t, pr) ==
    /\ Runs(t) /\ pr # priority[t]
    /\ priority' = [priority EXCEPT ![t] = pr]
    /\ thread_list' = Moved(thread_list, t, priority[t], pr)
    /\ UNCHANGED <<cur, kernel_running, tick_skew, sleeping_list, exist_deleted,
                   flags, joinData, at, joinOn>>

Yield(t) ==
    /\ MayBlock(t)
    /\ FindNextThread(thread_list, flags)
    /\ UNCHANGED <<kernel_running, tick_skew, sleeping_list, exist_deleted, threadVars>>

Wait(t) ==
    /\ MayBlock(t)
    /\ flags' = [flags EXCEPT ![t] = @ \cup {"WAIT"}]
    /\ FindNextThread(thread_list, flags')
    /\ UNCHANGED <<kernel_running, tick_skew, sleeping_list, exist_deleted, priority,
                   joinData, at, joinOn>>

\* wakeup or PKwakeup by a thread, IRQwakeup by an interrupt handler.
Wakeup(b) ==
    /\ "WAIT" \in flags[b]
    /\ flags' = [flags EXCEPT ![b] = @ \ {"WAIT"}]
    /\ UNCHANGED <<thread_list, cur, kernel_running, tick_skew, sleeping_list,
                   exist_deleted, priority, joinData, at, joinOn>>

\* sleep and sleepUntil, for a time that is not past.
Sleep(t, ticks) ==
    /\ MayBlock(t)
    /\ sleeping_list' = SleeperAdded(sleeping_list, [p |-> t, left |-> ticks])
    /\ flags' = [flags EXCEPT ![t] = @ \cup {"SLEEP"}]
    /\ FindNextThread(thread_list, flags')
    /\ UNCHANGED <<kernel_running, tick_skew, exist_deleted, priority, joinData, at, joinOn>>

-----------------------------------------------------------------------------
(* The end of a thread.                                                    *)

\* PKremoveDeadThreads.
RemoveDeadThreads ==
    LET dead == {b \in Blocks : at[b] # "free" /\ IsDeleted(flags[b])}
    IN  /\ thread_list' = [p \in Priorities |-> Without(thread_list[p], dead)]
        /\ flags' = [b \in Blocks |-> IF b \in dead THEN {} ELSE flags[b]]
        /\ at' = [b \in Blocks |-> IF b \in dead THEN "free"
                                   ELSE IF b = cur THEN "run" ELSE at[b]]

\* Wrong: whoever waits is not looked at.
NobodyWoken(fl, b) == fl

\* Clear the flag of the thread that waits for b in join.
JoinerWoken(fl, b) ==
    IF joinData[b] = NoThread THEN fl
    ELSE [fl EXCEPT ![joinData[b]] = @ \ {"WAIT_JOIN"}]

\* Wrong: detaching a deleted thread leaves it to the next deletion.
NothingToFree(b) == exist_deleted

\* What detach tells the idle thread.
ToFree(b) == exist_deleted \/ "DELETED" \in flags[b]

\* The end of threadLauncher; main does not return.
Exit(t) ==
    /\ MayBlock(t) /\ t # Main
    /\ LET ended == [flags EXCEPT ![t] = @ \cup {"DELETED"}]
       IN  IF "DETACHED" \notin flags[t]
           THEN /\ flags' = JoinerWoken(ended, t)
                /\ joinData' = [joinData EXCEPT ![t] = Result]
                /\ UNCHANGED exist_deleted
           ELSE /\ flags' = ended
                /\ exist_deleted' = TRUE
                /\ UNCHANGED joinData
    /\ at' = [at EXCEPT ![t] = "ended"]
    /\ FindNextThread(thread_list, flags')
    /\ UNCHANGED <<kernel_running, tick_skew, sleeping_list, priority, joinOn>>

\* The pointer must be that of a thread, and not detached twice.
Detach(t, b) ==
    /\ Runs(t) /\ at[b] # "free" /\ "DETACHED" \notin flags[b]
    /\ LET detached == [flags EXCEPT ![b] = @ \cup {"DETACHED"}]
       IN  flags' = IF "DELETED" \in flags[b] THEN detached ELSE JoinerWoken(detached, b)
    /\ exist_deleted' = ToFree(b)
    /\ UNCHANGED <<thread_list, cur, kernel_running, tick_skew, sleeping_list, priority,
                   joinData, at, joinOn>>

\* The first part of join, where it does not return false.
Join(t, b) ==
    /\ MayBlock(t) /\ t # b /\ Exists(b) /\ "DETACHED" \notin flags[b]
    /\ \/ /\ "DELETED" \in flags[b]
          /\ flags' = [flags EXCEPT ![b] = @ \cup {"DETACHED"}]
          /\ at' = [at EXCEPT ![t] = "reap"]
          /\ UNCHANGED <<thread_list, cur, joinData, joinOn>>
       \/ /\ "DELETED" \notin flags[b] /\ joinData[b] = NoThread
          /\ joinData' = [joinData EXCEPT ![b] = t]
          /\ joinOn' = [joinOn EXCEPT ![t] = b]
          /\ at' = [at EXCEPT ![t] = "join"]
          /\ flags' = [flags EXCEPT ![t] = @ \cup {"WAIT_JOIN"}]
          /\ FindNextThread(thread_list, flags')
    /\ UNCHANGED <<kernel_running, tick_skew, sleeping_list, exist_deleted, priority>>

\* A thread in the loop of join runs again: it returns false, or goes on, or
\* waits again.
JoinResume(t) ==
    LET b == joinOn[t]
        Leave(place) == at' = [at EXCEPT ![t] = place]
                        /\ joinOn' = [joinOn EXCEPT ![t] = NoThread]
    IN  /\ cur = t /\ at[t] = "join"
        /\ \/ /\ ~Exists(b) \/ "DETACHED" \in flags[b]
              /\ Leave("run")
              /\ UNCHANGED <<flags, thread_list, cur>>
           \/ /\ Exists(b) /\ flags[b] \cap {"DETACHED", "DELETED"} = {"DELETED"}
              /\ flags' = [flags EXCEPT ![b] = @ \cup {"DETACHED"}]
              /\ Leave("reap")
              /\ UNCHANGED <<thread_list, cur>>
           \/ /\ Exists(b) /\ flags[b] \cap {"DETACHED", "DELETED"} = {}
              /\ flags' = [flags EXCEPT ![t] = @ \cup {"WAIT_JOIN"}]
              /\ FindNextThread(thread_list, flags')
              /\ UNCHANGED <<at, joinOn>>
        /\ UNCHANGED <<kernel_running, tick_skew, sleeping_list, exist_deleted, priority,
                       joinData>>

\* The second part of join.
Reap(t) ==
    /\ cur = t /\ at[t] = "reap"
    /\ RemoveDeadThreads
    /\ UNCHANGED <<cur, kernel_running, tick_skew, sleeping_list, exist_deleted, priority,
                   joinData, joinOn>>

IdleThread ==
    /\ cur = Idle /\ exist_deleted
    /\ exist_deleted' = FALSE
    /\ RemoveDeadThreads
    /\ UNCHANGED <<cur, kernel_running, tick_skew, sleeping_list, priority, joinData, joinOn>>

-----------------------------------------------------------------------------
(* Pausing, and the tick.                                                  *)

PauseKernel(t) ==
    /\ Runs(t) /\ kernel_running < MaxPause
    /\ kernel_running' = kernel_running + 1
    /\ UNCHANGED <<thread_list, cur, tick_skew, sleeping_list, exist_deleted, threadVars>>

\* Wrong: a restart without a pause.
RestartUnpaused(t) ==
    /\ Runs(t)
    /\ kernel_running' = kernel_running - 1
    /\ UNCHANGED <<thread_list, cur, tick_skew, sleeping_list, exist_deleted, threadVars>>

\* restartKernel compares what kernel_running was before with 0, after it
\* made sure that it was more than 0.
RestartKernel(t) ==
    LET old == kernel_running
    IN  /\ Runs(t) /\ old > 0
        /\ kernel_running' = old - 1
        /\ IF old = 0 /\ tick_skew
           THEN tick_skew' = FALSE /\ FindNextThread(thread_list, flags)
           ELSE UNCHANGED <<tick_skew, thread_list, cur>>
        /\ UNCHANGED <<sleeping_list, exist_deleted, threadVars>>

\* IRQtickInterrupt: IRQwakeThreads and the scheduler.
Tick ==
    LET left  == [i \in DOMAIN sleeping_list |->
                    [sleeping_list[i] EXCEPT !.left = @ - 1]]
        n     == CHOOSE k \in 0 .. Len(left) :
                    /\ \A i \in 1 .. k : left[i].left = 0
                    /\ k < Len(left) => left[k + 1].left # 0
        woken == {left[i].p : i \in 1 .. n}
    IN  /\ sleeping_list' = SubSeq(left, n + 1, Len(left))
        /\ flags' = [b \in Blocks |-> IF b \in woken THEN flags[b] \ {"SLEEP"} ELSE flags[b]]
        /\ FindNextThread(thread_list, flags')
        /\ tick_skew' = (tick_skew \/ kernel_running # 0)
        /\ UNCHANGED <<kernel_running, exist_deleted, priority, joinData, at, joinOn>>

-----------------------------------------------------------------------------
Options == {{}, {"DETACHED"}}

\* What any program does.
Common ==
    \/ Tick \/ IdleThread
    \/ \E t \in Blocks : Yield(t) \/ JoinResume(t) \/ Reap(t) \/ Exit(t)
    \/ \E t, b \in Blocks, pr \in Priorities, o \in Options : Create(t, b, pr, o)

Waiting ==
    \/ \E t \in Blocks : Wait(t) \/ Wakeup(t)
    \/ \E t \in Blocks, ticks \in 1 .. MaxSleep : Sleep(t, ticks)

Pausing == \E t \in Blocks : PauseKernel(t) \/ RestartKernel(t)

Setting == \E t \in Blocks, pr \in Priorities : SetPriority(t, pr)

Joining(S) == \E t \in S, b \in Blocks : Join(t, b) \/ Detach(t, b)

Next == Common \/ Waiting \/ Pausing \/ Setting \/ Joining(Blocks)

Spec == Init /\ [][Next]_vars

\* A program in which only main creates, joins and detaches, and so owns the
\* pointers to all other threads, and nobody changes its priority.
OwnerNext ==
    \/ Tick \/ IdleThread \/ Pausing
    \/ \E t \in Blocks : Yield(t) \/ Wait(t) \/ Wakeup(t)
    \/ \E t \in Blocks : JoinResume(t) \/ Reap(t) \/ Exit(t)
    \/ \E b \in Blocks, pr \in Priorities, o \in Options : Create(Main, b, pr, o)
    \/ Joining({Main})

\* Ticks do not end and are not in step with the program, so that one of them
\* comes while the kernel is not paused; a program that pauses it restarts it.
OwnerSpec ==
    /\ Init /\ [][OwnerNext]_vars
    /\ SF_vars(Tick /\ kernel_running = 0)
    /\ WF_vars(\E t \in Blocks : RestartKernel(t))

-----------------------------------------------------------------------------
(* Properties.                                                             *)

\* Every thread is in the list of its priority, once, and in no other, so the
\* search in PKsetPriority ends and its errorHandler(UNEXPECTED) is not
\* reached.
ListsAgree ==
    \A p \in Priorities, b \in Blocks :
        Cardinality({i \in DOMAIN thread_list[p] : thread_list[p][i] = b})
            = IF at[b] # "free" /\ priority[b] = p THEN 1 ELSE 0

\* Who sleeps is in the sleeping list, which is sorted and has only times to
\* come: IRQwakeThreads compares with =, a time that is past would never be
\* found.
SleepersOnTime ==
    /\ \A i \in DOMAIN sleeping_list :
          /\ sleeping_list[i].left > 0
          /\ \A j \in 1 .. i : sleeping_list[j].left <= sleeping_list[i].left
    /\ \A b \in Blocks : "SLEEP" \in flags[b] <=>
          \E i \in DOMAIN sleeping_list : sleeping_list[i].p = b

\* The memory of a thread that has ended and is detached is freed: either the
\* idle thread knows of it, or join is about to do it.
DeadAreFreed ==
    \A b \in Blocks : at[b] # "free" /\ IsDeleted(flags[b]) =>
        exist_deleted \/ \E t \in Blocks : at[t] = "reap"

\* The pointer that the end of a thread, or detach, wakes somebody through is
\* that of a thread that is in join, and on this thread.
WakesTheJoiner ==
    \A b \in Blocks :
        /\ at[b] # "free" /\ flags[b] \cap {"DETACHED", "DELETED"} = {}
        /\ joinData[b] # NoThread
        => \E t \in Blocks : joinData[b] = t /\ at[t] = "join" /\ joinOn[t] = b

\* Who sleeps in join will be woken: by a thread that has not ended, is not
\* detached and knows of it.  A comment in detach says that its wakeup "makes
\* join return false instead of deadlocking".
JoinersAreWoken ==
    \A t \in Blocks : "WAIT_JOIN" \in flags[t] =>
        /\ Exists(joinOn[t]) /\ flags[joinOn[t]] \cap {"DETACHED", "DELETED"} = {}
        /\ joinData[joinOn[t]] = t

\* A thread that from some time on could always run, and that none of a
\* higher priority keeps from running, does run again and again: the rotation
\* of the lists gives each its turn.
MayRun(t) ==
    /\ at[t] = "run" /\ Ready(flags[t])
    /\ \A u \in Blocks : at[u] # "free" /\ Ready(flags[u]) => priority[u] <= priority[t]

EveryTurnComes == \A t \in Blocks : <>[]MayRun(t) => []<>(cur = t)

=============================================================================
