---------------------------- MODULE KernelProofs ----------------------------
(***************************************************************************)
(* Proofs about Kernel, for all blocks, priorities, times and levels of    *)
(* pausing.  First how threads end, are joined and are freed: who runs and *)
(* who is in which list does not matter for that, any thread may be the    *)
(* next.  Then the lists themselves, which need the first part: only who   *)
(* has ended is taken out of them, and only who runs goes to sleep.        *)
(***************************************************************************)
EXTENDS Kernel, SequenceTheorems, FiniteSetTheorems, WellFoundedInduction, TLAPS

ThreadTypes ==
    /\ exist_deleted \in BOOLEAN
    /\ flags \in [Blocks -> SUBSET (NotReady \cup {"DETACHED"})]
    /\ joinData \in [Blocks -> Blocks \cup {NoThread, Result}]
    /\ at \in [Blocks -> {"free", "run", "join", "reap", "ended"}]
    /\ joinOn \in [Blocks -> Blocks \cup {NoThread}]

\* Nobody but those past the end of threadLauncher is deleted.
OnlyTheEnded == \A b \in Blocks : "DELETED" \in flags[b] => at[b] = "ended"

Inv == ThreadTypes /\ OnlyTheEnded /\ DeadAreFreed /\ WakesTheJoiner

-----------------------------------------------------------------------------
(* Steps that leave the life of threads alone.                             *)

\* Flags that do not say whether a thread has ended, or waits in join.
Harmless == {"WAIT", "SLEEP"}

Bystander ==
    /\ UNCHANGED <<exist_deleted, joinData, at, joinOn>>
    /\ flags' \in [Blocks -> SUBSET (NotReady \cup {"DETACHED"})]
    /\ \A b \in Blocks : flags'[b] \ Harmless = flags[b] \ Harmless

Bystanders ==
    \/ Tick \/ Waiting \/ Pausing \/ Setting
    \/ \E t \in Blocks : Yield(t)
    \/ UNCHANGED vars

LEMMA BystandersStand == ThreadTypes /\ Bystanders => Bystander
<1> SUFFICES ASSUME ThreadTypes, Bystanders PROVE Bystander
  OBVIOUS
<1> USE DEF Bystander, Harmless, NotReady, ThreadTypes
<1>1. CASE Tick
  <2>1. PICK woken : flags' = [b \in Blocks |-> IF b \in woken THEN flags[b] \ {"SLEEP"}
                                                ELSE flags[b]]
    BY <1>1 DEF Tick
  <2>2. UNCHANGED <<exist_deleted, joinData, at, joinOn>>
    BY <1>1 DEF Tick
  <2>3. flags' \in [Blocks -> SUBSET (NotReady \cup {"DETACHED"})]
    BY <2>1
  <2>4. \A b \in Blocks : flags'[b] \ Harmless = flags[b] \ Harmless
    BY <2>1
  <2>5. QED BY <2>2, <2>3, <2>4
<1>2. CASE Waiting
  <2>1. ASSUME NEW t \in Blocks, Wait(t) PROVE Bystander
    BY <2>1 DEF Wait
  <2>2. ASSUME NEW t \in Blocks, Wakeup(t) PROVE Bystander
    BY <2>2 DEF Wakeup
  <2>3. ASSUME NEW t \in Blocks, NEW n \in 1 .. MaxSleep, Sleep(t, n) PROVE Bystander
    BY <2>3 DEF Sleep
  <2>4. QED BY <1>2, <2>1, <2>2, <2>3 DEF Waiting
<1>3. CASE Pausing \/ Setting \/ (\E t \in Blocks : Yield(t)) \/ UNCHANGED vars
  BY <1>3 DEF Pausing, PauseKernel, RestartKernel, Setting, SetPriority, Yield, vars, threadVars
<1>4. QED BY <1>1, <1>2, <1>3 DEF Bystanders

LEMMA BystanderStep == Inv /\ Bystander => Inv'
<1> SUFFICES ASSUME Inv, Bystander PROVE Inv'
  OBVIOUS
<1>1. \A b \in Blocks : /\ "DELETED" \in flags'[b] <=> "DELETED" \in flags[b]
                        /\ "DETACHED" \in flags'[b] <=> "DETACHED" \in flags[b]
  BY DEF Bystander, Harmless
<1>2. at' = at /\ joinData' = joinData /\ joinOn' = joinOn /\ exist_deleted' = exist_deleted
  BY DEF Bystander
<1>3. ThreadTypes' /\ OnlyTheEnded'
  BY <1>1, <1>2 DEF Bystander, Inv, ThreadTypes, OnlyTheEnded
<1>4. DeadAreFreed'
  BY <1>1, <1>2 DEF Inv, DeadAreFreed, IsDeleted
<1>5. WakesTheJoiner'
  BY <1>1, <1>2 DEF Inv, WakesTheJoiner
<1>6. QED BY <1>3, <1>4, <1>5 DEF Inv

-----------------------------------------------------------------------------
(* The steps that are about it.                                            *)

LEMMA CreateStep ==
    ASSUME Inv, NEW t \in Blocks, NEW b \in Blocks, NEW pr \in Priorities,
           NEW o \in Options, Create(t, b, pr, o)
    PROVE  Inv'
<1>1. /\ at[b] = "free"
      /\ flags' = [flags EXCEPT ![b] = o] /\ at' = [at EXCEPT ![b] = "run"]
      /\ joinData' = [joinData EXCEPT ![b] = NoThread]
      /\ joinOn' = joinOn /\ exist_deleted' = exist_deleted
  BY DEF Create, NewJoinData
<1>2. o \in SUBSET {"DETACHED"}
  BY DEF Options
<1>3. ThreadTypes' /\ OnlyTheEnded'
  BY <1>1, <1>2 DEF Inv, ThreadTypes, OnlyTheEnded, NotReady
<1>4. DeadAreFreed'
  BY <1>1, <1>2 DEF Inv, ThreadTypes, DeadAreFreed, IsDeleted
<1>5. WakesTheJoiner'
  BY <1>1, <1>2 DEF Inv, ThreadTypes, WakesTheJoiner
<1>6. QED BY <1>3, <1>4, <1>5 DEF Inv

\* Whoever is woken, only WAIT_JOIN goes.
LEMMA JoinerWokenValue ==
    ASSUME NEW fl \in [Blocks -> SUBSET (NotReady \cup {"DETACHED"})], NEW b \in Blocks
    PROVE  /\ JoinerWoken(fl, b) \in [Blocks -> SUBSET (NotReady \cup {"DETACHED"})]
           /\ \A c \in Blocks :
                 /\ "DELETED" \in JoinerWoken(fl, b)[c] <=> "DELETED" \in fl[c]
                 /\ "DETACHED" \in JoinerWoken(fl, b)[c] <=> "DETACHED" \in fl[c]
                 /\ "WAIT_JOIN" \in JoinerWoken(fl, b)[c] => "WAIT_JOIN" \in fl[c]
           /\ joinData[b] \in Blocks /\ joinData[b] # NoThread =>
                  "WAIT_JOIN" \notin JoinerWoken(fl, b)[joinData[b]]
BY DEF JoinerWoken

LEMMA ExitStep ==
    ASSUME Inv, NEW t \in Blocks, Exit(t)
    PROVE  Inv'
<1> DEFINE ended == [flags EXCEPT ![t] = @ \cup {"DELETED"}]
<1>1. /\ at[t] = "run" /\ at' = [at EXCEPT ![t] = "ended"] /\ joinOn' = joinOn
      /\ \/ /\ "DETACHED" \notin flags[t] /\ flags' = JoinerWoken(ended, t)
            /\ joinData' = [joinData EXCEPT ![t] = Result]
            /\ exist_deleted' = exist_deleted
         \/ /\ "DETACHED" \in flags[t] /\ flags' = ended
            /\ joinData' = joinData /\ exist_deleted' = TRUE
  BY DEF Exit, MayBlock, Runs
<1>2. ended \in [Blocks -> SUBSET (NotReady \cup {"DETACHED"})]
  BY DEF Inv, ThreadTypes, NotReady
<1> HIDE DEF ended
<1>3. flags' \in [Blocks -> SUBSET (NotReady \cup {"DETACHED"})]
  BY <1>1, <1>2, JoinerWokenValue
<1>4. \A b \in Blocks : /\ "DELETED" \in flags'[b] <=> "DELETED" \in ended[b]
                        /\ "DETACHED" \in flags'[b] <=> "DETACHED" \in ended[b]
  BY <1>1, <1>2, JoinerWokenValue
<1>5. \A b \in Blocks : /\ "DELETED" \in flags'[b] <=> b = t \/ "DELETED" \in flags[b]
                        /\ "DETACHED" \in flags'[b] <=> "DETACHED" \in flags[b]
  <2>1. \A b \in Blocks : ended[b] = IF b = t THEN flags[b] \cup {"DELETED"} ELSE flags[b]
    BY DEF ended, Inv, ThreadTypes
  <2>2. QED BY <1>4, <2>1
<1>6. ThreadTypes' /\ OnlyTheEnded'
  BY <1>1, <1>3, <1>5 DEF Inv, ThreadTypes, OnlyTheEnded
<1>7. DeadAreFreed'
  BY <1>1, <1>5 DEF Inv, ThreadTypes, DeadAreFreed, IsDeleted
<1>8. WakesTheJoiner'
  BY <1>1, <1>5 DEF Inv, ThreadTypes, WakesTheJoiner
<1>9. QED BY <1>6, <1>7, <1>8 DEF Inv

LEMMA DetachStep ==
    ASSUME Inv, NEW t \in Blocks, NEW b \in Blocks, Detach(t, b)
    PROVE  Inv'
<1> DEFINE detached == [flags EXCEPT ![b] = @ \cup {"DETACHED"}]
<1>1. /\ at' = at /\ joinOn' = joinOn /\ joinData' = joinData
      /\ exist_deleted' = (exist_deleted \/ "DELETED" \in flags[b])
      /\ flags' = IF "DELETED" \in flags[b] THEN detached ELSE JoinerWoken(detached, b)
  BY DEF Detach, ToFree
<1>2. detached \in [Blocks -> SUBSET (NotReady \cup {"DETACHED"})]
  BY DEF Inv, ThreadTypes, NotReady
<1> HIDE DEF detached
<1>3. /\ flags' \in [Blocks -> SUBSET (NotReady \cup {"DETACHED"})]
      /\ \A c \in Blocks : /\ "DELETED" \in flags'[c] <=> "DELETED" \in detached[c]
                           /\ "DETACHED" \in flags'[c] <=> "DETACHED" \in detached[c]
  BY <1>1, <1>2, JoinerWokenValue
<1>4. \A c \in Blocks : /\ "DETACHED" \in flags'[c] <=> c = b \/ "DETACHED" \in flags[c]
                        /\ "DELETED" \in flags'[c] <=> "DELETED" \in flags[c]
  <2>1. \A c \in Blocks : detached[c] = IF c = b THEN flags[c] \cup {"DETACHED"} ELSE flags[c]
    BY DEF detached, Inv, ThreadTypes
  <2>2. QED BY <1>3, <2>1
<1>5. ThreadTypes' /\ OnlyTheEnded'
  BY <1>1, <1>3, <1>4 DEF Inv, ThreadTypes, OnlyTheEnded
<1>6. DeadAreFreed'
  BY <1>1, <1>4 DEF Inv, ThreadTypes, DeadAreFreed, IsDeleted
<1>7. WakesTheJoiner'
  BY <1>1, <1>4 DEF Inv, WakesTheJoiner
<1>8. QED BY <1>5, <1>6, <1>7 DEF Inv

\* A thread that joins one that has ended.
LEMMA JoinEnded ==
    ASSUME Inv, NEW t \in Blocks, NEW b \in Blocks, at[t] \in {"run", "join"},
           "DELETED" \in flags[b],
           flags' = [flags EXCEPT ![b] = @ \cup {"DETACHED"}],
           at' = [at EXCEPT ![t] = "reap"],
           joinData' = joinData, exist_deleted' = exist_deleted,
           joinOn' = joinOn \/ joinOn' = [joinOn EXCEPT ![t] = NoThread],
           at[t] = "join" => joinOn[t] = b
    PROVE  Inv'
<1>1. \A c \in Blocks : /\ "DETACHED" \in flags'[c] <=> c = b \/ "DETACHED" \in flags[c]
                        /\ "DELETED" \in flags'[c] <=> "DELETED" \in flags[c]
  BY DEF Inv, ThreadTypes
<1>2. ThreadTypes' /\ OnlyTheEnded'
  BY <1>1 DEF Inv, ThreadTypes, OnlyTheEnded, NotReady
<1>3. DeadAreFreed'
  BY DEF Inv, ThreadTypes, DeadAreFreed
<1>4. WakesTheJoiner'
  <2> SUFFICES ASSUME NEW c \in Blocks, at'[c] # "free", joinData'[c] # NoThread,
                      flags'[c] \cap {"DETACHED", "DELETED"} = {}
               PROVE  \E u \in Blocks : joinData'[c] = u /\ at'[u] = "join" /\ joinOn'[u] = c
    BY DEF WakesTheJoiner
  <2>1. c # b /\ flags[c] \cap {"DETACHED", "DELETED"} = {}
    BY <1>1
  <2>2. at[c] # "free"
    BY DEF Inv, ThreadTypes
  <2>3. PICK u \in Blocks : joinData[c] = u /\ at[u] = "join" /\ joinOn[u] = c
    BY <2>1, <2>2 DEF Inv, WakesTheJoiner
  <2>4. u # t
    BY <2>1, <2>3
  <2>5. QED BY <2>3, <2>4 DEF Inv, ThreadTypes
<1>5. QED BY <1>2, <1>3, <1>4 DEF Inv

LEMMA JoinStep ==
    ASSUME Inv, NEW t \in Blocks, NEW b \in Blocks, Join(t, b)
    PROVE  Inv'
<1>1. /\ at[t] = "run" /\ t # b /\ at[b] # "free" /\ "DETACHED" \notin flags[b]
      /\ exist_deleted' = exist_deleted
  BY DEF Join, MayBlock, Runs, Exists
<1>2. CASE "DELETED" \in flags[b]
  <2>1. /\ flags' = [flags EXCEPT ![b] = @ \cup {"DETACHED"}]
        /\ at' = [at EXCEPT ![t] = "reap"]
        /\ joinData' = joinData /\ joinOn' = joinOn
    BY <1>2 DEF Join
  <2>2. QED BY <1>1, <1>2, <2>1, JoinEnded
<1>3. CASE "DELETED" \notin flags[b]
  <2>1. /\ joinData[b] = NoThread /\ joinData' = [joinData EXCEPT ![b] = t]
        /\ joinOn' = [joinOn EXCEPT ![t] = b] /\ at' = [at EXCEPT ![t] = "join"]
        /\ flags' = [flags EXCEPT ![t] = @ \cup {"WAIT_JOIN"}]
    BY <1>3 DEF Join
  <2>2. \A c \in Blocks : /\ "DETACHED" \in flags'[c] <=> "DETACHED" \in flags[c]
                          /\ "DELETED" \in flags'[c] <=> "DELETED" \in flags[c]
    BY <2>1 DEF Inv, ThreadTypes
  <2>3. ThreadTypes' /\ OnlyTheEnded'
    BY <1>1, <2>1, <2>2 DEF Inv, ThreadTypes, OnlyTheEnded, NotReady
  <2>4. DeadAreFreed'
    BY <1>1, <2>1, <2>2 DEF Inv, ThreadTypes, DeadAreFreed, IsDeleted
  <2>5. WakesTheJoiner'
    BY <1>1, <2>1, <2>2 DEF Inv, ThreadTypes, WakesTheJoiner
  <2>6. QED BY <2>3, <2>4, <2>5 DEF Inv
<1>4. QED BY <1>2, <1>3

LEMMA JoinResumeStep ==
    ASSUME Inv, NEW t \in Blocks, JoinResume(t)
    PROVE  Inv'
<1> DEFINE b == joinOn[t]
<1>1. at[t] = "join" /\ joinData' = joinData /\ exist_deleted' = exist_deleted
  BY DEF JoinResume
<1>2. CASE /\ ~Exists(b) \/ "DETACHED" \in flags[b]
           /\ at' = [at EXCEPT ![t] = "run"] /\ joinOn' = [joinOn EXCEPT ![t] = NoThread]
           /\ flags' = flags
  <2>1. ThreadTypes' /\ OnlyTheEnded'
    BY <1>1, <1>2 DEF Inv, ThreadTypes, OnlyTheEnded
  <2>2. DeadAreFreed'
    BY <1>1, <1>2 DEF Inv, ThreadTypes, DeadAreFreed
  <2>3. WakesTheJoiner'
    <3> SUFFICES ASSUME NEW c \in Blocks, at'[c] # "free", joinData'[c] # NoThread,
                        flags'[c] \cap {"DETACHED", "DELETED"} = {}
                 PROVE  \E u \in Blocks : joinData'[c] = u /\ at'[u] = "join" /\ joinOn'[u] = c
      BY DEF WakesTheJoiner
    <3>1. at[c] # "free"
      BY <1>1, <1>2 DEF Inv, ThreadTypes
    <3>2. PICK u \in Blocks : joinData[c] = u /\ at[u] = "join" /\ joinOn[u] = c
      BY <1>1, <1>2, <3>1 DEF Inv, WakesTheJoiner
    <3>3. u # t
      BY <1>2, <3>1, <3>2 DEF Exists, IsDeleted
    <3>4. QED BY <1>1, <1>2, <3>2, <3>3 DEF Inv, ThreadTypes
  <2>4. QED BY <2>1, <2>2, <2>3 DEF Inv
<1>3. CASE /\ Exists(b) /\ flags[b] \cap {"DETACHED", "DELETED"} = {"DELETED"}
           /\ at' = [at EXCEPT ![t] = "reap"] /\ joinOn' = [joinOn EXCEPT ![t] = NoThread]
           /\ flags' = [flags EXCEPT ![b] = @ \cup {"DETACHED"}]
  <2>1. CASE b \in Blocks
    BY <1>1, <1>3, <2>1, JoinEnded
  <2>2. CASE b = NoThread
    <3>1. flags' = flags
      BY <1>3, <2>2, KernelAssumption DEF Inv, ThreadTypes
    <3>2. ThreadTypes' /\ OnlyTheEnded'
      BY <1>1, <1>3, <3>1 DEF Inv, ThreadTypes, OnlyTheEnded
    <3>3. DeadAreFreed'
      BY <1>1, <1>3, <3>1 DEF Inv, ThreadTypes, DeadAreFreed
    <3>4. WakesTheJoiner'
      BY <1>1, <1>3, <2>2, <3>1, KernelAssumption DEF Inv, ThreadTypes, WakesTheJoiner
    <3>5. QED BY <3>2, <3>3, <3>4 DEF Inv
  <2>3. QED BY <2>1, <2>2 DEF Inv, ThreadTypes
<1>4. CASE /\ flags' = [flags EXCEPT ![t] = @ \cup {"WAIT_JOIN"}]
           /\ at' = at /\ joinOn' = joinOn
  <2>1. \A c \in Blocks : /\ "DETACHED" \in flags'[c] <=> "DETACHED" \in flags[c]
                          /\ "DELETED" \in flags'[c] <=> "DELETED" \in flags[c]
    BY <1>4 DEF Inv, ThreadTypes
  <2>2. ThreadTypes' /\ OnlyTheEnded'
    BY <1>1, <1>4, <2>1 DEF Inv, ThreadTypes, OnlyTheEnded, NotReady
  <2>3. DeadAreFreed'
    BY <1>1, <1>4, <2>1 DEF Inv, DeadAreFreed, IsDeleted
  <2>4. WakesTheJoiner'
    BY <1>1, <1>4, <2>1 DEF Inv, WakesTheJoiner
  <2>5. QED BY <2>2, <2>3, <2>4 DEF Inv
<1>5. QED BY <1>2, <1>3, <1>4 DEF JoinResume

LEMMA RemoveStep ==
    ASSUME Inv, RemoveDeadThreads, cur = Idle \/ (cur \in Blocks /\ at[cur] = "reap"),
           exist_deleted' \in BOOLEAN, UNCHANGED <<joinData, joinOn>>
    PROVE  Inv'
<1> DEFINE Dead(b) == at[b] # "free" /\ IsDeleted(flags[b])
<1>1. /\ flags' = [b \in Blocks |-> IF Dead(b) THEN {} ELSE flags[b]]
      /\ at' = [b \in Blocks |-> IF Dead(b) THEN "free"
                                 ELSE IF b = cur THEN "run" ELSE at[b]]
  BY DEF RemoveDeadThreads
<1>2. \A b \in Blocks : b = cur => at[b] = "reap"
  BY KernelAssumption
<1>3. ThreadTypes' /\ OnlyTheEnded'
  BY <1>1, <1>2 DEF Inv, ThreadTypes, OnlyTheEnded
<1>4. DeadAreFreed'
  BY <1>1, <1>2 DEF Inv, ThreadTypes, DeadAreFreed, IsDeleted
<1>5. WakesTheJoiner'
  <2> SUFFICES ASSUME NEW c \in Blocks, at'[c] # "free", joinData'[c] # NoThread,
                      flags'[c] \cap {"DETACHED", "DELETED"} = {}
               PROVE  \E u \in Blocks : joinData'[c] = u /\ at'[u] = "join" /\ joinOn'[u] = c
    BY DEF WakesTheJoiner
  <2>1. ~Dead(c) /\ flags'[c] = flags[c] /\ at[c] # "free"
    BY <1>1, <1>2
  <2>2. PICK u \in Blocks : joinData[c] = u /\ at[u] = "join" /\ joinOn[u] = c
    BY <2>1 DEF Inv, WakesTheJoiner
  <2>3. ~Dead(u)
    BY <2>2 DEF Inv, OnlyTheEnded, IsDeleted
  <2>4. QED BY <1>1, <1>2, <2>2, <2>3
<1>6. QED BY <1>3, <1>4, <1>5 DEF Inv

-----------------------------------------------------------------------------
(* The theorems about any program.                                         *)

LEMMA InvInit == Init => Inv
<1> SUFFICES ASSUME Init PROVE Inv
  OBVIOUS
<1>1. \A b \in Blocks : "DELETED" \notin flags[b] /\ joinData[b] = NoThread
  BY DEF Init
<1>2. flags \in [Blocks -> SUBSET (NotReady \cup {"DETACHED"})]
  BY DEF Init
<1>3. ThreadTypes
  BY <1>2 DEF Init, ThreadTypes
<1>4. OnlyTheEnded /\ DeadAreFreed /\ WakesTheJoiner
  BY <1>1 DEF OnlyTheEnded, DeadAreFreed, WakesTheJoiner, IsDeleted
<1>5. QED BY <1>3, <1>4 DEF Inv

LEMMA InvStep == Inv /\ [Next]_vars => Inv'
<1> SUFFICES ASSUME Inv, [Next]_vars PROVE Inv'
  OBVIOUS
<1>1. CASE Bystanders
  BY <1>1, BystandersStand, BystanderStep DEF Inv
<1>2. ASSUME NEW t \in Blocks, Reap(t) PROVE Inv'
  BY <1>2, RemoveStep DEF Reap, Inv, ThreadTypes
<1>3. CASE IdleThread
  BY <1>3, RemoveStep DEF IdleThread
<1>4. ASSUME NEW t \in Blocks, NEW b \in Blocks, Join(t, b) \/ Detach(t, b) PROVE Inv'
  BY <1>4, JoinStep, DetachStep
<1>5. QED
  BY <1>1, <1>2, <1>3, <1>4, CreateStep, ExitStep, JoinResumeStep
     DEF Next, Common, Joining, Bystanders

LEMMA InvHolds == Spec => []Inv
BY InvInit, InvStep, PTL DEF Spec

\* For any number of threads that create, join, detach and end one another: a
\* detached thread that has ended is never forgotten, whoever detached it and
\* when; the idle thread, or a join on its way, will free its memory.
THEOREM Freed == Spec => []DeadAreFreed
<1>1. Inv => DeadAreFreed
  BY DEF Inv
<1>2. QED BY InvHolds, <1>1, PTL

\* The pointer that a thread finds in the union when it ends or is detached
\* belongs to a thread in join on this very one, also when blocks are used
\* again: it wakes nobody else and writes into no free memory.
THEOREM RightJoiner == Spec => []WakesTheJoiner
<1>1. Inv => WakesTheJoiner
  BY DEF Inv
<1>2. QED BY InvHolds, <1>1, PTL
-----------------------------------------------------------------------------
(* A program in which one thread owns the others.                          *)

\* What main waits for in join is a thread that nobody else can detach or
\* free, and that knows of main until it ends.
Waited(b) ==
    /\ b \in Blocks /\ at[b] # "free" /\ "DETACHED" \notin flags[b]
    /\ "DELETED" \notin flags[b] => joinData[b] = Main

OwnerJoins ==
    /\ \A t \in Blocks : at[t] \in {"join", "reap"} => t = Main
    /\ at[Main] = "join" => Waited(joinOn[Main])
    /\ \A t \in Blocks : "WAIT_JOIN" \in flags[t] =>
          t = Main /\ at[Main] = "join" /\ "DELETED" \notin flags[joinOn[Main]]

OwnerInv == ThreadTypes /\ OnlyTheEnded /\ OwnerJoins

LEMMA BystanderOwner == OwnerInv /\ Bystander => OwnerJoins'
<1> SUFFICES ASSUME OwnerInv, Bystander PROVE OwnerJoins'
  OBVIOUS
<1>1. \A b \in Blocks : /\ "DELETED" \in flags'[b] <=> "DELETED" \in flags[b]
                        /\ "DETACHED" \in flags'[b] <=> "DETACHED" \in flags[b]
                        /\ "WAIT_JOIN" \in flags'[b] <=> "WAIT_JOIN" \in flags[b]
  BY DEF Bystander, Harmless
<1>2. at' = at /\ joinData' = joinData /\ joinOn' = joinOn
  BY DEF Bystander
<1>3. QED BY <1>1, <1>2 DEF OwnerInv, OwnerJoins, Waited

LEMMA CreateOwner ==
    ASSUME OwnerInv, NEW b \in Blocks, NEW pr \in Priorities, NEW o \in Options,
           Create(Main, b, pr, o)
    PROVE  OwnerJoins'
<1>1. /\ at[b] = "free" /\ at[Main] = "run"
      /\ flags' = [flags EXCEPT ![b] = o] /\ at' = [at EXCEPT ![b] = "run"]
  BY DEF Create, Runs
<1>2. "WAIT_JOIN" \notin o
  BY DEF Options
<1>3. at'[Main] = "run"
  BY <1>1, KernelAssumption DEF OwnerInv, ThreadTypes
<1>4. QED BY <1>1, <1>2, <1>3 DEF OwnerInv, ThreadTypes, OwnerJoins

LEMMA ExitOwner ==
    ASSUME OwnerInv, NEW t \in Blocks, Exit(t)
    PROVE  OwnerJoins'
<1> DEFINE ended == [flags EXCEPT ![t] = @ \cup {"DELETED"}]
<1>1. /\ at[t] = "run" /\ t # Main /\ at' = [at EXCEPT ![t] = "ended"] /\ joinOn' = joinOn
      /\ \/ /\ "DETACHED" \notin flags[t] /\ flags' = JoinerWoken(ended, t)
            /\ joinData' = [joinData EXCEPT ![t] = Result]
         \/ /\ "DETACHED" \in flags[t] /\ flags' = ended
            /\ joinData' = joinData
  BY DEF Exit, MayBlock, Runs
<1>2. /\ ended \in [Blocks -> SUBSET (NotReady \cup {"DETACHED"})]
      /\ \A b \in Blocks : ended[b] = IF b = t THEN flags[b] \cup {"DELETED"} ELSE flags[b]
  BY DEF OwnerInv, ThreadTypes, NotReady
<1> HIDE DEF ended
<1>3. \A b \in Blocks : /\ "DELETED" \in flags'[b] <=> b = t \/ "DELETED" \in flags[b]
                        /\ "DETACHED" \in flags'[b] <=> "DETACHED" \in flags[b]
                        /\ "WAIT_JOIN" \in flags'[b] => "WAIT_JOIN" \in flags[b]
  <2>1. \A b \in Blocks : /\ "DELETED" \in flags'[b] <=> "DELETED" \in ended[b]
                          /\ "DETACHED" \in flags'[b] <=> "DETACHED" \in ended[b]
                          /\ "WAIT_JOIN" \in flags'[b] => "WAIT_JOIN" \in ended[b]
    BY <1>1, <1>2, JoinerWokenValue
  <2>2. QED BY <1>2, <2>1
<1>4. at'[Main] = at[Main] /\ Main \in Blocks
  BY <1>1, KernelAssumption DEF OwnerInv, ThreadTypes
<1>5. ASSUME at[Main] = "join", joinOn[Main] = t
      PROVE  "WAIT_JOIN" \notin flags'[Main]
  <2>1. "DETACHED" \notin flags[t] /\ "DELETED" \notin flags[t] /\ joinData[t] = Main
    BY <1>1, <1>5 DEF OwnerInv, OnlyTheEnded, OwnerJoins, Waited
  <2>2. QED BY <1>1, <1>2, <1>4, <2>1, KernelAssumption, JoinerWokenValue
<1>6. \A u \in Blocks : at'[u] \in {"join", "reap"} => u = Main
  BY <1>1 DEF OwnerInv, ThreadTypes, OwnerJoins
<1>7. at'[Main] = "join" => Waited(joinOn[Main])'
  BY <1>1, <1>3, <1>4 DEF OwnerInv, ThreadTypes, OwnerJoins, Waited
<1>8. \A u \in Blocks : "WAIT_JOIN" \in flags'[u] =>
          u = Main /\ at'[Main] = "join" /\ "DELETED" \notin flags'[joinOn'[Main]]
  BY <1>1, <1>3, <1>4, <1>5 DEF OwnerInv, OwnerJoins, Waited
<1>9. QED BY <1>1, <1>6, <1>7, <1>8 DEF OwnerJoins

\* Main is in the program, so nobody waits in join.
LEMMA NobodyWaits ==
    ASSUME OwnerInv, at[Main] # "join"
    PROVE  \A t \in Blocks : "WAIT_JOIN" \notin flags[t]
BY DEF OwnerInv, OwnerJoins

LEMMA DetachOwner ==
    ASSUME OwnerInv, NEW b \in Blocks, Detach(Main, b)
    PROVE  OwnerJoins'
<1> DEFINE detached == [flags EXCEPT ![b] = @ \cup {"DETACHED"}]
<1>1. /\ at[Main] = "run" /\ at' = at
      /\ flags' = IF "DELETED" \in flags[b] THEN detached ELSE JoinerWoken(detached, b)
  BY DEF Detach, Runs
<1>2. /\ detached \in [Blocks -> SUBSET (NotReady \cup {"DETACHED"})]
      /\ \A c \in Blocks : "WAIT_JOIN" \notin detached[c]
  BY <1>1, NobodyWaits DEF OwnerInv, ThreadTypes, NotReady
<1> HIDE DEF detached
<1>3. \A c \in Blocks : "WAIT_JOIN" \notin flags'[c]
  BY <1>1, <1>2, JoinerWokenValue
<1>4. QED BY <1>1, <1>3 DEF OwnerInv, OwnerJoins

LEMMA JoinOwner ==
    ASSUME OwnerInv, NEW b \in Blocks, Join(Main, b)
    PROVE  OwnerJoins'
<1>1. /\ at[Main] = "run" /\ Main # b /\ at[b] # "free" /\ "DETACHED" \notin flags[b]
      /\ Main \in Blocks
  BY KernelAssumption DEF Join, MayBlock, Runs, Exists
<1>2. \A t \in Blocks : "WAIT_JOIN" \notin flags[t]
  BY <1>1, NobodyWaits
<1>3. CASE "DELETED" \in flags[b]
  <2>1. flags' = [flags EXCEPT ![b] = @ \cup {"DETACHED"}] /\ at' = [at EXCEPT ![Main] = "reap"]
    BY <1>3 DEF Join
  <2>2. QED BY <1>1, <1>2, <2>1 DEF OwnerInv, ThreadTypes, OwnerJoins
<1>4. CASE "DELETED" \notin flags[b]
  <2>1. /\ joinData' = [joinData EXCEPT ![b] = Main]
        /\ joinOn' = [joinOn EXCEPT ![Main] = b] /\ at' = [at EXCEPT ![Main] = "join"]
        /\ flags' = [flags EXCEPT ![Main] = @ \cup {"WAIT_JOIN"}]
    BY <1>4 DEF Join
  <2>2. /\ joinOn'[Main] = b /\ joinData'[b] = Main /\ flags'[b] = flags[b] /\ at'[b] = at[b]
        /\ at'[Main] = "join"
    BY <1>1, <2>1 DEF OwnerInv, ThreadTypes
  <2>3. \A t \in Blocks : /\ "WAIT_JOIN" \in flags'[t] => t = Main
                          /\ at'[t] \in {"join", "reap"} => t = Main
    BY <1>2, <2>1 DEF OwnerInv, ThreadTypes, OwnerJoins
  <2>4. QED BY <1>1, <1>4, <2>2, <2>3 DEF OwnerJoins, Waited
<1>5. QED BY <1>3, <1>4

LEMMA JoinResumeOwner ==
    ASSUME OwnerInv, NEW t \in Blocks, JoinResume(t)
    PROVE  OwnerJoins'
<1> DEFINE b == joinOn[Main]
<1>1. t = Main /\ at[Main] = "join" /\ joinData' = joinData
  BY DEF JoinResume, OwnerInv, OwnerJoins
<1>2. b \in Blocks /\ at[b] # "free" /\ "DETACHED" \notin flags[b] /\ Exists(b)
      /\ ("DELETED" \notin flags[b] => joinData[b] = Main)
  BY <1>1 DEF OwnerInv, OwnerJoins, Waited, Exists, IsDeleted
<1>3. CASE /\ "DELETED" \in flags[b]
           /\ at' = [at EXCEPT ![Main] = "reap"]
           /\ flags' = [flags EXCEPT ![b] = @ \cup {"DETACHED"}]
  <2>1. \A u \in Blocks : "WAIT_JOIN" \notin flags[u]
    BY <1>3 DEF OwnerInv, OwnerJoins
  <2>2. \A u \in Blocks : "WAIT_JOIN" \notin flags'[u]
    BY <1>3, <2>1 DEF OwnerInv, ThreadTypes
  <2>3. at'[Main] = "reap" /\ \A u \in Blocks : at'[u] \in {"join", "reap"} => u = Main
    BY <1>3, KernelAssumption DEF OwnerInv, ThreadTypes, OwnerJoins
  <2>4. QED BY <2>2, <2>3 DEF OwnerJoins
<1>4. CASE /\ "DELETED" \notin flags[b]
           /\ flags' = [flags EXCEPT ![Main] = @ \cup {"WAIT_JOIN"}]
           /\ at' = at /\ joinOn' = joinOn
  <2>1. \A c \in Blocks : /\ "DELETED" \in flags'[c] <=> "DELETED" \in flags[c]
                          /\ "DETACHED" \in flags'[c] <=> "DETACHED" \in flags[c]
                          /\ "WAIT_JOIN" \in flags'[c] => c = Main
    BY <1>4 DEF OwnerInv, ThreadTypes, OwnerJoins
  <2>2. QED BY <1>1, <1>2, <1>4, <2>1 DEF OwnerInv, OwnerJoins, Waited
<1>5. QED BY <1>1, <1>2, <1>3, <1>4 DEF JoinResume

LEMMA RemoveOwner ==
    ASSUME OwnerInv, RemoveDeadThreads, cur = Idle \/ (cur \in Blocks /\ at[cur] = "reap"),
           UNCHANGED <<joinData, joinOn>>
    PROVE  OwnerJoins'
<1> DEFINE Dead(b) == at[b] # "free" /\ IsDeleted(flags[b])
<1>1. /\ flags' = [b \in Blocks |-> IF Dead(b) THEN {} ELSE flags[b]]
      /\ at' = [b \in Blocks |-> IF Dead(b) THEN "free"
                                 ELSE IF b = cur THEN "run" ELSE at[b]]
  BY DEF RemoveDeadThreads
<1>2. Main \in Blocks /\ \A b \in Blocks : b = cur => at[b] = "reap"
  BY KernelAssumption
<1>3. \A b \in Blocks : at'[b] \in {"join", "reap"} => at'[b] = at[b] /\ b = Main
  BY <1>1, <1>2 DEF OwnerInv, OwnerJoins
<1>4. at[Main] = "join" => at'[Main] = "join"
  BY <1>1, <1>2 DEF OwnerInv, OnlyTheEnded, IsDeleted
<1>5. at[Main] = "join" =>
        LET b == joinOn[Main]
        IN  b \in Blocks /\ b # cur /\ flags'[b] = flags[b] /\ at'[b] = at[b]
  <2> SUFFICES ASSUME at[Main] = "join"
               PROVE  LET b == joinOn[Main]
                      IN  b \in Blocks /\ b # cur /\ flags'[b] = flags[b] /\ at'[b] = at[b]
    OBVIOUS
  <2>1. joinOn[Main] \in Blocks /\ "DETACHED" \notin flags[joinOn[Main]]
    BY DEF OwnerInv, OwnerJoins, Waited
  <2>2. joinOn[Main] # cur
    BY <1>2, <2>1 DEF OwnerInv, OwnerJoins
  <2>3. QED BY <1>1, <2>1, <2>2 DEF IsDeleted
<1>6. at'[Main] = "join" => Waited(joinOn[Main])'
  <2>1. at'[Main] = "join" => at[Main] = "join"
    BY <1>2, <1>3
  <2>2. QED BY <1>5, <2>1 DEF OwnerInv, OwnerJoins, Waited
<1>7. \A t \in Blocks : "WAIT_JOIN" \in flags'[t] =>
          t = Main /\ at'[Main] = "join" /\ "DELETED" \notin flags'[joinOn'[Main]]
  <2>1. \A t \in Blocks : "WAIT_JOIN" \in flags'[t] => "WAIT_JOIN" \in flags[t]
    BY <1>1
  <2>2. QED BY <1>4, <1>5, <2>1 DEF OwnerInv, OwnerJoins
<1>8. QED BY <1>3, <1>6, <1>7 DEF OwnerJoins

\* As any program, and with one owner.
LEMMA OwnerIsAny == [OwnerNext]_vars => [Next]_vars
BY KernelAssumption DEF OwnerNext, Next, Common, Waiting, Joining

LEMMA OwnerInit == Init => OwnerJoins
<1> SUFFICES ASSUME Init PROVE OwnerJoins
  OBVIOUS
<1>1. \A b \in Blocks : at[b] \notin {"join", "reap"} /\ "WAIT_JOIN" \notin flags[b]
  BY DEF Init
<1>2. Main \in Blocks
  BY KernelAssumption
<1>3. QED BY <1>1, <1>2 DEF OwnerJoins

LEMMA OwnerStep == Inv /\ OwnerJoins /\ [OwnerNext]_vars => OwnerJoins'
<1> SUFFICES ASSUME Inv, OwnerJoins, [OwnerNext]_vars PROVE OwnerJoins'
  OBVIOUS
<1>1. OwnerInv
  BY DEF Inv, OwnerInv
<1>2. CASE Bystanders
  BY <1>1, <1>2, BystandersStand, BystanderOwner DEF OwnerInv
<1>3. ASSUME NEW t \in Blocks, Reap(t) PROVE OwnerJoins'
  BY <1>1, <1>3, RemoveOwner DEF Reap
<1>4. CASE IdleThread
  BY <1>1, <1>4, RemoveOwner DEF IdleThread
<1>5. ASSUME NEW b \in Blocks, Join(Main, b) \/ Detach(Main, b) PROVE OwnerJoins'
  BY <1>1, <1>5, JoinOwner, DetachOwner
<1>6. ASSUME NEW t \in Blocks, Exit(t) \/ JoinResume(t) PROVE OwnerJoins'
  BY <1>1, <1>6, ExitOwner, JoinResumeOwner
<1>7. ASSUME NEW b \in Blocks, NEW pr \in Priorities, NEW o \in Options, Create(Main, b, pr, o)
      PROVE  OwnerJoins'
  BY <1>1, <1>7, CreateOwner
<1>8. QED
  BY <1>2, <1>3, <1>4, <1>5, <1>6, <1>7
     DEF OwnerNext, Joining, Bystanders, Waiting

\* Where one thread creates, joins and detaches all others, whoever sleeps in
\* join is known to the thread it waits for until that one ends, and is awake
\* from then on: "instead of deadlocking", as detach says.
THEOREM OwnerIsWoken == OwnerSpec => []JoinersAreWoken
<1>1. Inv /\ OwnerJoins => JoinersAreWoken
  <2> SUFFICES ASSUME Inv, OwnerJoins, NEW t \in Blocks, "WAIT_JOIN" \in flags[t]
               PROVE  /\ Exists(joinOn[t])
                      /\ flags[joinOn[t]] \cap {"DETACHED", "DELETED"} = {}
                      /\ joinData[joinOn[t]] = t
    BY DEF JoinersAreWoken
  <2>1. t = Main /\ Waited(joinOn[t]) /\ "DELETED" \notin flags[joinOn[t]]
    BY DEF OwnerJoins
  <2>2. QED BY <2>1 DEF Waited, Exists, IsDeleted
<1>2. Inv /\ OwnerJoins /\ [OwnerNext]_vars => (Inv /\ OwnerJoins)'
  BY InvStep, OwnerStep, OwnerIsAny
<1>3. Init => Inv /\ OwnerJoins
  BY InvInit, OwnerInit
<1>4. QED BY <1>1, <1>2, <1>3, PTL DEF OwnerSpec

-----------------------------------------------------------------------------
(* Lists.                                                                  *)

Distinct(s)  == \A i, j \in DOMAIN s : s[i] = s[j] => i = j
Occurs(s, x) == \E i \in DOMAIN s : s[i] = x

\* A set of naturals has a least element.
LEMMA LeastIn ==
    ASSUME NEW S, S \subseteq Nat, S # {}
    PROVE  \E x \in S : \A y \in S : x <= y
<1> DEFINE R == {ss \in Nat \X Nat : ss[1] < ss[2]}
<1>1. IsWellFoundedOn(R, Nat)
  BY NatLessThanWellFounded DEF OpToRel
<1>2. PICK x \in S : \A y \in S : ~(<<y, x>> \in R)
  <2> HIDE DEF R
  <2> QED BY <1>1, WFMin
<1>3. ASSUME NEW y \in S PROVE x <= y
  <2>1. <<y, x>> \in Nat \X Nat /\ ~(y < x)
    BY <1>2
  <2>2. QED BY <2>1
<1>4. QED BY <1>3

\* A set of numbers up to n is finite.
LEMMA FiniteUpTo ==
    ASSUME NEW n \in Nat, NEW K \in SUBSET (1 .. n)
    PROVE  IsFiniteSet(K) /\ Cardinality(K) \in Nat
<1>1. 1 \in Int /\ n \in Int
  OBVIOUS
<1>2. IsFiniteSet(1 .. n)
  BY <1>1, FS_Interval
<1>3. QED BY <1>2, FS_Subset, FS_CardinalityType

\* The elements of a set of numbers up to n, counted from the least on.
LEMMA Counted ==
    ASSUME NEW n \in Nat, NEW K \in SUBSET (1 .. n), NEW i \in 1 .. Cardinality(K)
    PROVE  \E k \in K : Cardinality({l \in K : l < k}) = i - 1
<1> DEFINE Upto(j) == {l \in K : l <= j}
           J == {j \in Nat : Cardinality(Upto(j)) >= i}
<1>1. IsFiniteSet(K) /\ Cardinality(K) \in Nat
  BY FiniteUpTo
<1>2. \A j \in Nat : IsFiniteSet(Upto(j)) /\ Cardinality(Upto(j)) \in Nat
  BY <1>1, FS_Subset, FS_CardinalityType
<1>3. Upto(n) = K /\ Upto(0) = {}
  <2>1. \A l \in K : l \in Nat /\ 1 <= l /\ l <= n
    OBVIOUS
  <2>2. Upto(n) = K
    BY <2>1
  <2>3. \A l \in K : ~(l <= 0)
    BY <2>1
  <2>4. QED BY <2>2, <2>3
<1>4. n \in J
  BY <1>1, <1>3
<1>5. PICK j \in J : \A k \in J : j <= k
  <2>1. J \subseteq Nat
    OBVIOUS
  <2> HIDE DEF J
  <2>2. QED BY <1>4, <2>1, LeastIn
<1>6. j # 0
  BY <1>3, <1>5, FS_EmptySet
<1>7. j \in Nat /\ j - 1 \in Nat /\ j - 1 \notin J
  <2>1. j \in Nat
    BY <1>5
  <2>2. j - 1 \in Nat /\ ~(j <= j - 1)
    BY <1>6, <2>1
  <2> HIDE DEF J
  <2>3. QED BY <1>5, <2>1, <2>2
<1>8. Cardinality(Upto(j - 1)) < i
  <2>1. ~(Cardinality(Upto(j - 1)) >= i) /\ Cardinality(Upto(j - 1)) \in Nat
    BY <1>2, <1>7
  <2> HIDE DEF Upto
  <2>2. QED BY <2>1
<1>9. Upto(j) = IF j \in K THEN Upto(j - 1) \cup {j} ELSE Upto(j - 1)
  <2>1. \A l \in K : l <= j <=> l <= j - 1 \/ l = j
    BY <1>7
  <2>2. QED BY <2>1
<1>10. j \notin Upto(j - 1)
  OBVIOUS
<1>11. Cardinality(Upto(j)) =
          IF j \in K THEN Cardinality(Upto(j - 1)) + 1 ELSE Cardinality(Upto(j - 1))
  <2> HIDE DEF Upto
  <2> QED BY <1>2, <1>7, <1>9, <1>10, FS_AddElement
<1>12. j \in K /\ Cardinality(Upto(j - 1)) = i - 1
  <2>1. Cardinality(Upto(j)) >= i
    BY <1>5
  <2>2. Cardinality(Upto(j - 1)) \in Nat
    BY <1>2, <1>7
  <2> HIDE DEF Upto
  <2>3. QED BY <1>8, <1>11, <2>1, <2>2
<1>13. {l \in K : l < j} = Upto(j - 1)
  <2>1. \A l \in K : l < j <=> l <= j - 1
    BY <1>7
  <2>2. QED BY <2>1
<1>14. QED BY <1>12, <1>13

\* Two of them are counted differently, and none beyond their number.
LEMMA CountedOnce ==
    ASSUME NEW n \in Nat, NEW K \in SUBSET (1 .. n), NEW k \in K
    PROVE  /\ Cardinality({l \in K : l < k}) + 1 \in 1 .. Cardinality(K)
           /\ \A m \in K : Cardinality({l \in K : l < k}) = Cardinality({l \in K : l < m})
                           => k = m
<1> DEFINE Below(j) == {l \in K : l < j}
<1>1. IsFiniteSet(K) /\ Cardinality(K) \in Nat
  BY FiniteUpTo
<1>2. \A j \in K : IsFiniteSet(Below(j)) /\ Cardinality(Below(j)) \in Nat
  BY <1>1, FS_Subset, FS_CardinalityType
<1>3. ASSUME NEW T \in SUBSET K, NEW j \in K, Below(j) \cup {j} \subseteq T
      PROVE  Cardinality(Below(j)) + 1 <= Cardinality(T)
  <2>1. Cardinality(Below(j) \cup {j}) = Cardinality(Below(j)) + 1
    <3>1. j \notin Below(j)
      OBVIOUS
    <3> HIDE DEF Below
    <3>2. QED BY <1>2, <3>1, FS_AddElement
  <2>2. IsFiniteSet(T)
    BY <1>1, FS_Subset
  <2> HIDE DEF Below
  <2>3. QED BY <1>3, <2>1, <2>2, FS_Subset
<1>4. Cardinality(Below(k)) + 1 <= Cardinality(K)
  BY <1>3
<1>5. ASSUME NEW m \in K, NEW j \in K, j < m
      PROVE  Cardinality(Below(j)) # Cardinality(Below(m))
  <2>1. Below(j) \cup {j} \subseteq Below(m)
    <3>1. j \in Nat /\ m \in Nat /\ \A l \in K : l \in Nat
      OBVIOUS
    <3>2. \A l \in K : l < j => l < m
      BY <1>5, <3>1
    <3>3. QED BY <1>5, <3>2
  <2>2. Below(m) \in SUBSET K
    OBVIOUS
  <2> HIDE DEF Below
  <2>3. Cardinality(Below(j)) + 1 <= Cardinality(Below(m))
    BY <1>3, <2>1, <2>2
  <2>4. QED BY <1>2, <2>3
<1>6. ASSUME NEW m \in K, Cardinality(Below(k)) = Cardinality(Below(m)) PROVE k = m
  <2> HIDE DEF Below
  <2>1. ~(k < m) /\ ~(m < k)
    BY <1>5, <1>6
  <2>2. k \in Nat /\ m \in Nat
    OBVIOUS
  <2>3. QED BY <2>1, <2>2
<1>7. Cardinality(Below(k)) + 1 \in 1 .. Cardinality(K)
  BY <1>1, <1>2, <1>4
<1>8. QED BY <1>6, <1>7

\* Without keeps what is not to go, each once.
LEMMA WithoutKeeps ==
    ASSUME NEW B, NEW s \in Seq(B), NEW S
    PROVE  /\ Without(s, S) \in Seq(B)
           /\ \A x : Occurs(Without(s, S), x) <=> Occurs(s, x) /\ x \notin S
           /\ Distinct(s) => Distinct(Without(s, S))
<1> DEFINE stay      == {k \in DOMAIN s : s[k] \notin S}
           Before(k) == Cardinality({l \in stay : l < k})
           w         == Without(s, S)
           c(i)      == CHOOSE k \in stay : Before(k) = i - 1
<1>1. Len(s) \in Nat /\ DOMAIN s = 1 .. Len(s) /\ stay \in SUBSET (1 .. Len(s))
  OBVIOUS
<1>2. Cardinality(stay) \in Nat
  BY <1>1, FiniteUpTo
<1>3. w = [i \in 1 .. Cardinality(stay) |-> s[c(i)]]
  BY DEF Without
<1>4. ASSUME NEW i \in 1 .. Cardinality(stay)
      PROVE  c(i) \in stay /\ Before(c(i)) = i - 1
  <2> HIDE DEF stay
  <2>1. \E k \in stay : Before(k) = i - 1
    BY <1>1, Counted
  <2> HIDE DEF Before
  <2>2. QED BY <2>1
<1>5. \A k \in stay : s[k] \in B /\ s[k] \notin S /\ k \in DOMAIN s
  OBVIOUS
<1>6. w \in Seq(B)
  <2> HIDE DEF stay, c, w, Before
  <2>1. \A i \in 1 .. Cardinality(stay) : s[c(i)] \in B
    BY <1>4, <1>5
  <2>2. [i \in 1 .. Cardinality(stay) |-> s[c(i)]] \in [1 .. Cardinality(stay) -> B]
    BY <2>1
  <2>3. QED BY <1>2, <1>3, <2>2
<1>7. DOMAIN w = 1 .. Cardinality(stay)
  <2> HIDE DEF stay, c, w
  <2> QED BY <1>3
<1>8. ASSUME NEW k \in stay
      PROVE  /\ Before(k) + 1 \in 1 .. Cardinality(stay)
             /\ \A m \in stay : Before(k) = Before(m) => k = m
  <2> HIDE DEF stay
  <2> QED BY <1>1, CountedOnce
<1> HIDE DEF w, c, Before
<1>9. ASSUME NEW x PROVE Occurs(w, x) <=> Occurs(s, x) /\ x \notin S
  <2>1. ASSUME Occurs(w, x) PROVE Occurs(s, x) /\ x \notin S
    <3>1. PICK i \in DOMAIN w : w[i] = x
      BY <2>1 DEF Occurs
    <3>2. c(i) \in stay /\ x = s[c(i)]
      BY <1>3, <1>4, <1>7, <3>1
    <3>3. QED BY <1>5, <3>2 DEF Occurs
  <2>2. ASSUME Occurs(s, x), x \notin S PROVE Occurs(w, x)
    <3>1. PICK k \in DOMAIN s : s[k] = x
      BY <2>2 DEF Occurs
    <3>2. k \in stay
      BY <2>2, <3>1
    <3> DEFINE i == Before(k) + 1
    <3>3. i \in 1 .. Cardinality(stay) /\ i - 1 = Before(k)
      <4> HIDE DEF stay
      <4>1. i \in 1 .. Cardinality(stay)
        BY <1>8, <3>2
      <4>2. Before(k) \in Int
        <5>1. {l \in stay : l < k} \in SUBSET (1 .. Len(s))
          BY <1>1
        <5>2. Len(s) \in Nat
          OBVIOUS
        <5>3. Cardinality({l \in stay : l < k}) \in Nat
          BY <5>1, <5>2, FiniteUpTo
        <5>4. QED BY <5>3 DEF Before
      <4>3. QED BY <4>1, <4>2
    <3> HIDE DEF i, stay
    <3>4. c(i) \in stay /\ Before(c(i)) = Before(k)
      BY <1>4, <3>3
    <3>5. c(i) = k
      BY <1>8, <3>2, <3>4
    <3>6. w[i] = x /\ i \in DOMAIN w
      BY <1>3, <1>7, <3>1, <3>3, <3>5
    <3>7. QED BY <3>6 DEF Occurs
  <2>3. QED BY <2>1, <2>2
<1>10. ASSUME Distinct(s) PROVE Distinct(w)
  <2> SUFFICES ASSUME NEW i \in DOMAIN w, NEW j \in DOMAIN w, w[i] = w[j] PROVE i = j
    BY DEF Distinct
  <2>1. /\ c(i) \in stay /\ Before(c(i)) = i - 1 /\ w[i] = s[c(i)]
        /\ c(j) \in stay /\ Before(c(j)) = j - 1 /\ w[j] = s[c(j)]
    BY <1>3, <1>4, <1>7
  <2>2. c(i) = c(j)
    BY <1>5, <1>10, <2>1 DEF Distinct
  <2>3. i - 1 = j - 1
    BY <2>1, <2>2
  <2>4. i \in Int /\ j \in Int
    BY <1>7
  <2>5. QED BY <2>3, <2>4
<1>11. QED BY <1>6, <1>9, <1>10 DEF w

LEMMA InsertedKeeps ==
    ASSUME NEW B, NEW s \in Seq(B), NEW t \in B
    PROVE  /\ Inserted(s, t) \in Seq(B)
           /\ \A x : Occurs(Inserted(s, t), x) <=> Occurs(s, x) \/ x = t
           /\ Distinct(s) /\ ~Occurs(s, t) => Distinct(Inserted(s, t))
<1> DEFINE r == Inserted(s, t)
<1>1. CASE s = <<>>
  <2>1. r = <<t>>
    BY <1>1 DEF Inserted
  <2>2. r \in Seq(B) /\ DOMAIN r = {1} /\ r[1] = t /\ DOMAIN s = {}
    <3>1. <<t>> \in Seq(B) /\ Len(<<t>>) = 1 /\ <<t>>[1] = t
      OBVIOUS
    <3>2. DOMAIN <<t>> = 1 .. 1 /\ 1 .. 1 = {1} /\ 1 .. 0 = {}
      BY <3>1
    <3>3. DOMAIN s = 1 .. 0
      BY <1>1
    <3>4. DOMAIN r = {1}
      BY <2>1, <3>1, <3>2
    <3>5. QED BY <2>1, <3>1, <3>2, <3>3, <3>4
  <2> HIDE DEF r
  <2>3. QED BY <2>2 DEF Occurs, Distinct, r
<1>2. CASE s # <<>>
  <2>1. r = <<Head(s), t>> \o Tail(s)
    BY <1>2 DEF Inserted
  <2>2. /\ Head(s) = s[1] /\ s[1] \in B /\ Tail(s) \in Seq(B)
        /\ Len(s) \in Nat \ {0} /\ Len(Tail(s)) = Len(s) - 1
        /\ \A i \in 1 .. Len(s) - 1 : Tail(s)[i] = s[i + 1]
    BY <1>2, HeadTailProperties
  <2>3. <<s[1], t>> \in Seq(B) /\ Len(<<s[1], t>>) = 2
    BY <2>2
  <2>4. r \in Seq(B) /\ Len(r) = Len(s) + 1
    BY <2>1, <2>2, <2>3, ConcatProperties
  <2>5. \A i \in 1 .. Len(s) + 1 :
            r[i] = IF i = 1 THEN s[1] ELSE IF i = 2 THEN t ELSE s[i - 1]
    <3> SUFFICES ASSUME NEW i \in 1 .. Len(s) + 1
                 PROVE  r[i] = IF i = 1 THEN s[1] ELSE IF i = 2 THEN t ELSE s[i - 1]
      OBVIOUS
    <3>1. r[i] = IF i <= 2 THEN <<s[1], t>>[i] ELSE Tail(s)[i - 2]
      BY <2>1, <2>2, <2>3
    <3>2. CASE i <= 2
      BY <3>1, <3>2
    <3>3. CASE i > 2
      <4>1. i - 2 \in 1 .. Len(s) - 1 /\ i - 2 + 1 = i - 1
        BY <2>2, <3>3
      <4>2. Tail(s)[i - 2] = s[i - 1]
        BY <2>2, <4>1
      <4>3. QED BY <3>1, <3>3, <4>2
    <3>4. QED BY <2>2, <3>2, <3>3
  <2>6. DOMAIN r = 1 .. Len(s) + 1 /\ DOMAIN s = 1 .. Len(s)
    BY <2>4
  <2> HIDE DEF r
  <2>7. ASSUME NEW x PROVE Occurs(r, x) <=> Occurs(s, x) \/ x = t
    <3>1. ASSUME Occurs(s, x) PROVE Occurs(r, x)
      <4>1. PICK i \in 1 .. Len(s) : s[i] = x
        BY <2>6, <3>1 DEF Occurs
      <4>2. CASE i = 1
        <5>1. 1 \in DOMAIN r /\ r[1] = x
          BY <2>2, <2>5, <2>6, <4>1, <4>2
        <5>2. QED BY <5>1 DEF Occurs
      <4>3. CASE i # 1
        <5>1. i + 1 \in DOMAIN r /\ r[i + 1] = s[i + 1 - 1] /\ i + 1 - 1 = i
          BY <2>2, <2>5, <2>6, <4>1, <4>3
        <5>2. QED BY <4>1, <5>1 DEF Occurs
      <4>4. QED BY <4>2, <4>3
    <3>2. Occurs(r, t)
      <4>1. 2 \in DOMAIN r /\ r[2] = t
        BY <2>2, <2>5, <2>6
      <4>2. QED BY <4>1 DEF Occurs
    <3>3. ASSUME Occurs(r, x), x # t PROVE Occurs(s, x)
      <4>1. PICK i \in 1 .. Len(s) + 1 : r[i] = x
        BY <2>6, <3>3 DEF Occurs
      <4>2. \E j \in 1 .. Len(s) : s[j] = x
        <5>1. CASE i = 1
          BY <2>2, <2>5, <4>1, <5>1
        <5>2. CASE i # 1
          <6>1. i # 2 /\ i - 1 \in 1 .. Len(s)
            BY <2>2, <2>5, <3>3, <4>1, <5>2
          <6>2. QED BY <2>5, <4>1, <5>2, <6>1
        <5>3. QED BY <5>1, <5>2
      <4>3. QED BY <2>6, <4>2 DEF Occurs
    <3>4. QED BY <3>1, <3>2, <3>3
  <2>8. ASSUME Distinct(s), ~Occurs(s, t) PROVE Distinct(r)
    <3> DEFINE From(i) == IF i = 1 THEN 1 ELSE i - 1
    <3>1. \A i \in 1 .. Len(s) + 1 : i # 2 => From(i) \in 1 .. Len(s) /\ r[i] = s[From(i)]
      BY <2>2, <2>5
    <3>2. \A i \in 1 .. Len(s) : s[i] # t
      BY <2>6, <2>8 DEF Occurs
    <3>3. \A i \in 1 .. Len(s) + 1 : r[i] = t <=> i = 2
      <4>1. r[2] = t
        BY <2>2, <2>5
      <4> HIDE DEF From
      <4>2. QED BY <3>1, <3>2, <4>1
    <3>4. ASSUME NEW i \in 1 .. Len(s) + 1, NEW j \in 1 .. Len(s) + 1, r[i] = r[j]
          PROVE  i = j
      <4>1. CASE i = 2 \/ j = 2
        BY <3>3, <3>4, <4>1
      <4>2. CASE i # 2 /\ j # 2
        <5>1. From(i) = From(j)
          <6> HIDE DEF From
          <6> QED BY <2>6, <2>8, <3>1, <3>4, <4>2 DEF Distinct
        <5>2. QED BY <4>2, <5>1
      <4>3. QED BY <4>1, <4>2
    <3>5. QED BY <2>6, <3>4 DEF Distinct
  <2>9. QED BY <2>4, <2>7, <2>8 DEF r
<1>3. QED BY <1>1, <1>2

LEMMA RotatedKeeps ==
    ASSUME NEW B, NEW s \in Seq(B), NEW k \in DOMAIN s
    PROVE  /\ Rotated(s, k) \in Seq(B)
           /\ \A x : Occurs(Rotated(s, k), x) <=> Occurs(s, x)
           /\ Distinct(s) => Distinct(Rotated(s, k))
<1> DEFINE r == Rotated(s, k)
           n == Len(s)
           At(i) == IF i <= n - k + 1 THEN k + i - 1 ELSE i - (n - k + 1)
<1>1. n \in Nat /\ k \in 1 .. n /\ DOMAIN s = 1 .. n
  OBVIOUS
<1>2. /\ SubSeq(s, k, n) \in Seq(B) /\ Len(SubSeq(s, k, n)) = n - k + 1
      /\ \A i \in 1 .. n - k + 1 : SubSeq(s, k, n)[i] = s[k + i - 1]
  <2>1. \A i \in k .. n : s[i] \in B
    BY <1>1
  <2>2. QED BY <1>1, <2>1
<1>3. /\ SubSeq(s, 1, k - 1) \in Seq(B) /\ Len(SubSeq(s, 1, k - 1)) = k - 1
      /\ \A i \in 1 .. k - 1 : SubSeq(s, 1, k - 1)[i] = s[i]
  BY <1>1
<1>4. r \in Seq(B) /\ Len(r) = n
  BY <1>1, <1>2, <1>3, ConcatProperties DEF Rotated
<1>5. \A i \in 1 .. n : At(i) \in 1 .. n /\ r[i] = s[At(i)]
  <2> SUFFICES ASSUME NEW i \in 1 .. n PROVE At(i) \in 1 .. n /\ r[i] = s[At(i)]
    OBVIOUS
  <2>1. r[i] = IF i <= n - k + 1 THEN SubSeq(s, k, n)[i]
               ELSE SubSeq(s, 1, k - 1)[i - (n - k + 1)]
    BY <1>1, <1>2, <1>3, ConcatProperties DEF Rotated
  <2>2. CASE i <= n - k + 1
    BY <1>1, <1>2, <2>1, <2>2
  <2>3. CASE i > n - k + 1
    <3>1. i - (n - k + 1) \in 1 .. k - 1
      BY <1>1, <2>3
    <3>2. SubSeq(s, 1, k - 1)[i - (n - k + 1)] = s[i - (n - k + 1)]
      BY <1>3, <3>1
    <3>3. QED BY <1>1, <2>1, <2>3, <3>1, <3>2
  <2>4. QED BY <1>1, <2>2, <2>3
<1>6. \A j \in 1 .. n : \E i \in 1 .. n : At(i) = j
  <2> SUFFICES ASSUME NEW j \in 1 .. n PROVE \E i \in 1 .. n : At(i) = j
    OBVIOUS
  <2>1. CASE j >= k
    <3>1. j - k + 1 \in 1 .. n /\ At(j - k + 1) = j
      BY <1>1, <2>1
    <3>2. QED BY <3>1
  <2>2. CASE j < k
    <3>1. j + (n - k + 1) \in 1 .. n /\ At(j + (n - k + 1)) = j
      BY <1>1, <2>2
    <3>2. QED BY <3>1
  <2>3. QED BY <1>1, <2>1, <2>2
<1>7. \A i, j \in 1 .. n : At(i) = At(j) => i = j
  BY <1>1
<1>8. DOMAIN r = 1 .. n
  BY <1>4
<1> HIDE DEF r, n, At
<1>9. \A x : Occurs(r, x) <=> Occurs(s, x)
  BY <1>1, <1>5, <1>6, <1>8 DEF Occurs
<1>10. Distinct(s) => Distinct(r)
  BY <1>1, <1>5, <1>7, <1>8 DEF Distinct
<1>11. QED BY <1>4, <1>9, <1>10 DEF r

-----------------------------------------------------------------------------
(* Who is in which list, who runs, and who sleeps.                         *)

ScheduleTypes ==
    /\ thread_list \in [Priorities -> Seq(Blocks)]
    /\ cur \in Blocks \cup {Idle}
    /\ kernel_running \in 0 .. MaxPause
    /\ tick_skew \in BOOLEAN
    /\ sleeping_list \in Seq([p : Blocks, left : Int])
    /\ priority \in [Blocks -> Priorities]

Lists ==
    /\ \A p \in Priorities : Distinct(thread_list[p])
    /\ \A p \in Priorities, b \in Blocks :
          Occurs(thread_list[p], b) <=> at[b] # "free" /\ priority[b] = p

\* The thread that runs could be chosen again; and while the kernel is
\* paused, the one that paused it runs.
Runner ==
    /\ cur # Idle => Ready(flags[cur]) /\ at[cur] \notin {"free", "ended"}
    /\ kernel_running # 0 => cur # Idle /\ at[cur] = "run"

\* Who is past the end of threadLauncher is deleted, who sleeps is in the
\* program.
Lives ==
    /\ \A b \in Blocks : at[b] = "ended" => "DELETED" \in flags[b]
    /\ \A b \in Blocks : "SLEEP" \in flags[b] => at[b] = "run"

\* Nobody is in the sleeping list twice.
SleepOnce == \A i, j \in DOMAIN sleeping_list : sleeping_list[i].p = sleeping_list[j].p => i = j

Schedule == ScheduleTypes /\ Lists /\ Runner /\ Lives /\ SleepOnce /\ SleepersOnTime

-----------------------------------------------------------------------------
(* The scheduler.                                                          *)

LEMMA HighestOf ==
    ASSUME NEW S, S \subseteq Priorities, S # {}
    PROVE  \E x \in S : \A y \in S : y <= x
<1> DEFINE T == {PriorityMax - p : p \in S}
<1>1. \A p \in S : p \in Nat /\ PriorityMax - p \in Nat
  BY KernelAssumption DEF Priorities
<1>2. T \subseteq Nat /\ T # {}
  BY <1>1
<1>3. PICK x \in T : \A y \in T : x <= y
  <2> HIDE DEF T
  <2> QED BY <1>2, LeastIn
<1>4. PICK p \in S : x = PriorityMax - p
  OBVIOUS
<1>5. ASSUME NEW q \in S PROVE q <= p
  <2>1. PriorityMax - p <= PriorityMax - q
    BY <1>3, <1>4
  <2>2. QED BY <1>1, <2>1, KernelAssumption
<1>6. QED BY <1>5

\* The next thread is chosen at a place of the list where a ready one is.
LEMMA TurnIsOne ==
    ASSUME NEW s \in Seq(Blocks), NEW fl, Turns(s, fl) # {}
    PROVE  Turn(s, fl) \in Turns(s, fl)
<1>1. CASE Turns(s, fl) \subseteq {1}
  BY <1>1 DEF Turn
<1>2. CASE ~(Turns(s, fl) \subseteq {1})
  <2> DEFINE T == Turns(s, fl) \ {1}
  <2>1. T \subseteq Nat /\ T # {}
    BY <1>2 DEF Turns
  <2>2. \E k \in T : \A l \in T : k <= l
    <3> HIDE DEF T
    <3> QED BY <2>1, LeastIn
  <2>3. QED BY <1>2, <2>2 DEF Turn
<1>3. QED BY <1>1, <1>2

\* IRQfindNextThread turns a list, and takes nothing from it.
LEMMA FindNextKeeps ==
    ASSUME NEW lists \in [Priorities -> Seq(Blocks)], NEW fl, FindNextThread(lists, fl)
    PROVE  /\ thread_list' \in [Priorities -> Seq(Blocks)]
           /\ \A p \in Priorities :
                 /\ Distinct(lists[p]) => Distinct(thread_list'[p])
                 /\ \A x : Occurs(thread_list'[p], x) <=> Occurs(lists[p], x)
           /\ kernel_running # 0 => cur' = cur
           /\ kernel_running = 0 =>
                 \/ cur' = Idle
                 \/ /\ cur' \in Blocks /\ Ready(fl[cur'])
                    /\ \E p \in Priorities : Occurs(lists[p], cur')
<1> DEFINE busy == {p \in Priorities : Turns(lists[p], fl) # {}}
           top  == CHOOSE p \in busy : \A q \in busy : q <= p
           k    == Turn(lists[top], fl)
<1>1. CASE kernel_running # 0
  BY <1>1 DEF FindNextThread
<1>2. CASE kernel_running = 0 /\ busy = {}
  <2>1. thread_list' = lists /\ cur' = Idle
    BY <1>2 DEF FindNextThread
  <2>2. QED BY <1>2, <2>1
<1>3. CASE kernel_running = 0 /\ busy # {}
  <2>1. cur' = lists[top][k] /\ thread_list' = [lists EXCEPT ![top] = Rotated(@, k)]
    BY <1>3 DEF FindNextThread
  <2>2. top \in busy
    <3>1. \E p \in busy : \A q \in busy : q <= p
      <4>1. busy \subseteq Priorities
        OBVIOUS
      <4> HIDE DEF busy
      <4>2. QED BY <1>3, <4>1, HighestOf
    <3> HIDE DEF busy
    <3>2. QED BY <3>1
  <2>3. top \in Priorities /\ lists[top] \in Seq(Blocks) /\ Turns(lists[top], fl) # {}
    BY <2>2
  <2> HIDE DEF top
  <2>4. k \in Turns(lists[top], fl)
    BY <2>3, TurnIsOne
  <2>5. k \in DOMAIN lists[top] /\ Ready(fl[lists[top][k]])
    BY <2>4 DEF Turns
  <2> HIDE DEF k
  <2>6. /\ Rotated(lists[top], k) \in Seq(Blocks)
        /\ \A x : Occurs(Rotated(lists[top], k), x) <=> Occurs(lists[top], x)
        /\ Distinct(lists[top]) => Distinct(Rotated(lists[top], k))
    BY <2>3, <2>5, RotatedKeeps
  <2>7. \A p \in Priorities : thread_list'[p] = IF p = top THEN Rotated(lists[top], k)
                                                ELSE lists[p]
    BY <2>1, <2>3
  <2>8. thread_list' \in [Priorities -> Seq(Blocks)]
    BY <2>1, <2>3, <2>6
  <2>9. \A p \in Priorities :
                 /\ Distinct(lists[p]) => Distinct(thread_list'[p])
                 /\ \A x : Occurs(thread_list'[p], x) <=> Occurs(lists[p], x)
    BY <2>6, <2>7
  <2>10. cur' \in Blocks /\ Ready(fl[cur']) /\ Occurs(lists[top], cur')
    BY <2>1, <2>3, <2>5 DEF Occurs
  <2>11. QED BY <1>3, <2>3, <2>8, <2>9, <2>10
<1>4. QED BY <1>1, <1>2, <1>3

\* A step of a thread that ends with the scheduler, or a tick.
LEMMA SwitchStep ==
    ASSUME ScheduleTypes, Lists, Lives', FindNextThread(thread_list, flags'),
           UNCHANGED <<priority, kernel_running>>,
           \A b \in Blocks : at'[b] = "free" <=> at[b] = "free",
           kernel_running # 0 =>
               cur \in Blocks /\ Ready(flags'[cur]) /\ at'[cur] = "run"
    PROVE  /\ thread_list' \in [Priorities -> Seq(Blocks)] /\ cur' \in Blocks \cup {Idle}
           /\ Lists' /\ Runner'
<1>1. /\ thread_list' \in [Priorities -> Seq(Blocks)]
      /\ \A p \in Priorities :
            /\ Distinct(thread_list[p]) => Distinct(thread_list'[p])
            /\ \A x : Occurs(thread_list'[p], x) <=> Occurs(thread_list[p], x)
      /\ kernel_running # 0 => cur' = cur
      /\ kernel_running = 0 =>
            \/ cur' = Idle
            \/ /\ cur' \in Blocks /\ Ready(flags'[cur'])
               /\ \E p \in Priorities : Occurs(thread_list[p], cur')
  BY FindNextKeeps DEF ScheduleTypes
<1>2. Lists'
  BY <1>1 DEF Lists
<1>3. CASE kernel_running # 0
  <2>0. cur' = cur /\ cur # Idle /\ kernel_running' = kernel_running
    BY <1>1, <1>3, KernelAssumption
  <2>1. Runner'
    BY <1>3, <2>0 DEF Runner
  <2>2. QED BY <1>1, <1>2, <1>3, <2>1 DEF ScheduleTypes
<1>4. CASE kernel_running = 0
  <2>1. ASSUME cur' # Idle PROVE Ready(flags'[cur']) /\ at'[cur'] \notin {"free", "ended"}
    <3>1. cur' \in Blocks /\ Ready(flags'[cur'])
      BY <1>1, <1>4, <2>1
    <3>2. at'[cur'] # "free"
      BY <1>1, <1>4, <2>1 DEF Lists
    <3>3. at'[cur'] # "ended"
      BY <3>1 DEF Lives, Ready, NotReady
    <3>4. QED BY <3>1, <3>2, <3>3
  <2>2. Runner'
    BY <1>4, <2>1 DEF Runner
  <2>3. QED BY <1>1, <1>2, <1>4, <2>2
<1>5. QED BY <1>3, <1>4

\* A step in which nobody else may run.
LEMMA StayStep ==
    ASSUME ScheduleTypes, Lists, Runner, UNCHANGED <<thread_list, cur, priority>>,
           \A b \in Blocks : at'[b] = "free" <=> at[b] = "free",
           cur # Idle => Ready(flags'[cur]) /\ at'[cur] \notin {"free", "ended"},
           kernel_running' # 0 => cur # Idle /\ at'[cur] = "run"
    PROVE  Lists' /\ Runner'
BY DEF Lists, Runner

\* The sleeping list, where no SLEEP flag changes.
LEMMA SleepersStay ==
    ASSUME SleepersOnTime, SleepOnce, UNCHANGED sleeping_list,
           \A b \in Blocks : "SLEEP" \in flags'[b] <=> "SLEEP" \in flags[b]
    PROVE  SleepersOnTime' /\ SleepOnce'
BY DEF SleepersOnTime, SleepOnce

-----------------------------------------------------------------------------
(* One lemma for each step.                                                *)

LEMMA ScheduleCreate ==
    ASSUME Inv, Schedule, NEW t \in Blocks, NEW b \in Blocks, NEW pr \in Priorities,
           NEW o \in Options, Create(t, b, pr, o)
    PROVE  Schedule'
<1>1. /\ cur = t /\ at[t] = "run" /\ at[b] = "free"
      /\ thread_list' = [thread_list EXCEPT ![pr] = Inserted(@, b)]
      /\ priority' = [priority EXCEPT ![b] = pr]
      /\ flags' = [flags EXCEPT ![b] = o]
      /\ at' = [at EXCEPT ![b] = "run"]
      /\ cur' = cur /\ kernel_running' = kernel_running /\ tick_skew' = tick_skew
      /\ sleeping_list' = sleeping_list
  BY DEF Create, Runs
<1>2. /\ \A p \in Priorities : thread_list[p] \in Seq(Blocks)
      /\ thread_list \in [Priorities -> Seq(Blocks)] /\ priority \in [Blocks -> Priorities]
  BY DEF Schedule, ScheduleTypes
<1>3. /\ \A c \in Blocks : at'[c] = IF c = b THEN "run" ELSE at[c]
      /\ \A c \in Blocks : flags'[c] = IF c = b THEN o ELSE flags[c]
      /\ \A c \in Blocks : priority'[c] = IF c = b THEN pr ELSE priority[c]
  BY <1>1, <1>2 DEF Inv, ThreadTypes
<1>4. /\ Inserted(thread_list[pr], b) \in Seq(Blocks)
      /\ \A x : Occurs(Inserted(thread_list[pr], b), x) <=> Occurs(thread_list[pr], x) \/ x = b
      /\ Distinct(thread_list[pr]) /\ ~Occurs(thread_list[pr], b)
            => Distinct(Inserted(thread_list[pr], b))
  BY <1>2, InsertedKeeps
<1>5. \A p \in Priorities :
         thread_list'[p] = IF p = pr THEN Inserted(thread_list[pr], b) ELSE thread_list[p]
  BY <1>1, <1>2
<1>6. ScheduleTypes'
  <2>1. thread_list' \in [Priorities -> Seq(Blocks)]
    BY <1>1, <1>2, <1>4
  <2>2. priority' \in [Blocks -> Priorities]
    BY <1>1, <1>2
  <2>3. QED BY <1>1, <2>1, <2>2 DEF Schedule, ScheduleTypes
<1>7. Lists'
  <2>1. \A p \in Priorities : Distinct(thread_list[p]) /\ ~Occurs(thread_list[p], b)
    BY <1>1 DEF Schedule, Lists
  <2>2. \A p \in Priorities : Distinct(thread_list'[p])
    BY <1>4, <1>5, <2>1
  <2>3. \A p \in Priorities, c \in Blocks :
            Occurs(thread_list'[p], c) <=> Occurs(thread_list[p], c) \/ (p = pr /\ c = b)
    BY <1>4, <1>5
  <2>4. \A p \in Priorities, c \in Blocks :
            Occurs(thread_list[p], c) <=> at[c] # "free" /\ priority[c] = p
    BY DEF Schedule, Lists
  <2>5. \A p \in Priorities, c \in Blocks :
            Occurs(thread_list'[p], c) <=> at'[c] # "free" /\ priority'[c] = p
    BY <1>1, <1>3, <2>3, <2>4
  <2>6. QED BY <2>2, <2>5 DEF Lists
<1>8. Runner'
  <2>1. cur \in Blocks /\ cur # b /\ cur # Idle
    BY <1>1, KernelAssumption
  <2>2. flags'[cur] = flags[cur] /\ at'[cur] = at[cur]
    BY <1>3, <2>1
  <2>3. QED BY <1>1, <2>1, <2>2 DEF Schedule, Runner
<1>9. o \in SUBSET {"DETACHED"}
  BY DEF Options
<1>10. Lives'
  BY <1>1, <1>3, <1>9 DEF Schedule, Lives
<1>11. \A c \in Blocks : "SLEEP" \in flags'[c] <=> "SLEEP" \in flags[c]
  BY <1>1, <1>3, <1>9 DEF Schedule, Lives
<1>12. SleepersOnTime' /\ SleepOnce'
  BY <1>1, <1>11, SleepersStay DEF Schedule
<1>13. QED BY <1>6, <1>7, <1>8, <1>10, <1>12 DEF Schedule

LEMMA ScheduleSetPriority ==
    ASSUME Inv, Schedule, NEW t \in Blocks, NEW pr \in Priorities, SetPriority(t, pr)
    PROVE  Schedule'
<1> DEFINE old   == priority[t]
           taken == [thread_list EXCEPT ![old] = Without(@, {t})]
<1>1. /\ cur = t /\ at[t] = "run" /\ pr # old
      /\ priority' = [priority EXCEPT ![t] = pr]
      /\ thread_list' = [taken EXCEPT ![pr] = Inserted(@, t)]
      /\ UNCHANGED <<cur, kernel_running, tick_skew, sleeping_list, flags, at>>
  BY DEF SetPriority, Moved, Runs
<1>2. /\ thread_list \in [Priorities -> Seq(Blocks)] /\ priority \in [Blocks -> Priorities]
      /\ old \in Priorities
  BY DEF Schedule, ScheduleTypes
<1>3. /\ Without(thread_list[old], {t}) \in Seq(Blocks)
      /\ \A x : Occurs(Without(thread_list[old], {t}), x)
                    <=> Occurs(thread_list[old], x) /\ x \notin {t}
      /\ Distinct(thread_list[old]) => Distinct(Without(thread_list[old], {t}))
  <2>1. thread_list[old] \in Seq(Blocks)
    BY <1>2
  <2>2. QED BY <2>1, WithoutKeeps
<1>4. /\ Inserted(thread_list[pr], t) \in Seq(Blocks)
      /\ \A x : Occurs(Inserted(thread_list[pr], t), x) <=> Occurs(thread_list[pr], x) \/ x = t
      /\ Distinct(thread_list[pr]) /\ ~Occurs(thread_list[pr], t)
            => Distinct(Inserted(thread_list[pr], t))
  <2>1. thread_list[pr] \in Seq(Blocks)
    BY <1>2
  <2>2. QED BY <2>1, InsertedKeeps
<1>5. \A p \in Priorities :
         thread_list'[p] = IF p = pr THEN Inserted(thread_list[pr], t)
                           ELSE IF p = old THEN Without(thread_list[old], {t})
                           ELSE thread_list[p]
  BY <1>1, <1>2
<1>6. ScheduleTypes'
  <2>1. taken \in [Priorities -> Seq(Blocks)] /\ taken[pr] = thread_list[pr]
    BY <1>1, <1>2, <1>3
  <2>2. thread_list' \in [Priorities -> Seq(Blocks)]
    <3> HIDE DEF taken
    <3> QED BY <1>1, <1>4, <2>1
  <2>3. priority' \in [Blocks -> Priorities]
    BY <1>1, <1>2
  <2>4. QED BY <1>1, <2>2, <2>3 DEF Schedule, ScheduleTypes
<1>7. Lists'
  <2>1. /\ \A p \in Priorities : Distinct(thread_list[p])
        /\ \A p \in Priorities, c \in Blocks :
              Occurs(thread_list[p], c) <=> at[c] # "free" /\ priority[c] = p
    BY DEF Schedule, Lists
  <2>2. ~Occurs(thread_list[pr], t)
    BY <1>1, <2>1
  <2>3. \A p \in Priorities : Distinct(thread_list'[p])
    BY <1>3, <1>4, <1>5, <2>1, <2>2
  <2>4. \A c \in Blocks : priority'[c] = IF c = t THEN pr ELSE priority[c]
    BY <1>1, <1>2
  <2>5. \A p \in Priorities, c \in Blocks :
            Occurs(thread_list'[p], c) <=> at[c] # "free" /\ priority'[c] = p
    <3> SUFFICES ASSUME NEW p \in Priorities, NEW c \in Blocks
                 PROVE  Occurs(thread_list'[p], c) <=> at[c] # "free" /\ priority'[c] = p
      OBVIOUS
    <3>1. Occurs(thread_list[p], c) <=> at[c] # "free" /\ priority[c] = p
      BY <2>1
    <3>2. Occurs(thread_list'[p], c)
              <=> IF p = pr THEN Occurs(thread_list[p], c) \/ c = t
                  ELSE Occurs(thread_list[p], c) /\ (p = old => c # t)
      BY <1>3, <1>4, <1>5
    <3>3. at[t] # "free" /\ pr # priority[t]
      BY <1>1
    <3> HIDE DEF old
    <3>4. CASE c = t
      <4>1. priority'[c] = pr /\ priority[c] = old
        BY <2>4, <3>4 DEF old
      <4>2. QED BY <3>1, <3>2, <3>3, <3>4, <4>1
    <3>5. CASE c # t
      <4>1. priority'[c] = priority[c]
        BY <2>4, <3>5
      <4>2. QED BY <3>1, <3>2, <3>5, <4>1
    <3>6. QED BY <3>4, <3>5
  <2>6. QED BY <1>1, <2>3, <2>5 DEF Lists
<1>8. Runner' /\ Lives'
  BY <1>1 DEF Schedule, Runner, Lives
<1>9. SleepersOnTime' /\ SleepOnce'
  BY <1>1, SleepersStay DEF Schedule
<1>10. QED BY <1>6, <1>7, <1>8, <1>9 DEF Schedule

\* PKremoveDeadThreads takes the dead from the lists and no other.
LEMMA ScheduleRemove ==
    ASSUME Inv, Schedule, RemoveDeadThreads, cur # Idle => at[cur] = "reap",
           UNCHANGED <<cur, kernel_running, tick_skew, sleeping_list, priority>>
    PROVE  Schedule'
<1> DEFINE dead == {b \in Blocks : at[b] # "free" /\ IsDeleted(flags[b])}
<1>1. /\ thread_list' = [p \in Priorities |-> Without(thread_list[p], dead)]
      /\ flags' = [b \in Blocks |-> IF b \in dead THEN {} ELSE flags[b]]
      /\ at' = [b \in Blocks |-> IF b \in dead THEN "free"
                                 ELSE IF b = cur THEN "run" ELSE at[b]]
  BY DEF RemoveDeadThreads
<1>2. \A b \in dead : at[b] = "ended"
  BY DEF Inv, OnlyTheEnded, IsDeleted
<1>3. cur # Idle => cur \in Blocks /\ cur \notin dead
  BY <1>2 DEF Schedule, ScheduleTypes
<1>4. cur # Idle => at[cur] = "reap" /\ Ready(flags[cur])
  BY DEF Schedule, Runner
<1> HIDE DEF dead
<1>5. \A p \in Priorities :
         /\ Without(thread_list[p], dead) \in Seq(Blocks)
         /\ \A x : Occurs(Without(thread_list[p], dead), x)
                       <=> Occurs(thread_list[p], x) /\ x \notin dead
         /\ Distinct(thread_list[p]) => Distinct(Without(thread_list[p], dead))
  <2> TAKE p \in Priorities
  <2>1. thread_list[p] \in Seq(Blocks)
    BY DEF Schedule, ScheduleTypes
  <2>2. QED BY <2>1, WithoutKeeps
<1>6. ScheduleTypes'
  BY <1>1, <1>5 DEF Schedule, ScheduleTypes
<1>7. Lists'
  <2>1. \A p \in Priorities : Distinct(thread_list'[p])
    BY <1>1, <1>5 DEF Schedule, Lists
  <2>2. \A b \in Blocks : at'[b] # "free" <=> at[b] # "free" /\ b \notin dead
    BY <1>1, <1>4, KernelAssumption
  <2>3. \A p \in Priorities, b \in Blocks :
            Occurs(thread_list'[p], b) <=> Occurs(thread_list[p], b) /\ b \notin dead
    BY <1>1, <1>5
  <2>4. QED BY <2>1, <2>2, <2>3 DEF Schedule, Lists
<1>8. Runner'
  <2>1. kernel_running = 0
    BY <1>4 DEF Schedule, Runner
  <2>2. QED BY <1>1, <1>3, <1>4, <2>1 DEF Runner
<1>9. Lives'
  <2>1. \A b \in Blocks : at'[b] = "ended" => at[b] = "ended" /\ b \notin dead
    BY <1>1
  <2>2. \A b \in Blocks : "SLEEP" \in flags'[b] => at[b] = "run" /\ b \notin dead
    BY <1>1 DEF Schedule, Lives
  <2>3. \A b \in Blocks \ dead : flags'[b] = flags[b]
    BY <1>1
  <2>4. \A b \in Blocks \ dead : at[b] = "run" => at'[b] = "run"
    BY <1>1
  <2>5. QED BY <2>1, <2>2, <2>3, <2>4 DEF Schedule, Lives
<1>10. \A b \in Blocks : "SLEEP" \in flags'[b] <=> "SLEEP" \in flags[b]
  BY <1>1, <1>2 DEF Schedule, Lives
<1>11. SleepersOnTime' /\ SleepOnce'
  BY <1>10, SleepersStay DEF Schedule
<1>12. QED BY <1>6, <1>7, <1>8, <1>9, <1>11 DEF Schedule

\* The steps that end with the scheduler, or are the tick: what is left to
\* show is who lives and who sleeps.
LEMMA ScheduleSwitch ==
    ASSUME Schedule, FindNextThread(thread_list, flags'), Lives',
           UNCHANGED <<priority, kernel_running>>,
           tick_skew' \in BOOLEAN, sleeping_list' \in Seq([p : Blocks, left : Int]),
           SleepOnce', SleepersOnTime',
           \A b \in Blocks : at'[b] = "free" <=> at[b] = "free",
           kernel_running # 0 =>
               cur \in Blocks /\ Ready(flags'[cur]) /\ at'[cur] = "run"
    PROVE  Schedule'
<1>1. /\ thread_list' \in [Priorities -> Seq(Blocks)] /\ cur' \in Blocks \cup {Idle}
      /\ Lists' /\ Runner'
  BY SwitchStep DEF Schedule
<1>2. ScheduleTypes'
  BY <1>1 DEF Schedule, ScheduleTypes
<1>3. QED BY <1>1, <1>2 DEF Schedule

\* The steps after which the same thread runs.
LEMMA ScheduleStay ==
    ASSUME Schedule, Lives',
           UNCHANGED <<thread_list, cur, priority, sleeping_list>>,
           tick_skew' \in BOOLEAN, kernel_running' \in 0 .. MaxPause,
           \A b \in Blocks : "SLEEP" \in flags'[b] <=> "SLEEP" \in flags[b],
           \A b \in Blocks : at'[b] = "free" <=> at[b] = "free",
           cur # Idle => Ready(flags'[cur]) /\ at'[cur] \notin {"free", "ended"},
           kernel_running' # 0 => cur # Idle /\ at'[cur] = "run"
    PROVE  Schedule'
<1>1. Lists' /\ Runner'
  BY StayStep DEF Schedule
<1>2. SleepersOnTime' /\ SleepOnce'
  BY SleepersStay DEF Schedule
<1>3. ScheduleTypes'
  BY DEF Schedule, ScheduleTypes
<1>4. QED BY <1>1, <1>2, <1>3 DEF Schedule

LEMMA ScheduleYield ==
    ASSUME Inv, Schedule, NEW t \in Blocks, Yield(t)
    PROVE  Schedule'
<1>1. /\ kernel_running = 0 /\ FindNextThread(thread_list, flags)
      /\ UNCHANGED <<kernel_running, tick_skew, sleeping_list, priority, flags, at>>
  BY DEF Yield, MayBlock, threadVars
<1>2. Lives' /\ SleepOnce' /\ SleepersOnTime'
  BY <1>1 DEF Schedule, Lives, SleepOnce, SleepersOnTime
<1>3. FindNextThread(thread_list, flags')
  BY <1>1
<1>4. QED BY <1>1, <1>2, <1>3, ScheduleSwitch DEF Schedule, ScheduleTypes

LEMMA ScheduleWait ==
    ASSUME Inv, Schedule, NEW t \in Blocks, Wait(t)
    PROVE  Schedule'
<1>1. /\ kernel_running = 0 /\ FindNextThread(thread_list, flags')
      /\ flags' = [flags EXCEPT ![t] = @ \cup {"WAIT"}]
      /\ UNCHANGED <<kernel_running, tick_skew, sleeping_list, priority, at>>
  BY DEF Wait, MayBlock
<1>2. \A b \in Blocks : /\ "SLEEP" \in flags'[b] <=> "SLEEP" \in flags[b]
                        /\ "DELETED" \in flags'[b] <=> "DELETED" \in flags[b]
  BY <1>1 DEF Inv, ThreadTypes
<1>3. Lives'
  BY <1>1, <1>2 DEF Schedule, Lives
<1>4. SleepOnce' /\ SleepersOnTime'
  BY <1>1, <1>2, SleepersStay DEF Schedule
<1>5. QED BY <1>1, <1>3, <1>4, ScheduleSwitch DEF Schedule, ScheduleTypes

LEMMA ScheduleWakeup ==
    ASSUME Inv, Schedule, NEW b \in Blocks, Wakeup(b)
    PROVE  Schedule'
<1>1. /\ flags' = [flags EXCEPT ![b] = @ \ {"WAIT"}]
      /\ UNCHANGED <<thread_list, cur, kernel_running, tick_skew, sleeping_list, priority, at>>
  BY DEF Wakeup
<1>2. \A c \in Blocks : /\ "SLEEP" \in flags'[c] <=> "SLEEP" \in flags[c]
                        /\ "DELETED" \in flags'[c] <=> "DELETED" \in flags[c]
                        /\ flags'[c] \subseteq flags[c]
  BY <1>1 DEF Inv, ThreadTypes
<1>3. Lives'
  BY <1>1, <1>2 DEF Schedule, Lives
<1>4. cur # Idle => Ready(flags'[cur]) /\ at'[cur] \notin {"free", "ended"}
  BY <1>1, <1>2 DEF Schedule, ScheduleTypes, Runner, Ready
<1>5. kernel_running' # 0 => cur # Idle /\ at'[cur] = "run"
  BY <1>1 DEF Schedule, Runner
<1>6. QED BY <1>1, <1>2, <1>3, <1>4, <1>5, ScheduleStay DEF Schedule, ScheduleTypes

LEMMA SchedulePausing ==
    ASSUME Inv, Schedule, NEW t \in Blocks, PauseKernel(t) \/ RestartKernel(t)
    PROVE  Schedule'
<1>1. /\ cur = t /\ at[t] = "run"
      /\ UNCHANGED <<thread_list, cur, tick_skew, sleeping_list, priority, flags, at>>
  BY DEF PauseKernel, RestartKernel, Runs, threadVars
<1>2. kernel_running' \in 0 .. MaxPause
  BY KernelAssumption DEF PauseKernel, RestartKernel, Schedule, ScheduleTypes
<1>3. Lives'
  BY <1>1 DEF Schedule, Lives
<1>4. cur # Idle /\ Ready(flags'[cur]) /\ at'[cur] = "run"
  BY <1>1, KernelAssumption DEF Schedule, Runner
<1>5. QED BY <1>1, <1>2, <1>3, <1>4, ScheduleStay DEF Schedule, ScheduleTypes

LEMMA ScheduleDetach ==
    ASSUME Inv, Schedule, NEW t \in Blocks, NEW b \in Blocks, Detach(t, b)
    PROVE  Schedule'
<1> DEFINE detached == [flags EXCEPT ![b] = @ \cup {"DETACHED"}]
<1>1. /\ cur = t /\ at[t] = "run"
      /\ flags' = IF "DELETED" \in flags[b] THEN detached ELSE JoinerWoken(detached, b)
      /\ UNCHANGED <<thread_list, cur, kernel_running, tick_skew, sleeping_list, priority, at>>
  BY DEF Detach, Runs
<1>2. detached \in [Blocks -> SUBSET (NotReady \cup {"DETACHED"})]
  BY DEF Inv, ThreadTypes, NotReady
<1>3. \A c \in Blocks : flags[c] \subseteq detached[c]
                        /\ detached[c] \subseteq flags[c] \cup {"DETACHED"}
  BY DEF Inv, ThreadTypes
<1> HIDE DEF detached
<1>4. \A c \in Blocks : flags'[c] \subseteq detached[c]
                        /\ detached[c] \subseteq flags'[c] \cup {"WAIT_JOIN"}
  BY <1>1, <1>2 DEF JoinerWoken
<1>5. \A c \in Blocks : /\ "SLEEP" \in flags'[c] <=> "SLEEP" \in flags[c]
                        /\ "DELETED" \in flags'[c] <=> "DELETED" \in flags[c]
                        /\ flags'[c] \subseteq flags[c] \cup {"DETACHED"}
  BY <1>3, <1>4
<1>6. Lives'
  BY <1>1, <1>5 DEF Schedule, Lives
<1>7. cur # Idle /\ Ready(flags'[cur]) /\ at'[cur] = "run"
  BY <1>1, <1>5, KernelAssumption DEF Schedule, Runner, Ready, NotReady
<1>8. QED BY <1>1, <1>5, <1>6, <1>7, ScheduleStay DEF Schedule, ScheduleTypes

LEMMA ScheduleExit ==
    ASSUME Inv, Schedule, NEW t \in Blocks, Exit(t)
    PROVE  Schedule'
<1> DEFINE ended == [flags EXCEPT ![t] = @ \cup {"DELETED"}]
<1>1. /\ cur = t /\ at[t] = "run" /\ kernel_running = 0
      /\ flags' = ended \/ flags' = JoinerWoken(ended, t)
      /\ at' = [at EXCEPT ![t] = "ended"]
      /\ FindNextThread(thread_list, flags')
      /\ UNCHANGED <<kernel_running, tick_skew, sleeping_list, priority>>
  BY DEF Exit, MayBlock, Runs
<1>2. ended \in [Blocks -> SUBSET (NotReady \cup {"DETACHED"})]
  BY DEF Inv, ThreadTypes, NotReady
<1>3. \A c \in Blocks : flags[c] \subseteq ended[c]
                        /\ ended[c] \subseteq flags[c] \cup {"DELETED"}
  BY DEF Inv, ThreadTypes
<1>4. "DELETED" \in ended[t]
  BY DEF Inv, ThreadTypes
<1> HIDE DEF ended
<1>5. \A c \in Blocks : flags'[c] \subseteq ended[c]
                        /\ ended[c] \subseteq flags'[c] \cup {"WAIT_JOIN"}
  BY <1>1, <1>2 DEF JoinerWoken
<1>6. \A c \in Blocks : /\ "SLEEP" \in flags'[c] <=> "SLEEP" \in flags[c]
                        /\ "DELETED" \in flags[c] => "DELETED" \in flags'[c]
  BY <1>3, <1>5
<1>7. "SLEEP" \notin flags[t] /\ "DELETED" \in flags'[t]
  <2>1. cur # Idle
    BY <1>1, KernelAssumption
  <2>2. "SLEEP" \notin flags[t]
    BY <1>1, <2>1 DEF Schedule, Runner, Ready, NotReady
  <2>3. QED BY <1>4, <1>5, <2>2
<1>8. \A c \in Blocks : at'[c] = IF c = t THEN "ended" ELSE at[c]
  BY <1>1 DEF Inv, ThreadTypes
<1>9. Lives'
  BY <1>6, <1>7, <1>8 DEF Schedule, Lives
<1>10. SleepOnce' /\ SleepersOnTime'
  BY <1>1, <1>6, SleepersStay DEF Schedule
<1>11. \A c \in Blocks : at'[c] = "free" <=> at[c] = "free"
  BY <1>1, <1>8
<1>12. QED BY <1>1, <1>9, <1>10, <1>11, ScheduleSwitch DEF Schedule, ScheduleTypes

LEMMA ScheduleJoin ==
    ASSUME Inv, Schedule, NEW t \in Blocks, NEW b \in Blocks, Join(t, b)
    PROVE  Schedule'
<1>1. /\ cur = t /\ at[t] = "run" /\ kernel_running = 0 /\ t # b
      /\ UNCHANGED <<kernel_running, tick_skew, sleeping_list, priority>>
  BY DEF Join, MayBlock, Runs
<1>2. cur # Idle /\ Ready(flags[t]) /\ "SLEEP" \notin flags[t]
  BY <1>1, KernelAssumption DEF Schedule, Runner, Ready, NotReady
<1>3. CASE /\ flags' = [flags EXCEPT ![b] = @ \cup {"DETACHED"}]
           /\ at' = [at EXCEPT ![t] = "reap"]
           /\ UNCHANGED <<thread_list, cur>>
  <2>1. /\ \A c \in Blocks : flags[c] \subseteq flags'[c]
                             /\ flags'[c] \subseteq flags[c] \cup {"DETACHED"}
        /\ \A c \in Blocks : at'[c] = IF c = t THEN "reap" ELSE at[c]
    BY <1>3 DEF Inv, ThreadTypes
  <2>2. \A c \in Blocks : /\ "SLEEP" \in flags'[c] <=> "SLEEP" \in flags[c]
                          /\ "DELETED" \in flags[c] => "DELETED" \in flags'[c]
                          /\ at'[c] = "free" <=> at[c] = "free"
    BY <1>1, <2>1
  <2>3. Lives'
    BY <1>2, <2>1, <2>2 DEF Schedule, Lives
  <2>4. Ready(flags'[cur]) /\ at'[cur] \notin {"free", "ended"}
    BY <1>1, <1>2, <2>1 DEF Ready, NotReady
  <2>5. QED BY <1>1, <1>3, <2>2, <2>3, <2>4, ScheduleStay DEF Schedule, ScheduleTypes
<1>4. CASE /\ flags' = [flags EXCEPT ![t] = @ \cup {"WAIT_JOIN"}]
           /\ at' = [at EXCEPT ![t] = "join"]
           /\ FindNextThread(thread_list, flags')
  <2>1. /\ \A c \in Blocks : flags[c] \subseteq flags'[c]
                             /\ flags'[c] \subseteq flags[c] \cup {"WAIT_JOIN"}
        /\ \A c \in Blocks : at'[c] = IF c = t THEN "join" ELSE at[c]
    BY <1>4 DEF Inv, ThreadTypes
  <2>2. \A c \in Blocks : /\ "SLEEP" \in flags'[c] <=> "SLEEP" \in flags[c]
                          /\ "DELETED" \in flags[c] => "DELETED" \in flags'[c]
                          /\ at'[c] = "free" <=> at[c] = "free"
    BY <1>1, <2>1
  <2>3. Lives'
    BY <1>2, <2>1, <2>2 DEF Schedule, Lives
  <2>4. SleepOnce' /\ SleepersOnTime'
    BY <1>1, <2>2, SleepersStay DEF Schedule
  <2>5. QED BY <1>1, <1>4, <2>2, <2>3, <2>4, ScheduleSwitch DEF Schedule, ScheduleTypes
<1>5. QED BY <1>3, <1>4 DEF Join

LEMMA ScheduleJoinResume ==
    ASSUME Inv, Schedule, NEW t \in Blocks, JoinResume(t)
    PROVE  Schedule'
<1>1. /\ cur = t /\ at[t] = "join" /\ cur # Idle
      /\ UNCHANGED <<kernel_running, tick_skew, sleeping_list, priority>>
  BY KernelAssumption DEF JoinResume
<1>2. kernel_running = 0 /\ Ready(flags[t]) /\ "SLEEP" \notin flags[t]
  BY <1>1 DEF Schedule, Runner, Ready, NotReady
<1>3. CASE /\ flags' = flags \/ flags' = [flags EXCEPT ![joinOn[t]] = @ \cup {"DETACHED"}]
           /\ at' = [at EXCEPT ![t] = "run"] \/ at' = [at EXCEPT ![t] = "reap"]
           /\ UNCHANGED <<thread_list, cur>>
  <2>1. /\ \A c \in Blocks : flags[c] \subseteq flags'[c]
                             /\ flags'[c] \subseteq flags[c] \cup {"DETACHED"}
        /\ \A c \in Blocks \ {t} : at'[c] = at[c]
        /\ at'[t] \in {"run", "reap"}
    BY <1>3 DEF Inv, ThreadTypes
  <2>2. \A c \in Blocks : /\ "SLEEP" \in flags'[c] <=> "SLEEP" \in flags[c]
                          /\ "DELETED" \in flags[c] => "DELETED" \in flags'[c]
                          /\ at'[c] = "free" <=> at[c] = "free"
    BY <1>1, <2>1
  <2>3. Lives'
    BY <1>2, <2>1, <2>2 DEF Schedule, Lives
  <2>4. Ready(flags'[cur]) /\ at'[cur] \notin {"free", "ended"}
    BY <1>1, <1>2, <2>1 DEF Ready, NotReady
  <2>5. QED BY <1>1, <1>2, <1>3, <2>2, <2>3, <2>4, ScheduleStay DEF Schedule, ScheduleTypes
<1>4. CASE /\ flags' = [flags EXCEPT ![t] = @ \cup {"WAIT_JOIN"}] /\ at' = at
           /\ FindNextThread(thread_list, flags')
  <2>1. \A c \in Blocks : flags[c] \subseteq flags'[c]
                          /\ flags'[c] \subseteq flags[c] \cup {"WAIT_JOIN"}
    BY <1>4 DEF Inv, ThreadTypes
  <2>2. \A c \in Blocks : /\ "SLEEP" \in flags'[c] <=> "SLEEP" \in flags[c]
                          /\ "DELETED" \in flags[c] => "DELETED" \in flags'[c]
    BY <2>1
  <2>3. Lives'
    BY <1>4, <2>2 DEF Schedule, Lives
  <2>4. SleepOnce' /\ SleepersOnTime'
    BY <1>1, <2>2, SleepersStay DEF Schedule
  <2>5. QED BY <1>1, <1>2, <1>4, <2>3, <2>4, ScheduleSwitch DEF Schedule, ScheduleTypes
<1>5. QED BY <1>3, <1>4 DEF JoinResume

-----------------------------------------------------------------------------
(* Sleeping and waking.                                                    *)

Sleepers == [p : Blocks, left : Int]

LEMMA SleeperAt ==
    ASSUME NEW s \in Seq(Sleepers)
    PROVE  /\ Len(s) \in Nat /\ DOMAIN s = 1 .. Len(s)
           /\ \A i \in 1 .. Len(s) : s[i] \in Sleepers /\ s[i].left \in Int
           /\ \A x \in Sleepers : x.left \in Int /\ x.p \in Blocks
<1>1. Len(s) \in Nat /\ DOMAIN s = 1 .. Len(s) /\ \A i \in 1 .. Len(s) : s[i] \in Sleepers
  OBVIOUS
<1>2. \A x \in Sleepers : x.left \in Int /\ x.p \in Blocks
  BY DEF Sleepers
<1>3. QED BY <1>1, <1>2

\* Where SleeperAdded puts a sleeper.
LEMMA SleeperAddedAt ==
    ASSUME NEW s \in Seq(Sleepers), NEW x \in Sleepers
    PROVE  /\ SleeperAdded(s, x) \in Seq(Sleepers)
           /\ Len(SleeperAdded(s, x)) = Len(s) + 1
           /\ \E k \in 1 .. Len(s) + 1 :
                 /\ \A i \in 1 .. k - 1 : s[i].left < x.left
                 /\ k <= Len(s) => s[k].left >= x.left
                 /\ \A i \in 1 .. Len(s) + 1 :
                       SleeperAdded(s, x)[i] = IF i < k THEN s[i]
                                               ELSE IF i = k THEN x ELSE s[i - 1]
<1> DEFINE n == Len(s)
           Fits(k) == /\ \A i \in 1 .. k - 1 : s[i].left < x.left
                      /\ k <= n => s[k].left >= x.left
           place == CHOOSE k \in 1 .. n + 1 : Fits(k)
<1>1. n \in Nat /\ x.left \in Int /\ \A i \in 1 .. n : s[i] \in Sleepers /\ s[i].left \in Int
  BY SleeperAt
<1>2. \E k \in 1 .. n + 1 : Fits(k)
  <2> DEFINE K == {k \in 1 .. n + 1 : k <= n => s[k].left >= x.left}
  <2>1. K \subseteq Nat /\ K # {}
    <3>1. n + 1 \in K
      BY <1>1
    <3>2. QED BY <3>1
  <2>2. PICK k \in K : \A l \in K : k <= l
    <3> HIDE DEF K
    <3> QED BY <2>1, LeastIn
  <2>3. ASSUME NEW i \in 1 .. k - 1 PROVE s[i].left < x.left
    <3>1. i \in 1 .. n /\ ~(k <= i)
      BY <1>1
    <3>2. i \notin K
      <4> HIDE DEF K
      <4> QED BY <2>2, <3>1
    <3>3. ~(s[i].left >= x.left)
      BY <1>1, <3>1, <3>2
    <3>4. QED BY <1>1, <3>1, <3>3
  <2>4. QED BY <2>2, <2>3
<1>3. place \in 1 .. n + 1 /\ Fits(place)
  <2> HIDE DEF Fits
  <2> QED BY <1>2
<1>4. SleeperAdded(s, x) = SubSeq(s, 1, place - 1) \o <<x>> \o SubSeq(s, place, n)
  BY DEF SleeperAdded
<1> HIDE DEF place
<1>5. /\ SubSeq(s, 1, place - 1) \in Seq(Sleepers) /\ Len(SubSeq(s, 1, place - 1)) = place - 1
      /\ \A i \in 1 .. place - 1 : SubSeq(s, 1, place - 1)[i] = s[i]
  BY <1>1, <1>3
<1>6. /\ SubSeq(s, place, n) \in Seq(Sleepers) /\ Len(SubSeq(s, place, n)) = n + 1 - place
      /\ \A i \in 1 .. n + 1 - place : SubSeq(s, place, n)[i] = s[place + i - 1]
  BY <1>1, <1>3
<1>7. <<x>> \in Seq(Sleepers) /\ Len(<<x>>) = 1 /\ <<x>>[1] = x
  OBVIOUS
<1> DEFINE before == SubSeq(s, 1, place - 1) \o <<x>>
<1>8. /\ before \in Seq(Sleepers) /\ Len(before) = place
      /\ \A i \in 1 .. place - 1 : before[i] = s[i]
      /\ before[place] = x
  <2>1. before \in Seq(Sleepers) /\ Len(before) = place - 1 + 1
    BY <1>5, <1>7, ConcatProperties
  <2>2. place - 1 + 1 = place
    BY <1>1, <1>3
  <2>3. \A i \in 1 .. place :
            before[i] = IF i <= place - 1 THEN SubSeq(s, 1, place - 1)[i]
                        ELSE <<x>>[i - (place - 1)]
    BY <1>1, <1>3, <1>5, <1>7, ConcatProperties
  <2>4. \A i \in 1 .. place - 1 : i \in 1 .. place /\ i <= place - 1
    BY <1>1, <1>3
  <2>5. place \in 1 .. place /\ ~(place <= place - 1) /\ place - (place - 1) = 1
    BY <1>1, <1>3
  <2>6. \A i \in 1 .. place - 1 : before[i] = s[i]
    BY <1>5, <2>3, <2>4
  <2>7. before[place] = x
    BY <1>7, <2>3, <2>5
  <2>8. QED BY <2>1, <2>2, <2>6, <2>7
<1>9. SleeperAdded(s, x) = before \o SubSeq(s, place, n)
  BY <1>4
<1> HIDE DEF before, Fits
<1>10. SleeperAdded(s, x) \in Seq(Sleepers) /\ Len(SleeperAdded(s, x)) = n + 1
  BY <1>1, <1>3, <1>6, <1>8, <1>9, ConcatProperties
<1>11. ASSUME NEW i \in 1 .. n + 1
       PROVE  SleeperAdded(s, x)[i] = IF i < place THEN s[i]
                                      ELSE IF i = place THEN x ELSE s[i - 1]
  <2>1. SleeperAdded(s, x)[i] = IF i <= place THEN before[i]
                                ELSE SubSeq(s, place, n)[i - place]
    BY <1>1, <1>3, <1>6, <1>8, <1>9, ConcatProperties
  <2>2. CASE i <= place
    <3>1. i < place => i \in 1 .. place - 1
      BY <1>1, <1>3, <2>2
    <3>2. i < place \/ i = place
      BY <1>1, <1>3, <2>2
    <3>3. QED BY <1>8, <2>1, <2>2, <3>1, <3>2
  <2>3. CASE i > place
    <3>1. i - place \in 1 .. n + 1 - place /\ place + (i - place) - 1 = i - 1
      BY <1>1, <1>3, <2>3
    <3>2. SubSeq(s, place, n)[i - place] = s[i - 1]
      BY <1>6, <3>1
    <3>3. ~(i <= place) /\ ~(i < place) /\ i # place
      BY <1>1, <1>3, <2>3
    <3>4. QED BY <2>1, <3>2, <3>3
  <2>4. QED BY <1>1, <1>3, <2>2, <2>3
<1>12. QED BY <1>3, <1>10, <1>11 DEF Fits

\* What a list of sleepers is like, whose threads are those of a set.
OnTime(s, B) ==
    /\ \A i \in DOMAIN s : s[i].left > 0
    /\ \A i \in DOMAIN s : \A j \in 1 .. i : s[j].left <= s[i].left
    /\ \A i, j \in DOMAIN s : s[i].p = s[j].p => i = j
    /\ \A b \in Blocks : b \in B <=> \E i \in DOMAIN s : s[i].p = b

Asleep == {b \in Blocks : "SLEEP" \in flags[b]}

LEMMA OnTimeMeans == OnTime(sleeping_list, Asleep) <=> SleepersOnTime /\ SleepOnce
BY DEF OnTime, Asleep, SleepersOnTime, SleepOnce

LEMMA SleeperAddedOnTime ==
    ASSUME NEW s \in Seq(Sleepers), NEW B \in SUBSET Blocks, OnTime(s, B),
           NEW t \in Blocks, t \notin B, NEW ticks \in Nat, ticks > 0
    PROVE  /\ SleeperAdded(s, [p |-> t, left |-> ticks]) \in Seq(Sleepers)
           /\ OnTime(SleeperAdded(s, [p |-> t, left |-> ticks]), B \cup {t})
<1> DEFINE x == [p |-> t, left |-> ticks]
           r == SleeperAdded(s, x)
           n == Len(s)
<1>1. x \in Sleepers /\ x.p = t /\ x.left = ticks
  BY DEF Sleepers
<1> HIDE DEF x
<1>2. r \in Seq(Sleepers) /\ Len(r) = n + 1
  BY <1>1, SleeperAddedAt
<1>3. PICK k \in 1 .. n + 1 :
         /\ \A i \in 1 .. k - 1 : s[i].left < x.left
         /\ k <= n => s[k].left >= x.left
         /\ \A i \in 1 .. n + 1 : r[i] = IF i < k THEN s[i] ELSE IF i = k THEN x ELSE s[i - 1]
  BY <1>1, SleeperAddedAt
<1>4. /\ n \in Nat /\ DOMAIN s = 1 .. n /\ DOMAIN r = 1 .. n + 1
      /\ \A i \in 1 .. n : s[i] \in Sleepers /\ s[i].left \in Int
  BY <1>2, SleeperAt
<1> HIDE DEF r, n
<1> DEFINE From(i) == IF i < k THEN i ELSE i - 1
<1>5. /\ \A i \in (1 .. n + 1) \ {k} : From(i) \in 1 .. n /\ r[i] = s[From(i)]
      /\ r[k] = x
  BY <1>3, <1>4
<1>6. \A i \in (1 .. n + 1) \ {k} : \A j \in (1 .. n + 1) \ {k} :
         /\ From(i) = From(j) => i = j
         /\ j <= i => From(j) <= From(i)
  BY <1>4
<1>7. \A j \in 1 .. n + 1 : j # k => From(j) < k <=> j < k
  BY <1>4
<1>8. \A i \in 1 .. n + 1 : r[i].left > 0
  BY <1>1, <1>4, <1>5 DEF OnTime
<1>9. ASSUME NEW i \in 1 .. n + 1, NEW j \in 1 .. i PROVE r[j].left <= r[i].left
  <2>1. j \in 1 .. n + 1 /\ j <= i
    BY <1>4
  <2>2. \A l, m \in 1 .. n : l <= m => s[l].left <= s[m].left
    BY <1>4 DEF OnTime
  <2>3. CASE i # k /\ j # k
    <3>1. From(j) <= From(i) /\ From(j) \in 1 .. n /\ From(i) \in 1 .. n
      BY <1>5, <1>6, <2>1, <2>3
    <3>2. r[j] = s[From(j)] /\ r[i] = s[From(i)]
      BY <1>5, <2>1, <2>3
    <3> HIDE DEF From
    <3>3. QED BY <2>2, <3>1, <3>2
  <2>4. CASE i = k /\ j # k
    <3>1. j \in 1 .. k - 1 /\ From(j) = j
      BY <1>4, <2>1, <2>4
    <3>2. r[j] = s[j] /\ r[i] = x
      BY <1>5, <2>1, <2>4, <3>1
    <3>3. s[j].left < x.left /\ s[j].left \in Int
      BY <1>3, <1>4, <3>1
    <3>4. QED BY <1>1, <3>2, <3>3
  <2>5. CASE j = k /\ i # k
    <3>1. From(i) = i - 1 /\ i - 1 \in 1 .. n /\ k <= i - 1 /\ k \in 1 .. n
      BY <1>4, <2>1, <2>5
    <3>2. r[i] = s[i - 1] /\ r[j] = x
      BY <1>5, <2>5, <3>1
    <3>3. s[k].left <= s[i - 1].left /\ s[k].left >= x.left
      BY <1>3, <2>2, <3>1
    <3>4. s[k].left \in Int /\ s[i - 1].left \in Int /\ x.left \in Int
      BY <1>1, <1>4, <3>1
    <3>5. QED BY <3>2, <3>3, <3>4
  <2>6. CASE i = k /\ j = k
    BY <1>1, <1>5, <2>6
  <2>7. QED BY <2>3, <2>4, <2>5, <2>6
<1>10. \A i \in 1 .. n : s[i].p # t
  BY <1>4 DEF OnTime
<1>11. ASSUME NEW i \in 1 .. n + 1, NEW j \in 1 .. n + 1, r[i].p = r[j].p PROVE i = j
  <2> HIDE DEF From
  <2>1. CASE i = k \/ j = k
    BY <1>1, <1>5, <1>10, <1>11, <2>1
  <2>2. CASE i # k /\ j # k
    <3>1. From(i) = From(j)
      BY <1>4, <1>5, <1>11, <2>2 DEF OnTime
    <3>2. QED BY <1>6, <2>2, <3>1
  <2>3. QED BY <2>1, <2>2
<1>12. ASSUME NEW b \in Blocks
       PROVE  b \in B \cup {t} <=> \E i \in 1 .. n + 1 : r[i].p = b
  <2>1. ASSUME b \in B PROVE \E i \in 1 .. n + 1 : r[i].p = b
    <3>1. PICK l \in 1 .. n : s[l].p = b
      BY <1>4, <2>1 DEF OnTime
    <3>2. CASE l < k
      <4>1. l \in (1 .. n + 1) \ {k} /\ From(l) = l
        BY <1>4, <3>2
      <4>2. QED BY <1>5, <3>1, <4>1
    <3>3. CASE l >= k
      <4>1. l + 1 \in (1 .. n + 1) \ {k} /\ From(l + 1) = l
        BY <1>4, <3>3
      <4>2. r[l + 1] = s[From(l + 1)]
        BY <1>5, <4>1
      <4> HIDE DEF From
      <4>3. QED BY <3>1, <4>1, <4>2
    <3>4. QED BY <1>4, <3>2, <3>3
  <2>2. r[k].p = t
    BY <1>1, <1>5
  <2>3. ASSUME NEW i \in (1 .. n + 1) \ {k} PROVE r[i].p = b => b \in B
    <3> HIDE DEF From
    <3> QED BY <1>4, <1>5 DEF OnTime
  <2>4. QED BY <2>1, <2>2, <2>3
<1>13. OnTime(r, B \cup {t})
  BY <1>4, <1>8, <1>9, <1>11, <1>12 DEF OnTime
<1>14. QED BY <1>2, <1>13 DEF r, x

LEMMA ScheduleSleep ==
    ASSUME Inv, Schedule, NEW t \in Blocks, NEW ticks \in 1 .. MaxSleep, Sleep(t, ticks)
    PROVE  Schedule'
<1>1. /\ cur = t /\ at[t] = "run" /\ kernel_running = 0
      /\ sleeping_list' = SleeperAdded(sleeping_list, [p |-> t, left |-> ticks])
      /\ flags' = [flags EXCEPT ![t] = @ \cup {"SLEEP"}]
      /\ FindNextThread(thread_list, flags')
      /\ UNCHANGED <<kernel_running, tick_skew, priority, at>>
  BY DEF Sleep, MayBlock, Runs
<1>2. t \notin Asleep
  BY <1>1, KernelAssumption DEF Schedule, Runner, Ready, NotReady, Asleep
<1>3. sleeping_list \in Seq(Sleepers) /\ OnTime(sleeping_list, Asleep)
  BY OnTimeMeans DEF Schedule, ScheduleTypes, Sleepers
<1>4. ticks \in Nat /\ ticks > 0 /\ Asleep \in SUBSET Blocks
  BY KernelAssumption DEF Asleep
<1>5. sleeping_list' \in Seq(Sleepers) /\ OnTime(sleeping_list', Asleep \cup {t})
  BY <1>1, <1>2, <1>3, <1>4, SleeperAddedOnTime
<1>6. \A b \in Blocks : /\ "SLEEP" \in flags'[b] <=> "SLEEP" \in flags[b] \/ b = t
                        /\ "DELETED" \in flags'[b] <=> "DELETED" \in flags[b]
  BY <1>1 DEF Inv, ThreadTypes
<1>7. Asleep' = Asleep \cup {t}
  BY <1>6 DEF Asleep
<1>8. SleepersOnTime' /\ SleepOnce'
  <2>1. OnTime(sleeping_list, Asleep)'
    BY <1>5, <1>7 DEF OnTime
  <2>2. OnTime(sleeping_list, Asleep)' <=> SleepersOnTime' /\ SleepOnce'
    BY OnTimeMeans, PTL
  <2>3. QED BY <2>1, <2>2
<1>9. Lives'
  BY <1>1, <1>6 DEF Schedule, Lives
<1>10. sleeping_list' \in Seq([p : Blocks, left : Int])
  BY <1>5 DEF Sleepers
<1>11. QED BY <1>1, <1>8, <1>9, <1>10, ScheduleSwitch DEF Schedule, ScheduleTypes

\* A tick later, and how many at the front then have to wake.
Later(s) == [i \in DOMAIN s |-> [s[i] EXCEPT !.left = @ - 1]]
Due(l)   == CHOOSE k \in 0 .. Len(l) : /\ \A i \in 1 .. k : l[i].left = 0
                                       /\ k < Len(l) => l[k + 1].left # 0

\* IRQwakeThreads takes those whose time has come from the front, and leaves
\* nobody whose time has come.
LEMMA TickOnTime ==
    ASSUME NEW s \in Seq(Sleepers), NEW B \in SUBSET Blocks, OnTime(s, B)
    PROVE  /\ SubSeq(Later(s), Due(Later(s)) + 1, Len(Later(s))) \in Seq(Sleepers)
           /\ OnTime(SubSeq(Later(s), Due(Later(s)) + 1, Len(Later(s))),
                     B \ {Later(s)[i].p : i \in 1 .. Due(Later(s))})
<1> DEFINE m    == Len(s)
           left == Later(s)
           n    == Due(left)
<1>1. m \in Nat /\ DOMAIN s = 1 .. m /\ \A i \in 1 .. m : s[i] \in Sleepers /\ s[i].left \in Int
  BY SleeperAt
<1>2. \A i \in 1 .. m : /\ left[i] \in Sleepers /\ left[i].p = s[i].p
                        /\ left[i].left = s[i].left - 1 /\ left[i].left \in Int
  BY <1>1 DEF Sleepers, Later
<1>3. left \in Seq(Sleepers) /\ Len(left) = m /\ DOMAIN left = 1 .. m
  <2>1. left = [i \in 1 .. m |-> [s[i] EXCEPT !.left = @ - 1]]
    BY <1>1 DEF Later
  <2> HIDE DEF m, left
  <2>2. left \in [1 .. m -> Sleepers]
    BY <1>1, <1>2, <2>1
  <2>3. QED BY <1>1, <2>2
<1> DEFINE Done(k) == /\ \A i \in 1 .. k : left[i].left = 0
                      /\ k < m => left[k + 1].left # 0
<1> HIDE DEF m, left
<1>4. \E k \in 0 .. m : Done(k)
  <2> DEFINE K == {k \in 0 .. m : k < m => left[k + 1].left # 0}
  <2>1. K \subseteq Nat /\ K # {}
    <3>1. m \in K /\ \A k \in K : k \in Nat
      BY <1>1
    <3>2. QED BY <3>1
  <2>2. PICK k \in K : \A l \in K : k <= l
    <3> HIDE DEF K
    <3> QED BY <2>1, LeastIn
  <2>3. ASSUME NEW i \in 1 .. k PROVE left[i].left = 0
    <3>1. i - 1 \in 0 .. m /\ ~(k <= i - 1) /\ i - 1 < m /\ i - 1 + 1 = i
      BY <1>1
    <3>2. i - 1 \notin K
      <4> HIDE DEF K
      <4> QED BY <2>2, <3>1
    <3>3. QED BY <3>1, <3>2
  <2>4. QED BY <2>2, <2>3
<1>5. n \in 0 .. m /\ Done(n)
  <2>1. n = CHOOSE k \in 0 .. m : Done(k)
    BY <1>3 DEF Due
  <2> HIDE DEF Done
  <2>2. QED BY <1>4, <2>1
<1> HIDE DEF n
<1> DEFINE r == SubSeq(left, n + 1, Len(left))
           woken == {left[i].p : i \in 1 .. n}
<1>6. /\ r \in Seq(Sleepers) /\ DOMAIN r = 1 .. m - n
      /\ \A i \in 1 .. m - n : r[i] = left[n + i] /\ n + i \in 1 .. m
  <2>1. /\ r \in Seq(Sleepers) /\ Len(r) = m - n
        /\ \A i \in 1 .. m - n : r[i] = left[n + 1 + i - 1]
    BY <1>1, <1>3, <1>5
  <2>2. \A i \in 1 .. m - n : n + 1 + i - 1 = n + i /\ n + i \in 1 .. m
    BY <1>1, <1>5
  <2>3. DOMAIN r = 1 .. m - n
    BY <2>1
  <2> HIDE DEF r
  <2>4. QED BY <2>1, <2>2, <2>3
<1> HIDE DEF r
<1>7. \A i, j \in 1 .. m : j <= i => left[j].left <= left[i].left
  <2> SUFFICES ASSUME NEW i \in 1 .. m, NEW j \in 1 .. m, j <= i
               PROVE  left[j].left <= left[i].left
    OBVIOUS
  <2>1. j \in 1 .. i
    BY <1>1
  <2>2. s[j].left <= s[i].left
    BY <1>1, <2>1 DEF OnTime
  <2>3. QED BY <1>1, <1>2, <2>2
<1>8. ASSUME NEW i \in 1 .. m, n < i PROVE left[i].left > 0
  <2>1. n + 1 \in 1 .. m /\ n + 1 <= i /\ n < m
    BY <1>1, <1>5, <1>8
  <2>2. left[n + 1].left # 0 /\ left[n + 1].left <= left[i].left
    BY <1>5, <1>7, <2>1
  <2>3. left[n + 1].left >= 0
    BY <1>1, <1>2, <2>1 DEF OnTime
  <2>4. QED BY <1>2, <2>1, <2>2, <2>3
<1>9. \A i \in DOMAIN r : r[i].left > 0
  BY <1>1, <1>5, <1>6, <1>8
<1>10. \A i \in DOMAIN r : \A j \in 1 .. i : r[j].left <= r[i].left
  <2> SUFFICES ASSUME NEW i \in DOMAIN r, NEW j \in 1 .. i PROVE r[j].left <= r[i].left
    OBVIOUS
  <2>1. i \in 1 .. m - n /\ j \in 1 .. m - n /\ j <= i
    BY <1>1, <1>5, <1>6
  <2>2. n + j <= n + i /\ n + j \in 1 .. m /\ n + i \in 1 .. m
    BY <1>1, <1>5, <1>6, <2>1
  <2>3. QED BY <1>6, <1>7, <2>1, <2>2
<1>11. \A i, j \in 1 .. m : left[i].p = left[j].p => i = j
  BY <1>1, <1>2 DEF OnTime
<1>12. \A i, j \in DOMAIN r : r[i].p = r[j].p => i = j
  <2> SUFFICES ASSUME NEW i \in DOMAIN r, NEW j \in DOMAIN r, r[i].p = r[j].p PROVE i = j
    OBVIOUS
  <2>1. n + i = n + j
    BY <1>6, <1>11
  <2>2. QED BY <1>1, <1>5, <1>6, <2>1
<1>13. ASSUME NEW b \in Blocks
       PROVE  b \in B \ woken <=> \E i \in DOMAIN r : r[i].p = b
  <2>1. b \in B <=> \E i \in 1 .. m : left[i].p = b
    BY <1>1, <1>2 DEF OnTime
  <2>2. ASSUME b \in B \ woken PROVE \E i \in DOMAIN r : r[i].p = b
    <3>1. PICK i \in 1 .. m : left[i].p = b
      BY <2>1, <2>2
    <3>2. i \notin 1 .. n
      BY <2>2, <3>1
    <3>3. i - n \in 1 .. m - n /\ n + (i - n) = i
      BY <1>1, <1>5, <3>2
    <3>4. r[i - n] = left[i]
      BY <1>6, <3>3
    <3>5. QED BY <1>6, <3>1, <3>3, <3>4
  <2>3. ASSUME NEW i \in DOMAIN r, r[i].p = b PROVE b \in B \ woken
    <3>1. n + i \in 1 .. m /\ left[n + i].p = b /\ n + i > n
      BY <1>1, <1>5, <1>6, <2>3
    <3>2. b \in B
      BY <2>1, <3>1
    <3>3. \A j \in 1 .. n : left[j].p # b
      <4> SUFFICES ASSUME NEW j \in 1 .. n, left[j].p = b PROVE FALSE
        OBVIOUS
      <4>1. j \in 1 .. m /\ j < n + i
        BY <1>1, <1>5, <3>1
      <4>2. j = n + i
        BY <1>11, <3>1, <4>1
      <4>3. QED BY <1>5, <4>1, <4>2
    <3>4. QED BY <3>2, <3>3
  <2>4. QED BY <2>2, <2>3
<1>14. OnTime(r, B \ woken)
  BY <1>9, <1>10, <1>12, <1>13 DEF OnTime
<1>15. QED BY <1>6, <1>14 DEF r, n, left

LEMMA ScheduleTick ==
    ASSUME Inv, Schedule, Tick
    PROVE  Schedule'
<1> DEFINE left  == Later(sleeping_list)
           n     == Due(left)
           woken == {left[i].p : i \in 1 .. n}
<1>1. /\ sleeping_list' = SubSeq(left, n + 1, Len(left))
      /\ flags' = [b \in Blocks |-> IF b \in woken THEN flags[b] \ {"SLEEP"} ELSE flags[b]]
      /\ FindNextThread(thread_list, flags')
      /\ tick_skew' = (tick_skew \/ kernel_running # 0)
      /\ UNCHANGED <<kernel_running, priority, at>>
  BY DEF Tick, Later, Due
<1>2. sleeping_list \in Seq(Sleepers) /\ OnTime(sleeping_list, Asleep)
  BY OnTimeMeans DEF Schedule, ScheduleTypes, Sleepers
<1>3. Asleep \in SUBSET Blocks
  BY DEF Asleep
<1>4. sleeping_list' \in Seq(Sleepers) /\ OnTime(sleeping_list', Asleep \ woken)
  BY <1>1, <1>2, <1>3, TickOnTime
<1> HIDE DEF woken, n, left
<1>5. \A b \in Blocks : /\ "SLEEP" \in flags'[b] <=> "SLEEP" \in flags[b] /\ b \notin woken
                        /\ "DELETED" \in flags'[b] <=> "DELETED" \in flags[b]
                        /\ flags'[b] \subseteq flags[b]
  BY <1>1
<1>6. Asleep' = Asleep \ woken
  BY <1>5 DEF Asleep
<1>7. SleepersOnTime' /\ SleepOnce'
  <2>1. OnTime(sleeping_list, Asleep)'
    BY <1>4, <1>6 DEF OnTime
  <2>2. OnTime(sleeping_list, Asleep)' <=> SleepersOnTime' /\ SleepOnce'
    BY OnTimeMeans, PTL
  <2>3. QED BY <2>1, <2>2
<1>8. Lives'
  BY <1>1, <1>5 DEF Schedule, Lives
<1>9. kernel_running # 0 => cur \in Blocks /\ Ready(flags'[cur]) /\ at'[cur] = "run"
  BY <1>1, <1>5 DEF Schedule, ScheduleTypes, Runner, Ready
<1>10. sleeping_list' \in Seq([p : Blocks, left : Int]) /\ tick_skew' \in BOOLEAN
  BY <1>1, <1>4 DEF Sleepers, Schedule, ScheduleTypes
<1>11. QED BY <1>1, <1>7, <1>8, <1>9, <1>10, ScheduleSwitch

-----------------------------------------------------------------------------
(* The invariant, and what follows from it.                                *)

LEMMA ScheduleInit == Init => Schedule
<1> SUFFICES ASSUME Init PROVE Schedule
  OBVIOUS
<1>1. Main \in Blocks /\ MainPriority \in Priorities /\ Main # Idle /\ MaxPause \in Nat
      /\ 0 \in Priorities
  BY KernelAssumption DEF Priorities
<1>2. /\ thread_list = [p \in Priorities |-> IF p = MainPriority THEN <<Main>> ELSE <<>>]
      /\ cur = Main /\ kernel_running = 0 /\ tick_skew = FALSE /\ sleeping_list = <<>>
      /\ priority = [b \in Blocks |-> IF b = Main THEN MainPriority ELSE 0]
      /\ flags = [b \in Blocks |-> IF b = Main THEN {"DETACHED"} ELSE {}]
      /\ at = [b \in Blocks |-> IF b = Main THEN "run" ELSE "free"]
  BY DEF Init
<1>3. <<Main>> \in Seq(Blocks) /\ DOMAIN <<Main>> = {1} /\ <<Main>>[1] = Main
  <2>1. Len(<<Main>>) = 1 /\ <<Main>> \in Seq(Blocks) /\ <<Main>>[1] = Main
    BY <1>1
  <2>2. DOMAIN <<Main>> = 1 .. 1 /\ 1 .. 1 = {1}
    BY <2>1
  <2>3. QED BY <2>1, <2>2
<1>4. <<>> \in Seq(Blocks) /\ DOMAIN <<>> = {}
  OBVIOUS
<1>5. ScheduleTypes
  <2>1. thread_list \in [Priorities -> Seq(Blocks)]
    BY <1>2, <1>3, <1>4
  <2>2. sleeping_list \in Seq([p : Blocks, left : Int])
    BY <1>2
  <2>3. priority \in [Blocks -> Priorities] /\ cur \in Blocks
    BY <1>1, <1>2
  <2>4. 0 \in 0 .. MaxPause
    BY <1>1
  <2>5. kernel_running \in 0 .. MaxPause /\ tick_skew \in BOOLEAN
    BY <1>2, <2>4, Zenon
  <2>6. QED BY <2>1, <2>2, <2>3, <2>5 DEF ScheduleTypes
<1>6. Lists
  <2>1. \A p \in Priorities, b \in Blocks :
            Occurs(thread_list[p], b) <=> p = MainPriority /\ b = Main
    BY <1>2, <1>3, <1>4 DEF Occurs
  <2>2. \A p \in Priorities : Distinct(thread_list[p])
    BY <1>2, <1>3, <1>4 DEF Distinct
  <2>3. QED BY <1>1, <1>2, <2>1, <2>2 DEF Lists
<1>7. Runner /\ Lives
  BY <1>1, <1>2 DEF Runner, Lives, Ready, NotReady
<1>8. SleepersOnTime /\ SleepOnce
  <2>1. DOMAIN sleeping_list = {}
    BY <1>2, <1>4
  <2>2. QED BY <1>2, <2>1 DEF SleepersOnTime, SleepOnce
<1>9. QED BY <1>5, <1>6, <1>7, <1>8 DEF Schedule

LEMMA ScheduleStep == Inv /\ Schedule /\ [Next]_vars => Schedule'
<1> SUFFICES ASSUME Inv, Schedule, [Next]_vars PROVE Schedule'
  OBVIOUS
<1>1. CASE Tick
  BY <1>1, ScheduleTick
<1>2. CASE IdleThread
  <2>1. /\ cur = Idle /\ RemoveDeadThreads
        /\ UNCHANGED <<cur, kernel_running, tick_skew, sleeping_list, priority>>
    BY <1>2 DEF IdleThread
  <2>2. QED BY <2>1, ScheduleRemove
<1>3. ASSUME NEW t \in Blocks, Reap(t) PROVE Schedule'
  <2>1. /\ cur = t /\ at[t] = "reap" /\ RemoveDeadThreads
        /\ UNCHANGED <<cur, kernel_running, tick_skew, sleeping_list, priority>>
    BY <1>3 DEF Reap
  <2>2. QED BY <2>1, ScheduleRemove
<1>4. ASSUME NEW t \in Blocks, Yield(t) \/ JoinResume(t) \/ Exit(t) PROVE Schedule'
  BY <1>4, ScheduleYield, ScheduleJoinResume, ScheduleExit
<1>5. ASSUME NEW t \in Blocks, NEW b \in Blocks, NEW pr \in Priorities, NEW o \in Options,
             Create(t, b, pr, o)
      PROVE  Schedule'
  BY <1>5, ScheduleCreate
<1>6. CASE Common
  BY <1>1, <1>2, <1>3, <1>4, <1>5, <1>6 DEF Common
<1>7. CASE Waiting
  BY <1>7, ScheduleWait, ScheduleWakeup, ScheduleSleep DEF Waiting
<1>8. CASE Pausing
  BY <1>8, SchedulePausing DEF Pausing
<1>9. CASE Setting
  BY <1>9, ScheduleSetPriority DEF Setting
<1>10. CASE Joining(Blocks)
  BY <1>10, ScheduleJoin, ScheduleDetach DEF Joining
<1>11. CASE UNCHANGED vars
  <2>1. UNCHANGED <<thread_list, cur, kernel_running, tick_skew, sleeping_list, priority,
                    flags, at>>
    BY <1>11 DEF vars, threadVars
  <2>2. QED
    BY <2>1 DEF Schedule, ScheduleTypes, Lists, Runner, Lives, SleepOnce, SleepersOnTime
<1>12. QED BY <1>6, <1>7, <1>8, <1>9, <1>10, <1>11 DEF Next

LEMMA ScheduleHolds == Spec => [](Inv /\ Schedule)
<1>1. Init => Inv /\ Schedule
  BY InvInit, ScheduleInit
<1>2. Inv /\ Schedule /\ [Next]_vars => (Inv /\ Schedule)'
  BY InvStep, ScheduleStep
<1>3. QED BY <1>1, <1>2, PTL DEF Spec

\* The variables of the kernel have their types: the scheduler chooses among
\* the threads of its lists or takes the idle thread, and restartKernel never
\* counts below 0.
THEOREM KernelTypes == Spec => []TypeOK
<1>1. Inv /\ Schedule => TypeOK
  BY DEF Inv, ThreadTypes, Schedule, ScheduleTypes, TypeOK
<1>2. QED BY <1>1, ScheduleHolds, PTL

\* Every thread is once in the list of its priority, and in no other, whatever
\* is created, moved, rotated and deleted, so PKsetPriority finds it and
\* PKremoveDeadThreads takes all of it.
THEOREM EachInItsList == Spec => []ListsAgree
<1>1. ASSUME Schedule, NEW p \in Priorities, NEW b \in Blocks
      PROVE  Cardinality({i \in DOMAIN thread_list[p] : thread_list[p][i] = b})
                 = IF at[b] # "free" /\ priority[b] = p THEN 1 ELSE 0
  <2> DEFINE s      == thread_list[p]
             places == {i \in DOMAIN s : s[i] = b}
  <2>1. Distinct(s) /\ (Occurs(s, b) <=> at[b] # "free" /\ priority[b] = p)
    BY <1>1 DEF Schedule, Lists
  <2>2. CASE Occurs(s, b)
    <3>1. PICK i \in DOMAIN s : s[i] = b
      BY <2>2 DEF Occurs
    <3>2. places = {i}
      BY <2>1, <3>1 DEF Distinct
    <3>3. Cardinality(places) = 1
      BY <3>2, FS_Singleton
    <3>4. QED BY <2>1, <2>2, <3>3
  <2>3. CASE ~Occurs(s, b)
    <3>1. places = {}
      BY <2>3 DEF Occurs
    <3>2. Cardinality(places) = 0
      BY <3>1, FS_EmptySet
    <3>3. QED BY <2>1, <2>3, <3>2
  <2>4. QED BY <2>2, <2>3
<1>2. Schedule => ListsAgree
  BY <1>1 DEF ListsAgree
<1>3. QED BY <1>2, ScheduleHolds, PTL

\* The sleeping list is sorted, all its times are still to come, and it holds
\* just the threads that sleep: IRQwakeThreads, which looks at its front only
\* and compares with =, passes nobody over.
THEOREM NobodyOversleeps == Spec => []SleepersOnTime
<1>1. Schedule => SleepersOnTime
  BY DEF Schedule
<1>2. QED BY <1>1, ScheduleHolds, PTL
=============================================================================
