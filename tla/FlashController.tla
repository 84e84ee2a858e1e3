-------------------------- MODULE FlashController --------------------------
(***************************************************************************)
(* The calls of FlashDriver, access by access to the registers of the      *)
(* flash interface, and the interface as the code relies on it.            *)
(*                                                                         *)
(* Interrupts are disabled in a call, so no other thread runs in it; the   *)
(* interface works on its own, and the power may go at any moment.  The    *)
(* writes of half words, words and buffers are sequences of calls; a word  *)
(* is no more than its two halves.  PSIZE is left out: each call clears it *)
(* and sets the size that it uses.                                         *)
(*                                                                         *)
(* A store to CR waits while the interface is busy.  A statement like      *)
(* CR |= x reads CR first, which does not wait, and stores what it read:   *)
(* the one that sets PSIZE after STRT may store STRT once more, and the    *)
(* erase runs a second time.                                               *)
(***************************************************************************)
EXTENDS Integers, FiniteSets

CONSTANTS
    Threads,         \* who calls the driver
    Sectors,         \* sectors, by their numbers
    Places, Values,  \* places in a sector, and what is programmed there
    Erased, Mixed,   \* all ones; what is neither erased nor one value
    None

VARIABLES
    content,         \* of a cell, that is, of a sector and a place in it
    lockBit,         \* CR: LOCK
    keyed,           \* FALSE when LOCK cannot be cleared before the next reset
    bits,            \* CR: those of PG, SER, MER and STRT that are set
    snb,             \* CR: the places of the bits that are set in SNB
    running,         \* what the interface is doing; None when BSY is not set
    at,              \* of a thread: its next access
    call,            \* of a thread: what it asked for, None between two calls
    read,            \* of a thread: what a statement read from CR
    done             \* threads whose call the interface has done: a history

regs == <<lockBit, keyed, bits, snb>>
vars == <<content, regs, running, at, call, read, done>>

Calls == INSTANCE FlashCalls WITH work <- call

FlashBits == {"PG", "SER", "MER", "STRT"}

ASSUME FlashAssumption ==
    /\ Threads # {} /\ Sectors \subseteq 0 .. 11
    /\ Erased # Mixed /\ {Erased, Mixed} \cap Values = {}
    /\ None \notin Calls!Work

Init ==
    /\ content = [x \in Calls!Cells |-> Erased]
    /\ lockBit = TRUE /\ keyed = TRUE /\ bits = {} /\ snb = {}
    /\ running = None
    /\ at = [t \in Threads |-> "program"]
    /\ call = [t \in Threads |-> None]
    /\ read = [t \in Threads |-> {}]
    /\ done = {}

-----------------------------------------------------------------------------
(* The interface.                                                          *)

\* A number from the places of the bits that are set in it, and the places.
Places4 == 0 .. 3
Number(S) ==
    LET Worth(i, n) == IF i \in S THEN n ELSE 0
    IN  Worth(0, 1) + Worth(1, 2) + Worth(2, 4) + Worth(3, 8)
Bits(n)   == CHOOSE S \in SUBSET Places4 : Number(S) = n

\* CR is stored with these bits: STRT starts an erase.
Stored(b, s) ==
    /\ running = None
    /\ bits' = b /\ snb' = s
    /\ running' = IF "STRT" \notin b THEN None
                  ELSE IF "MER" \in b THEN Calls!All ELSE Calls!Sector(Number(s))

Finish ==
    /\ running # None
    /\ content' = Calls!After(running, content)
    /\ done' = done \cup {t \in Threads : call[t] = running /\ at[t] # "program"}
    /\ running' = None
    /\ bits' = bits \ {"STRT"}
    /\ UNCHANGED <<lockBit, keyed, snb, at, call, read>>

\* What the interface was working on may be left in any state.
PowerLoss ==
    /\ \E torn \in [Calls!Cells -> Calls!States] :
          content' = [x \in Calls!Cells |->
                        IF running # None /\ x \in Calls!Target(running) THEN torn[x]
                        ELSE content[x]]
    /\ lockBit' = TRUE /\ keyed' = TRUE /\ bits' = {} /\ snb' = {}
    /\ running' = None
    /\ at' = [t \in Threads |-> "program"]
    /\ call' = [t \in Threads |-> None]
    /\ read' = [t \in Threads |-> {}]
    /\ done' = {}

-----------------------------------------------------------------------------
(* The driver.                                                             *)

Goes(t, from, to) == at[t] = from /\ at' = [at EXCEPT ![t] = to]

\* Wrong: interrupts stay enabled.
AnyoneEnters == TRUE

\* InterruptDisableLock.
NobodyInside == \A u \in Threads : at[u] = "program"

Enter(t, w) ==
    /\ NobodyInside /\ Goes(t, "program", "unlock")
    /\ call' = [call EXCEPT ![t] = w]
    /\ UNCHANGED <<content, regs, running, read, done>>

\* The keys are for a locked register: given to another, they may lock it up.
Unlock(t) ==
    /\ Goes(t, "unlock", "check")
    /\ keyed' \in {keyed, keyed /\ lockBit}
    /\ lockBit' = ~keyed'
    /\ UNCHANGED <<content, bits, snb, running, call, read, done>>

\* A call that finds CR locked or the interface busy returns false, and
\* leaves CR as it is.
Check(t) ==
    LET refused == lockBit \/ running # None IN
    /\ Goes(t, "check", IF refused THEN "program" ELSE "start")
    /\ call' = IF refused THEN [call EXCEPT ![t] = None] ELSE call
    /\ UNCHANGED <<content, lockBit, keyed, bits, snb, running, read, done>>

StartErase(t) ==
    /\ Goes(t, "start", "read")
    /\ \/ call[t].kind = "all" /\ Stored(bits \cup {"MER", "STRT"}, snb)
       \/ call[t].kind = "sector"
          /\ Stored(bits \cup {"SER", "STRT"}, snb \cup Bits(call[t].sector))
    /\ UNCHANGED <<content, lockBit, keyed, call, read, done>>

ReadCR(t) ==
    /\ Goes(t, "read", "size")
    /\ read' = [read EXCEPT ![t] = bits]
    /\ UNCHANGED <<content, regs, running, call, done>>

StoreSize(t) ==
    /\ Goes(t, "size", "wait")
    /\ Stored(read[t], snb)
    /\ UNCHANGED <<content, lockBit, keyed, call, read, done>>

StartProgram(t) ==
    /\ Goes(t, "start", "data")
    /\ call[t].kind = "cell" /\ Stored(bits \cup {"PG"}, snb)
    /\ UNCHANGED <<content, lockBit, keyed, call, read, done>>

\* The store of the data; it has no effect unless PG alone is set.
StoreData(t) ==
    /\ running = None /\ Goes(t, "data", "wait")
    /\ running' = IF bits = {"PG"} THEN call[t] ELSE None
    /\ UNCHANGED <<content, regs, call, read, done>>

\* Wrong: the loop waits for BSY to be set.
WaitForBusy == running # None

Idle == running = None

Wait(t) ==
    /\ Idle /\ Goes(t, "wait", "clear")
    /\ UNCHANGED <<content, regs, running, call, read, done>>

\* The bit that says what the interface does for a call.
Asked(w) == IF w.kind = "all" THEN "MER" ELSE IF w.kind = "sector" THEN "SER" ELSE "PG"

Clear(t) ==
    /\ Goes(t, "clear", IF call[t].kind = "sector" THEN "sector" ELSE "lock")
    /\ Stored(bits \ {Asked(call[t])}, snb)
    /\ UNCHANGED <<content, lockBit, keyed, call, read, done>>

\* Wrong: the sector of the last erase stays.
SectorKept == snb

SectorCleared == {}

ClearSector(t) ==
    /\ Goes(t, "sector", "lock")
    /\ Stored(bits, SectorCleared)
    /\ UNCHANGED <<content, lockBit, keyed, call, read, done>>

\* The call locks CR and returns true.
Lock(t) ==
    /\ running = None /\ Goes(t, "lock", "program")
    /\ lockBit' = TRUE
    /\ call' = [call EXCEPT ![t] = None]
    /\ done' = done \ {t}
    /\ UNCHANGED <<content, keyed, bits, snb, running, read>>

Step(t) ==
    \/ Unlock(t) \/ Check(t)
    \/ StartErase(t) \/ ReadCR(t) \/ StoreSize(t)
    \/ StartProgram(t) \/ StoreData(t)
    \/ Wait(t) \/ Clear(t) \/ ClearSector(t) \/ Lock(t)

Next ==
    \/ Finish
    \/ PowerLoss
    \/ \E t \in Threads : Step(t) \/ \E w \in Calls!Work : Enter(t, w)

Spec == Init /\ [][Next]_vars

\* The interface finishes what it does, and a call goes on: nothing else runs.
FairSpec == Spec /\ WF_vars(Finish) /\ \A t \in Threads : WF_vars(Step(t))

-----------------------------------------------------------------------------
\* Between calls CR is locked, says nothing of an operation or a sector, and
\* the interface rests: the next call puts its bits on top of what is there,
\* and gives the keys to a register it takes to be locked.
RegistersAtRest ==
    (\A t \in Threads : at[t] = "program") =>
        /\ lockBit /\ bits = {} /\ snb = {} /\ running = None

\* A call that returns has done its work, all of it and nothing else; none
\* returns false.
ImplementsCalls == Calls!Spec

\* Every call returns, or the power goes.
CallsReturn == \A t \in Threads : []<>(call[t] = None)
=============================================================================
