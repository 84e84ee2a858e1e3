----------------------------- MODULE FlashCalls -----------------------------
(***************************************************************************)
(* What a program may expect of the calls of FlashDriver, whatever the     *)
(* registers of the flash interface do: a call does its work, whole and on *)
(* nothing else, before it returns.  Only a loss of power leaves work that *)
(* is done in part, and only that of a call in progress.                   *)
(***************************************************************************)
CONSTANTS Threads, Sectors, Places, Values, Erased, Mixed, None

Cells  == Sectors \X Places
States == {Erased, Mixed} \cup Values

\* What programming v makes of a cell: bits can only be cleared.
Programmed(old, v) == IF old \in {Erased, v} THEN v ELSE Mixed

\* What calls ask for, the cells it is about, and what it makes of them.
All            == [kind |-> "all"]
Sector(s)      == [kind |-> "sector", sector |-> s]
Cell(x, v)     == [kind |-> "cell", cell |-> x, value |-> v]
Work == {All} \cup {Sector(s) : s \in Sectors} \cup {Cell(x, v) : x \in Cells, v \in Values}

Target(w) ==
    {x \in Cells : \/ w.kind = "all"
                   \/ w.kind = "sector" /\ x[1] = w.sector
                   \/ w.kind = "cell" /\ x = w.cell}

After(w, c) ==
    [x \in Cells |-> IF x \notin Target(w) THEN c[x]
                     ELSE IF w.kind = "cell" THEN Programmed(c[x], w.value)
                     ELSE Erased]

VARIABLES
    content,    \* of a cell
    work,       \* of a thread: what its call asks for, None between calls
    done        \* those whose call has done its work

vars == <<content, work, done>>

Init ==
    /\ content = [x \in Cells |-> Erased]
    /\ work = [t \in Threads |-> None]
    /\ done = {}

Call(t, w) ==
    /\ work[t] = None /\ work' = [work EXCEPT ![t] = w]
    /\ UNCHANGED <<content, done>>

Do(t) ==
    /\ work[t] # None /\ t \notin done
    /\ content' = After(work[t], content)
    /\ done' = done \cup {t}
    /\ UNCHANGED work

Return(t) ==
    /\ t \in done
    /\ work' = [work EXCEPT ![t] = None] /\ done' = done \ {t}
    /\ UNCHANGED content

PowerLoss ==
    /\ \E w \in {work[t] : t \in Threads}, torn \in [Cells -> States] :
          content' = [x \in Cells |-> IF w # None /\ x \in Target(w) THEN torn[x]
                                      ELSE content[x]]
    /\ work' = [t \in Threads |-> None] /\ done' = {}

Next == PowerLoss \/ \E t \in Threads : Do(t) \/ Return(t) \/ \E w \in Work : Call(t, w)

Spec == Init /\ [][Next]_vars
=============================================================================
