-------------------------------- MODULE Fifo --------------------------------
(***************************************************************************)
(* What those who use a queue may expect: a bounded channel that gives     *)
(* back what was put into it, once, in order, unless it is cleared.        *)
(***************************************************************************)
EXTENDS Naturals, Sequences

CONSTANTS Values, Capacity, NoValue

VARIABLES
    items,      \* what was put and not yet taken
    out         \* what was taken last

vars == <<items, out>>

Init == items = <<>> /\ out = NoValue

Put(v) ==
    /\ Len(items) < Capacity
    /\ items' = Append(items, v)
    /\ UNCHANGED out

Get ==
    /\ items # <<>>
    /\ out' = Head(items)
    /\ items' = Tail(items)

Clear == items' = <<>> /\ UNCHANGED out

Next == (\E v \in Values : Put(v)) \/ Get \/ Clear

Spec == Init /\ [][Next]_vars
=============================================================================
