------------------------------- MODULE Vault -------------------------------
(***************************************************************************)
(* What a user may expect of the password manager.  Each slot holds        *)
(* nothing, or a vault: a bag of entries under a master password.  One     *)
(* session at a time works on a copy of one vault; a commit replaces the   *)
(* vault by the copy in one step, and whatever ends the session throws the *)
(* copy away.  Entries form a bag because add never looks for an earlier   *)
(* entry of the same website, and remove may change their order.           *)
(***************************************************************************)
EXTENDS Naturals

CONSTANTS Slots, Sites, Words, Masters,
          NoKey,      \* no master password anybody chose
          NoVault,    \* a slot that holds nothing
          NoSession   \* nobody is logged in

Entry == [website : Sites, password : Words]
EmptyBag == [e \in Entry |-> 0]

VARIABLES vault, session
vars == <<vault, session>>

Exchanged(bag, old, new) == [[bag EXCEPT ![old] = @ - 1] EXCEPT ![new] = @ + 1]

Sealed == [key : Masters \cup {NoKey}, entries : [Entry -> Nat]]
Session == [slot : Slots, fresh : BOOLEAN,
            key : Masters \cup {NoKey}, entries : [Entry -> Nat]]

TypeOK == /\ vault \in [Slots -> Sealed \cup {NoVault}]
          /\ session \in Session \cup {NoSession}

Init == /\ vault = [s \in Slots |-> NoVault]
        /\ session = NoSession

-----------------------------------------------------------------------------
\* The master password of the vault, and no other, opens it.
Open(s, k) ==
    /\ session = NoSession
    /\ vault[s] # NoVault
    /\ vault[s].key = k
    /\ session' = [slot |-> s, fresh |-> FALSE, key |-> k,
                   entries |-> vault[s].entries]
    /\ UNCHANGED vault

\* An empty slot is open to everyone.
OpenFresh(s, k) ==
    /\ session = NoSession
    /\ vault[s] = NoVault
    /\ session' = [slot |-> s, fresh |-> TRUE, key |-> k, entries |-> EmptyBag]
    /\ UNCHANGED vault

Put(e) ==
    /\ session # NoSession
    /\ session' = [session EXCEPT !.entries[e] = @ + 1]
    /\ UNCHANGED vault

Take(e) ==
    /\ session # NoSession
    /\ session.entries[e] > 0
    /\ session' = [session EXCEPT !.entries[e] = @ - 1]
    /\ UNCHANGED vault

\* One entry gets another password.
Renew(e, word) ==
    /\ session # NoSession
    /\ session.entries[e] > 0
    /\ session' = [session EXCEPT !.entries =
                      Exchanged(session.entries, e, [e EXCEPT !.password = word])]
    /\ UNCHANGED vault

Rekey(k) ==
    /\ session # NoSession
    /\ session' = [session EXCEPT !.key = k]
    /\ UNCHANGED vault

\* The user of a slot that was empty chooses the master password here.
Commit(k) ==
    /\ session # NoSession
    /\ session' = [session EXCEPT !.key = IF session.fresh THEN k ELSE @]
    /\ vault' = [vault EXCEPT ![session.slot] =
                    [key |-> session'.key, entries |-> session.entries]]

Delete ==
    /\ session # NoSession
    /\ vault' = [vault EXCEPT ![session.slot] = NoVault]
    /\ session' = NoSession

Close == session' = NoSession /\ UNCHANGED vault

Next ==
    \/ \E s \in Slots, k \in Masters \cup {NoKey} : Open(s, k) \/ OpenFresh(s, k)
    \/ \E e \in Entry : Put(e) \/ Take(e) \/ \E word \in Words : Renew(e, word)
    \/ \E k \in Masters : Rekey(k) \/ Commit(k)
    \/ Delete \/ Close

Spec == Init /\ [][Next]_vars
=============================================================================
