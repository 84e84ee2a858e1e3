----------------------- MODULE PasswordManagerVault -----------------------
(***************************************************************************)
(* PasswordManager implements Vault, as long as the calls of the flash     *)
(* driver succeed and the power stays on while storeData runs.             *)
(***************************************************************************)
EXTENDS PasswordManager, FiniteSets

CONSTANTS NoVault, NoSession

BagOf(es) ==
    [e \in WPTuple |-> Cardinality({i \in DOMAIN es : es[i] = e})]

\* The vault on the flash: the key and the entries it is the image of.
Opened(image) ==
    {it \in (Masters \cup {NoKey}) \X [1 .. Count(image) -> WPTuple] :
        Holds(image, it[1], it[2])}

VaultOnFlash(image) ==
    IF image.ident /\ Count(image) \in 0 .. MaxStored /\ Opened(image) # {}
    THEN LET it == CHOOSE it \in Opened(image) : TRUE
         IN  [key |-> it[1], entries |-> BagOf(it[2])]
    ELSE NoVault

\* A commit counts as done when it has encrypted; storeData is bound to
\* follow.  Until the login prompt is passed there is no session.
vaultBar ==
    [s \in Slots |->
        IF mode \in StoreModes /\ s = slot
        THEN [key |-> key, entries |-> BagOf(passwords)]
        ELSE VaultOnFlash(flash[s])]

sessionBar ==
    IF mode \in {"menu"} \cup StoreModes
    THEN [slot |-> slot, fresh |-> firstUse, key |-> key,
          entries |-> BagOf(passwords)]
    ELSE NoSession

Abstract == INSTANCE Vault WITH vault <- vaultBar, session <- sessionBar

ASSUME AbsenceAssumption ==
    NoVault \notin Abstract!Sealed /\ NoSession \notin Abstract!Session

\* What is committed is what the next session with that master password
\* sees, commands on one entry leave the others as they are, and only the
\* master password of a vault opens it: every step of the program is a step
\* of Vault or none at all.
ImplementsVault == Abstract!Spec

\* Which of its steps: to remove a website takes out one of its own entries,
\* although the program does it by overwriting that entry with another.
RemoveTakesItsOwn ==
    [][\A site \in Sites : Remove(site) =>
            \E e \in WPTuple : e.website = site /\ Abstract!Take(e)]_vars
=============================================================================
