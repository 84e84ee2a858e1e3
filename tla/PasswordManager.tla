-------------------------- MODULE PasswordManager --------------------------
(***************************************************************************)
(* The password manager firmware: main() runs the slot menu                *)
(* (SlotPasswordManager), which creates a PasswordManager for the chosen   *)
(* slot, which loads, decrypts, edits, encrypts and stores one vault in    *)
(* the flash through the FlashDriver.  One thread does it all, so what     *)
(* interleaves with it is its environment: the power can go at any moment, *)
(* and any call of the flash driver can return false.                      *)
(*                                                                         *)
(* The user's input is chosen freely.  Commands that change no state       *)
(* (help, search, printAll, a refused command) are stuttering steps.       *)
(***************************************************************************)
EXTENDS FlashDriver, Sequences

CONSTANTS
    Slots,           \* the slots in use, of the four the menu offers
    Sites, Words,    \* website names and website passwords
    Masters,         \* master passwords; MD5 is taken to be injective, so a
                     \* master password also stands for the key made from it
    NoKey,           \* a key nobody typed: what uninitialised memory holds
    MaxStored,       \* MAXSTORED
    Erased, Garbage, \* a cell of all ones; a cell no cipher text equals
    FlashErrors,     \* may calls of the driver return false?
    LossDuringStore  \* may the power go while storeData runs?

ASSUME SlotsAssumption == Slots \subseteq 1 .. 4
ASSUME MaxStoredAssumption == MaxStored \in Nat /\ MaxStored < 32768
ASSUME FaultAssumption == FlashErrors \in BOOLEAN /\ LossDuringStore \in BOOLEAN

VARIABLES
    flash,           \* what the flash holds at the address of each slot
    mode,            \* where the thread is: a prompt, or a step of storeData
    slot,            \* the slot of the current PasswordManager, 0 for none
    key, firstUse, changed, numOfPass, passwords, encryptedData,
    at,              \* storeData: which byte or cell is written next
    success          \* storeData: no call has failed so far

session == <<slot, key, firstUse, changed, numOfPass, passwords, encryptedData>>
store == <<at, success>>
vars == <<flash, mode, session, store>>

-----------------------------------------------------------------------------
(***************************************************************************)
(* Data.  The plain text of a vault is its tuples followed by the MD5 of   *)
(* all of them, one cell per tuple and one for the checksum.  CBC chains   *)
(* the cells and the initialisation vector is derived from the key, so a   *)
(* cell of cipher text is determined by the key and by the plain text up   *)
(* to it, and identifies both.                                             *)
(***************************************************************************)
WPTuple == [website : Sites, password : Words]
Checksum == [md5 : Seq(WPTuple)]
Cell == [key : Masters \cup {NoKey}, plain : Seq(WPTuple \cup Checksum)]
            \cup {Erased, Garbage}

PlainText(es) == Append(es, [md5 |-> es])

Encrypt(k, es) ==
    [i \in 1 .. Len(es) + 1 |->
        [key |-> k, plain |-> SubSeq(PlainText(es), 1, i)]]

(***************************************************************************)
(* A slot in the flash: "PWM" and its terminating zero (which strcmp finds *)
(* or does not find), the two bytes of numOfPass, low byte first, and the  *)
(* cells of encryptedData.  No key ever makes an image that is not exactly *)
(* a cipher text decrypt: MD5 is taken to reject it.                       *)
(***************************************************************************)
DataCells == 1 .. MaxStored + 1

Image == [ident : BOOLEAN, count : [{0, 1} -> Byte], data : [DataCells -> Cell]]

Blank == [ident |-> FALSE,
          count |-> [i \in {0, 1} |-> ErasedByte],
          data  |-> [i \in DataCells |-> Erased]]

\* numOfPass as loadData reads it: a signed 16 bit integer
Count(image) ==
    LET n == image.count[0] + 256 * image.count[1]
    IN  IF n < 32768 THEN n ELSE n - 65536

CountBytesHighFirst(n) == [i \in {0, 1} |-> IF i = 0 THEN n \div 256 ELSE n % 256]
CountBytes(n) == [i \in {0, 1} |-> IF i = 0 THEN n % 256 ELSE n \div 256]

\* the image is what a complete storeData leaves behind
Holds(image, k, es) ==
    /\ image.ident
    /\ Count(image) = Len(es)
    /\ \A i \in 1 .. Len(es) + 1 : image.data[i] = Encrypt(k, es)[i]

\* programming over a cell that was not erased
ProgramCell(old, new) == IF old \in {Erased, new} THEN new ELSE Garbage

\* as if slot 2 had been given the first address of sector 11
SlotAddressSharing(s) == <<135233536, 135135232, 134873088, 134840320>>[s]

\* ADDRESS1 to ADDRESS4: 0x080F8000, 0x080C0000, 0x080A0000, 0x08098000
SlotAddress(s) == <<135233536, 135004160, 134873088, 134840320>>[s]

\* FlashDriver::erase: everything in the sector reads 0xFF afterwards
EraseSector(n) ==
    [s \in Slots |-> IF SectorNumber(SlotAddress(s)) = n THEN Blank ELSE flash[s]]

-----------------------------------------------------------------------------
(***************************************************************************)
(* Sessions.  "slot" and "again" are the two prompts of the slot menu,     *)
(* "master" is the login prompt, "menu" the command prompt; the store      *)
(* modes are the calls storeData makes, in their order.                    *)
(***************************************************************************)
StoreModes == {"erase", "ident", "count", "data", "stored"}
Modes == {"slot", "master", "menu", "again"} \cup StoreModes

TypeOK ==
    /\ flash \in [Slots -> Image]
    /\ mode \in Modes
    /\ slot \in Slots \cup {0}
    /\ key \in Masters \cup {NoKey}
    /\ firstUse \in BOOLEAN
    /\ changed \in BOOLEAN
    /\ numOfPass \in 0 .. MaxStored
    /\ passwords \in Seq(WPTuple)
    /\ encryptedData \in Seq(Cell)
    /\ at \in 0 .. MaxStored + 2
    /\ success \in BOOLEAN

\* The PasswordManager is gone: deleted, or lost with the power.
EndSession(m) ==
    /\ mode' = m
    /\ slot' = 0
    /\ key' = NoKey
    /\ firstUse' = FALSE
    /\ changed' = FALSE
    /\ numOfPass' = 0
    /\ passwords' = <<>>
    /\ encryptedData' = <<>>
    /\ at' = 0
    /\ success' = FALSE

Init ==
    /\ flash = [s \in Slots |-> Blank]
    /\ mode = "slot"
    /\ slot = 0
    /\ key = NoKey
    /\ firstUse = FALSE
    /\ changed = FALSE
    /\ numOfPass = 0
    /\ passwords = <<>>
    /\ encryptedData = <<>>
    /\ at = 0
    /\ success = FALSE

(***************************************************************************)
(* A slot without the identifier.  The constructor leaves the key          *)
(* uninitialised, so it can be the key of an earlier session.              *)
(***************************************************************************)
OpenBlank(s) ==
    /\ mode = "slot"
    /\ ~flash[s].ident
    /\ mode' = "menu"
    /\ slot' = s
    /\ firstUse' = TRUE
    /\ key' \in Masters \cup {NoKey}
    /\ UNCHANGED <<flash, changed, numOfPass, passwords, encryptedData, store>>

(***************************************************************************)
(* A slot with the identifier.  loadData trusts the count: a negative one  *)
(* makes the length of its memcpy wrap, the copy runs off the memory map   *)
(* and the fault handler reboots the board, back to the slot menu.         *)
(***************************************************************************)
OpenVault(s) ==
    /\ mode = "slot"
    /\ flash[s].ident
    /\ Count(flash[s]) \in 0 .. MaxStored
    /\ mode' = "master"
    /\ slot' = s
    /\ firstUse' = FALSE
    /\ numOfPass' = Count(flash[s])
    /\ encryptedData' = [i \in 1 .. Count(flash[s]) + 1 |-> flash[s].data[i]]
    /\ UNCHANGED <<flash, key, changed, passwords, store>>

\* as if the checksum were not compared
DecryptsWithAnyKey(p, es) ==
    \E k \in Masters \cup {NoKey} : encryptedData = Encrypt(k, es)

\* decrypt accepts: the checksum found is the MD5 of the tuples found.
Decrypts(p, es) == encryptedData = Encrypt(p, es)

\* The login prompt: createKey, then decrypt, until a password is right.
EnterMaster(p) ==
    /\ mode = "master"
    /\ key' = p
    /\ \/ \E es \in [1 .. numOfPass -> WPTuple] :
            /\ Decrypts(p, es)
            /\ passwords' = es
            /\ mode' = "menu"
       \/ /\ \A es \in [1 .. numOfPass -> WPTuple] : ~Decrypts(p, es)
          /\ UNCHANGED <<passwords, mode>>
    /\ UNCHANGED <<flash, slot, firstUse, changed, numOfPass, encryptedData,
                   store>>

-----------------------------------------------------------------------------
(***************************************************************************)
(* Commands that edit the vault in memory.                                 *)
(***************************************************************************)
\* getPosition: the last of the tuples with this website, 0 for none
Position(site) ==
    LET found == {i \in 1 .. numOfPass : passwords[i].website = site}
    IN  IF found = {} THEN 0 ELSE CHOOSE i \in found : \A j \in found : j <= i

Edited ==
    /\ mode = "menu"
    /\ changed' = TRUE
    /\ UNCHANGED <<flash, mode, slot, firstUse, encryptedData, store>>

HasSpaceUnchecked == TRUE
HasSpace == numOfPass # MaxStored

Add(site, word) ==
    /\ Edited
    /\ HasSpace
    /\ passwords' = Append(passwords, [website |-> site, password |-> word])
    /\ numOfPass' = numOfPass + 1
    /\ UNCHANGED key

RemoveWithoutMove(site) ==
    /\ Edited
    /\ Position(site) # 0
    /\ passwords' = SubSeq(passwords, 1, numOfPass - 1)
    /\ numOfPass' = numOfPass - 1
    /\ UNCHANGED key

\* The last tuple takes the place of the one removed.
Remove(site) ==
    /\ Edited
    /\ Position(site) # 0
    /\ passwords' = [i \in 1 .. numOfPass - 1 |->
                        IF i = Position(site) THEN passwords[numOfPass]
                                              ELSE passwords[i]]
    /\ numOfPass' = numOfPass - 1
    /\ UNCHANGED key

ChangePassword(site, word) ==
    /\ Edited
    /\ Position(site) # 0
    /\ passwords' = [passwords EXCEPT ![Position(site)].password = word]
    /\ UNCHANGED <<numOfPass, key>>

\* startUI sets changed before the old password is even asked for.
ChangeMasterPassword(old, new) ==
    /\ Edited
    /\ key' = IF old = key THEN new ELSE key
    /\ UNCHANGED <<passwords, numOfPass>>

-----------------------------------------------------------------------------
(***************************************************************************)
(* Commit: encrypt, then storeData.  Each call of the driver either does   *)
(* its work or returns false; storeData carries on after a failed call     *)
(* and returns the conjunction of the results.                             *)
(***************************************************************************)
Commit(p) ==
    /\ mode = "menu"
    /\ changed
    /\ key' = IF firstUse THEN p ELSE key
    /\ encryptedData' = Encrypt(key', passwords)
    /\ mode' = "erase"
    /\ success' = TRUE
    /\ UNCHANGED <<flash, slot, firstUse, changed, numOfPass, passwords, at>>

StoreErase ==
    /\ mode = "erase"
    /\ \/ flash' = EraseSector(SectorNumber(SlotAddress(slot))) /\ UNCHANGED success
       \/ FlashErrors /\ success' = FALSE /\ UNCHANGED flash
    /\ mode' = "ident"
    /\ UNCHANGED <<session, at>>

StoreIdent ==
    /\ mode = "ident"
    /\ \/ flash' = [flash EXCEPT ![slot].ident = TRUE] /\ UNCHANGED success
       \/ FlashErrors /\ success' = FALSE /\ UNCHANGED flash
    /\ mode' = "count"
    /\ at' = 0
    /\ UNCHANGED <<session>>

\* write() passes over a byte 0xFF and stops at the first byte that fails.
StoreCount ==
    /\ mode = "count"
    /\ \/ /\ at < 2
          /\ flash' = [flash EXCEPT ![slot].count[at] =
                            ByteAnd(@, CountBytes(numOfPass)[at])]
          /\ at' = at + 1
          /\ UNCHANGED <<mode, success>>
       \/ /\ at < 2 /\ FlashErrors /\ CountBytes(numOfPass)[at] # ErasedByte
          /\ success' = FALSE
          /\ mode' = "data" /\ at' = 1
          /\ UNCHANGED flash
       \/ /\ at = 2
          /\ mode' = "data" /\ at' = 1
          /\ UNCHANGED <<flash, success>>
    /\ UNCHANGED <<session>>

\* How much of encryptedData is written: the tuples, and the checksum.
CellsWithoutChecksum == numOfPass
CellsToWrite == numOfPass + 1

\* The cell being written, when the write stops somewhere in it.
TearCell ==
    /\ at <= CellsToWrite
    /\ flash[slot].data[at] # encryptedData[at]
    /\ flash' = [flash EXCEPT ![slot].data[at] = Garbage]

StoreData ==
    /\ mode = "data"
    /\ \/ /\ at <= CellsToWrite
          /\ flash' = [flash EXCEPT ![slot].data[at] =
                            ProgramCell(@, encryptedData[at])]
          /\ at' = at + 1
          /\ UNCHANGED <<mode, success>>
       \/ /\ at <= CellsToWrite /\ FlashErrors
          /\ TearCell \/ UNCHANGED flash
          /\ success' = FALSE
          /\ mode' = "stored"
          /\ UNCHANGED at
       \/ /\ at = CellsToWrite + 1
          /\ mode' = "stored"
          /\ UNCHANGED <<flash, at, success>>
    /\ UNCHANGED <<session>>

ChangedIgnoringErrors == FALSE
ChangedAfterStore == IF success THEN FALSE ELSE changed

StoreReturn ==
    /\ mode = "stored"
    /\ mode' = "menu"
    /\ changed' = ChangedAfterStore
    /\ at' = 0
    /\ success' = FALSE
    /\ UNCHANGED <<flash, slot, key, firstUse, numOfPass, passwords,
                   encryptedData>>

Store == StoreErase \/ StoreIdent \/ StoreCount \/ StoreData \/ StoreReturn

-----------------------------------------------------------------------------
(***************************************************************************)
(* Ends of a session.                                                      *)
(***************************************************************************)
\* A wrong master password, or an erase that fails, leaves all as it was.
Delete(p) ==
    /\ mode = "menu"
    /\ p = key
    /\ flash' = EraseSector(SectorNumber(SlotAddress(slot)))
    /\ EndSession("again")

\* With changes pending the user is asked once more; "no" changes nothing.
Quit ==
    /\ mode = "menu"
    /\ EndSession("again")
    /\ UNCHANGED flash

(***************************************************************************)
(* The prompt after a session.  scanf("%s") passes over empty lines and    *)
(* waits for a word.  Whatever it is, the program starts again: the loop   *)
(* condition compares two pointers, the one new returned and the one of    *)
(* the literal "".                                                         *)
(***************************************************************************)
AnswerAgain ==
    /\ mode = "again"
    /\ mode' = "slot"
    /\ UNCHANGED <<flash, session, store>>

(***************************************************************************)
(* The power goes and comes back.  Erasing a sector and programming one    *)
(* byte count as instantaneous; a data cell, being 16 bytes or more, does  *)
(* not.                                                                    *)
(***************************************************************************)
PowerLoss ==
    /\ \/ mode \notin StoreModes /\ UNCHANGED flash
       \/ mode \in StoreModes /\ LossDuringStore /\ UNCHANGED flash
       \/ mode = "data" /\ LossDuringStore /\ TearCell
    /\ EndSession("slot")

-----------------------------------------------------------------------------
Next ==
    \/ \E s \in Slots : OpenBlank(s) \/ OpenVault(s)
    \/ \E p \in Masters : EnterMaster(p) \/ Commit(p) \/ Delete(p)
    \/ \E site \in Sites, word \in Words : Add(site, word) \/ ChangePassword(site, word)
    \/ \E site \in Sites : Remove(site)
    \/ \E old, new \in Masters : ChangeMasterPassword(old, new)
    \/ Store
    \/ Quit \/ AnswerAgain
    \/ PowerLoss

Spec == Init /\ [][Next]_vars

\* Nothing but the thread itself stands between two calls of storeData.
FairSpec == Spec /\ WF_vars(Store)

-----------------------------------------------------------------------------
(***************************************************************************)
(* What the program promises.                                              *)
(***************************************************************************)
\* While startUI holds "changed" false at its prompt, everything in memory is
\* on the flash, under the key in memory: quitting, or losing the power,
\* loses nothing.  storeData goes on after a call that failed, and a commit
\* that failed is followed by others, so this is about every sequence of
\* failed and successful calls.
Durable ==
    \/ firstUse /\ ~flash[slot].ident /\ passwords = <<>>
    \/ Holds(flash[slot], key, passwords)

CleanMeansDurable == mode = "menu" /\ ~changed => Durable

\* storeData and deleteData erase a whole sector.  They never touch the slot
\* of another user.
SlotIsolation ==
    [][\A s \in Slots : flash[s] # flash'[s] => s = slot]_vars

\* loadData copies as many tuples as the count on the flash says into a
\* buffer for MaxStored tuples, without a check.  After failed calls and power
\* losses the count is one that fits, or its high byte was never written.
\* Then it is negative, and the length of the copy wraps: the buffer is
\* overrun after a store that was torn there, and after no other.
OnlyTornCountOverruns ==
    \A s \in Slots : flash[s].ident =>
        \/ Count(flash[s]) \in 0 .. MaxStored
        \/ Count(flash[s]) < 0 /\ flash[s].count[1] = ErasedByte

\* "identifier to identify first use and to make sure invalid data is never
\* read coincidentally" (storeData): a slot that has the identifier can be
\* opened with some master password.
IdentMeansValid ==
    \A s \in Slots :
        flash[s].ident /\ ~(mode \in StoreModes /\ s = slot)
            => \E k \in Masters \cup {NoKey}, n \in 0 .. MaxStored :
                    \E es \in [1 .. n -> WPTuple] : Holds(flash[s], k, es)

\* A commit that meets no error ends with what was in memory on the flash.
CommitCompletes ==
    \A s \in Slots :
        (mode = "erase" /\ slot = s)
            ~> (/\ mode = "menu" /\ slot = s /\ ~changed
                /\ Holds(flash[s], key, passwords))
=============================================================================
