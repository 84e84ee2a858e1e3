----------------------- MODULE PasswordManagerProofs -----------------------
(***************************************************************************)
(* What TLAPS proves of PasswordManager, for every number of slots (up to  *)
(* the four there are), entries, websites and passwords, with calls of the *)
(* flash driver failing and the power going at any moment; and, at the     *)
(* end, that it implements Vault as long as neither happens in storeData.  *)
(***************************************************************************)
EXTENDS PasswordManagerVault, FiniteSetTheorems, SequenceTheorems,
        WellFoundedInduction, TLAPS

Keys == Masters \cup {NoKey}
Closed == {"slot", "again"}
LoggedIn == {"menu"} \cup StoreModes

-----------------------------------------------------------------------------
(***************************************************************************)
(* Facts about the data.                                                   *)
(***************************************************************************)
\* encrypt produces one cell per tuple and one for the checksum.
LEMMA EncryptType ==
    ASSUME NEW k \in Keys, NEW es \in Seq(WPTuple)
    PROVE  /\ Encrypt(k, es) \in Seq(Cell)
           /\ Len(Encrypt(k, es)) = Len(es) + 1
           /\ DOMAIN Encrypt(k, es) = 1 .. Len(es) + 1
           /\ \A i \in 1 .. Len(es) + 1 : Encrypt(k, es)[i] \in Cell
<1> DEFINE T == WPTuple \cup Checksum
<1>1. [md5 |-> es] \in Checksum
  BY DEF Checksum
<1>2. PlainText(es) \in Seq(T) /\ Len(PlainText(es)) = Len(es) + 1
  <2>1. es \in Seq(T)
    OBVIOUS
  <2>2. QED BY <1>1, <2>1 DEF PlainText
<1>3. ASSUME NEW i \in 1 .. Len(es) + 1
      PROVE  SubSeq(PlainText(es), 1, i) \in Seq(T)
  <2> HIDE DEF T
  <2> QED BY <1>2
<1>4. ASSUME NEW i \in 1 .. Len(es) + 1
      PROVE  [key |-> k, plain |-> SubSeq(PlainText(es), 1, i)] \in Cell
  BY <1>3 DEF Cell, Keys
<1> QED BY <1>4 DEF Encrypt

\* The two bytes of the count stand for the count.
LEMMA CountBytesType ==
    ASSUME NEW n \in 0 .. MaxStored
    PROVE  /\ CountBytes(n)[0] \in Byte
           /\ CountBytes(n)[1] \in Byte
           /\ CountBytes(n)[0] + 256 * CountBytes(n)[1] = n
BY MaxStoredAssumption DEF CountBytes, Byte

\* "definition of the addresses for 4 slots on different sectors (!)"
LEMMA SlotSectors ==
    ASSUME NEW s \in Slots, NEW t \in Slots,
           SectorNumber(SlotAddress(s)) = SectorNumber(SlotAddress(t))
    PROVE  s = t
<1> DEFINE In(n, a) == SectorAddress(n) <= a /\ a < SectorLimit(n)
<1>1. ASSUME NEW a \in Nat, NEW m \in Sectors, In(m, a),
             \A n \in Sectors : In(n, a) => n = m
      PROVE  SectorNumber(a) = m
  BY <1>1 DEF SectorNumber
<1>2. SectorNumber(SlotAddress(1)) = 11
  <2>1. \A n \in Sectors : In(n, 135233536) <=> n = 11
    BY DEF Sectors, SectorAddress, SectorLimit, FlashBase, KiB
  <2>2. QED BY <1>1, <2>1 DEF SlotAddress, Sectors
<1>3. SectorNumber(SlotAddress(2)) = 10
  <2>1. \A n \in Sectors : In(n, 135004160) <=> n = 10
    BY DEF Sectors, SectorAddress, SectorLimit, FlashBase, KiB
  <2>2. QED BY <1>1, <2>1 DEF SlotAddress, Sectors
<1>4. SectorNumber(SlotAddress(3)) = 9
  <2>1. \A n \in Sectors : In(n, 134873088) <=> n = 9
    BY DEF Sectors, SectorAddress, SectorLimit, FlashBase, KiB
  <2>2. QED BY <1>1, <2>1 DEF SlotAddress, Sectors
<1>5. SectorNumber(SlotAddress(4)) = 8
  <2>1. \A n \in Sectors : In(n, 134840320) <=> n = 8
    BY DEF Sectors, SectorAddress, SectorLimit, FlashBase, KiB
  <2>2. QED BY <1>1, <2>1 DEF SlotAddress, Sectors
<1>6. s \in {1, 2, 3, 4} /\ t \in {1, 2, 3, 4}
  BY SlotsAssumption
<1>7. QED BY <1>2, <1>3, <1>4, <1>5, <1>6

\* Erasing the sector of a slot blanks that slot and no other.
LEMMA EraseOwnSector ==
    ASSUME NEW s \in Slots, flash \in [Slots -> Image]
    PROVE  EraseSector(SectorNumber(SlotAddress(s))) = [flash EXCEPT ![s] = Blank]
BY SlotSectors DEF EraseSector

\* A nonempty set of positions has a last one.
LEMMA LastPosition ==
    ASSUME NEW n \in Nat, NEW S, S \subseteq 1 .. n, S # {}
    PROVE  \E i \in S : \A j \in S : j <= i
<1> DEFINE T == {n - i : i \in S}
           R == {ss \in Nat \X Nat : ss[1] < ss[2]}
<1>1. IsWellFoundedOn(R, Nat)
  BY NatLessThanWellFounded DEF OpToRel
<1>2. T \subseteq Nat /\ T # {}
  <2>1. PICK i \in S : TRUE
    OBVIOUS
  <2>2. n - i \in T
    OBVIOUS
  <2>3. \A j \in S : n - j \in Nat
    OBVIOUS
  <2>4. QED BY <2>2, <2>3
<1>3. PICK x \in T : \A y \in T : ~(<<y, x>> \in R)
  <2> HIDE DEF T, R
  <2> QED BY <1>1, <1>2, WFMin
<1>4. PICK i \in S : x = n - i
  OBVIOUS
<1>5. ASSUME NEW j \in S PROVE j <= i
  <2>1. n - j \in T /\ n - i \in T
    BY <1>4
  <2>2. i \in Int /\ j \in Int
    OBVIOUS
  <2>3. ~(n - j < n - i)
    BY <1>2, <1>3, <1>4, <2>1
  <2>4. QED BY <2>2, <2>3
<1>6. QED BY <1>5

\* Programming one byte of the count, or one cell, leaves an image.
LEMMA FlashUpdateType ==
    ASSUME NEW s \in Slots, flash \in [Slots -> Image]
    PROVE  /\ [flash EXCEPT ![s].ident = TRUE] \in [Slots -> Image]
           /\ \A i \in {0, 1}, b \in Byte :
                [flash EXCEPT ![s].count[i] = ByteAnd(@, b)] \in [Slots -> Image]
           /\ \A i \in DataCells, c \in Cell :
                /\ [flash EXCEPT ![s].data[i] = c] \in [Slots -> Image]
                /\ [flash EXCEPT ![s].data[i] = ProgramCell(@, c)]
                        \in [Slots -> Image]
<1>1. flash[s] \in Image
  OBVIOUS
<1>2. ASSUME NEW i \in {0, 1}, NEW b \in Byte
      PROVE  ByteAnd(flash[s].count[i], b) \in Byte
  BY <1>1, ByteAndAssumption DEF Image
<1>3. ASSUME NEW i \in DataCells, NEW c \in Cell
      PROVE  ProgramCell(flash[s].data[i], c) \in Cell
  BY DEF ProgramCell, Cell
<1>4. [flash EXCEPT ![s].ident = TRUE] \in [Slots -> Image]
  BY <1>1 DEF Image
<1>5. ASSUME NEW i \in {0, 1}, NEW b \in Byte
      PROVE  [flash EXCEPT ![s].count[i] = b] \in [Slots -> Image]
  BY <1>1 DEF Image
<1>6. ASSUME NEW i \in DataCells, NEW c \in Cell
      PROVE  [flash EXCEPT ![s].data[i] = c] \in [Slots -> Image]
  BY <1>1 DEF Image
<1>7. QED BY <1>2, <1>3, <1>4, <1>5, <1>6

LEMMA BlankType == Blank \in Image
BY DEF Blank, Image, Byte, ErasedByte, Cell

-----------------------------------------------------------------------------
(***************************************************************************)
(* The type invariant is not inductive alone: that storeData stays within  *)
(* the image needs numOfPass to be the number of tuples, encryptedData to  *)
(* be their cipher text, and "at" to be in step with the mode.             *)
(***************************************************************************)
Shape ==
    /\ mode \in Closed => ~changed /\ passwords = <<>> /\ numOfPass = 0
    /\ mode \notin Closed => slot \in Slots
    /\ mode = "master" => ~changed
    /\ mode \in LoggedIn => numOfPass = Len(passwords)
    /\ mode \in StoreModes => changed /\ encryptedData = Encrypt(key, passwords)
    /\ mode = "count" => at \in 0 .. 2
    /\ mode = "data" => at \in 1 .. numOfPass + 2

Typed == TypeOK /\ Shape

\* What an action that ends the session leaves behind has its type.
LEMMA EndSessionTyped ==
    ASSUME NEW m \in Closed, EndSession(m), flash' \in [Slots -> Image]
    PROVE  Typed'
<1>1. TypeOK'
  <2>1. mode' \in Modes /\ slot' \in Slots \cup {0} /\ key' \in Masters \cup {NoKey}
    BY DEF EndSession, Closed, Modes
  <2>2. /\ firstUse' \in BOOLEAN /\ changed' \in BOOLEAN
        /\ success' \in BOOLEAN
    BY DEF EndSession
  <2>3. numOfPass' \in 0 .. MaxStored /\ at' \in 0 .. MaxStored + 2
    BY MaxStoredAssumption DEF EndSession
  <2>4. passwords' \in Seq(WPTuple) /\ encryptedData' \in Seq(Cell)
    BY DEF EndSession
  <2>5. QED BY <2>1, <2>2, <2>3, <2>4 DEF TypeOK
<1>2. Shape'
  BY DEF Shape, EndSession, Closed, LoggedIn, StoreModes
<1>3. QED BY <1>1, <1>2 DEF Typed

LEMMA InitTyped == Init => Typed
<1> SUFFICES ASSUME Init PROVE Typed
  OBVIOUS
<1>1. TypeOK
  <2>1. /\ flash \in [Slots -> Image] /\ mode \in Modes
        /\ slot \in Slots \cup {0} /\ key \in Masters \cup {NoKey}
    BY BlankType DEF Init, Modes
  <2>2. /\ firstUse \in BOOLEAN /\ changed \in BOOLEAN
        /\ success \in BOOLEAN
    BY DEF Init
  <2>3. numOfPass \in 0 .. MaxStored /\ at \in 0 .. MaxStored + 2
    BY MaxStoredAssumption DEF Init
  <2>4. passwords \in Seq(WPTuple) /\ encryptedData \in Seq(Cell)
    BY DEF Init
  <2>5. QED BY <2>1, <2>2, <2>3, <2>4 DEF TypeOK
<1>2. Shape
  BY DEF Shape, Init, Closed, LoggedIn, StoreModes
<1>3. QED BY <1>1, <1>2 DEF Typed

LEMMA PositionType ==
    ASSUME Typed, mode = "menu", NEW site \in Sites
    PROVE  /\ Position(site) \in 0 .. numOfPass
           /\ Position(site) # 0 => passwords[Position(site)].website = site
<1> DEFINE found == {i \in 1 .. numOfPass : passwords[i].website = site}
<1>1. CASE found = {}
  BY <1>1 DEF Position, Typed, TypeOK
<1>2. CASE found # {}
  <2>1. found \subseteq 1 .. numOfPass /\ numOfPass \in Nat
    BY DEF Typed, TypeOK
  <2>2. \E i \in found : \A j \in found : j <= i
    BY <1>2, <2>1, LastPosition
  <2>3. QED BY <1>2, <2>1, <2>2 DEF Position
<1>3. QED BY <1>1, <1>2

\* storeData reads encryptedData within the cipher text, and writes within
\* the image.
LEMMA CellInRange ==
    ASSUME Typed, mode = "data", at <= CellsToWrite
    PROVE  at \in DataCells /\ slot \in Slots /\ encryptedData[at] \in Cell
<1>1. at \in 1 .. Len(passwords) + 1
  BY DEF Typed, TypeOK, Shape, LoggedIn, StoreModes, CellsToWrite
<1>2. encryptedData[at] \in Cell
  BY <1>1, EncryptType DEF Typed, TypeOK, Shape, StoreModes, Keys
<1>3. at \in DataCells
  BY <1>1, MaxStoredAssumption
     DEF Typed, TypeOK, Shape, LoggedIn, StoreModes, DataCells
<1>4. slot \in Slots
  BY DEF Typed, Shape, Closed
<1>5. QED BY <1>2, <1>3, <1>4

LEMMA TearCellType ==
    ASSUME Typed, mode = "data", TearCell
    PROVE  flash' \in [Slots -> Image]
<1>1. at \in DataCells /\ slot \in Slots
  BY CellInRange DEF TearCell
<1>2. Garbage \in Cell
  BY DEF Cell
<1>3. QED BY <1>1, <1>2, FlashUpdateType DEF TearCell, Typed, TypeOK

LEMMA NextTyped == Typed /\ [Next]_vars => Typed'
<1> SUFFICES ASSUME Typed, [Next]_vars PROVE TypeOK' /\ Shape'
  BY DEF Typed
<1> USE DEF Typed
<1>1. ASSUME NEW s \in Slots, OpenBlank(s) PROVE TypeOK' /\ Shape'
  <2>1. TypeOK'
    BY <1>1 DEF OpenBlank, TypeOK, Modes, store
  <2>2. Shape'
    BY <1>1 DEF OpenBlank, TypeOK, Shape, Closed, LoggedIn, StoreModes, store
  <2>3. QED BY <2>1, <2>2
<1>2. ASSUME NEW s \in Slots, OpenVault(s) PROVE TypeOK' /\ Shape'
  <2>1. encryptedData' \in Seq(Cell)
    <3>1. \A i \in 1 .. Count(flash[s]) + 1 : flash[s].data[i] \in Cell
      BY <1>2, MaxStoredAssumption DEF OpenVault, TypeOK, DataCells, Image
    <3>2. Count(flash[s]) + 1 \in Nat
      BY <1>2, MaxStoredAssumption DEF OpenVault
    <3>3. QED BY <1>2, <3>1, <3>2 DEF OpenVault
  <2>2. TypeOK'
    BY <1>2, <2>1 DEF OpenVault, TypeOK, Modes, store
  <2>3. Shape'
    BY <1>2 DEF OpenVault, TypeOK, Shape, Closed, LoggedIn, StoreModes, store
  <2>4. QED BY <2>2, <2>3
<1>3. ASSUME NEW p \in Masters, EnterMaster(p) PROVE TypeOK' /\ Shape'
  <2>1. TypeOK'
    BY <1>3 DEF EnterMaster, TypeOK, Modes, store
  <2>2. Shape'
    BY <1>3 DEF EnterMaster, TypeOK, Shape, Closed, LoggedIn, StoreModes, store
  <2>3. QED BY <2>1, <2>2
<1>4. ASSUME NEW p \in Masters, Commit(p) PROVE TypeOK' /\ Shape'
  <2>1. TypeOK'
    BY <1>4, EncryptType DEF Commit, TypeOK, Modes, Keys, StoreModes
  <2>2. Shape'
    BY <1>4 DEF Commit, TypeOK, Shape, Closed, LoggedIn, StoreModes
  <2>3. QED BY <2>1, <2>2
<1>5. ASSUME NEW p \in Masters, Delete(p) PROVE TypeOK' /\ Shape'
  <2>1. flash' \in [Slots -> Image]
    BY <1>5, EraseOwnSector, BlankType DEF Delete, TypeOK, Shape, Closed
  <2>2. QED BY <1>5, <2>1, EndSessionTyped DEF Delete, Closed
<1>6. ASSUME NEW site \in Sites, NEW word \in Words, Add(site, word)
      PROVE  TypeOK' /\ Shape'
  <2>1. [website |-> site, password |-> word] \in WPTuple
    BY DEF WPTuple
  <2>2. passwords' \in Seq(WPTuple) /\ Len(passwords') = Len(passwords) + 1
    BY <1>6, <2>1 DEF Add, TypeOK
  <2>3. numOfPass' \in 0 .. MaxStored
    BY <1>6, MaxStoredAssumption DEF Add, HasSpace, TypeOK
  <2>4. TypeOK'
    BY <1>6, <2>2, <2>3 DEF Add, Edited, TypeOK, store
  <2>5. Shape'
    BY <1>6, <2>2 DEF Add, Edited, TypeOK, Shape, Closed, LoggedIn, StoreModes, store
  <2>6. QED BY <2>4, <2>5
<1>7. ASSUME NEW site \in Sites, NEW word \in Words, ChangePassword(site, word)
      PROVE  TypeOK' /\ Shape'
  <2>1. [passwords[Position(site)] EXCEPT !.password = word] \in WPTuple
    <3>1. passwords[Position(site)] \in WPTuple
      BY <1>7, PositionType DEF ChangePassword, Edited, TypeOK, Shape, LoggedIn
    <3>2. QED BY <3>1 DEF WPTuple
  <2>2. passwords' \in Seq(WPTuple) /\ Len(passwords') = Len(passwords)
    BY <1>7, <2>1, PositionType DEF ChangePassword, Edited, TypeOK, Shape, LoggedIn
  <2>3. TypeOK'
    BY <1>7, <2>2 DEF ChangePassword, Edited, TypeOK, store
  <2>4. Shape'
    BY <1>7, <2>2
       DEF ChangePassword, Edited, TypeOK, Shape, Closed, LoggedIn, StoreModes, store
  <2>5. QED BY <2>3, <2>4
<1>8. ASSUME NEW site \in Sites, Remove(site) PROVE TypeOK' /\ Shape'
  <2>1. Position(site) \in 1 .. numOfPass /\ numOfPass = Len(passwords)
    BY <1>8, PositionType DEF Remove, Edited, TypeOK, Shape, LoggedIn
  <2>2. passwords' \in Seq(WPTuple) /\ Len(passwords') = numOfPass'
    BY <1>8, <2>1 DEF Remove, TypeOK
  <2>3. numOfPass' \in 0 .. MaxStored
    BY <1>8, <2>1, MaxStoredAssumption DEF Remove, TypeOK
  <2>4. TypeOK'
    BY <1>8, <2>2, <2>3 DEF Remove, Edited, TypeOK, store
  <2>5. Shape'
    BY <1>8, <2>2 DEF Remove, Edited, TypeOK, Shape, Closed, LoggedIn, StoreModes, store
  <2>6. QED BY <2>4, <2>5
<1>9. ASSUME NEW old \in Masters, NEW new \in Masters, ChangeMasterPassword(old, new)
      PROVE  TypeOK' /\ Shape'
  <2>1. TypeOK'
    BY <1>9 DEF ChangeMasterPassword, Edited, TypeOK, store
  <2>2. Shape'
    BY <1>9 DEF ChangeMasterPassword, Edited, TypeOK, Shape, Closed, LoggedIn, StoreModes, store
  <2>3. QED BY <2>1, <2>2
<1>10. ASSUME StoreErase PROVE TypeOK' /\ Shape'
  <2>1. flash' \in [Slots -> Image]
    BY <1>10, EraseOwnSector, BlankType DEF StoreErase, TypeOK, Shape, Closed
  <2>2. TypeOK'
    BY <1>10, <2>1 DEF StoreErase, TypeOK, Modes, StoreModes, session
  <2>3. Shape'
    BY <1>10 DEF StoreErase, TypeOK, Shape, Closed, LoggedIn, StoreModes, session
  <2>4. QED BY <2>2, <2>3
<1>11. ASSUME StoreIdent PROVE TypeOK' /\ Shape'
  <2>1. flash' \in [Slots -> Image]
    BY <1>11, FlashUpdateType DEF StoreIdent, TypeOK, Shape, Closed
  <2>2. at' \in 0 .. MaxStored + 2
    BY <1>11, MaxStoredAssumption DEF StoreIdent
  <2>3. mode' \in Modes
    BY <1>11 DEF StoreIdent, Modes, StoreModes
  <2>4. success' \in BOOLEAN
    BY <1>11 DEF StoreIdent, TypeOK
  <2>5. TypeOK'
    BY <1>11, <2>1, <2>2, <2>3, <2>4 DEF StoreIdent, TypeOK, session
  <2>6. Shape'
    BY <1>11 DEF StoreIdent, TypeOK, Shape, Closed, LoggedIn, StoreModes, session
  <2>7. QED BY <2>5, <2>6
<1>12. ASSUME StoreCount PROVE TypeOK' /\ Shape'
  <2>1. flash' \in [Slots -> Image]
    <3>1. CASE UNCHANGED flash
      BY <3>1 DEF TypeOK
    <3>2. CASE /\ at < 2
               /\ flash' = [flash EXCEPT ![slot].count[at] =
                                ByteAnd(@, CountBytes(numOfPass)[at])]
      <4>1. at \in {0, 1} /\ slot \in Slots
        BY <1>12, <3>2 DEF StoreCount, TypeOK, Shape, Closed
      <4>2. CountBytes(numOfPass)[at] \in Byte
        BY <4>1, CountBytesType DEF TypeOK
      <4>3. QED BY <3>2, <4>1, <4>2, FlashUpdateType DEF TypeOK
    <3>3. QED BY <1>12, <3>1, <3>2 DEF StoreCount
  <2>2. at' \in 0 .. MaxStored + 2
    BY <1>12, MaxStoredAssumption DEF StoreCount, TypeOK, Shape
  <2>3. mode' \in Modes
    BY <1>12 DEF StoreCount, Modes, StoreModes
  <2>4. success' \in BOOLEAN
    BY <1>12 DEF StoreCount, TypeOK
  <2>5. TypeOK'
    BY <1>12, <2>1, <2>2, <2>3, <2>4 DEF StoreCount, TypeOK, session
  <2>6. Shape'
    BY <1>12 DEF StoreCount, TypeOK, Shape, Closed, LoggedIn, StoreModes, session
  <2>7. QED BY <2>5, <2>6
<1>13. ASSUME StoreData PROVE TypeOK' /\ Shape'
  <2>1. flash' \in [Slots -> Image]
    <3>1. CASE UNCHANGED flash
      BY <3>1 DEF TypeOK
    <3>2. CASE TearCell
      BY <1>13, <3>2, TearCellType DEF StoreData
    <3>3. CASE /\ at <= CellsToWrite
               /\ flash' = [flash EXCEPT ![slot].data[at] =
                                ProgramCell(@, encryptedData[at])]
      <4>1. at \in DataCells /\ slot \in Slots /\ encryptedData[at] \in Cell
        BY <1>13, <3>3, CellInRange DEF StoreData
      <4>2. QED BY <3>3, <4>1, FlashUpdateType DEF TypeOK
    <3>4. QED BY <1>13, <3>1, <3>2, <3>3 DEF StoreData
  <2>2. at' \in 0 .. MaxStored + 2
    BY <1>13, MaxStoredAssumption DEF StoreData, CellsToWrite, TypeOK, Shape
  <2>3. mode' \in Modes
    BY <1>13 DEF StoreData, Modes, StoreModes
  <2>4. success' \in BOOLEAN
    BY <1>13 DEF StoreData, TypeOK
  <2>5. TypeOK'
    BY <1>13, <2>1, <2>2, <2>3, <2>4 DEF StoreData, TypeOK, session
  <2>6. Shape'
    BY <1>13
       DEF StoreData, CellsToWrite, TypeOK, Shape, Closed, LoggedIn, StoreModes, session
  <2>7. QED BY <2>5, <2>6
<1>14. ASSUME StoreReturn PROVE TypeOK' /\ Shape'
  <2>1. at' \in 0 .. MaxStored + 2 /\ mode' \in Modes
    BY <1>14, MaxStoredAssumption DEF StoreReturn, Modes
  <2>2. changed' \in BOOLEAN /\ success' \in BOOLEAN
    BY <1>14 DEF StoreReturn, ChangedAfterStore, TypeOK
  <2>3. TypeOK'
    BY <1>14, <2>1, <2>2 DEF StoreReturn, TypeOK
  <2>4. Shape'
    BY <1>14 DEF StoreReturn, TypeOK, Shape, Closed, LoggedIn, StoreModes
  <2>5. QED BY <2>3, <2>4
<1>15. ASSUME Quit PROVE TypeOK' /\ Shape'
  BY <1>15, EndSessionTyped DEF Quit, TypeOK, Closed
<1>17. ASSUME AnswerAgain PROVE TypeOK' /\ Shape'
  <2>1. TypeOK'
    BY <1>17 DEF AnswerAgain, TypeOK, session, store, Modes
  <2>2. Shape'
    BY <1>17 DEF AnswerAgain, Shape, session, store, Closed, LoggedIn, StoreModes
  <2>3. QED BY <2>1, <2>2
<1>18. ASSUME PowerLoss PROVE TypeOK' /\ Shape'
  <2>1. flash' \in [Slots -> Image]
    BY <1>18, TearCellType DEF PowerLoss, TypeOK
  <2>2. QED BY <1>18, <2>1, EndSessionTyped DEF PowerLoss, Closed
<1>19. CASE UNCHANGED vars
  BY <1>19 DEF vars, session, store, TypeOK, Shape
<1>20. QED
  BY <1>1, <1>2, <1>3, <1>4, <1>5, <1>6, <1>7, <1>8, <1>9, <1>10, <1>11, <1>12,
     <1>13, <1>14, <1>15, <1>17, <1>18, <1>19 DEF Next, Store

\* Every variable keeps its type, whatever fails and whenever the power goes.
THEOREM TypeCorrect == Spec => []TypeOK
<1>1. Spec => []Typed
  BY InitTyped, NextTyped, PTL DEF Spec
<1>2. Typed => TypeOK
  BY DEF Typed
<1>3. QED BY <1>1, <1>2, PTL

-----------------------------------------------------------------------------
(***************************************************************************)
(* Every way the flash can change, and that each is confined to one slot.  *)
(***************************************************************************)
Programs ==
    \/ flash' = [flash EXCEPT ![slot] = Blank]
    \/ flash' = [flash EXCEPT ![slot].ident = TRUE]
    \/ /\ mode = "count" /\ at \in {0, 1}
       /\ flash' = [flash EXCEPT ![slot].count[at] =
                        ByteAnd(@, CountBytes(numOfPass)[at])]
    \/ \E i \in DataCells, c \in Cell : flash' = [flash EXCEPT ![slot].data[i] = c]

LEMMA FlashSteps ==
    ASSUME Typed, [Next]_vars
    PROVE  UNCHANGED flash \/ (slot \in Slots /\ Programs)
<1>1. CASE UNCHANGED vars
  BY <1>1 DEF vars
<1>2. ASSUME NEW p \in Masters, Delete(p)
      PROVE  slot \in Slots /\ flash' = [flash EXCEPT ![slot] = Blank]
  <2>1. slot \in Slots
    BY <1>2 DEF Delete, Typed, Shape, Closed
  <2>2. QED BY <1>2, <2>1, EraseOwnSector DEF Delete, Typed, TypeOK
<1>3. ASSUME StoreErase
      PROVE  UNCHANGED flash
                \/ (slot \in Slots /\ flash' = [flash EXCEPT ![slot] = Blank])
  <2>1. slot \in Slots
    BY <1>3 DEF StoreErase, Typed, Shape, Closed
  <2>2. QED BY <1>3, <2>1, EraseOwnSector DEF StoreErase, Typed, TypeOK
<1>4. ASSUME StoreIdent PROVE UNCHANGED flash \/ (slot \in Slots /\ Programs)
  BY <1>4 DEF StoreIdent, Programs, Typed, Shape, Closed
<1>5. ASSUME StoreCount PROVE UNCHANGED flash \/ (slot \in Slots /\ Programs)
  BY <1>5 DEF StoreCount, Programs, Typed, Shape, Closed
<1>6. ASSUME mode = "data", TearCell PROVE slot \in Slots /\ Programs
  BY <1>6, CellInRange DEF TearCell, Programs, Cell
<1>7. ASSUME StoreData PROVE UNCHANGED flash \/ (slot \in Slots /\ Programs)
  <2>1. CASE /\ at <= CellsToWrite
             /\ flash' = [flash EXCEPT ![slot].data[at] =
                              ProgramCell(@, encryptedData[at])]
    <3>1. at \in DataCells /\ slot \in Slots /\ encryptedData[at] \in Cell
      BY <1>7, <2>1, CellInRange DEF StoreData
    <3>2. ProgramCell(flash[slot].data[at], encryptedData[at]) \in Cell
      BY <3>1 DEF ProgramCell, Cell
    <3>3. QED BY <2>1, <3>1, <3>2 DEF Programs
  <2>2. CASE TearCell
    BY <1>6, <1>7, <2>2 DEF StoreData
  <2>3. QED BY <1>7, <2>1, <2>2 DEF StoreData
<1>8. ASSUME PowerLoss PROVE UNCHANGED flash \/ (slot \in Slots /\ Programs)
  BY <1>6, <1>8 DEF PowerLoss
<1>9. ASSUME Next, ~PowerLoss, ~Store, \A p \in Masters : ~Delete(p)
      PROVE  UNCHANGED flash
  BY <1>9 DEF Next, OpenBlank, OpenVault, EnterMaster, Commit, Add, Edited,
              ChangePassword, Remove, ChangeMasterPassword, Quit,
              AnswerAgain
<1>10. ASSUME StoreReturn PROVE UNCHANGED flash
  BY <1>10 DEF StoreReturn
<1>11. QED
  BY <1>1, <1>2, <1>3, <1>4, <1>5, <1>7, <1>8, <1>9, <1>10 DEF Store, Programs

\* No step, and no fault in a step, changes the slot of another user.
THEOREM SlotsIsolated == Spec => SlotIsolation
<1> DEFINE Own == \A s \in Slots : flash[s] # flash'[s] => s = slot
<1>1. Typed /\ [Next]_vars => [Own]_vars
  BY FlashSteps DEF Programs, Typed, TypeOK
<1>2. Spec => []Typed
  BY InitTyped, NextTyped, PTL DEF Spec
<1>3. QED BY <1>1, <1>2, PTL DEF Spec, SlotIsolation

-----------------------------------------------------------------------------
(***************************************************************************)
(* The count on the flash.  Its low byte is written first, over a byte     *)
(* that can only lose bits; until the high byte follows, that is still     *)
(* erased, or the count is no more than the one before.                    *)
(***************************************************************************)
Bounded(c0, c1) == c1 = ErasedByte \/ c0 + 256 * c1 <= MaxStored

CountsBounded ==
    /\ \A s \in Slots : Bounded(flash[s].count[0], flash[s].count[1])
    /\ mode = "count" /\ at > 0
            => flash[slot].count[0] <= CountBytes(numOfPass)[0]

\* Clearing bits of the low byte, and then of the high one, keeps the bound.
LEMMA LowByteBounded ==
    ASSUME NEW a \in Byte, NEW b \in Byte, NEW c \in Byte, Bounded(a, c)
    PROVE  Bounded(ByteAnd(a, b), c) /\ ByteAnd(a, b) <= b
<1>1. ByteAnd(a, b) \in Byte /\ ByteAnd(a, b) <= a /\ ByteAnd(a, b) <= b
  BY ByteAndAssumption
<1>2. QED BY <1>1, MaxStoredAssumption DEF Bounded, Byte

LEMMA HighByteBounded ==
    ASSUME NEW n \in 0 .. MaxStored, NEW a \in Byte, NEW c \in Byte,
           a <= CountBytes(n)[0]
    PROVE  Bounded(a, ByteAnd(c, CountBytes(n)[1]))
<1>1. /\ ByteAnd(c, CountBytes(n)[1]) \in Byte
      /\ ByteAnd(c, CountBytes(n)[1]) <= CountBytes(n)[1]
  BY CountBytesType, ByteAndAssumption
<1>2. a + 256 * ByteAnd(c, CountBytes(n)[1]) <= n
  <2> DEFINE lo == CountBytes(n)[0]
             hi == CountBytes(n)[1]
             x == ByteAnd(c, hi)
  <2>1. /\ lo \in Int /\ hi \in Int /\ x \in Int /\ a \in Int
        /\ lo + 256 * hi = n /\ a <= lo /\ x <= hi
    <3>1. lo \in Byte /\ hi \in Byte /\ lo + 256 * hi = n
      BY CountBytesType
    <3>2. x \in Byte /\ x <= hi
      BY <1>1
    <3> HIDE DEF lo, hi, x
    <3>3. QED BY <3>1, <3>2 DEF Byte, lo
  <2> HIDE DEF lo, hi, x
  <2>2. a + 256 * x <= n
    BY <2>1
  <2>3. QED BY <2>2 DEF x, hi
<1>3. QED BY <1>1, <1>2, MaxStoredAssumption DEF Bounded, Byte

\* As a signed number, the count then fits, or is negative for want of its high
\* byte.
LEMMA SignedBounded ==
    ASSUME NEW a \in Byte, NEW c \in Byte, Bounded(a, c)
    PROVE  LET n == a + 256 * c
               m == IF n < 32768 THEN n ELSE n - 65536
           IN  m \in 0 .. MaxStored \/ (m < 0 /\ c = ErasedByte)
<1>1. a \in 0 .. 255 /\ c \in 0 .. 255
  BY DEF Byte
<1>2. a + 256 * c <= 65535
  BY <1>1
<1>3. QED BY <1>1, <1>2, MaxStoredAssumption DEF Bounded, ErasedByte

LEMMA InitCountsBounded == Init => CountsBounded
BY DEF Init, CountsBounded, Bounded, Blank, ErasedByte

LEMMA NextCountsBounded == Typed /\ CountsBounded /\ [Next]_vars => CountsBounded'
<1> SUFFICES ASSUME Typed, CountsBounded, [Next]_vars
             PROVE  CountsBounded'
  OBVIOUS
<1> DEFINE B(f, s) == Bounded(f[s].count[0], f[s].count[1])
<1>1. \A s \in Slots : flash[s].count[0] \in Byte /\ flash[s].count[1] \in Byte
  BY DEF Typed, TypeOK, Image
<1>2. ASSUME NEW s \in Slots PROVE B(flash', s)
  <2>1. CASE flash'[s].count = flash[s].count
    BY <2>1 DEF CountsBounded
  <2>2. CASE flash'[s] = Blank
    BY <2>2 DEF Blank, Bounded, ErasedByte
  <2>3. CASE /\ s = slot /\ mode = "count" /\ at \in {0, 1}
             /\ flash' = [flash EXCEPT ![slot].count[at] =
                              ByteAnd(@, CountBytes(numOfPass)[at])]
    <3>1. CASE at = 0
      <4>1. /\ flash'[s].count[0] = ByteAnd(flash[s].count[0], CountBytes(numOfPass)[0])
            /\ flash'[s].count[1] = flash[s].count[1]
        BY <2>3, <3>1 DEF Typed, TypeOK, Image
      <4>2. QED BY <1>1, <4>1, LowByteBounded, CountBytesType
                DEF CountsBounded, Typed, TypeOK
    <3>2. CASE at = 1
      <4>1. /\ flash'[s].count[1] = ByteAnd(flash[s].count[1], CountBytes(numOfPass)[1])
            /\ flash'[s].count[0] = flash[s].count[0]
        BY <2>3, <3>2 DEF Typed, TypeOK, Image
      <4>2. flash[s].count[0] <= CountBytes(numOfPass)[0]
        BY <2>3, <3>2 DEF CountsBounded
      <4>3. QED BY <1>1, <4>1, <4>2, HighByteBounded DEF Typed, TypeOK
    <3>3. QED BY <2>3, <3>1, <3>2
  <2>4. QED
    <3>1. CASE UNCHANGED flash
      BY <2>1, <3>1
    <3>2. CASE slot \in Slots /\ flash' = [flash EXCEPT ![slot] = Blank]
      BY <2>1, <2>2, <3>2 DEF Typed, TypeOK
    <3>3. CASE slot \in Slots /\ flash' = [flash EXCEPT ![slot].ident = TRUE]
      BY <2>1, <3>3 DEF Typed, TypeOK, Image
    <3>4. CASE /\ slot \in Slots /\ mode = "count" /\ at \in {0, 1}
               /\ flash' = [flash EXCEPT ![slot].count[at] =
                                ByteAnd(@, CountBytes(numOfPass)[at])]
      BY <2>1, <2>3, <3>4 DEF Typed, TypeOK
    <3>5. CASE slot \in Slots /\ \E i \in DataCells, c \in Cell :
                    flash' = [flash EXCEPT ![slot].data[i] = c]
      BY <2>1, <3>5 DEF Typed, TypeOK, Image
    <3>6. QED BY <3>1, <3>2, <3>3, <3>4, <3>5, FlashSteps DEF Programs
<1>3. ASSUME mode' = "count", at' > 0
      PROVE  flash'[slot'].count[0] <= CountBytes(numOfPass')[0]
  <2>1. CASE UNCHANGED vars
    BY <1>3, <2>1 DEF vars, session, store, CountsBounded
  <2>2. CASE StoreCount
    <3>1. /\ mode = "count" /\ at' = at + 1 /\ at < 2
          /\ UNCHANGED <<slot, numOfPass>>
          /\ flash' = [flash EXCEPT ![slot].count[at] =
                           ByteAnd(@, CountBytes(numOfPass)[at])]
      BY <1>3, <2>2 DEF StoreCount, session
    <3>2. at \in {0, 1} /\ slot \in Slots
      BY <3>1 DEF Typed, TypeOK, Shape, Closed
    <3>3. CASE at = 0
      <4>1. flash'[slot].count[0]
                = ByteAnd(flash[slot].count[0], CountBytes(numOfPass)[0])
        BY <3>1, <3>2, <3>3 DEF Typed, TypeOK, Image
      <4>2. QED BY <1>1, <3>1, <3>2, <4>1, CountBytesType, ByteAndAssumption
                DEF Typed, TypeOK
    <3>4. CASE at = 1
      BY <3>1, <3>2, <3>4 DEF CountsBounded, Typed, TypeOK, Image
    <3>5. QED BY <3>2, <3>3, <3>4
  <2>3. ~(Store /\ ~StoreCount)
    BY <1>3 DEF Store, StoreErase, StoreIdent, StoreData, StoreReturn
  <2>4. \A p \in Masters : ~EnterMaster(p) /\ ~Commit(p) /\ ~Delete(p)
    BY <1>3 DEF EnterMaster, Commit, Delete, EndSession
  <2>5. \A s \in Slots : ~OpenBlank(s) /\ ~OpenVault(s)
    BY <1>3 DEF OpenBlank, OpenVault
  <2>6. ~Edited
    BY <1>3 DEF Edited
  <2>7. ~Quit /\ ~AnswerAgain /\ ~PowerLoss
    BY <1>3 DEF Quit, AnswerAgain, PowerLoss, EndSession
  <2>8. QED
    BY <2>1, <2>2, <2>3, <2>4, <2>5, <2>6, <2>7
       DEF Next, Add, ChangePassword, Remove, ChangeMasterPassword
<1>4. QED BY <1>2, <1>3 DEF CountsBounded

\* The count on the flash is one of tuples that loadData has room for, but
\* after a commit that failed or was cut short before the high byte.
THEOREM CountsFitUnlessTorn == Spec => []OnlyTornCountOverruns
<1>1. Typed /\ CountsBounded => OnlyTornCountOverruns
  <2> SUFFICES ASSUME Typed, CountsBounded, NEW s \in Slots
               PROVE  \/ Count(flash[s]) \in 0 .. MaxStored
                      \/ Count(flash[s]) < 0 /\ flash[s].count[1] = ErasedByte
    BY DEF OnlyTornCountOverruns
  <2>1. flash[s].count[0] \in Byte /\ flash[s].count[1] \in Byte
    BY DEF Typed, TypeOK, Image
  <2>2. Bounded(flash[s].count[0], flash[s].count[1])
    BY DEF CountsBounded
  <2>3. QED BY <2>1, <2>2, SignedBounded DEF Count
<1>2. Init /\ [][Next]_vars => [](Typed /\ CountsBounded)
  BY InitTyped, NextTyped, InitCountsBounded, NextCountsBounded, PTL
<1>3. QED BY <1>1, <1>2, PTL DEF Spec

-----------------------------------------------------------------------------
(***************************************************************************)
(* While no call has failed, storeData has written what it has passed, and *)
(* the rest of the image is erased.                                        *)
(***************************************************************************)
Progress ==
    LET image == flash[slot]
        bytes == CountBytes(numOfPass)
    IN  /\ mode = "ident" => image = Blank
        /\ mode = "count" =>
                /\ image.ident
                /\ \A i \in {0, 1} :
                        image.count[i] = IF i < at THEN bytes[i] ELSE ErasedByte
                /\ \A i \in DataCells : image.data[i] = Erased
        /\ mode = "data" =>
                /\ image.ident
                /\ \A i \in {0, 1} : image.count[i] = bytes[i]
                /\ \A i \in DataCells :
                        image.data[i] = IF i < at THEN encryptedData[i] ELSE Erased
        /\ mode = "stored" => Holds(image, key, passwords)

\* What the login prompt has loaded is what the flash holds.
Loaded ==
    /\ flash[slot].ident
    /\ Count(flash[slot]) = numOfPass
    /\ \A i \in 1 .. numOfPass + 1 : encryptedData[i] = flash[slot].data[i]

Durability ==
    /\ mode = "master" => Loaded
    /\ mode \in StoreModes /\ success => Progress
    /\ CleanMeansDurable

LEMMA InitDurability == Init => Durability
BY DEF Init, Durability, CleanMeansDurable, StoreModes

LEMMA CountFromBytes ==
    ASSUME NEW image, NEW n \in 0 .. MaxStored,
           \A i \in {0, 1} : image.count[i] = CountBytes(n)[i]
    PROVE  Count(image) = n
<1> DEFINE m == image.count[0] + 256 * image.count[1]
<1>1. m = n
  BY CountBytesType
<1>2. Count(image) = IF m < 32768 THEN m ELSE m - 65536
  BY DEF Count
<1> HIDE DEF m
<1>3. QED BY <1>1, <1>2, MaxStoredAssumption

\* An image that the login prompt accepts under key p is that of its tuples.
LEMMA LoadedHolds ==
    ASSUME Typed, Loaded, NEW p, NEW es \in [1 .. numOfPass -> WPTuple],
           Decrypts(p, es)
    PROVE  Holds(flash[slot], p, es)
<1>1. Len(es) = numOfPass
  BY DEF Typed, TypeOK
<1>2. QED BY <1>1 DEF Loaded, Holds, Decrypts

\* Each step of storeData advances Progress, if its call does not fail.
LEMMA StoreProgress ==
    ASSUME Typed, Durability, Store, ~StoreReturn, success'
    PROVE  Progress'
<1>1. success /\ slot \in Slots /\ slot' = slot /\ numOfPass' = numOfPass
        /\ encryptedData' = encryptedData /\ key' = key /\ passwords' = passwords
  BY DEF Store, StoreErase, StoreIdent, StoreCount, StoreData, session, Typed,
         TypeOK, Shape, Closed
<1>2. flash \in [Slots -> Image] /\ flash[slot] \in Image
  BY <1>1 DEF Typed, TypeOK
<1>3. CASE StoreErase
  BY <1>1, <1>2, <1>3, EraseOwnSector DEF StoreErase, Progress
<1>4. CASE StoreIdent
  <2>1. flash[slot] = Blank
    BY <1>1, <1>4 DEF StoreIdent, Durability, Progress, StoreModes
  <2>2. flash'[slot] = [Blank EXCEPT !.ident = TRUE]
    BY <1>1, <1>2, <1>4, <2>1 DEF StoreIdent
  <2>3. mode' = "count" /\ at' = 0
    BY <1>4 DEF StoreIdent
  <2>4. QED BY <1>1, <2>2, <2>3 DEF Progress, Blank
<1>5. CASE StoreCount
  <2>1. mode = "count" /\ at \in 0 .. 2 /\ Progress
    BY <1>1, <1>5 DEF StoreCount, Durability, StoreModes, Typed, Shape
  <2>2. CASE at < 2
    <3>1. /\ flash' = [flash EXCEPT ![slot].count[at] =
                            ByteAnd(@, CountBytes(numOfPass)[at])]
          /\ at' = at + 1 /\ mode' = "count"
      <4>1. ~(at = 2) /\ success'
        BY <2>1, <2>2
      <4>2. QED BY <1>5, <4>1, Zenon DEF StoreCount
    <3>2. flash[slot].count[at] = ErasedByte /\ at \in {0, 1}
      BY <2>1, <2>2 DEF Progress
    <3>3. ByteAnd(ErasedByte, CountBytes(numOfPass)[at]) = CountBytes(numOfPass)[at]
      <4>1. CountBytes(numOfPass)[at] \in Byte
        BY <3>2, CountBytesType DEF Typed, TypeOK
      <4>2. ErasedByte \in Byte
        BY DEF ErasedByte, Byte
      <4>3. QED BY <4>1, <4>2, ByteAndAssumption
    <3>4. flash'[slot] = [flash[slot] EXCEPT !.count[at] = CountBytes(numOfPass)[at]]
      BY <1>1, <1>2, <3>1, <3>2, <3>3 DEF Image
    <3>5. QED BY <1>1, <1>2, <2>1, <3>1, <3>2, <3>4 DEF Progress, Image
  <2>3. CASE at = 2
    <3>1. UNCHANGED flash /\ at' = 1 /\ mode' = "data"
      BY <1>5, <2>3 DEF StoreCount
    <3>2. QED BY <1>1, <2>1, <2>3, <3>1 DEF Progress, DataCells
  <2>4. QED BY <2>1, <2>2, <2>3
<1>6. CASE StoreData
  <2>1. mode = "data" /\ at \in 1 .. numOfPass + 2 /\ Progress
    BY <1>1, <1>6 DEF StoreData, Durability, StoreModes, Typed, Shape
  <2>2. CASE at <= CellsToWrite
    <3>1. /\ flash' = [flash EXCEPT ![slot].data[at] =
                            ProgramCell(@, encryptedData[at])]
          /\ at' = at + 1 /\ mode' = "data"
      BY <1>1, <1>6, <2>1, <2>2 DEF StoreData, CellsToWrite, Typed, TypeOK
    <3>2. at \in DataCells
      BY <2>1, <2>2, CellInRange
    <3>3. flash[slot].data[at] = Erased
      BY <2>1, <3>2 DEF Progress
    <3>4. flash'[slot] = [flash[slot] EXCEPT !.data[at] = encryptedData[at]]
      BY <1>1, <1>2, <3>1, <3>2, <3>3 DEF Image, ProgramCell
    <3>5. /\ flash'[slot].ident = flash[slot].ident
          /\ flash'[slot].count = flash[slot].count
          /\ \A i \in DataCells : flash'[slot].data[i] =
                    IF i = at THEN encryptedData[at] ELSE flash[slot].data[i]
      BY <1>2, <3>2, <3>4 DEF Image
    <3>6. \A i \in DataCells : flash'[slot].data[i] =
                    IF i < at' THEN encryptedData[i] ELSE Erased
      BY <2>1, <3>1, <3>2, <3>5 DEF Progress, DataCells
    <3>7. QED BY <1>1, <2>1, <3>1, <3>5, <3>6 DEF Progress
  <2>3. CASE at = CellsToWrite + 1
    <3>1. UNCHANGED flash /\ mode' = "stored"
      BY <1>1, <1>6, <2>1, <2>3 DEF StoreData, CellsToWrite, Typed, TypeOK
    <3>2. numOfPass = Len(passwords) /\ encryptedData = Encrypt(key, passwords)
      BY <2>1 DEF Typed, Shape, LoggedIn, StoreModes
    <3>3. Count(flash[slot]) = Len(passwords)
      BY <2>1, <3>2, CountFromBytes DEF Progress, Typed, TypeOK
    <3>4. \A i \in 1 .. Len(passwords) + 1 :
                flash[slot].data[i] = Encrypt(key, passwords)[i]
      BY <2>1, <2>3, <3>2, MaxStoredAssumption
         DEF Progress, CellsToWrite, DataCells, Typed, TypeOK
    <3>5. Holds(flash[slot], key, passwords)
      BY <2>1, <3>3, <3>4 DEF Holds, Progress
    <3>6. QED BY <1>1, <3>1, <3>5 DEF Progress
  <2>4. QED BY <2>1, <2>2, <2>3 DEF CellsToWrite, Typed, TypeOK
<1>7. QED BY <1>3, <1>4, <1>5, <1>6 DEF Store

LEMMA NextDurability == Typed /\ Durability /\ [Next]_vars => Durability'
<1> SUFFICES ASSUME Typed, Durability, [Next]_vars
             PROVE  Durability'
  OBVIOUS
<1>1. CASE UNCHANGED vars
  BY <1>1 DEF vars, session, store, Durability, Loaded, Progress,
              CleanMeansDurable, Durable
<1>2. ASSUME NEW s \in Slots, OpenBlank(s) PROVE Durability'
  <2>1. /\ mode' = "menu" /\ slot' = s /\ firstUse' /\ UNCHANGED <<flash, passwords>>
        /\ ~flash[s].ident /\ passwords = <<>>
    BY <1>2 DEF OpenBlank, Typed, Shape, Closed
  <2>2. QED BY <2>1 DEF Durability, CleanMeansDurable, Durable, StoreModes
<1>3. ASSUME NEW s \in Slots, OpenVault(s) PROVE Durability'
  <2>1. mode' = "master" /\ Loaded'
    BY <1>3 DEF OpenVault, Loaded
  <2>2. QED BY <2>1 DEF Durability, CleanMeansDurable, StoreModes
<1>4. ASSUME NEW p \in Masters, EnterMaster(p) PROVE Durability'
  <2>1. mode = "master" /\ Loaded
    BY <1>4 DEF EnterMaster, Durability
  <2>2. CASE UNCHANGED <<passwords, mode>>
    BY <1>4, <2>1, <2>2
       DEF EnterMaster, Durability, Loaded, CleanMeansDurable, StoreModes
  <2>3. CASE mode' = "menu" /\ \E es \in [1 .. numOfPass -> WPTuple] :
                                    Decrypts(p, es) /\ passwords' = es
    <3>1. Holds(flash[slot], p, passwords')
      BY <2>1, <2>3, LoadedHolds
    <3>2. key' = p /\ UNCHANGED <<flash, slot>>
      BY <1>4 DEF EnterMaster
    <3>3. QED BY <2>3, <3>1, <3>2
              DEF Durability, CleanMeansDurable, Durable, StoreModes
  <2>4. QED BY <1>4, <2>2, <2>3 DEF EnterMaster
<1>5. ASSUME NEW p \in Masters, Commit(p) PROVE Durability'
  BY <1>5 DEF Commit, Durability, Progress, CleanMeansDurable
<1>6. ASSUME Edited PROVE Durability'
  BY <1>6 DEF Edited, Durability, CleanMeansDurable, StoreModes
<1>7. ASSUME NEW m \in Closed, EndSession(m) PROVE Durability'
  BY <1>7 DEF EndSession, Closed, Durability, CleanMeansDurable, StoreModes
<1>8. ASSUME StoreReturn PROVE Durability'
  <2>1. mode = "stored" /\ mode' = "menu" /\ changed
        /\ UNCHANGED <<flash, slot, key, passwords, firstUse>>
    BY <1>8 DEF StoreReturn, Typed, Shape, StoreModes
  <2>2. CASE success
    <3>1. Holds(flash[slot], key, passwords)
      BY <2>1, <2>2 DEF Durability, Progress, StoreModes
    <3>2. QED BY <2>1, <3>1 DEF Durability, CleanMeansDurable, Durable, StoreModes
  <2>3. CASE ~success
    BY <1>8, <2>1, <2>3
       DEF StoreReturn, ChangedAfterStore, Durability, CleanMeansDurable, StoreModes
  <2>4. QED BY <2>2, <2>3
<1>9. ASSUME Store, ~StoreReturn PROVE Durability'
  <2>1. mode' \in StoreModes
    BY <1>9 DEF Store, StoreErase, StoreIdent, StoreCount, StoreData, StoreModes
  <2>2. QED BY <1>9, <2>1, StoreProgress DEF Durability, CleanMeansDurable, StoreModes
<1>10. ASSUME AnswerAgain PROVE Durability'
  BY <1>10 DEF AnswerAgain, Durability, CleanMeansDurable, StoreModes
<1>11. QED
  BY <1>1, <1>2, <1>3, <1>4, <1>5, <1>6, <1>7, <1>8, <1>9, <1>10
     DEF Next, Add, ChangePassword, Remove, ChangeMasterPassword, Delete, Quit,
         PowerLoss, Closed

\* When "changed" is false at the prompt, what is in memory is on the flash.
THEOREM CleanIsDurable == Spec => []CleanMeansDurable
<1>1. Durability => CleanMeansDurable
  BY DEF Durability
<1>2. Init /\ [][Next]_vars => [](Typed /\ Durability)
  BY InitTyped, NextTyped, InitDurability, NextDurability, PTL
<1>3. QED BY <1>1, <1>2, PTL DEF Spec

-----------------------------------------------------------------------------
(***************************************************************************)
(* Bags of tuples: what the commands on one tuple do to them.              *)
(***************************************************************************)
Places(es, e) == {i \in DOMAIN es : es[i] = e}

LEMMA PlacesFinite ==
    ASSUME NEW es \in Seq(WPTuple), NEW K \in SUBSET DOMAIN es
    PROVE  IsFiniteSet(K) /\ Cardinality(K) \in Nat
<1>1. DOMAIN es = 1 .. Len(es) /\ 1 \in Int /\ Len(es) \in Int
  OBVIOUS
<1>2. IsFiniteSet(1 .. Len(es))
  BY <1>1, FS_Interval
<1>3. QED BY <1>1, <1>2, FS_Subset, FS_CardinalityType

LEMMA BagType ==
    ASSUME NEW es \in Seq(WPTuple)
    PROVE  /\ BagOf(es) \in [WPTuple -> Nat]
           /\ \A e \in WPTuple : BagOf(es)[e] = Cardinality(Places(es, e))
<1>1. \A e \in WPTuple : Cardinality(Places(es, e)) \in Nat
  <2> TAKE e \in WPTuple
  <2>1. Places(es, e) \in SUBSET DOMAIN es
    BY DEF Places
  <2>2. QED BY <2>1, PlacesFinite
<1>2. BagOf(es) = [e \in WPTuple |-> Cardinality(Places(es, e))]
  BY DEF BagOf, Places
<1>3. QED BY <1>1, <1>2

LEMMA BagEmpty == BagOf(<<>>) = Abstract!EmptyBag
<1>1. \A e \in WPTuple : Places(<<>>, e) = {}
  BY DEF Places
<1>2. \A e \in WPTuple : Cardinality(Places(<<>>, e)) = 0
  BY <1>1, FS_EmptySet
<1>3. QED BY <1>2 DEF BagOf, Places, Abstract!EmptyBag, Abstract!Entry, WPTuple

LEMMA BagAppend ==
    ASSUME NEW es \in Seq(WPTuple), NEW e \in WPTuple
    PROVE  BagOf(Append(es, e)) = [BagOf(es) EXCEPT ![e] = @ + 1]
<1> DEFINE fs == Append(es, e)
<1>1. /\ fs \in Seq(WPTuple) /\ Len(es) \in Nat
      /\ DOMAIN es = 1 .. Len(es) /\ DOMAIN fs = 1 .. Len(es) + 1
      /\ \A i \in 1 .. Len(es) : fs[i] = es[i]
      /\ fs[Len(es) + 1] = e
  OBVIOUS
<1> HIDE DEF fs
<1>2. ASSUME NEW d \in WPTuple
      PROVE  Cardinality(Places(fs, d)) = IF d = e THEN Cardinality(Places(es, d)) + 1
                                          ELSE Cardinality(Places(es, d))
  <2>1. Places(es, d) \in SUBSET DOMAIN es
    BY DEF Places
  <2>2. IsFiniteSet(Places(es, d)) /\ Len(es) + 1 \notin Places(es, d)
    BY <1>1, <2>1, PlacesFinite
  <2>3. CASE d = e
    <3>1. Places(fs, d) = Places(es, d) \cup {Len(es) + 1}
      BY <1>1, <2>3 DEF Places
    <3>2. QED BY <2>2, <2>3, <3>1, FS_AddElement
  <2>4. CASE d # e
    <3>1. Places(fs, d) = Places(es, d)
      BY <1>1, <2>4 DEF Places
    <3>2. QED BY <2>4, <3>1
  <2>5. QED BY <2>3, <2>4
<1>3. BagOf(fs) = [BagOf(es) EXCEPT ![e] = @ + 1]
  <2>1. /\ \A d \in WPTuple : BagOf(fs)[d] = Cardinality(Places(fs, d))
        /\ \A d \in WPTuple : BagOf(es)[d] = Cardinality(Places(es, d))
        /\ BagOf(es) \in [WPTuple -> Nat] /\ BagOf(fs) \in [WPTuple -> Nat]
    BY <1>1, BagType
  <2>2. QED BY <1>2, <2>1
<1>4. QED BY <1>3 DEF fs

\* Another tuple in one place: one of the old goes, one of the new comes.
LEMMA BagReplace ==
    ASSUME NEW es \in Seq(WPTuple), NEW k \in DOMAIN es, NEW e \in WPTuple
    PROVE  /\ [es EXCEPT ![k] = e] \in Seq(WPTuple)
           /\ BagOf([es EXCEPT ![k] = e])
                = [[BagOf(es) EXCEPT ![es[k]] = @ - 1] EXCEPT ![e] = @ + 1]
           /\ BagOf(es)[es[k]] > 0
<1> DEFINE fs == [es EXCEPT ![k] = e]
           Rest(d) == Places(es, d) \ {k}
<1>1. /\ fs \in Seq(WPTuple) /\ DOMAIN fs = DOMAIN es /\ es[k] \in WPTuple
      /\ \A i \in DOMAIN es : fs[i] = IF i = k THEN e ELSE es[i]
  OBVIOUS
<1> HIDE DEF fs
<1>2. ASSUME NEW d \in WPTuple
      PROVE  /\ IsFiniteSet(Rest(d)) /\ Cardinality(Rest(d)) \in Nat /\ k \notin Rest(d)
             /\ Places(es, d) = IF d = es[k] THEN Rest(d) \cup {k} ELSE Rest(d)
             /\ Places(fs, d) = IF d = e THEN Rest(d) \cup {k} ELSE Rest(d)
  <2>1. Rest(d) \in SUBSET DOMAIN es
    BY DEF Places
  <2>2. IsFiniteSet(Rest(d)) /\ Cardinality(Rest(d)) \in Nat
    BY <2>1, PlacesFinite
  <2>3. QED BY <1>1, <2>2 DEF Places
<1> HIDE DEF Rest
<1>3. ASSUME NEW d \in WPTuple
      PROVE  /\ Cardinality(Places(es, d)) = IF d = es[k] THEN Cardinality(Rest(d)) + 1
                                             ELSE Cardinality(Rest(d))
             /\ Cardinality(Places(fs, d)) = IF d = e THEN Cardinality(Rest(d)) + 1
                                             ELSE Cardinality(Rest(d))
  BY <1>2, FS_AddElement
<1>4. /\ \A d \in WPTuple : BagOf(fs)[d] = Cardinality(Places(fs, d))
      /\ \A d \in WPTuple : BagOf(es)[d] = Cardinality(Places(es, d))
      /\ BagOf(es) \in [WPTuple -> Nat] /\ BagOf(fs) \in [WPTuple -> Nat]
  BY <1>1, BagType
<1>5. \A d \in WPTuple : BagOf(fs)[d] = BagOf(es)[d] - (IF d = es[k] THEN 1 ELSE 0)
                                                     + (IF d = e THEN 1 ELSE 0)
  <2> SUFFICES ASSUME NEW d \in WPTuple
               PROVE  BagOf(fs)[d] = BagOf(es)[d] - (IF d = es[k] THEN 1 ELSE 0)
                                                  + (IF d = e THEN 1 ELSE 0)
    OBVIOUS
  <2> DEFINE rest == Cardinality(Rest(d))
  <2>1. /\ rest \in Nat
        /\ BagOf(es)[d] = IF d = es[k] THEN rest + 1 ELSE rest
        /\ BagOf(fs)[d] = IF d = e THEN rest + 1 ELSE rest
    BY <1>2, <1>3, <1>4
  <2> HIDE DEF rest
  <2>2. QED BY ONLY <2>1
<1>6. BagOf(fs) = [[BagOf(es) EXCEPT ![es[k]] = @ - 1] EXCEPT ![e] = @ + 1]
  <2> DEFINE b == BagOf(es)
             h == [b EXCEPT ![es[k]] = @ - 1]
             g == [h EXCEPT ![e] = @ + 1]
  <2> HIDE DEF b
  <2>1. b \in [WPTuple -> Nat]
    BY <1>4 DEF b
  <2>2. /\ DOMAIN h = WPTuple
        /\ \A d \in WPTuple : h[d] = b[d] - (IF d = es[k] THEN 1 ELSE 0) /\ h[d] \in Int
    BY <1>1, <2>1
  <2>3. h = [d \in WPTuple |-> h[d]]
    BY <2>1
  <2> HIDE DEF h
  <2>4. g = [d \in WPTuple |-> g[d]]
    BY <2>3
  <2>5. \A d \in WPTuple : g[d] = b[d] - (IF d = es[k] THEN 1 ELSE 0)
                                       + (IF d = e THEN 1 ELSE 0)
    BY <2>2, <2>3
  <2>6. BagOf(fs) = [d \in WPTuple |-> BagOf(fs)[d]]
    BY <1>4
  <2> HIDE DEF g
  <2>7. BagOf(fs) = g
    BY <1>5, <2>4, <2>5, <2>6 DEF b
  <2>8. QED BY <2>7 DEF g, h, b
<1>7. BagOf(es)[es[k]] > 0
  BY <1>1, <1>2, <1>3, <1>4
<1>8. QED BY <1>1, <1>6, <1>7 DEF fs

LEMMA BagFront ==
    ASSUME NEW es \in Seq(WPTuple), es # <<>>
    PROVE  BagOf(SubSeq(es, 1, Len(es) - 1)) = [BagOf(es) EXCEPT ![es[Len(es)]] = @ - 1]
<1> DEFINE fs == SubSeq(es, 1, Len(es) - 1)
           e  == es[Len(es)]
<1>1. fs \in Seq(WPTuple) /\ e \in WPTuple /\ es = Append(fs, e)
  <2>1. Len(es) \in Nat \ {0} /\ e \in WPTuple
    OBVIOUS
  <2>2. /\ fs \in Seq(WPTuple) /\ Len(fs) = Len(es) - 1
        /\ \A i \in 1 .. Len(es) - 1 : fs[i] = es[i]
    <3> DEFINE m == Len(es) - 1
    <3>1. m \in Nat /\ \A i \in 1 .. m : es[i] \in WPTuple
      BY <2>1
    <3> HIDE DEF m
    <3>2. /\ SubSeq(es, 1, m) \in Seq(WPTuple)
          /\ Len(SubSeq(es, 1, m)) = IF 1 <= m THEN m - 1 + 1 ELSE 0
          /\ \A i \in 1 .. m - 1 + 1 : SubSeq(es, 1, m)[i] = es[1 + i - 1]
      BY <3>1, SubSeqProperties
    <3>3. /\ SubSeq(es, 1, m) \in Seq(WPTuple) /\ Len(SubSeq(es, 1, m)) = m
          /\ \A i \in 1 .. m : SubSeq(es, 1, m)[i] = es[i]
      BY <3>1, <3>2
    <3>4. QED BY <3>3 DEF m
  <2> HIDE DEF fs
  <2>3. /\ Append(fs, e) \in Seq(WPTuple) /\ Len(Append(fs, e)) = Len(es)
        /\ \A i \in 1 .. Len(es) : Append(fs, e)[i] = es[i]
    BY <2>1, <2>2
  <2>4. QED BY <2>1, <2>2, <2>3, SeqEqual
<1> HIDE DEF fs, e
<1>2. BagOf(es) = [BagOf(fs) EXCEPT ![e] = @ + 1]
  BY <1>1, BagAppend
<1>3. BagOf(fs) \in [WPTuple -> Nat]
  BY <1>1, BagType
<1>4. BagOf(fs) = [BagOf(es) EXCEPT ![e] = @ - 1]
  <2> DEFINE b == BagOf(fs)
             g == [b EXCEPT ![e] = @ + 1]
  <2> HIDE DEF b
  <2>1. b \in [WPTuple -> Nat]
    BY <1>3 DEF b
  <2>2. b = [g EXCEPT ![e] = @ - 1]
    <3>1. /\ g \in [WPTuple -> Nat] /\ g[e] = b[e] + 1
          /\ \A d \in WPTuple : d # e => g[d] = b[d]
      BY <1>1, <2>1
    <3> HIDE DEF g
    <3>2. [g EXCEPT ![e] = @ - 1] \in [WPTuple -> Int]
      BY <1>1, <3>1
    <3>3. \A d \in WPTuple : [g EXCEPT ![e] = @ - 1][d] = b[d]
      BY <1>1, <2>1, <3>1
    <3>4. QED BY <2>1, <3>2, <3>3
  <2>3. QED BY <1>2, <2>2 DEF g, b
<1>5. QED BY <1>4 DEF fs, e

\* remove puts the last tuple into the place of the one it removes.
LEMMA BagRemove ==
    ASSUME NEW es \in Seq(WPTuple), NEW k \in DOMAIN es
    PROVE  BagOf([i \in 1 .. Len(es) - 1 |-> IF i = k THEN es[Len(es)] ELSE es[i]])
             = [BagOf(es) EXCEPT ![es[k]] = @ - 1]
<1> DEFINE n  == Len(es)
           ds == [es EXCEPT ![k] = es[n]]
           fs == [i \in 1 .. n - 1 |-> IF i = k THEN es[n] ELSE es[i]]
<1>1. n \in Nat \ {0} /\ k \in 1 .. n /\ es[n] \in WPTuple /\ es[k] \in WPTuple
  OBVIOUS
<1>2. /\ ds \in Seq(WPTuple) /\ Len(ds) = n /\ ds # <<>>
      /\ \A i \in 1 .. n : ds[i] = IF i = k THEN es[n] ELSE es[i]
  BY <1>1
<1>3. BagOf(ds) = [[BagOf(es) EXCEPT ![es[k]] = @ - 1] EXCEPT ![es[n]] = @ + 1]
  BY <1>1, BagReplace
<1> HIDE DEF ds
<1>4. BagOf(SubSeq(ds, 1, n - 1)) = [BagOf(ds) EXCEPT ![ds[n]] = @ - 1]
  BY <1>2, BagFront
<1>5. ds[n] = es[n]
  BY <1>1, <1>2
<1>6. SubSeq(ds, 1, n - 1) = fs
  <2> DEFINE gs == SubSeq(ds, 1, n - 1)
  <2>1. /\ gs \in Seq(WPTuple) /\ Len(gs) = n - 1
        /\ \A i \in 1 .. n - 1 : gs[i] = ds[i]
    BY <1>1, <1>2
  <2>2. /\ gs = [i \in 1 .. n - 1 |-> gs[i]]
    BY <2>1
  <2> HIDE DEF gs
  <2>3. \A i \in 1 .. n - 1 : gs[i] = IF i = k THEN es[n] ELSE es[i]
    BY <1>1, <1>2, <2>1
  <2>4. gs = fs
    BY <2>2, <2>3
  <2>5. QED BY <2>4 DEF gs
<1>7. BagOf(es) \in [WPTuple -> Nat]
  BY BagType
<1> HIDE DEF n, fs
<1>8. BagOf(fs) = [BagOf(es) EXCEPT ![es[k]] = @ - 1]
  BY <1>1, <1>3, <1>4, <1>5, <1>6, <1>7
<1>9. QED BY <1>8 DEF fs, n

-----------------------------------------------------------------------------
(***************************************************************************)
(* The vault that an image holds.                                          *)
(***************************************************************************)
\* The last cell tells the tuples, the first one the key.
LEMMA EncryptTells ==
    ASSUME NEW k, NEW es \in Seq(WPTuple)
    PROVE  /\ Encrypt(k, es)[1].key = k
           /\ Encrypt(k, es)[Len(es) + 1].plain[Len(es) + 1].md5 = es
<1> DEFINE n  == Len(es)
           T  == WPTuple \cup Checksum
           pt == PlainText(es)
<1>1. n \in Nat /\ 1 \in 1 .. n + 1 /\ n + 1 \in 1 .. n + 1
  OBVIOUS
<1>2. pt \in Seq(T) /\ Len(pt) = n + 1 /\ pt[n + 1] = [md5 |-> es]
  <2>1. [md5 |-> es] \in T /\ es \in Seq(T)
    BY DEF Checksum
  <2>2. QED BY <2>1, AppendProperties DEF PlainText
<1>3. SubSeq(pt, 1, n + 1) = pt
  <2> HIDE DEF pt, n, T
  <2> QED BY <1>1, <1>2, SubSeqFull
<1>4. Encrypt(k, es) = [i \in 1 .. n + 1 |-> [key |-> k, plain |-> SubSeq(pt, 1, i)]]
  BY DEF Encrypt
<1> HIDE DEF n, pt
<1>5. Encrypt(k, es)[1].key = k /\ Encrypt(k, es)[n + 1].plain = pt
  BY <1>1, <1>3, <1>4
<1>6. QED BY <1>2, <1>5 DEF n

\* No image holds two vaults.
LEMMA HoldsOne ==
    ASSUME NEW image, NEW k, NEW es \in Seq(WPTuple), Holds(image, k, es),
           NEW l, NEW fs \in Seq(WPTuple), Holds(image, l, fs)
    PROVE  k = l /\ es = fs
<1>1. Len(es) = Len(fs) /\ Len(es) \in Nat
  BY DEF Holds
<1>2. \A i \in 1 .. Len(es) + 1 : Encrypt(k, es)[i] = Encrypt(l, fs)[i]
  BY <1>1 DEF Holds
<1>3. 1 \in 1 .. Len(es) + 1 /\ Len(es) + 1 \in 1 .. Len(es) + 1
  BY <1>1
<1>4. /\ Encrypt(k, es)[1] = Encrypt(l, fs)[1]
      /\ Encrypt(k, es)[Len(es) + 1] = Encrypt(l, fs)[Len(fs) + 1]
  BY <1>1, <1>2, <1>3
<1>5. QED BY <1>1, <1>4, EncryptTells

LEMMA VaultHeld ==
    ASSUME NEW image, NEW k \in Keys, NEW es \in Seq(WPTuple), Len(es) <= MaxStored,
           Holds(image, k, es)
    PROVE  VaultOnFlash(image) = [key |-> k, entries |-> BagOf(es)]
<1>1. /\ image.ident /\ Count(image) = Len(es)
      /\ Count(image) \in 0 .. MaxStored
  BY MaxStoredAssumption DEF Holds
<1>2. es \in [1 .. Count(image) -> WPTuple]
  BY <1>1
<1>3. Opened(image) = {<<k, es>>}
  <2>1. <<k, es>> \in Opened(image)
    BY <1>2 DEF Opened, Keys
  <2>2. ASSUME NEW it \in Opened(image) PROVE it = <<k, es>>
    <3>1. /\ it \in (Masters \cup {NoKey}) \X [1 .. Count(image) -> WPTuple]
          /\ Holds(image, it[1], it[2])
      BY DEF Opened
    <3>2. it[2] \in Seq(WPTuple) /\ it = <<it[1], it[2]>>
      BY <1>1, <3>1
    <3>3. it[1] = k /\ it[2] = es
      BY <3>1, <3>2, HoldsOne
    <3>4. QED BY <3>2, <3>3
  <2>3. QED BY <2>1, <2>2
<1>4. (CHOOSE it \in Opened(image) : TRUE) = <<k, es>>
  BY <1>3
<1>5. QED BY <1>1, <1>3, <1>4 DEF VaultOnFlash

LEMMA NothingHeld ==
    ASSUME NEW image, ~image.ident
    PROVE  VaultOnFlash(image) = NoVault
BY DEF VaultOnFlash

-----------------------------------------------------------------------------
(***************************************************************************)
(* Without failing calls, and without a power loss in storeData, an image  *)
(* with the identifier holds a vault, except while it is being written.    *)
(***************************************************************************)
Faultless == ~FlashErrors /\ ~LossDuringStore

HoldsSome(image) ==
    \E k \in Keys : \E es \in Seq(WPTuple) : Len(es) <= MaxStored /\ Holds(image, k, es)

Kept ==
    /\ mode \in StoreModes => success
    /\ mode = "master" => ~firstUse
    /\ \A s \in Slots : flash[s].ident /\ ~(mode \in StoreModes /\ s = slot)
                            => HoldsSome(flash[s])

LEMMA InitKept == Init => Kept
BY DEF Init, Kept, Blank, StoreModes

LEMMA HeldInMemory ==
    ASSUME Typed, mode \in LoggedIn, Holds(flash[slot], key, passwords)
    PROVE  HoldsSome(flash[slot])
<1>1. /\ key \in Keys /\ passwords \in Seq(WPTuple)
      /\ Len(passwords) <= MaxStored
  BY MaxStoredAssumption DEF Typed, TypeOK, Shape, Keys
<1>2. QED BY <1>1 DEF HoldsSome

\* Where the thread is in a step, and which slots it leaves alone.
LEMMA StoreMoves ==
    ASSUME Typed, Store, ~StoreReturn
    PROVE  /\ mode \in StoreModes /\ mode' \in StoreModes
           /\ slot' = slot /\ key' = key /\ passwords' = passwords /\ firstUse' = firstUse
           /\ \A s \in Slots : s # slot => flash'[s] = flash[s]
           /\ Faultless /\ success => success'
<1>1. /\ mode \in StoreModes /\ mode' \in StoreModes
      /\ slot' = slot /\ key' = key /\ passwords' = passwords /\ firstUse' = firstUse
      /\ Faultless /\ success => success'
  BY DEF Store, StoreErase, StoreIdent, StoreCount, StoreData, StoreModes, session, Faultless
<1>2. UNCHANGED flash \/ (slot \in Slots /\ Programs)
  BY FlashSteps DEF Next
<1>3. \A s \in Slots : s # slot => flash'[s] = flash[s]
  BY <1>2 DEF Programs, Typed, TypeOK
<1>4. QED BY <1>1, <1>3

\* The steps outside of storeData but the deletion of a vault.
Calm ==
    /\ UNCHANGED flash
    /\ mode \notin StoreModes
    /\ mode' \in StoreModes => success'
    /\ mode' = "master" => ~firstUse'

LEMMA CalmSteps ==
    ASSUME Typed, Kept, Next, Faultless, ~Store, \A p \in Masters : ~Delete(p)
    PROVE  Calm
<1>1. ASSUME NEW s \in Slots, OpenBlank(s) \/ OpenVault(s) PROVE Calm
  BY <1>1 DEF OpenBlank, OpenVault, Calm, StoreModes
<1>2. ASSUME NEW p \in Masters, EnterMaster(p) \/ Commit(p) PROVE Calm
  BY <1>2 DEF EnterMaster, Commit, Calm, StoreModes, Kept
<1>3. ASSUME Edited PROVE Calm
  BY <1>3 DEF Edited, Calm, StoreModes
<1>4. ASSUME Quit \/ AnswerAgain \/ PowerLoss PROVE Calm
  BY <1>4 DEF Quit, AnswerAgain, PowerLoss, EndSession, Calm, StoreModes, Faultless
<1>5. QED
  BY <1>1, <1>2, <1>3, <1>4 DEF Next, Add, ChangePassword, Remove, ChangeMasterPassword

LEMMA NextKept ==
    ASSUME Faultless, Typed, Durability, Kept, [Next]_vars
    PROVE  Kept'
<1>1. CASE UNCHANGED vars
  BY <1>1 DEF vars, session, store, Kept
<1>2. CASE Store /\ ~StoreReturn
  <2>1. /\ mode \in StoreModes /\ mode' \in StoreModes /\ slot' = slot /\ success'
        /\ \A s \in Slots : s # slot => flash'[s] = flash[s]
    BY <1>2, StoreMoves DEF Kept
  <2>2. mode' # "master"
    BY <2>1 DEF StoreModes
  <2>3. QED BY <2>1, <2>2 DEF Kept
<1>3. CASE StoreReturn
  <2>1. /\ mode = "stored" /\ mode' = "menu" /\ flash' = flash
        /\ mode \in StoreModes /\ mode \in LoggedIn /\ mode' \notin StoreModes
    BY <1>3 DEF StoreReturn, StoreModes, LoggedIn
  <2>2. Holds(flash[slot], key, passwords)
    BY <2>1 DEF Kept, Durability, Progress
  <2>3. HoldsSome(flash[slot])
    BY <2>1, <2>2, HeldInMemory
  <2>4. QED BY <2>1, <2>3 DEF Kept
<1>4. ASSUME NEW p \in Masters, Delete(p) PROVE Kept'
  <2>1. mode = "menu" /\ mode' = "again" /\ mode \notin StoreModes /\ mode' \notin StoreModes
    BY <1>4 DEF Delete, EndSession, StoreModes
  <2>2. slot \in Slots /\ flash' = [flash EXCEPT ![slot] = Blank]
    <3>1. slot \in Slots
      BY <2>1 DEF Typed, Shape, Closed
    <3>2. QED BY <1>4, <3>1, EraseOwnSector DEF Delete, Typed, TypeOK
  <2>3. \A s \in Slots : flash'[s] = IF s = slot THEN Blank ELSE flash[s]
    BY <2>2 DEF Typed, TypeOK
  <2>4. QED BY <2>1, <2>3 DEF Kept, Blank
<1>5. CASE Calm
  BY <1>5 DEF Calm, Kept
<1>6. QED BY <1>1, <1>2, <1>3, <1>4, <1>5, CalmSteps

\* An image that has the identifier can be opened.
THEOREM IdentIsValid ==
    ASSUME FlashErrors = FALSE, LossDuringStore = FALSE
    PROVE  Spec => []IdentMeansValid
<1>1. Kept => IdentMeansValid
  <2> SUFFICES ASSUME Kept, NEW s \in Slots, flash[s].ident,
                      ~(mode \in StoreModes /\ s = slot)
               PROVE  \E k \in Masters \cup {NoKey}, n \in 0 .. MaxStored :
                          \E es \in [1 .. n -> WPTuple] : Holds(flash[s], k, es)
    BY DEF IdentMeansValid
  <2>1. PICK k \in Keys : \E es \in Seq(WPTuple) :
                              Len(es) <= MaxStored /\ Holds(flash[s], k, es)
    BY DEF Kept, HoldsSome
  <2>2. PICK es \in Seq(WPTuple) : Len(es) <= MaxStored /\ Holds(flash[s], k, es)
    BY <2>1
  <2>3. Len(es) \in 0 .. MaxStored /\ es \in [1 .. Len(es) -> WPTuple]
    BY <2>2, MaxStoredAssumption
  <2>4. QED BY <2>2, <2>3 DEF Keys
<1>2. Faultless
  BY DEF Faultless
<1>3. Init /\ [][Next]_vars => [](Typed /\ Durability /\ Kept)
  <2>1. Init => Typed /\ Durability /\ Kept
    BY InitTyped, InitDurability, InitKept
  <2>2. Typed /\ Durability /\ Kept /\ [Next]_vars => (Typed /\ Durability /\ Kept)'
    BY <1>2, NextTyped, NextDurability, NextKept
  <2>3. QED BY <2>1, <2>2, PTL
<1>4. QED BY <1>1, <1>3, PTL DEF Spec

-----------------------------------------------------------------------------
(***************************************************************************)
(* Each step of the program is a step of Vault, or none.                   *)
(***************************************************************************)
AbstractStep == Abstract!Next \/ UNCHANGED <<vaultBar, sessionBar>>

SessionRecord ==
    [slot |-> slot, fresh |-> firstUse, key |-> key, entries |-> BagOf(passwords)]

LEMMA SessionIs ==
    ASSUME Typed
    PROVE  /\ mode \in LoggedIn => sessionBar = SessionRecord /\ sessionBar # NoSession
           /\ mode \notin LoggedIn => sessionBar = NoSession
<1>1. ASSUME mode \in LoggedIn PROVE SessionRecord # NoSession
  <2>1. slot \in Slots
    BY <1>1 DEF Typed, Shape, LoggedIn, StoreModes, Closed
  <2>2. BagOf(passwords) \in [Abstract!Entry -> Nat]
    BY BagType DEF Typed, TypeOK, Abstract!Entry, WPTuple
  <2>3. SessionRecord \in Abstract!Session
    BY <2>1, <2>2 DEF SessionRecord, Abstract!Session, Typed, TypeOK
  <2>4. QED BY <2>3, AbsenceAssumption
<1>2. QED BY <1>1 DEF sessionBar, SessionRecord, LoggedIn

LEMMA BarCalm ==
    ASSUME Calm, mode' \notin StoreModes
    PROVE  vaultBar' = vaultBar
BY DEF Calm, vaultBar

LEMMA OpenBlankIsOpenFresh ==
    ASSUME Typed, Typed', Kept, NEW s \in Slots, OpenBlank(s)
    PROVE  AbstractStep
<1>1. /\ mode = "slot" /\ mode' = "menu" /\ ~flash[s].ident /\ slot' = s /\ firstUse' = TRUE
      /\ key' \in Masters \cup {NoKey} /\ passwords' = passwords /\ flash' = flash
  BY DEF OpenBlank
<1>2. passwords' = <<>>
  BY <1>1 DEF Typed, Shape, Closed
<1>3. mode \notin StoreModes /\ mode' \notin StoreModes
      /\ mode \notin LoggedIn /\ mode' \in LoggedIn
  BY <1>1 DEF StoreModes, LoggedIn
<1>4. sessionBar = NoSession
  BY <1>3, SessionIs
<1>5. sessionBar' = [slot |-> s, fresh |-> TRUE, key |-> key', entries |-> Abstract!EmptyBag]
  BY <1>1, <1>2, <1>3, BagEmpty DEF sessionBar, LoggedIn
<1>6. vaultBar' = vaultBar
  BY <1>1, <1>3 DEF vaultBar
<1>7. vaultBar[s] = NoVault
  BY <1>1, <1>3, NothingHeld DEF vaultBar
<1>8. Abstract!OpenFresh(s, key')
  BY <1>4, <1>5, <1>6, <1>7 DEF Abstract!OpenFresh
<1>9. QED BY <1>1, <1>8 DEF AbstractStep, Abstract!Next

LEMMA OpenVaultIsNoStep ==
    ASSUME Typed, Kept, NEW s \in Slots, OpenVault(s)
    PROVE  AbstractStep
<1>1. mode = "slot" /\ mode' = "master" /\ flash' = flash
  BY DEF OpenVault
<1>2. UNCHANGED <<vaultBar, sessionBar>>
  BY <1>1 DEF vaultBar, sessionBar, StoreModes
<1>3. QED BY <1>2 DEF AbstractStep

LEMMA EnterMasterIsOpen ==
    ASSUME Typed, Durability, Kept, NEW p \in Masters, EnterMaster(p)
    PROVE  AbstractStep
<1>1. /\ mode = "master" /\ key' = p /\ mode \notin StoreModes /\ mode \notin LoggedIn
      /\ UNCHANGED <<flash, slot, firstUse>> /\ ~firstUse
      /\ slot \in Slots
  BY DEF EnterMaster, StoreModes, LoggedIn, Kept, Typed, Shape, Closed
<1>2. CASE UNCHANGED mode
  <2>1. UNCHANGED <<vaultBar, sessionBar>>
    BY <1>1, <1>2 DEF vaultBar, sessionBar, StoreModes
  <2>2. QED BY <2>1 DEF AbstractStep
<1>3. CASE mode' = "menu" /\ \E es \in [1 .. numOfPass -> WPTuple] :
                                 Decrypts(p, es) /\ passwords' = es
  <2>1. PICK es \in [1 .. numOfPass -> WPTuple] : Decrypts(p, es) /\ passwords' = es
    BY <1>3
  <2>2. Holds(flash[slot], p, es)
    BY <1>1, <2>1, LoadedHolds DEF Durability
  <2>3. es \in Seq(WPTuple) /\ Len(es) <= MaxStored
    BY MaxStoredAssumption DEF Typed, TypeOK
  <2>4. VaultOnFlash(flash[slot]) = [key |-> p, entries |-> BagOf(es)]
    BY <2>2, <2>3, VaultHeld DEF Keys
  <2>5. vaultBar[slot] = [key |-> p, entries |-> BagOf(es)]
    BY <1>1, <2>4 DEF vaultBar
  <2>6. vaultBar[slot] # NoVault
    <3>1. BagOf(es) \in [Abstract!Entry -> Nat]
      BY <2>3, BagType DEF Abstract!Entry, WPTuple
    <3>2. [key |-> p, entries |-> BagOf(es)] \in Abstract!Sealed
      BY <3>1 DEF Abstract!Sealed
    <3>3. QED BY <2>5, <3>2, AbsenceAssumption
  <2>7. sessionBar = NoSession
    BY <1>1, SessionIs
  <2>8. sessionBar' = [slot |-> slot, fresh |-> FALSE, key |-> p, entries |-> BagOf(es)]
    BY <1>1, <1>3, <2>1 DEF sessionBar, Typed, TypeOK
  <2>9. vaultBar' = vaultBar
    BY <1>1, <1>3 DEF vaultBar, StoreModes
  <2>10. Abstract!Open(slot, p)
    BY <2>5, <2>6, <2>7, <2>8, <2>9 DEF Abstract!Open
  <2>11. QED BY <1>1, <2>10 DEF AbstractStep, Abstract!Next
<1>4. QED BY <1>2, <1>3 DEF EnterMaster

\* A command that edits in memory changes the entries or the key.
LEMMA EditedBars ==
    ASSUME Typed, Edited
    PROVE  /\ vaultBar' = vaultBar
           /\ sessionBar = SessionRecord /\ sessionBar # NoSession
           /\ sessionBar' = [slot |-> slot, fresh |-> firstUse, key |-> key',
                              entries |-> BagOf(passwords')]
           /\ BagOf(passwords) \in [WPTuple -> Nat]
<1>1. /\ mode = "menu" /\ mode' = "menu" /\ UNCHANGED <<flash, slot, firstUse>>
  BY DEF Edited
<1>2. mode \in LoggedIn /\ mode \notin StoreModes
  BY <1>1 DEF LoggedIn, StoreModes
<1>3. vaultBar' = vaultBar
  BY <1>1, <1>2 DEF vaultBar
<1>4. sessionBar = SessionRecord /\ sessionBar # NoSession
  BY <1>2, SessionIs
<1>5. sessionBar' = [slot |-> slot, fresh |-> firstUse, key |-> key',
                     entries |-> BagOf(passwords')]
  BY <1>1 DEF sessionBar
<1>6. BagOf(passwords) \in [WPTuple -> Nat]
  BY BagType DEF Typed, TypeOK
<1>7. QED BY <1>3, <1>4, <1>5, <1>6

LEMMA PositionFinds ==
    ASSUME Typed, mode = "menu", NEW site, Position(site) # 0
    PROVE  /\ Position(site) \in DOMAIN passwords
           /\ passwords[Position(site)].website = site
           /\ passwords[Position(site)] \in WPTuple
           /\ passwords \in Seq(WPTuple) /\ numOfPass = Len(passwords)
<1> DEFINE found == {i \in 1 .. numOfPass : passwords[i].website = site}
<1>1. passwords \in Seq(WPTuple) /\ numOfPass = Len(passwords) /\ numOfPass \in Nat
  BY DEF Typed, TypeOK, Shape, LoggedIn
<1>2. found # {}
  BY DEF Position
<1>3. \E i \in found : \A j \in found : j <= i
  <2>1. found \subseteq 1 .. numOfPass
    OBVIOUS
  <2> HIDE DEF found
  <2>2. QED BY <1>1, <1>2, <2>1, LastPosition
<1>4. Position(site) \in found
  BY <1>2, <1>3 DEF Position
<1>5. QED BY <1>1, <1>4

LEMMA AddIsPut ==
    ASSUME Typed, NEW site \in Sites, NEW word \in Words, Add(site, word)
    PROVE  AbstractStep
<1> DEFINE e == [website |-> site, password |-> word]
<1>1. Edited /\ passwords' = Append(passwords, e) /\ key' = key
  BY DEF Add
<1>2. e \in WPTuple /\ e \in Abstract!Entry
  BY DEF WPTuple, Abstract!Entry
<1> HIDE DEF e
<1>3. BagOf(passwords') = [BagOf(passwords) EXCEPT ![e] = @ + 1]
  BY <1>1, <1>2, BagAppend DEF Typed, TypeOK
<1>4. Abstract!Put(e)
  BY <1>1, <1>3, EditedBars DEF Abstract!Put, SessionRecord
<1>5. QED BY <1>2, <1>4 DEF AbstractStep, Abstract!Next

LEMMA RemoveIsTake ==
    ASSUME Typed, NEW site \in Sites, Remove(site)
    PROVE  /\ passwords[Position(site)] \in WPTuple
           /\ passwords[Position(site)].website = site
           /\ Abstract!Take(passwords[Position(site)])
<1> DEFINE k == Position(site)
<1>1. /\ Edited /\ mode = "menu" /\ k # 0 /\ key' = key
      /\ passwords' = [i \in 1 .. numOfPass - 1 |->
                           IF i = k THEN passwords[numOfPass] ELSE passwords[i]]
  BY DEF Remove, Edited
<1>2. /\ k \in DOMAIN passwords /\ passwords[k].website = site /\ passwords[k] \in WPTuple
      /\ passwords \in Seq(WPTuple) /\ numOfPass = Len(passwords)
  BY <1>1, PositionFinds
<1> HIDE DEF k
<1>3. BagOf(passwords') = [BagOf(passwords) EXCEPT ![passwords[k]] = @ - 1]
  BY <1>1, <1>2, BagRemove
<1>4. BagOf(passwords)[passwords[k]] > 0
  BY <1>2, BagReplace
<1>5. Abstract!Take(passwords[k])
  <2> DEFINE b == BagOf(passwords)
             e == passwords[k]
  <2>1. /\ vaultBar' = vaultBar /\ sessionBar # NoSession
        /\ sessionBar = [slot |-> slot, fresh |-> firstUse, key |-> key, entries |-> b]
        /\ sessionBar' = [slot |-> slot, fresh |-> firstUse, key |-> key,
                           entries |-> [b EXCEPT ![e] = @ - 1]]
    BY <1>1, <1>3, EditedBars DEF SessionRecord
  <2>2. b[e] > 0
    BY <1>4
  <2> HIDE DEF b, e
  <2>3. sessionBar' = [sessionBar EXCEPT !.entries[e] = @ - 1]
    BY <2>1
  <2>4. sessionBar.entries[e] > 0
    BY <2>1, <2>2
  <2>5. Abstract!Take(e)
    BY <2>1, <2>3, <2>4 DEF Abstract!Take
  <2>6. QED BY <2>5 DEF e
<1>6. QED BY <1>2, <1>5 DEF k

LEMMA ChangePasswordIsRenew ==
    ASSUME Typed, NEW site \in Sites, NEW word \in Words, ChangePassword(site, word)
    PROVE  AbstractStep
<1> DEFINE k == Position(site)
           e == passwords[k]
           d == [e EXCEPT !.password = word]
           b == BagOf(passwords)
           c == [[b EXCEPT ![e] = @ - 1] EXCEPT ![d] = @ + 1]
<1>1. /\ Edited /\ mode = "menu" /\ k # 0 /\ key' = key
      /\ passwords' = [passwords EXCEPT ![k].password = word]
  BY DEF ChangePassword, Edited
<1>2. k \in DOMAIN passwords /\ e \in WPTuple /\ passwords \in Seq(WPTuple)
  BY <1>1, PositionFinds
<1>3. passwords' = [passwords EXCEPT ![k] = d]
  BY <1>1
<1>4. d \in WPTuple
  BY <1>2 DEF WPTuple
<1> HIDE DEF k, d
<1>5. BagOf([passwords EXCEPT ![k] = d]) = c /\ b[e] > 0
  BY <1>2, <1>4, BagReplace
<1>6. /\ vaultBar' = vaultBar /\ sessionBar # NoSession
      /\ sessionBar = [slot |-> slot, fresh |-> firstUse, key |-> key, entries |-> b]
      /\ sessionBar' = [slot |-> slot, fresh |-> firstUse, key |-> key, entries |-> c]
  <2>1. BagOf(passwords') = c
    BY <1>3, <1>5
  <2> HIDE DEF c
  <2>2. QED BY <1>1, <2>1, EditedBars DEF SessionRecord
<1>7. d = [e EXCEPT !.password = word]
  BY DEF d
<1> HIDE DEF e, b
<1>8. Abstract!Renew(e, word)
  <2>1. sessionBar.entries = b
    BY <1>6
  <2>2. sessionBar' = [sessionBar EXCEPT !.entries = c]
    <3> HIDE DEF c
    <3>1. QED BY <1>6
  <2>3. c = Abstract!Exchanged(sessionBar.entries, e, [e EXCEPT !.password = word])
    BY <2>1, <1>7 DEF Abstract!Exchanged
  <2>4. sessionBar.entries[e] > 0
    BY <1>5, <2>1
  <2> HIDE DEF c
  <2>5. QED BY <1>6, <2>2, <2>3, <2>4 DEF Abstract!Renew
<1>9. QED BY <1>2, <1>8 DEF AbstractStep, Abstract!Next, Abstract!Entry, WPTuple

LEMMA ChangeMasterIsRekey ==
    ASSUME Typed, NEW old \in Masters, NEW new \in Masters, ChangeMasterPassword(old, new)
    PROVE  AbstractStep
<1>1. Edited /\ passwords' = passwords /\ key' = IF old = key THEN new ELSE key
  BY DEF ChangeMasterPassword
<1>2. CASE old = key
  <2>1. Abstract!Rekey(new)
    BY <1>1, <1>2, EditedBars DEF Abstract!Rekey, SessionRecord
  <2>2. QED BY <2>1 DEF AbstractStep, Abstract!Next
<1>3. CASE old # key
  <2>1. UNCHANGED <<vaultBar, sessionBar>>
    BY <1>1, <1>3, EditedBars DEF SessionRecord
  <2>2. QED BY <2>1 DEF AbstractStep
<1>4. QED BY <1>2, <1>3

LEMMA CommitIsCommit ==
    ASSUME Typed, NEW p \in Masters, Commit(p)
    PROVE  AbstractStep
<1>1. /\ mode = "menu" /\ mode' = "erase" /\ key' = IF firstUse THEN p ELSE key
      /\ UNCHANGED <<flash, slot, firstUse, passwords>>
  BY DEF Commit
<1>2. mode \in LoggedIn /\ mode' \in StoreModes /\ mode \notin StoreModes
  BY <1>1 DEF LoggedIn, StoreModes
<1>3. sessionBar = SessionRecord /\ sessionBar # NoSession
  BY <1>2, SessionIs
<1>4. sessionBar' = [slot |-> slot, fresh |-> firstUse, key |-> key',
                     entries |-> BagOf(passwords)]
  BY <1>1, <1>2 DEF sessionBar
<1>5. vaultBar' = [vaultBar EXCEPT ![slot] = [key |-> key', entries |-> BagOf(passwords)]]
  BY <1>1, <1>2 DEF vaultBar
<1>6. Abstract!Commit(p)
  BY <1>1, <1>3, <1>4, <1>5 DEF Abstract!Commit, SessionRecord
<1>7. QED BY <1>6 DEF AbstractStep, Abstract!Next

LEMMA StoreIsNoStep ==
    ASSUME Typed, Durability, Kept, Store
    PROVE  AbstractStep
<1>1. CASE ~StoreReturn
  <2>1. /\ mode \in StoreModes /\ mode' \in StoreModes
        /\ slot' = slot /\ key' = key /\ passwords' = passwords /\ firstUse' = firstUse
        /\ \A s \in Slots : s # slot => flash'[s] = flash[s]
    BY <1>1, StoreMoves
  <2>2. vaultBar' = vaultBar
    BY <2>1 DEF vaultBar
  <2>3. sessionBar' = sessionBar
    BY <2>1 DEF sessionBar
  <2>4. QED BY <2>2, <2>3 DEF AbstractStep
<1>2. CASE StoreReturn
  <2>1. /\ mode = "stored" /\ mode' = "menu" /\ mode \in StoreModes /\ mode' \notin StoreModes
        /\ UNCHANGED <<flash, slot, key, firstUse, passwords>>
    BY <1>2 DEF StoreReturn, StoreModes
  <2>2. Holds(flash[slot], key, passwords)
    BY <2>1 DEF Kept, Durability, Progress
  <2>3. key \in Keys /\ passwords \in Seq(WPTuple) /\ Len(passwords) <= MaxStored
    BY <2>1, MaxStoredAssumption DEF Typed, TypeOK, Shape, Keys, LoggedIn
  <2>4. VaultOnFlash(flash[slot]) = [key |-> key, entries |-> BagOf(passwords)]
    BY <2>2, <2>3, VaultHeld
  <2>5. vaultBar' = vaultBar
    BY <2>1, <2>4 DEF vaultBar
  <2>6. sessionBar' = sessionBar
    BY <2>1 DEF sessionBar
  <2>7. QED BY <2>5, <2>6 DEF AbstractStep
<1>3. QED BY <1>1, <1>2

LEMMA DeleteIsDelete ==
    ASSUME Typed, NEW p \in Masters, Delete(p)
    PROVE  AbstractStep
<1>1. mode = "menu" /\ mode' = "again"
  BY DEF Delete, EndSession
<1>2. mode \in LoggedIn /\ mode' \notin LoggedIn /\ mode \notin StoreModes
      /\ mode' \notin StoreModes
  BY <1>1 DEF LoggedIn, StoreModes
<1>3. slot \in Slots /\ flash' = [flash EXCEPT ![slot] = Blank]
  <2>1. slot \in Slots
    BY <1>1 DEF Typed, Shape, Closed
  <2>2. QED BY <2>1, EraseOwnSector DEF Delete, Typed, TypeOK
<1>4. \A s \in Slots : flash'[s] = IF s = slot THEN Blank ELSE flash[s]
  BY <1>3 DEF Typed, TypeOK
<1>5. sessionBar = SessionRecord /\ sessionBar # NoSession /\ sessionBar' = NoSession
  BY <1>2, SessionIs DEF sessionBar, LoggedIn
<1>6. VaultOnFlash(Blank) = NoVault
  BY NothingHeld DEF Blank
<1>7. vaultBar' = [vaultBar EXCEPT ![slot] = NoVault]
  BY <1>2, <1>4, <1>6 DEF vaultBar
<1>8. Abstract!Delete
  BY <1>5, <1>7 DEF Abstract!Delete, SessionRecord
<1>9. QED BY <1>8 DEF AbstractStep, Abstract!Next

LEMMA EndIsClose ==
    ASSUME Faultless, Quit \/ AnswerAgain \/ PowerLoss
    PROVE  AbstractStep
<1>1. /\ mode \notin StoreModes /\ mode' \notin StoreModes /\ mode' \notin LoggedIn
      /\ flash' = flash
  BY DEF Faultless, Quit, AnswerAgain, PowerLoss, EndSession, StoreModes, LoggedIn
<1>2. vaultBar' = vaultBar /\ sessionBar' = NoSession
  BY <1>1 DEF vaultBar, sessionBar, LoggedIn
<1>3. Abstract!Close
  BY <1>2 DEF Abstract!Close
<1>4. QED BY <1>3 DEF AbstractStep, Abstract!Next

LEMMA VaultStep ==
    ASSUME Faultless, Typed, Typed', Durability, Kept, [Next]_vars
    PROVE  AbstractStep
<1>1. CASE UNCHANGED vars
  <2>1. UNCHANGED <<vaultBar, sessionBar>>
    BY <1>1 DEF vars, session, store, vaultBar, sessionBar
  <2>2. QED BY <2>1 DEF AbstractStep
<1>2. ASSUME NEW site \in Sites, Remove(site) PROVE AbstractStep
  <2>1. PICK e \in WPTuple : Abstract!Take(e)
    BY <1>2, RemoveIsTake
  <2>2. QED BY <2>1 DEF AbstractStep, Abstract!Next, Abstract!Entry, WPTuple
<1>3. ASSUME NEW s \in Slots, OpenBlank(s) \/ OpenVault(s) PROVE AbstractStep
  BY <1>3, OpenBlankIsOpenFresh, OpenVaultIsNoStep
<1>4. ASSUME NEW p \in Masters, EnterMaster(p) \/ Commit(p) \/ Delete(p) PROVE AbstractStep
  BY <1>4, EnterMasterIsOpen, CommitIsCommit, DeleteIsDelete
<1>5. ASSUME NEW site \in Sites, NEW word \in Words,
             Add(site, word) \/ ChangePassword(site, word)
      PROVE  AbstractStep
  BY <1>5, AddIsPut, ChangePasswordIsRenew
<1>6. ASSUME NEW old \in Masters, NEW new \in Masters, ChangeMasterPassword(old, new)
      PROVE  AbstractStep
  BY <1>6, ChangeMasterIsRekey
<1>7. QED
  BY <1>1, <1>2, <1>3, <1>4, <1>5, <1>6, StoreIsNoStep, EndIsClose DEF Next

LEMMA VaultInit == Init => Abstract!Init
<1> SUFFICES ASSUME Init PROVE Abstract!Init
  OBVIOUS
<1>1. flash = [s \in Slots |-> Blank] /\ mode = "slot"
  BY DEF Init
<1>2. VaultOnFlash(Blank) = NoVault
  BY NothingHeld DEF Blank
<1>3. mode \notin StoreModes /\ mode \notin LoggedIn
  BY <1>1 DEF StoreModes, LoggedIn
<1>4. vaultBar = [s \in Slots |-> NoVault]
  BY <1>1, <1>2, <1>3 DEF vaultBar
<1>5. sessionBar = NoSession
  BY <1>3 DEF sessionBar, LoggedIn
<1>6. QED BY <1>4, <1>5 DEF Abstract!Init

\* The program implements Vault: what is committed is what the next session
\* with that master password sees, for any number of slots, tuples, websites
\* and passwords.
THEOREM Implements ==
    ASSUME FlashErrors = FALSE, LossDuringStore = FALSE
    PROVE  Spec => ImplementsVault
<1>1. Faultless
  BY DEF Faultless
<1>2. Init => Typed /\ Durability /\ Kept
  BY InitTyped, InitDurability, InitKept
<1>3. Typed /\ Durability /\ Kept /\ [Next]_vars => (Typed /\ Durability /\ Kept)'
  BY <1>1, NextTyped, NextDurability, NextKept
<1>4. Typed /\ Durability /\ Kept /\ [Next]_vars => [Abstract!Next]_(Abstract!vars)
  <2>1. Typed /\ Durability /\ Kept /\ [Next]_vars => AbstractStep
    BY <1>1, NextTyped, VaultStep
  <2>2. QED BY <2>1 DEF AbstractStep, Abstract!vars
<1>5. QED BY <1>2, <1>3, <1>4, VaultInit, PTL DEF Spec, ImplementsVault, Abstract!Spec

\* Whatever calls fail and whenever the power goes: the entry that remove
\* takes out of memory is one of the website that was asked for, and all the
\* others stay.
THEOREM RemoveTakesOne == Spec => RemoveTakesItsOwn
<1> DEFINE One == \A site \in Sites : Remove(site) =>
                      \E e \in WPTuple : e.website = site /\ Abstract!Take(e)
<1>1. Typed /\ [Next]_vars => [One]_vars
  BY RemoveIsTake
<1>2. Spec => []Typed
  BY InitTyped, NextTyped, PTL DEF Spec
<1>3. QED BY <1>1, <1>2, PTL DEF Spec, RemoveTakesItsOwn
=============================================================================
