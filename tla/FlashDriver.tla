---------------------------- MODULE FlashDriver ----------------------------
(***************************************************************************)
(* The internal flash of the STM32F407 as FlashDriver.cpp drives it: the   *)
(* sector map, and what programming does to a byte.  Erasing sets every    *)
(* byte of one sector to 0xFF; programming can only clear bits, so the     *)
(* byte that results is the bitwise AND of the old one and the one written.*)
(* A sector is the unit of erase, which is what ties together data that    *)
(* the program thinks of as unrelated.                                     *)
(***************************************************************************)
EXTENDS Integers

CONSTANT ByteAnd(_, _)   \* bitwise AND of two bytes

Byte == 0 .. 255
ErasedByte == 255

(***************************************************************************)
(* What the proofs need to know of bitwise AND.                            *)
(***************************************************************************)
ASSUME ByteAndAssumption ==
    \A a, b \in Byte : /\ ByteAnd(a, b) \in Byte
                       /\ ByteAnd(a, b) <= a
                       /\ ByteAnd(a, b) <= b
                       /\ ByteAnd(ErasedByte, b) = b

(***************************************************************************)
(* The sector map: four sectors of 16 KiB, one of 64 KiB and seven of      *)
(* 128 KiB, from 0x08000000 on.                                            *)
(***************************************************************************)
Sectors == 0 .. 11
KiB == 1024
FlashBase == 134217728                                       \* 0x08000000

SectorAddress(n) ==
    FlashBase + KiB * (IF n <= 4 THEN 16 * n ELSE 128 * (n - 4))

\* The first address the driver no longer counts to sector n.  The last
\* sector is cut at 128000 bytes, not at 128 KiB.
SectorLimit(n) ==
    IF n = 11 THEN SectorAddress(11) + 128000 ELSE SectorAddress(n + 1)

SectorNumber(address) ==
    IF \E n \in Sectors : SectorAddress(n) <= address /\ address < SectorLimit(n)
    THEN CHOOSE n \in Sectors :
            SectorAddress(n) <= address /\ address < SectorLimit(n)
    ELSE -1
=============================================================================
