---------------------------- MODULE SerialProofs ----------------------------
(***************************************************************************)
(* Proofs about Serial, for all sizes of its buffers and of a transfer,    *)
(* with both directions going on at once.                                  *)
(***************************************************************************)
EXTENDS Serial, SequenceTheorems, TLAPS

RxTyped ==
    /\ sent \in 0 .. MaxChars /\ lost \subseteq 1 .. MaxChars /\ dr \in 0 .. MaxChars
    /\ {busy, idleFlag, dmaRxPending} \subseteq BOOLEAN
    /\ usart \in {"off", "entered", "late"}
    /\ {rxBuffer, rxQueue, buf, delivered} \subseteq Seq(1 .. MaxChars)
    /\ Len(rxBuffer) <= RxQueueMin /\ Len(rxQueue) <= RxCapacity /\ Len(buf) <= size
    /\ {idle, rxWaiting, rxFlag} \subseteq BOOLEAN
    /\ rxAt \in {"program", "read", "wait"} /\ size \in 0 .. MaxRead

TxTyped ==
    /\ {written, base, remaining} \subseteq 0 .. MaxBytes
    /\ base + remaining <= written
    /\ txBuffer \in [1 .. TxBufferSize -> 0 .. MaxBytes]
    /\ {ccm, dmaTxInProgress, txWaiting, dmaTxPending, txFlag} \subseteq BOOLEAN
    /\ dmaTx \in [from : {"none", "caller", "txBuffer"}, next : Nat, left : Nat]
    /\ txAt \in {"program", "write", "wait"}

\* What the stream still has to send, and where it finds it: in txBuffer, or
\* in the memory of a call that has not returned and cannot, since its last
\* part always goes through txBuffer.
InTransfer ==
    dmaTx.left > 0 =>
        \/ /\ dmaTx.from = "txBuffer" /\ dmaTx.next >= 1
           /\ dmaTx.next + dmaTx.left - 1 <= TxBufferSize
           /\ \A j \in 0 .. dmaTx.left - 1 : txBuffer[dmaTx.next + j] = Len(wire) + 1 + j
        \/ /\ dmaTx.from = "caller" /\ txAt # "program" /\ remaining > 0
           /\ base + dmaTx.next = Len(wire) + 1

\* The transfer, its interrupt and the two flags of the driver agree.
FlagsAgree ==
    /\ dmaTx.left > 0 => dmaTxInProgress
    /\ dmaTxPending => dmaTxInProgress /\ dmaTx.left = 0
    /\ txAt = "wait" => remaining > 0
    /\ txAt = "wait" /\ ~txWaiting => ~dmaTxInProgress
    /\ txAt = "program" => remaining = 0

\* All that was given to the stream is on the wire or in the transfer.
Sent ==
    /\ wire \in Seq(Nat)
    /\ \A i \in 1 .. Len(wire) : wire[i] = i
    /\ Len(wire) + dmaTx.left = written - remaining

TxInv == TxTyped /\ InTransfer /\ FlagsAgree /\ Sent

-----------------------------------------------------------------------------
(* The transmitting side.                                                  *)

LEMMA TxKept == TxInv /\ UNCHANGED txVars => TxInv'
BY DEF TxInv, TxTyped, InTransfer, FlagsAgree, Sent, txVars, callVars, dmaVars

\* A part is not empty, and leaves something for txBuffer when it is sent
\* from where it is.
LEMMA PartSize ==
    ASSUME TxTyped, remaining > 0
    PROVE  /\ Part \in Nat /\ Part > 0 /\ Part <= remaining
           /\ ZeroCopy => Part < remaining
           /\ ~ZeroCopy => Part <= TxBufferSize
<1>1. /\ remaining \in Nat /\ TxBufferSize \in Nat \ {0} /\ MaxTransfer \in Nat \ {0}
  BY SerialAssumption DEF TxTyped
<1>2. CASE ZeroCopy
  BY <1>1, <1>2 DEF Part, ZeroCopy, Smaller
<1>3. CASE ~ZeroCopy
  BY <1>1, <1>3 DEF Part, Smaller
<1>4. QED BY <1>2, <1>3

LEMMA WriteBlockStep ==
    ASSUME TxInv, NEW n \in 0 .. MaxBytes, NEW c \in BOOLEAN, WriteBlock(n, c)
    PROVE  TxInv'
<1>1. /\ txAt = "program" /\ written + n <= MaxBytes /\ base' = written
      /\ written' = written + n /\ remaining' = n /\ ccm' = c /\ txAt' = "write"
      /\ UNCHANGED <<dmaTx, dmaTxPending, wire, txBuffer, dmaTxInProgress, txWaiting, txFlag>>
  BY DEF WriteBlock, dmaVars
<1>2. remaining = 0 /\ MaxBytes \in Nat /\ written \in Nat
  BY <1>1, SerialAssumption DEF TxInv, FlagsAgree, TxTyped
<1>3. TxTyped'
  BY <1>1, <1>2 DEF TxInv, TxTyped
<1>4. InTransfer'
  BY <1>1 DEF TxInv, InTransfer
<1>5. FlagsAgree'
  BY <1>1 DEF TxInv, FlagsAgree
<1>6. Sent'
  BY <1>1, <1>2 DEF TxInv, Sent
<1>7. QED BY <1>3, <1>4, <1>5, <1>6 DEF TxInv

LEMMA WriteDmaStep == ASSUME TxInv, WriteDma PROVE TxInv'
<1> DEFINE done == written - base - remaining
<1>1. /\ remaining > 0 /\ ~dmaTxInProgress /\ dmaTxInProgress' = TRUE
      /\ remaining' = remaining - Part /\ txAt' = "write"
      /\ UNCHANGED <<written, base, ccm, dmaTxPending, wire, txWaiting, txFlag>>
  BY DEF WriteDma, TxInv, FlagsAgree, TxBusy
<1>2. /\ {written, base, remaining} \subseteq Nat /\ done \in Nat /\ done = written - base - remaining
      /\ written \in 0 .. MaxBytes /\ MaxBytes \in Nat /\ TxBufferSize \in Nat \ {0}
  BY SerialAssumption DEF TxInv, TxTyped
<1>3. /\ Part \in Nat /\ Part > 0 /\ Part <= remaining
      /\ ZeroCopy => Part < remaining
      /\ ~ZeroCopy => Part <= TxBufferSize
  BY <1>1, PartSize DEF TxInv
<1>4. dmaTx.left = 0 /\ ~dmaTxPending /\ Len(wire) = base + done
  BY <1>1, <1>2 DEF TxInv, FlagsAgree, Sent, TxTyped
<1>5. IF ZeroCopy
      THEN /\ dmaTx' = [from |-> "caller", next |-> done + 1, left |-> Part]
           /\ UNCHANGED txBuffer
      ELSE /\ dmaTx' = [from |-> "txBuffer", next |-> 1, left |-> Part]
           /\ txBuffer' = [i \in 1 .. TxBufferSize |->
                             IF i <= Part THEN base + done + i ELSE txBuffer[i]]
  BY DEF WriteDma
<1> HIDE DEF done
<1>6. FlagsAgree'
  BY <1>1, <1>4 DEF FlagsAgree
<1>7. dmaTx'.left = Part
  BY <1>5
<1>8. Sent'
  <2>1. Len(wire) + Part = written - (remaining - Part)
    BY <1>2, <1>3, <1>4
  <2>2. QED BY <1>1, <1>7, <2>1 DEF TxInv, Sent
<1>9. /\ remaining' \in 0 .. MaxBytes /\ base + remaining' <= written
      /\ {written, base} \subseteq 0 .. MaxBytes
      /\ {ccm, dmaTxInProgress', txWaiting, dmaTxPending, txFlag} \subseteq BOOLEAN
  BY <1>1, <1>2, <1>3 DEF TxInv, TxTyped
<1>10. CASE ZeroCopy
  <2>1. dmaTx' \in [from : {"none", "caller", "txBuffer"}, next : Nat, left : Nat]
    BY <1>2, <1>3, <1>5, <1>10
  <2>2. TxTyped'
    BY <1>9, <1>1, <1>5, <1>10, <2>1 DEF TxInv, TxTyped
  <2>3. InTransfer'
    BY <1>1, <1>2, <1>3, <1>4, <1>5, <1>10 DEF InTransfer
  <2>4. QED BY <1>6, <1>8, <2>2, <2>3 DEF TxInv
<1>11. CASE ~ZeroCopy
  <2>1. /\ dmaTx' = [from |-> "txBuffer", next |-> 1, left |-> Part]
        /\ \A i \in 1 .. TxBufferSize :
              txBuffer'[i] = IF i <= Part THEN base + done + i ELSE txBuffer[i]
    BY <1>5, <1>11
  <2>2. \A i \in 1 .. TxBufferSize : i <= Part => base + done + i \in 0 .. MaxBytes
    BY <1>2, <1>3
  <2>3. txBuffer' \in [1 .. TxBufferSize -> 0 .. MaxBytes]
    BY <1>5, <1>11, <2>2 DEF TxInv, TxTyped
  <2>4. TxTyped'
    <3>1. dmaTx' \in [from : {"none", "caller", "txBuffer"}, next : Nat, left : Nat]
      BY <1>3, <2>1
    <3>2. QED BY <1>9, <1>1, <2>3, <3>1 DEF TxTyped
  <2>5. \A j \in 0 .. Part - 1 : 1 + j \in 1 .. TxBufferSize /\ 1 + j <= Part
    BY <1>2, <1>3, <1>11
  <2>6. \A j \in 0 .. Part - 1 : txBuffer'[1 + j] = Len(wire) + 1 + j
    BY <1>2, <1>4, <2>1, <2>5
  <2>7. InTransfer'
    BY <1>1, <1>2, <1>3, <1>11, <2>1, <2>6 DEF InTransfer
  <2>8. QED BY <1>6, <1>8, <2>4, <2>7 DEF TxInv
<1>12. QED BY <1>10, <1>11

LEMMA DmaSendsStep == ASSUME TxInv, DmaSends PROVE TxInv'
<1> DEFINE k == dmaTx.next
           c == IF dmaTx.from = "txBuffer" THEN txBuffer[k]
                ELSE IF txAt = "program" THEN Junk ELSE base + k
           n == dmaTx.left
<1>1. /\ n > 0 /\ wire' = Append(wire, c)
      /\ dmaTx' = [dmaTx EXCEPT !.next = k + 1, !.left = n - 1]
      /\ dmaTxPending' = (dmaTxPending \/ n = 1)
      /\ UNCHANGED <<written, base, remaining, ccm, txAt, txBuffer, dmaTxInProgress,
                     txWaiting, txFlag>>
  BY DEF DmaSends, callVars
<1>2. k \in Nat /\ n \in Nat /\ base \in Nat /\ wire \in Seq(Nat) /\ Len(wire) \in Nat
  BY DEF TxInv, TxTyped, Sent
<1>3. /\ dmaTx' \in [from : {"none", "caller", "txBuffer"}, next : Nat, left : Nat]
      /\ dmaTx'.from = dmaTx.from /\ dmaTx'.next = k + 1 /\ dmaTx'.left = n - 1
  <2>1. dmaTx \in [from : {"none", "caller", "txBuffer"}, next : Nat, left : Nat]
    BY DEF TxInv, TxTyped
  <2>2. n - 1 \in Nat /\ k + 1 \in Nat
    BY <1>1, <1>2
  <2> HIDE DEF n, k
  <2>3. QED BY <1>1, <2>1, <2>2
<1>4. c = Len(wire) + 1
  <2>1. CASE dmaTx.from = "txBuffer"
    <3>1. 0 \in 0 .. n - 1 /\ \A j \in 0 .. n - 1 : txBuffer[k + j] = Len(wire) + 1 + j
      BY <1>1, <1>2, <2>1 DEF TxInv, InTransfer
    <3>2. txBuffer[k + 0] = Len(wire) + 1 + 0
      BY <3>1
    <3>3. QED BY <1>2, <2>1, <3>2
  <2>2. CASE dmaTx.from # "txBuffer"
    BY <1>1, <1>2, <2>2 DEF TxInv, InTransfer
  <2>3. QED BY <2>1, <2>2
<1> HIDE DEF c
<1>5. /\ wire' \in Seq(Nat) /\ Len(wire') = Len(wire) + 1 /\ wire'[Len(wire) + 1] = c
      /\ \A i \in 1 .. Len(wire) : wire'[i] = wire[i]
  BY <1>1, <1>2, <1>4
<1>6. Sent'
  <2>1. \A i \in 1 .. Len(wire) + 1 : i \in 1 .. Len(wire) \/ i = Len(wire) + 1
    BY <1>2
  <2>2. \A i \in 1 .. Len(wire') : wire'[i] = i
    BY <1>4, <1>5, <2>1 DEF TxInv, Sent
  <2>3. Len(wire') + (n - 1) = written - remaining
    <3>1. Len(wire) + n = written - remaining /\ written \in Int /\ remaining \in Int
      BY DEF TxInv, Sent, TxTyped
    <3> HIDE DEF n
    <3>2. QED BY <1>2, <1>5, <3>1
  <2>4. QED BY <1>1, <1>3, <1>5, <2>2, <2>3 DEF Sent
<1>7. InTransfer'
  <2>1. CASE dmaTx.from = "txBuffer"
    <3>1. /\ k >= 1 /\ k + n - 1 <= TxBufferSize
          /\ \A j \in 0 .. n - 1 : txBuffer[k + j] = Len(wire) + 1 + j
      BY <1>1, <2>1 DEF TxInv, InTransfer
    <3>2. k + 1 >= 1 /\ (k + 1) + (n - 1) - 1 <= TxBufferSize
      BY <1>2, <3>1, SerialAssumption
    <3>3. ASSUME NEW j \in 0 .. (n - 1) - 1
          PROVE  txBuffer[(k + 1) + j] = (Len(wire) + 1) + 1 + j
      <4>1. j + 1 \in 0 .. n - 1 /\ k + (j + 1) = (k + 1) + j
        BY <1>2, <3>3
      <4>2. txBuffer[k + (j + 1)] = Len(wire) + 1 + (j + 1)
        BY <3>1, <4>1
      <4>3. QED BY <1>2, <4>1, <4>2
    <3>4. QED BY <1>1, <1>3, <1>5, <2>1, <3>2, <3>3 DEF InTransfer
  <2>2. CASE dmaTx.from # "txBuffer"
    BY <1>1, <1>2, <1>3, <1>5, <2>2 DEF TxInv, InTransfer
  <2>3. QED BY <2>1, <2>2
<1>8. FlagsAgree'
  <2>1. n - 1 > 0 => n > 0
    BY <1>2
  <2>2. n = 1 => n - 1 = 0
    OBVIOUS
  <2>3. ~dmaTxPending /\ dmaTxInProgress
    BY <1>1 DEF TxInv, FlagsAgree
  <2>4. QED BY <1>1, <1>3, <2>1, <2>2, <2>3 DEF TxInv, FlagsAgree
<1>9. TxTyped'
  BY <1>1, <1>3 DEF TxInv, TxTyped
<1>10. QED BY <1>6, <1>7, <1>8, <1>9 DEF TxInv

LEMMA TxStep == TxInv /\ Transmitting => TxInv'
<1> SUFFICES ASSUME TxInv, Transmitting PROVE TxInv'
  OBVIOUS
<1>1. ASSUME WriteWaits PROVE TxInv'
  <2>1. /\ txFlag' = TRUE /\ txWaiting' = TRUE /\ txAt' = "wait" /\ txAt # "program"
        /\ remaining > 0
        /\ UNCHANGED <<written, base, remaining, ccm, dmaTx, dmaTxPending, wire,
                       txBuffer, dmaTxInProgress>>
    BY <1>1 DEF WriteWaits, dmaVars, TxInv, FlagsAgree
  <2>2. QED BY <2>1 DEF TxInv, TxTyped, InTransfer, FlagsAgree, Sent
<1>2. ASSUME WriteReturns PROVE TxInv'
  <2>1. /\ remaining = 0 /\ txAt' = "program"
        /\ UNCHANGED <<written, base, remaining, ccm, dmaTx, dmaTxPending, wire,
                       txBuffer, dmaTxInProgress, txWaiting, txFlag>>
    BY <1>2 DEF WriteReturns, dmaVars
  <2>2. QED BY <2>1 DEF TxInv, TxTyped, InTransfer, FlagsAgree, Sent
<1>3. ASSUME IRQhandleDMAtx PROVE TxInv'
  <2>1. /\ dmaTxPending /\ dmaTx.left = 0 /\ dmaTxPending' = FALSE
        /\ dmaTxInProgress' = FALSE /\ txWaiting' = FALSE
        /\ txFlag' = (txFlag /\ ~txWaiting)
        /\ UNCHANGED <<written, base, remaining, ccm, txAt, dmaTx, wire, txBuffer>>
    BY <1>3 DEF IRQhandleDMAtx, WakeWriter, callVars, TxInv, FlagsAgree
  <2>2. TxTyped'
    BY <2>1 DEF TxInv, TxTyped
  <2>3. QED BY <2>1, <2>2 DEF TxInv, InTransfer, FlagsAgree, Sent
<1>4. ASSUME StrayTx PROVE TxInv'
  BY <1>4 DEF StrayTx, callVars, dmaVars, TxInv, TxTyped, InTransfer, FlagsAgree, Sent
<1>5. QED
  BY <1>1, <1>2, <1>3, <1>4, WriteBlockStep, WriteDmaStep, DmaSendsStep
     DEF Transmitting, Writes

-----------------------------------------------------------------------------
(* The receiving side.                                                     *)

LEMMA RxKept == RxTyped /\ UNCHANGED rxVars => RxTyped'
BY DEF RxTyped, rxVars, lineVars, readVars

\* What IRQreadDma moves fits into the queue, and the rest counts as lost.
LEMMA ReadDmaType ==
    ASSUME RxTyped, NEW c \in 0 .. MaxChars, NEW drops \in SUBSET (1 .. MaxChars),
           ReadDma(c, drops)
    PROVE  /\ rxQueue' \in Seq(1 .. MaxChars) /\ Len(rxQueue') <= RxCapacity
           /\ rxBuffer' \in Seq(1 .. MaxChars) /\ Len(rxBuffer') <= RxQueueMin
           /\ lost' \subseteq 1 .. MaxChars
           /\ dr' = 0
<1> DEFINE n == Smaller(Len(rxBuffer), PlacesLeft)
           part == SubSeq(rxBuffer, 1, n)
<1>1. /\ rxQueue \in Seq(1 .. MaxChars) /\ rxBuffer \in Seq(1 .. MaxChars)
      /\ Len(rxQueue) \in Nat /\ Len(rxBuffer) \in Nat /\ Len(rxQueue) <= RxCapacity
      /\ RxCapacity \in Nat /\ RxQueueMin \in Nat /\ RxQueueMin >= 4 /\ lost \subseteq 1 .. MaxChars
  BY SerialAssumption DEF RxTyped
<1>2. n \in Nat /\ n <= Len(rxBuffer) /\ Len(rxQueue) + n <= RxCapacity
  BY <1>1 DEF Smaller, PlacesLeft
<1>3. /\ rxQueue' = rxQueue \o part /\ rxBuffer' = Restarted(c) /\ dr' = 0
      /\ lost' = lost \cup drops \cup {rxBuffer[i] : i \in n + 1 .. Len(rxBuffer)}
  BY DEF ReadDma
<1> HIDE DEF n
<1>4. part \in Seq(1 .. MaxChars) /\ Len(part) = n
  <2>1. \A i \in 1 .. n : i \in 1 .. Len(rxBuffer)
    BY <1>1, <1>2
  <2>2. \A i \in 1 .. n : rxBuffer[i] \in 1 .. MaxChars
    BY <1>1, <2>1, ElementOfSeq
  <2>3. n \in Int /\ 1 \in Int /\ (IF 1 <= n THEN n - 1 + 1 ELSE 0) = n
    BY <1>2
  <2>4. /\ SubSeq(rxBuffer, 1, n) \in Seq(1 .. MaxChars)
        /\ Len(SubSeq(rxBuffer, 1, n)) = IF 1 <= n THEN n - 1 + 1 ELSE 0
    BY <2>2, <2>3, SubSeqProperties
  <2>5. QED BY <2>3, <2>4
<1> HIDE DEF part
<1>5. rxQueue' \in Seq(1 .. MaxChars) /\ Len(rxQueue') = Len(rxQueue) + n
  BY <1>1, <1>3, <1>4, ConcatProperties
<1>6. \A i \in n + 1 .. Len(rxBuffer) : rxBuffer[i] \in 1 .. MaxChars
  <2>1. \A i \in n + 1 .. Len(rxBuffer) : i \in 1 .. Len(rxBuffer)
    BY <1>1, <1>2
  <2>2. \A i \in 1 .. Len(rxBuffer) : rxBuffer[i] \in 1 .. MaxChars
    BY <1>1, ElementOfSeq
  <2>3. QED BY <2>1, <2>2
<1>7. rxBuffer' \in Seq(1 .. MaxChars) /\ Len(rxBuffer') <= 1
  <2>1. CASE c = 0
    BY <1>3, <2>1 DEF Restarted
  <2>2. CASE c # 0
    <3>1. c \in 1 .. MaxChars /\ rxBuffer' = <<c>>
      BY <1>3, <2>2 DEF Restarted
    <3>2. QED BY <3>1
  <2>3. QED BY <2>1, <2>2
<1>8. Len(rxQueue') <= RxCapacity /\ Len(rxBuffer') <= RxQueueMin
  BY <1>1, <1>2, <1>5, <1>7
<1>9. drops \subseteq 1 .. MaxChars
  OBVIOUS
<1>10. lost' \subseteq 1 .. MaxChars
  BY <1>1, <1>3, <1>6, <1>9
<1>11. QED BY <1>3, <1>5, <1>7, <1>8, <1>10

LEMMA CharArrivesType == ASSUME RxTyped, CharArrives PROVE RxTyped'
<1> DEFINE c == sent + 1
<1>1. /\ sent < MaxChars /\ sent' = c /\ busy' = TRUE
      /\ usart' = IF usart = "entered" THEN "late" ELSE usart
      /\ UNCHANGED <<idleFlag, readVars>>
  BY DEF CharArrives
<1>2. c \in 1 .. MaxChars /\ c \in 0 .. MaxChars /\ MaxChars \in Nat
  BY <1>1, SerialAssumption DEF RxTyped
<1>3. \/ /\ Len(rxBuffer) < RxQueueMin /\ rxBuffer' = Append(rxBuffer, c)
         /\ dmaRxPending' = (dmaRxPending \/ Len(rxBuffer') = RxQueueMin \div 2)
         /\ UNCHANGED <<dr, lost>>
      \/ /\ dr' = c /\ UNCHANGED <<lost, rxBuffer, dmaRxPending>>
      \/ /\ lost' = lost \cup {c} /\ UNCHANGED <<dr, rxBuffer, dmaRxPending>>
  BY DEF CharArrives
<1> HIDE DEF c
<1>4. dr' \in 0 .. MaxChars /\ lost' \subseteq 1 .. MaxChars
  BY <1>2, <1>3 DEF RxTyped
<1>5. rxBuffer' \in Seq(1 .. MaxChars) /\ Len(rxBuffer') <= RxQueueMin
  <2>1. rxBuffer \in Seq(1 .. MaxChars) /\ Len(rxBuffer) \in Nat /\ Len(rxBuffer) <= RxQueueMin
        /\ RxQueueMin \in Nat
    BY SerialAssumption DEF RxTyped
  <2>2. Append(rxBuffer, c) \in Seq(1 .. MaxChars)
        /\ Len(Append(rxBuffer, c)) = Len(rxBuffer) + 1
    BY <1>2, <2>1
  <2>3. Len(rxBuffer) < RxQueueMin => Len(rxBuffer) + 1 <= RxQueueMin
    BY <2>1
  <2>4. CASE Len(rxBuffer) < RxQueueMin /\ rxBuffer' = Append(rxBuffer, c)
    BY <2>2, <2>3, <2>4
  <2>5. CASE rxBuffer' = rxBuffer
    BY <2>1, <2>5
  <2>6. QED BY <1>3, <2>4, <2>5
<1>6. dmaRxPending' \in BOOLEAN
  BY <1>3 DEF RxTyped
<1>7. usart' \in {"off", "entered", "late"}
  BY <1>1 DEF RxTyped
<1>8. sent' \in 0 .. MaxChars
  BY <1>1, <1>2
<1>9. QED BY <1>1, <1>4, <1>5, <1>6, <1>7, <1>8 DEF RxTyped, readVars

LEMMA InterruptsType ==
    ASSUME RxTyped, IRQhandleDMArx \/ IRQhandleInterrupt PROVE RxTyped'
<1>1. /\ rxQueue' \in Seq(1 .. MaxChars) /\ Len(rxQueue') <= RxCapacity
      /\ rxBuffer' \in Seq(1 .. MaxChars) /\ Len(rxBuffer') <= RxQueueMin
      /\ lost' \subseteq 1 .. MaxChars /\ dr' = 0
  <2>1. dr \in 0 .. MaxChars /\ 0 \in 0 .. MaxChars
    BY SerialAssumption DEF RxTyped
  <2>2. (IF dr = 0 THEN {} ELSE {dr}) \in SUBSET (1 .. MaxChars) /\ {} \in SUBSET (1 .. MaxChars)
    BY <2>1, SerialAssumption
  <2>3. CASE IRQhandleDMArx
    BY <2>1, <2>2, <2>3, ReadDmaType DEF IRQhandleDMArx
  <2>4. CASE IRQhandleInterrupt
    BY <2>1, <2>2, <2>4, ReadDmaType DEF IRQhandleInterrupt
  <2>5. QED BY <2>3, <2>4
<1>2. /\ {idleFlag', dmaRxPending', idle'} \subseteq BOOLEAN
      /\ usart' \in {"off", "entered", "late"}
      /\ UNCHANGED <<sent, busy, rxAt, size, buf, delivered>>
  BY DEF IRQhandleDMArx, IRQhandleInterrupt, RxTyped
<1>3. rxWaiting' \in BOOLEAN /\ rxFlag' \in BOOLEAN
  BY DEF IRQhandleDMArx, IRQhandleInterrupt, WakeReader
<1>4. dr' \in 0 .. MaxChars
  BY <1>1, SerialAssumption
<1>5. QED BY <1>1, <1>2, <1>3, <1>4 DEF RxTyped

LEMMA ReadsType == ASSUME RxTyped, Reads \/ StrayRx PROVE RxTyped'
<1>1. /\ {rxBuffer, rxQueue, buf, delivered} \subseteq Seq(1 .. MaxChars)
      /\ Len(rxQueue) <= RxCapacity /\ Len(buf) <= size
      /\ size \in 0 .. MaxRead /\ MaxRead \in Nat /\ RxCapacity \in Nat
  BY SerialAssumption DEF RxTyped
<1>2. ASSUME NEW n \in 1 .. MaxRead, ReadBlock(n) PROVE RxTyped'
  BY <1>1, <1>2 DEF ReadBlock, RxTyped, lineVars
<1>3. ASSUME TryGet PROVE RxTyped'
  <2>1. /\ Head(rxQueue) \in 1 .. MaxChars /\ Tail(rxQueue) \in Seq(1 .. MaxChars)
        /\ Len(Tail(rxQueue)) = Len(rxQueue) - 1
    BY <1>1, <1>3, HeadTailProperties DEF TryGet
  <2>2. buf' \in Seq(1 .. MaxChars) /\ Len(buf') = Len(buf) + 1 /\ Len(buf) < size
    BY <1>1, <1>3, <2>1 DEF TryGet
  <2>3. Len(buf') <= size /\ Len(rxQueue') <= RxCapacity
    <3>1. Len(buf) \in Nat /\ Len(rxQueue) \in Nat /\ rxQueue' = Tail(rxQueue)
      BY <1>1, <1>3 DEF TryGet
    <3>2. QED BY <1>1, <2>1, <2>2, <3>1
  <2>4. QED BY <1>3, <2>1, <2>2, <2>3 DEF TryGet, RxTyped, lineVars
<1>4. ASSUME ReadReturns PROVE RxTyped'
  <2>1. delivered' \in Seq(1 .. MaxChars)
    BY <1>1, <1>4, ConcatProperties DEF ReadReturns
  <2>2. buf' \in Seq(1 .. MaxChars) /\ Len(buf') <= size' /\ size' \in 0 .. MaxRead
    BY <1>1, <1>4 DEF ReadReturns
  <2>3. QED BY <1>4, <2>1, <2>2 DEF ReadReturns, RxTyped, lineVars
<1>5. ASSUME ReadWaits \/ ReadGoesOn \/ StrayRx PROVE RxTyped'
  BY <1>5 DEF ReadWaits, ReadGoesOn, StrayRx, RxTyped, lineVars
<1>6. QED BY <1>2, <1>3, <1>4, <1>5 DEF Reads

LEMMA RxStep == RxTyped /\ Receiving => RxTyped'
<1>1. RxTyped /\ LineIdle => RxTyped'
  BY DEF LineIdle, RxTyped, readVars
<1>2. RxTyped /\ UsartEntered => RxTyped'
  BY DEF UsartEntered, RxTyped, readVars
<1>3. QED BY <1>1, <1>2, CharArrivesType, InterruptsType, ReadsType DEF Receiving

-----------------------------------------------------------------------------
(* The order of what is received.                                          *)

Chars == 1 .. MaxChars

\* What has left rxBuffer.
Front == delivered \o buf \o rxQueue

Below(S, T) == \A x \in S, y \in T : x < y

Register == IF dr = 0 THEN {} ELSE {dr}

\* ReceivedInOrder, part by part.
Order ==
    /\ Increasing(Front) /\ Increasing(rxBuffer)
    /\ Below(Elements(Front), Elements(rxBuffer))
    /\ Below(Elements(Front) \cup Elements(rxBuffer), Register)
    /\ Elements(Front) \cup Elements(rxBuffer) \cup Register = (1 .. sent) \ lost
    /\ lost \subseteq 1 .. sent
    /\ dr # 0 => Len(rxBuffer) = RxQueueMin
    /\ rxAt = "program" => buf = <<>>

LEMMA Joined ==
    ASSUME NEW s \in Seq(Chars), NEW t \in Seq(Chars)
    PROVE  /\ s \o t \in Seq(Chars)
           /\ Elements(s \o t) = Elements(s) \cup Elements(t)
           /\ Increasing(s) /\ Increasing(t) /\ Below(Elements(s), Elements(t)) =>
                  Increasing(s \o t)
<1>1. /\ s \o t \in Seq(Chars) /\ Len(s \o t) = Len(s) + Len(t)
      /\ \A i \in 1 .. Len(s) + Len(t) :
            (s \o t)[i] = IF i <= Len(s) THEN s[i] ELSE t[i - Len(s)]
  BY ConcatProperties
<1>2. /\ Len(s) \in Nat /\ Len(t) \in Nat
      /\ DOMAIN s = 1 .. Len(s) /\ DOMAIN t = 1 .. Len(t)
      /\ DOMAIN (s \o t) = 1 .. Len(s) + Len(t)
  BY <1>1
<1>3. ASSUME NEW x \in Elements(s \o t) PROVE x \in Elements(s) \cup Elements(t)
  <2>1. PICK i \in 1 .. Len(s) + Len(t) : x = (s \o t)[i]
    BY <1>2 DEF Elements
  <2>2. i <= Len(s) => i \in 1 .. Len(s)
    BY <1>2
  <2>3. ~(i <= Len(s)) => i - Len(s) \in 1 .. Len(t)
    BY <1>2
  <2>4. QED BY <1>1, <1>2, <2>1, <2>2, <2>3 DEF Elements
<1>4. ASSUME NEW x \in Elements(s) PROVE x \in Elements(s \o t)
  <2>1. PICK i \in 1 .. Len(s) : x = s[i]
    BY <1>2 DEF Elements
  <2>2. i \in 1 .. Len(s) + Len(t) /\ x = (s \o t)[i]
    BY <1>1, <1>2, <2>1
  <2>3. QED BY <1>2, <2>2 DEF Elements
<1>5. ASSUME NEW x \in Elements(t) PROVE x \in Elements(s \o t)
  <2>1. PICK i \in 1 .. Len(t) : x = t[i]
    BY <1>2 DEF Elements
  <2>2. i + Len(s) \in 1 .. Len(s) + Len(t) /\ x = (s \o t)[i + Len(s)]
    BY <1>1, <1>2, <2>1
  <2>3. QED BY <1>2, <2>2 DEF Elements
<1>6. ASSUME Increasing(s), Increasing(t), Below(Elements(s), Elements(t)),
             NEW i \in 1 .. Len(s) + Len(t), NEW j \in 1 .. Len(s) + Len(t), i < j
      PROVE  (s \o t)[i] < (s \o t)[j]
  <2>1. CASE j <= Len(s)
    BY <1>1, <1>2, <1>6, <2>1 DEF Increasing
  <2>2. CASE ~(i <= Len(s))
    <3>1. i - Len(s) \in 1 .. Len(t) /\ j - Len(s) \in 1 .. Len(t) /\ i - Len(s) < j - Len(s)
      BY <1>2, <1>6, <2>2
    <3>2. (s \o t)[i] = t[i - Len(s)] /\ (s \o t)[j] = t[j - Len(s)]
      BY <1>1, <1>2, <1>6, <2>2
    <3>3. QED BY <1>2, <1>6, <3>1, <3>2 DEF Increasing
  <2>3. CASE i <= Len(s) /\ ~(j <= Len(s))
    <3>1. i \in 1 .. Len(s) /\ j - Len(s) \in 1 .. Len(t)
      BY <1>2, <1>6, <2>3
    <3>2. (s \o t)[i] \in Elements(s) /\ (s \o t)[j] \in Elements(t)
      BY <1>1, <1>2, <2>3, <3>1 DEF Elements
    <3>3. QED BY <1>6, <3>2 DEF Below
  <2>4. QED BY <1>2, <1>6, <2>1, <2>2, <2>3
<1>7. QED BY <1>1, <1>2, <1>3, <1>4, <1>5, <1>6 DEF Increasing

\* The first n of an increasing sequence, and the others.
LEMMA Cut ==
    ASSUME NEW s \in Seq(Chars), Increasing(s), NEW n \in Nat, n <= Len(s)
    PROVE  LET first == SubSeq(s, 1, n)
               rest  == {s[i] : i \in n + 1 .. Len(s)}
           IN  /\ first \in Seq(Chars) /\ Increasing(first)
               /\ Elements(first) \subseteq Elements(s)
               /\ rest = Elements(s) \ Elements(first)
<1> DEFINE first == SubSeq(s, 1, n)
           rest  == {s[i] : i \in n + 1 .. Len(s)}
<1>1. Len(s) \in Nat /\ DOMAIN s = 1 .. Len(s) /\ \A i \in 1 .. Len(s) : s[i] \in Chars
  OBVIOUS
<1>2. first \in Seq(Chars) /\ Len(first) = n /\ \A i \in 1 .. n : first[i] = s[i]
  <2>1. \A i \in 1 .. n : s[i] \in Chars
    BY <1>1
  <2>2. QED BY <2>1, SubSeqProperties
<1>3. DOMAIN first = 1 .. n
  BY <1>2
<1> HIDE DEF first
<1>4. Increasing(first)
  BY <1>1, <1>2, <1>3 DEF Increasing
<1>5. Elements(first) = {s[i] : i \in 1 .. n}
  BY <1>2, <1>3 DEF Elements
<1>6. \A i \in 1 .. n, j \in n + 1 .. Len(s) : s[i] # s[j]
  <2> SUFFICES ASSUME NEW i \in 1 .. n, NEW j \in n + 1 .. Len(s) PROVE s[i] # s[j]
    OBVIOUS
  <2>1. i \in DOMAIN s /\ j \in DOMAIN s /\ i < j
    BY <1>1
  <2>2. s[i] < s[j] /\ s[i] \in Chars /\ s[j] \in Chars
    BY <1>1, <2>1 DEF Increasing
  <2>3. QED BY <2>2, SerialAssumption DEF Chars
<1>7. Elements(s) = {s[i] : i \in 1 .. n} \cup rest
  BY <1>1 DEF Elements
<1>8. rest = Elements(s) \ Elements(first)
  BY <1>5, <1>6, <1>7
<1>9. Elements(first) \subseteq Elements(s)
  BY <1>5, <1>7
<1>10. QED BY <1>2, <1>4, <1>8, <1>9 DEF first

LEMMA FrontType ==
    ASSUME RxTyped
    PROVE  Front \in Seq(Chars) /\ rxBuffer \in Seq(Chars) /\ Register \subseteq Chars
<1>1. delivered \in Seq(Chars) /\ buf \in Seq(Chars) /\ rxQueue \in Seq(Chars)
  BY DEF RxTyped, Chars
<1>2. delivered \o buf \in Seq(Chars)
  BY <1>1, Joined
<1>3. QED BY <1>1, <1>2, Joined, SerialAssumption DEF Front, RxTyped, Register, Chars

\* A handler moves what there is a place for, and drops the rest.
LEMMA ReadDmaOrder ==
    ASSUME RxTyped, Order, UNCHANGED <<delivered, buf, sent, rxAt>>,
           NEW c, NEW drops, ReadDma(c, drops),
           \/ c = dr /\ drops = {}
           \/ c = 0 /\ drops = Register
    PROVE  Order'
<1> DEFINE n     == Smaller(Len(rxBuffer), PlacesLeft)
           first == SubSeq(rxBuffer, 1, n)
           rest  == {rxBuffer[i] : i \in n + 1 .. Len(rxBuffer)}
<1>1. /\ rxQueue' = rxQueue \o first /\ lost' = lost \cup drops \cup rest
      /\ rxBuffer' = (IF c = 0 THEN <<>> ELSE <<c>>) /\ dr' = 0
  BY DEF ReadDma, Restarted
<1>2. n \in Nat /\ n <= Len(rxBuffer)
  BY SerialAssumption DEF RxTyped, Smaller, PlacesLeft
<1>3. Front \in Seq(Chars) /\ rxBuffer \in Seq(Chars) /\ Register \subseteq Chars
  BY FrontType
<1>4. /\ first \in Seq(Chars) /\ Increasing(first)
      /\ Elements(first) \subseteq Elements(rxBuffer)
      /\ rest = Elements(rxBuffer) \ Elements(first)
  BY <1>2, <1>3, Cut DEF Order
<1> HIDE DEF n, first, rest
<1>5. Front' = Front \o first
  <2>1. delivered \o buf \in Seq(Chars) /\ rxQueue \in Seq(Chars)
    <3>1. delivered \in Seq(Chars) /\ buf \in Seq(Chars)
      BY DEF RxTyped, Chars
    <3>2. QED BY <3>1, Joined DEF RxTyped, Chars
  <2>2. \A s, t, u \in Seq(Chars) : s \o t \o u = s \o (t \o u)
    BY ConcatAssociative
  <2>3. QED BY <1>1, <1>4, <2>1, <2>2 DEF Front
<1>6. /\ Elements(Front') = Elements(Front) \cup Elements(first)
      /\ Increasing(Front')
  <2>1. Below(Elements(Front), Elements(first))
    BY <1>4 DEF Order, Below
  <2>2. QED BY <1>3, <1>4, <1>5, <2>1, Joined DEF Order
<1>7. /\ Elements(rxBuffer') = (IF c = 0 THEN {} ELSE {c})
      /\ Increasing(rxBuffer') /\ Register' = {}
  BY <1>1 DEF Elements, Increasing, Register
<1>8. /\ Below(Elements(Front'), Elements(rxBuffer'))
      /\ Below(Elements(Front') \cup Elements(rxBuffer'), Register')
  <2>1. c # 0 => Register = {c}
    BY DEF Register
  <2>2. Elements(Front') \subseteq Elements(Front) \cup Elements(rxBuffer)
    BY <1>4, <1>6
  <2>3. QED BY <1>7, <2>1, <2>2 DEF Order, Below
<1>9. Elements(Front') \cup Elements(rxBuffer') \cup Register' = (1 .. sent') \ lost'
  <2> DEFINE kept == IF c = 0 THEN {} ELSE {c}
  <2>1. /\ kept \cup drops = Register /\ kept \cap drops = {}
    BY DEF Register
  <2>2. \A x \in Chars : ~(x < x) /\ \A y \in Chars : x < y => x # y
    BY SerialAssumption DEF Chars
  <2>3. Elements(Front) \subseteq Chars /\ Elements(rxBuffer) \subseteq Chars
    BY <1>3 DEF Elements
  <2>4. /\ Elements(Front) \cap Elements(rxBuffer) = {}
        /\ (Elements(Front) \cup Elements(rxBuffer)) \cap Register = {}
    BY <1>3, <2>2, <2>3 DEF Order, Below
  <2> HIDE DEF kept
  <2>5. Elements(rxBuffer') = kept
    BY <1>7 DEF kept
  <2>6. Elements(Front) \cup Elements(rxBuffer) \cup Register = (1 .. sent) \ lost
    BY DEF Order
  <2>7. sent' = sent
    OBVIOUS
  <2>8. QED BY <1>1, <1>4, <1>6, <1>7, <2>1, <2>4, <2>5, <2>6, <2>7
<1>10. lost' \subseteq 1 .. sent'
  <2>1. drops \subseteq Register /\ rest \subseteq Elements(rxBuffer) /\ sent' = sent
    BY <1>4
  <2>2. Elements(rxBuffer) \cup Register \subseteq 1 .. sent
    BY DEF Order
  <2>3. QED BY <1>1, <2>1, <2>2 DEF Order
<1>11. rxAt' = "program" => buf' = <<>>
  BY DEF Order
<1>12. dr' # 0 => Len(rxBuffer') = RxQueueMin
  BY <1>1
<1>13. QED BY <1>6, <1>7, <1>8, <1>9, <1>10, <1>11, <1>12 DEF Order

LEMMA CharArrivesOrder == ASSUME RxTyped, Order, CharArrives PROVE Order'
<1> DEFINE c == sent + 1
<1>1. /\ sent < MaxChars /\ sent' = c
      /\ \/ /\ rxBuffer' = Append(rxBuffer, c) /\ dr = 0 /\ dr' = dr /\ lost' = lost
         \/ /\ rxBuffer' = rxBuffer /\ dr = 0 /\ dr' = c /\ lost' = lost
            /\ Len(rxBuffer) = RxQueueMin
         \/ rxBuffer' = rxBuffer /\ dr # 0 /\ lost' = lost \cup {c} /\ dr' = dr
      /\ UNCHANGED <<delivered, buf, rxQueue, rxAt>>
  BY SerialAssumption DEF CharArrives, readVars, RxTyped, Order
<1>2. Front \in Seq(Chars) /\ rxBuffer \in Seq(Chars) /\ Register \subseteq Chars
  BY FrontType
<1>3. Front' = Front /\ sent \in Nat /\ c \in Chars /\ MaxChars \in Nat
  BY <1>1, SerialAssumption DEF Front, RxTyped, Chars
<1>4. /\ Elements(Front) \cup Elements(rxBuffer) \cup Register \cup lost = 1 .. sent
      /\ (Elements(Front) \cup Elements(rxBuffer) \cup Register) \cap lost = {}
  BY DEF Order
<1>5. Below(Elements(Front) \cup Elements(rxBuffer) \cup Register, {c})
  BY <1>3, <1>4 DEF Below
<1>6. 1 .. c = (1 .. sent) \cup {c} /\ c \notin 1 .. sent
  BY <1>3
<1> HIDE DEF c
<1>7. CASE rxBuffer' = Append(rxBuffer, c) /\ dr' = dr /\ lost' = lost /\ dr = 0
  <2>1. <<c>> \in Seq(Chars) /\ Elements(<<c>>) = {c} /\ Increasing(<<c>>)
    BY <1>3 DEF Elements, Increasing
  <2>2. rxBuffer' = rxBuffer \o <<c>>
    BY <1>2, <1>3, <1>7, AppendIsConcat
  <2>3. Elements(rxBuffer') = Elements(rxBuffer) \cup {c} /\ Increasing(rxBuffer')
    <3>1. Below(Elements(rxBuffer), Elements(<<c>>))
      BY <1>5, <2>1 DEF Below
    <3>2. QED BY <1>2, <2>1, <2>2, <3>1, Joined DEF Order
  <2>4. Register' = {} /\ Register = {}
    BY <1>7 DEF Register
  <2>5. Below(Elements(Front'), Elements(rxBuffer'))
    BY <1>3, <1>5, <2>3 DEF Order, Below
  <2>6. QED
    BY <1>1, <1>3, <1>4, <1>6, <1>7, <2>3, <2>4, <2>5 DEF Order, Below
<1>8. CASE /\ rxBuffer' = rxBuffer /\ dr = 0 /\ dr' = c /\ lost' = lost
           /\ Len(rxBuffer) = RxQueueMin
  <2>1. Register = {} /\ Register' = {c}
    BY <1>3, <1>8 DEF Register, Chars
  <2>2. Below(Elements(Front') \cup Elements(rxBuffer'), Register')
    BY <1>3, <1>5, <1>8, <2>1 DEF Below
  <2>3. QED BY <1>1, <1>3, <1>4, <1>6, <1>8, <2>1, <2>2 DEF Order
<1>9. CASE rxBuffer' = rxBuffer /\ dr # 0 /\ lost' = lost \cup {c} /\ dr' = dr
  <2>1. Register' = Register
    BY <1>9 DEF Register
  <2>2. QED BY <1>1, <1>3, <1>4, <1>6, <1>9, <2>1 DEF Order
<1>10. QED BY <1>1, <1>7, <1>8, <1>9

\* The call of the reader moves characters within Front.
LEMMA ReadsOrder == ASSUME RxTyped, Order, Reads \/ StrayRx PROVE Order'
<1>1. UNCHANGED lineVars
  BY DEF Reads, StrayRx, TryGet, ReadReturns, ReadWaits, ReadGoesOn, ReadBlock
<1>2. /\ delivered \in Seq(Chars) /\ buf \in Seq(Chars) /\ rxQueue \in Seq(Chars)
      /\ delivered \o buf \in Seq(Chars)
  <2>1. delivered \in Seq(Chars) /\ buf \in Seq(Chars) /\ rxQueue \in Seq(Chars)
    BY DEF RxTyped, Chars
  <2>2. QED BY <2>1, Joined
<1>3. CASE TryGet
  <2>1. /\ rxQueue # <<>> /\ buf' = Append(buf, Head(rxQueue)) /\ rxQueue' = Tail(rxQueue)
        /\ delivered' = delivered /\ rxAt' = "read"
    BY <1>3 DEF TryGet
  <2>2. Head(rxQueue) \in Chars /\ Tail(rxQueue) \in Seq(Chars)
    BY <1>2, <2>1, HeadTailProperties
  <2>3. <<Head(rxQueue)>> \in Seq(Chars)
    BY <2>2
  <2>4. buf' = buf \o <<Head(rxQueue)>>
    BY <1>2, <2>1, <2>2, AppendIsConcat
  <2>5. rxQueue = <<Head(rxQueue)>> \o Tail(rxQueue)
    BY <1>2, <2>1, <2>2
  <2>6. delivered \o (buf \o <<Head(rxQueue)>>) = delivered \o buf \o <<Head(rxQueue)>>
    BY <1>2, <2>3, ConcatAssociative
  <2>7. delivered \o buf \o <<Head(rxQueue)>> \o Tail(rxQueue)
            = delivered \o buf \o (<<Head(rxQueue)>> \o Tail(rxQueue))
    BY <1>2, <2>2, <2>3, ConcatAssociative
  <2>8. Front' = Front
    BY <2>1, <2>4, <2>5, <2>6, <2>7 DEF Front
  <2>9. QED BY <1>1, <2>1, <2>8 DEF Order, Register, lineVars
<1>4. CASE ReadReturns
  <2>1. delivered' = delivered \o buf /\ buf' = <<>> /\ rxQueue' = rxQueue
    BY <1>4 DEF ReadReturns
  <2>2. (delivered \o buf) \o <<>> = delivered \o buf
    BY <1>2, ConcatEmptySeq
  <2>3. Front' = Front
    BY <2>1, <2>2 DEF Front
  <2>4. QED BY <1>1, <2>1, <2>3 DEF Order, Register, lineVars
<1>5. CASE ReadWaits \/ ReadGoesOn \/ StrayRx \/ \E n \in 1 .. MaxRead : ReadBlock(n)
  <2>1. /\ UNCHANGED <<delivered, rxQueue>>
        /\ buf' = buf /\ (rxAt' = rxAt \/ rxAt' # "program")
    BY <1>5 DEF ReadWaits, ReadGoesOn, StrayRx, ReadBlock, Order
  <2>2. QED BY <1>1, <2>1 DEF Order, Front, Register, lineVars
<1>6. QED BY <1>3, <1>4, <1>5 DEF Reads

LEMMA OrderStep == RxTyped /\ Order /\ Receiving => Order'
<1> SUFFICES ASSUME RxTyped, Order, Receiving PROVE Order'
  OBVIOUS
<1>1. CASE CharArrives
  BY <1>1, CharArrivesOrder
<1>2. CASE IRQhandleDMArx
  <2>1. ReadDma(dr, {}) /\ UNCHANGED <<delivered, buf, sent, rxAt>>
    BY <1>2 DEF IRQhandleDMArx
  <2>2. QED BY <2>1, ReadDmaOrder
<1>3. CASE IRQhandleInterrupt
  <2>1. ReadDma(0, Register) /\ UNCHANGED <<delivered, buf, sent, rxAt>>
    BY <1>3 DEF IRQhandleInterrupt, Register
  <2>2. QED BY <2>1, ReadDmaOrder
<1>4. CASE LineIdle \/ UsartEntered
  BY <1>4 DEF LineIdle, UsartEntered, readVars, Order, Front, Register
<1>5. CASE Reads \/ StrayRx
  BY <1>5, ReadsOrder
<1>6. QED BY <1>1, <1>2, <1>3, <1>4, <1>5 DEF Receiving

LEMMA OrderKept == Order /\ UNCHANGED rxVars => Order'
BY DEF Order, Front, Register, rxVars, lineVars, readVars

LEMMA OrderIsReceived == RxTyped /\ Order => ReceivedInOrder
<1> SUFFICES ASSUME RxTyped, Order PROVE ReceivedInOrder
  OBVIOUS
<1> DEFINE last == IF dr = 0 THEN <<>> ELSE <<dr>>
<1>1. Front \in Seq(Chars) /\ rxBuffer \in Seq(Chars) /\ Register \subseteq Chars
  BY FrontType
<1>2. last \in Seq(Chars) /\ Elements(last) = Register /\ Increasing(last)
  <2>1. CASE dr = 0
    BY <2>1 DEF Elements, Increasing, Register
  <2>2. CASE dr # 0
    <3>1. dr \in Chars
      BY <1>1, <2>2 DEF Register
    <3>2. QED BY <2>2, <3>1 DEF Elements, Increasing, Register
  <2>3. QED BY <2>1, <2>2
<1>3. /\ Front \o rxBuffer \in Seq(Chars)
      /\ Elements(Front \o rxBuffer) = Elements(Front) \cup Elements(rxBuffer)
      /\ Increasing(Front \o rxBuffer)
  BY <1>1, Joined DEF Order
<1>4. Received = Front \o rxBuffer \o last
  BY DEF Received, Front
<1> HIDE DEF last
<1>5. Below(Elements(Front \o rxBuffer), Elements(last))
  BY <1>2, <1>3 DEF Order
<1>6. /\ Elements(Received) = Elements(Front) \cup Elements(rxBuffer) \cup Register
      /\ Increasing(Received)
  BY <1>2, <1>3, <1>4, <1>5, Joined
<1>7. QED BY <1>6 DEF ReceivedInOrder, Order

-----------------------------------------------------------------------------
(* The theorems.                                                           *)

Inv == RxTyped /\ Order /\ TxInv

LEMMA InvInit == Init => Inv
<1> SUFFICES ASSUME Init PROVE Inv
  OBVIOUS
<1>1. {RxQueueMin, RxCapacity, TxBufferSize, MaxChars, MaxBytes, MaxRead} \subseteq Nat
  BY SerialAssumption
<1>2. RxTyped
  <2>1. {sent, dr} \subseteq 0 .. MaxChars /\ size \in 0 .. MaxRead
    BY <1>1 DEF Init
  <2>2. {rxBuffer, rxQueue, buf, delivered} \subseteq Seq(1 .. MaxChars)
    BY DEF Init
  <2>3. Len(rxBuffer) <= RxQueueMin /\ Len(rxQueue) <= RxCapacity /\ Len(buf) <= size
    BY <1>1 DEF Init
  <2>4. QED BY <2>1, <2>2, <2>3 DEF Init, RxTyped
<1>3. TxTyped
  <2>1. {written, base, remaining} \subseteq 0 .. MaxBytes /\ base + remaining <= written
    BY <1>1 DEF Init
  <2>2. txBuffer \in [1 .. TxBufferSize -> 0 .. MaxBytes]
    BY <1>1 DEF Init, Junk
  <2>3. dmaTx \in [from : {"none", "caller", "txBuffer"}, next : Nat, left : Nat]
    BY DEF Init
  <2>4. QED BY <2>1, <2>2, <2>3 DEF Init, TxTyped
<1>4. InTransfer /\ FlagsAgree /\ Sent
  BY DEF Init, InTransfer, FlagsAgree, Sent
<1>5. Order
  <2>1. Front = <<>> /\ rxBuffer = <<>>
    BY DEF Init, Front
  <2>2. Elements(<<>>) = {} /\ Increasing(<<>>)
    BY DEF Elements, Increasing
  <2>3. QED BY <2>1, <2>2 DEF Init, Order, Below, Register
<1>6. QED BY <1>2, <1>3, <1>4, <1>5 DEF Inv, TxInv

LEMMA InvStep == Inv /\ [Next]_vars => Inv'
<1>1. Receiving => UNCHANGED txVars
  BY DEF Receiving, CharArrives, LineIdle, IRQhandleDMArx, UsartEntered, IRQhandleInterrupt,
         Reads, TryGet, ReadReturns, ReadWaits, ReadGoesOn, ReadBlock, StrayRx
<1>2. Transmitting => UNCHANGED rxVars
  BY DEF Transmitting, WriteBlock, Writes, WriteWaits, WriteDma, WriteReturns, DmaSends,
         IRQhandleDMAtx, StrayTx
<1>3. UNCHANGED vars => UNCHANGED rxVars /\ UNCHANGED txVars
  BY DEF vars
<1>4. QED
  BY <1>1, <1>2, <1>3, RxStep, RxKept, OrderStep, OrderKept, TxStep, TxKept DEF Inv, Next

LEMMA InvHolds == Spec => []Inv
BY InvInit, InvStep, PTL DEF Spec

\* For all sizes of the buffers: the interrupt puts no more into the queue than
\* fits, readBlock takes no more than it was asked for, and a part of a write
\* fits into txBuffer.
THEOREM TypeCorrect == Spec => []TypeOK
<1>1. Inv => TypeOK
  <2> SUFFICES ASSUME Inv PROVE TypeOK
    OBVIOUS
  <2>1. dmaTx.from = "txBuffer" /\ dmaTx.left > 0 =>
            dmaTx.next + dmaTx.left - 1 \in 1 .. TxBufferSize
    BY SerialAssumption DEF Inv, TxInv, TxTyped, InTransfer
  <2>2. QED BY <2>1 DEF Inv, RxTyped, TxInv, TxTyped, TypeOK
<1>2. QED BY InvHolds, <1>1, PTL

\* For all sizes of rxBuffer and of the queue, however the two interrupts, the
\* line and the reader follow one another: what was not dropped is read in the
\* order in which it came, and once.
THEOREM InOrderFromTheLine == Spec => []ReceivedInOrder
<1>1. Inv => ReceivedInOrder
  BY OrderIsReceived DEF Inv
<1>2. QED BY InvHolds, <1>1, PTL

\* For any lengths of writes, of txBuffer and of a transfer, in memory that the
\* DMA can read or cannot: the line gets what was written, in order and once,
\* though the stream reads txBuffer while the next call runs, and a caller's
\* memory only as long as its call does.
THEOREM InOrderOnTheWire == Spec => []TransmittedInOrder
<1>1. Inv => TransmittedInOrder
  BY DEF Inv, TxInv, Sent, TransmittedInOrder
<1>2. QED BY InvHolds, <1>1, PTL
=============================================================================
