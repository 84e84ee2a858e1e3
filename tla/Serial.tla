------------------------------- MODULE Serial -------------------------------
(***************************************************************************)
(* The driver of the serial port that is the console, in DMA mode, as the  *)
(* board's settings have it (serial_stm32.cpp).                            *)
(*                                                                         *)
(* Who acts: the line, which brings characters and pauses; the two DMA     *)
(* streams; the interrupts of the USART and of the streams, which do not   *)
(* nest and of which that of the receiving stream goes first; one thread   *)
(* in readBlock and one in writeBlock, others being kept out by rxMutex    *)
(* and txMutex.                                                            *)
(*                                                                         *)
(* Characters are numbered in the order in which they are sent, in each    *)
(* direction, so that a loss, a repetition or a change of order shows.     *)
(***************************************************************************)
EXTENDS Integers, Sequences, FiniteSets

CONSTANTS
    RxQueueMin,      \* rxQueueMin, the size of rxBuffer
    RxCapacity,      \* the capacity of rxQueue
    TxBufferSize,    \* txBufferSize
    MaxTransfer,     \* what one DMA transfer can do: 65535
    MaxChars,        \* bound on the characters that arrive
    MaxBytes,        \* bound on the characters written
    MaxRead          \* bound on the size of a read

ASSUME SerialAssumption ==
    /\ {RxQueueMin, RxCapacity, TxBufferSize, MaxTransfer} \subseteq Nat \ {0}
    /\ RxQueueMin >= 4
    /\ {MaxChars, MaxBytes, MaxRead} \subseteq Nat

VARIABLES
    \* The receiving side: hardware, driver, and the call of readBlock.
    sent,            \* the number of characters that arrived
    lost,            \* those among them that were dropped
    dr,              \* a character in the data register, 0 for none
    busy,            \* a character came since the last pause
    idleFlag,        \* the flag IDLE in SR
    dmaRxPending,    \* the interrupt of the receiving stream
    usart,           \* the handler of the USART: not running; SR read; and a
                     \* character came since then
    rxBuffer,        \* what the stream put into rxBuffer since it was started
    rxQueue, idle, rxWaiting,
    rxFlag,          \* the reader's flag WAIT
    rxAt,            \* where the reader is
    size, buf,       \* the call's size, and what it has so far
    delivered,       \* what earlier calls returned
    \* The transmitting side.
    written,         \* the number of characters given to writeBlock so far
    base, remaining, \* the call's buffer begins with character base + 1
    ccm,             \* the call's buffer is in memory the DMA cannot read
    txBuffer, dmaTxInProgress, txWaiting,
    dmaTx,           \* the transfer: where from, from which place on, how much
    dmaTxPending,    \* the interrupt of the transmitting stream
    txFlag, txAt,    \* the writer's flag WAIT, and where it is
    wire             \* what was transmitted

lineVars == <<sent, lost, dr, busy, idleFlag, dmaRxPending, usart, rxBuffer>>
readVars == <<rxQueue, idle, rxWaiting, rxFlag, rxAt, size, buf, delivered>>
callVars == <<written, base, remaining, ccm, txAt>>
dmaVars  == <<dmaTx, dmaTxPending, wire>>
txVars   == <<callVars, dmaVars, txBuffer, dmaTxInProgress, txWaiting, txFlag>>
rxVars   == <<lineVars, readVars>>
vars == <<rxVars, txVars>>

Smaller(a, b) == IF a <= b THEN a ELSE b
Junk == 0            \* a character that no call is about

\* The end of the constructor.
Init ==
    /\ sent = 0 /\ lost = {} /\ dr = 0 /\ busy = FALSE /\ idleFlag = FALSE
    /\ dmaRxPending = FALSE /\ usart = "off" /\ rxBuffer = <<>>
    /\ rxQueue = <<>> /\ idle = TRUE /\ rxWaiting = FALSE
    /\ rxFlag = FALSE /\ rxAt = "program" /\ size = 0 /\ buf = <<>> /\ delivered = <<>>
    /\ written = 0 /\ base = 0 /\ remaining = 0 /\ ccm = FALSE
    /\ txBuffer = [i \in 1 .. TxBufferSize |-> Junk]
    /\ dmaTxInProgress = FALSE /\ txWaiting = FALSE
    /\ dmaTx = [from |-> "none", next |-> 0, left |-> 0]
    /\ dmaTxPending = FALSE /\ txFlag = FALSE /\ txAt = "program" /\ wire = <<>>

-----------------------------------------------------------------------------
(* The line and the receiving stream.  A stream stops when its buffer is   *)
(* full; the next character then stays in the data register, and those     *)
(* after it are lost.  The interrupt comes when the buffer is half full.   *)
(* The handler is shorter than a character, so at most one comes while it  *)
(* runs, and no pause ends.                                                *)

CharArrives ==
    LET c == sent + 1
    IN  /\ sent < MaxChars /\ usart # "late"
        /\ sent' = c /\ busy' = TRUE
        /\ usart' = IF usart = "entered" THEN "late" ELSE usart
        /\ IF Len(rxBuffer) < RxQueueMin
           THEN /\ rxBuffer' = Append(rxBuffer, c)
                /\ dmaRxPending' = (dmaRxPending \/ Len(rxBuffer') = RxQueueMin \div 2)
                /\ UNCHANGED <<dr, lost>>
           ELSE /\ IF dr = 0 THEN dr' = c /\ UNCHANGED lost
                             ELSE lost' = lost \cup {c} /\ UNCHANGED dr
                /\ UNCHANGED <<rxBuffer, dmaRxPending>>
        /\ UNCHANGED <<idleFlag, readVars, txVars>>

LineIdle ==
    /\ busy /\ usart = "off"
    /\ busy' = FALSE /\ idleFlag' = TRUE
    /\ UNCHANGED <<sent, lost, dr, dmaRxPending, usart, rxBuffer, readVars, txVars>>

-----------------------------------------------------------------------------
(* The interrupts of the receiving side.                                   *)

\* Wrong: the stream goes on where it was.
RestartedInPlace(c) == rxBuffer

\* What is in rxBuffer once the stream is started with a character c, or
\* none, in the data register.
Restarted(c) == IF c = 0 THEN <<>> ELSE <<c>>

\* Wrong: isFull is true one element too late.
OnePlaceMore == RxCapacity + 1 - Len(rxQueue)

\* How often tryPut may still be called with success.
PlacesLeft == RxCapacity - Len(rxQueue)

\* IRQreadDma with c in the data register: what the queue has no place for is
\* dropped.  drops are characters that were dropped before.
ReadDma(c, drops) ==
    LET n == Smaller(Len(rxBuffer), PlacesLeft)
    IN  /\ rxQueue' = rxQueue \o SubSeq(rxBuffer, 1, n)
        /\ lost' = lost \cup drops \cup {rxBuffer[i] : i \in n + 1 .. Len(rxBuffer)}
        /\ rxBuffer' = Restarted(c)
        /\ dr' = 0

WakeReader ==
    /\ rxWaiting' = FALSE
    /\ rxFlag' = (rxFlag /\ ~rxWaiting)

IRQhandleDMArx ==
    /\ dmaRxPending /\ usart = "off"
    /\ dmaRxPending' = FALSE
    /\ ReadDma(dr, {})
    /\ idle' = FALSE
    /\ WakeReader
    /\ UNCHANGED <<sent, busy, idleFlag, usart, rxAt, size, buf, delivered, txVars>>

\* Wrong: both interrupts have the same priority.
NoOrder == TRUE

\* The priorities that the constructor sets.
DmaFirst == ~dmaRxPending

\* IRQhandleInterrupt, in two parts between which a character may come: SR is
\* read, then the rest.
UsartEntered ==
    /\ idleFlag /\ usart = "off" /\ DmaFirst
    /\ usart' = "entered"
    /\ UNCHANGED <<sent, lost, dr, busy, idleFlag, dmaRxPending, rxBuffer, readVars, txVars>>

IRQhandleInterrupt ==
    /\ usart # "off"
    /\ usart' = "off"
    /\ idleFlag' = FALSE
    /\ ReadDma(0, IF dr = 0 THEN {} ELSE {dr})
    /\ idle' = TRUE
    /\ WakeReader
    /\ UNCHANGED <<sent, busy, dmaRxPending, rxAt, size, buf, delivered, txVars>>

-----------------------------------------------------------------------------
(* readBlock.                                                              *)

ReadBlock(n) ==
    /\ rxAt = "program"
    /\ rxAt' = "read" /\ size' = n /\ buf' = <<>>
    /\ UNCHANGED <<lineVars, rxQueue, idle, rxWaiting, rxFlag, delivered, txVars>>

\* One turn of the inner loop; interrupts are enabled after each.
TryGet ==
    /\ rxAt = "read" /\ Len(buf) < size /\ rxQueue # <<>>
    /\ buf' = Append(buf, Head(rxQueue))
    /\ rxQueue' = Tail(rxQueue)
    /\ UNCHANGED <<lineVars, idle, rxWaiting, rxFlag, rxAt, size, delivered, txVars>>

Satisfied == (idle /\ buf # <<>>) \/ Len(buf) = size

ReadReturns ==
    /\ rxAt = "read" /\ (Len(buf) = size \/ rxQueue = <<>>)
    /\ Satisfied
    /\ delivered' = delivered \o buf
    /\ rxAt' = "program" /\ size' = 0 /\ buf' = <<>>
    /\ UNCHANGED <<lineVars, rxQueue, idle, rxWaiting, rxFlag, txVars>>

\* Also again, when it was woken by somebody else.
ReadWaits ==
    /\ \/ rxAt = "read" /\ Len(buf) < size /\ rxQueue = <<>> /\ ~Satisfied
       \/ rxAt = "wait" /\ ~rxFlag /\ rxWaiting
    /\ rxWaiting' = TRUE /\ rxFlag' = TRUE
    /\ rxAt' = "wait"
    /\ UNCHANGED <<lineVars, rxQueue, idle, size, buf, delivered, txVars>>

ReadGoesOn ==
    /\ rxAt = "wait" /\ ~rxFlag /\ ~rxWaiting
    /\ rxAt' = "read"
    /\ UNCHANGED <<lineVars, rxQueue, idle, rxWaiting, rxFlag, size, buf, delivered, txVars>>

-----------------------------------------------------------------------------
(* writeBlock, and the transmitting stream.                                *)

WriteBlock(n, inCCM) ==
    /\ txAt = "program" /\ written + n <= MaxBytes
    /\ base' = written /\ written' = written + n
    /\ remaining' = n /\ ccm' = inCCM
    /\ txAt' = "write"
    /\ UNCHANGED <<dmaVars, txBuffer, dmaTxInProgress, txWaiting, txFlag, rxVars>>

\* Wrong: the stream is given the next part whether or not it is ready.
NeverBusy == FALSE

TxBusy == dmaTxInProgress

\* waitDmaTxCompletion, up to the yield.
WriteWaits ==
    /\ \/ txAt = "write" /\ remaining > 0 /\ TxBusy
       \/ txAt = "wait" /\ ~txFlag /\ txWaiting
    /\ txFlag' = TRUE
    /\ txWaiting' = TRUE
    /\ txAt' = "wait"
    /\ UNCHANGED <<written, base, remaining, ccm, dmaVars, txBuffer, dmaTxInProgress, rxVars>>

\* The part that is sent next, and whether it is sent from where it is.
ZeroCopy == ~ccm /\ remaining > TxBufferSize
Part == IF ZeroCopy THEN Smaller(remaining - TxBufferSize, MaxTransfer)
                    ELSE Smaller(remaining, TxBufferSize)

\* waitDmaTxCompletion returns; memcpy; writeDma.
WriteDma ==
    LET done == written - base - remaining
    IN  /\ \/ txAt = "write" /\ remaining > 0 /\ ~TxBusy
           \/ txAt = "wait" /\ ~txFlag /\ ~txWaiting
        /\ dmaTxInProgress' = TRUE
        /\ IF ZeroCopy
           THEN /\ dmaTx' = [from |-> "caller", next |-> done + 1, left |-> Part]
                /\ UNCHANGED txBuffer
           ELSE /\ dmaTx' = [from |-> "txBuffer", next |-> 1, left |-> Part]
                /\ txBuffer' = [i \in 1 .. TxBufferSize |->
                                  IF i <= Part THEN base + done + i ELSE txBuffer[i]]
        /\ remaining' = remaining - Part
        /\ txAt' = "write"
        /\ UNCHANGED <<written, base, ccm, dmaTxPending, wire, txWaiting, txFlag, rxVars>>

\* The caller may use its buffer for something else from now on.
WriteReturns ==
    /\ txAt = "write" /\ remaining = 0
    /\ txAt' = "program"
    /\ UNCHANGED <<written, base, remaining, ccm, dmaVars, txBuffer, dmaTxInProgress,
                   txWaiting, txFlag, rxVars>>

DmaSends ==
    LET k == dmaTx.next
        c == IF dmaTx.from = "txBuffer" THEN txBuffer[k]
             ELSE IF txAt = "program" THEN Junk ELSE base + k
    IN  /\ dmaTx.left > 0
        /\ wire' = Append(wire, c)
        /\ dmaTx' = [dmaTx EXCEPT !.next = k + 1, !.left = @ - 1]
        /\ dmaTxPending' = (dmaTxPending \/ dmaTx.left = 1)
        /\ UNCHANGED <<callVars, txBuffer, dmaTxInProgress, txWaiting, txFlag, rxVars>>

\* Wrong: the flag is cleared, and nobody woken.
WakeNobody == UNCHANGED <<txWaiting, txFlag>>

WakeWriter ==
    /\ txWaiting' = FALSE
    /\ txFlag' = (txFlag /\ ~txWaiting)

IRQhandleDMAtx ==
    /\ dmaTxPending /\ usart = "off"
    /\ dmaTxPending' = FALSE
    /\ dmaTxInProgress' = FALSE
    /\ WakeWriter
    /\ UNCHANGED <<callVars, dmaTx, wire, txBuffer, rxVars>>

\* Any thread may wake any other.
StrayRx ==
    /\ rxFlag /\ rxFlag' = FALSE
    /\ UNCHANGED <<lineVars, rxQueue, idle, rxWaiting, rxAt, size, buf, delivered, txVars>>

StrayTx ==
    /\ txFlag /\ txFlag' = FALSE
    /\ UNCHANGED <<callVars, dmaVars, txBuffer, dmaTxInProgress, txWaiting, rxVars>>

-----------------------------------------------------------------------------
(* Threads do not run while a handler does.                                *)

Reads ==
    /\ usart = "off"
    /\ \/ TryGet \/ ReadReturns \/ ReadWaits \/ ReadGoesOn
       \/ \E n \in 1 .. MaxRead : ReadBlock(n)

Writes == usart = "off" /\ (WriteWaits \/ WriteDma \/ WriteReturns)

Receiving ==
    \/ CharArrives \/ LineIdle \/ IRQhandleDMArx \/ UsartEntered \/ IRQhandleInterrupt
    \/ Reads \/ (usart = "off" /\ StrayRx)

Transmitting ==
    \/ \E n \in 0 .. MaxBytes, inCCM \in BOOLEAN : usart = "off" /\ WriteBlock(n, inCCM)
    \/ Writes \/ DmaSends \/ IRQhandleDMAtx \/ (usart = "off" /\ StrayTx)

Next == Receiving \/ Transmitting

Spec == Init /\ [][Next]_vars

\* The two directions share nothing but the processor: each is checked while
\* the other rests.
Mute == written = 0 /\ txAt = "program"
Deaf == sent = 0

\* Interrupts are served, the hardware goes on, a pause is noticed, and calls
\* go on once they began; the program reads whatever comes.  The line has a
\* last pause, since MaxChars bounds it.
ApartSpec ==
    /\ Init /\ [][(Receiving /\ Mute) \/ (Transmitting /\ Deaf)]_vars
    /\ WF_vars(LineIdle /\ Mute) /\ WF_vars(IRQhandleDMArx /\ Mute)
    /\ WF_vars(UsartEntered /\ Mute) /\ WF_vars(IRQhandleInterrupt /\ Mute)
    /\ WF_vars(Reads /\ Mute)
    /\ WF_vars(DmaSends /\ Deaf) /\ WF_vars(IRQhandleDMAtx /\ Deaf)
    /\ WF_vars(Writes /\ Deaf)

-----------------------------------------------------------------------------
(* Properties.                                                             *)

TypeOK ==
    /\ sent \in 0 .. MaxChars /\ lost \subseteq 1 .. MaxChars /\ dr \in 0 .. MaxChars
    /\ {busy, idleFlag, dmaRxPending} \subseteq BOOLEAN
    /\ usart \in {"off", "entered", "late"}
    /\ {rxBuffer, rxQueue, buf, delivered} \subseteq Seq(1 .. MaxChars)
    /\ Len(rxBuffer) <= RxQueueMin /\ Len(rxQueue) <= RxCapacity /\ Len(buf) <= size
    /\ {idle, rxWaiting, rxFlag} \subseteq BOOLEAN
    /\ rxAt \in {"program", "read", "wait"} /\ size \in 0 .. MaxRead
    /\ {written, base, remaining} \subseteq 0 .. MaxBytes
    /\ txBuffer \in [1 .. TxBufferSize -> 0 .. MaxBytes]
    /\ {ccm, dmaTxInProgress, txWaiting, dmaTxPending, txFlag} \subseteq BOOLEAN
    /\ dmaTx \in [from : {"none", "caller", "txBuffer"}, next : Nat, left : Nat]
    /\ dmaTx.from = "txBuffer" /\ dmaTx.left > 0 =>
          dmaTx.next + dmaTx.left - 1 \in 1 .. TxBufferSize
    /\ txAt \in {"program", "write", "wait"}

Elements(s)   == {s[i] : i \in DOMAIN s}
Increasing(s) == \A i, j \in DOMAIN s : i < j => s[i] < s[j]

\* What was read, what is in the call, in the queue, in the DMA's buffer and in
\* the register.
Received == delivered \o buf \o rxQueue \o rxBuffer \o (IF dr = 0 THEN <<>> ELSE <<dr>>)

\* What arrived and was not dropped is there, in order and once each: the two
\* interrupts and the reader hand each character on exactly once.
ReceivedInOrder ==
    /\ Increasing(Received)
    /\ Elements(Received) = (1 .. sent) \ lost

\* What goes out is what was written, in order and once each, although the
\* stream reads it later from txBuffer, which the next call fills, or from
\* the caller's memory, which is the caller's again after the call.
TransmittedInOrder == \A i \in DOMAIN wire : wire[i] = i

\* readBlock returns every character in the end, also the last ones before a
\* pause, fewer than the reader asked for and than make an interrupt.
EveryCharIsRead ==
    \A c \in 1 .. MaxChars :
        sent >= c ~> c \in lost \/ \E i \in DOMAIN delivered : delivered[i] = c

\* Everything given to writeBlock goes out, and the call returns.
EverythingIsSent ==
    /\ \A c \in 1 .. MaxBytes : written >= c ~> Len(wire) >= c
    /\ []<>(txAt = "program")
=============================================================================
