-------------------------------- MODULE Usart --------------------------------
(***************************************************************************)
(* The transactional layer of the USART driver                             *)
(* (devices/MIMXRT685S/drivers/fsl_usart.c): a task calls the non-blocking *)
(* send, receive and abort functions, USART_TransferHandleIRQ preempts it  *)
(* wherever an enabled interrupt is asserted, and the line moves bytes at  *)
(* its own pace.  The user's callback may start the next transfer from the *)
(* handler, as the serial manager does.                                    *)
(*                                                                         *)
(* Each function of the task is cut where it makes a difference that the   *)
(* handler comes in between: after the reading of the enabled interrupts,  *)
(* their disabling, the stores to the handle, and inside the aborts.       *)
(***************************************************************************)
EXTENDS Integers, Sequences

CONSTANTS
    RxFifo, TxFifo,  \* depths of the hardware queues
    RingSize,        \* rxRingBufferSize; one byte stays unused
    SendSizes, ReceiveSizes,  \* dataSize of the requests
    Watermarks,      \* rxWatermark: an interrupt when more bytes than that wait
    SeqMod,          \* received bytes are numbered modulo SeqMod
    Careful          \* the users keep the rules written at Rules

ASSUME UsartAssumption ==
    /\ RxFifo \in Nat \ {0} /\ TxFifo \in Nat \ {0}
    /\ RingSize \in Nat /\ RingSize > 1
    /\ SendSizes \subseteq Nat \ {0} /\ ReceiveSizes \subseteq Nat \ {0}
    /\ Watermarks \subseteq 0 .. RxFifo - 1
    /\ SeqMod \in Nat \ {0}
    /\ Careful \in BOOLEAN

Byte == 0 .. SeqMod - 1
Interrupts == {"RXLVL", "RXERR", "TXLVL", "TXIDLE"}

VARIABLES
    ring,              \* rxRingBuffer # NULL: USART_TransferStartRingBuffer was called
    ints,              \* enabled interrupts (INTENSET, FIFOINTENSET)
    rxFifo, rxErr,     \* hardware receive queue; its overflow was noticed
    rxLevel,           \* FIFOTRIG.RXLVL
    rxWatermark,       \* handle->rxWatermark
    ringBuf, head, tail,  \* rxRingBuffer, rxRingBufferHead, rxRingBufferTail
    rxState, rxSize,   \* handle->rxState, rxDataSize
    rxNext, rxLast,    \* byte that arrives next, byte stored for the user last
    txFifo, shifting,  \* hardware send queue; the transmitter has a byte
    txState, txSize, txAll,  \* handle->txState, txDataSize, txDataSizeAll
    onWire,            \* bytes of the present request that reached the line
    cut,               \* bytes of an aborted request may still go out
    isr, recvEn, sendEn,  \* USART_TransferHandleIRQ and its two locals
    arrived,           \* a byte arrived while the handler was running
    stale,             \* history: it has turned off what the task's mask names
    pc, arg, mask      \* the task: step, dataSize, interruptMask

hw    == <<rxFifo, rxErr, rxNext, txFifo, shifting, onWire, arrived>>
rx    == <<ringBuf, head, tail, rxState, rxSize, rxLast>>
tx    == <<txState, txSize, txAll, cut>>
irq   == <<isr, recvEn, sendEn, stale>>
task  == <<pc, arg, mask>>
fixed == <<ring, rxWatermark>>
vars == <<fixed, ints, rxLevel, hw, rx, tx, irq, task>>

\* USART_TransferCreateHandle, then USART_TransferStartRingBuffer or not.
Init ==
    /\ ring \in BOOLEAN
    /\ rxWatermark \in IF ring THEN {0} ELSE Watermarks
    /\ ints = IF ring THEN {"RXLVL", "RXERR"} ELSE {}
    /\ rxLevel = rxWatermark
    /\ rxFifo = << >> /\ rxErr = FALSE /\ rxNext = 0 /\ arrived = FALSE
    /\ txFifo = << >> /\ shifting = FALSE /\ onWire = 0
    /\ ringBuf = [i \in 0 .. RingSize - 1 |-> 0] /\ head = 0 /\ tail = 0
    /\ rxState = "idle" /\ rxSize = 0 /\ rxLast = 0
    /\ txState = "idle" /\ txSize = 0 /\ txAll = 0 /\ cut = FALSE
    /\ isr = FALSE /\ recvEn = FALSE /\ sendEn = FALSE
    /\ pc = "idle" /\ arg = 0 /\ mask = {} /\ stale = FALSE

-----------------------------------------------------------------------------
\* The line and the two hardware queues (external).

\* A byte arrives; a full queue drops it and notes the error.  A handler run is
\* shorter than the time between two bytes: at most one arrives during it.
Arrive ==
    /\ isr => ~arrived
    /\ arrived' = isr
    /\ rxNext' = (rxNext + 1) % SeqMod
    /\ IF Len(rxFifo) < RxFifo
       THEN rxFifo' = Append(rxFifo, rxNext) /\ UNCHANGED rxErr
       ELSE rxErr' = TRUE /\ UNCHANGED rxFifo
    /\ UNCHANGED <<txFifo, shifting, onWire, fixed, ints, rxLevel, rx, tx, irq, task>>

\* The transmitter takes the next byte.
Shift ==
    /\ ~shifting /\ txFifo # << >>
    /\ shifting' = TRUE
    /\ onWire' = Head(txFifo)
    /\ txFifo' = Tail(txFifo)
    /\ UNCHANGED <<rxFifo, rxErr, rxNext, arrived, fixed, ints, rxLevel, rx, tx, irq, task>>

ByteOut ==
    /\ shifting /\ shifting' = FALSE
    /\ UNCHANGED <<rxFifo, rxErr, rxNext, txFifo, onWire, arrived, fixed, ints,
                   rxLevel, rx, tx, irq, task>>

\* STAT.TXIDLE.  The queue feeds the transmitter without a gap.
TxIdle == txFifo = << >> /\ ~shifting

\* An enabled interrupt is asserted.  The send level is 0: the queue is empty.
Pending ==
    \/ "RXLVL" \in ints /\ Len(rxFifo) > rxLevel
    \/ "RXERR" \in ints /\ rxErr
    \/ "TXLVL" \in ints /\ txFifo = << >>
    \/ "TXIDLE" \in ints /\ TxIdle

-----------------------------------------------------------------------------
\* The receive ring.

RingLength == IF tail > head THEN head + RingSize - tail ELSE head - tail
\* Mutant: the last place is used too, and a full ring looks empty.
RingNeverFull == FALSE
RingFull == RingLength = RingSize - 1
NextIndex(i) == IF i + 1 = RingSize THEN 0 ELSE i + 1

\* The bytes in it, oldest first.
Stored == [i \in 1 .. RingLength |-> ringBuf[(tail + i - 1) % RingSize]]

\* USART_TransferReceiveNonBlocking with the interrupts off: what the ring has
\* is copied, the rest becomes the request.  Then n bytes have a place to go.
TakeFromRing(n) ==
    LET k == IF n < RingLength THEN n ELSE RingLength
    IN  /\ tail' = (tail + k) % RingSize
        /\ rxLast' = IF k = 0 THEN rxLast ELSE Stored[k]
        /\ rxSize' = n - k
        /\ rxState' = IF n = k THEN rxState ELSE "busy"

-----------------------------------------------------------------------------
(***************************************************************************)
(* Rules of the users, as the driver needs them.  The state machine takes  *)
(* any call when Careful is FALSE.                                         *)
(*   - no call from a callback on a handle that a task is in a call on;    *)
(*   - with a ring, no send is aborted: a receive interrupt amid the abort *)
(*     fills the queue again, and the bytes go out;                        *)
(*   - without a ring, a task asks for more bytes than the watermark;      *)
(*   - from the overrun callback, no more bytes than the ring has.         *)
(* A send during a receive and a receive during a send are no breach:      *)
(* fsl_usart_freertos.c and the interrupt transfer example do both.        *)
(***************************************************************************)
CallbackMayCall == Careful => pc = "idle"
TaskMayReceive(n) == Careful => (ring \/ n > rxWatermark)
TaskMayAbortSend == Careful => ~ring
OverrunMayReceive(n) == Careful => (pc = "idle" /\ n < RingSize)

-----------------------------------------------------------------------------
\* USART_TransferHandleIRQ.

Line == <<rxNext, shifting, onWire, arrived>>

\* The handler turns interrupts off.  A call that has read them and not yet
\* enabled them again will bring them back.
TurnOff(off) == stale' = (stale \/ off \intersect mask # {})

\* Entry: the locals, and the receive error with its empty queue.
IrqEnter ==
    /\ ~isr /\ Pending
    /\ isr' = TRUE
    /\ recvEn' = (rxSize # 0 \/ ring)
    /\ sendEn' = (txSize # 0)
    /\ arrived' = FALSE
    /\ rxErr' = FALSE
    /\ rxFifo' = IF rxErr THEN << >> ELSE rxFifo
    /\ UNCHANGED <<rxNext, txFifo, shifting, onWire, fixed, ints, rxLevel, rx, tx, task, stale>>

CanTake == recvEn /\ rxFifo # << >>
CanFill == sendEn /\ Len(txFifo) < TxFifo

\* A byte for the request; after its last one the callback may start the next.
ByteToUser ==
    /\ rxSize # 0
    /\ rxLast' = Head(rxFifo)
    /\ recvEn' = (rxSize # 1 \/ ring)
    /\ \/ rxSize > 1 /\ rxSize' = rxSize - 1 /\ UNCHANGED rxState
       \/ rxSize = 1 /\ rxSize' = 0 /\ rxState' = "idle"
       \/ rxSize = 1 /\ CallbackMayCall /\ rxSize' \in ReceiveSizes /\ rxState' = "busy"
    /\ UNCHANGED <<ringBuf, head, tail>>

\* A byte for the ring.  A full ring calls back, and drops its oldest byte if
\* the callback has not made room.
ByteToRing ==
    /\ rxSize = 0
    /\ \/ RingFull /\ tail' = NextIndex(tail) /\ UNCHANGED <<rxLast, rxSize, rxState>>
       \/ RingFull /\ \E n \in ReceiveSizes : OverrunMayReceive(n) /\ TakeFromRing(n)
       \/ ~RingFull /\ UNCHANGED <<tail, rxLast, rxSize, rxState>>
    /\ ringBuf' = [ringBuf EXCEPT ![head] = Head(rxFifo)]
    /\ head' = NextIndex(head)
    /\ UNCHANGED recvEn

\* Interrupts turned off with the last byte of a request.
\* Mutant: none.
KeepListening == {}
StopListening == IF ring THEN {} ELSE {"RXLVL", "RXERR"}

\* One turn of the loop: a byte in, a byte out.
IrqIterate ==
    /\ isr /\ (CanTake \/ CanFill)
    /\ IF CanTake
       THEN (ByteToUser \/ ByteToRing) /\ rxFifo' = Tail(rxFifo)
       ELSE UNCHANGED <<rx, rxFifo, recvEn>>
    /\ IF CanFill
       THEN /\ txFifo' = Append(txFifo, txAll - txSize + 1)
            /\ txSize' = txSize - 1
            /\ sendEn' = (txSize # 1)
       ELSE UNCHANGED <<txFifo, txSize, sendEn>>
    /\ LET lastIn  == CanTake /\ rxSize = 1
           lastOut == CanFill /\ txSize = 1
           off == (IF lastIn THEN StopListening ELSE {})
                      \union (IF lastOut THEN {"TXLVL"} ELSE {})
           on  == (IF lastIn /\ rxSize' > 0 THEN {"RXLVL"} ELSE {})
                      \union (IF lastOut THEN {"TXIDLE"} ELSE {})
       IN  ints' = (ints \ off) \union on /\ TurnOff(off)
    /\ UNCHANGED <<rxErr, Line, isr, rxLevel, fixed, txState, txAll, cut, task>>

\* The transmitter is idle and its interrupt enabled: the send is reported.
\* Mutant: the status is not looked at.
TxReportAny == "TXIDLE" \in ints
TxReport == "TXIDLE" \in ints /\ TxIdle

\* The receive trigger follows the rest of the request.
\* Mutant: it is only restored.
LevelRestored == IF rxSize = 0 THEN rxWatermark ELSE rxLevel
LevelFor ==
    IF ring THEN rxLevel
    ELSE IF rxSize = 0 THEN rxWatermark
    ELSE IF rxSize < rxLevel + 1 THEN rxSize - 1 ELSE rxLevel

\* The handle gets a request of n bytes to send.
StartSend(n) ==
    /\ txSize' = n /\ txAll' = n /\ txState' = "busy"
    /\ onWire' = 0
    /\ cut' = (cut /\ txFifo # << >>)

\* After the loop: the report, whose callback may send again, and the level.
IrqLeave ==
    /\ isr /\ ~CanTake /\ ~CanFill
    /\ isr' = FALSE /\ recvEn' = FALSE /\ sendEn' = FALSE
    /\ arrived' = FALSE
    /\ rxLevel' = LevelFor
    /\ \/ /\ TxReport
          /\ ints' = ints \ {"TXIDLE"}
          /\ txState' = "idle"
          /\ UNCHANGED <<onWire, txSize, txAll, cut>>
       \/ /\ TxReport /\ CallbackMayCall
          /\ ints' = (ints \ {"TXIDLE"}) \union {"TXLVL"}
          /\ \E n \in SendSizes : StartSend(n)
       \/ ~TxReport /\ UNCHANGED <<ints, tx, onWire>>
    /\ TurnOff(IF TxReport THEN {"TXIDLE"} ELSE {})
    /\ UNCHANGED <<rxFifo, rxErr, rxNext, txFifo, shifting, rx, fixed, task>>

-----------------------------------------------------------------------------
\* The task.  An asserted interrupt is taken before its next step.

TaskRuns == ~isr /\ ~Pending

\* A non-blocking call passes its checks and reads the enabled interrupts.
Call(op, n) ==
    /\ TaskRuns /\ pc = "idle"
    /\ pc' = op /\ arg' = n /\ mask' = ints
    /\ UNCHANGED <<hw, rx, tx, irq, fixed, ints, rxLevel>>

\* Mutant: a send that is not finished does not matter.
SendAlways == TRUE
SendAllowed == txState # "busy"

Send == \E n \in SendSizes : SendAllowed /\ Call("sendDisable", n)
Receive == \E n \in ReceiveSizes :
    rxState # "busy" /\ TaskMayReceive(n) /\ Call("recvDisable", n)

\* One step inside a call, from and to a place.
At(from, to) == TaskRuns /\ pc = from /\ pc' = to

DisableInterrupts ==
    /\ At("sendDisable", "sendStore") \/ At("recvDisable", "recvStore")
    /\ ints' = ints \ mask
    /\ UNCHANGED <<arg, mask, hw, rx, tx, irq, fixed, rxLevel>>

SendStore ==
    /\ At("sendStore", "sendEnable")
    /\ StartSend(arg) /\ arg' = 0
    /\ UNCHANGED <<mask, rxFifo, rxErr, rxNext, txFifo, shifting, arrived, rx,
                   irq, fixed, ints, rxLevel>>

\* Without a ring the receive level interrupt is enabled at once.  (The stores are
\* one step: only TXIDLE, enabled by the handler since the mask was read, can let
\* an interrupt come between them, and then stale holds.)
ReceiveStore ==
    /\ At("recvStore", "recvEnable")
    /\ IF ring
       THEN TakeFromRing(arg) /\ UNCHANGED ints
       ELSE /\ rxSize' = arg /\ rxState' = "busy"
            /\ ints' = ints \union {"RXLVL"}
            /\ UNCHANGED <<tail, rxLast>>
    /\ arg' = 0
    /\ UNCHANGED <<mask, ringBuf, head, hw, tx, irq, fixed, rxLevel>>

\* Those that were enabled, and the transmitter's for a send.
\* Mutant: a send enables nothing new.
EnableOld == ints \union mask
EnableTransmitter == ints \union mask \union {"TXLVL"}

EnableInterrupts ==
    /\ \/ At("sendEnable", "idle") /\ ints' = EnableTransmitter
       \/ At("recvEnable", "idle") /\ ints' = ints \union mask
    /\ mask' = {}
    /\ UNCHANGED <<arg, hw, rx, tx, irq, fixed, rxLevel>>

\* The aborts.  A receive interrupt before EndSend fills the queue again.
AbortSend ==
    /\ TaskMayAbortSend /\ At("idle", "endSend")
    /\ ints' = ints \ {"TXLVL"}
    /\ txFifo' = << >>
    /\ cut' = TRUE
    /\ UNCHANGED <<arg, mask, rxFifo, rxErr, rxNext, shifting, onWire, arrived, rx,
                   txState, txSize, txAll, irq, fixed, rxLevel>>

EndSend ==
    /\ At("endSend", "idle")
    /\ txSize' = 0 /\ txState' = "idle"
    /\ UNCHANGED <<arg, mask, hw, rx, txAll, cut, irq, fixed, ints, rxLevel>>

AbortReceive ==
    /\ At("idle", IF ring THEN "endRecv" ELSE "emptyRecv")
    /\ UNCHANGED <<arg, mask, hw, rx, tx, irq, fixed, ints, rxLevel>>

EmptyReceive ==
    /\ At("emptyRecv", "endRecv")
    /\ ints' = ints \ {"RXLVL"}
    /\ rxFifo' = << >>
    /\ UNCHANGED <<arg, mask, rxErr, rxNext, txFifo, shifting, onWire, arrived, rx, tx,
                   irq, fixed, rxLevel>>

EndReceive ==
    /\ At("endRecv", "idle")
    /\ rxSize' = 0 /\ rxState' = "idle"
    /\ UNCHANGED <<arg, mask, ringBuf, head, tail, rxLast, hw, tx, irq, fixed,
                   ints, rxLevel>>

-----------------------------------------------------------------------------

InCall ==
    \/ DisableInterrupts \/ SendStore \/ ReceiveStore \/ EnableInterrupts
    \/ EndSend \/ EmptyReceive \/ EndReceive

Handler == IrqEnter \/ IrqIterate \/ IrqLeave

Next ==
    \/ Arrive \/ Shift \/ ByteOut
    \/ Handler
    \/ Send \/ Receive \/ AbortSend \/ AbortReceive
    \/ InCall

Spec == Init /\ [][Next]_vars

\* The transmitter and the handler go on, and so does a task that is in a call,
\* between interrupts.  Nothing is assumed of the line.
FairSpec ==
    /\ Spec
    /\ WF_vars(Handler) /\ WF_vars(Shift) /\ WF_vars(ByteOut)
    /\ SF_vars(InCall)

-----------------------------------------------------------------------------
(***************************************************************************)
(* The comments of the non-blocking calls (lines 832, 975 and 1023) say    *)
(* that the interrupts are disabled so that none disturbs the stores.  The *)
(* handler may come between the reading of the enabled interrupts and      *)
(* their disabling, and finish the other direction's transfer there:  what *)
(* it turns off the call enables again, and TXIDLE, which it turns on, the *)
(* call does not disable.  stale remembers that it happened.               *)
(***************************************************************************)

\* An interrupt that stays asserted as long as nobody serves its queue is enabled
\* only when the handler will serve it; otherwise the handler is entered again and
\* again and no task of the core runs.  The code does not keep this (usart_storm).
Served ==
    (pc = "idle" /\ ~isr) =>
        /\ "RXLVL" \in ints => rxSize > 0 \/ ring
        /\ "TXLVL" \in ints => txSize > 0

\* Nothing but a stale mask makes a storm: with a receive and a send that overlap
\* in any way, and with the last byte of a request in the handler, the level
\* interrupts are enabled exactly for what the handler will serve.
NoStorm == stale \/ Served

\* kStatus_USART_TxIdle is reported when the last byte of the request has left the
\* transmitter, and for a request that exists (USART_TransferHandleIRQ 1266-1280).
\* A stale mask that brings TXIDLE back has it reported again; no other way does.
TxIdleMeansSent ==
    (isr /\ ~CanTake /\ ~CanFill /\ TxReport) =>
        \/ cut \/ stale
        \/ txState = "busy" /\ txSize = 0 /\ onWire = txAll /\ TxIdle

\* The bytes of a request reach the line in order, each once, and none of the next
\* request before the last of this one, whatever a mask has brought back.
WireInOrder ==
    [][onWire' # onWire => \/ onWire' = onWire + 1
                           \/ (onWire = txAll /\ onWire' = 0)
                           \/ cut]_vars

\* The user gets the bytes of the line in order, without repetition, whether they
\* pass through the ring or not; bytes are lost only as the driver says.
Channel == INSTANCE ByteChannel WITH
    Capacity <- RingSize - 1,
    pipe <- Stored \o rxFifo,
    last <- rxLast,
    lossy <- rxErr \/ pc = "emptyRecv",
    broken <- stale
ImplementsByteChannel == Channel!Spec

\* A send that is started is reported, or aborted, in a storm too.
SendCompletes == (txState = "busy") ~> (txState = "idle" \/ (isr /\ TxReport))

\* A receive request whose bytes have all arrived is served without waiting for
\* more: the trigger level follows what is left of it.
ReceiveCompletes ==
    (rxSize > 0 /\ rxSize <= Len(rxFifo)) ~>
        (rxState = "idle" \/ rxErr \/ (isr /\ CanTake /\ rxSize = 1) \/ stale)

=============================================================================
