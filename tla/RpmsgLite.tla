----------------------------- MODULE RpmsgLite -----------------------------
(***************************************************************************)
(* Messages from the tasks of one core to the endpoints of the other       *)
(* (lib/rpmsg_lite/rpmsg_lite.c, rpmsg_queue.c and the RT600 platform      *)
(* layer).  Either core can be the sender: with the master sending, "fwd"  *)
(* is the avail ring of its transmit vring and "back" the used ring; with  *)
(* the remote sending, "fwd" is the used ring of the other vring and       *)
(* "back" its avail ring.                                                  *)
(*                                                                         *)
(* Sending core: tasks that share the device lock; they take a free buffer *)
(* from the back ring, fill it, publish it on the forward ring and kick.   *)
(* Receiving core: the MU interrupt handler, which drains the forward ring *)
(* and runs the endpoint callbacks, and tasks that read rpmsg_queue and    *)
(* give the buffers back.  The handler preempts the tasks of its core at   *)
(* any step and runs to its end before they go on; the two cores           *)
(* interleave freely.                                                      *)
(*                                                                         *)
(* The forward ring has one writer (under the sender's lock) and one       *)
(* reader (the handler), so it is the first-in first-out queue of          *)
(* VringChannel, which Virtqueue implements.  The back ring keeps its      *)
(* slots and indices: the handler and the tasks of the receiving core both *)
(* write it.                                                               *)
(***************************************************************************)
EXTENDS Integers, Sequences, FiniteSets

CONSTANTS
    N,            \* vq_nentries
    IdxMod,       \* 2^16 in the code
    Senders,      \* tasks of the sending core
    Receivers,    \* tasks of the receiving core that read the queues
    QueueAddr,    \* endpoints whose rx_cb is rpmsg_queue_rx_cb
    CallAddr,     \* endpoints whose rx_cb returns RL_RELEASE (rpmsg_ns, ...)
    OtherAddr,    \* destinations with no endpoint
    Timeouts,     \* timeouts callers pass: 0, numbers of polls, RL_BLOCK
    RL_BLOCK,     \* wait for ever
    SeqMod,       \* messages are numbered modulo SeqMod
    None

Addr == QueueAddr \cup CallAddr \cup OtherAddr
Desc == 0 .. N - 1

\* What a buffer carries: hdr.src and hdr.dst, and a number that stands for the
\* payload and lets an endpoint tell a message from its neighbours.
Message == [src : Senders, dst : Addr, seq : 0 .. SeqMod - 1]

\* What rpmsg_queue hands to a task: a buffer with a message.
Held == [data : Desc, msg : Message]

ASSUME RpmsgAssumption ==
    /\ N \in Nat \ {0} /\ IdxMod \in Nat /\ IdxMod % N = 0 /\ IdxMod >= 2 * N
    /\ RL_BLOCK \notin Nat /\ Timeouts \subseteq Nat \cup {RL_BLOCK}
    /\ SeqMod \in Nat /\ SeqMod > N
    /\ None \notin Senders \cup Receivers \cup Desc \cup Held

Slot(i) == i % N
\* Mutant: the index is wider than the 16 bits of the ring.
IncNoWrap(i) == i + 1
Inc(i) == (i + 1) % IdxMod

VARIABLES
    fwd,                            \* descriptors published to the receiver
    backRing, backIdx, backCons,    \* the ring of descriptors given back
    buf,                            \* contents of each buffer
    reservedIdx,                    \* hdr.reserved.idx of each buffer
    gir,                            \* MU general interrupt request pending
    txLock,                         \* device lock of the sending core
    spc, sbuf, sreq, stick,         \* format_message: step, buffer, request, tick_count
    sseq,                           \* number of the next message per sender and address
    isr, isrDesc,                   \* rx_callback: step and buffer in hand
    queue,                          \* rpmsg_queue of each queue endpoint
    rxLock,                         \* device lock of the receiving core
    rpc, rmsg,                      \* receiver tasks: step and message in hand
    rseq                            \* number expected next per sender and address

ring   == <<backRing, backIdx, backCons>>
sender == <<txLock, spc, sbuf, sreq, stick, sseq>>
rxisr  == <<isr, isrDesc, rseq>>
rxtask == <<rxLock, rpc, rmsg>>
vars   == <<fwd, ring, buf, reservedIdx, gir, sender, rxisr, queue, rxtask>>

\* rpmsg_lite_master_init has filled the sender's ring and the link is up.
Init ==
    /\ fwd = << >>
    /\ backRing = [s \in Desc |-> s] /\ backIdx = N % IdxMod /\ backCons = 0
    /\ buf = [d \in Desc |-> None] /\ reservedIdx = [d \in Desc |-> 0]
    /\ gir = FALSE
    /\ txLock = None
    /\ spc = [s \in Senders |-> "idle"] /\ sbuf = [s \in Senders |-> None]
    /\ sreq = [s \in Senders |-> None] /\ stick = [s \in Senders |-> 0]
    /\ sseq = [s \in Senders |-> [a \in Addr |-> 0]]
    /\ isr = "off" /\ isrDesc = None
    /\ queue = [a \in QueueAddr |-> << >>]
    /\ rxLock = None
    /\ rpc = [r \in Receivers |-> "idle"] /\ rmsg = [r \in Receivers |-> None]
    /\ rseq = [s \in Senders |-> [a \in Addr |-> 0]]

-----------------------------------------------------------------------------
\* The sending core.

\* A task calls rpmsg_lite_send, or rpmsg_lite_alloc_tx_buffer and then
\* rpmsg_lite_send_nocopy ("nocopy"), for one message.
Send(s, a, t, nocopy) ==
    /\ spc[s] = "idle"
    /\ spc' = [spc EXCEPT ![s] = "alloc"]
    /\ sreq' = [sreq EXCEPT ![s] = [dst |-> a, timeout |-> t, nocopy |-> nocopy]]
    /\ stick' = [stick EXCEPT ![s] = 0]
    /\ UNCHANGED <<fwd, ring, buf, reservedIdx, gir, txLock, sbuf, sseq,
                   rxisr, queue, rxtask>>

BackEmpty == backCons = backIdx

\* vq_tx_alloc under the lock finds a buffer; alloc_tx_buffer also leaves its
\* index in the header for send_nocopy.
TakeBuffer(s) ==
    LET d == backRing[Slot(backCons)]
    IN /\ txLock = None /\ ~BackEmpty
       /\ backCons' = Inc(backCons)
       /\ sbuf' = [sbuf EXCEPT ![s] = d]
       /\ reservedIdx' = IF sreq[s].nocopy
                         THEN [reservedIdx EXCEPT ![d] = d] ELSE reservedIdx
       /\ spc' = [spc EXCEPT ![s] = "fill"]
       /\ stick' = [stick EXCEPT ![s] = 0]
       /\ UNCHANGED <<fwd, backRing, backIdx, buf, gir, txLock, sreq, sseq,
                      rxisr, queue, rxtask>>

\* The call returns RL_ERR_NO_MEM (alloc_tx_buffer: RL_NULL).
GiveUp(s) ==
    /\ spc' = [spc EXCEPT ![s] = "idle"]
    /\ sreq' = [sreq EXCEPT ![s] = None]
    /\ stick' = [stick EXCEPT ![s] = 0]
    /\ UNCHANGED <<fwd, ring, buf, reservedIdx, gir, txLock, sbuf, sseq,
                   rxisr, queue, rxtask>>

\* The first attempt.
Alloc(s) ==
    /\ spc[s] = "alloc"
    /\ \/ TakeBuffer(s)
       \/ /\ txLock = None /\ BackEmpty /\ sreq[s].timeout = 0
          /\ GiveUp(s)
       \/ /\ txLock = None /\ BackEmpty /\ sreq[s].timeout # 0
          /\ spc' = [spc EXCEPT ![s] = "wait"]
          /\ UNCHANGED <<fwd, ring, buf, reservedIdx, gir, txLock, sbuf, sreq,
                         stick, sseq, rxisr, queue, rxtask>>

\* tick_count += RL_MS_PER_INTERVAL; a caller of RL_BLOCK does not reach 2^32 ms.
Tick(s) == IF sreq[s].timeout = RL_BLOCK THEN stick[s] ELSE stick[s] + 1
TimedOut(s) == sreq[s].timeout # RL_BLOCK /\ Tick(s) >= sreq[s].timeout

\* Mutant: the loop leaves on its time-out without looking at the buffer.
PollDropsLateBuffer(s) ==
    /\ spc[s] = "wait" /\ txLock = None
    /\ \/ ~TimedOut(s) /\ TakeBuffer(s)
       \/ /\ TimedOut(s)
          /\ backCons' = IF BackEmpty THEN backCons ELSE Inc(backCons)
          /\ spc' = [spc EXCEPT ![s] = "idle"]
          /\ sreq' = [sreq EXCEPT ![s] = None]
          /\ stick' = [stick EXCEPT ![s] = 0]
          /\ UNCHANGED <<fwd, backRing, backIdx, buf, reservedIdx, gir, txLock,
                         sbuf, sseq, rxisr, queue, rxtask>>
       \/ /\ BackEmpty /\ ~TimedOut(s) /\ Tick(s) # stick[s]
          /\ stick' = [stick EXCEPT ![s] = Tick(s)]
          /\ UNCHANGED <<fwd, ring, buf, reservedIdx, gir, txLock, spc, sbuf,
                         sreq, sseq, rxisr, queue, rxtask>>

\* Mutant: the loop only watches the clock.
PollNeverTries(s) ==
    /\ spc[s] = "wait"
    /\ \/ TimedOut(s) /\ GiveUp(s)
       \/ ~TimedOut(s) /\ UNCHANGED vars

\* One turn of the polling loop: sleep, try again, give up only without a buffer.
Poll(s) ==
    /\ spc[s] = "wait"
    /\ \/ TakeBuffer(s)
       \/ /\ txLock = None /\ BackEmpty /\ TimedOut(s)
          /\ GiveUp(s)
       \/ /\ txLock = None /\ BackEmpty /\ ~TimedOut(s)
          /\ Tick(s) # stick[s]
          /\ stick' = [stick EXCEPT ![s] = Tick(s)]
          /\ UNCHANGED <<fwd, ring, buf, reservedIdx, gir, txLock, spc, sbuf,
                         sreq, sseq, rxisr, queue, rxtask>>

\* The header and the payload go into the buffer, outside the lock.
Fill(s) ==
    /\ spc[s] = "fill"
    /\ LET a == sreq[s].dst
       IN /\ buf' = [buf EXCEPT ![sbuf[s]] =
                        [src |-> s, dst |-> a, seq |-> sseq[s][a]]]
          /\ sseq' = [sseq EXCEPT ![s][a] = (@ + 1) % SeqMod]
    /\ spc' = [spc EXCEPT ![s] = "tx"]
    /\ UNCHANGED <<fwd, ring, reservedIdx, gir, txLock, sbuf, sreq, stick,
                   rxisr, queue, rxtask>>

\* env_lock_mutex; vq_tx.  send_nocopy finds the index in the header.
Tx(s) ==
    /\ spc[s] = "tx" /\ txLock = None
    /\ txLock' = s
    /\ fwd' = Append(fwd, IF sreq[s].nocopy THEN reservedIdx[sbuf[s]] ELSE sbuf[s])
    /\ sbuf' = [sbuf EXCEPT ![s] = None]
    /\ spc' = [spc EXCEPT ![s] = "kick"]
    /\ UNCHANGED <<ring, buf, reservedIdx, gir, sreq, stick, sseq, rxisr,
                   queue, rxtask>>

\* virtqueue_kick -> platform_notify -> MU_TriggerInterrupts, then the unlock.
\* With a request still pending the MU takes no second one.
Kick(s) ==
    /\ spc[s] = "kick"
    /\ gir' = TRUE
    /\ txLock' = None
    /\ spc' = [spc EXCEPT ![s] = "idle"]
    /\ sreq' = [sreq EXCEPT ![s] = None]
    /\ UNCHANGED <<fwd, ring, buf, reservedIdx, sbuf, stick, sseq, rxisr, queue,
                   rxtask>>

-----------------------------------------------------------------------------
\* The receiving core: MU_A_IRQHandler / MU_B_IRQHandler -> rx_callback.

\* The request is cleared before the ring is read.
IsrEnter ==
    /\ isr = "off" /\ gir
    /\ gir' = FALSE
    /\ isr' = "drain"
    /\ UNCHANGED <<fwd, ring, buf, reservedIdx, sender, isrDesc, rseq, queue, rxtask>>

\* Mutant: the loop calls vq_rx once too often and drops a message.
IsrRxSkips ==
    /\ isr = "drain" /\ fwd # << >>
    /\ isrDesc' = fwd[Len(fwd)] /\ fwd' = << >>
    /\ isr' = "dispatch"
    /\ UNCHANGED <<ring, buf, reservedIdx, gir, sender, rseq, queue, rxtask>>

\* vq_rx returns a message.
IsrRx ==
    /\ isr = "drain" /\ fwd # << >>
    /\ isrDesc' = Head(fwd) /\ fwd' = Tail(fwd)
    /\ isr' = "dispatch"
    /\ UNCHANGED <<ring, buf, reservedIdx, gir, sender, rseq, queue, rxtask>>

\* vq_rx returns RL_NULL ...
IsrEmpty ==
    /\ isr = "drain" /\ fwd = << >>
    /\ isr' = "leave"
    /\ UNCHANGED <<fwd, ring, buf, reservedIdx, gir, sender, isrDesc, rseq,
                   queue, rxtask>>

\* Mutant: the request is (also) cleared after the callback.
IsrExitClears ==
    /\ isr = "leave"
    /\ isr' = "off" /\ gir' = FALSE
    /\ UNCHANGED <<fwd, ring, buf, reservedIdx, sender, isrDesc, rseq, queue,
                   rxtask>>

\* ... and the handler returns; the ring is not looked at again.
IsrExit ==
    /\ isr = "leave"
    /\ isr' = "off"
    /\ UNCHANGED <<fwd, ring, buf, reservedIdx, gir, sender, isrDesc, rseq,
                   queue, rxtask>>

\* The callback sees the next message of its sender.
Deliver ==
    LET m == buf[isrDesc]
    IN rseq' = [rseq EXCEPT ![m.src][m.dst] = (@ + 1) % SeqMod]

QueueTakes(a) == a \in QueueAddr /\ Len(queue[a]) < N

\* Mutant: rpmsg_queue_rx_cb queues the message and returns RL_RELEASE.
IsrHoldAndRelease ==
    LET m == buf[isrDesc]
    IN /\ isr = "dispatch" /\ QueueTakes(m.dst)
       /\ Deliver
       /\ queue' = [queue EXCEPT ![m.dst] = Append(@, [data |-> isrDesc, msg |-> m])]
       /\ backRing' = [backRing EXCEPT ![Slot(backIdx)] = isrDesc]
       /\ backIdx' = Inc(backIdx)
       /\ isr' = "drain" /\ isrDesc' = None
       /\ UNCHANGED <<fwd, backCons, buf, reservedIdx, gir, sender, rxtask>>

\* Mutant: rx_callback does not leave the index in the header.
IsrHoldUnmarked ==
    LET m == buf[isrDesc]
    IN /\ isr = "dispatch" /\ QueueTakes(m.dst)
       /\ Deliver
       /\ queue' = [queue EXCEPT ![m.dst] = Append(@, [data |-> isrDesc, msg |-> m])]
       /\ isr' = "drain" /\ isrDesc' = None
       /\ UNCHANGED <<fwd, ring, buf, reservedIdx, gir, sender, rxtask>>

\* rpmsg_queue_rx_cb queues the message and holds the buffer; rx_callback then
\* leaves the index in the header.
IsrHold ==
    LET m == buf[isrDesc]
    IN /\ isr = "dispatch" /\ QueueTakes(m.dst)
       /\ Deliver
       /\ queue' = [queue EXCEPT ![m.dst] = Append(@, [data |-> isrDesc, msg |-> m])]
       /\ reservedIdx' = [reservedIdx EXCEPT ![isrDesc] = isrDesc]
       /\ isr' = "drain" /\ isrDesc' = None
       /\ UNCHANGED <<fwd, ring, buf, gir, sender, rxtask>>

\* Any other outcome is RL_RELEASE, also without an endpoint: vq_rx_free.
IsrRelease ==
    /\ isr = "dispatch" /\ ~QueueTakes(buf[isrDesc].dst)
    /\ Deliver
    /\ backRing' = [backRing EXCEPT ![Slot(backIdx)] = isrDesc]
    /\ backIdx' = Inc(backIdx)
    /\ isr' = "drain" /\ isrDesc' = None
    /\ UNCHANGED <<fwd, backCons, buf, reservedIdx, gir, sender, queue, rxtask>>

-----------------------------------------------------------------------------
\* The receiving core: tasks, which run only while the handler does not.

\* rpmsg_queue_recv / rpmsg_queue_recv_nocopy: env_get_queue.
QueueRecv(r, a) ==
    /\ isr = "off" /\ rpc[r] = "idle" /\ queue[a] # << >>
    /\ rmsg' = [rmsg EXCEPT ![r] = Head(queue[a])]
    /\ queue' = [queue EXCEPT ![a] = Tail(@)]
    /\ rpc' = [rpc EXCEPT ![r] = "read"]
    /\ UNCHANGED <<fwd, ring, buf, reservedIdx, gir, sender, rxisr, rxLock>>

\* Mutant: the buffer is given back without the lock.
ReleaseUnlocked(r) ==
    /\ isr = "off" /\ rpc[r] = "read"
    /\ backRing' = [backRing EXCEPT ![Slot(backIdx)] = reservedIdx[rmsg[r].data]]
    /\ rpc' = [rpc EXCEPT ![r] = "publish"]
    /\ UNCHANGED <<fwd, backIdx, backCons, buf, reservedIdx, gir, sender,
                   rxisr, queue, rxLock, rmsg>>

\* rpmsg_lite_release_rx_buffer: lock, vq_rx_free up to the barrier.
Release(r) ==
    /\ isr = "off" /\ rpc[r] = "read" /\ rxLock = None
    /\ rxLock' = r
    /\ backRing' = [backRing EXCEPT ![Slot(backIdx)] = reservedIdx[rmsg[r].data]]
    /\ rpc' = [rpc EXCEPT ![r] = "publish"]
    /\ UNCHANGED <<fwd, backIdx, backCons, buf, reservedIdx, gir, sender,
                   rxisr, queue, rmsg>>

\* ... the increment of the index, and the unlock.
ReleasePublish(r) ==
    /\ isr = "off" /\ rpc[r] = "publish"
    /\ backIdx' = Inc(backIdx)
    /\ rxLock' = None
    /\ rpc' = [rpc EXCEPT ![r] = "idle"] /\ rmsg' = [rmsg EXCEPT ![r] = None]
    /\ UNCHANGED <<fwd, backRing, backCons, buf, reservedIdx, gir, sender,
                   rxisr, queue>>

-----------------------------------------------------------------------------
SenderStep(s) == Alloc(s) \/ Poll(s) \/ Fill(s) \/ Tx(s) \/ Kick(s)
IsrStep == IsrEnter \/ IsrRx \/ IsrEmpty \/ IsrExit \/ IsrHold \/ IsrRelease
ReceiverStep(r) ==
    \/ \E a \in QueueAddr : QueueRecv(r, a)
    \/ Release(r)
    \/ ReleasePublish(r)

Next ==
    \/ \E s \in Senders, a \in Addr, t \in Timeouts, nocopy \in BOOLEAN :
          Send(s, a, t, nocopy)
    \/ \E s \in Senders : SenderStep(s)
    \/ IsrStep
    \/ \E r \in Receivers : ReceiverStep(r)

Spec == Init /\ [][Next]_vars

\* A pending interrupt is taken and its handler runs; tasks that are inside a
\* call go on with it, and reading tasks keep reading.  Nobody has to send.
Fairness ==
    /\ WF_vars(IsrStep)
    /\ \A s \in Senders : WF_vars(SenderStep(s))
    /\ \A r \in Receivers : WF_vars(ReceiverStep(r))

-----------------------------------------------------------------------------
BackPending == {i \in 0 .. IdxMod - 1 :
                   (i - backCons) % IdxMod < (backIdx - backCons) % IdxMod}

\* The places a descriptor can be in, each with its name.
Places(d) ==
    {<<"sender", s>> : s \in {s \in Senders : sbuf[s] = d}}
    \cup {<<"fwd", i>> : i \in {i \in DOMAIN fwd : fwd[i] = d}}
    \cup {<<"isr", i>> : i \in {i \in {1} : isrDesc = d}}
    \cup (UNION {{<<"queue", a, i>> :
                     i \in {i \in DOMAIN queue[a] : queue[a][i].data = d}}
                   : a \in QueueAddr})
    \cup {<<"reader", r>> : r \in {r \in Receivers : rmsg[r] # None /\ rmsg[r].data = d}}
    \cup {<<"back", i>> : i \in {i \in BackPending : backRing[Slot(i)] = d}}

Queued == UNION {{queue[a][i] : i \in DOMAIN queue[a]} : a \in QueueAddr}
Read   == {rmsg[r] : r \in {r \in Receivers : rmsg[r] # None}}

Request == [dst : Addr, timeout : Timeouts, nocopy : BOOLEAN]

\* Every variable stays in its range.
TypeOK ==
    /\ fwd \in Seq(Desc)
    /\ backRing \in [Desc -> Desc]
    /\ backIdx \in 0 .. IdxMod - 1 /\ backCons \in 0 .. IdxMod - 1
    /\ buf \in [Desc -> Message \cup {None}] /\ reservedIdx \in [Desc -> Desc]
    /\ gir \in BOOLEAN
    /\ txLock \in Senders \cup {None}
    /\ spc \in [Senders -> {"idle", "alloc", "wait", "fill", "tx", "kick"}]
    /\ sbuf \in [Senders -> Desc \cup {None}]
    /\ sreq \in [Senders -> Request \cup {None}]
    /\ stick \in [Senders -> Nat]
    /\ sseq \in [Senders -> [Addr -> 0 .. SeqMod - 1]]
    /\ isr \in {"off", "drain", "dispatch", "leave"} /\ isrDesc \in Desc \cup {None}
    /\ queue \in [QueueAddr -> Seq(Held)]
    /\ rxLock \in Receivers \cup {None}
    /\ rpc \in [Receivers -> {"idle", "read", "publish"}]
    /\ rmsg \in [Receivers -> Held \cup {None}]
    /\ rseq \in [Senders -> [Addr -> 0 .. SeqMod - 1]]

\* No buffer is lost and none is in two hands, on any path through
\* format_message, send_nocopy, rx_callback and release_rx_buffer, time-outs
\* included: each descriptor is in exactly one place.
OnePlace == \A d \in Desc : Cardinality(Places(d)) = 1

\* A message waiting in an rpmsg_queue, or being read by a task without a copy,
\* is still the one that was delivered: nobody writes its buffer.
Untouched == \A h \in Queued \cup Read : buf[h.data] = h.msg

\* The header names the buffer it is in whenever send_nocopy or
\* release_rx_buffer will take the index from there: alloc_tx_buffer has left it
\* for the one, rx_callback (after rx_cb has queued the message) for the other.
HeaderIndex ==
    /\ \A s \in Senders : spc[s] \in {"fill", "tx"} /\ sreq[s].nocopy =>
          reservedIdx[sbuf[s]] = sbuf[s]
    /\ \A a \in QueueAddr : \A i \in DOMAIN queue[a] :
          reservedIdx[queue[a][i].data] = queue[a][i].data
    /\ \A r \in Receivers : rpc[r] = "read" =>
          reservedIdx[rmsg[r].data] = rmsg[r].data

\* An endpoint gets the messages of each sender in the order they were sent,
\* none missing and none twice.
InOrder ==
    isr = "dispatch" =>
        LET m == buf[isrDesc] IN m.seq = rseq[m.src][m.dst]

\* rpmsg_queue_rx_cb ignores no message: the queue has vq_nentries places, and
\* every message in it holds a buffer of the vring.
QueueNeverFull ==
    isr = "dispatch" /\ buf[isrDesc].dst \in QueueAddr =>
        Len(queue[buf[isrDesc].dst]) < N

\* A published message never waits without somebody on the way to it: the MU
\* request is pending, the handler is draining, or the kick is still to come.
\* MU_TriggerInterrupts drops a request while the last one is pending, so this
\* rests on the handler clearing the request before it reads the ring.
NoLostWakeup ==
    fwd # << >> => \/ gir
                   \/ isr \in {"drain", "dispatch"}
                   \/ \E s \in Senders : spc[s] = "kick"

InFwd(d) == \E i \in DOMAIN fwd : fwd[i] = d
Free(d) == \E i \in BackPending : backRing[Slot(i)] = d

\* Every message sent reaches the callback of its endpoint, and the buffer it
\* travelled in comes back to the sending core.
BufferReturns ==
    /\ \A d \in Desc : InFwd(d) ~> (isr = "dispatch" /\ isrDesc = d)
    /\ \A d \in Desc : InFwd(d) ~> Free(d)

\* A send that waits for a buffer gets one or times out; with RL_BLOCK it gets
\* one.
SendReturns == \A s \in Senders : spc[s] # "idle" ~> spc[s] = "idle"

=============================================================================
