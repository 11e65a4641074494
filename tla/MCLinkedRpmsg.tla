---------------------------- MODULE MCLinkedRpmsg ----------------------------
(***************************************************************************)
(* LinkUp and RpmsgLite together, for TLC: tasks of the remote core wait   *)
(* for the link and then send to the master.                               *)
(*                                                                         *)
(* The system is one of two, chosen once and for all by conf: the          *)
(* constants of the .cfg are those of a FreeRTOS remote on an M33 that is  *)
(* stopped and started again; "hifi4" is a HiFi 4 under XOS whose task     *)
(* waits with a time-out and that is initialised once.  Messages are sent  *)
(* in the second only: a link is not taken down under traffic.             *)
(***************************************************************************)
EXTENDS LinkUp

CONSTANTS N, IdxMod, Receivers, QueueAddr, CallAddr, OtherAddr, Timeouts, RL_BLOCK,
          SeqMod, None

VARIABLES
    fwd, backRing, backIdx, backCons, buf, reservedIdx, gir,
    txLock, spc, sbuf, sreq, stick, sseq,
    isr, isrDesc, queue, rxLock, rpc, rmsg, rseq,
    conf

linkvars == vars
msgvars == <<fwd, backRing, backIdx, backCons, buf, reservedIdx, gir,
             txLock, spc, sbuf, sreq, stick, sseq,
             isr, isrDesc, queue, rxLock, rpc, rmsg, rseq>>
mcvars == <<linkvars, msgvars, conf>>

Msg == INSTANCE RpmsgLite WITH Senders <- Waiters
Hifi4 == INSTANCE LinkUp WITH
            Env <- "xos", Platform <- "hifi4", Blocking <- FALSE, MaxRounds <- 1

MCInit == Init /\ Msg!Init /\ conf \in {"freertos", "hifi4"}

-----------------------------------------------------------------------------
\* The steps of the link.

Case(freertos, hifi4) ==
    /\ \/ conf = "freertos" /\ freertos
       \/ conf = "hifi4" /\ hifi4
    /\ UNCHANGED <<conf, msgvars>>

MCMasterInit == Case(MasterInit, Hifi4!MasterInit)
MCMasterKick == Case(MasterKick, Hifi4!MasterKick)
MCMasterDeinit == Case(MasterDeinit, Hifi4!MasterDeinit)
MCEnvInit == Case(EnvInit, Hifi4!EnvInit)
MCRemoteInitStep == Case(RemoteInitStep, Hifi4!RemoteInitStep)
MCRemoteDeinit == Case(RemoteDeinit, Hifi4!RemoteDeinit)
MCIrqHandler == Case(IrqHandler, Hifi4!IrqHandler)
MCDeferredSet == Case(DeferredSet, Hifi4!DeferredSet)
MCCallWait(w) == Case(CallWait(w), Hifi4!CallWait(w))
MCWaitStep(w) == Case(WaitStep(w), Hifi4!WaitStep(w))
MCTimeOut(w) == Case(TimeOut(w), Hifi4!TimeOut(w))

LinkNext ==
    \/ MCMasterInit \/ MCMasterKick \/ MCMasterDeinit
    \/ MCEnvInit \/ MCRemoteInitStep \/ MCRemoteDeinit
    \/ MCIrqHandler \/ MCDeferredSet
    \/ \E w \in Waiters : MCCallWait(w) \/ MCWaitStep(w) \/ MCTimeOut(w)

-----------------------------------------------------------------------------
\* The steps of the messages.

\* The endpoints that messages are under way to, from the call that sends one to
\* the moment its buffer is on the ring back.
UnderWay ==
    {sreq[s].dst : s \in {s \in Waiters : sreq[s] # None}}
    \cup {buf[fwd[i]].dst : i \in DOMAIN fwd}
    \cup {buf[d].dst : d \in {d \in Msg!Desc : isrDesc = d}}
    \cup {h.msg.dst : h \in Msg!Queued \cup Msg!Read}

\* A send answers RL_NOT_READY while link_state is 0 (rpmsg_lite.c:642).  Tasks
\* and the handler give buffers back at different times (rpmsg_mixed shows what
\* happens otherwise): messages for queues and messages that the handler releases
\* are not under way together.
SendLinked(s, a, t, nocopy) ==
    /\ conf = "hifi4" /\ wait[s] = "yes" /\ link_state = 1
    /\ \A b \in UnderWay : (b \in QueueAddr) = (a \in QueueAddr)
    /\ Msg!Send(s, a, t, nocopy)

MsgNext ==
    /\ \/ \E s \in Waiters, a \in Msg!Addr, t \in Timeouts, nocopy \in BOOLEAN :
             SendLinked(s, a, t, nocopy)
       \/ \E s \in Waiters : Msg!SenderStep(s)
       \/ Msg!IsrStep
       \/ \E r \in Receivers : Msg!ReceiverStep(r)
    /\ UNCHANGED <<linkvars, conf>>

-----------------------------------------------------------------------------

\* The fairness of LinkUp's FairSpec and that of RpmsgLite.
MCSpec ==
    /\ MCInit /\ [][LinkNext \/ MsgNext]_mcvars
    /\ WF_mcvars(MCMasterKick) /\ WF_mcvars(MCRemoteInitStep)
    /\ WF_mcvars(MCIrqHandler) /\ WF_mcvars(MCDeferredSet)
    /\ \A w \in Waiters : WF_mcvars(MCWaitStep(w))
    /\ Msg!Fairness

\* On the HiFi 4, initialised once, rpmsg_lite_wait_for_link_up answers RL_TRUE
\* only while the link is up.  (An M33 opens its line in platform_init: there
\* the kick may be taken before link_state is reset.)
AnswerTrueHifi4 == conf = "hifi4" => AnswerTrue

\* On the HiFi 4, initialised once, the one kick of the master is not lost:
\* with both sides up the link comes up, whichever starts first.
LinkComesHifi4 == conf = "hifi4" => LinkComes

\* Every message of a task that was told the link is up reaches the callback of its
\* endpoint, and the buffer comes back (RpmsgLite's BufferReturns).
BufferReturns == Msg!BufferReturns

\* A send of such a task returns, with RL_BLOCK with a buffer (RpmsgLite's
\* SendReturns).
SendReturns == Msg!SendReturns
=============================================================================
