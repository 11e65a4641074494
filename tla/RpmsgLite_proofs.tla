-------------------------- MODULE RpmsgLite_proofs --------------------------
(***************************************************************************)
(* Proofs about RpmsgLite, for any number of buffers, tasks and endpoints. *)
(* The type invariant needs to know that a published buffer has been       *)
(* filled, which needs the header indices (HeaderIndex) and what each task *)
(* holds at each step (Hands); NoLostWakeup is inductive on its own.       *)
(* The second half is about a core whose back ring has one kind of writer: *)
(* where each buffer is (BInv), what it carries (Kept) and in which order  *)
(* (Chained).                                                              *)
(***************************************************************************)
EXTENDS RpmsgLite, FiniteSetTheorems, TLAPS

\* What a task or the handler has in hand at each of its steps.
Hands ==
    /\ \A s \in Senders :
          /\ spc[s] # "idle" => sreq[s] \in Request
          /\ spc[s] \in {"fill", "tx"} => sbuf[s] \in Desc
          /\ spc[s] = "tx" => buf[sbuf[s]] \in Message
    /\ \A i \in DOMAIN fwd : buf[fwd[i]] \in Message
    /\ isr = "dispatch" => isrDesc \in Desc /\ buf[isrDesc] \in Message
    /\ \A r \in Receivers : rpc[r] # "idle" => rmsg[r] \in Held

\* The device locks are held exactly where the code is between lock and unlock.
Locks ==
    /\ \A s \in Senders : (txLock = s) <=> (spc[s] = "kick")
    /\ \A r \in Receivers : (rxLock = r) <=> (rpc[r] = "publish")

IInv == TypeOK /\ Hands /\ HeaderIndex /\ Locks

-----------------------------------------------------------------------------
\* An index stays an index when incremented.
LEMMA IncInRange ==
    ASSUME NEW i \in 0 .. IdxMod - 1
    PROVE  Inc(i) \in 0 .. IdxMod - 1
<1>1. IdxMod \in Nat /\ IdxMod > 0
  BY RpmsgAssumption
<1>2. QED
  BY <1>1 DEF Inc

\* An index selects a slot of the ring.
LEMMA SlotInRange ==
    ASSUME NEW i \in 0 .. IdxMod - 1
    PROVE  Slot(i) \in Desc
<1>1. N \in Nat /\ N > 0
  BY RpmsgAssumption
<1>2. QED
  BY <1>1 DEF Slot, Desc

\* Numbering messages stays within SeqMod.
LEMMA SeqInRange ==
    ASSUME NEW n \in 0 .. SeqMod - 1
    PROVE  (n + 1) % SeqMod \in 0 .. SeqMod - 1
<1>1. SeqMod \in Nat /\ SeqMod > 0
  BY RpmsgAssumption
<1>2. QED
  BY <1>1

-----------------------------------------------------------------------------
\* The initial state satisfies the invariant.
LEMMA InitIInv == Init => IInv
<1> SUFFICES ASSUME Init PROVE IInv
  OBVIOUS
<1>1. /\ N \in Nat \ {0} /\ IdxMod \in Nat /\ IdxMod >= 2 * N
      /\ SeqMod \in Nat /\ SeqMod > N
      /\ None \notin Senders \cup Receivers \cup Desc
  BY RpmsgAssumption
<1>2. 0 \in Desc /\ 0 \in 0 .. IdxMod - 1 /\ 0 \in 0 .. SeqMod - 1
  BY <1>1 DEF Desc
<1>3. N % IdxMod \in 0 .. IdxMod - 1
  BY <1>1
<1>4. TypeOK
  <2>1. fwd \in Seq(Desc) /\ queue \in [QueueAddr -> Seq(Held)]
    BY DEF Init
  <2>2. /\ backRing \in [Desc -> Desc] /\ backIdx \in 0 .. IdxMod - 1
        /\ backCons \in 0 .. IdxMod - 1
    BY <1>2, <1>3 DEF Init
  <2>3. /\ buf \in [Desc -> Message \cup {None}] /\ reservedIdx \in [Desc -> Desc]
        /\ gir \in BOOLEAN
    BY <1>2 DEF Init
  <2>4. /\ txLock \in Senders \cup {None}
        /\ spc \in [Senders -> {"idle", "alloc", "wait", "fill", "tx", "kick"}]
        /\ sbuf \in [Senders -> Desc \cup {None}]
        /\ sreq \in [Senders -> Request \cup {None}]
        /\ stick \in [Senders -> Nat]
    BY DEF Init
  <2>5. /\ sseq \in [Senders -> [Addr -> 0 .. SeqMod - 1]]
        /\ rseq \in [Senders -> [Addr -> 0 .. SeqMod - 1]]
    BY <1>2 DEF Init
  <2>6. /\ isr \in {"off", "drain", "dispatch", "leave"} /\ isrDesc \in Desc \cup {None}
        /\ rxLock \in Receivers \cup {None}
        /\ rpc \in [Receivers -> {"idle", "read", "publish"}]
        /\ rmsg \in [Receivers -> Held \cup {None}]
    BY DEF Init
  <2>7. QED
    BY <2>1, <2>2, <2>3, <2>4, <2>5, <2>6 DEF TypeOK
<1>5. Hands /\ HeaderIndex /\ Locks
  BY <1>1 DEF Init, Hands, HeaderIndex, Locks
<1>6. QED
  BY <1>4, <1>5 DEF IInv

\* A task enters send or alloc_tx_buffer.
LEMMA SendStep ==
    ASSUME IInv, NEW s \in Senders, NEW a \in Addr, NEW t \in Timeouts, NEW n \in BOOLEAN, Send(s, a, t, n)
    PROVE  IInv'
<1> USE DEF IInv
<1>1. TypeOK'
  BY RpmsgAssumption DEF Send, TypeOK, vars, ring, sender, rxisr, rxtask, Request
<1>2. Hands'
  BY RpmsgAssumption DEF Send, TypeOK, Hands, vars, ring, sender, rxisr, rxtask, Request
<1>3. HeaderIndex'
  BY RpmsgAssumption DEF Send, TypeOK, Hands, HeaderIndex, vars, ring, sender, rxisr, rxtask, Request
<1>4. Locks'
  BY RpmsgAssumption DEF Send, TypeOK, Locks, vars, ring, sender, rxisr, rxtask, Request
<1>5. QED
  BY <1>1, <1>2, <1>3, <1>4

\* A free buffer is taken.
LEMMA TakeBufferStep ==
    ASSUME IInv, NEW s \in Senders, spc[s] \in {"alloc", "wait"}, TakeBuffer(s)
    PROVE  IInv'
<1> USE DEF IInv
<1> DEFINE d == backRing[Slot(backCons)]
<1>1. d \in Desc /\ Inc(backCons) \in 0 .. IdxMod - 1
  BY SlotInRange, IncInRange DEF TypeOK
<1>2. reservedIdx' \in [Desc -> Desc]
  BY <1>1 DEF TakeBuffer, TypeOK
<1>3. \A x \in Desc : reservedIdx[x] = x => reservedIdx'[x] = x
  BY <1>1 DEF TakeBuffer, TypeOK
<1>4. sbuf' = [sbuf EXCEPT ![s] = d] /\ spc' = [spc EXCEPT ![s] = "fill"]
  BY DEF TakeBuffer
<1>5. sreq[s].nocopy => reservedIdx'[d] = d
  BY <1>1 DEF TakeBuffer, TypeOK
<1>6. TypeOK'
  BY <1>1, <1>2 DEF TakeBuffer, TypeOK, vars, ring, sender, rxisr, rxtask
<1>7. Hands'
  <2>1. \A x \in Senders : /\ spc'[x] # "idle" => sreq'[x] \in Request
                           /\ spc'[x] \in {"fill", "tx"} => sbuf'[x] \in Desc
                           /\ spc'[x] = "tx" => buf'[sbuf'[x]] \in Message
    BY <1>1, <1>4 DEF TakeBuffer, TypeOK, Hands
  <2>2. QED
    BY <2>1 DEF TakeBuffer, Hands, rxisr, rxtask
<1>8. HeaderIndex'
  <2>1. ASSUME NEW x \in Senders, spc'[x] \in {"fill", "tx"}, sreq'[x].nocopy
        PROVE  reservedIdx'[sbuf'[x]] = sbuf'[x]
    <3>1. CASE x = s
      BY <1>4, <1>5, <2>1, <3>1 DEF TakeBuffer, TypeOK
    <3>2. CASE x # s
      <4>1. spc'[x] = spc[x] /\ sbuf'[x] = sbuf[x] /\ sreq'[x] = sreq[x]
        BY <1>4, <3>2 DEF TakeBuffer, TypeOK
      <4>2. sbuf[x] \in Desc /\ reservedIdx[sbuf[x]] = sbuf[x]
        BY <2>1, <4>1 DEF Hands, HeaderIndex
      <4>3. QED
        BY <1>3, <4>1, <4>2
    <3>3. QED
      BY <3>1, <3>2
  <2>2. ASSUME NEW a \in QueueAddr, NEW i \in DOMAIN queue[a]
        PROVE  reservedIdx'[queue[a][i].data] = queue[a][i].data
    <3>1. queue[a][i] \in Held
      BY DEF TypeOK
    <3>2. queue[a][i].data \in Desc
      BY <3>1 DEF Held
    <3>3. QED
      BY <1>3, <3>2 DEF HeaderIndex
  <2>3. ASSUME NEW r \in Receivers, rpc[r] = "read"
        PROVE  reservedIdx'[rmsg[r].data] = rmsg[r].data
    <3>1. rmsg[r].data \in Desc
      BY <2>3 DEF Hands, Held
    <3>2. QED
      BY <1>3, <2>3, <3>1 DEF HeaderIndex
  <2>4. queue' = queue /\ rpc' = rpc /\ rmsg' = rmsg
    BY DEF TakeBuffer, rxtask
  <2>5. QED
    BY <2>1, <2>2, <2>3, <2>4 DEF HeaderIndex
<1>9. Locks'
  BY DEF TakeBuffer, TypeOK, Locks, rxtask
<1>10. QED
  BY <1>6, <1>7, <1>8, <1>9

\* A sender returns without a buffer.
LEMMA GiveUpStep ==
    ASSUME IInv, NEW s \in Senders, spc[s] \in {"alloc", "wait"}, GiveUp(s)
    PROVE  IInv'
<1> USE DEF IInv
<1>1. TypeOK'
  BY RpmsgAssumption DEF GiveUp, TypeOK, vars, ring, sender, rxisr, rxtask, Request
<1>2. Hands'
  BY RpmsgAssumption DEF GiveUp, TypeOK, Hands, vars, ring, sender, rxisr, rxtask, Request
<1>3. HeaderIndex'
  BY RpmsgAssumption DEF GiveUp, TypeOK, Hands, HeaderIndex, vars, ring, sender, rxisr, rxtask, Request
<1>4. Locks'
  BY RpmsgAssumption DEF GiveUp, TypeOK, Locks, vars, ring, sender, rxisr, rxtask, Request
<1>5. QED
  BY <1>1, <1>2, <1>3, <1>4

\* The first attempt to get a buffer.
LEMMA AllocStep ==
    ASSUME IInv, NEW s \in Senders, Alloc(s)
    PROVE  IInv'
<1>1. CASE TakeBuffer(s)
  BY <1>1, TakeBufferStep DEF Alloc
<1>2. CASE GiveUp(s)
  BY <1>2, GiveUpStep DEF Alloc
<1>3. CASE /\ spc' = [spc EXCEPT ![s] = "wait"]
           /\ UNCHANGED <<fwd, ring, buf, reservedIdx, gir, txLock, sbuf, sreq,
                          stick, sseq, rxisr, queue, rxtask>>
  <2> USE DEF IInv
  <2>0. spc[s] = "alloc"
    BY DEF Alloc
  <2>1. TypeOK'
    BY <1>3 DEF TypeOK, ring, rxisr, rxtask
  <2>2. Hands'
    BY <1>3, <2>0 DEF TypeOK, Hands, rxisr, rxtask
  <2>3. HeaderIndex'
    BY <1>3, <2>0 DEF TypeOK, HeaderIndex, rxtask
  <2>4. Locks'
    BY <1>3, <2>0 DEF TypeOK, Locks, rxtask
  <2>5. QED
    BY <2>1, <2>2, <2>3, <2>4
<1>4. QED
  BY <1>1, <1>2, <1>3 DEF Alloc

\* A turn of the polling loop.
LEMMA PollStep ==
    ASSUME IInv, NEW s \in Senders, Poll(s)
    PROVE  IInv'
<1>1. CASE TakeBuffer(s)
  BY <1>1, TakeBufferStep DEF Poll
<1>2. CASE GiveUp(s)
  BY <1>2, GiveUpStep DEF Poll
<1>3. CASE /\ stick' = [stick EXCEPT ![s] = Tick(s)]
           /\ UNCHANGED <<fwd, ring, buf, reservedIdx, gir, txLock, spc, sbuf,
                          sreq, sseq, rxisr, queue, rxtask>>
  <2> USE DEF IInv
  <2>1. Tick(s) \in Nat
    BY DEF Tick, TypeOK
  <2>2. TypeOK'
    BY <1>3, <2>1 DEF TypeOK, ring, rxisr, rxtask
  <2>3. Hands' /\ HeaderIndex' /\ Locks'
    BY <1>3 DEF Hands, HeaderIndex, Locks, rxisr, rxtask
  <2>4. QED
    BY <2>2, <2>3
<1>4. QED
  BY <1>1, <1>2, <1>3 DEF Poll

\* A message is written.
LEMMA FillStep ==
    ASSUME IInv, NEW s \in Senders, Fill(s)
    PROVE  IInv'
<1> USE DEF IInv
<1> DEFINE a == sreq[s].dst
           m == [src |-> s, dst |-> a, seq |-> sseq[s][a]]
<1>1. a \in Addr /\ sbuf[s] \in Desc
  BY DEF Fill, Hands, Request
<1>2. sseq[s][a] \in 0 .. SeqMod - 1 /\ (sseq[s][a] + 1) % SeqMod \in 0 .. SeqMod - 1
  BY <1>1, SeqInRange DEF TypeOK
<1>3. m \in Message
  BY <1>1, <1>2 DEF Message
<1>4. buf' = [buf EXCEPT ![sbuf[s]] = m]
  BY DEF Fill
<1>5. /\ buf' \in [Desc -> Message \cup {None}]
      /\ \A x \in Desc : buf[x] \in Message => buf'[x] \in Message
      /\ buf'[sbuf[s]] \in Message
  BY <1>1, <1>3, <1>4 DEF TypeOK
<1>6. sseq' \in [Senders -> [Addr -> 0 .. SeqMod - 1]]
  BY <1>1, <1>2 DEF Fill, TypeOK
<1>7. TypeOK'
  BY <1>5, <1>6 DEF Fill, TypeOK, ring, rxisr, rxtask
<1>8. Hands'
  <2>1. ASSUME NEW x \in Senders
        PROVE  /\ spc'[x] # "idle" => sreq'[x] \in Request
               /\ spc'[x] \in {"fill", "tx"} => sbuf'[x] \in Desc
               /\ spc'[x] = "tx" => buf'[sbuf'[x]] \in Message
    <3>1. CASE x = s
      BY <1>1, <1>5, <3>1 DEF Fill, Hands, TypeOK
    <3>2. CASE x # s
      BY <1>5, <3>2 DEF Fill, Hands, TypeOK
    <3>3. QED
      BY <3>1, <3>2
  <2>2. \A i \in DOMAIN fwd : fwd[i] \in Desc
    BY DEF TypeOK
  <2>3. \A i \in DOMAIN fwd' : buf'[fwd'[i]] \in Message
    BY <1>5, <2>2 DEF Fill, Hands
  <2>4. isr' = "dispatch" => isrDesc' \in Desc /\ buf'[isrDesc'] \in Message
    BY <1>5 DEF Fill, Hands, rxisr
  <2>5. QED
    BY <2>1, <2>3, <2>4 DEF Fill, Hands, rxtask
<1>9. HeaderIndex'
  BY DEF Fill, TypeOK, HeaderIndex, rxtask
<1>10. Locks'
  BY DEF Fill, TypeOK, Locks, rxtask
<1>11. QED
  BY <1>7, <1>8, <1>9, <1>10

\* A buffer is published.
LEMMA TxStep ==
    ASSUME IInv, NEW s \in Senders, Tx(s)
    PROVE  IInv'
<1> USE DEF IInv
<1> DEFINE d == IF sreq[s].nocopy THEN reservedIdx[sbuf[s]] ELSE sbuf[s]
<1>1. d = sbuf[s] /\ d \in Desc /\ buf[d] \in Message
  BY DEF Tx, Hands, HeaderIndex
<1>2. fwd' = Append(fwd, d)
  BY DEF Tx
<1>3. /\ fwd' \in Seq(Desc)
      /\ \A i \in DOMAIN fwd' : \/ fwd'[i] = d
                                \/ i \in DOMAIN fwd /\ fwd'[i] = fwd[i]
  <2>1. fwd \in Seq(Desc)
    BY DEF TypeOK
  <2>2. QED
    BY <1>1, <1>2, <2>1
<1>4. TypeOK'
  BY <1>3 DEF Tx, TypeOK, ring, rxisr, rxtask
<1>5. Hands'
  <2>1. \A x \in Senders : /\ spc'[x] # "idle" => sreq'[x] \in Request
                           /\ spc'[x] \in {"fill", "tx"} => sbuf'[x] \in Desc
                           /\ spc'[x] = "tx" => buf'[sbuf'[x]] \in Message
    BY DEF Tx, TypeOK, Hands
  <2>2. \A i \in DOMAIN fwd' : buf'[fwd'[i]] \in Message
    BY <1>1, <1>3 DEF Tx, Hands
  <2>3. QED
    BY <2>1, <2>2 DEF Tx, Hands, rxisr, rxtask
<1>6. HeaderIndex'
  BY DEF Tx, TypeOK, HeaderIndex, rxtask
<1>7. Locks'
  BY RpmsgAssumption DEF Tx, TypeOK, Locks, rxtask
<1>8. QED
  BY <1>4, <1>5, <1>6, <1>7

\* The other core is notified.
LEMMA KickStep ==
    ASSUME IInv, NEW s \in Senders, Kick(s)
    PROVE  IInv'
<1> USE DEF IInv
<1>1. TypeOK'
  BY RpmsgAssumption DEF Kick, TypeOK, vars, ring, sender, rxisr, rxtask, Request
<1>2. Hands'
  BY RpmsgAssumption DEF Kick, TypeOK, Hands, vars, ring, sender, rxisr, rxtask, Request
<1>3. HeaderIndex'
  BY RpmsgAssumption DEF Kick, TypeOK, Hands, HeaderIndex, vars, ring, sender, rxisr, rxtask, Request
<1>4. Locks'
  BY RpmsgAssumption DEF Kick, TypeOK, Locks, vars, ring, sender, rxisr, rxtask, Request
<1>5. QED
  BY <1>1, <1>2, <1>3, <1>4

\* The handler starts.
LEMMA IsrEnterStep ==
    ASSUME IInv, IsrEnter
    PROVE  IInv'
<1> USE DEF IInv
<1>1. TypeOK'
  BY RpmsgAssumption DEF IsrEnter, TypeOK, vars, ring, sender, rxisr, rxtask, Request
<1>2. Hands'
  BY RpmsgAssumption DEF IsrEnter, TypeOK, Hands, vars, ring, sender, rxisr, rxtask, Request
<1>3. HeaderIndex'
  BY RpmsgAssumption DEF IsrEnter, TypeOK, Hands, HeaderIndex, vars, ring, sender, rxisr, rxtask, Request
<1>4. Locks'
  BY RpmsgAssumption DEF IsrEnter, TypeOK, Locks, vars, ring, sender, rxisr, rxtask, Request
<1>5. QED
  BY <1>1, <1>2, <1>3, <1>4

\* The handler takes a message.
LEMMA IsrRxStep ==
    ASSUME IInv, IsrRx
    PROVE  IInv'
<1> USE DEF IInv
<1>1. TypeOK'
  BY RpmsgAssumption DEF IsrRx, TypeOK, vars, ring, sender, rxisr, rxtask, Request
<1>2. Hands'
  BY RpmsgAssumption DEF IsrRx, TypeOK, Hands, vars, ring, sender, rxisr, rxtask, Request
<1>3. HeaderIndex'
  BY RpmsgAssumption DEF IsrRx, TypeOK, Hands, HeaderIndex, vars, ring, sender, rxisr, rxtask, Request
<1>4. Locks'
  BY RpmsgAssumption DEF IsrRx, TypeOK, Locks, vars, ring, sender, rxisr, rxtask, Request
<1>5. QED
  BY <1>1, <1>2, <1>3, <1>4

\* The handler finds the ring empty.
LEMMA IsrEmptyStep ==
    ASSUME IInv, IsrEmpty
    PROVE  IInv'
<1> USE DEF IInv
<1>1. TypeOK'
  BY RpmsgAssumption DEF IsrEmpty, TypeOK, vars, ring, sender, rxisr, rxtask, Request
<1>2. Hands'
  BY RpmsgAssumption DEF IsrEmpty, TypeOK, Hands, vars, ring, sender, rxisr, rxtask, Request
<1>3. HeaderIndex'
  BY RpmsgAssumption DEF IsrEmpty, TypeOK, Hands, HeaderIndex, vars, ring, sender, rxisr, rxtask, Request
<1>4. Locks'
  BY RpmsgAssumption DEF IsrEmpty, TypeOK, Locks, vars, ring, sender, rxisr, rxtask, Request
<1>5. QED
  BY <1>1, <1>2, <1>3, <1>4

\* The handler returns.
LEMMA IsrExitStep ==
    ASSUME IInv, IsrExit
    PROVE  IInv'
<1> USE DEF IInv
<1>1. TypeOK'
  BY RpmsgAssumption DEF IsrExit, TypeOK, vars, ring, sender, rxisr, rxtask, Request
<1>2. Hands'
  BY RpmsgAssumption DEF IsrExit, TypeOK, Hands, vars, ring, sender, rxisr, rxtask, Request
<1>3. HeaderIndex'
  BY RpmsgAssumption DEF IsrExit, TypeOK, Hands, HeaderIndex, vars, ring, sender, rxisr, rxtask, Request
<1>4. Locks'
  BY RpmsgAssumption DEF IsrExit, TypeOK, Locks, vars, ring, sender, rxisr, rxtask, Request
<1>5. QED
  BY <1>1, <1>2, <1>3, <1>4

\* A message is queued.
LEMMA IsrHoldStep ==
    ASSUME IInv, IsrHold
    PROVE  IInv'
<1> USE DEF IInv
<1> DEFINE m == buf[isrDesc]
<1>1. m \in Message /\ isrDesc \in Desc
  BY DEF IsrHold, Hands
<1>2. rseq' \in [Senders -> [Addr -> 0 .. SeqMod - 1]]
  <2>1. m.src \in Senders /\ m.dst \in Addr
    BY <1>1 DEF Message
  <2>2. rseq[m.src][m.dst] \in 0 .. SeqMod - 1
    BY <2>1 DEF TypeOK
  <2>3. (rseq[m.src][m.dst] + 1) % SeqMod \in 0 .. SeqMod - 1
    BY <2>2, SeqInRange
  <2>4. rseq' = [rseq EXCEPT ![m.src][m.dst] = (rseq[m.src][m.dst] + 1) % SeqMod]
    BY DEF IsrHold, Deliver
  <2>5. QED
    BY <2>1, <2>3, <2>4 DEF TypeOK
<1>3. m.dst \in QueueAddr /\ [data |-> isrDesc, msg |-> m] \in Held
  BY <1>1 DEF IsrHold, QueueTakes, Held
<1>4. queue' \in [QueueAddr -> Seq(Held)]
  BY <1>3 DEF IsrHold, TypeOK
<1>5. reservedIdx' \in [Desc -> Desc]
  BY <1>1 DEF IsrHold, TypeOK
<1>6. TypeOK'
  BY <1>2, <1>4, <1>5 DEF IsrHold, TypeOK, ring, sender, rxtask
<1>7. Hands'
  BY DEF IsrHold, TypeOK, Hands, sender, rxtask
<1>8. HeaderIndex'
  BY RpmsgAssumption DEF IsrHold, TypeOK, Hands, HeaderIndex, sender, rxtask
<1>9. Locks'
  BY DEF IsrHold, Locks, sender, rxtask
<1>10. QED
  BY <1>6, <1>7, <1>8, <1>9

\* The handler gives a buffer back.
LEMMA IsrReleaseStep ==
    ASSUME IInv, IsrRelease
    PROVE  IInv'
<1> USE DEF IInv
<1> DEFINE m == buf[isrDesc]
<1>1. m \in Message /\ isrDesc \in Desc
  BY DEF IsrRelease, Hands
<1>2. rseq' \in [Senders -> [Addr -> 0 .. SeqMod - 1]]
  <2>1. m.src \in Senders /\ m.dst \in Addr
    BY <1>1 DEF Message
  <2>2. rseq[m.src][m.dst] \in 0 .. SeqMod - 1
    BY <2>1 DEF TypeOK
  <2>3. (rseq[m.src][m.dst] + 1) % SeqMod \in 0 .. SeqMod - 1
    BY <2>2, SeqInRange
  <2>4. rseq' = [rseq EXCEPT ![m.src][m.dst] = (rseq[m.src][m.dst] + 1) % SeqMod]
    BY DEF IsrRelease, Deliver
  <2>5. QED
    BY <2>1, <2>3, <2>4 DEF TypeOK
<1>3. Slot(backIdx) \in Desc /\ Inc(backIdx) \in 0 .. IdxMod - 1
  BY SlotInRange, IncInRange DEF TypeOK
<1>4. backRing' \in [Desc -> Desc]
  BY <1>1, <1>3 DEF IsrRelease, TypeOK
<1>5. TypeOK'
  BY <1>2, <1>3, <1>4 DEF IsrRelease, TypeOK, sender, rxtask
<1>6. Hands'
  BY DEF IsrRelease, TypeOK, Hands, sender, rxtask
<1>7. HeaderIndex' /\ Locks'
  BY DEF IsrRelease, HeaderIndex, Locks, sender, rxtask
<1>8. QED
  BY <1>5, <1>6, <1>7

\* A task takes a message from its queue.
LEMMA QueueRecvStep ==
    ASSUME IInv, NEW r \in Receivers, NEW a \in QueueAddr, QueueRecv(r, a)
    PROVE  IInv'
<1> USE DEF IInv
<1>1. TypeOK'
  BY RpmsgAssumption DEF QueueRecv, TypeOK, vars, ring, sender, rxisr, rxtask, Request
<1>2. Hands'
  BY RpmsgAssumption DEF QueueRecv, TypeOK, Hands, vars, ring, sender, rxisr, rxtask, Request
<1>3. HeaderIndex'
  BY RpmsgAssumption DEF QueueRecv, TypeOK, Hands, HeaderIndex, vars, ring, sender, rxisr, rxtask, Request
<1>4. Locks'
  BY RpmsgAssumption DEF QueueRecv, TypeOK, Locks, vars, ring, sender, rxisr, rxtask, Request
<1>5. QED
  BY <1>1, <1>2, <1>3, <1>4

\* A task writes the slot of the buffer it gives back.
LEMMA ReleaseStep ==
    ASSUME IInv, NEW r \in Receivers, Release(r)
    PROVE  IInv'
<1> USE DEF IInv
<1>1. rmsg[r] \in Held
  BY DEF Release, Hands
<1>2. rmsg[r].data \in Desc
  BY <1>1 DEF Held
<1>3. Slot(backIdx) \in Desc /\ reservedIdx[rmsg[r].data] \in Desc
  BY <1>2, SlotInRange DEF TypeOK
<1>4. backRing' \in [Desc -> Desc]
  BY <1>3 DEF Release, TypeOK
<1>5. TypeOK'
  BY <1>4 DEF Release, TypeOK, sender, rxisr
<1>6. Hands'
  BY DEF Release, TypeOK, Hands, sender, rxisr
<1>7. HeaderIndex'
  BY DEF Release, TypeOK, HeaderIndex, sender
<1>8. Locks'
  BY RpmsgAssumption DEF Release, TypeOK, Locks, sender
<1>9. QED
  BY <1>5, <1>6, <1>7, <1>8

\* A task publishes the buffer it gives back.
LEMMA ReleasePublishStep ==
    ASSUME IInv, NEW r \in Receivers, ReleasePublish(r)
    PROVE  IInv'
<1> USE DEF IInv
<1>1. Inc(backIdx) \in 0 .. IdxMod - 1
  BY IncInRange DEF TypeOK
<1>2. TypeOK'
  BY <1>1 DEF ReleasePublish, TypeOK, sender, rxisr
<1>3. Hands'
  BY DEF ReleasePublish, TypeOK, Hands, sender, rxisr
<1>4. HeaderIndex'
  BY DEF ReleasePublish, TypeOK, HeaderIndex, sender
<1>5. Locks'
  BY RpmsgAssumption DEF ReleasePublish, TypeOK, Locks, sender
<1>6. QED
  BY <1>2, <1>3, <1>4, <1>5

-----------------------------------------------------------------------------
\* The invariant holds in every reachable state.
LEMMA Inductive == Spec => []IInv
<1>1. IInv /\ [Next]_vars => IInv'
  <2> SUFFICES ASSUME IInv, [Next]_vars PROVE IInv'
    OBVIOUS
  <2>1. ASSUME NEW s \in Senders, NEW a \in Addr, NEW t \in Timeouts,
               NEW n \in BOOLEAN, Send(s, a, t, n)
        PROVE  IInv'
    BY <2>1, SendStep
  <2>2. ASSUME NEW s \in Senders, SenderStep(s)
        PROVE  IInv'
    BY <2>2, AllocStep, PollStep, FillStep, TxStep, KickStep DEF SenderStep
  <2>3. CASE IsrStep
    BY <2>3, IsrEnterStep, IsrRxStep, IsrEmptyStep, IsrExitStep, IsrHoldStep,
       IsrReleaseStep DEF IsrStep
  <2>4. ASSUME NEW r \in Receivers, ReceiverStep(r)
        PROVE  IInv'
    BY <2>4, QueueRecvStep, ReleaseStep, ReleasePublishStep DEF ReceiverStep
  <2>5. CASE UNCHANGED vars
    BY <2>5 DEF vars, ring, sender, rxisr, rxtask, IInv, TypeOK, Hands,
       HeaderIndex, Locks
  <2>6. QED
    BY <2>1, <2>2, <2>3, <2>4, <2>5 DEF Next
<1>2. QED
  BY InitIInv, <1>1, PTL DEF Spec

\* Every variable of the message path stays in its range; in particular no
\* handler reads a header that nobody has written.
THEOREM TypeCorrect == Spec => []TypeOK
BY Inductive, PTL DEF IInv

\* The index taken from a header is the one of the buffer the header is in, on
\* the zero-copy send path and on the release path.
THEOREM HeaderIndexCorrect == Spec => []HeaderIndex
BY Inductive, PTL DEF IInv

\* While a message is published somebody is on the way to it: the request is
\* pending, the handler is still going to look, or the kick is still to come.
THEOREM NeverUnnoticed == Spec => []NoLostWakeup
<1>1. Init => NoLostWakeup
  BY DEF Init, NoLostWakeup
<1>2. IInv /\ NoLostWakeup /\ [Next]_vars => NoLostWakeup'
  <2> SUFFICES ASSUME IInv, NoLostWakeup, [Next]_vars PROVE NoLostWakeup'
    OBVIOUS
  <2>0. spc \in [Senders -> {"idle", "alloc", "wait", "fill", "tx", "kick"}]
    BY DEF IInv, TypeOK
  <2> USE DEF NoLostWakeup
  <2>1. ASSUME NEW s \in Senders, NEW a \in Addr, NEW t \in Timeouts,
               NEW n \in BOOLEAN, Send(s, a, t, n)
        PROVE  NoLostWakeup'
    BY <2>0, <2>1 DEF Send, rxisr
  <2>2. ASSUME NEW s \in Senders, TakeBuffer(s), spc[s] # "kick"
        PROVE  NoLostWakeup'
    BY <2>0, <2>2 DEF TakeBuffer, rxisr
  <2>3. ASSUME NEW s \in Senders, GiveUp(s), spc[s] # "kick"
        PROVE  NoLostWakeup'
    BY <2>0, <2>3 DEF GiveUp, rxisr
  <2>4. ASSUME NEW s \in Senders, Alloc(s)
        PROVE  NoLostWakeup'
    BY <2>0, <2>2, <2>3, <2>4 DEF Alloc, rxisr
  <2>5. ASSUME NEW s \in Senders, Poll(s)
        PROVE  NoLostWakeup'
    BY <2>0, <2>2, <2>3, <2>5 DEF Poll, rxisr
  <2>6. ASSUME NEW s \in Senders, Fill(s)
        PROVE  NoLostWakeup'
    BY <2>0, <2>6 DEF Fill, rxisr
  <2>7. ASSUME NEW s \in Senders, Tx(s)
        PROVE  NoLostWakeup'
    BY <2>0, <2>7 DEF Tx
  <2>8. ASSUME NEW s \in Senders, Kick(s)
        PROVE  NoLostWakeup'
    BY <2>8 DEF Kick
  <2>9. CASE IsrStep
    BY <2>9 DEF IsrStep, IsrEnter, IsrRx, IsrEmpty, IsrExit, IsrHold, IsrRelease,
       sender
  <2>10. ASSUME NEW r \in Receivers, ReceiverStep(r)
         PROVE  NoLostWakeup'
    BY <2>10 DEF ReceiverStep, QueueRecv, Release, ReleasePublish, sender, rxisr
  <2>11. CASE UNCHANGED vars
    BY <2>11 DEF vars, sender, rxisr
  <2>12. QED
    BY <2>1, <2>4, <2>5, <2>6, <2>7, <2>8, <2>9, <2>10, <2>11 DEF Next, SenderStep
<1>3. QED
  BY Inductive, <1>1, <1>2, PTL DEF Spec

-----------------------------------------------------------------------------
(***************************************************************************)
(* Where the buffers are.  The back ring has no owner of its own when the  *)
(* handler and the tasks of the receiving core both give buffers back (the *)
(* lock does not keep the handler out), so what follows is about a core    *)
(* with one of the two: no reading tasks, or only queue endpoints.         *)
(***************************************************************************)
OneWriter == Receivers = {} \/ CallAddr \cup OtherAddr = {}

\* The arithmetic of the back ring is that of the rings of Virtqueue.
V == INSTANCE Virtqueue_proofs WITH
        masterSends <- TRUE,
        availRing <- backRing, availIdx <- backIdx, vq_available_idx <- backCons,
        usedRing <- backRing, usedIdx <- backIdx, vq_used_cons_idx <- backCons,
        vq_desc_head_idx <- N, mHeld <- {}, mPut <- {}, rHeld <- {}, rPut <- {},
        mGet <- FALSE, rGet <- FALSE

\* The descriptors in each place.
SenderHas == {d \in Desc : \E s \in Senders : sbuf[s] = d}
FwdHas    == {d \in Desc : \E i \in DOMAIN fwd : fwd[i] = d}
IsrHas    == {d \in Desc : isrDesc = d}
QueueHas  == {d \in Desc : \E a \in QueueAddr : \E i \in DOMAIN queue[a] :
                              queue[a][i].data = d}
ReaderHas == {d \in Desc : \E r \in Receivers : rpc[r] # "idle" /\ rmsg[r].data = d}
BackHas   == V!Flight(backRing, backCons, backIdx)

Owner == {"sender", "fwd", "isr", "queue", "reader", "back"}
Hold == [p \in Owner |-> CASE p = "sender" -> SenderHas
                           [] p = "fwd"    -> FwdHas
                           [] p = "isr"    -> IsrHas
                           [] p = "queue"  -> QueueHas
                           [] p = "reader" -> ReaderHas
                           [] p = "back"   -> BackHas]

\* Each descriptor has one kind of place ...
Partition(H) == \A d \in Desc : \E p \in Owner : \A q \in Owner : d \in H[q] <=> q = p

\* ... and one place of that kind.
SendersApart == \A s, t \in Senders : sbuf[s] \in Desc /\ sbuf[s] = sbuf[t] => s = t
FwdApart     == \A i, j \in DOMAIN fwd : fwd[i] = fwd[j] => i = j
QueuesApart  ==
    \A a, b \in QueueAddr : \A i \in DOMAIN queue[a], j \in DOMAIN queue[b] :
        queue[a][i].data = queue[b][j].data => a = b /\ i = j
ReadersApart ==
    \A r, q \in Receivers :
        rpc[r] # "idle" /\ rpc[q] # "idle" /\ rmsg[r].data = rmsg[q].data => r = q
BackApart    == V!Injective(backRing, backCons, backIdx)

\* A context has a buffer in hand at the steps where the code does, and no other.
InHand ==
    /\ \A s \in Senders : sbuf[s] # None <=> spc[s] \in {"fill", "tx"}
    /\ isrDesc # None <=> isr = "dispatch"
    /\ \A r \in Receivers : rmsg[r] # None <=> rpc[r] # "idle"

\* The slot a task has written waits for its index.
SlotWritten == \A r \in Receivers : rpc[r] = "publish" => backRing[Slot(backIdx)] = rmsg[r].data

Apart == SendersApart /\ FwdApart /\ QueuesApart /\ ReadersApart /\ BackApart
BInv == Partition(Hold) /\ Apart /\ InHand /\ SlotWritten

-----------------------------------------------------------------------------
\* A descriptor that moves from one kind of place to another leaves the others
\* where they are.
LEMMA Moved ==
    ASSUME NEW H, NEW G, Partition(H), NEW d \in Desc,
           NEW from \in Owner, NEW to \in Owner, from # to, d \in H[from],
           G[from] = H[from] \ {d}, G[to] = H[to] \cup {d},
           \A p \in Owner \ {from, to} : G[p] = H[p]
    PROVE  Partition(G)
<1> SUFFICES ASSUME NEW e \in Desc
             PROVE \E p \in Owner : \A q \in Owner : e \in G[q] <=> q = p
    BY DEF Partition
<1>1. PICK p \in Owner : \A q \in Owner : e \in H[q] <=> q = p
    BY DEF Partition
<1>2. CASE e = d
    <2>1. p = from
        BY <1>1, <1>2
    <2>2. \A q \in Owner : e \in G[q] <=> q = to
        BY <1>1, <1>2, <2>1
    <2> QED BY <2>2
<1>3. CASE e # d
    <2>1. \A q \in Owner : e \in G[q] <=> e \in H[q]
        BY <1>3
    <2> QED BY <1>1, <2>1
<1> QED BY <1>2, <1>3

LEMMA HoldIs ==
    /\ Hold["sender"] = SenderHas /\ Hold["fwd"] = FwdHas /\ Hold["isr"] = IsrHas
    /\ Hold["queue"] = QueueHas /\ Hold["reader"] = ReaderHas /\ Hold["back"] = BackHas
BY DEF Hold, Owner

\* The back ring's arithmetic, in the words of this module.
LEMMA RingIs ==
    /\ V!Idx = 0 .. IdxMod - 1 /\ V!Desc = Desc
    /\ \A i : V!Slot(i) = Slot(i) /\ V!Inc(i) = Inc(i)
BY DEF V!Idx, V!Desc, Desc, V!Slot, Slot, V!Inc, Inc

LEMMA RingType ==
    ASSUME TypeOK
    PROVE  /\ backRing \in [V!Desc -> V!Desc]
           /\ backIdx \in V!Idx /\ backCons \in V!Idx
BY RingIs DEF TypeOK

\* With a descriptor outside it the back ring has room.
LEMMA BackRoom ==
    ASSUME TypeOK, BackApart, NEW d \in Desc, d \notin BackHas
    PROVE  V!Dist(backCons, backIdx) < N
<1>1. N \in Nat /\ N >= 1 /\ IdxMod \in Nat /\ IdxMod >= 2 * N
    BY RpmsgAssumption
<1>2. backIdx \in V!Idx /\ backCons \in V!Idx /\ backRing \in [V!Desc -> V!Desc]
    BY RingType
<1>3. PICK n \in V!Idx : n = V!Dist(backCons, backIdx)
    BY <1>2, V!DistIs, RpmsgAssumption
<1> DEFINE At(k) == IF backCons + k < IdxMod THEN backCons + k ELSE backCons + k - IdxMod
           f == [k \in 0 .. n - 1 |-> backRing[Slot(At(k))]]
<1>4. \A k \in 0 .. n - 1 : At(k) \in V!Pending(backCons, backIdx)
    <2> SUFFICES ASSUME NEW k \in 0 .. n - 1 PROVE At(k) \in V!Pending(backCons, backIdx)
        OBVIOUS
    <2>0. At(k) \in V!Idx
        <3> HIDE DEF f
        <3>1. k \in Int /\ 0 =< k /\ k < n /\ n \in Int /\ n < IdxMod
            BY <1>1, <1>3 DEF V!Idx
        <3>2. backCons \in Int /\ 0 =< backCons /\ backCons < IdxMod
            BY <1>1, <1>2 DEF V!Idx
        <3>3. At(k) \in Int /\ 0 =< At(k) /\ At(k) < IdxMod
            BY <1>1, <3>1, <3>2
        <3> QED BY <1>1, <3>3 DEF V!Idx
    <2>1. PICK i \in V!Idx : i = At(k)
        BY <2>0
    <2>2. V!Dist(backCons, i) = k
        <3>1. V!Dist(backCons, i) = (IF i >= backCons THEN i - backCons ELSE i - backCons + IdxMod)
            BY <1>2, V!DistIs, RpmsgAssumption
        <3> QED BY <1>1, <1>2, <1>3, <2>1, <3>1 DEF V!Idx
    <2>3. k < n
        BY <1>1, <1>3 DEF V!Idx
    <2>4. i \in V!Pending(backCons, backIdx)
        BY <1>3, <2>2, <2>3 DEF V!Pending
    <2> QED BY <2>1, <2>4
<1>5. \A k, m \in 0 .. n - 1 : At(k) = At(m) => k = m
    BY <1>1, <1>2, <1>3 DEF V!Idx
<1>6. f \in Injection(0 .. n - 1, Desc \ {d})
    <2>1. \A k \in 0 .. n - 1 : backRing[Slot(At(k))] \in Desc \ {d}
        <3> SUFFICES ASSUME NEW k \in 0 .. n - 1 PROVE backRing[Slot(At(k))] \in Desc \ {d}
            OBVIOUS
        <3>1. backRing[Slot(At(k))] \in BackHas
            BY <1>4, RingIs DEF BackHas, V!Flight
        <3>2. BackHas \subseteq Desc
            BY <1>2, V!FlightType, RpmsgAssumption, RingIs DEF BackHas
        <3> QED BY <3>1, <3>2
    <2>2. \A k, m \in 0 .. n - 1 : f[k] = f[m] => k = m
        <3> SUFFICES ASSUME NEW k \in 0 .. n - 1, NEW m \in 0 .. n - 1, f[k] = f[m] PROVE k = m
            OBVIOUS
        <3>1. backRing[Slot(At(k))] = backRing[Slot(At(m))]
            OBVIOUS
        <3>2. At(k) = At(m)
            BY <1>4, <3>1, RingIs DEF BackApart, V!Injective
        <3> QED BY <1>5, <3>2
    <2>3. f \in [0 .. n - 1 -> Desc \ {d}]
        BY <2>1
    <2> QED BY <2>2, <2>3 DEF Injection, IsInjective
<1>7. /\ IsFiniteSet(Desc \ {d}) /\ Cardinality(Desc \ {d}) = N - 1
      /\ Cardinality(0 .. n - 1) = n
    <2>1. IsFiniteSet(Desc) /\ Cardinality(Desc) = N
        BY <1>1, FS_Interval DEF Desc
    <2>2. Cardinality(0 .. n - 1) = n
        BY <1>1, <1>3, FS_Interval DEF V!Idx
    <2>3. Cardinality(Desc \ {d}) = (IF d \in Desc THEN Cardinality(Desc) - 1
                                                ELSE Cardinality(Desc))
        BY <2>1, FS_RemoveElement, Zenon
    <2>4. IsFiniteSet(Desc \ {d})
        BY <2>1, FS_Difference, Zenon
    <2>5. Cardinality(Desc \ {d}) = N - 1
        BY <2>1, <2>3, Zenon
    <2> QED BY <2>2, <2>4, <2>5, Zenon
<1>8. n =< N - 1
    <2>1. Cardinality(0 .. n - 1) =< Cardinality(Desc \ {d})
        BY <1>6, <1>7, FS_Injection
    <2> QED BY <1>7, <2>1, Zenon
<1> QED BY <1>1, <1>3, <1>8 DEF V!Idx

\* With a descriptor outside it a queue has room: its messages hold buffers.
LEMMA QueueRoom ==
    ASSUME TypeOK, QueuesApart, NEW d \in Desc, d \notin QueueHas, NEW a \in QueueAddr
    PROVE  Len(queue[a]) < N
<1>1. N \in Nat /\ N >= 1
    BY RpmsgAssumption
<1>2. queue[a] \in Seq(Held)
    BY DEF TypeOK
<1>3. PICK n \in Nat : n = Len(queue[a]) /\ DOMAIN queue[a] = 1 .. n
    BY <1>2
<1> DEFINE f == [i \in 1 .. n |-> queue[a][i].data]
<1>4. f \in Injection(1 .. n, Desc \ {d})
    <2>1. \A i \in 1 .. n : queue[a][i] \in Held
        BY <1>2, <1>3
    <2>2. \A i \in 1 .. n : queue[a][i].data \in Desc
        BY <2>1 DEF Held
    <2>3. \A i \in 1 .. n : queue[a][i].data # d
        BY <1>3 DEF QueueHas
    <2>4. \A i, j \in 1 .. n : f[i] = f[j] => i = j
        BY <1>3 DEF QueuesApart
    <2>5. f \in [1 .. n -> Desc \ {d}]
        BY <2>2, <2>3
    <2> QED BY <2>4, <2>5 DEF Injection, IsInjective
<1>5. /\ IsFiniteSet(Desc \ {d}) /\ Cardinality(Desc \ {d}) = N - 1
      /\ Cardinality(1 .. n) = n
    <2>1. IsFiniteSet(Desc) /\ Cardinality(Desc) = N
        BY <1>1, FS_Interval DEF Desc
    <2>2. Cardinality(1 .. n) = n
        BY FS_Interval
    <2>3. Cardinality(Desc \ {d}) = (IF d \in Desc THEN Cardinality(Desc) - 1
                                                ELSE Cardinality(Desc))
        BY <2>1, FS_RemoveElement, Zenon
    <2>4. IsFiniteSet(Desc \ {d})
        BY <2>1, FS_Difference, Zenon
    <2>5. Cardinality(Desc \ {d}) = N - 1
        BY <2>1, <2>3, Zenon
    <2> QED BY <2>2, <2>4, <2>5, Zenon
<1>6. n =< N - 1
    <2>1. Cardinality(1 .. n) =< Cardinality(Desc \ {d})
        BY <1>4, <1>5, FS_Injection
    <2> QED BY <1>5, <2>1, Zenon
<1> QED BY <1>1, <1>3, <1>6

\* The same for a step of the program.
LEMMA Move ==
    ASSUME Partition(Hold), NEW d \in Desc,
           NEW from \in Owner, NEW to \in Owner, from # to, d \in Hold[from],
           Hold'[from] = Hold[from] \ {d}, Hold'[to] = Hold[to] \cup {d},
           \A p \in Owner \ {from, to} : Hold'[p] = Hold[p]
    PROVE  Partition(Hold)'
<1>1. PICK H : H = Hold
    OBVIOUS
<1>2. PICK G : G = Hold'
    OBVIOUS
<1>3. Partition(H)
    BY <1>1
<1>4. Partition(G)
    BY <1>1, <1>2, <1>3, Moved, Zenon
<1> QED BY <1>2, <1>4 DEF Partition

\* A descriptor is in no second place.
LEMMA Elsewhere ==
    ASSUME Partition(Hold), NEW p \in Owner, NEW d \in Desc, d \in Hold[p]
    PROVE  \A q \in Owner : q # p => d \notin Hold[q]
BY DEF Partition

\* A step that leaves every place as it is.
LEMMA Frame ==
    ASSUME BInv, UNCHANGED <<sbuf, fwd, isrDesc, queue, rpc, rmsg,
                             backRing, backIdx, backCons>>
    PROVE  Partition(Hold)' /\ Apart' /\ SlotWritten'
<1>1. Hold' = Hold
    BY DEF Hold, SenderHas, FwdHas, IsrHas, QueueHas, ReaderHas, BackHas
<1>2. Partition(Hold)'
    BY <1>1 DEF Partition, BInv
<1>3. SlotWritten'
    BY DEF BInv, SlotWritten
<1>4. SendersApart' /\ FwdApart' /\ QueuesApart' /\ ReadersApart'
    BY DEF BInv, Apart, SendersApart, FwdApart, QueuesApart, ReadersApart
<1>5. BackApart'
    BY DEF BInv, Apart, BackApart, V!Injective
<1> QED BY <1>2, <1>3, <1>4, <1>5 DEF Apart

LEMMA BInit == Init => BInv
<1> SUFFICES ASSUME Init PROVE BInv
    OBVIOUS
<1>1. /\ N \in Nat /\ N >= 1 /\ IdxMod \in Nat /\ IdxMod >= 2 * N
      /\ None \notin Desc
    BY RpmsgAssumption
<1>2. /\ backRing = [s \in Desc |-> s] /\ backIdx = N /\ backCons = 0
      /\ backIdx \in V!Idx /\ backCons \in V!Idx
    <2>1. N % IdxMod = N /\ N \in 0 .. IdxMod - 1 /\ 0 \in 0 .. IdxMod - 1
        BY <1>1
    <2> QED BY <2>1 DEF Init, V!Idx
<1>3. \A i \in V!Idx : i \in V!Pending(backCons, backIdx) <=> i \in Desc
    <2> SUFFICES ASSUME NEW i \in V!Idx
                 PROVE  i \in V!Pending(backCons, backIdx) <=> i \in Desc
        OBVIOUS
    <2>1. /\ V!Dist(backCons, i) = i
          /\ V!Dist(backCons, backIdx) = N
        <3>1. /\ V!Dist(backCons, i) = (IF i >= backCons THEN i - backCons ELSE i - backCons + IdxMod)
              /\ V!Dist(backCons, backIdx) = (IF backIdx >= backCons THEN backIdx - backCons
                                                ELSE backIdx - backCons + IdxMod)
            BY <1>2, V!DistIs, RpmsgAssumption
        <3> QED BY <1>1, <1>2, <3>1 DEF V!Idx
    <2> QED BY <1>1, <2>1 DEF V!Pending, V!Idx, Desc
<1>4. V!Pending(backCons, backIdx) = Desc
    <2>1. Desc \subseteq V!Idx
        BY <1>1 DEF Desc, V!Idx
    <2> QED BY <1>3, <2>1 DEF V!Pending
<1>5. \A i \in Desc : Slot(i) = i /\ backRing[i] = i
    BY <1>1, <1>2 DEF Slot, Desc
<1>6. BackHas = Desc /\ BackApart
    BY <1>4, <1>5, RingIs DEF BackHas, BackApart, V!Flight, V!Injective
<1>7. /\ SenderHas = {} /\ FwdHas = {} /\ IsrHas = {} /\ QueueHas = {} /\ ReaderHas = {}
    BY <1>1 DEF Init, SenderHas, FwdHas, IsrHas, QueueHas, ReaderHas
<1>8. Partition(Hold)
    BY <1>6, <1>7, HoldIs DEF Partition, Owner
<1>9. SendersApart /\ FwdApart /\ QueuesApart /\ ReadersApart
    BY <1>1 DEF Init, SendersApart, FwdApart, QueuesApart, ReadersApart
<1>10. InHand /\ SlotWritten
    BY DEF Init, InHand, SlotWritten
<1> QED BY <1>6, <1>8, <1>9, <1>10 DEF BInv, Apart

-----------------------------------------------------------------------------
\* The steps that move no buffer.
LEMMA QuietSteps ==
    ASSUME IInv, BInv,
           \/ \E s \in Senders, a \in Addr, t \in Timeouts, n \in BOOLEAN : Send(s, a, t, n)
           \/ \E s \in Senders : spc[s] \in {"alloc", "wait"} /\ GiveUp(s)
           \/ \E s \in Senders : Fill(s) \/ Kick(s)
           \/ IsrEnter \/ IsrEmpty \/ IsrExit
    PROVE  BInv'
<1>1. UNCHANGED <<sbuf, fwd, isrDesc, queue, rpc, rmsg, backRing, backIdx, backCons>>
    BY DEF Send, GiveUp, Fill, Kick, IsrEnter, IsrEmpty, IsrExit, ring, sender, rxisr, rxtask
<1>2. InHand'
    <2> USE DEF InHand, BInv, IInv, TypeOK
    <2>1. ASSUME NEW s \in Senders, NEW a \in Addr, NEW t \in Timeouts,
                 NEW n \in BOOLEAN, Send(s, a, t, n)
          PROVE  InHand'
        BY <2>1 DEF Send, rxisr, rxtask
    <2>2. ASSUME NEW s \in Senders, spc[s] \in {"alloc", "wait"}, GiveUp(s)
          PROVE  InHand'
        BY <2>2 DEF GiveUp, rxisr, rxtask
    <2>3. ASSUME NEW s \in Senders, Fill(s) \/ Kick(s)
          PROVE  InHand'
        BY <2>3 DEF Fill, Kick, rxisr, rxtask
    <2>4. CASE IsrEnter \/ IsrEmpty \/ IsrExit
        BY <2>4 DEF IsrEnter, IsrEmpty, IsrExit, sender, rxtask
    <2> QED BY <2>1, <2>2, <2>3, <2>4
<1> QED BY <1>1, <1>2, Frame DEF BInv

\* A free buffer comes off the back ring.
LEMMA TakeBufferMoves ==
    ASSUME IInv, BInv, NEW s \in Senders, spc[s] \in {"alloc", "wait"}, TakeBuffer(s)
    PROVE  BInv'
<1> DEFINE d == backRing[Slot(backCons)]
<1> USE DEF BInv, IInv
<1>1. /\ backRing \in [V!Desc -> V!Desc] /\ backIdx \in V!Idx /\ backCons \in V!Idx
      /\ backCons # backIdx /\ BackApart
    BY RingType DEF TakeBuffer, BackEmpty, Apart
<1>2. /\ d \in Desc /\ d \in BackHas
      /\ V!Flight(backRing, Inc(backCons), backIdx) = BackHas \ {d}
      /\ V!Injective(backRing, Inc(backCons), backIdx)
    BY <1>1, V!FlightTake, RpmsgAssumption, RingIs DEF BackHas, BackApart
<1>3. /\ backCons' = Inc(backCons) /\ sbuf' = [sbuf EXCEPT ![s] = d]
      /\ spc' = [spc EXCEPT ![s] = "fill"]
      /\ UNCHANGED <<fwd, isr, isrDesc, queue, rpc, rmsg, backRing, backIdx>>
    BY DEF TakeBuffer, rxisr, rxtask
<1>4. BackHas' = BackHas \ {d} /\ BackApart'
    BY <1>2, <1>3 DEF BackHas, BackApart, V!Flight, V!Injective
<1>5. sbuf[s] = None /\ sbuf \in [Senders -> Desc \cup {None}] /\ None \notin Desc
    BY RpmsgAssumption DEF InHand, TypeOK
<1>6. SenderHas' = SenderHas \cup {d}
    BY <1>2, <1>3, <1>5 DEF SenderHas
<1>7. /\ FwdHas' = FwdHas /\ IsrHas' = IsrHas /\ QueueHas' = QueueHas
      /\ ReaderHas' = ReaderHas
    BY <1>3 DEF FwdHas, IsrHas, QueueHas, ReaderHas
<1>8. Partition(Hold)'
    <2>1. \A p \in Owner \ {"back", "sender"} : Hold'[p] = Hold[p]
        BY <1>7 DEF Hold, Owner
    <2>2. Hold'["back"] = Hold["back"] \ {d} /\ Hold'["sender"] = Hold["sender"] \cup {d}
        BY <1>4, <1>6 DEF Hold, Owner
    <2>3. d \in Hold["back"]
        BY <1>2, HoldIs
    <2>4. "back" \in Owner /\ "sender" \in Owner
        BY DEF Owner
    <2> QED BY <1>2, <2>1, <2>2, <2>3, <2>4, Move
<1>9. d \notin SenderHas
    <2>1. d \in Hold["back"] /\ "back" \in Owner /\ "sender" \in Owner
        BY <1>2, HoldIs DEF Owner
    <2> QED BY <1>2, <2>1, Elsewhere, HoldIs
<1>10. SendersApart'
    BY <1>2, <1>3, <1>5, <1>9 DEF SendersApart, SenderHas, Apart
<1>11. FwdApart' /\ QueuesApart' /\ ReadersApart' /\ SlotWritten'
    BY <1>3 DEF FwdApart, QueuesApart, ReadersApart, Apart, SlotWritten
<1>12. InHand'
    BY <1>2, <1>3, <1>5 DEF InHand, TypeOK
<1> QED BY <1>4, <1>8, <1>10, <1>11, <1>12 DEF Apart

\* The attempts to get a buffer.
LEMMA AllocMoves ==
    ASSUME IInv, BInv, NEW s \in Senders, Alloc(s) \/ Poll(s)
    PROVE  BInv'
<1>1. spc[s] \in {"alloc", "wait"}
    BY DEF Alloc, Poll
<1>2. CASE TakeBuffer(s)
    BY <1>1, <1>2, TakeBufferMoves
<1>3. CASE GiveUp(s)
    BY <1>1, <1>3, QuietSteps
<1>4. CASE /\ spc' = [spc EXCEPT ![s] = "wait"] /\ spc[s] = "alloc"
           /\ UNCHANGED <<fwd, ring, buf, reservedIdx, gir, txLock, sbuf, sreq,
                          stick, sseq, rxisr, queue, rxtask>>
    <2>1. InHand'
        BY <1>4 DEF BInv, IInv, InHand, TypeOK, rxisr, rxtask
    <2> QED BY <1>4, <2>1, Frame DEF BInv, ring, rxisr, rxtask
<1>5. CASE /\ stick' = [stick EXCEPT ![s] = Tick(s)]
           /\ UNCHANGED <<fwd, ring, buf, reservedIdx, gir, txLock, spc, sbuf,
                          sreq, sseq, rxisr, queue, rxtask>>
    <2>1. InHand'
        BY <1>5 DEF BInv, InHand, rxisr, rxtask
    <2> QED BY <1>5, <2>1, Frame DEF BInv, ring, rxisr, rxtask
<1> QED BY <1>2, <1>3, <1>4, <1>5 DEF Alloc, Poll

\* A filled buffer goes onto the forward ring.
LEMMA TxMoves ==
    ASSUME IInv, BInv, NEW s \in Senders, Tx(s)
    PROVE  BInv'
<1> DEFINE d == sbuf[s]
<1> USE DEF BInv, IInv
<1>1. /\ d \in Desc /\ fwd \in Seq(Desc)
      /\ sbuf \in [Senders -> Desc \cup {None}] /\ None \notin Desc
    BY RpmsgAssumption DEF Tx, Hands, TypeOK
<1>2. /\ fwd' = Append(fwd, d) /\ sbuf' = [sbuf EXCEPT ![s] = None]
      /\ spc' = [spc EXCEPT ![s] = "kick"]
      /\ UNCHANGED <<isr, isrDesc, queue, rpc, rmsg, backRing, backIdx, backCons>>
    BY DEF Tx, ring, rxisr, rxtask, HeaderIndex
<1>3. PICK n \in Nat : n = Len(fwd) /\ DOMAIN fwd = 1 .. n
    BY <1>1
<1>4. /\ DOMAIN fwd' = 1 .. n + 1 /\ fwd'[n + 1] = d
      /\ \A i \in 1 .. n : fwd'[i] = fwd[i]
    BY <1>1, <1>2, <1>3
<1>5. FwdHas' = FwdHas \cup {d}
    BY <1>1, <1>3, <1>4 DEF FwdHas
<1>6. SenderHas' = SenderHas \ {d}
    BY <1>1, <1>2 DEF SenderHas, SendersApart, Apart
<1>7. /\ BackHas' = BackHas /\ IsrHas' = IsrHas /\ QueueHas' = QueueHas
      /\ ReaderHas' = ReaderHas
    BY <1>2 DEF BackHas, IsrHas, QueueHas, ReaderHas
<1>8. "sender" \in Owner /\ "fwd" \in Owner /\ d \in Hold["sender"]
    BY <1>1, HoldIs DEF Owner, SenderHas
<1>9. Partition(Hold)'
    <2>1. \A p \in Owner \ {"sender", "fwd"} : Hold'[p] = Hold[p]
        BY <1>7 DEF Hold, Owner
    <2>2. Hold'["sender"] = Hold["sender"] \ {d} /\ Hold'["fwd"] = Hold["fwd"] \cup {d}
        BY <1>5, <1>6 DEF Hold, Owner
    <2> QED BY <1>1, <1>8, <2>1, <2>2, Move
<1>10. d \notin FwdHas
    BY <1>1, <1>8, Elsewhere, HoldIs
<1>11. FwdApart'
    BY <1>1, <1>3, <1>4, <1>10 DEF FwdApart, FwdHas, Apart
<1>12. SendersApart' /\ QueuesApart' /\ ReadersApart' /\ SlotWritten'
    BY <1>1, <1>2 DEF SendersApart, QueuesApart, ReadersApart, Apart, SlotWritten
<1>13. BackApart'
    BY <1>2 DEF BackApart, Apart, V!Injective
<1>14. InHand'
    BY <1>1, <1>2 DEF InHand, TypeOK
<1> QED BY <1>9, <1>11, <1>12, <1>13, <1>14 DEF Apart

\* The handler takes the first buffer of the forward ring.
LEMMA IsrRxMoves ==
    ASSUME IInv, BInv, IsrRx
    PROVE  BInv'
<1> USE DEF BInv, IInv
<1>1. fwd \in Seq(Desc) /\ fwd # << >> /\ None \notin Desc
    BY RpmsgAssumption DEF IsrRx, TypeOK
<1>2. /\ fwd' = Tail(fwd) /\ isrDesc' = Head(fwd) /\ isr = "drain" /\ isr' = "dispatch"
      /\ UNCHANGED <<spc, sbuf, queue, rpc, rmsg, backRing, backIdx, backCons>>
    BY DEF IsrRx, ring, sender, rxtask
<1>3. PICK n \in Nat : n + 1 = Len(fwd) /\ DOMAIN fwd = 1 .. n + 1
    BY <1>1
<1>4. /\ DOMAIN fwd' = 1 .. n /\ isrDesc' = fwd[1]
      /\ \A i \in 1 .. n : fwd'[i] = fwd[i + 1]
    BY <1>1, <1>2, <1>3
<1>5. PICK d \in Desc : d = fwd[1]
    BY <1>1, <1>3
<1>6. \A i \in 2 .. n + 1 : fwd[i] # d
    BY <1>3, <1>5 DEF FwdApart, Apart
<1>7. FwdHas' = FwdHas \ {d}
    <2>1. ASSUME NEW e \in Desc PROVE e \in FwdHas' <=> e \in FwdHas /\ e # d
        <3>1. ASSUME e \in FwdHas' PROVE e \in FwdHas /\ e # d
            <4>1. PICK i \in 1 .. n : fwd'[i] = e
                BY <1>4, <3>1 DEF FwdHas
            <4>2. fwd[i + 1] = e /\ i + 1 \in 2 .. n + 1 /\ i + 1 \in DOMAIN fwd
                BY <1>3, <1>4, <4>1
            <4> QED BY <1>6, <4>2 DEF FwdHas
        <3>2. ASSUME e \in FwdHas, e # d PROVE e \in FwdHas'
            <4>1. PICK i \in 1 .. n + 1 : fwd[i] = e
                BY <1>3, <3>2 DEF FwdHas
            <4>2. PICK j \in 1 .. n : i = j + 1
                BY <1>5, <3>2, <4>1
            <4>3. fwd'[j] = e
                BY <1>4, <4>1, <4>2
            <4> QED BY <1>4, <4>3 DEF FwdHas
        <3> QED BY <3>1, <3>2
    <2> QED BY <2>1 DEF FwdHas
<1>8. IsrHas = {} /\ IsrHas' = {d}
    BY <1>1, <1>2, <1>4, <1>5 DEF IsrHas, InHand
<1>9. /\ BackHas' = BackHas /\ SenderHas' = SenderHas /\ QueueHas' = QueueHas
      /\ ReaderHas' = ReaderHas
    BY <1>2 DEF BackHas, SenderHas, QueueHas, ReaderHas
<1>10. Partition(Hold)'
    <2>1. \A p \in Owner \ {"fwd", "isr"} : Hold'[p] = Hold[p]
        BY <1>9 DEF Hold, Owner
    <2>2. Hold'["fwd"] = Hold["fwd"] \ {d} /\ Hold'["isr"] = Hold["isr"] \cup {d}
        BY <1>7, <1>8 DEF Hold, Owner
    <2>3. "fwd" \in Owner /\ "isr" \in Owner /\ d \in Hold["fwd"]
        BY <1>3, <1>5, HoldIs DEF Owner, FwdHas
    <2> QED BY <2>1, <2>2, <2>3, Move
<1>11. FwdApart'
    <2> SUFFICES ASSUME NEW i \in 1 .. n, NEW j \in 1 .. n, fwd'[i] = fwd'[j] PROVE i = j
        BY <1>4 DEF FwdApart
    <2>1. fwd[i + 1] = fwd[j + 1] /\ i + 1 \in DOMAIN fwd /\ j + 1 \in DOMAIN fwd
        BY <1>3, <1>4
    <2>2. i + 1 = j + 1
        BY <2>1 DEF FwdApart, Apart
    <2> QED BY <2>2
<1>12. SendersApart' /\ QueuesApart' /\ ReadersApart' /\ SlotWritten'
    BY <1>2 DEF SendersApart, QueuesApart, ReadersApart, Apart, SlotWritten
<1>13. BackApart'
    BY <1>2 DEF BackApart, Apart, V!Injective
<1>14. InHand'
    BY <1>1, <1>2, <1>4, <1>5 DEF InHand
<1> QED BY <1>10, <1>11, <1>12, <1>13, <1>14 DEF Apart

\* A message is queued with its buffer.
LEMMA IsrHoldMoves ==
    ASSUME IInv, BInv, IsrHold
    PROVE  BInv'
<1> USE DEF BInv, IInv
<1>1. PICK d \in Desc : d = isrDesc
    BY DEF IsrHold, Hands
<1>2. PICK c \in QueueAddr : c = buf[isrDesc].dst
    BY DEF IsrHold, QueueTakes
<1>3. PICK h : h = [data |-> isrDesc, msg |-> buf[isrDesc]]
    OBVIOUS
<1>4. /\ queue' = [queue EXCEPT ![c] = Append(queue[c], h)]
      /\ isr' = "drain" /\ isrDesc' = None
      /\ UNCHANGED <<spc, sbuf, fwd, rpc, rmsg, backRing, backIdx, backCons>>
    BY <1>2, <1>3 DEF IsrHold, ring, sender, rxtask
<1>5. None \notin Desc /\ queue \in [QueueAddr -> Seq(Held)] /\ h.data = d
    BY <1>1, <1>3, RpmsgAssumption DEF TypeOK
<1>6. PICK n \in Nat : n = Len(queue[c]) /\ DOMAIN queue[c] = 1 .. n
    BY <1>5
<1>7. /\ \A a \in QueueAddr : a # c => queue'[a] = queue[a]
      /\ DOMAIN queue'[c] = 1 .. n + 1
      /\ queue'[c][n + 1] = h /\ \A i \in 1 .. n : queue'[c][i] = queue[c][i]
    BY <1>4, <1>5, <1>6
<1>8. QueueHas' = QueueHas \cup {d}
    <2>1. ASSUME NEW e \in Desc PROVE e \in QueueHas' <=> e \in QueueHas \/ e = d
        <3>1. ASSUME e \in QueueHas' PROVE e \in QueueHas \/ e = d
            <4>1. PICK a \in QueueAddr : \E i \in DOMAIN queue'[a] : queue'[a][i].data = e
                BY <3>1 DEF QueueHas
            <4>2. CASE a # c
                BY <1>7, <4>1, <4>2 DEF QueueHas
            <4>3. CASE a = c
                BY <1>5, <1>6, <1>7, <4>1, <4>3 DEF QueueHas
            <4> QED BY <4>2, <4>3
        <3>2. ASSUME e \in QueueHas PROVE e \in QueueHas'
            <4>1. PICK a \in QueueAddr : \E i \in DOMAIN queue[a] : queue[a][i].data = e
                BY <3>2 DEF QueueHas
            <4>2. CASE a # c
                BY <1>7, <4>1, <4>2 DEF QueueHas
            <4>3. CASE a = c
                BY <1>6, <1>7, <4>1, <4>3 DEF QueueHas
            <4> QED BY <4>2, <4>3
        <3>3. ASSUME e = d PROVE e \in QueueHas'
            <4>1. n + 1 \in DOMAIN queue'[c] /\ queue'[c][n + 1].data = d
                BY <1>5, <1>7
            <4> QED BY <3>3, <4>1 DEF QueueHas
        <3> QED BY <3>1, <3>2, <3>3
    <2> QED BY <2>1 DEF QueueHas
<1>9. IsrHas = {d} /\ IsrHas' = {}
    BY <1>1, <1>4, <1>5 DEF IsrHas
<1>10. /\ BackHas' = BackHas /\ SenderHas' = SenderHas /\ FwdHas' = FwdHas
       /\ ReaderHas' = ReaderHas
    BY <1>4 DEF BackHas, SenderHas, FwdHas, ReaderHas
<1>11. "queue" \in Owner /\ "isr" \in Owner /\ d \in Hold["isr"]
    BY <1>9, HoldIs DEF Owner
<1>12. Partition(Hold)'
    <2>1. \A p \in Owner \ {"queue", "isr"} : Hold'[p] = Hold[p]
        BY <1>10 DEF Hold, Owner
    <2>2. Hold'["isr"] = Hold["isr"] \ {d} /\ Hold'["queue"] = Hold["queue"] \cup {d}
        BY <1>8, <1>9 DEF Hold, Owner
    <2> QED BY <1>11, <2>1, <2>2, Move
<1>13. d \notin QueueHas
    BY <1>11, Elsewhere, HoldIs
<1>14. QueuesApart'
    <2> SUFFICES ASSUME NEW a \in QueueAddr, NEW b \in QueueAddr,
                        NEW i \in DOMAIN queue'[a], NEW j \in DOMAIN queue'[b],
                        queue'[a][i].data = queue'[b][j].data
                 PROVE  a = b /\ i = j
        BY DEF QueuesApart
    <2>1. ASSUME NEW x \in QueueAddr, NEW k \in DOMAIN queue'[x]
          PROVE  \/ k \in DOMAIN queue[x] /\ queue'[x][k] = queue[x][k]
                                          /\ queue[x][k].data # d
                 \/ x = c /\ k = n + 1 /\ queue'[x][k].data = d
        <3>1. CASE x # c
            BY <1>7, <1>13, <3>1 DEF QueueHas
        <3>2. CASE x = c
            <4>1. CASE k = n + 1
                BY <1>5, <1>7, <3>2, <4>1
            <4>2. CASE k # n + 1
                <5>1. k \in DOMAIN queue[c] /\ queue'[c][k] = queue[c][k]
                    BY <1>6, <1>7, <3>2, <4>2
                <5> QED BY <1>13, <3>2, <5>1 DEF QueueHas
            <4> QED BY <4>1, <4>2
        <3> QED BY <3>1, <3>2
    <2>3. CASE i \in DOMAIN queue[a] /\ queue'[a][i] = queue[a][i] /\ queue[a][i].data # d
        BY <2>1, <2>3 DEF QueuesApart, Apart
    <2>4. CASE a = c /\ i = n + 1 /\ queue'[a][i].data = d
        BY <2>1, <2>4
    <2> QED BY <2>1, <2>3, <2>4
<1>15. SendersApart' /\ FwdApart' /\ ReadersApart' /\ SlotWritten'
    BY <1>4 DEF SendersApart, FwdApart, ReadersApart, Apart, SlotWritten
<1>16. BackApart'
    BY <1>4 DEF BackApart, Apart, V!Injective
<1>17. InHand'
    BY <1>4 DEF InHand
<1> QED BY <1>12, <1>14, <1>15, <1>16, <1>17 DEF Apart

\* The handler gives a buffer back.  It does so only on a core without reading
\* tasks: with queue endpoints only, no queue is ever full.
LEMMA IsrReleaseMoves ==
    ASSUME OneWriter, IInv, BInv, IsrRelease
    PROVE  BInv'
<1> USE DEF BInv, IInv
<1>1. PICK d \in Desc : d = isrDesc
    BY DEF IsrRelease, Hands
<1>2. IsrHas = {d} /\ "isr" \in Owner /\ "back" \in Owner /\ "queue" \in Owner
    BY <1>1 DEF IsrHas, Owner
<1>3. d \in Hold["isr"] /\ d \notin BackHas /\ d \notin QueueHas
    BY <1>2, Elsewhere, HoldIs
<1>4. Receivers = {}
    <2>1. SUFFICES ASSUME CallAddr \cup OtherAddr = {} PROVE FALSE
        BY DEF OneWriter
    <2>2. buf[isrDesc].dst \in QueueAddr
        <3>1. buf[isrDesc] \in Message
            BY DEF IsrRelease, Hands
        <3> QED BY <2>1, <3>1 DEF Message, Addr
    <2>3. Len(queue[buf[isrDesc].dst]) < N
        BY <1>3, <2>2, QueueRoom DEF Apart
    <2> QED BY <2>2, <2>3 DEF IsrRelease, QueueTakes
<1>5. /\ backRing' = [backRing EXCEPT ![Slot(backIdx)] = d]
      /\ backIdx' = Inc(backIdx) /\ isr' = "drain" /\ isrDesc' = None
      /\ UNCHANGED <<spc, sbuf, fwd, queue, rpc, rmsg, backCons>>
    BY <1>1 DEF IsrRelease, sender, rxtask
<1>6. /\ BackHas' = BackHas \cup {d} /\ BackApart'
    <2>1. /\ backRing \in [V!Desc -> V!Desc] /\ backIdx \in V!Idx /\ backCons \in V!Idx
          /\ V!Dist(backCons, backIdx) < N
        BY <1>3, RingType, BackRoom DEF Apart
    <2>2. PICK g \in [V!Desc -> V!Desc] : g = backRing'
        BY <1>5, <2>1, RingIs
    <2>3. Slot(backIdx) \in V!Desc
        BY <2>1, V!SlotType, RpmsgAssumption, RingIs
    <2>4. g[Slot(backIdx)] = d /\ \A x \in V!Desc : x # Slot(backIdx) => g[x] = backRing[x]
        BY <1>5, <2>1, <2>2, <2>3
    <2>5. /\ V!Flight(g, backCons, backIdx) = BackHas
          /\ V!Injective(g, backCons, backIdx)
        BY <2>1, <2>2, <2>4, V!FlightWrite, RpmsgAssumption, RingIs
        DEF BackHas, BackApart, Apart
    <2>6. /\ V!Flight(g, backCons, Inc(backIdx)) = BackHas \cup {d}
          /\ V!Injective(g, backCons, Inc(backIdx))
        BY <1>3, <2>1, <2>2, <2>4, <2>5, V!FlightPublish, RpmsgAssumption, RingIs
    <2> QED BY <1>5, <2>2, <2>6 DEF BackHas, BackApart, V!Flight, V!Injective
<1>7. IsrHas' = {} /\ None \notin Desc
    BY <1>5, RpmsgAssumption DEF IsrHas
<1>8. /\ SenderHas' = SenderHas /\ FwdHas' = FwdHas /\ QueueHas' = QueueHas
      /\ ReaderHas' = ReaderHas
    BY <1>5 DEF SenderHas, FwdHas, QueueHas, ReaderHas
<1>9. Partition(Hold)'
    <2>1. \A p \in Owner \ {"isr", "back"} : Hold'[p] = Hold[p]
        BY <1>8 DEF Hold, Owner
    <2>2. Hold'["isr"] = Hold["isr"] \ {d} /\ Hold'["back"] = Hold["back"] \cup {d}
        BY <1>2, <1>6, <1>7 DEF Hold, Owner
    <2> QED BY <1>2, <1>3, <2>1, <2>2, Move
<1>10. SendersApart' /\ FwdApart' /\ QueuesApart' /\ ReadersApart'
    BY <1>5 DEF SendersApart, FwdApart, QueuesApart, ReadersApart, Apart
<1>11. SlotWritten' /\ InHand'
    BY <1>4, <1>5 DEF SlotWritten, InHand
<1> QED BY <1>6, <1>9, <1>10, <1>11 DEF Apart

\* A task takes the first message of a queue.
LEMMA QueueRecvMoves ==
    ASSUME IInv, BInv, NEW r \in Receivers, NEW c \in QueueAddr, QueueRecv(r, c)
    PROVE  BInv'
<1> USE DEF BInv, IInv
<1>1. /\ queue \in [QueueAddr -> Seq(Held)] /\ queue[c] # << >> /\ None \notin Desc
      /\ rmsg \in [Receivers -> Held \cup {None}] /\ None \notin Held
      /\ rpc \in [Receivers -> {"idle", "read", "publish"}]
    BY RpmsgAssumption DEF QueueRecv, TypeOK
<1>2. /\ queue' = [queue EXCEPT ![c] = Tail(queue[c])]
      /\ rmsg' = [rmsg EXCEPT ![r] = Head(queue[c])]
      /\ rpc' = [rpc EXCEPT ![r] = "read"] /\ rpc[r] = "idle"
      /\ UNCHANGED <<spc, sbuf, fwd, isr, isrDesc, backRing, backIdx, backCons>>
    BY DEF QueueRecv, ring, sender, rxisr
<1>3. PICK n \in Nat : n + 1 = Len(queue[c]) /\ DOMAIN queue[c] = 1 .. n + 1
    <2>1. queue[c] \in Seq(Held) /\ queue[c] # << >>
        BY <1>1
    <2>2. Len(queue[c]) \in Nat /\ Len(queue[c]) # 0 /\ DOMAIN queue[c] = 1 .. Len(queue[c])
        BY <2>1
    <2>3. PICK n \in Nat : n + 1 = Len(queue[c])
        BY <2>2
    <2> QED BY <2>2, <2>3
<1>4. /\ \A a \in QueueAddr : a # c => queue'[a] = queue[a]
      /\ DOMAIN queue'[c] = 1 .. n /\ \A i \in 1 .. n : queue'[c][i] = queue[c][i + 1]
    BY <1>1, <1>2, <1>3
<1>5. PICK h \in Held : h = queue[c][1] /\ rmsg'[r] = h
    BY <1>1, <1>2, <1>3
<1>6. PICK d \in Desc : d = h.data
    BY DEF Held
<1>7. \A i \in 2 .. n + 1 : queue[c][i].data # d
    <2> SUFFICES ASSUME NEW i \in 2 .. n + 1, queue[c][i].data = d PROVE FALSE
        OBVIOUS
    <2>1. i \in DOMAIN queue[c] /\ 1 \in DOMAIN queue[c] /\ i # 1
        BY <1>3
    <2>2. queue[c][i].data = queue[c][1].data
        BY <1>5, <1>6
    <2> QED BY <2>1, <2>2 DEF QueuesApart, Apart
<1>8. \A a \in QueueAddr : a # c => \A i \in DOMAIN queue[a] : queue[a][i].data # d
    BY <1>3, <1>5, <1>6 DEF QueuesApart, Apart
\* Every position after the step is one of before, other than the one that left.
<1>9. ASSUME NEW a \in QueueAddr, NEW i \in DOMAIN queue'[a]
      PROVE  \E k \in DOMAIN queue[a] :
                 /\ queue'[a][i] = queue[a][k] /\ queue[a][k].data # d
                 /\ k = IF a = c THEN i + 1 ELSE i
    <2>1. CASE a = c
        <3>1. i \in 1 .. n /\ i + 1 \in 2 .. n + 1 /\ i + 1 \in DOMAIN queue[c]
            BY <1>3, <1>4, <2>1
        <3> QED BY <1>4, <1>7, <2>1, <3>1
    <2>2. CASE a # c
        BY <1>4, <1>8, <2>2
    <2> QED BY <2>1, <2>2
<1>10. QueueHas' = QueueHas \ {d}
    <2>1. ASSUME NEW e \in Desc PROVE e \in QueueHas' <=> e \in QueueHas /\ e # d
        <3>1. ASSUME e \in QueueHas' PROVE e \in QueueHas /\ e # d
            BY <1>9, <3>1 DEF QueueHas
        <3>2. ASSUME e \in QueueHas, e # d PROVE e \in QueueHas'
            <4>0. PICK a \in QueueAddr : \E i \in DOMAIN queue[a] : queue[a][i].data = e
                BY <3>2 DEF QueueHas
            <4>1. PICK k \in DOMAIN queue[a] : queue[a][k].data = e
                BY <4>0
            <4>2. CASE a # c
                BY <1>4, <4>1, <4>2 DEF QueueHas
            <4>3. CASE a = c
                <5>1. k \in 2 .. n + 1
                    BY <1>3, <1>5, <1>6, <3>2, <4>1, <4>3
                <5>2. PICK j \in 1 .. n : k = j + 1
                    BY <5>1
                <5>3. j \in DOMAIN queue'[c] /\ queue'[c][j].data = e
                    BY <1>4, <4>1, <4>3, <5>2
                <5> QED BY <5>3 DEF QueueHas
            <4> QED BY <4>2, <4>3
        <3> QED BY <3>1, <3>2
    <2> QED BY <2>1 DEF QueueHas
<1>11. "queue" \in Owner /\ "reader" \in Owner /\ d \in Hold["queue"]
    BY <1>3, <1>5, <1>6, HoldIs DEF Owner, QueueHas
<1>12. d \notin ReaderHas
    BY <1>11, Elsewhere, HoldIs
<1>13. \A q \in Receivers : q # r => rpc'[q] = rpc[q] /\ rmsg'[q] = rmsg[q]
    BY <1>1, <1>2
<1>14. rpc'[r] = "read" /\ rmsg'[r].data = d
    BY <1>1, <1>2, <1>5, <1>6
<1>15. ReaderHas' = ReaderHas \cup {d}
    BY <1>2, <1>13, <1>14 DEF ReaderHas
<1>16. /\ BackHas' = BackHas /\ SenderHas' = SenderHas /\ FwdHas' = FwdHas
       /\ IsrHas' = IsrHas
    BY <1>2 DEF BackHas, SenderHas, FwdHas, IsrHas
<1>17. Partition(Hold)'
    <2>1. \A p \in Owner \ {"queue", "reader"} : Hold'[p] = Hold[p]
        BY <1>16 DEF Hold, Owner
    <2>2. Hold'["queue"] = Hold["queue"] \ {d} /\ Hold'["reader"] = Hold["reader"] \cup {d}
        BY <1>10, <1>15 DEF Hold, Owner
    <2> QED BY <1>11, <2>1, <2>2, Move
<1>18. QueuesApart'
    <2> SUFFICES ASSUME NEW a \in QueueAddr, NEW b \in QueueAddr,
                        NEW i \in DOMAIN queue'[a], NEW j \in DOMAIN queue'[b],
                        queue'[a][i].data = queue'[b][j].data
                 PROVE  a = b /\ i = j
        BY DEF QueuesApart
    <2>1. PICK k \in DOMAIN queue[a] : /\ queue'[a][i] = queue[a][k]
                                       /\ k = IF a = c THEN i + 1 ELSE i
        BY <1>9
    <2>2. PICK l \in DOMAIN queue[b] : /\ queue'[b][j] = queue[b][l]
                                       /\ l = IF b = c THEN j + 1 ELSE j
        BY <1>9
    <2>3. a = b /\ k = l
        BY <2>1, <2>2 DEF QueuesApart, Apart
    <2>4. CASE a = c
        <3>1. i \in Nat /\ j \in Nat
            BY <1>4, <2>3, <2>4
        <3> QED BY <2>1, <2>2, <2>3, <2>4, <3>1
    <2>5. CASE a # c
        BY <2>1, <2>2, <2>3, <2>5
    <2> QED BY <2>4, <2>5
<1>19. ReadersApart'
    BY <1>12, <1>13, <1>14 DEF ReadersApart, Apart, ReaderHas
<1>20. SendersApart' /\ FwdApart'
    BY <1>2 DEF SendersApart, FwdApart, Apart
<1>21. SlotWritten'
    BY <1>2, <1>13, <1>14 DEF SlotWritten
<1>22. BackApart'
    BY <1>2 DEF BackApart, Apart, V!Injective
<1>23. InHand'
    BY <1>1, <1>2, <1>5, <1>13, <1>14 DEF InHand
<1> QED BY <1>17, <1>18, <1>19, <1>20, <1>21, <1>22, <1>23 DEF Apart

\* A task writes the slot of the buffer it reads: no buffer moves.
LEMMA ReleaseMoves ==
    ASSUME IInv, BInv, NEW r \in Receivers, Release(r)
    PROVE  BInv'
<1> USE DEF BInv, IInv
<1>1. PICK d \in Desc : d = rmsg[r].data
    BY DEF Release, Hands, Held
<1>2. d \in Hold["reader"] /\ "reader" \in Owner /\ "back" \in Owner
    BY <1>1, HoldIs DEF ReaderHas, Owner, Release
<1>3. d \notin BackHas
    BY <1>2, Elsewhere, HoldIs
<1>4. /\ backRing' = [backRing EXCEPT ![Slot(backIdx)] = d]
      /\ rpc[r] = "read" /\ rpc' = [rpc EXCEPT ![r] = "publish"]
      /\ rxLock = None /\ rxLock' = r
      /\ UNCHANGED <<spc, sbuf, fwd, isr, isrDesc, queue, rmsg, backIdx, backCons>>
    BY <1>1 DEF Release, sender, rxisr, HeaderIndex
<1>5. /\ rpc \in [Receivers -> {"idle", "read", "publish"}] /\ None \notin Receivers
    BY RpmsgAssumption DEF TypeOK
<1>6. BackHas' = BackHas /\ BackApart' /\ backRing'[Slot(backIdx)] = d
    <2>1. /\ backRing \in [V!Desc -> V!Desc] /\ backIdx \in V!Idx /\ backCons \in V!Idx
          /\ V!Dist(backCons, backIdx) < N
        BY <1>3, RingType, BackRoom DEF Apart
    <2>2. PICK g \in [V!Desc -> V!Desc] : g = backRing'
        BY <1>4, <2>1, RingIs
    <2>3. Slot(backIdx) \in V!Desc
        BY <2>1, V!SlotType, RpmsgAssumption, RingIs
    <2>4. g[Slot(backIdx)] = d /\ \A x \in V!Desc : x # Slot(backIdx) => g[x] = backRing[x]
        BY <1>4, <2>1, <2>2, <2>3
    <2>5. /\ V!Flight(g, backCons, backIdx) = BackHas
          /\ V!Injective(g, backCons, backIdx)
        BY <2>1, <2>2, <2>4, V!FlightWrite, RpmsgAssumption, RingIs
        DEF BackHas, BackApart, Apart
    <2> QED BY <1>4, <2>2, <2>4, <2>5 DEF BackHas, BackApart, V!Flight, V!Injective
<1>7. \A q \in Receivers : rpc'[q] # "idle" <=> rpc[q] # "idle"
    BY <1>4, <1>5
<1>8. /\ SenderHas' = SenderHas /\ FwdHas' = FwdHas /\ QueueHas' = QueueHas
      /\ ReaderHas' = ReaderHas /\ IsrHas' = IsrHas
    BY <1>4, <1>7 DEF SenderHas, FwdHas, QueueHas, ReaderHas, IsrHas
<1>9. Partition(Hold)'
    <2>1. Hold' = Hold
        BY <1>6, <1>8 DEF Hold
    <2> QED BY <2>1 DEF Partition
<1>10. SendersApart' /\ FwdApart' /\ QueuesApart' /\ ReadersApart'
    BY <1>4, <1>7 DEF SendersApart, FwdApart, QueuesApart, ReadersApart, Apart
<1>11. SlotWritten'
    <2> SUFFICES ASSUME NEW q \in Receivers, rpc'[q] = "publish"
                 PROVE  backRing'[Slot(backIdx)] = rmsg[q].data
        BY <1>4 DEF SlotWritten
    <2>1. q = r
        BY <1>4, <1>5 DEF Locks
    <2> QED BY <1>1, <1>6, <2>1
<1>12. InHand'
    BY <1>4, <1>7 DEF InHand
<1> QED BY <1>6, <1>9, <1>10, <1>11, <1>12 DEF Apart

\* ... and publishes it.
LEMMA ReleasePublishMoves ==
    ASSUME IInv, BInv, NEW r \in Receivers, ReleasePublish(r)
    PROVE  BInv'
<1> USE DEF BInv, IInv
<1>1. PICK d \in Desc : d = rmsg[r].data
    BY DEF ReleasePublish, Hands, Held
<1>2. d \in Hold["reader"] /\ "reader" \in Owner /\ "back" \in Owner
    BY <1>1, HoldIs DEF ReaderHas, Owner, ReleasePublish
<1>3. d \notin BackHas
    BY <1>2, Elsewhere, HoldIs
<1>4. /\ backIdx' = Inc(backIdx) /\ rpc[r] = "publish"
      /\ rpc' = [rpc EXCEPT ![r] = "idle"] /\ rmsg' = [rmsg EXCEPT ![r] = None]
      /\ UNCHANGED <<spc, sbuf, fwd, isr, isrDesc, queue, backRing, backCons>>
    BY DEF ReleasePublish, sender, rxisr
<1>5. /\ rpc \in [Receivers -> {"idle", "read", "publish"}]
      /\ rmsg \in [Receivers -> Held \cup {None}] /\ None \notin Receivers
    BY RpmsgAssumption DEF TypeOK
<1>6. BackHas' = BackHas \cup {d} /\ BackApart'
    <2>1. /\ backRing \in [V!Desc -> V!Desc] /\ backIdx \in V!Idx /\ backCons \in V!Idx
          /\ V!Dist(backCons, backIdx) < N /\ BackApart
        BY <1>3, RingType, BackRoom DEF Apart
    <2>2. backRing[Slot(backIdx)] = d
        BY <1>1, <1>4 DEF SlotWritten
    <2>3. /\ V!Flight(backRing, backCons, Inc(backIdx)) = BackHas \cup {d}
          /\ V!Injective(backRing, backCons, Inc(backIdx))
        BY <1>3, <2>1, <2>2, V!FlightPublish, RpmsgAssumption, RingIs
        DEF BackHas, BackApart
    <2> QED BY <1>4, <2>3 DEF BackHas, BackApart, V!Flight, V!Injective
<1>7. \A q \in Receivers : q # r => rpc'[q] = rpc[q] /\ rmsg'[q] = rmsg[q]
    BY <1>4, <1>5
<1>8. rpc'[r] = "idle" /\ rmsg'[r] = None
    BY <1>4, <1>5
<1>9. ReaderHas' = ReaderHas \ {d}
    BY <1>1, <1>4, <1>7, <1>8 DEF ReaderHas, ReadersApart, Apart
<1>10. /\ SenderHas' = SenderHas /\ FwdHas' = FwdHas /\ QueueHas' = QueueHas
       /\ IsrHas' = IsrHas
    BY <1>4 DEF SenderHas, FwdHas, QueueHas, IsrHas
<1>11. Partition(Hold)'
    <2>1. \A p \in Owner \ {"reader", "back"} : Hold'[p] = Hold[p]
        BY <1>10 DEF Hold, Owner
    <2>2. Hold'["reader"] = Hold["reader"] \ {d} /\ Hold'["back"] = Hold["back"] \cup {d}
        BY <1>6, <1>9 DEF Hold, Owner
    <2> QED BY <1>2, <2>1, <2>2, Move
<1>12. SendersApart' /\ FwdApart' /\ QueuesApart'
    BY <1>4 DEF SendersApart, FwdApart, QueuesApart, Apart
<1>13. ReadersApart'
    BY <1>7, <1>8 DEF ReadersApart, Apart
<1>14. SlotWritten'
    <2> SUFFICES ASSUME NEW q \in Receivers, rpc'[q] = "publish" PROVE FALSE
        BY DEF SlotWritten
    <2>1. q # r /\ rpc[q] = "publish"
        BY <1>7, <1>8
    <2> QED BY <1>4, <2>1 DEF Locks
<1>15. InHand'
    BY <1>4, <1>7, <1>8 DEF InHand
<1> QED BY <1>6, <1>11, <1>12, <1>13, <1>14, <1>15 DEF Apart

\* Every step keeps each buffer in one place.
LEMMA BStep ==
    ASSUME OneWriter, IInv, BInv, [Next]_vars
    PROVE  BInv'
<1>1. ASSUME NEW s \in Senders, NEW a \in Addr, NEW t \in Timeouts,
             NEW n \in BOOLEAN, Send(s, a, t, n)
      PROVE  BInv'
    BY <1>1, QuietSteps
<1>2. ASSUME NEW s \in Senders, SenderStep(s)
      PROVE  BInv'
    BY <1>2, AllocMoves, QuietSteps, TxMoves DEF SenderStep
<1>3. CASE IsrStep
    BY <1>3, QuietSteps, IsrRxMoves, IsrHoldMoves, IsrReleaseMoves DEF IsrStep
<1>4. ASSUME NEW r \in Receivers, ReceiverStep(r)
      PROVE  BInv'
    BY <1>4, QueueRecvMoves, ReleaseMoves, ReleasePublishMoves DEF ReceiverStep
<1>5. CASE UNCHANGED vars
    <2>1. InHand'
        BY <1>5 DEF BInv, InHand, vars, ring, sender, rxisr, rxtask
    <2> QED BY <1>5, <2>1, Frame DEF BInv, vars, ring, sender, rxisr, rxtask
<1> QED BY <1>1, <1>2, <1>3, <1>4, <1>5 DEF Next

\* The places hold for a core with one writer of the back ring.
LEMMA BInductive ==
    ASSUME OneWriter
    PROVE  Spec => [](IInv /\ BInv)
<1>1. Init => BInv
    BY BInit
<1>2. IInv /\ BInv /\ [Next]_vars => BInv'
    BY BStep
<1> QED BY Inductive, <1>1, <1>2, PTL DEF Spec

-----------------------------------------------------------------------------
\* No buffer is lost and none is in two hands, on a core where the back ring has
\* one kind of writer.
THEOREM NeverLeaked ==
    ASSUME OneWriter
    PROVE  Spec => []OnePlace
<1>1. IInv /\ BInv => OnePlace
  <2> SUFFICES ASSUME IInv, BInv, NEW d \in Desc
               PROVE  Cardinality(Places(d)) = 1
      BY DEF OnePlace
  <2> USE DEF BInv, IInv
  <2> DEFINE PS == {<<"sender", s>> : s \in {s \in Senders : sbuf[s] = d}}
             PF == {<<"fwd", i>> : i \in {i \in DOMAIN fwd : fwd[i] = d}}
             PI == {<<"isr", i>> : i \in {i \in {1} : isrDesc = d}}
             PQ == UNION {{<<"queue", a, i>> :
                              i \in {i \in DOMAIN queue[a] : queue[a][i].data = d}}
                            : a \in QueueAddr}
             PR == {<<"reader", r>> : r \in {r \in Receivers : rmsg[r] # None /\ rmsg[r].data = d}}
             PB == {<<"back", i>> : i \in {i \in BackPending : backRing[Slot(i)] = d}}
  <2>1. Places(d) = PS \cup PF \cup PI \cup PQ \cup PR \cup PB
      BY DEF Places
  <2>2. BackPending = V!Pending(backCons, backIdx)
      BY DEF BackPending, V!Pending, V!Idx, V!Dist
  <2>3. /\ d \notin SenderHas => PS = {}
        /\ d \in SenderHas => \E x : PS = {x}
      <3>1. d \notin SenderHas => PS = {}
          BY DEF SenderHas
      <3>2. ASSUME d \in SenderHas PROVE \E x : PS = {x}
          <4>1. PICK s \in Senders : sbuf[s] = d
              BY <3>2 DEF SenderHas
          <4>2. {t \in Senders : sbuf[t] = d} = {s}
              BY <4>1 DEF SendersApart, Apart
          <4>3. PS = {<<"sender", s>>}
              BY <4>2, Zenon
          <4> QED BY <4>3
      <3> QED BY <3>1, <3>2
  <2>4. /\ d \notin FwdHas => PF = {}
        /\ d \in FwdHas => \E x : PF = {x}
      <3>1. d \notin FwdHas => PF = {}
          BY DEF FwdHas
      <3>2. ASSUME d \in FwdHas PROVE \E x : PF = {x}
          <4>1. PICK s \in DOMAIN fwd : fwd[s] = d
              BY <3>2 DEF FwdHas
          <4>2. {t \in DOMAIN fwd : fwd[t] = d} = {s}
              BY <4>1 DEF FwdApart, Apart
          <4>3. PF = {<<"fwd", s>>}
              BY <4>2, Zenon
          <4> QED BY <4>3
      <3> QED BY <3>1, <3>2
  <2>5. /\ d \notin IsrHas => PI = {}
        /\ d \in IsrHas => \E x : PI = {x}
      <3>1. d \notin IsrHas => PI = {}
          BY DEF IsrHas
      <3>2. ASSUME d \in IsrHas PROVE \E x : PI = {x}
          <4>1. {i \in {1} : isrDesc = d} = {1}
              BY <3>2 DEF IsrHas
          <4>2. PI = {<<"isr", 1>>}
              BY <4>1, Zenon
          <4> QED BY <4>2
      <3> QED BY <3>1, <3>2
  <2>6. /\ d \notin QueueHas => PQ = {}
        /\ d \in QueueHas => \E x : PQ = {x}
      <3>1. \A x : x \in PQ <=> \E a \in QueueAddr : \E i \in DOMAIN queue[a] :
                                   queue[a][i].data = d /\ x = <<"queue", a, i>>
          OBVIOUS
      <3> HIDE DEF PQ
      <3>2. ASSUME d \notin QueueHas PROVE PQ = {}
          BY <3>1, <3>2 DEF QueueHas
      <3>3. ASSUME d \in QueueHas PROVE \E x : PQ = {x}
          <4>1. PICK a \in QueueAddr : \E i \in DOMAIN queue[a] : queue[a][i].data = d
              BY <3>3 DEF QueueHas
          <4>2. PICK i \in DOMAIN queue[a] : queue[a][i].data = d
              BY <4>1
          <4>3. PICK x : x = <<"queue", a, i>>
              OBVIOUS
          <4>4. \A y : y \in PQ <=> y = x
              BY <3>1, <4>2, <4>3 DEF QueuesApart, Apart
          <4> QED BY <4>4
      <3> QED BY <3>2, <3>3
  <2>7. /\ d \notin ReaderHas => PR = {}
        /\ d \in ReaderHas => \E x : PR = {x}
      <3>1. \A r \in Receivers : rmsg[r] # None <=> rpc[r] # "idle"
          BY DEF InHand
      <3>2. d \notin ReaderHas => PR = {}
          BY <3>1 DEF ReaderHas
      <3>3. ASSUME d \in ReaderHas PROVE \E x : PR = {x}
          <4>1. PICK s \in Receivers : rpc[s] # "idle" /\ rmsg[s].data = d
              BY <3>3 DEF ReaderHas
          <4>2. {t \in Receivers : rmsg[t] # None /\ rmsg[t].data = d} = {s}
              BY <3>1, <4>1 DEF ReadersApart, Apart
          <4>3. PR = {<<"reader", s>>}
              BY <4>2, Zenon
          <4> QED BY <4>3
      <3> QED BY <3>2, <3>3
  <2>8. /\ d \notin BackHas => PB = {}
        /\ d \in BackHas => \E x : PB = {x}
      <3>1. d \notin BackHas => PB = {}
          BY <2>2, RingIs DEF BackHas, V!Flight
      <3>2. ASSUME d \in BackHas PROVE \E x : PB = {x}
          <4>1. PICK s \in BackPending : backRing[Slot(s)] = d
              BY <2>2, <3>2, RingIs DEF BackHas, V!Flight
          <4>2. {t \in BackPending : backRing[Slot(t)] = d} = {s}
              BY <2>2, <4>1, RingIs DEF BackApart, Apart, V!Injective
          <4>3. PB = {<<"back", s>>}
              BY <4>2, Zenon
          <4> QED BY <4>3
      <3> QED BY <3>1, <3>2
  <2> HIDE DEF PS, PF, PI, PQ, PR, PB
  <2>9. PICK p \in Owner : \A q \in Owner : d \in Hold[q] <=> q = p
      BY DEF Partition
  <2>10. \E x : Places(d) = {x}
      <3>1. CASE p = "sender"
          BY <2>1, <2>3, <2>4, <2>5, <2>6, <2>7, <2>8, <2>9, <3>1, HoldIs DEF Owner
      <3>2. CASE p = "fwd"
          BY <2>1, <2>3, <2>4, <2>5, <2>6, <2>7, <2>8, <2>9, <3>2, HoldIs DEF Owner
      <3>3. CASE p = "isr"
          BY <2>1, <2>3, <2>4, <2>5, <2>6, <2>7, <2>8, <2>9, <3>3, HoldIs DEF Owner
      <3>4. CASE p = "queue"
          BY <2>1, <2>3, <2>4, <2>5, <2>6, <2>7, <2>8, <2>9, <3>4, HoldIs DEF Owner
      <3>5. CASE p = "reader"
          BY <2>1, <2>3, <2>4, <2>5, <2>6, <2>7, <2>8, <2>9, <3>5, HoldIs DEF Owner
      <3>6. CASE p = "back"
          BY <2>1, <2>3, <2>4, <2>5, <2>6, <2>7, <2>8, <2>9, <3>6, HoldIs DEF Owner
      <3> QED BY <3>1, <3>2, <3>3, <3>4, <3>5, <3>6 DEF Owner
  <2> QED BY <2>10, FS_Singleton
<1> QED BY BInductive, <1>1, PTL

\* rpmsg_queue_rx_cb never finds its queue full.
THEOREM QueueHasRoom ==
    ASSUME OneWriter
    PROVE  Spec => []QueueNeverFull
<1>1. IInv /\ BInv => QueueNeverFull
  <2> SUFFICES ASSUME IInv, BInv, isr = "dispatch", buf[isrDesc].dst \in QueueAddr
               PROVE  Len(queue[buf[isrDesc].dst]) < N
      BY DEF QueueNeverFull
  <2>1. isrDesc \in Desc
      BY DEF IInv, Hands
  <2>2. isrDesc \in Hold["isr"] /\ "isr" \in Owner /\ "queue" \in Owner
      BY <2>1, HoldIs DEF IsrHas, Owner
  <2>3. isrDesc \notin QueueHas
      BY <2>1, <2>2, Elsewhere, HoldIs DEF BInv
  <2> QED BY <2>1, <2>3, QueueRoom DEF IInv, BInv, Apart
<1> QED BY BInductive, <1>1, PTL

-----------------------------------------------------------------------------
\* What waits in a queue or is being read is what its buffer holds.
Kept ==
    /\ \A a \in QueueAddr : \A i \in DOMAIN queue[a] :
          buf[queue[a][i].data] = queue[a][i].msg
    /\ \A r \in Receivers : rpc[r] # "idle" => buf[rmsg[r].data] = rmsg[r].msg

\* Only the task that has taken a buffer from the ring writes it, and a message
\* is handed on as it is.
LEMMA KeptStep ==
    ASSUME IInv, BInv, Kept, [Next]_vars
    PROVE  Kept'
<1> USE DEF IInv, BInv
<1>0. /\ rpc \in [Receivers -> {"idle", "read", "publish"}]
      /\ rmsg \in [Receivers -> Held \cup {None}]
    BY DEF TypeOK
<1>1. ASSUME UNCHANGED <<buf, queue>>,
             \A r \in Receivers : rpc'[r] # "idle" => rpc[r] # "idle" /\ rmsg'[r] = rmsg[r]
      PROVE  Kept'
    BY <1>1 DEF Kept
<1>2. ASSUME NEW s \in Senders, NEW a \in Addr, NEW t \in Timeouts,
             NEW n \in BOOLEAN, Send(s, a, t, n)
      PROVE  Kept'
    BY <1>1, <1>2 DEF Send, rxtask
<1>3. ASSUME NEW s \in Senders, Alloc(s) \/ Poll(s) \/ Tx(s) \/ Kick(s)
      PROVE  Kept'
    BY <1>1, <1>3 DEF Alloc, Poll, Tx, Kick, TakeBuffer, GiveUp, rxtask
<1>4. ASSUME NEW s \in Senders, Fill(s)
      PROVE  Kept'
    <2>1. PICK d \in Desc : d = sbuf[s]
        BY <1>4 DEF Fill, Hands
    <2>2. /\ buf \in [Desc -> Message \cup {None}]
          /\ \E m : buf' = [buf EXCEPT ![d] = m]
          /\ UNCHANGED <<queue, rpc, rmsg>>
        BY <1>4, <2>1 DEF Fill, TypeOK, rxtask
    <2>3. \A e \in Desc : e # d => buf'[e] = buf[e]
        BY <2>2
    <2>4. /\ "sender" \in Owner /\ "queue" \in Owner /\ "reader" \in Owner
          /\ d \in Hold["sender"]
        BY <2>1, HoldIs DEF Owner, SenderHas
    <2>5. d \notin QueueHas /\ d \notin ReaderHas
        BY <2>4, Elsewhere, HoldIs
    <2>6. ASSUME NEW a \in QueueAddr, NEW i \in DOMAIN queue[a]
          PROVE  buf'[queue[a][i].data] = queue[a][i].msg
        <3>1. queue[a][i] \in Held
            BY DEF TypeOK
        <3>2. queue[a][i].data \in Desc
            BY <3>1 DEF Held
        <3>3. queue[a][i].data # d
            BY <2>5 DEF QueueHas
        <3> QED BY <2>3, <3>2, <3>3 DEF Kept
    <2>7. ASSUME NEW r \in Receivers, rpc[r] # "idle"
          PROVE  buf'[rmsg[r].data] = rmsg[r].msg
        <3>1. rmsg[r].data \in Desc
            BY <2>7 DEF Hands, Held
        <3>2. rmsg[r].data # d
            BY <2>5, <2>7 DEF ReaderHas
        <3> QED BY <2>3, <2>7, <3>1, <3>2 DEF Kept
    <2> QED BY <2>2, <2>6, <2>7 DEF Kept
<1>5. CASE IsrEnter \/ IsrRx \/ IsrEmpty \/ IsrExit \/ IsrRelease
    BY <1>1, <1>5 DEF IsrEnter, IsrRx, IsrEmpty, IsrExit, IsrRelease, rxtask
<1>6. CASE IsrHold
    <2>1. PICK c \in QueueAddr : c = buf[isrDesc].dst
        BY <1>6 DEF IsrHold, QueueTakes
    <2>2. PICK h : h = [data |-> isrDesc, msg |-> buf[isrDesc]]
        OBVIOUS
    <2>3. /\ queue' = [queue EXCEPT ![c] = Append(queue[c], h)]
          /\ UNCHANGED <<buf, rpc, rmsg>>
        BY <1>6, <2>1, <2>2 DEF IsrHold, rxtask
    <2>4. queue \in [QueueAddr -> Seq(Held)]
        BY DEF TypeOK
    <2>5. ASSUME NEW a \in QueueAddr, NEW i \in DOMAIN queue'[a]
          PROVE  buf[queue'[a][i].data] = queue'[a][i].msg
        <3>1. CASE i \in DOMAIN queue[a] /\ queue'[a][i] = queue[a][i]
            BY <3>1 DEF Kept
        <3>2. CASE queue'[a][i] = h
            BY <2>2, <3>2
        <3>3. \/ i \in DOMAIN queue[a] /\ queue'[a][i] = queue[a][i]
              \/ queue'[a][i] = h
            <4>1. CASE a # c
                BY <2>3, <2>4, <4>1
            <4>2. CASE a = c
                <5>1. queue'[c] = Append(queue[c], h) /\ queue[c] \in Seq(Held)
                    BY <2>3, <2>4
                <5>2. /\ DOMAIN queue'[c] = 1 .. Len(queue[c]) + 1
                      /\ DOMAIN queue[c] = 1 .. Len(queue[c]) /\ Len(queue[c]) \in Nat
                      /\ queue'[c][Len(queue[c]) + 1] = h
                      /\ \A k \in 1 .. Len(queue[c]) : queue'[c][k] = queue[c][k]
                    BY <5>1
                <5> QED BY <4>2, <5>2
            <4> QED BY <4>1, <4>2
        <3> QED BY <3>1, <3>2, <3>3
    <2> QED BY <2>3, <2>5 DEF Kept
<1>7. ASSUME NEW r \in Receivers, NEW c \in QueueAddr, QueueRecv(r, c)
      PROVE  Kept'
    <2>1. /\ queue' = [queue EXCEPT ![c] = Tail(queue[c])] /\ queue[c] # << >>
          /\ rmsg' = [rmsg EXCEPT ![r] = Head(queue[c])]
          /\ rpc' = [rpc EXCEPT ![r] = "read"] /\ buf' = buf
        BY <1>7 DEF QueueRecv
    <2>2. /\ queue \in [QueueAddr -> Seq(Held)] /\ queue[c] \in Seq(Held)
          /\ rmsg \in [Receivers -> Held \cup {None}]
        BY DEF TypeOK
    <2>3. /\ queue'[c] = Tail(queue[c]) /\ \A a \in QueueAddr : a # c => queue'[a] = queue[a]
          /\ rmsg'[r] = queue[c][1] /\ 1 \in DOMAIN queue[c]
          /\ \A q \in Receivers : q # r => rmsg'[q] = rmsg[q] /\ rpc'[q] = rpc[q]
        BY <1>0, <2>1, <2>2
    <2>4. \A i \in DOMAIN queue'[c] : i + 1 \in DOMAIN queue[c] /\ queue'[c][i] = queue[c][i + 1]
        BY <2>1, <2>2, <2>3
    <2>5. \A a \in QueueAddr : \A i \in DOMAIN queue'[a] :
              buf[queue'[a][i].data] = queue'[a][i].msg
        <3>1. \A i \in DOMAIN queue'[c] : buf[queue'[c][i].data] = queue'[c][i].msg
            BY <2>4 DEF Kept
        <3>2. \A a \in QueueAddr : a # c =>
                  \A i \in DOMAIN queue'[a] : buf[queue'[a][i].data] = queue'[a][i].msg
            BY <2>3 DEF Kept
        <3> QED BY <3>1, <3>2
    <2>6. \A q \in Receivers : rpc'[q] # "idle" => buf[rmsg'[q].data] = rmsg'[q].msg
        BY <2>3 DEF Kept
    <2> QED BY <2>1, <2>5, <2>6 DEF Kept
<1>8. ASSUME NEW r \in Receivers, Release(r) \/ ReleasePublish(r)
      PROVE  Kept'
    BY <1>0, <1>1, <1>8 DEF Release, ReleasePublish
<1>9. CASE UNCHANGED vars
    BY <1>1, <1>9 DEF vars, rxtask
<1> QED BY <1>2, <1>3, <1>4, <1>5, <1>6, <1>7, <1>8, <1>9
        DEF Next, SenderStep, IsrStep, ReceiverStep

\* A message that waits in an rpmsg_queue, or that a task reads without a copy,
\* is still the one that was delivered.
THEOREM NeverOverwritten ==
    ASSUME OneWriter
    PROVE  Spec => []Untouched
<1>1. Init => Kept
    BY DEF Init, Kept
<1>2. IInv /\ BInv /\ Kept /\ [Next]_vars => Kept'
    BY KeptStep
<1>3. BInv /\ Kept => Untouched
    BY DEF BInv, InHand, Kept, Untouched, Queued, Read
<1> QED BY BInductive, <1>1, <1>2, <1>3, PTL DEF Spec

-----------------------------------------------------------------------------
(***************************************************************************)
(* The order of messages.  A chain e goes along the forward ring: e[i] is  *)
(* what the receiver expects of each sender and address once it has had    *)
(* the i oldest messages.  It starts with what it expects after the        *)
(* message in the handler's hand and ends with what is still to be sent.   *)
(***************************************************************************)
Numbers == [Senders -> [Addr -> 0 .. SeqMod - 1]]
Bump(n, m) == [n EXCEPT ![m.src][m.dst] = (@ + 1) % SeqMod]
Follows(n, k, m) == m.seq = n[m.src][m.dst] /\ k = Bump(n, m)

\* The number of the next message that is not on the ring yet.
Unsent(s, a) == IF spc[s] = "tx" /\ buf[sbuf[s]].dst = a
                THEN buf[sbuf[s]].seq ELSE sseq[s][a]

Chain(e) ==
    /\ isr = "dispatch" => Follows(rseq, e[0], buf[isrDesc])
    /\ isr # "dispatch" => e[0] = rseq
    /\ \A i \in 1 .. Len(fwd) : Follows(e[i - 1], e[i], buf[fwd[i]])
    /\ \A s \in Senders, a \in Addr : e[Len(fwd)][s][a] = Unsent(s, a)

\* A task has written its own message, and has counted it.
Written ==
    \A s \in Senders : spc[s] = "tx" =>
        /\ buf[sbuf[s]].src = s
        /\ sseq[s][buf[sbuf[s]].dst] = (buf[sbuf[s]].seq + 1) % SeqMod

Chained == (\E e \in [0 .. Len(fwd) -> Numbers] : Chain(e)) /\ Written

LEMMA BumpType ==
    ASSUME NEW n \in Numbers, NEW m \in Message
    PROVE  /\ Bump(n, m) \in Numbers
           /\ \A s \in Senders, a \in Addr :
                 Bump(n, m)[s][a] = IF s = m.src /\ a = m.dst
                                    THEN (n[s][a] + 1) % SeqMod ELSE n[s][a]
<1>1. m.src \in Senders /\ m.dst \in Addr
    BY DEF Message
<1>2. n[m.src][m.dst] \in 0 .. SeqMod - 1
    BY <1>1 DEF Numbers
<1>3. PICK k \in 0 .. SeqMod - 1 : k = (n[m.src][m.dst] + 1) % SeqMod
    BY <1>2, SeqInRange
<1>4. Bump(n, m) = [n EXCEPT ![m.src][m.dst] = k]
    BY <1>3, Zenon DEF Bump
<1> HIDE DEF Bump
<1> QED BY <1>1, <1>3, <1>4 DEF Numbers

\* A step that neither writes a message nor moves one forward.
LEMMA ChainKept ==
    ASSUME Chained, UNCHANGED <<fwd, buf, rseq, isrDesc, sseq>>,
           (isr' = "dispatch") <=> (isr = "dispatch"),
           \A s \in Senders : /\ (spc'[s] = "tx") <=> (spc[s] = "tx")
                              /\ spc[s] = "tx" => sbuf'[s] = sbuf[s]
    PROVE  Chained'
<1>1. PICK e \in [0 .. Len(fwd) -> Numbers] : Chain(e)
    BY DEF Chained
<1>2. \A s \in Senders, a \in Addr : Unsent(s, a)' = Unsent(s, a)
    BY DEF Unsent
<1>3. /\ isr' = "dispatch" => Follows(rseq, e[0], buf[isrDesc])
      /\ isr' # "dispatch" => e[0] = rseq
      /\ \A i \in 1 .. Len(fwd) : Follows(e[i - 1], e[i], buf[fwd[i]])
      /\ \A s \in Senders, a \in Addr : e[Len(fwd)][s][a] = Unsent(s, a)'
    BY <1>1, <1>2 DEF Chain
<1>4. Chain(e)'
    BY <1>3 DEF Chain
<1>5. Written'
    BY DEF Chained, Written
<1> QED BY <1>1, <1>4, <1>5 DEF Chained

LEMMA FillChains ==
    ASSUME IInv, BInv, Chained, NEW s \in Senders, Fill(s)
    PROVE  Chained'
<1> USE DEF IInv, BInv
<1>1. PICK e \in [0 .. Len(fwd) -> Numbers] : Chain(e)
    BY DEF Chained
<1>2. PICK d \in Desc : d = sbuf[s]
    BY DEF Fill, Hands
<1>3. PICK c \in Addr : c = sreq[s].dst
    BY DEF Fill, Hands, Request
<1>4. sseq[s][c] \in 0 .. SeqMod - 1 /\ (sseq[s][c] + 1) % SeqMod \in 0 .. SeqMod - 1
    BY SeqInRange DEF TypeOK
<1>5. PICK m : m = [src |-> s, dst |-> c, seq |-> sseq[s][c]]
    OBVIOUS
<1>6. /\ spc[s] = "fill" /\ spc' = [spc EXCEPT ![s] = "tx"]
      /\ buf' = [buf EXCEPT ![d] = m]
      /\ UNCHANGED <<fwd, sbuf, isr, isrDesc, rseq>>
    BY <1>2, <1>3, <1>5 DEF Fill, rxisr
<1>7. /\ buf'[d] = m /\ \A x \in Desc : x # d => buf'[x] = buf[x]
      /\ spc'[s] = "tx" /\ \A x \in Senders : x # s => spc'[x] = spc[x]
    BY <1>6 DEF TypeOK
<1>8. PICK k : k = (sseq[s][c] + 1) % SeqMod
    OBVIOUS
<1>9. sseq' = [sseq EXCEPT ![s][c] = k]
    BY <1>3, <1>8, Zenon DEF Fill
<1>10. \A x \in Senders, a \in Addr :
          sseq'[x][a] = IF x = s /\ a = c THEN k ELSE sseq[x][a]
    BY <1>9 DEF TypeOK
\* The buffer is nobody else's.
<1>11. /\ "sender" \in Owner /\ "fwd" \in Owner /\ "isr" \in Owner
       /\ d \in Hold["sender"]
    BY <1>2, HoldIs DEF Owner, SenderHas
<1>12. d \notin FwdHas /\ d \notin IsrHas
    BY <1>11, Elsewhere, HoldIs
<1>13. \A i \in 1 .. Len(fwd) : fwd[i] \in Desc /\ buf'[fwd[i]] = buf[fwd[i]]
    <2>1. \A i \in 1 .. Len(fwd) : i \in DOMAIN fwd /\ fwd[i] \in Desc
        BY DEF TypeOK
    <2> QED BY <1>7, <1>12, <2>1 DEF FwdHas
<1>14. isr = "dispatch" => buf'[isrDesc] = buf[isrDesc]
    BY <1>7, <1>12 DEF IsrHas, Hands
<1>15. \A x \in Senders : x # s /\ spc[x] = "tx" => buf'[sbuf[x]] = buf[sbuf[x]]
    BY <1>2, <1>7 DEF SendersApart, Apart, Hands
<1>16. \A x \in Senders, a \in Addr : Unsent(x, a)' = Unsent(x, a)
    <2> SUFFICES ASSUME NEW x \in Senders, NEW a \in Addr
                 PROVE  Unsent(x, a)' = Unsent(x, a)
        OBVIOUS
    <2>1. CASE x # s
        BY <1>6, <1>7, <1>10, <1>15, <2>1 DEF Unsent
    <2>2. CASE x = s
        <3>1. Unsent(s, a) = sseq[s][a]
            BY <1>6 DEF Unsent
        <3>2. Unsent(s, a)' = IF c = a THEN sseq[s][c] ELSE sseq'[s][a]
            BY <1>2, <1>5, <1>6, <1>7 DEF Unsent
        <3> QED BY <1>10, <2>2, <3>1, <3>2
    <2> QED BY <2>1, <2>2
<1>17. /\ isr' = "dispatch" => Follows(rseq, e[0], buf'[isrDesc])
       /\ isr' # "dispatch" => e[0] = rseq
       /\ \A i \in 1 .. Len(fwd) : Follows(e[i - 1], e[i], buf'[fwd[i]])
       /\ \A x \in Senders, a \in Addr : e[Len(fwd)][x][a] = Unsent(x, a)'
    BY <1>1, <1>6, <1>13, <1>14, <1>16 DEF Chain
<1>18. Chain(e)'
    BY <1>6, <1>17 DEF Chain
<1>19. Written'
    <2> SUFFICES ASSUME NEW x \in Senders, spc'[x] = "tx"
                 PROVE  /\ buf'[sbuf[x]].src = x
                        /\ sseq'[x][buf'[sbuf[x]].dst] = (buf'[sbuf[x]].seq + 1) % SeqMod
        BY <1>6 DEF Written
    <2>1. CASE x = s
        BY <1>2, <1>5, <1>7, <1>8, <1>10, <2>1
    <2>2. CASE x # s
        <3>1. spc[x] = "tx" /\ buf'[sbuf[x]] = buf[sbuf[x]]
            BY <1>7, <1>15, <2>2
        <3>2. buf[sbuf[x]].dst \in Addr
            BY <3>1 DEF Hands, Message
        <3>3. sseq'[x][buf[sbuf[x]].dst] = sseq[x][buf[sbuf[x]].dst]
            BY <1>10, <2>2, <3>2
        <3> QED BY <3>1, <3>3 DEF Chained, Written
    <2> QED BY <2>1, <2>2
<1> QED BY <1>1, <1>6, <1>18, <1>19 DEF Chained

LEMMA TxChains ==
    ASSUME IInv, BInv, Chained, NEW s \in Senders, Tx(s)
    PROVE  Chained'
<1> USE DEF IInv, BInv
<1>1. PICK e \in [0 .. Len(fwd) -> Numbers] : Chain(e)
    BY DEF Chained
<1>2. PICK d \in Desc : d = sbuf[s] /\ buf[d] \in Message
    BY DEF Tx, Hands
<1>3. PICK m \in Message : m = buf[d]
    BY <1>2
<1>4. /\ fwd' = Append(fwd, d) /\ spc[s] = "tx" /\ spc' = [spc EXCEPT ![s] = "kick"]
      /\ sbuf' = [sbuf EXCEPT ![s] = None]
      /\ UNCHANGED <<buf, sseq, isr, isrDesc, rseq>>
    BY <1>2 DEF Tx, rxisr, HeaderIndex
<1>5. PICK n \in Nat : n = Len(fwd)
    BY DEF TypeOK
<1>6. /\ Len(fwd') = n + 1 /\ fwd'[n + 1] = d
      /\ \A i \in 1 .. n : fwd'[i] = fwd[i]
    BY <1>4, <1>5 DEF TypeOK
<1>7. m.src = s /\ m.dst \in Addr /\ sseq[s][m.dst] = (m.seq + 1) % SeqMod
    BY <1>2, <1>3, <1>4 DEF Chained, Written, Message
<1>8. e[n] \in Numbers
    BY <1>5
<1>9. PICK b \in Numbers : /\ b = Bump(e[n], m)
                           /\ \A x \in Senders, a \in Addr :
                                 b[x][a] = IF x = s /\ a = m.dst
                                           THEN (e[n][x][a] + 1) % SeqMod ELSE e[n][x][a]
    BY <1>7, <1>8, BumpType
<1>10. \A x \in Senders, a \in Addr : e[n][x][a] = Unsent(x, a)
    BY <1>1, <1>5 DEF Chain
<1>11. e[n][s][m.dst] = m.seq
    BY <1>2, <1>3, <1>4, <1>7, <1>10 DEF Unsent
<1> DEFINE g == [i \in 0 .. n + 1 |-> IF i = n + 1 THEN b ELSE e[i]]
<1>12. /\ g \in [0 .. n + 1 -> Numbers] /\ g[n + 1] = b
       /\ \A i \in 0 .. n : g[i] = e[i]
    BY <1>5, <1>9
<1> HIDE DEF g
<1>13. \A x \in Senders, a \in Addr : g[n + 1][x][a] = Unsent(x, a)'
    <2> SUFFICES ASSUME NEW x \in Senders, NEW a \in Addr
                 PROVE  b[x][a] = Unsent(x, a)'
        BY <1>12
    <2>1. CASE x # s
        <3>1. spc'[x] = spc[x] /\ sbuf'[x] = sbuf[x]
            BY <1>4, <2>1 DEF TypeOK
        <3> QED BY <1>4, <1>9, <1>10, <2>1, <3>1 DEF Unsent
    <2>2. CASE x = s
        <3>1. Unsent(s, a)' = sseq[s][a]
            BY <1>4 DEF Unsent, TypeOK
        <3>2. CASE a = m.dst
            BY <1>7, <1>9, <1>11, <2>2, <3>1, <3>2
        <3>3. CASE a # m.dst
            <4>1. Unsent(s, a) = sseq[s][a]
                BY <1>2, <1>3, <3>3 DEF Unsent
            <4> QED BY <1>9, <1>10, <2>2, <3>1, <3>3, <4>1
        <3> QED BY <3>2, <3>3
    <2> QED BY <2>1, <2>2
<1>14. \A i \in 1 .. n + 1 : Follows(g[i - 1], g[i], buf[fwd'[i]])
    <2> SUFFICES ASSUME NEW i \in 1 .. n + 1
                 PROVE  Follows(g[i - 1], g[i], buf[fwd'[i]])
        OBVIOUS
    <2>1. CASE i = n + 1
        <3>1. Follows(e[n], b, m)
            BY <1>7, <1>9, <1>11 DEF Follows
        <3>2. g[i - 1] = e[n] /\ g[i] = b /\ buf[fwd'[i]] = m
            BY <1>3, <1>6, <1>12, <2>1
        <3> QED BY <3>1, <3>2
    <2>2. CASE i # n + 1
        <3>1. i \in 1 .. n /\ i \in 0 .. n /\ i - 1 \in 0 .. n
            BY <2>2
        <3>2. g[i - 1] = e[i - 1] /\ g[i] = e[i] /\ fwd'[i] = fwd[i]
            BY <1>6, <1>12, <3>1
        <3>3. Follows(e[i - 1], e[i], buf[fwd[i]])
            BY <1>1, <1>5, <3>1 DEF Chain
        <3> QED BY <3>2, <3>3
    <2> QED BY <2>1, <2>2
<1>15. g[0] = e[0]
    BY <1>12
<1>16. Chain(g)'
    <2>1. /\ isr' = "dispatch" => Follows(rseq, g[0], buf[isrDesc])
          /\ isr' # "dispatch" => g[0] = rseq
        BY <1>1, <1>4, <1>15 DEF Chain
    <2> QED BY <1>4, <1>6, <1>13, <1>14, <2>1 DEF Chain
<1>17. Written'
    BY <1>4 DEF Chained, Written, TypeOK
<1> QED BY <1>6, <1>12, <1>16, <1>17 DEF Chained

LEMMA IsrRxChains ==
    ASSUME IInv, Chained, IsrRx
    PROVE  Chained'
<1> USE DEF IInv
<1>1. PICK e \in [0 .. Len(fwd) -> Numbers] : Chain(e)
    BY DEF Chained
<1>2. /\ fwd \in Seq(Desc) /\ fwd # << >> /\ isr = "drain" /\ isr' = "dispatch"
      /\ fwd' = Tail(fwd) /\ isrDesc' = Head(fwd)
      /\ UNCHANGED <<buf, sseq, spc, sbuf, rseq>>
    BY DEF IsrRx, TypeOK, sender
<1>3. PICK n \in Nat : n + 1 = Len(fwd)
    BY <1>2
<1>4. /\ Len(fwd') = n /\ isrDesc' = fwd[1] /\ \A i \in 1 .. n : fwd'[i] = fwd[i + 1]
    BY <1>2, <1>3
<1> DEFINE g == [i \in 0 .. n |-> e[i + 1]]
<1>5. g \in [0 .. n -> Numbers] /\ \A i \in 0 .. n : g[i] = e[i + 1]
    BY <1>3
<1> HIDE DEF g
<1>6. \A i \in 1 .. n + 1 : Follows(e[i - 1], e[i], buf[fwd[i]])
    BY <1>1, <1>3 DEF Chain
<1>7. Follows(rseq, g[0], buf[isrDesc'])
    <2>1. e[0] = rseq
        BY <1>1, <1>2 DEF Chain
    <2>2. Follows(e[0], e[1], buf[fwd[1]])
        <3>1. 1 \in 1 .. n + 1 /\ 1 - 1 = 0
            OBVIOUS
        <3> QED BY <1>6, <3>1
    <2>3. g[0] = e[1]
        BY <1>5
    <2> QED BY <1>4, <2>1, <2>2, <2>3
<1>8. \A i \in 1 .. n : Follows(g[i - 1], g[i], buf[fwd'[i]])
    <2> SUFFICES ASSUME NEW i \in 1 .. n PROVE Follows(g[i - 1], g[i], buf[fwd'[i]])
        OBVIOUS
    <2>1. PICK j \in 1 .. n + 1 : j = i + 1
        OBVIOUS
    <2>2. Follows(e[j - 1], e[j], buf[fwd[j]])
        BY <1>6
    <2>3. j - 1 = i /\ g[i - 1] = e[i] /\ g[i] = e[j] /\ fwd'[i] = fwd[j]
        <3>1. i - 1 \in 0 .. n /\ i \in 0 .. n /\ i - 1 + 1 = i
            OBVIOUS
        <3> QED BY <1>4, <1>5, <2>1, <3>1
    <2> QED BY <2>2, <2>3
<1>9. \A s \in Senders, a \in Addr : g[n][s][a] = Unsent(s, a)'
    <2>1. g[n] = e[n + 1]
        BY <1>5
    <2>2. \A s \in Senders, a \in Addr : Unsent(s, a)' = Unsent(s, a)
        BY <1>2 DEF Unsent
    <2> QED BY <1>1, <1>3, <2>1, <2>2 DEF Chain
<1>10. Chain(g)'
    BY <1>2, <1>4, <1>7, <1>8, <1>9 DEF Chain
<1>11. Written'
    BY <1>2 DEF Chained, Written
<1> QED BY <1>4, <1>5, <1>10, <1>11 DEF Chained

LEMMA DispatchChains ==
    ASSUME Chained, IsrHold \/ IsrRelease
    PROVE  Chained'
<1>1. PICK e \in [0 .. Len(fwd) -> Numbers] : Chain(e)
    BY DEF Chained
<1>2. /\ isr = "dispatch" /\ isr' = "drain" /\ rseq' = Bump(rseq, buf[isrDesc])
      /\ UNCHANGED <<fwd, buf, sseq, spc, sbuf>>
    BY DEF IsrHold, IsrRelease, Deliver, Bump, sender
<1>3. e[0] = rseq'
    BY <1>1, <1>2 DEF Chain, Follows
<1>4. \A s \in Senders, a \in Addr : Unsent(s, a)' = Unsent(s, a)
    BY <1>2 DEF Unsent
<1>5. /\ \A i \in 1 .. Len(fwd) : Follows(e[i - 1], e[i], buf[fwd[i]])
      /\ \A s \in Senders, a \in Addr : e[Len(fwd)][s][a] = Unsent(s, a)'
    BY <1>1, <1>4 DEF Chain
<1>6. Chain(e)'
    BY <1>2, <1>3, <1>5 DEF Chain
<1>7. Written'
    BY <1>2 DEF Chained, Written
<1> QED BY <1>1, <1>2, <1>6, <1>7 DEF Chained

LEMMA ChainInit == Init => Chained
<1> SUFFICES ASSUME Init PROVE Chained
    OBVIOUS
<1>1. fwd = << >> /\ Len(fwd) = 0 /\ isr = "off" /\ sseq = rseq
      /\ \A s \in Senders : spc[s] = "idle"
    BY DEF Init
<1>2. PICK e : e = [i \in 0 .. 0 |-> rseq]
    OBVIOUS
<1>3. rseq \in Numbers
    BY InitIInv DEF IInv, TypeOK, Numbers
<1>4. e \in [0 .. Len(fwd) -> Numbers] /\ e[0] = rseq
    BY <1>1, <1>2, <1>3
<1>5. Chain(e)
    BY <1>1, <1>4 DEF Chain, Unsent
<1> QED BY <1>1, <1>4, <1>5 DEF Chained, Written

LEMMA ChainStep ==
    ASSUME IInv, BInv, Chained, [Next]_vars
    PROVE  Chained'
<1>0. spc \in [Senders -> {"idle", "alloc", "wait", "fill", "tx", "kick"}]
      /\ sbuf \in [Senders -> Desc \cup {None}]
    BY DEF IInv, TypeOK
<1>1. ASSUME NEW s \in Senders, NEW a \in Addr, NEW t \in Timeouts,
             NEW n \in BOOLEAN, Send(s, a, t, n)
      PROVE  Chained'
    BY <1>0, <1>1, ChainKept DEF Send, rxisr
<1>2. ASSUME NEW s \in Senders, Alloc(s) \/ Poll(s) \/ Kick(s)
      PROVE  Chained'
    BY <1>0, <1>2, ChainKept DEF Alloc, Poll, Kick, TakeBuffer, GiveUp, rxisr
<1>3. CASE IsrEnter \/ IsrEmpty \/ IsrExit
    BY <1>3, ChainKept DEF IsrEnter, IsrEmpty, IsrExit, sender
<1>4. ASSUME NEW r \in Receivers, ReceiverStep(r)
      PROVE  Chained'
    BY <1>4, ChainKept DEF ReceiverStep, QueueRecv, Release, ReleasePublish, sender, rxisr
<1>5. CASE UNCHANGED vars
    BY <1>5, ChainKept DEF vars, sender, rxisr
<1> QED BY <1>1, <1>2, <1>3, <1>4, <1>5, FillChains, TxChains, IsrRxChains,
           DispatchChains DEF Next, SenderStep, IsrStep

\* An endpoint gets the messages of each sender in the order they were sent,
\* none missing and none twice, for any number of senders and endpoints.
THEOREM InSequence ==
    ASSUME OneWriter
    PROVE  Spec => []InOrder
<1>1. IInv /\ BInv /\ Chained /\ [Next]_vars => Chained'
    BY ChainStep
<1>2. Chained => InOrder
    BY DEF Chained, Chain, Follows, InOrder
<1> QED BY BInductive, ChainInit, <1>1, <1>2, PTL DEF Spec

=============================================================================
