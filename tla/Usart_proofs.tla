------------------------------ MODULE Usart_proofs ------------------------------
(***************************************************************************)
(* For every depth of the hardware queues, every ring and every size of    *)
(* request, with sends and receives that overlap as the users like: bytes  *)
(* go out in order, an interrupt storm and a report of nothing come from a *)
(* stale mask only, and until there is one the receive path is a channel   *)
(* of bytes that loses them only as the driver says (ByteChannel).  The    *)
(* users keep the rules of Careful.                                        *)
(***************************************************************************)
EXTENDS Usart, SequenceTheorems, TLAPS

-----------------------------------------------------------------------------
\* The invariant.

Sending   == {"sendDisable", "sendStore", "sendEnable"}
Receiving == {"recvDisable", "recvStore", "recvEnable"}
Places    == Sending \union Receiving \union {"idle", "endSend", "emptyRecv", "endRecv"}

TypeInv ==
    /\ ring \in BOOLEAN
    /\ ints \in SUBSET Interrupts /\ mask \in SUBSET Interrupts
    /\ rxFifo \in Seq(Byte) /\ Len(rxFifo) <= RxFifo
    /\ rxErr \in BOOLEAN /\ arrived \in BOOLEAN /\ rxNext \in Byte
    /\ rxLevel \in 0 .. RxFifo - 1 /\ rxWatermark \in 0 .. RxFifo - 1
    /\ ringBuf \in [0 .. RingSize - 1 -> Byte]
    /\ head \in 0 .. RingSize - 1 /\ tail \in 0 .. RingSize - 1
    /\ rxState \in {"idle", "busy"} /\ rxSize \in Nat /\ rxLast \in Byte
    /\ txFifo \in Seq(Nat) /\ Len(txFifo) <= TxFifo
    /\ shifting \in BOOLEAN /\ onWire \in Nat
    /\ txState \in {"idle", "busy"} /\ txSize \in Nat /\ txAll \in Nat /\ txSize <= txAll
    /\ cut \in BOOLEAN
    /\ isr \in BOOLEAN /\ recvEn \in BOOLEAN /\ sendEn \in BOOLEAN /\ stale \in BOOLEAN
    /\ pc \in Places /\ arg \in Nat

\* What a call finds when it goes on.
CallInv ==
    /\ pc \in Sending \ {"sendEnable"} => arg \in SendSizes /\ txState = "idle"
    /\ pc = "sendEnable" => txState = "busy" /\ txSize > 0
    /\ pc \in Receiving \ {"recvEnable"} => arg \in ReceiveSizes /\ rxState = "idle"
    /\ pc = "sendDisable" => ints \subseteq mask
    /\ pc \in {"sendStore", "sendEnable"} => ints = {} /\ ~isr
    /\ pc \notin Sending \union Receiving => mask = {}
    /\ txSize > 0 => "TXLVL" \in ints \union mask \/ pc \in {"sendEnable", "endSend"}
    /\ pc = "endSend" => cut /\ "TXLVL" \notin ints
    /\ pc = "endRecv" => ring \/ "RXLVL" \notin ints
    /\ pc = "emptyRecv" => ~ring

\* The states follow the sizes, the locals of the handler too.
StateInv ==
    /\ rxState = "busy" <=> rxSize > 0
    /\ txState = "idle" => txSize = 0
    /\ isr => /\ sendEn <=> txSize > 0
              /\ recvEn => rxSize > 0 \/ ring

\* Unless a mask is stale, an interrupt is enabled, or going to be enabled again,
\* for something to be done, and none disturbs the stores of a receive.
FreshInv ==
    ~stale =>
        /\ pc = "recvDisable" => ints \subseteq mask
        /\ pc = "recvStore" => ints = {} /\ ~isr
        /\ "RXLVL" \in ints \union mask => rxSize > 0 \/ ring
        /\ "TXLVL" \in ints \union mask => txSize > 0
        /\ "TXIDLE" \in ints \union mask => cut \/ txState = "busy"

\* The queue holds the bytes of the request that come after the one on the line.
WireInv ==
    ~cut => /\ \A i \in 1 .. Len(txFifo) : txFifo[i] = onWire + i
            /\ onWire + Len(txFifo) = txAll - txSize
            /\ txState = "idle" => txFifo = << >>

\* A request takes bytes from the line when the ring has none.
RingInv == rxSize > 0 \/ ~ring => head = tail

IInv == TypeInv /\ CallInv /\ StateInv /\ FreshInv /\ WireInv /\ RingInv

-----------------------------------------------------------------------------
\* The ring, for any indices.

RingCount(h, t) == IF t > h THEN h + RingSize - t ELSE h - t
Cell(t, i)      == (t + i - 1) % RingSize
Kept(b, h, t)   == [i \in 1 .. RingCount(h, t) |-> b[Cell(t, i)]]

LEMMA StoredIs == RingLength = RingCount(head, tail) /\ Stored = Kept(ringBuf, head, tail)
BY DEF RingLength, RingCount, Stored, Kept, Cell

LEMMA Sizes == /\ RingSize \in Nat /\ RingSize > 1 /\ RxFifo \in Nat /\ RxFifo > 0
               /\ TxFifo \in Nat /\ TxFifo > 0 /\ SeqMod \in Nat /\ SeqMod > 0
               /\ 0 \in Byte /\ SendSizes \subseteq Nat \ {0} /\ ReceiveSizes \subseteq Nat \ {0}
               /\ Watermarks \subseteq 0 .. RxFifo - 1
BY UsartAssumption DEF Byte

LEMMA WrapIs ==
    ASSUME NEW a \in Nat, a < 2 * RingSize
    PROVE  /\ a % RingSize \in 0 .. RingSize - 1
           /\ a % RingSize = (IF a < RingSize THEN a ELSE a - RingSize)
<1>1. CASE a < RingSize
    BY <1>1, Sizes
<1>2. CASE a >= RingSize
    <2>1. a % RingSize = (a - RingSize) % RingSize
        BY <1>2, Sizes
    <2>2. a - RingSize \in 0 .. RingSize - 1
        BY <1>2, Sizes
    <2> QED BY <1>2, <2>1, <2>2, Sizes
<1> QED BY <1>1, <1>2, Sizes

LEMMA CellIs ==
    ASSUME NEW t \in 0 .. RingSize - 1, NEW i \in 1 .. RingSize
    PROVE  /\ Cell(t, i) \in 0 .. RingSize - 1
           /\ Cell(t, i) = (IF t + i - 1 < RingSize THEN t + i - 1 ELSE t + i - 1 - RingSize)
<1>1. PICK a \in Nat : a = t + i - 1 /\ a < 2 * RingSize
    BY Sizes
<1>2. a % RingSize \in 0 .. RingSize - 1 /\ a % RingSize = (IF a < RingSize THEN a ELSE a - RingSize)
    BY <1>1, WrapIs
<1>3. Cell(t, i) = a % RingSize
    BY <1>1, Zenon DEF Cell
<1>4. PICK c : c = Cell(t, i)
    OBVIOUS
<1>5. c \in 0 .. RingSize - 1 /\ c = (IF a < RingSize THEN a ELSE a - RingSize)
    BY <1>2, <1>3, <1>4, Zenon
<1>6. c = (IF t + i - 1 < RingSize THEN t + i - 1 ELSE t + i - 1 - RingSize)
    BY <1>1, <1>5, Sizes
<1> QED BY <1>4, <1>5, <1>6, Zenon

LEMMA CountIs ==
    ASSUME NEW h \in 0 .. RingSize - 1, NEW t \in 0 .. RingSize - 1
    PROVE  /\ RingCount(h, t) \in 0 .. RingSize - 1
           /\ RingCount(h, t) = 0 <=> h = t
           /\ NextIndex(h) \in 0 .. RingSize - 1
           /\ RingCount(h, t) # RingSize - 1 => RingCount(NextIndex(h), t) = RingCount(h, t) + 1
BY Sizes DEF RingCount, NextIndex

LEMMA KeptIs ==
    ASSUME NEW b \in [0 .. RingSize - 1 -> Byte],
           NEW h \in 0 .. RingSize - 1, NEW t \in 0 .. RingSize - 1
    PROVE  /\ Kept(b, h, t) \in Seq(Byte)
           /\ Len(Kept(b, h, t)) = RingCount(h, t)
           /\ \A i \in 1 .. RingCount(h, t) :
                  /\ Kept(b, h, t)[i] = b[Cell(t, i)]
                  /\ i \in 1 .. RingSize
<1>1. RingCount(h, t) \in 0 .. RingSize - 1
    BY CountIs
<1>2. \A i \in 1 .. RingCount(h, t) : i \in 1 .. RingSize
    BY <1>1, Sizes
<1>3. \A i \in 1 .. RingCount(h, t) : b[Cell(t, i)] \in Byte
    BY <1>2, CellIs
<1>4. Kept(b, h, t) = [i \in 1 .. RingCount(h, t) |-> b[Cell(t, i)]]
    BY DEF Kept
<1>5. RingCount(h, t) \in Nat
    BY <1>1, Sizes
<1>6. Kept(b, h, t) \in Seq(Byte) /\ Len(Kept(b, h, t)) = RingCount(h, t)
    BY <1>3, <1>4, <1>5
<1> QED BY <1>2, <1>4, <1>6

\* A byte that the ring has room for comes last.
LEMMA KeptAdd ==
    ASSUME NEW b \in [0 .. RingSize - 1 -> Byte], NEW x \in Byte,
           NEW h \in 0 .. RingSize - 1, NEW t \in 0 .. RingSize - 1,
           RingCount(h, t) # RingSize - 1
    PROVE  Kept([b EXCEPT ![h] = x], NextIndex(h), t) = Append(Kept(b, h, t), x)
<1>1. PICK c : c = [b EXCEPT ![h] = x]
    OBVIOUS
<1>2. PICK n \in Nat : n = RingCount(h, t)
    BY CountIs, Sizes
<1>3. PICK s : s = Kept(b, h, t)
    OBVIOUS
<1>4. PICK g : g = NextIndex(h)
    OBVIOUS
<1>5. n + 1 <= RingSize - 1 /\ RingCount(g, t) = n + 1 /\ g \in 0 .. RingSize - 1
    <2>1. /\ RingCount(h, t) \in 0 .. RingSize - 1 /\ NextIndex(h) \in 0 .. RingSize - 1
          /\ RingCount(NextIndex(h), t) = RingCount(h, t) + 1
        BY CountIs, Zenon
    <2> QED BY <1>2, <1>4, <2>1, Sizes
<1>6. c \in [0 .. RingSize - 1 -> Byte]
    BY <1>1
<1>7. s \in Seq(Byte) /\ Len(s) = n /\ \A i \in 1 .. n : s[i] = b[Cell(t, i)]
    BY <1>2, <1>3, KeptIs
<1>8. PICK r : r = Kept(c, g, t)
    OBVIOUS
<1>9. r \in Seq(Byte) /\ Len(r) = n + 1 /\ \A i \in 1 .. n + 1 : r[i] = c[Cell(t, i)]
    <2>1. /\ Kept(c, g, t) \in Seq(Byte)
          /\ Len(Kept(c, g, t)) = RingCount(g, t)
          /\ \A i \in 1 .. RingCount(g, t) : Kept(c, g, t)[i] = c[Cell(t, i)]
        BY <1>5, <1>6, KeptIs, Zenon
    <2> QED BY <1>5, <1>8, <2>1, Zenon
<1>10. \A i \in 1 .. n + 1 : Cell(t, i) = IF t + i - 1 < RingSize THEN t + i - 1 ELSE t + i - 1 - RingSize
    <2> SUFFICES ASSUME NEW i \in 1 .. n + 1
                 PROVE  Cell(t, i) = IF t + i - 1 < RingSize THEN t + i - 1 ELSE t + i - 1 - RingSize
        OBVIOUS
    <2>1. i \in 1 .. RingSize
        BY <1>5, Sizes
    <2> QED BY <2>1, CellIs
<1>11. h = IF t + n < RingSize THEN t + n ELSE t + n - RingSize
    BY <1>2, Sizes DEF RingCount
<1>12. Cell(t, n + 1) = h /\ \A i \in 1 .. n : Cell(t, i) # h
    BY <1>5, <1>10, <1>11, Sizes
<1>13. \A i \in 1 .. n : r[i] = s[i]
    <2> SUFFICES ASSUME NEW i \in 1 .. n PROVE r[i] = s[i]
        OBVIOUS
    <2>1. i \in 1 .. n + 1 /\ i \in 1 .. RingSize
        BY <1>5, Sizes
    <2>2. Cell(t, i) \in 0 .. RingSize - 1
        BY <2>1, CellIs
    <2>3. c[Cell(t, i)] = b[Cell(t, i)]
        BY <1>1, <1>12, <2>2
    <2> QED BY <1>7, <1>9, <2>1, <2>3
<1>14. r[n + 1] = x
    BY <1>1, <1>9, <1>12
<1>15. r = Append(s, x)
    BY <1>7, <1>9, <1>13, <1>14
<1> QED BY <1>1, <1>3, <1>4, <1>8, <1>15

\* Taking the k oldest bytes leaves the others.
LEMMA KeptTake ==
    ASSUME NEW b \in [0 .. RingSize - 1 -> Byte],
           NEW h \in 0 .. RingSize - 1, NEW t \in 0 .. RingSize - 1,
           NEW k \in 0 .. RingCount(h, t)
    PROVE  /\ (t + k) % RingSize \in 0 .. RingSize - 1
           /\ RingCount(h, (t + k) % RingSize) = RingCount(h, t) - k
           /\ Kept(b, h, (t + k) % RingSize) = SubSeq(Kept(b, h, t), k + 1, RingCount(h, t))
<1>1. PICK n \in Nat : n = RingCount(h, t) /\ n <= RingSize - 1
    <2>1. RingCount(h, t) \in 0 .. RingSize - 1
        BY CountIs, Zenon
    <2> QED BY <2>1, Sizes
<1>2. k \in Nat /\ k <= n
    BY <1>1
<1>3. PICK u : u = (t + k) % RingSize
    OBVIOUS
<1>4. u \in 0 .. RingSize - 1 /\ u = IF t + k < RingSize THEN t + k ELSE t + k - RingSize
    <2>1. PICK a \in Nat : a = t + k /\ a < 2 * RingSize
        BY <1>1, <1>2, Sizes
    <2>2. a % RingSize \in 0 .. RingSize - 1 /\ a % RingSize = (IF a < RingSize THEN a ELSE a - RingSize)
        BY <2>1, WrapIs
    <2>3. u = a % RingSize
        BY <1>3, <2>1, Zenon
    <2>4. u \in 0 .. RingSize - 1 /\ u = (IF a < RingSize THEN a ELSE a - RingSize)
        BY <2>2, <2>3, Zenon
    <2> QED BY <1>2, <2>1, <2>4, Sizes
<1>5. RingCount(h, u) = n - k
    BY <1>1, <1>2, <1>4, Sizes DEF RingCount
<1>6. PICK s : s = Kept(b, h, t)
    OBVIOUS
<1>7. PICK r : r = Kept(b, h, u)
    OBVIOUS
<1>8. s \in Seq(Byte) /\ Len(s) = n /\ \A i \in 1 .. n : s[i] = b[Cell(t, i)]
    <2>1. /\ Kept(b, h, t) \in Seq(Byte)
          /\ Len(Kept(b, h, t)) = RingCount(h, t)
          /\ \A i \in 1 .. RingCount(h, t) : Kept(b, h, t)[i] = b[Cell(t, i)]
        BY KeptIs, Zenon
    <2> QED BY <1>1, <1>6, <2>1, Zenon
<1>9. r \in Seq(Byte) /\ Len(r) = n - k /\ \A i \in 1 .. n - k : r[i] = b[Cell(u, i)]
    <2>1. /\ Kept(b, h, u) \in Seq(Byte)
          /\ Len(Kept(b, h, u)) = RingCount(h, u)
          /\ \A i \in 1 .. RingCount(h, u) : Kept(b, h, u)[i] = b[Cell(u, i)]
        BY <1>4, KeptIs, Zenon
    <2> QED BY <1>5, <1>7, <2>1, Zenon
<1>10. ASSUME NEW i \in 1 .. n - k
       PROVE  r[i] = s[k + i]
    <2>1. k + i \in 1 .. n /\ k + i \in 1 .. RingSize /\ i \in 1 .. RingSize
        BY <1>1, <1>2, Sizes
    <2>2. Cell(t, k + i) = IF t + (k + i) - 1 < RingSize THEN t + (k + i) - 1 ELSE t + (k + i) - 1 - RingSize
        BY <2>1, CellIs
    <2>3. Cell(u, i) = IF u + i - 1 < RingSize THEN u + i - 1 ELSE u + i - 1 - RingSize
        BY <1>4, <2>1, CellIs
    <2>4. Cell(t, k + i) = Cell(u, i)
        BY <1>1, <1>2, <1>4, <2>2, <2>3, Sizes
    <2> QED BY <1>8, <1>9, <2>1, <2>4
<1>11. r = SubSeq(s, k + 1, n)
    <2>1. n - (k + 1) + 1 = n - k /\ n - k \in Nat /\ k + 1 \in 1 .. n + 1
        BY <1>2
    <2>2. SubSeq(s, k + 1, n) \in Seq(Byte) /\ Len(SubSeq(s, k + 1, n)) = n - k
          /\ \A i \in 1 .. n - k : SubSeq(s, k + 1, n)[i] = s[k + i]
        BY <1>8, <2>1
    <2>3. \A i \in 1 .. n - k : r[i] = SubSeq(s, k + 1, n)[i]
        BY <1>10, <2>2, Zenon
    <2>4. Len(r) = Len(SubSeq(s, k + 1, n)) /\ Len(r) = n - k
        BY <1>9, <2>2, Zenon
    <2> QED BY <1>9, <2>2, <2>3, <2>4, SeqEqual
<1> QED BY <1>1, <1>3, <1>4, <1>5, <1>6, <1>7, <1>11

-----------------------------------------------------------------------------
\* The invariant, action by action.

LEMMA InitKeeps == Init => IInv
<1> SUFFICES ASSUME Init PROVE IInv
    OBVIOUS
<1>1. TypeInv
    <2>1. ringBuf \in [0 .. RingSize - 1 -> Byte] /\ head \in 0 .. RingSize - 1 /\ tail \in 0 .. RingSize - 1
        BY Sizes DEF Init
    <2>2. rxWatermark \in 0 .. RxFifo - 1 /\ rxLevel \in 0 .. RxFifo - 1
        BY Sizes DEF Init
    <2>3. rxFifo \in Seq(Byte) /\ Len(rxFifo) <= RxFifo /\ txFifo \in Seq(Nat) /\ Len(txFifo) <= TxFifo
        BY Sizes DEF Init
    <2>4. ints \in SUBSET Interrupts /\ mask \in SUBSET Interrupts
        BY DEF Init, Interrupts
    <2>5. stale \in BOOLEAN
        BY DEF Init
    <2>6. rxNext \in Byte /\ rxLast \in Byte /\ pc \in Places /\ arg \in Nat
        BY Sizes DEF Init, Places
    <2>7. /\ ring \in BOOLEAN /\ rxErr \in BOOLEAN /\ arrived \in BOOLEAN /\ shifting \in BOOLEAN
          /\ cut \in BOOLEAN /\ isr \in BOOLEAN /\ recvEn \in BOOLEAN /\ sendEn \in BOOLEAN
        BY DEF Init
    <2> QED BY <2>1, <2>2, <2>3, <2>4, <2>5, <2>6, <2>7 DEF Init, TypeInv
<1>2. CallInv
    BY DEF Init, CallInv, Sending, Receiving
<1>3. StateInv /\ FreshInv
    BY DEF Init, StateInv, FreshInv
<1>4. WireInv
    BY DEF Init, WireInv
<1>5. RingInv
    BY DEF Init, RingInv
<1> QED BY <1>1, <1>2, <1>3, <1>4, <1>5 DEF IInv

LEMMA SameKeeps == IInv /\ UNCHANGED vars => IInv'
BY DEF IInv, TypeInv, CallInv, StateInv, FreshInv, WireInv, RingInv, vars, fixed, hw, rx, tx, irq, task

\* The line and the queues touch nothing the calls and the handler know.
LEMMA ArriveKeeps == IInv /\ Arrive => IInv'
<1> SUFFICES ASSUME IInv, Arrive PROVE IInv'
    OBVIOUS
<1> USE DEF fixed, rx, tx, irq, task
<1>1. rxFifo' \in Seq(Byte) /\ Len(rxFifo') <= RxFifo
    <2>1. rxFifo \in Seq(Byte) /\ Len(rxFifo) \in Nat /\ Len(rxFifo) <= RxFifo /\ rxNext \in Byte
        BY DEF IInv, TypeInv
    <2>2. CASE Len(rxFifo) < RxFifo
        <3>1. rxFifo' = Append(rxFifo, rxNext)
            BY <2>2 DEF Arrive
        <3> QED BY <2>1, <2>2, <3>1, Sizes
    <2>3. CASE ~(Len(rxFifo) < RxFifo)
        BY <2>1, <2>3 DEF Arrive
    <2> QED BY <2>2, <2>3
<1>2. rxNext' \in Byte
    BY Sizes DEF IInv, TypeInv, Arrive, Byte
<1>3. TypeInv'
    BY <1>1, <1>2 DEF IInv, TypeInv, Arrive
<1>4. CallInv' /\ StateInv' /\ FreshInv'
    BY DEF IInv, CallInv, StateInv, FreshInv, Arrive
<1>5. WireInv' /\ RingInv'
    BY DEF IInv, WireInv, RingInv, Arrive
<1> QED BY <1>3, <1>4, <1>5 DEF IInv

LEMMA ShiftKeeps == IInv /\ Shift => IInv'
<1> SUFFICES ASSUME IInv, Shift PROVE IInv'
    OBVIOUS
<1> USE DEF fixed, rx, tx, irq, task
<1>1. /\ txFifo \in Seq(Nat) /\ txFifo # << >> /\ Len(txFifo) \in Nat
      /\ txFifo' = Tail(txFifo) /\ onWire' = txFifo[1]
    BY DEF IInv, TypeInv, Shift
<1>2. /\ txFifo' \in Seq(Nat) /\ Len(txFifo') = Len(txFifo) - 1 /\ Len(txFifo) > 0
      /\ \A i \in 1 .. Len(txFifo') : txFifo'[i] = txFifo[i + 1]
      /\ onWire' \in Nat
    BY <1>1
<1>3. TypeInv'
    BY <1>2, Sizes DEF IInv, TypeInv, Shift
<1>4. WireInv'
    <2> SUFFICES ASSUME ~cut PROVE /\ \A i \in 1 .. Len(txFifo') : txFifo'[i] = onWire' + i
                                   /\ onWire' + Len(txFifo') = txAll - txSize
                                   /\ txState = "idle" => txFifo' = << >>
        BY DEF WireInv, Shift
    <2>1. /\ \A i \in 1 .. Len(txFifo) : txFifo[i] = onWire + i
          /\ onWire + Len(txFifo) = txAll - txSize
          /\ txState # "idle"
        BY <1>1 DEF IInv, WireInv
    <2>2. onWire \in Nat /\ txAll \in Nat /\ txSize \in Nat
        BY DEF IInv, TypeInv
    <2>3. onWire' = onWire + 1
        BY <1>1, <1>2, <2>1
    <2> QED BY <1>1, <1>2, <2>1, <2>2, <2>3
<1>5. CallInv' /\ StateInv' /\ FreshInv' /\ RingInv'
    BY DEF IInv, CallInv, StateInv, FreshInv, RingInv, Shift
<1> QED BY <1>3, <1>4, <1>5 DEF IInv

LEMMA ByteOutKeeps == IInv /\ ByteOut => IInv'
<1> SUFFICES ASSUME IInv, ByteOut PROVE IInv'
    OBVIOUS
<1> USE DEF fixed, rx, tx, irq, task
<1>1. TypeInv'
    BY DEF IInv, TypeInv, ByteOut
<1>2. CallInv' /\ StateInv' /\ FreshInv'
    BY DEF IInv, CallInv, StateInv, FreshInv, ByteOut
<1>3. WireInv' /\ RingInv'
    BY DEF IInv, WireInv, RingInv, ByteOut
<1> QED BY <1>1, <1>2, <1>3 DEF IInv

LEMMA IrqEnterKeeps == IInv /\ IrqEnter => IInv'
<1> SUFFICES ASSUME IInv, IrqEnter PROVE IInv'
    OBVIOUS
<1> USE DEF fixed, rx, tx, irq, task
<1>1. TypeInv'
    <2>1. rxFifo' \in Seq(Byte) /\ Len(rxFifo') <= RxFifo
        BY Sizes DEF IInv, TypeInv, IrqEnter
    <2>2. recvEn' \in BOOLEAN /\ sendEn' \in BOOLEAN /\ stale' \in BOOLEAN
        BY DEF IInv, TypeInv, IrqEnter
    <2> QED BY <2>1, <2>2 DEF IInv, TypeInv, IrqEnter
<1>2. ints # {}
    BY DEF IrqEnter, Pending
<1>3. CallInv'
    BY <1>2 DEF IInv, CallInv, IrqEnter
<1>4. StateInv'
    <2>1. (rxSize # 0 <=> rxSize > 0) /\ (txSize # 0 <=> txSize > 0)
        BY DEF IInv, TypeInv
    <2>2. (sendEn' <=> txSize > 0) /\ (recvEn' => rxSize > 0 \/ ring)
        BY <2>1, Zenon DEF IrqEnter
    <2> QED BY <2>2 DEF IInv, StateInv, IrqEnter
<1>5. FreshInv'
    BY <1>2 DEF IInv, FreshInv, IrqEnter
<1>6. WireInv' /\ RingInv'
    BY DEF IInv, WireInv, RingInv, IrqEnter
<1> QED BY <1>1, <1>3, <1>4, <1>5, <1>6 DEF IInv

\* Taking n bytes from the ring leaves a request only when the ring is empty.
LEMMA TakeIs ==
    ASSUME TypeInv, NEW n \in Nat, TakeFromRing(n)
    PROVE  \E k \in 0 .. RingLength :
               /\ k <= n /\ (k = n \/ k = RingLength)
               /\ tail' = (tail + k) % RingSize
               /\ tail' \in 0 .. RingSize - 1
               /\ RingCount(head, tail') = RingLength - k
               /\ Kept(ringBuf, head, tail') = SubSeq(Stored, k + 1, RingLength)
               /\ rxLast' \in Byte
               /\ rxLast' = IF k = 0 THEN rxLast ELSE Stored[k]
               /\ rxSize' = n - k /\ rxSize' \in Nat
               /\ rxState' = IF n = k THEN rxState ELSE "busy"
               /\ rxSize' > 0 => head = tail'
<1>1. /\ ringBuf \in [0 .. RingSize - 1 -> Byte] /\ head \in 0 .. RingSize - 1
      /\ tail \in 0 .. RingSize - 1 /\ rxLast \in Byte
    BY DEF TypeInv
<1>2. RingLength = RingCount(head, tail) /\ Stored = Kept(ringBuf, head, tail)
    BY StoredIs
<1>3. RingCount(head, tail) \in 0 .. RingSize - 1
    BY <1>1, CountIs, Zenon
<1>4. RingLength \in Nat
    BY <1>2, <1>3, Sizes
<1>5. PICK k : k = IF n < RingLength THEN n ELSE RingLength
    OBVIOUS
<1>6. k \in 0 .. RingLength /\ k <= n /\ (k = n \/ k = RingLength)
    BY <1>4, <1>5
<1>7. /\ tail' = (tail + k) % RingSize
      /\ rxLast' = IF k = 0 THEN rxLast ELSE Stored[k]
      /\ rxSize' = n - k
      /\ rxState' = IF n = k THEN rxState ELSE "busy"
    BY <1>5, Zenon DEF TakeFromRing
<1>8. /\ (tail + k) % RingSize \in 0 .. RingSize - 1
      /\ RingCount(head, (tail + k) % RingSize) = RingCount(head, tail) - k
      /\ Kept(ringBuf, head, (tail + k) % RingSize) = SubSeq(Kept(ringBuf, head, tail), k + 1, RingCount(head, tail))
    BY <1>1, <1>2, <1>6, KeptTake, Zenon
<1>9. Stored \in Seq(Byte) /\ Len(Stored) = RingLength
    BY <1>1, <1>2, KeptIs, Zenon
<1>10. rxLast' \in Byte
    <2>1. CASE k = 0
        BY <1>1, <1>7, <2>1
    <2>2. CASE k # 0
        <3>1. k \in 1 .. Len(Stored)
            BY <1>4, <1>6, <1>9, <2>2
        <3> QED BY <1>7, <1>9, <2>2, <3>1
    <2> QED BY <2>1, <2>2
<1>11. rxSize' \in Nat
    BY <1>4, <1>6, <1>7
<1>12. rxSize' > 0 => head = tail'
    <2>1. rxSize' > 0 => RingCount(head, tail') = 0
        BY <1>2, <1>4, <1>6, <1>7, <1>8
    <2> QED BY <1>1, <1>7, <1>8, <2>1, CountIs, Zenon
<1>13. /\ tail' \in 0 .. RingSize - 1 /\ RingCount(head, tail') = RingLength - k
       /\ Kept(ringBuf, head, tail') = SubSeq(Stored, k + 1, RingLength)
    BY <1>2, <1>7, <1>8, Zenon
<1> QED BY <1>6, <1>7, <1>10, <1>11, <1>12, <1>13, Zenon

LEMMA CallKeeps == IInv /\ (Send \/ Receive) => IInv'
<1> SUFFICES ASSUME IInv, Send \/ Receive PROVE IInv'
    OBVIOUS
<1> USE DEF hw, rx, tx, irq, fixed
<1>1. /\ pc = "idle" /\ ~isr /\ mask' = ints /\ mask = {}
      /\ UNCHANGED <<hw, rx, tx, irq, fixed, ints, rxLevel>>
      /\ \/ pc' = "sendDisable" /\ arg' \in SendSizes /\ txState = "idle"
         \/ pc' = "recvDisable" /\ arg' \in ReceiveSizes /\ rxState = "idle"
    BY DEF IInv, TypeInv, CallInv, Sending, Receiving, Send, Receive, Call, TaskRuns, SendAllowed
<1>2. TypeInv'
    BY <1>1, Sizes DEF IInv, TypeInv, Places, Sending, Receiving
<1>3. CallInv'
    BY <1>1 DEF IInv, CallInv, Sending, Receiving
<1>4. FreshInv'
    BY <1>1 DEF IInv, FreshInv
<1>5. StateInv' /\ WireInv' /\ RingInv'
    BY <1>1 DEF IInv, StateInv, WireInv, RingInv
<1> QED BY <1>2, <1>3, <1>4, <1>5 DEF IInv

LEMMA DisableKeeps == IInv /\ DisableInterrupts => IInv'
<1> SUFFICES ASSUME IInv, DisableInterrupts PROVE IInv'
    OBVIOUS
<1> USE DEF hw, rx, tx, irq, fixed
<1>1. /\ ints' = ints \ mask /\ ~isr
      /\ UNCHANGED <<arg, mask, hw, rx, tx, irq, fixed, rxLevel>>
      /\ \/ pc = "sendDisable" /\ pc' = "sendStore"
         \/ pc = "recvDisable" /\ pc' = "recvStore"
    BY DEF DisableInterrupts, At, TaskRuns
<1>2. TypeInv'
    BY <1>1 DEF IInv, TypeInv, Places, Sending, Receiving
<1>3. CallInv'
    BY <1>1 DEF IInv, CallInv, Sending, Receiving
<1>4. FreshInv'
    BY <1>1 DEF IInv, FreshInv
<1>5. StateInv' /\ WireInv' /\ RingInv'
    BY <1>1 DEF IInv, StateInv, WireInv, RingInv
<1> QED BY <1>2, <1>3, <1>4, <1>5 DEF IInv

LEMMA SendStoreKeeps == IInv /\ SendStore => IInv'
<1> SUFFICES ASSUME IInv, SendStore PROVE IInv'
    OBVIOUS
<1> USE DEF rx, irq, fixed
<1>1. /\ pc = "sendStore" /\ pc' = "sendEnable" /\ ints = {} /\ ~isr /\ arg' = 0
      /\ UNCHANGED <<mask, rxFifo, rxErr, rxNext, txFifo, shifting, arrived, rx,
                     irq, fixed, ints, rxLevel>>
      /\ txSize' = arg /\ txAll' = arg /\ txState' = "busy" /\ onWire' = 0
      /\ cut' = (cut /\ txFifo # << >>)
      /\ arg \in SendSizes /\ txState = "idle"
    BY DEF IInv, CallInv, Sending, SendStore, At, TaskRuns, StartSend
<1>2. arg \in Nat /\ arg > 0
    BY <1>1, Sizes
<1>3. TypeInv'
    <2>1. cut' \in BOOLEAN
        BY <1>1
    <2> QED BY <1>1, <1>2, <2>1 DEF IInv, TypeInv, Places, Sending, Receiving
<1>4. CallInv'
    BY <1>1, <1>2 DEF IInv, CallInv, Sending, Receiving
<1>5. StateInv' /\ FreshInv'
    BY <1>1, <1>2 DEF IInv, StateInv, FreshInv
<1>6. WireInv'
    <2>1. ~cut' => txFifo = << >>
        BY <1>1, Zenon DEF IInv, WireInv
    <2> QED BY <1>1, <1>2, <2>1 DEF WireInv
<1>7. RingInv'
    BY <1>1 DEF IInv, RingInv
<1> QED BY <1>3, <1>4, <1>5, <1>6, <1>7 DEF IInv

LEMMA ReceiveStoreKeeps == IInv /\ ReceiveStore => IInv'
<1> SUFFICES ASSUME IInv, ReceiveStore PROVE IInv'
    OBVIOUS
<1> USE DEF hw, tx, irq, fixed
<1>1. /\ pc = "recvStore" /\ pc' = "recvEnable" /\ ~isr /\ arg' = 0
      /\ UNCHANGED <<mask, ringBuf, head, hw, tx, irq, fixed, rxLevel>>
      /\ arg \in ReceiveSizes /\ rxState = "idle"
    BY DEF IInv, CallInv, Receiving, ReceiveStore, At, TaskRuns
<1>2. arg \in Nat /\ arg > 0
    BY <1>1, Sizes
<1>3. /\ tail' \in 0 .. RingSize - 1 /\ rxLast' \in Byte
      /\ rxSize' \in Nat /\ rxState' \in {"idle", "busy"}
      /\ rxState' = "busy" <=> rxSize' > 0
      /\ ints' = ints \union (IF ring THEN {} ELSE {"RXLVL"})
      /\ rxSize' > 0 \/ ~ring => head = tail'
      /\ rxSize' > 0 \/ ring
    <2>1. CASE ring
        <3>1. TakeFromRing(arg) /\ ints' = ints
            BY <2>1, Zenon DEF ReceiveStore
        <3>2. TypeInv
            BY DEF IInv
        <3>3. PICK k \in 0 .. RingLength :
                  /\ tail' \in 0 .. RingSize - 1
                  /\ rxLast' \in Byte
                  /\ rxSize' = arg - k /\ rxSize' \in Nat
                  /\ rxState' = IF arg = k THEN rxState ELSE "busy"
                  /\ rxSize' > 0 => head = tail'
                  /\ k <= arg
            BY <1>2, <3>1, <3>2, TakeIs, Zenon
        <3>4. rxState' \in {"idle", "busy"} /\ (rxState' = "busy" <=> rxSize' > 0)
            BY <1>1, <1>2, <3>3
        <3> QED BY <1>1, <2>1, <3>1, <3>3, <3>4
    <2>2. CASE ~ring
        <3>1. rxSize' = arg /\ rxState' = "busy" /\ ints' = ints \union {"RXLVL"} /\ UNCHANGED <<tail, rxLast>>
            BY <2>2, Zenon DEF ReceiveStore
        <3>2. head = tail
            BY <2>2 DEF IInv, RingInv
        <3> QED BY <1>1, <1>2, <2>2, <3>1, <3>2 DEF IInv, TypeInv
    <2> QED BY <2>1, <2>2
<1>4. TypeInv'
    BY <1>1, <1>3 DEF IInv, TypeInv, Places, Sending, Receiving, Interrupts
<1>5. CallInv'
    BY <1>1, <1>3 DEF IInv, CallInv, Sending, Receiving
<1>6. StateInv' /\ FreshInv'
    BY <1>1, <1>3 DEF IInv, StateInv, FreshInv
<1>7. WireInv' /\ RingInv'
    BY <1>1, <1>3 DEF IInv, WireInv, RingInv
<1> QED BY <1>4, <1>5, <1>6, <1>7 DEF IInv

LEMMA EnableKeeps == IInv /\ EnableInterrupts => IInv'
<1> SUFFICES ASSUME IInv, EnableInterrupts PROVE IInv'
    OBVIOUS
<1> USE DEF hw, rx, tx, irq, fixed
<1>1. /\ ~isr /\ pc' = "idle" /\ mask' = {}
      /\ UNCHANGED <<arg, hw, rx, tx, irq, fixed, rxLevel>>
      /\ \/ pc = "sendEnable" /\ ints' = ints \union mask \union {"TXLVL"} /\ txSize > 0 /\ txState = "busy"
         \/ pc = "recvEnable" /\ ints' = ints \union mask
    BY DEF IInv, CallInv, EnableInterrupts, At, TaskRuns, EnableTransmitter
<1>2. TypeInv'
    BY <1>1 DEF IInv, TypeInv, Places, Sending, Receiving, Interrupts
<1>3. CallInv'
    BY <1>1 DEF IInv, CallInv, Sending, Receiving
<1>4. StateInv' /\ FreshInv'
    BY <1>1 DEF IInv, StateInv, FreshInv
<1>5. WireInv' /\ RingInv'
    BY <1>1 DEF IInv, WireInv, RingInv
<1> QED BY <1>2, <1>3, <1>4, <1>5 DEF IInv

LEMMA AbortKeeps == IInv /\ Careful /\ (AbortSend \/ AbortReceive) => IInv'
<1> SUFFICES ASSUME IInv, Careful, AbortSend \/ AbortReceive PROVE IInv'
    OBVIOUS
<1> USE DEF hw, rx, tx, irq, fixed
<1>1. CASE AbortSend
    <2>1. TypeInv'
        <3>1. txFifo' \in Seq(Nat) /\ Len(txFifo') <= TxFifo
            BY <1>1, Sizes DEF AbortSend
        <3> QED BY <1>1, <3>1 DEF IInv, TypeInv, AbortSend, At, Places
    <2>2. CallInv'
        BY <1>1 DEF IInv, CallInv, AbortSend, At, Sending, Receiving
    <2>3. StateInv' /\ FreshInv' /\ WireInv' /\ RingInv'
        BY <1>1 DEF IInv, StateInv, FreshInv, WireInv, RingInv, AbortSend, At
    <2> QED BY <2>1, <2>2, <2>3 DEF IInv
<1>2. CASE AbortReceive
    <2>1. TypeInv'
        BY <1>2 DEF IInv, TypeInv, AbortReceive, At, Places
    <2>2. CallInv'
        BY <1>2 DEF IInv, CallInv, AbortReceive, At, Sending, Receiving
    <2>3. StateInv' /\ FreshInv' /\ WireInv' /\ RingInv'
        BY <1>2 DEF IInv, StateInv, FreshInv, WireInv, RingInv, AbortReceive, At
    <2> QED BY <2>1, <2>2, <2>3 DEF IInv
<1> QED BY <1>1, <1>2

LEMMA EndSendKeeps == IInv /\ EndSend => IInv'
<1> SUFFICES ASSUME IInv, EndSend PROVE IInv'
    OBVIOUS
<1> USE DEF hw, rx, irq, fixed
<1>1. TypeInv'
    BY DEF IInv, TypeInv, EndSend, At, Places
<1>2. CallInv'
    BY DEF IInv, CallInv, EndSend, At, Sending, Receiving
<1>3. StateInv' /\ FreshInv'
    <2>1. cut /\ "TXLVL" \notin ints /\ ~isr /\ mask = {} /\ pc' = "idle"
        BY DEF IInv, CallInv, EndSend, At, TaskRuns, Sending, Receiving
    <2> QED BY <2>1 DEF IInv, StateInv, FreshInv, EndSend
<1>4. WireInv' /\ RingInv'
    BY DEF IInv, CallInv, WireInv, RingInv, EndSend, At
<1> QED BY <1>1, <1>2, <1>3, <1>4 DEF IInv

LEMMA EmptyReceiveKeeps == IInv /\ EmptyReceive => IInv'
<1> SUFFICES ASSUME IInv, EmptyReceive PROVE IInv'
    OBVIOUS
<1> USE DEF rx, tx, irq, fixed
<1>1. TypeInv'
    <2>1. rxFifo' \in Seq(Byte) /\ Len(rxFifo') <= RxFifo
        BY Sizes DEF EmptyReceive
    <2> QED BY <2>1 DEF IInv, TypeInv, EmptyReceive, At, Places
<1>2. CallInv'
    BY DEF IInv, CallInv, EmptyReceive, At, Sending, Receiving
<1>3. StateInv' /\ FreshInv' /\ WireInv' /\ RingInv'
    BY DEF IInv, StateInv, FreshInv, WireInv, RingInv, EmptyReceive, At
<1> QED BY <1>1, <1>2, <1>3 DEF IInv

LEMMA EndReceiveKeeps == IInv /\ EndReceive => IInv'
<1> SUFFICES ASSUME IInv, EndReceive PROVE IInv'
    OBVIOUS
<1> USE DEF hw, tx, irq, fixed
<1>1. TypeInv'
    BY DEF IInv, TypeInv, EndReceive, At, Places
<1>2. CallInv'
    BY DEF IInv, CallInv, EndReceive, At, Sending, Receiving
<1>3. StateInv' /\ FreshInv'
    <2>1. (ring \/ "RXLVL" \notin ints) /\ ~isr /\ mask = {} /\ pc' = "idle"
        BY DEF IInv, CallInv, EndReceive, At, TaskRuns, Sending, Receiving
    <2> QED BY <2>1 DEF IInv, StateInv, FreshInv, EndReceive
<1>4. WireInv' /\ RingInv'
    BY DEF IInv, WireInv, RingInv, EndReceive
<1> QED BY <1>1, <1>2, <1>3, <1>4 DEF IInv

LEMMA IrqLeaveKeeps == IInv /\ Careful /\ IrqLeave => IInv'
<1> SUFFICES ASSUME IInv, Careful, IrqLeave PROVE IInv'
    OBVIOUS
<1> USE DEF rx, fixed, task
<1>1. /\ isr /\ isr' = FALSE /\ recvEn' = FALSE /\ sendEn' = FALSE /\ arrived' = FALSE
      /\ UNCHANGED <<rxFifo, rxErr, rxNext, txFifo, shifting, rx, fixed, task>>
      /\ stale' = (stale \/ (IF TxReport THEN {"TXIDLE"} ELSE {}) \intersect mask # {})
    BY DEF IrqLeave, TurnOff
<1>2. rxLevel' \in 0 .. RxFifo - 1
    BY Sizes DEF IInv, TypeInv, IrqLeave, LevelFor
<1>3. CASE ~TxReport /\ UNCHANGED <<ints, tx, onWire>>
    <2> USE DEF tx
    <2>1. TypeInv'
        BY <1>1, <1>2, <1>3 DEF IInv, TypeInv
    <2>2. CallInv'
        BY <1>1, <1>3 DEF IInv, CallInv
    <2>3. StateInv' /\ FreshInv' /\ WireInv' /\ RingInv'
        BY <1>1, <1>3 DEF IInv, StateInv, FreshInv, WireInv, RingInv
    <2> QED BY <2>1, <2>2, <2>3 DEF IInv
<1>4. CASE /\ TxReport /\ ints' = ints \ {"TXIDLE"} /\ txState' = "idle"
           /\ UNCHANGED <<onWire, txSize, txAll, cut>>
    <2>1. txFifo = << >>
        BY <1>4 DEF TxReport, TxIdle
    <2>2. txSize = 0
        <3>1. Len(txFifo) < TxFifo
            BY <2>1, Sizes
        <3>2. ~sendEn
            BY <3>1 DEF IrqLeave, CanFill
        <3> QED BY <1>1, <3>2 DEF IInv, TypeInv, StateInv
    <2>3. TypeInv'
        BY <1>1, <1>2, <1>4 DEF IInv, TypeInv
    <2>4. CallInv'
        <3>1. pc \notin {"sendStore", "sendEnable"}
            BY <1>1 DEF IInv, CallInv
        <3> QED BY <1>1, <1>4, <3>1 DEF IInv, CallInv, Sending, Receiving
    <2>5. StateInv'
        BY <1>1, <1>4, <2>2 DEF IInv, StateInv
    <2>6. WireInv' /\ RingInv'
        BY <1>1, <1>4, <2>1 DEF IInv, WireInv, RingInv
    <2>7. FreshInv'
        <3>1. stale' = (stale \/ "TXIDLE" \in mask)
            BY <1>1, <1>4
        <3> QED BY <1>1, <1>4, <3>1 DEF IInv, FreshInv
    <2> QED BY <2>3, <2>4, <2>5, <2>6, <2>7 DEF IInv
<1>5. CASE /\ TxReport /\ CallbackMayCall /\ ints' = (ints \ {"TXIDLE"}) \union {"TXLVL"}
           /\ \E n \in SendSizes : StartSend(n)
    <2>1. PICK n \in SendSizes : StartSend(n)
        BY <1>5
    <2>2. txFifo = << >> /\ pc = "idle"
        BY <1>5 DEF TxReport, TxIdle, CallbackMayCall
    <2>3. n \in Nat /\ n > 0
        BY Sizes
    <2>4. /\ txSize' = n /\ txAll' = n /\ txState' = "busy" /\ onWire' = 0
          /\ cut' = (cut /\ txFifo # << >>)
        BY <2>1, Zenon DEF StartSend
    <2>5. TypeInv'
        <3>1. txSize' \in Nat /\ txAll' \in Nat /\ txSize' <= txAll' /\ txState' \in {"idle", "busy"} /\ onWire' \in Nat
            BY <2>3, <2>4
        <3>2. cut' \in BOOLEAN
            BY <2>4
        <3>3. ints' \in SUBSET Interrupts
            BY <1>5 DEF IInv, TypeInv, Interrupts
        <3>4. isr' \in BOOLEAN /\ recvEn' \in BOOLEAN /\ sendEn' \in BOOLEAN /\ arrived' \in BOOLEAN
            BY <1>1
        <3>5. stale' \in BOOLEAN
            BY <1>1 DEF IInv, TypeInv
        <3> QED BY <1>1, <1>2, <3>1, <3>2, <3>3, <3>4, <3>5 DEF IInv, TypeInv
    <2>6. CallInv'
        BY <1>1, <1>5, <2>2 DEF IInv, CallInv, Sending, Receiving
    <2>7. StateInv'
        BY <1>1, <1>5, <2>3, <2>4 DEF IInv, StateInv
    <2>8. WireInv' /\ RingInv'
        BY <1>1, <2>2, <2>3, <2>4 DEF IInv, WireInv, RingInv
    <2>9. FreshInv'
        <3>1. mask = {} /\ mask' = {}
            BY <1>1, <2>2 DEF IInv, CallInv, Sending, Receiving
        <3> QED BY <1>1, <1>5, <2>2, <2>3, <2>4, <3>1 DEF IInv, FreshInv
    <2> QED BY <2>5, <2>6, <2>7, <2>8, <2>9 DEF IInv
<1> QED BY <1>3, <1>4, <1>5 DEF IrqLeave

\* What a turn of the handler does to the receive side.
LEMMA TurnIn ==
    ASSUME IInv, Careful, IrqIterate
    PROVE  /\ rxFifo' \in Seq(Byte) /\ Len(rxFifo') <= RxFifo
           /\ ringBuf' \in [0 .. RingSize - 1 -> Byte]
           /\ head' \in 0 .. RingSize - 1 /\ tail' \in 0 .. RingSize - 1
           /\ rxLast' \in Byte /\ rxSize' \in Nat /\ recvEn' \in BOOLEAN
           /\ rxState' \in {"idle", "busy"} /\ (rxState' = "busy" <=> rxSize' > 0)
           /\ recvEn' => rxSize' > 0 \/ ring
           /\ rxSize' > 0 /\ rxState = "idle" => FALSE
           /\ rxSize > 0 /\ rxSize' = 0 => CanTake /\ rxSize = 1
           /\ rxSize' > 0 => rxSize > 0
           /\ CanTake /\ rxSize = 1 /\ rxSize' > 0 => pc = "idle"
           /\ rxSize' > 0 \/ ~ring => head' = tail'
<1> USE DEF rx
<1>1. /\ rxFifo \in Seq(Byte) /\ Len(rxFifo) \in Nat /\ Len(rxFifo) <= RxFifo
      /\ ringBuf \in [0 .. RingSize - 1 -> Byte]
      /\ head \in 0 .. RingSize - 1 /\ tail \in 0 .. RingSize - 1
      /\ rxLast \in Byte /\ rxSize \in Nat /\ recvEn \in BOOLEAN /\ ring \in BOOLEAN
      /\ rxState \in {"idle", "busy"} /\ (rxState = "busy" <=> rxSize > 0)
      /\ recvEn => rxSize > 0 \/ ring
      /\ rxSize > 0 \/ ~ring => head = tail
    BY DEF IInv, TypeInv, StateInv, RingInv, IrqIterate
<1>2. CASE ~CanTake
    <2>1. UNCHANGED <<rx, rxFifo, recvEn>>
        BY <1>2 DEF IrqIterate
    <2> QED BY <1>1, <1>2, <2>1
<1>3. CASE CanTake
    <2>1. /\ rxFifo' \in Seq(Byte) /\ Len(rxFifo') <= RxFifo /\ Head(rxFifo) \in Byte
          /\ rxSize > 0 \/ ring
        <3>1. rxFifo' = Tail(rxFifo) /\ rxFifo # << >> /\ recvEn
            BY <1>3 DEF IrqIterate, CanTake
        <3> QED BY <1>1, <3>1, Sizes
    <2>2. CASE ByteToUser
        <3>1. /\ rxSize > 0 /\ rxLast' \in Byte /\ UNCHANGED <<ringBuf, head, tail>>
              /\ \/ rxSize > 1 /\ rxSize' = rxSize - 1 /\ rxState' = rxState
                 \/ rxSize = 1 /\ rxSize' = 0 /\ rxState' = "idle"
                 \/ rxSize = 1 /\ pc = "idle" /\ rxSize' \in ReceiveSizes /\ rxState' = "busy"
            BY <1>1, <2>1, <2>2 DEF ByteToUser, CallbackMayCall
        <3>2. recvEn' \in BOOLEAN /\ (recvEn' => rxSize # 1 \/ ring)
            BY <2>2, Zenon DEF ByteToUser
        <3> QED BY <1>1, <1>3, <2>1, <3>1, <3>2, Sizes
    <2>3. CASE ByteToRing
        <3>1. /\ rxSize = 0 /\ ring /\ UNCHANGED recvEn
              /\ ringBuf' = [ringBuf EXCEPT ![head] = Head(rxFifo)]
              /\ head' = NextIndex(head)
            BY <1>1, <2>1, <2>3 DEF ByteToRing
        <3>2. ringBuf' \in [0 .. RingSize - 1 -> Byte]
            BY <1>1, <2>1, <3>1
        <3>3. head' \in 0 .. RingSize - 1 /\ NextIndex(tail) \in 0 .. RingSize - 1
            BY <1>1, <3>1, Sizes DEF NextIndex
        <3>4. CASE \E n \in ReceiveSizes : RingFull /\ OverrunMayReceive(n) /\ TakeFromRing(n)
            <4>1. PICK n \in ReceiveSizes : RingFull /\ OverrunMayReceive(n) /\ TakeFromRing(n)
                BY <3>4
            <4>2. n \in Nat /\ n < RingSize /\ pc = "idle" /\ RingLength = RingSize - 1
                BY <4>1, Sizes DEF OverrunMayReceive, RingFull
            <4>3. TypeInv
                BY DEF IInv
            <4>4. PICK k \in 0 .. RingLength :
                      /\ k <= n /\ (k = n \/ k = RingLength)
                      /\ tail' \in 0 .. RingSize - 1
                      /\ rxLast' \in Byte
                      /\ rxSize' = n - k
                      /\ rxState' = IF n = k THEN rxState ELSE "busy"
                BY <4>1, <4>2, <4>3, TakeIs, Zenon
            <4>5. k = n /\ rxSize' = 0 /\ rxState' = rxState
                BY <4>2, <4>4, Sizes
            <4> QED BY <1>1, <2>1, <3>1, <3>2, <3>3, <4>4, <4>5
        <3>5. CASE tail' \in {tail, NextIndex(tail)} /\ UNCHANGED <<rxLast, rxSize, rxState>>
            BY <1>1, <2>1, <3>1, <3>2, <3>3, <3>5
        <3> QED BY <2>3, <3>4, <3>5 DEF ByteToRing
    <2> QED BY <1>3, <2>2, <2>3 DEF IrqIterate
<1> QED BY <1>2, <1>3

\* And to the send side.
LEMMA TurnOut ==
    ASSUME IInv, IrqIterate
    PROVE  /\ txFifo' \in Seq(Nat) /\ Len(txFifo') <= TxFifo
           /\ txSize' \in Nat /\ txSize' <= txAll /\ sendEn' \in BOOLEAN
           /\ sendEn' <=> txSize' > 0
           /\ txState = "idle" => txSize' = 0 /\ ~CanFill
           /\ txSize > 0 /\ txSize' = 0 => CanFill /\ txSize = 1
           /\ CanFill => txState = "busy"
           /\ WireInv'
<1>1. /\ txFifo \in Seq(Nat) /\ Len(txFifo) \in Nat /\ Len(txFifo) <= TxFifo
      /\ txSize \in Nat /\ txAll \in Nat /\ txSize <= txAll /\ sendEn \in BOOLEAN
      /\ sendEn <=> txSize > 0
      /\ txState = "idle" => txSize = 0
      /\ txState \in {"idle", "busy"} /\ onWire \in Nat
      /\ UNCHANGED <<txState, txAll, cut, onWire>>
    BY DEF IInv, TypeInv, StateInv, IrqIterate, Line
<1>2. CASE ~CanFill
    <2>1. UNCHANGED <<txFifo, txSize, sendEn>>
        BY <1>2 DEF IrqIterate
    <2>2. WireInv'
        BY <1>1, <2>1 DEF IInv, WireInv
    <2> QED BY <1>1, <1>2, <2>1, <2>2
<1>3. CASE CanFill
    <2>1. /\ txFifo' = Append(txFifo, txAll - txSize + 1) /\ txSize' = txSize - 1
          /\ sendEn' = (txSize # 1) /\ sendEn /\ Len(txFifo) < TxFifo
        BY <1>3 DEF IrqIterate, CanFill
    <2>2. txSize > 0 /\ txState = "busy"
        BY <1>1, <2>1
    <2>3. txAll - txSize + 1 \in Nat
        BY <1>1
    <2>4. /\ txFifo' \in Seq(Nat) /\ Len(txFifo') = Len(txFifo) + 1
          /\ txFifo'[Len(txFifo) + 1] = txAll - txSize + 1
          /\ \A i \in 1 .. Len(txFifo) : txFifo'[i] = txFifo[i]
        BY <1>1, <2>1, <2>3
    <2>5. sendEn' \in BOOLEAN /\ (sendEn' <=> txSize' > 0)
        <3>1. txSize # 1 <=> txSize' > 0
            BY <1>1, <2>1, <2>2
        <3> QED BY <2>1, <3>1, Zenon
    <2>6. WireInv'
        <3> SUFFICES ASSUME ~cut PROVE /\ \A i \in 1 .. Len(txFifo') : txFifo'[i] = onWire + i
                                       /\ onWire + Len(txFifo') = txAll - txSize'
            BY <1>1, <2>2 DEF WireInv
        <3>1. /\ \A i \in 1 .. Len(txFifo) : txFifo[i] = onWire + i
              /\ onWire + Len(txFifo) = txAll - txSize
            BY DEF IInv, WireInv
        <3>2. txAll - txSize + 1 = onWire + (Len(txFifo) + 1)
            <4>1. onWire + Len(txFifo) = txAll - txSize
                BY <3>1
            <4> QED BY <1>1, <4>1
        <3>3. \A i \in 1 .. Len(txFifo') : i \in 1 .. Len(txFifo) \/ i = Len(txFifo) + 1
            BY <1>1, <2>4
        <3>4. \A i \in 1 .. Len(txFifo') : txFifo'[i] = onWire + i
            BY <2>4, <3>1, <3>2, <3>3
        <3>5. onWire + Len(txFifo') = txAll - txSize'
            BY <1>1, <2>1, <2>4, <3>1
        <3> QED BY <3>4, <3>5
    <2>7. Len(txFifo') <= TxFifo /\ txSize' \in Nat /\ txSize' <= txAll
        BY <1>1, <2>1, <2>2, <2>4, Sizes
    <2>8. txSize' = 0 => txSize = 1
        BY <1>1, <2>1
    <2> QED BY <1>3, <2>2, <2>4, <2>5, <2>6, <2>7, <2>8
<1> QED BY <1>2, <1>3

LEMMA IrqIterateKeeps == IInv /\ Careful /\ IrqIterate => IInv'
<1> SUFFICES ASSUME IInv, Careful, IrqIterate PROVE IInv'
    OBVIOUS
<1>1. /\ isr /\ UNCHANGED <<rxErr, rxNext, shifting, onWire, arrived, isr, rxLevel, ring, rxWatermark,
                            txState, txAll, cut, pc, arg, mask>>
    BY DEF IrqIterate, Line, fixed, task
<1>2. /\ ints' \subseteq ints \union {"RXLVL", "TXIDLE"}
      /\ "RXLVL" \in ints' => \/ "RXLVL" \in ints /\ ~(CanTake /\ rxSize = 1 /\ ~ring)
                              \/ CanTake /\ rxSize = 1 /\ rxSize' > 0
      /\ "TXLVL" \in ints' <=> "TXLVL" \in ints /\ ~(CanFill /\ txSize = 1)
      /\ "TXIDLE" \in ints' => "TXIDLE" \in ints \/ (CanFill /\ txSize = 1)
      /\ stale' \in BOOLEAN
      /\ ~stale' => /\ ~stale
                    /\ "RXLVL" \in mask => ~(CanTake /\ rxSize = 1 /\ ~ring)
                    /\ "TXLVL" \in mask => ~(CanFill /\ txSize = 1)
    <2>1. PICK off, on :
              /\ off = (IF CanTake /\ rxSize = 1 THEN StopListening ELSE {})
                            \union (IF CanFill /\ txSize = 1 THEN {"TXLVL"} ELSE {})
              /\ on = (IF CanTake /\ rxSize = 1 /\ rxSize' > 0 THEN {"RXLVL"} ELSE {})
                            \union (IF CanFill /\ txSize = 1 THEN {"TXIDLE"} ELSE {})
              /\ ints' = (ints \ off) \union on
              /\ stale' = (stale \/ off \intersect mask # {})
        BY DEF IrqIterate, TurnOff
    <2>2. stale \in BOOLEAN
        BY DEF IInv, TypeInv
    <2> HIDE DEF CanTake, CanFill
    <2> QED BY <2>1, <2>2 DEF StopListening
<1>3. TypeInv'
    BY <1>1, <1>2, TurnIn, TurnOut DEF IInv, TypeInv, Interrupts
<1>4. StateInv'
    BY <1>1, TurnIn, TurnOut DEF IInv, StateInv
<1>5. CallInv'
    <2>1. pc \notin {"sendStore", "sendEnable"}
        BY <1>1 DEF IInv, CallInv
    <2>2. pc \in Receiving \ {"recvEnable"} => rxState' = "idle"
        <3>1. rxState = "idle" => rxState' = "idle"
            BY TurnIn DEF IInv, TypeInv
        <3> QED BY <3>1 DEF IInv, CallInv
    <2>3. pc = "sendDisable" => ints' \subseteq mask
        <3> SUFFICES ASSUME pc = "sendDisable" PROVE ints' \subseteq ints
            BY DEF IInv, CallInv
        <3>1. txState = "idle"
            BY DEF IInv, CallInv, Sending, Receiving
        <3>2. "TXIDLE" \in ints' => "TXIDLE" \in ints
            BY <1>2, <3>1, TurnOut
        <3>3. "RXLVL" \in ints' => "RXLVL" \in ints
            BY <1>2, TurnIn
        <3> QED BY <1>2, <3>2, <3>3
    <2>4. pc = "endSend" => "TXLVL" \notin ints'
        BY <1>2 DEF IInv, CallInv
    <2>5. pc = "endRecv" => ring \/ "RXLVL" \notin ints'
        BY <1>2, TurnIn DEF IInv, CallInv
    <2>6. txSize' > 0 => "TXLVL" \in ints' \union mask \/ pc \in {"sendEnable", "endSend"}
        <3>1. txSize' > 0 => txSize > 0 /\ ~(CanFill /\ txSize = 1)
            <4>1. CASE CanFill
                BY <4>1, Sizes DEF IInv, TypeInv, IrqIterate
            <4>2. CASE ~CanFill
                BY <4>2 DEF IrqIterate
            <4> QED BY <4>1, <4>2
        <3> QED BY <1>2, <3>1 DEF IInv, CallInv
    <2> QED BY <1>1, <2>1, <2>2, <2>3, <2>4, <2>5, <2>6 DEF IInv, CallInv
<1>6. RingInv'
    BY <1>1, TurnIn DEF IInv, RingInv
<1>7. FreshInv'
    <2> SUFFICES ASSUME ~stale' PROVE FreshInv'
        BY DEF FreshInv
    <2>1. ~stale /\ pc # "recvStore"
        BY <1>1, <1>2 DEF IInv, FreshInv
    <2>2. "RXLVL" \in ints' \union mask => rxSize' > 0 \/ ring
        BY <1>2, <2>1, TurnIn DEF IInv, TypeInv, FreshInv
    <2>3. "TXLVL" \in ints' \union mask => txSize' > 0
        BY <1>2, <2>1, TurnOut DEF IInv, TypeInv, FreshInv
    <2>4. "TXIDLE" \in ints' \union mask => cut \/ txState = "busy"
        BY <1>2, <2>1, TurnOut DEF IInv, FreshInv
    <2>5. pc = "recvDisable" => ints' \subseteq mask
        <3> SUFFICES ASSUME pc = "recvDisable" PROVE ints' \subseteq ints
            BY <2>1 DEF IInv, FreshInv
        <3>1. CanFill => "TXLVL" \in mask
            <4>1. CanFill => txSize > 0
                BY <1>1 DEF IInv, StateInv, CanFill
            <4> QED BY <2>1, <4>1 DEF IInv, CallInv, FreshInv
        <3>2. "TXIDLE" \in ints' => "TXIDLE" \in ints
            BY <1>2, <3>1
        <3>3. "RXLVL" \in ints' => "RXLVL" \in ints
            BY <1>2, TurnIn
        <3> QED BY <1>2, <3>2, <3>3
    <2> QED BY <1>1, <2>1, <2>2, <2>3, <2>4, <2>5 DEF FreshInv
<1> QED BY <1>3, <1>4, <1>5, <1>6, <1>7, TurnOut DEF IInv

LEMMA NextKeeps == IInv /\ Careful /\ [Next]_vars => IInv'
BY ArriveKeeps, ShiftKeeps, ByteOutKeeps, IrqEnterKeeps, IrqIterateKeeps, IrqLeaveKeeps, CallKeeps,
   DisableKeeps, SendStoreKeeps, ReceiveStoreKeeps, EnableKeeps, AbortKeeps, EndSendKeeps,
   EmptyReceiveKeeps, EndReceiveKeeps, SameKeeps, Zenon
   DEF Next, Handler, InCall

-----------------------------------------------------------------------------
\* What the invariant means.

LEMMA Invariant == ASSUME Careful PROVE Spec => []IInv
<1>1. IInv /\ [Next]_vars => IInv'
    BY NextKeeps
<1> QED BY InitKeeps, <1>1, PTL DEF Spec

\* Whatever the sizes, the queues, the ring and its indices stay in their bounds,
\* and the handle's sizes never wrap below zero.
THEOREM TypeCorrect == ASSUME Careful PROVE Spec => []TypeInv
<1>1. IInv => TypeInv
    BY DEF IInv
<1> QED BY <1>1, Invariant, PTL

\* Nothing but a stale mask keeps a task from running: while the handler has not
\* turned off what a call will turn on again, what a call or a finished request
\* leaves enabled has a queue to serve, sends and receives overlapping or not.
THEOREM StormFree == ASSUME Careful PROVE Spec => []NoStorm
<1>1. IInv => NoStorm
    BY DEF IInv, FreshInv, NoStorm, Served
<1> QED BY <1>1, Invariant, PTL

\* kStatus_USART_TxIdle is reported for a request that exists, when its last byte
\* has left the transmitter, unless a stale mask has brought TXIDLE back: bytes of
\* no other request are in the send queue.
THEOREM SentWhenReported == ASSUME Careful PROVE Spec => []TxIdleMeansSent
<1>1. IInv => TxIdleMeansSent
    <2> SUFFICES ASSUME IInv, isr, ~CanFill, TxReport, ~cut, ~stale
                 PROVE  txState = "busy" /\ txSize = 0 /\ onWire = txAll /\ TxIdle
        BY DEF TxIdleMeansSent
    <2>1. txFifo = << >> /\ TxIdle /\ "TXIDLE" \in ints
        BY DEF TxReport, TxIdle
    <2>2. txState = "busy"
        BY <2>1 DEF IInv, FreshInv
    <2>3. ~sendEn
        BY <2>1, Sizes DEF CanFill
    <2>4. txSize = 0
        BY <2>3 DEF IInv, TypeInv, StateInv
    <2>5. onWire + 0 = txAll - txSize
        BY <2>1 DEF IInv, WireInv
    <2> QED BY <2>1, <2>2, <2>4, <2>5 DEF IInv, TypeInv
<1> QED BY <1>1, Invariant, PTL

\* The bytes of a request reach the line in order and each once, whatever the
\* depth of the queue, and none of the next request before the last of this one:
\* no stale mask and no storm changes that.
THEOREM WireOrdered == ASSUME Careful PROVE Spec => WireInOrder
<1> DEFINE A == onWire' # onWire => \/ onWire' = onWire + 1
                                    \/ (onWire = txAll /\ onWire' = 0)
                                    \/ cut
<1>1. IInv /\ [Next]_vars => [A]_vars
    <2> SUFFICES ASSUME IInv, Next, ~cut, onWire' # onWire
                 PROVE  onWire' = onWire + 1 \/ (onWire = txAll /\ onWire' = 0)
        BY Zenon
    <2>1. /\ txFifo \in Seq(Nat) /\ onWire \in Nat /\ txAll \in Nat /\ txSize \in Nat
          /\ \A i \in 1 .. Len(txFifo) : txFifo[i] = onWire + i
          /\ onWire + Len(txFifo) = txAll - txSize
          /\ txState = "idle" => txFifo = << >> /\ txSize = 0
        BY DEF IInv, TypeInv, WireInv, StateInv
    <2>2. CASE Shift
        <3>1. onWire' = txFifo[1] /\ 1 \in 1 .. Len(txFifo)
            BY <2>1, <2>2 DEF Shift
        <3> QED BY <2>1, <3>1
    <2>3. CASE SendStore
        <3>1. txState = "idle" /\ onWire' = 0
            BY <2>3 DEF IInv, CallInv, Sending, SendStore, At, StartSend
        <3> QED BY <2>1, <3>1
    <2>4. CASE IrqLeave
        <3>1. TxReport /\ onWire' = 0 /\ isr /\ ~CanFill
            BY <2>4 DEF IrqLeave, StartSend, tx
        <3>2. txFifo = << >>
            BY <3>1 DEF TxReport, TxIdle
        <3>3. ~sendEn
            BY <3>1, <3>2, Sizes DEF CanFill
        <3>4. txSize = 0
            BY <3>1, <3>3 DEF IInv, TypeInv, StateInv
        <3> QED BY <2>1, <3>1, <3>2, <3>4
    <2>5. CASE Arrive \/ ByteOut \/ IrqEnter \/ IrqIterate
        BY <2>5 DEF Arrive, ByteOut, IrqEnter, IrqIterate, Line
    <2>6. CASE Send \/ Receive \/ AbortSend \/ AbortReceive
        BY <2>6 DEF Send, Receive, Call, AbortSend, AbortReceive, hw
    <2>7. CASE DisableInterrupts \/ ReceiveStore \/ EnableInterrupts \/ EndSend \/ EmptyReceive \/ EndReceive
        BY <2>7 DEF DisableInterrupts, ReceiveStore, EnableInterrupts, EndSend, EmptyReceive, EndReceive, hw
    <2> QED BY <2>2, <2>3, <2>4, <2>5, <2>6, <2>7 DEF Next, Handler, InCall
<1>2. Spec => [][Next]_vars
    BY PTL DEF Spec
<1> QED BY <1>1, <1>2, Invariant, PTL DEF WireInOrder

-----------------------------------------------------------------------------
\* The receive path is a channel of bytes.

LEMMA JoinDrop ==
    ASSUME NEW s \in Seq(Byte), NEW u \in Seq(Byte), NEW n \in 0 .. Len(s)
    PROVE  SubSeq(s, n + 1, Len(s)) \o u = SubSeq(s \o u, n + 1, Len(s \o u))
<1>1. n \in Nat /\ Len(s) \in Nat /\ Len(u) \in Nat /\ n <= Len(s)
    OBVIOUS
<1>2. PICK v : v = SubSeq(s, n + 1, Len(s))
    OBVIOUS
<1>3. v \in Seq(Byte) /\ Len(v) = Len(s) - n /\ \A i \in 1 .. Len(s) - n : v[i] = s[n + i]
    BY <1>1, <1>2
<1>4. PICK w : w = s \o u
    OBVIOUS
<1>5. /\ w \in Seq(Byte) /\ Len(w) = Len(s) + Len(u)
      /\ \A i \in 1 .. Len(s) + Len(u) : w[i] = IF i <= Len(s) THEN s[i] ELSE u[i - Len(s)]
    BY <1>1, <1>4
<1>6. PICK x : x = SubSeq(w, n + 1, Len(w))
    OBVIOUS
<1>7. x \in Seq(Byte) /\ Len(x) = Len(w) - n /\ \A i \in 1 .. Len(w) - n : x[i] = w[n + i]
    BY <1>1, <1>5, <1>6
<1>8. PICK y : y = v \o u
    OBVIOUS
<1>9. /\ y \in Seq(Byte) /\ Len(y) = Len(v) + Len(u)
      /\ \A i \in 1 .. Len(v) + Len(u) : y[i] = IF i <= Len(v) THEN v[i] ELSE u[i - Len(v)]
    BY <1>1, <1>3, <1>8
<1>10. Len(x) = Len(y)
    BY <1>1, <1>3, <1>5, <1>7, <1>9
<1>11. ASSUME NEW i \in 1 .. Len(y)
       PROVE  y[i] = x[i]
    <2>1. i \in Nat /\ i >= 1 /\ i <= Len(s) - n + Len(u) /\ i \in 1 .. Len(w) - n /\ n + i \in 1 .. Len(s) + Len(u)
        BY <1>1, <1>3, <1>5, <1>9
    <2>2. x[i] = IF n + i <= Len(s) THEN s[n + i] ELSE u[n + i - Len(s)]
        BY <1>5, <1>7, <2>1
    <2>3. y[i] = IF i <= Len(v) THEN v[i] ELSE u[i - Len(v)]
        BY <1>9
    <2>4. CASE i <= Len(s) - n
        <3>1. y[i] = v[i] /\ v[i] = s[n + i]
            BY <1>1, <1>3, <2>1, <2>3, <2>4
        <3>2. n + i <= Len(s)
            BY <1>1, <2>1, <2>4
        <3> QED BY <2>2, <3>1, <3>2
    <2>5. CASE ~(i <= Len(s) - n)
        <3>1. i - Len(v) = n + i - Len(s) /\ ~(i <= Len(v)) /\ ~(n + i <= Len(s))
            BY <1>1, <1>3, <2>1, <2>5
        <3> QED BY <2>2, <2>3, <3>1
    <2> QED BY <2>4, <2>5
<1>12. y = x
    BY <1>7, <1>9, <1>10, <1>11, SeqEqual
<1> QED BY <1>2, <1>4, <1>6, <1>8, <1>12

LEMMA JoinFirst ==
    ASSUME NEW s \in Seq(Byte), NEW u \in Seq(Byte)
    PROVE  SubSeq(s \o u, 1, Len(s)) = s /\ Len(s) \in 0 .. Len(s \o u)
<1>1. Len(s) \in Nat /\ Len(u) \in Nat
    OBVIOUS
<1>2. PICK w : w = s \o u
    OBVIOUS
<1>3. /\ w \in Seq(Byte) /\ Len(w) = Len(s) + Len(u)
      /\ \A i \in 1 .. Len(s) : w[i] = s[i]
    BY <1>1, <1>2
<1>4. PICK x : x = SubSeq(w, 1, Len(s))
    OBVIOUS
<1>5. x \in Seq(Byte) /\ Len(x) = Len(s) /\ \A i \in 1 .. Len(s) : x[i] = w[i]
    BY <1>1, <1>3, <1>4
<1>6. x = s
    BY <1>3, <1>5, SeqEqual
<1> QED BY <1>1, <1>2, <1>3, <1>4, <1>6

LEMMA JoinMove ==
    ASSUME NEW s \in Seq(Byte), NEW u \in Seq(Byte), u # << >>
    PROVE  /\ Append(s, Head(u)) \o Tail(u) = s \o u
           /\ Head(u) \in Byte /\ Tail(u) \in Seq(Byte)
           /\ Len(s \o u) > Len(s)
<1>1. Len(s) \in Nat /\ Len(u) \in Nat /\ Len(u) > 0
    OBVIOUS
<1>2. /\ Tail(u) \in Seq(Byte) /\ Len(Tail(u)) = Len(u) - 1 /\ Head(u) = u[1] /\ Head(u) \in Byte
      /\ \A i \in 1 .. Len(u) - 1 : Tail(u)[i] = u[i + 1]
    BY <1>1
<1>3. PICK v : v = Append(s, Head(u))
    OBVIOUS
<1>4. /\ v \in Seq(Byte) /\ Len(v) = Len(s) + 1
      /\ v[Len(s) + 1] = u[1] /\ \A i \in 1 .. Len(s) : v[i] = s[i]
    BY <1>1, <1>2, <1>3
<1>5. PICK t : t = Tail(u)
    OBVIOUS
<1>6. PICK y : y = v \o t
    OBVIOUS
<1>7. /\ y \in Seq(Byte) /\ Len(y) = Len(v) + Len(t)
      /\ \A i \in 1 .. Len(v) + Len(t) : y[i] = IF i <= Len(v) THEN v[i] ELSE t[i - Len(v)]
    <2>1. v \in Seq(Byte) /\ t \in Seq(Byte)
        BY <1>2, <1>4, <1>5
    <2> QED BY <1>6, <2>1
<1>8. PICK w : w = s \o u
    OBVIOUS
<1>9. /\ w \in Seq(Byte) /\ Len(w) = Len(s) + Len(u)
      /\ \A i \in 1 .. Len(s) + Len(u) : w[i] = IF i <= Len(s) THEN s[i] ELSE u[i - Len(s)]
    BY <1>1, <1>8
<1>10. Len(y) = Len(w)
    BY <1>1, <1>2, <1>4, <1>5, <1>7, <1>9
<1>11. ASSUME NEW i \in 1 .. Len(y)
       PROVE  y[i] = w[i]
    <2>1. i \in Nat /\ i >= 1 /\ i <= Len(s) + Len(u) /\ i \in 1 .. Len(v) + Len(t) /\ i \in 1 .. Len(s) + Len(u)
        BY <1>1, <1>7, <1>9, <1>10
    <2>2. CASE i <= Len(s)
        BY <1>1, <1>4, <1>7, <1>9, <2>1, <2>2
    <2>3. CASE i = Len(s) + 1
        <3>1. y[i] = v[i] /\ v[i] = u[1]
            BY <1>1, <1>4, <1>7, <2>1, <2>3
        <3>2. w[i] = u[i - Len(s)] /\ i - Len(s) = 1
            BY <1>1, <1>9, <2>1, <2>3
        <3> QED BY <3>1, <3>2
    <2>4. CASE i > Len(s) + 1
        <3>1. y[i] = t[i - Len(v)] /\ i - Len(v) \in 1 .. Len(u) - 1 /\ i - Len(v) + 1 = i - Len(s)
            BY <1>1, <1>4, <1>7, <2>1, <2>4
        <3>2. w[i] = u[i - Len(s)]
            BY <1>1, <1>9, <2>1, <2>4
        <3> QED BY <1>2, <1>5, <3>1, <3>2
    <2> QED BY <1>1, <2>1, <2>2, <2>3, <2>4
<1>12. y = w
    BY <1>7, <1>9, <1>10, <1>11, SeqEqual
<1>13. Len(w) > Len(s)
    BY <1>1, <1>9
<1> QED BY <1>2, <1>3, <1>5, <1>6, <1>8, <1>12, <1>13

\* The ring of a state that satisfies the invariant.
LEMMA RingIs ==
    ASSUME IInv
    PROVE  /\ RingLength \in 0 .. RingSize - 1
           /\ RingLength = RingCount(head, tail)
           /\ Stored = Kept(ringBuf, head, tail)
           /\ Stored \in Seq(Byte) /\ Len(Stored) = RingLength
           /\ head = tail => Stored = << >>
           /\ rxFifo \in Seq(Byte)
           /\ Stored \o rxFifo \in Seq(Byte)
<1>1. /\ ringBuf \in [0 .. RingSize - 1 -> Byte] /\ head \in 0 .. RingSize - 1
      /\ tail \in 0 .. RingSize - 1 /\ rxFifo \in Seq(Byte)
    BY DEF IInv, TypeInv
<1>2. RingCount(head, tail) \in 0 .. RingSize - 1 /\ (head = tail => RingCount(head, tail) = 0)
    BY <1>1, CountIs, Zenon
<1>3. Kept(ringBuf, head, tail) \in Seq(Byte) /\ Len(Kept(ringBuf, head, tail)) = RingCount(head, tail)
    BY <1>1, KeptIs, Zenon
<1>4. Stored \in Seq(Byte) /\ Len(Stored) = RingLength
    BY <1>3, StoredIs, Zenon
<1>5. head = tail => Stored = << >>
    BY <1>2, <1>4, EmptySeq, StoredIs
<1>6. Stored \o rxFifo \in Seq(Byte)
    BY <1>1, <1>4
<1> QED BY <1>1, <1>2, <1>4, <1>5, <1>6, StoredIs, Zenon

LEMMA StoredNext ==
    /\ Stored' = Kept(ringBuf', head', tail')
    /\ UNCHANGED <<ringBuf, head, tail>> => Stored' = Stored
BY DEF RingLength, RingCount, Stored, Kept, Cell

\* A byte for a ring that is not full, from index t on.
LEMMA StoreByte ==
    ASSUME IInv, rxFifo # << >>, NEW t \in 0 .. RingSize - 1, RingCount(head, t) # RingSize - 1,
           ringBuf' = [ringBuf EXCEPT ![head] = Head(rxFifo)], head' = NextIndex(head), tail' = t,
           rxFifo' = Tail(rxFifo)
    PROVE  (Stored \o rxFifo)' = Kept(ringBuf, head, t) \o rxFifo
<1>1. /\ ringBuf \in [0 .. RingSize - 1 -> Byte] /\ head \in 0 .. RingSize - 1 /\ rxFifo \in Seq(Byte)
    BY DEF IInv, TypeInv
<1>2. PICK s : s = Kept(ringBuf, head, t)
    OBVIOUS
<1>3. s \in Seq(Byte)
    BY <1>1, <1>2, KeptIs, Zenon
<1>4. PICK b : b = Head(rxFifo)
    OBVIOUS
<1>5. b \in Byte /\ Append(s, b) \o Tail(rxFifo) = s \o rxFifo
    BY <1>1, <1>3, <1>4, JoinMove, Zenon
<1>6. Stored' = Kept([ringBuf EXCEPT ![head] = b], NextIndex(head), t)
    BY <1>4, StoredNext, Zenon
<1>7. Stored' = Append(s, b)
    BY <1>1, <1>2, <1>5, <1>6, KeptAdd, Zenon
<1> QED BY <1>2, <1>5, <1>7, Zenon

\* Nothing that the channel shows changes.
Same == UNCHANGED <<Stored \o rxFifo, rxLast, (rxErr \/ pc = "emptyRecv")>>

LEMMA ArriveMaps == ASSUME IInv, Arrive PROVE Channel!Work
<1> USE DEF rx, task
<1>1. Stored' = Stored /\ rxLast' = rxLast /\ pc' = pc
    BY StoredNext, Zenon DEF Arrive
<1>2. rxNext \in Byte /\ rxFifo \in Seq(Byte) /\ Stored \in Seq(Byte)
    BY RingIs DEF IInv, TypeInv
<1>3. CASE Len(rxFifo) < RxFifo
    <2>1. rxFifo' = Append(rxFifo, rxNext) /\ rxErr' = rxErr
        BY <1>3, Zenon DEF Arrive
    <2>2. Stored \o Append(rxFifo, rxNext) = Append(Stored \o rxFifo, rxNext)
        BY <1>2
    <2>3. (Stored \o rxFifo)' = Append(Stored \o rxFifo, rxNext)
        BY <1>1, <2>1, <2>2, Zenon
    <2>4. (rxErr \/ pc = "emptyRecv")' = (rxErr \/ pc = "emptyRecv")
        BY <1>1, <2>1, Zenon
    <2>5. Channel!Arrive
        BY <1>1, <1>2, <2>3, <2>4, Zenon DEF Channel!Arrive
    <2> QED BY <2>5 DEF Channel!Work
<1>4. CASE ~(Len(rxFifo) < RxFifo)
    <2>1. rxFifo' = rxFifo /\ rxErr' = TRUE
        BY <1>4, Zenon DEF Arrive
    <2>2. (Stored \o rxFifo)' = Stored \o rxFifo
        BY <1>1, <2>1, Zenon
    <2>3. (rxErr \/ pc = "emptyRecv")' = TRUE
        BY <2>1, Zenon
    <2>4. Channel!Announce
        BY <1>1, <2>2, <2>3, Zenon DEF Channel!Announce
    <2> QED BY <2>4 DEF Channel!Work
<1> QED BY <1>3, <1>4

\* The queue is emptied: the bytes in it were the newest.
LEMMA EmptyMaps ==
    ASSUME IInv, rxErr \/ pc = "emptyRecv", rxFifo' = << >>, rxErr' \in BOOLEAN,
           UNCHANGED <<ringBuf, head, tail, rxLast>>
    PROVE  Channel!Work
<1>1. Stored' = Stored
    BY StoredNext, Zenon
<1>2. Stored \in Seq(Byte) /\ rxFifo \in Seq(Byte)
    BY RingIs
<1>3. Stored \o << >> = Stored
    BY <1>2
<1>4. SubSeq(Stored \o rxFifo, 1, Len(Stored)) = Stored /\ Len(Stored) \in 0 .. Len(Stored \o rxFifo)
    BY <1>2, JoinFirst, Zenon
<1>5. (Stored \o rxFifo)' = SubSeq(Stored \o rxFifo, 1, Len(Stored))
    BY <1>1, <1>3, <1>4, Zenon
<1>6. (rxErr \/ pc = "emptyRecv")' \in BOOLEAN
    OBVIOUS
<1>7. Channel!DropNewest
    BY <1>4, <1>5, <1>6, Zenon DEF Channel!DropNewest
<1> QED BY <1>7 DEF Channel!Work

\* The user gets the oldest bytes of the ring.
LEMMA TakeMaps ==
    ASSUME IInv, NEW k \in 1 .. RingLength,
           (Stored \o rxFifo)' = SubSeq(Stored, k + 1, RingLength) \o rxFifo,
           rxLast' = Stored[k],
           (rxErr \/ pc = "emptyRecv")' = (rxErr \/ pc = "emptyRecv")
    PROVE  Channel!Work
<1>1. PICK s : s = Stored
    OBVIOUS
<1>2. s \in Seq(Byte) /\ rxFifo \in Seq(Byte) /\ Len(s) = RingLength /\ Len(s) \in Nat
    BY <1>1, RingIs
<1>3. k \in 0 .. Len(s) /\ k \in 1 .. Len(s)
    BY <1>2
<1>4. SubSeq(s, k + 1, Len(s)) \o rxFifo = SubSeq(s \o rxFifo, k + 1, Len(s \o rxFifo))
    BY <1>2, <1>3, JoinDrop, Zenon
<1>5. k \in 1 .. Len(s \o rxFifo) /\ (s \o rxFifo)[k] = s[k]
    BY <1>2, <1>3
<1>6. Channel!Deliver
    BY <1>1, <1>2, <1>4, <1>5, Zenon DEF Channel!Deliver
<1> QED BY <1>6 DEF Channel!Work

LEMMA ReceiveStoreMaps ==
    ASSUME IInv, ReceiveStore
    PROVE  Channel!Work \/ Same
<1> USE DEF hw
<1>1. /\ pc = "recvStore" /\ pc' = "recvEnable" /\ arg \in ReceiveSizes
      /\ UNCHANGED <<ringBuf, head, rxFifo, rxErr>>
    BY DEF IInv, CallInv, Receiving, ReceiveStore, At
<1>2. arg \in Nat /\ arg > 0
    BY <1>1, Sizes
<1>3. (rxErr \/ pc = "emptyRecv")' = (rxErr \/ pc = "emptyRecv")
    <2>1. pc # "emptyRecv" /\ pc' # "emptyRecv" /\ rxErr' = rxErr
        BY <1>1
    <2> QED BY <2>1, Zenon
<1>4. /\ ringBuf \in [0 .. RingSize - 1 -> Byte] /\ head \in 0 .. RingSize - 1
      /\ tail \in 0 .. RingSize - 1 /\ TypeInv
    BY DEF IInv, TypeInv
<1>5. CASE ~ring
    <2>1. tail' = tail /\ rxLast' = rxLast
        BY <1>5, Zenon DEF ReceiveStore
    <2>2. Stored' = Stored
        BY <1>1, <2>1, StoredNext, Zenon
    <2>3. (Stored \o rxFifo)' = Stored \o rxFifo
        BY <1>1, <2>2, Zenon
    <2> QED BY <1>3, <2>1, <2>3, Zenon DEF Same
<1>6. CASE ring
    <2>1. TakeFromRing(arg)
        BY <1>6, Zenon DEF ReceiveStore
    <2>2. PICK k \in 0 .. RingLength :
              /\ k = arg \/ k = RingLength
              /\ Kept(ringBuf, head, tail') = SubSeq(Stored, k + 1, RingLength)
              /\ rxLast' = IF k = 0 THEN rxLast ELSE Stored[k]
        BY <1>2, <1>4, <2>1, TakeIs, Zenon
    <2>3. (Stored \o rxFifo)' = SubSeq(Stored, k + 1, RingLength) \o rxFifo
        <3>1. Stored' = Kept(ringBuf, head, tail')
            BY <1>1, StoredNext, Zenon
        <3> QED BY <1>1, <2>2, <3>1, Zenon
    <2>4. RingLength \in Nat /\ Stored \in Seq(Byte) /\ Len(Stored) = RingLength
        BY RingIs, Sizes
    <2>5. CASE k = 0
        <3>1. RingLength = 0
            BY <1>2, <2>2, <2>5
        <3>2. SubSeq(Stored, k + 1, RingLength) = Stored
            BY <2>4, <2>5, <3>1
        <3>3. (Stored \o rxFifo)' = Stored \o rxFifo /\ rxLast' = rxLast
            BY <2>2, <2>3, <2>5, <3>2, Zenon
        <3> QED BY <1>3, <3>3, Zenon DEF Same
    <2>6. CASE k # 0
        <3>1. k \in 1 .. RingLength /\ rxLast' = Stored[k]
            BY <2>2, <2>4, <2>6
        <3> QED BY <1>3, <2>3, <3>1, TakeMaps, Zenon
    <2> QED BY <2>5, <2>6
<1> QED BY <1>5, <1>6

\* A byte that goes straight to the user finds nothing in the ring before it.
LEMMA ByteToUserMaps ==
    ASSUME IInv, ByteToUser, rxFifo # << >>, rxFifo' = Tail(rxFifo),
           UNCHANGED <<rxErr, pc>>
    PROVE  Channel!Work
<1>1. /\ head = tail /\ rxLast' = Head(rxFifo) /\ UNCHANGED <<ringBuf, head, tail>>
    BY DEF IInv, TypeInv, RingInv, ByteToUser
<1>2. Stored = << >> /\ Stored' = << >>
    BY <1>1, RingIs, StoredNext
<1>3. rxFifo \in Seq(Byte) /\ Len(rxFifo) \in Nat /\ Len(rxFifo) > 0
    BY RingIs
<1>4. << >> \o rxFifo = rxFifo /\ << >> \o Tail(rxFifo) = Tail(rxFifo)
    BY <1>3
<1>5. /\ Head(rxFifo) = rxFifo[1] /\ 1 \in 1 .. Len(rxFifo)
      /\ Tail(rxFifo) = SubSeq(rxFifo, 1 + 1, Len(rxFifo))
    BY <1>3
<1>6. (Stored \o rxFifo)' = Tail(rxFifo) /\ Stored \o rxFifo = rxFifo
    BY <1>2, <1>4, Zenon
<1>7. (rxErr \/ pc = "emptyRecv")' = (rxErr \/ pc = "emptyRecv")
    BY Zenon
<1>8. Channel!Deliver
    BY <1>1, <1>5, <1>6, <1>7, Zenon DEF Channel!Deliver
<1> QED BY <1>8 DEF Channel!Work

\* A byte for the ring: nothing changes for the user, unless the ring is full.
LEMMA ByteToRingMaps ==
    ASSUME IInv, Careful, ByteToRing, rxFifo # << >>, rxFifo' = Tail(rxFifo),
           UNCHANGED <<rxErr, pc>>
    PROVE  Channel!Work \/ Same
<1>1. /\ ringBuf \in [0 .. RingSize - 1 -> Byte] /\ head \in 0 .. RingSize - 1
      /\ tail \in 0 .. RingSize - 1 /\ TypeInv /\ rxFifo \in Seq(Byte)
    BY DEF IInv, TypeInv
<1>2. ringBuf' = [ringBuf EXCEPT ![head] = Head(rxFifo)] /\ head' = NextIndex(head)
    BY DEF ByteToRing
<1>3. (rxErr \/ pc = "emptyRecv")' = (rxErr \/ pc = "emptyRecv")
    BY Zenon
<1>4. /\ RingLength = RingCount(head, tail) /\ Stored = Kept(ringBuf, head, tail)
      /\ Stored \in Seq(Byte) /\ Len(Stored) = RingLength /\ RingLength \in 0 .. RingSize - 1
    BY RingIs, Zenon
<1>5. CASE ~RingFull /\ UNCHANGED <<tail, rxLast, rxSize, rxState>>
    <2>1. RingCount(head, tail) # RingSize - 1 /\ tail' = tail /\ rxLast' = rxLast
        BY <1>4, <1>5 DEF RingFull
    <2>2. (Stored \o rxFifo)' = Kept(ringBuf, head, tail) \o rxFifo
        BY <1>1, <1>2, <2>1, StoreByte, Zenon
    <2>3. (Stored \o rxFifo)' = Stored \o rxFifo
        BY <1>4, <2>2, Zenon
    <2> QED BY <1>3, <2>1, <2>3, Zenon DEF Same
<1>6. CASE RingFull /\ tail' = NextIndex(tail) /\ UNCHANGED <<rxLast, rxSize, rxState>>
    <2>1. RingLength = RingSize - 1 /\ 1 \in 0 .. RingCount(head, tail) /\ RingLength \in Nat
        BY <1>4, <1>6, Sizes DEF RingFull
    <2>2. (tail + 1) % RingSize = NextIndex(tail) /\ NextIndex(tail) \in 0 .. RingSize - 1
        <3>1. CASE tail + 1 = RingSize
            BY <1>1, <3>1, Sizes DEF NextIndex
        <3>2. CASE tail + 1 # RingSize
            <4>1. tail + 1 \in 0 .. RingSize - 1
                BY <1>1, <3>2, Sizes
            <4> QED BY <3>2, <4>1, Sizes DEF NextIndex
        <3> QED BY <3>1, <3>2
    <2>3. /\ RingCount(head, (tail + 1) % RingSize) = RingCount(head, tail) - 1
          /\ Kept(ringBuf, head, (tail + 1) % RingSize)
                 = SubSeq(Kept(ringBuf, head, tail), 1 + 1, RingCount(head, tail))
        BY <1>1, <2>1, KeptTake, Zenon
    <2>4. /\ RingCount(head, NextIndex(tail)) = RingLength - 1
          /\ Kept(ringBuf, head, NextIndex(tail)) = SubSeq(Stored, 1 + 1, Len(Stored))
        BY <1>4, <2>2, <2>3, Zenon
    <2>5. RingCount(head, NextIndex(tail)) # RingSize - 1
        BY <2>1, <2>4, Sizes
    <2>6. (Stored \o rxFifo)' = SubSeq(Stored, 1 + 1, Len(Stored)) \o rxFifo
        <3>1. (Stored \o rxFifo)' = Kept(ringBuf, head, NextIndex(tail)) \o rxFifo
            BY <1>2, <1>6, <2>2, <2>5, StoreByte, Zenon
        <3> QED BY <2>4, <3>1, Zenon
    <2>7. PICK s : s = Stored
        OBVIOUS
    <2>8. s \in Seq(Byte) /\ Len(s) = RingSize - 1 /\ Len(s) > 0 /\ 1 \in 0 .. Len(s)
        BY <1>4, <2>1, <2>7, Sizes
    <2>9. SubSeq(s, 1 + 1, Len(s)) \o rxFifo = SubSeq(s \o rxFifo, 1 + 1, Len(s \o rxFifo))
        BY <1>1, <2>8, JoinDrop, Zenon
    <2>10. PICK w : w = s \o rxFifo
        OBVIOUS
    <2>11. w \in Seq(Byte) /\ Len(w) > RingSize - 1 /\ Tail(w) = SubSeq(w, 1 + 1, Len(w))
        <3>1. Len(w) > Len(s)
            BY <1>1, <2>8, <2>10, JoinMove, Zenon
        <3>2. w \in Seq(Byte) /\ Len(w) \in Nat
            BY <1>1, <2>8, <2>10
        <3> QED BY <2>8, <3>1, <3>2, Sizes
    <2>12. (Stored \o rxFifo)' = Tail(Stored \o rxFifo) /\ Len(Stored \o rxFifo) > RingSize - 1
        BY <2>6, <2>7, <2>9, <2>10, <2>11, Zenon
    <2>13. Channel!DropOldest
        BY <1>3, <1>6, <2>12, Zenon DEF Channel!DropOldest
    <2> QED BY <2>13 DEF Channel!Work
<1>7. CASE \E n \in ReceiveSizes : RingFull /\ OverrunMayReceive(n) /\ TakeFromRing(n)
    <2>1. PICK n \in ReceiveSizes : RingFull /\ OverrunMayReceive(n) /\ TakeFromRing(n)
        BY <1>7
    <2>2. n \in Nat /\ n > 0 /\ n < RingSize /\ RingLength = RingSize - 1
        BY <2>1, Sizes DEF OverrunMayReceive, RingFull
    <2>3. PICK k \in 0 .. RingLength :
              /\ k <= n /\ (k = n \/ k = RingLength)
              /\ tail' \in 0 .. RingSize - 1
              /\ RingCount(head, tail') = RingLength - k
              /\ Kept(ringBuf, head, tail') = SubSeq(Stored, k + 1, RingLength)
              /\ rxLast' = IF k = 0 THEN rxLast ELSE Stored[k]
        BY <1>1, <2>1, <2>2, TakeIs, Zenon
    <2>4. k \in 1 .. RingLength /\ RingCount(head, tail') # RingSize - 1 /\ k # 0
        BY <2>2, <2>3, Sizes
    <2>5. rxLast' = Stored[k]
        BY <2>3, <2>4, Zenon
    <2>6. (Stored \o rxFifo)' = Kept(ringBuf, head, tail') \o rxFifo
        <3>1. PICK t : t = tail'
            OBVIOUS
        <3>2. t \in 0 .. RingSize - 1 /\ RingCount(head, t) # RingSize - 1 /\ tail' = t
            BY <2>3, <2>4, <3>1, Zenon
        <3>3. (Stored \o rxFifo)' = Kept(ringBuf, head, t) \o rxFifo
            BY <1>2, <3>2, StoreByte, Zenon
        <3> QED BY <3>1, <3>3, Zenon
    <2>7. (Stored \o rxFifo)' = SubSeq(Stored, k + 1, RingLength) \o rxFifo
        BY <2>3, <2>6, Zenon
    <2> QED BY <1>3, <2>4, <2>5, <2>7, TakeMaps, Zenon
<1> QED BY <1>5, <1>6, <1>7 DEF ByteToRing

\* Steps that touch neither the bytes nor the error.
LEMMA StutterMaps ==
    ASSUME UNCHANGED <<ringBuf, head, tail, rxFifo, rxLast, rxErr>>,
           (pc = "emptyRecv") = (pc' = "emptyRecv")
    PROVE  Same
<1>1. Stored' = Stored
    BY StoredNext, Zenon
<1>2. (rxErr \/ pc = "emptyRecv")' = (rxErr \/ pc = "emptyRecv")
    BY Zenon
<1> QED BY <1>1, <1>2, Zenon DEF Same

LEMMA InitMaps == Init => Channel!Init
<1> SUFFICES ASSUME Init PROVE Channel!Init
    OBVIOUS
<1>1. /\ rxFifo = << >> /\ rxLast = 0 /\ rxErr = FALSE /\ pc = "idle" /\ head = tail
    BY DEF Init
<1>2. Stored = << >>
    BY <1>1, InitKeeps, RingIs
<1>3. Stored \o rxFifo = << >>
    BY <1>1, <1>2
<1>4. (rxErr \/ pc = "emptyRecv") = FALSE
    BY <1>1
<1>5. stale = FALSE
    BY DEF Init
<1> QED BY <1>1, <1>3, <1>4, <1>5, Zenon DEF Channel!Init

LEMMA StaleStays == [Next]_vars /\ stale => stale'
<1> USE DEF irq
<1> QED BY DEF Next, Handler, InCall, Arrive, Shift, ByteOut, IrqEnter, IrqIterate, IrqLeave, TurnOff,
            Send, Receive, Call, AbortSend, AbortReceive, DisableInterrupts, SendStore, ReceiveStore,
            EnableInterrupts, EndSend, EmptyReceive, EndReceive, vars

LEMMA StepWorks == IInv /\ Careful /\ [Next]_vars => Channel!Work \/ Same
<1> SUFFICES ASSUME IInv, Careful, [Next]_vars PROVE Channel!Work \/ Same
    OBVIOUS
<1>1. CASE Arrive
    BY <1>1, ArriveMaps, Zenon
<1>2. CASE IrqEnter
    <2>1. /\ rxErr' = FALSE /\ rxFifo' = IF rxErr THEN << >> ELSE rxFifo
          /\ UNCHANGED <<ringBuf, head, tail, rxLast, pc>>
        BY <1>2, Zenon DEF IrqEnter, rx, task
    <2>2. CASE rxErr
        BY <2>1, <2>2, EmptyMaps
    <2>3. CASE ~rxErr
        <3>1. rxFifo' = rxFifo /\ rxErr' = rxErr
            BY <2>1, <2>3 DEF IInv, TypeInv
        <3> QED BY <2>1, <3>1, StutterMaps
    <2> QED BY <2>2, <2>3
<1>3. CASE IrqIterate
    <2>1. UNCHANGED <<rxErr, pc>>
        BY <1>3 DEF IrqIterate, task
    <2>2. CASE CanTake
        <3>1. rxFifo # << >> /\ rxFifo' = Tail(rxFifo) /\ (ByteToUser \/ ByteToRing)
            BY <1>3, <2>2 DEF IrqIterate, CanTake
        <3> QED BY <2>1, <3>1, ByteToUserMaps, ByteToRingMaps, Zenon
    <2>3. CASE ~CanTake
        <3>1. UNCHANGED <<ringBuf, head, tail, rxFifo, rxLast>>
            BY <1>3, <2>3 DEF IrqIterate, rx
        <3> QED BY <2>1, <3>1, StutterMaps
    <2> QED BY <2>2, <2>3
<1>4. CASE ReceiveStore
    BY <1>4, ReceiveStoreMaps, Zenon
<1>5. CASE EmptyReceive
    <2>1. pc = "emptyRecv" /\ rxFifo' = << >> /\ rxErr' = rxErr /\ UNCHANGED <<ringBuf, head, tail, rxLast>>
        BY <1>5 DEF EmptyReceive, At, rx
    <2>2. rxErr' \in BOOLEAN
        BY <2>1 DEF IInv, TypeInv
    <2> QED BY <2>1, <2>2, EmptyMaps, Zenon
<1>6. CASE AbortReceive
    <2>1. /\ UNCHANGED <<ringBuf, head, tail, rxFifo, rxLast, rxErr>>
          /\ pc = "idle" /\ pc' = IF ring THEN "endRecv" ELSE "emptyRecv"
        BY <1>6 DEF AbortReceive, At, rx, hw
    <2>2. CASE ring
        BY <2>1, <2>2, StutterMaps
    <2>3. CASE ~ring
        <3>1. (rxErr \/ pc = "emptyRecv")' = TRUE
            BY <2>1, <2>3
        <3>2. Stored' = Stored
            BY <2>1, StoredNext, Zenon
        <3>3. Channel!Announce
            BY <2>1, <3>1, <3>2, Zenon DEF Channel!Announce
        <3> QED BY <3>3 DEF Channel!Work
    <2> QED BY <2>2, <2>3
<1>7. CASE Shift \/ ByteOut \/ IrqLeave \/ UNCHANGED vars
    <2>1. UNCHANGED <<ringBuf, head, tail, rxFifo, rxLast, rxErr, pc>>
        BY <1>7 DEF Shift, ByteOut, IrqLeave, vars, hw, rx, task
    <2> QED BY <2>1, StutterMaps
<1>8. CASE Send \/ Receive \/ AbortSend
    <2>1. UNCHANGED <<ringBuf, head, tail, rxFifo, rxLast, rxErr>> /\ pc # "emptyRecv" /\ pc' # "emptyRecv"
        BY <1>8 DEF Send, Receive, Call, AbortSend, At, hw, rx
    <2> QED BY <2>1, StutterMaps
<1>9. CASE DisableInterrupts \/ SendStore \/ EnableInterrupts \/ EndSend \/ EndReceive
    <2>1. UNCHANGED <<ringBuf, head, tail, rxFifo, rxLast, rxErr>> /\ pc # "emptyRecv" /\ pc' # "emptyRecv"
        BY <1>9 DEF DisableInterrupts, SendStore, EnableInterrupts, EndSend, EndReceive, At, hw, rx
    <2> QED BY <2>1, StutterMaps
<1> QED BY <1>1, <1>2, <1>3, <1>4, <1>5, <1>6, <1>7, <1>8, <1>9 DEF Next, Handler, InCall

\* A mask that becomes stale breaks the channel.
LEMMA StepMaps == IInv /\ Careful /\ [Next]_vars => [Channel!Next]_Channel!vars
<1> SUFFICES ASSUME IInv, Careful, [Next]_vars PROVE [Channel!Next]_Channel!vars
    OBVIOUS
<1>1. stale' \in BOOLEAN /\ stale \in BOOLEAN
    <2>1. IInv'
        BY NextKeeps, Zenon
    <2> QED BY <2>1 DEF IInv, TypeInv
<1>2. CASE stale'
    <2>1. Channel!Break
        BY <1>1, <1>2, Zenon DEF Channel!Break
    <2> QED BY <2>1, Zenon DEF Channel!Next
<1>3. CASE ~stale'
    <2>1. stale => stale'
        BY <1>1, StaleStays, Zenon
    <2>2. stale' = stale
        BY <1>1, <1>3, <2>1
    <2>3. CASE Channel!Work
        BY <2>2, <2>3, Zenon DEF Channel!Next
    <2>4. CASE Same
        BY <2>2, <2>4, Zenon DEF Same, Channel!vars
    <2> QED BY <2>3, <2>4, StepWorks, Zenon
<1> QED BY <1>2, <1>3

\* The receive path of the driver is a channel of bytes: for every depth of the
\* queue and every ring, however the line, the handler, its callbacks and the task
\* interleave, the user gets the bytes of the line in order and each at most once;
\* they are lost only from a full ring, by an overflow that is reported, or by a
\* receive that is given up; this until a mask is stale.
THEOREM RefinesChannel == ASSUME Careful PROVE Spec => ImplementsByteChannel
<1>1. Init => Channel!Init
    BY InitMaps
<1>2. IInv /\ [Next]_vars => [Channel!Next]_Channel!vars
    BY StepMaps
<1> QED BY <1>1, <1>2, Invariant, PTL DEF Spec, ImplementsByteChannel, Channel!Spec

=============================================================================
