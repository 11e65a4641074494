----------------------- MODULE VirtqueueChannel_proofs -----------------------
(***************************************************************************)
(* For every ring size and index width: the vring of virtqueue.c is the    *)
(* first-in first-out channel of VringChannel.  Every step of the two      *)
(* cores is a step of the channel, or changes nothing the channel knows.   *)
(***************************************************************************)
EXTENDS MCVirtqueue, Virtqueue_proofs, SequenceTheorems

Pos(f, k) == (f + k - 1) % IdxMod

-----------------------------------------------------------------------------
\* The positions of a ring from its reader's index on.

\* The k-th position is k-1 entries away from the reader.
LEMMA PosIs ==
    ASSUME NEW f \in Idx, NEW k \in 1 .. IdxMod
    PROVE  /\ Pos(f, k) \in Idx
           /\ Pos(f, k) = IF f + k - 1 < IdxMod THEN f + k - 1 ELSE f + k - 1 - IdxMod
           /\ Dist(f, Pos(f, k)) = k - 1
<1>1. CASE f + k - 1 < IdxMod
    <2>1. f + k - 1 \in Idx /\ Pos(f, k) = f + k - 1
        BY <1>1, Sizes DEF Idx, Pos
    <2> QED BY <1>1, <2>1, DistIs, Sizes DEF Idx
<1>2. CASE ~(f + k - 1 < IdxMod)
    <2>1. f + k - 1 - IdxMod \in Idx
        BY <1>2, Sizes DEF Idx
    <2>2. Pos(f, k) = f + k - 1 - IdxMod
        <3>1. (f + k - 1) % IdxMod = (f + k - 1 - IdxMod) % IdxMod
            BY <1>2, Sizes DEF Idx
        <3> QED BY <2>1, <3>1, Sizes DEF Idx, Pos
    <2> QED BY <1>2, <2>1, <2>2, DistIs, Sizes DEF Idx
<1> QED BY <1>1, <1>2

\* Seen from the next reader's index the same positions come one earlier.
LEMMA PosNext ==
    ASSUME NEW f \in Idx, NEW k \in 1 .. IdxMod - 1
    PROVE  Pos(Inc(f), k) = Pos(f, k + 1)
<1>1. Inc(f) \in Idx /\ Inc(f) = (IF f = IdxMod - 1 THEN 0 ELSE f + 1)
    BY IncIs
<1>2. k \in 1 .. IdxMod /\ k + 1 \in 1 .. IdxMod
    BY Sizes
<1>3. Pos(Inc(f), k) = IF Inc(f) + k - 1 < IdxMod THEN Inc(f) + k - 1 ELSE Inc(f) + k - 1 - IdxMod
    BY <1>1, <1>2, PosIs
<1>4. Pos(f, k + 1) = IF f + (k + 1) - 1 < IdxMod THEN f + (k + 1) - 1 ELSE f + (k + 1) - 1 - IdxMod
    BY <1>2, PosIs
<1> QED BY <1>1, <1>3, <1>4, Sizes DEF Idx

\* The reader's own position is the first, the writer's comes after the last.
LEMMA PosEnds ==
    ASSUME NEW f \in Idx, NEW t \in Idx
    PROVE  Pos(f, 1) = f /\ Pos(f, Dist(f, t) + 1) = t
<1>1. 1 \in 1 .. IdxMod /\ Dist(f, t) + 1 \in 1 .. IdxMod
    <2>1. Dist(f, t) \in Nat /\ Dist(f, t) < IdxMod
        BY DistIs, Sizes DEF Idx
    <2> QED BY <2>1, Sizes
<1>2. Pos(f, 1) = f
    BY <1>1, PosIs, Sizes DEF Idx
<1>3. Dist(f, t) = IF t >= f THEN t - f ELSE t - f + IdxMod
    BY DistIs
<1>4. Pos(f, Dist(f, t) + 1) = IF f + (Dist(f, t) + 1) - 1 < IdxMod THEN f + (Dist(f, t) + 1) - 1
                               ELSE f + (Dist(f, t) + 1) - 1 - IdxMod
    BY <1>1, PosIs
<1> QED BY <1>2, <1>3, <1>4, Sizes DEF Idx

-----------------------------------------------------------------------------
\* InOrder, the queue a ring stands for.

LEMMA InOrderIs ==
    ASSUME NEW ring \in [Desc -> Desc], NEW f \in Idx, NEW t \in Idx
    PROVE  /\ InOrder(ring, f, t) \in Seq(Desc)
           /\ Len(InOrder(ring, f, t)) = Dist(f, t)
           /\ \A k \in 1 .. Dist(f, t) : /\ InOrder(ring, f, t)[k] = ring[Slot(Pos(f, k))]
                                         /\ k \in 1 .. IdxMod
<1>1. Dist(f, t) \in Nat /\ Dist(f, t) < IdxMod
    BY DistIs, Sizes DEF Idx
<1>2. \A k \in 1 .. Dist(f, t) : k \in 1 .. IdxMod
    BY <1>1, Sizes
<1>3. \A k \in 1 .. Dist(f, t) : ring[Slot(Pos(f, k))] \in Desc
    BY <1>2, PosIs, SlotType
<1>4. InOrder(ring, f, t) = [k \in 1 .. Dist(f, t) |-> ring[Slot(Pos(f, k))]]
    BY DEF InOrder, Pos
<1>5. InOrder(ring, f, t) \in [1 .. Dist(f, t) -> Desc]
    BY <1>3, <1>4
<1>6. InOrder(ring, f, t) \in Seq(Desc) /\ Len(InOrder(ring, f, t)) = Dist(f, t)
    <2>1. InOrder(ring, f, t) \in Seq(Desc)
        BY <1>1, <1>5, SeqDef
    <2>2. DOMAIN InOrder(ring, f, t) = 1 .. Dist(f, t)
        BY <1>4
    <2> QED BY <1>1, <2>1, <2>2, LenProperties
<1> QED BY <1>2, <1>4, <1>6

\* Writing the writer's slot leaves the queue alone while there is room.
LEMMA InOrderWrite ==
    ASSUME NEW ring \in [Desc -> Desc], NEW f \in Idx, NEW t \in Idx,
           Dist(f, t) < N,
           NEW r \in [Desc -> Desc], \A s \in Desc : s # Slot(t) => r[s] = ring[s]
    PROVE  InOrder(r, f, t) = InOrder(ring, f, t)
<1>1. ASSUME NEW k \in 1 .. Dist(f, t)
      PROVE  r[Slot(Pos(f, k))] = ring[Slot(Pos(f, k))]
    <2>1. Dist(f, t) \in Nat /\ k \in 1 .. IdxMod
        BY DistIs, Sizes DEF Idx
    <2>2. Pos(f, k) \in Idx /\ Dist(f, Pos(f, k)) = k - 1
        BY <2>1, PosIs
    <2>3. Slot(Pos(f, k)) # Slot(t)
        <3>1. Dist(f, Pos(f, k)) < N
            BY <2>1, <2>2, Sizes
        <3>2. Pos(f, k) # t
            BY <2>1, <2>2
        <3> QED BY <2>2, <3>1, <3>2, SlotInjective
    <2> QED BY <2>2, <2>3, SlotType
<1> QED BY <1>1 DEF InOrder, Pos

\* Publishing an entry appends it.
LEMMA InOrderPublish ==
    ASSUME NEW ring \in [Desc -> Desc], NEW f \in Idx, NEW t \in Idx, Dist(f, t) < N
    PROVE  InOrder(ring, f, Inc(t)) = Append(InOrder(ring, f, t), ring[Slot(t)])
<1> DEFINE q == InOrder(ring, f, t)
           p == InOrder(ring, f, Inc(t))
           a == Append(q, ring[Slot(t)])
<1>1. Inc(t) \in Idx /\ Dist(f, t) \in Nat /\ ring[Slot(t)] \in Desc
    BY IncIs, DistType, SlotType
<1>2. Dist(f, Inc(t)) = Dist(f, t) + 1
    BY PendingPublish
<1>3. /\ p \in Seq(Desc) /\ Len(p) = Dist(f, t) + 1
      /\ \A k \in 1 .. Dist(f, t) + 1 : p[k] = ring[Slot(Pos(f, k))]
    BY <1>1, <1>2, InOrderIs
<1>4. /\ q \in Seq(Desc) /\ Len(q) = Dist(f, t)
      /\ \A k \in 1 .. Dist(f, t) : q[k] = ring[Slot(Pos(f, k))]
    BY <1>1, InOrderIs
<1> HIDE DEF q, p
<1>5. /\ a \in Seq(Desc) /\ Len(a) = Dist(f, t) + 1
      /\ \A k \in 1 .. Dist(f, t) : a[k] = q[k]
      /\ a[Dist(f, t) + 1] = ring[Slot(t)]
    BY <1>1, <1>4, AppendProperties
<1> HIDE DEF a
<1>6. \A k \in 1 .. Dist(f, t) + 1 : p[k] = a[k]
    <2> SUFFICES ASSUME NEW k \in 1 .. Dist(f, t) + 1 PROVE p[k] = a[k]
        OBVIOUS
    <2>1. CASE k \in 1 .. Dist(f, t)
        BY <1>3, <1>4, <1>5, <2>1
    <2>2. CASE k = Dist(f, t) + 1
        BY <1>3, <1>5, <2>2, PosEnds
    <2> QED BY <1>1, <2>1, <2>2
<1>7. p = a
    BY <1>3, <1>5, <1>6, SeqEqual
<1> QED BY <1>7 DEF p, a, q

\* Reading an entry takes the first.
LEMMA InOrderTake ==
    ASSUME NEW ring \in [Desc -> Desc], NEW f \in Idx, NEW t \in Idx, f # t
    PROVE  /\ InOrder(ring, f, t) # << >>
           /\ Head(InOrder(ring, f, t)) = ring[Slot(f)]
           /\ Tail(InOrder(ring, f, t)) = InOrder(ring, Inc(f), t)
<1> DEFINE q == InOrder(ring, f, t)
           p == InOrder(ring, Inc(f), t)
<1>1. /\ Inc(f) \in Idx /\ Dist(f, t) \in Nat /\ Dist(Inc(f), t) \in Nat
      /\ Dist(Inc(f), t) = Dist(f, t) - 1 /\ Dist(f, t) < IdxMod
    BY IncIs, DistIs, DistType, PendingTake, Sizes DEF Idx
<1>2. /\ p \in Seq(Desc) /\ Len(p) = Dist(f, t) - 1
      /\ \A k \in 1 .. Dist(f, t) - 1 : p[k] = ring[Slot(Pos(Inc(f), k))]
    BY <1>1, InOrderIs
<1>3. /\ q \in Seq(Desc) /\ Len(q) = Dist(f, t)
      /\ \A k \in 1 .. Dist(f, t) : q[k] = ring[Slot(Pos(f, k))]
    BY <1>1, InOrderIs
<1> HIDE DEF q, p
<1>4. q # << >>
    BY <1>1, <1>3, EmptySeq
<1>5. /\ Tail(q) \in Seq(Desc) /\ Len(Tail(q)) = Dist(f, t) - 1
      /\ \A k \in 1 .. Dist(f, t) - 1 : Tail(q)[k] = q[k + 1]
    BY <1>1, <1>3, <1>4, HeadTailProperties
<1>6. ASSUME NEW k \in 1 .. Dist(f, t) - 1 PROVE Tail(q)[k] = p[k]
    <2>1. k + 1 \in 1 .. Dist(f, t) /\ k \in 1 .. IdxMod - 1
        BY <1>1, Sizes
    <2>2. q[k + 1] = ring[Slot(Pos(f, k + 1))]
        BY <1>3, <2>1
    <2>3. p[k] = ring[Slot(Pos(Inc(f), k))]
        BY <1>2
    <2> QED BY <1>5, <2>1, <2>2, <2>3, PosNext
<1>7. Tail(q) = p
    BY <1>2, <1>5, <1>6, SeqEqual
<1>8. Head(q) = ring[Slot(f)]
    <2>1. Head(q) = q[1]
        BY <1>3, <1>4
    <2>2. q[1] = ring[Slot(Pos(f, 1))]
        BY <1>1, <1>3
    <2> QED BY <2>1, <2>2, PosEnds
<1> QED BY <1>4, <1>7, <1>8 DEF q, p

-----------------------------------------------------------------------------
\* The buffers from the h-th on: StillToFill for any index h.
From(h) == [k \in 1 .. (N - h) |-> h + k - 1]

LEMMA FromIs ==
    ASSUME NEW h \in 0 .. N
    PROVE  /\ From(h) \in Seq(Desc)
           /\ Len(From(h)) = N - h
           /\ \A k \in 1 .. N - h : From(h)[k] = h + k - 1
<1>1. N - h \in Nat
    BY Sizes
<1>2. \A k \in 1 .. N - h : h + k - 1 \in Desc
    BY Sizes DEF Desc
<1>3. From(h) \in [1 .. N - h -> Desc]
    BY <1>2 DEF From
<1>4. From(h) \in Seq(Desc)
    BY <1>1, <1>3, SeqDef
<1>5. Len(From(h)) = N - h
    <2>1. DOMAIN From(h) = 1 .. N - h
        BY DEF From
    <2> QED BY <1>1, <1>4, <2>1, LenProperties
<1> QED BY <1>4, <1>5 DEF From

\* Once the ring is filled nothing is left.
LEMMA NothingLeft == From(N) = << >>
<1>1. From(N) \in Seq(Desc) /\ Len(From(N)) = 0
    BY FromIs, Sizes
<1> QED BY <1>1, EmptySeq

\* Filling one more buffer moves it from what is left to the ring.
LEMMA FillMoves ==
    ASSUME NEW h \in 0 .. N - 1, NEW q \in Seq(Desc)
    PROVE  Append(q, h) \o From(h + 1) = q \o From(h)
<1> DEFINE a == Append(q, h)
           s == From(h)
           t == From(h + 1)
           l == a \o t
           r == q \o s
<1>1. h \in Desc /\ h \in Nat /\ N \in Nat /\ N - h \in Nat
    BY Sizes DEF Desc
<1>2. /\ s \in Seq(Desc) /\ Len(s) = N - h
      /\ \A k \in 1 .. N - h : s[k] = h + k - 1
    BY <1>1, FromIs
<1>3. /\ t \in Seq(Desc) /\ Len(t) = N - (h + 1)
      /\ \A k \in 1 .. N - (h + 1) : t[k] = h + k
    <2>1. h + 1 \in 0 .. N
        BY <1>1
    <2>2. /\ t \in Seq(Desc) /\ Len(t) = N - (h + 1)
          /\ \A k \in 1 .. N - (h + 1) : t[k] = (h + 1) + k - 1
        BY <2>1, FromIs
    <2> QED BY <1>1, <2>2
<1>4. Len(q) \in Nat
    BY LenProperties
<1>5. /\ a \in Seq(Desc) /\ Len(a) = Len(q) + 1
      /\ \A k \in 1 .. Len(q) : a[k] = q[k]
      /\ a[Len(q) + 1] = h
    BY <1>1, AppendProperties
<1> HIDE DEF a, s, t
<1>6. /\ l \in Seq(Desc) /\ Len(l) = Len(a) + Len(t)
      /\ \A k \in 1 .. Len(a) + Len(t) : l[k] = IF k <= Len(a) THEN a[k] ELSE t[k - Len(a)]
    BY <1>3, <1>5, ConcatProperties
<1>7. /\ r \in Seq(Desc) /\ Len(r) = Len(q) + Len(s)
      /\ \A k \in 1 .. Len(q) + Len(s) : r[k] = IF k <= Len(q) THEN q[k] ELSE s[k - Len(q)]
    BY <1>2, ConcatProperties
<1> HIDE DEF l, r
<1>8. Len(l) = Len(r) /\ Len(r) = Len(q) + N - h
    BY <1>1, <1>2, <1>3, <1>4, <1>5, <1>6, <1>7
<1>9. ASSUME NEW k \in 1 .. Len(l) PROVE l[k] = r[k]
    <2>1. l[k] = (IF k <= Len(q) + 1 THEN a[k] ELSE t[k - (Len(q) + 1)])
        BY <1>5, <1>6
    <2>2. r[k] = (IF k <= Len(q) THEN q[k] ELSE s[k - Len(q)])
        BY <1>7, <1>8
    <2>3. CASE k <= Len(q)
        <3>1. k \in 1 .. Len(q) /\ k <= Len(q) + 1
            BY <1>4, <2>3
        <3> QED BY <1>5, <2>3, <2>1, <2>2, <3>1
    <2>4. CASE k = Len(q) + 1
        <3>1. l[k] = h
            BY <1>4, <1>5, <2>4, <2>1
        <3>2. r[k] = s[1]
            BY <1>4, <2>4, <2>2
        <3> QED BY <1>1, <1>2, <3>1, <3>2
    <2>5. CASE k > Len(q) + 1
        <3>1. k - Len(q) \in 1 .. N - h /\ k - (Len(q) + 1) \in 1 .. N - (h + 1)
            BY <1>1, <1>4, <1>8, <2>5
        <3>2. l[k] = t[k - (Len(q) + 1)]
            BY <1>4, <2>5, <2>1
        <3>3. r[k] = s[k - Len(q)]
            BY <1>4, <2>5, <2>2
        <3>4. s[k - Len(q)] = h + (k - Len(q)) - 1 /\ t[k - (Len(q) + 1)] = h + (k - (Len(q) + 1))
            BY <1>2, <1>3, <3>1
        <3> QED BY <1>1, <1>4, <3>2, <3>3, <3>4
    <2> QED BY <1>1, <1>4, <1>8, <2>3, <2>4, <2>5
<1>10. l = r
    BY <1>6, <1>7, <1>8, <1>9, SeqEqual
<1> QED BY <1>10 DEF l, r, a, s, t

-----------------------------------------------------------------------------
\* What the channel's two queues are mapped to.
AvailQ == InOrder(availRing, vq_available_idx, availIdx)
            \o IF masterSends THEN << >> ELSE StillToFill
UsedQ  == InOrder(usedRing, vq_used_cons_idx, usedIdx)
            \o IF masterSends THEN StillToFill ELSE << >>

LEMMA StillToFillIs == StillToFill = From(vq_desc_head_idx)
BY DEF StillToFill, From

\* After the fill a queue is what is in its ring, whatever the ring holds.
LEMMA FilledQueue ==
    ASSUME Filled, NEW ring \in [Desc -> Desc], NEW f \in Idx, NEW t \in Idx
    PROVE  /\ InOrder(ring, f, t) \o (IF masterSends THEN << >> ELSE StillToFill) = InOrder(ring, f, t)
           /\ InOrder(ring, f, t) \o (IF masterSends THEN StillToFill ELSE << >>) = InOrder(ring, f, t)
<1>1. StillToFill = << >>
    BY StillToFillIs, NothingLeft DEF Filled
<1>2. InOrder(ring, f, t) \in Seq(Desc)
    BY InOrderIs
<1> QED BY <1>1, <1>2, ConcatEmptySeq

\* The two cores do nothing before the fill is done.
LEMMA ActOnlyFilled ==
    ASSUME IInv, mHeld # {} \/ mPut # {} \/ rHeld # {} \/ rPut # {} \/ mGet \/ rGet
    PROVE  Filled
BY DEF IInv, FillAlone

-----------------------------------------------------------------------------
\* Each step of the cores, seen by the channel.

LEMMA FillAvailBuffersMaps ==
    ASSUME IInv, FillAvailBuffers
    PROVE  UNCHANGED Chan!chanVars
<1> DEFINE h == vq_desc_head_idx
           q == InOrder(availRing, vq_available_idx, availIdx)
<1>1. /\ ~masterSends /\ ~Filled /\ h' = h + 1 /\ availIdx' = Inc(availIdx)
      /\ availRing' = [availRing EXCEPT ![Slot(availIdx)] = h]
      /\ UNCHANGED <<masterSends, vq_available_idx, usedRing, usedIdx, vq_used_cons_idx,
                     mHeld, mPut, rHeld, rPut>>
    BY DEF FillAvailBuffers, master, remote
<1>2. h \in 0 .. N - 1 /\ h \in Desc
    BY <1>1, Sizes DEF IInv, TypeOK, Filled, Desc
<1>3. /\ availRing \in [Desc -> Desc] /\ availIdx \in Idx /\ vq_available_idx \in Idx
      /\ Slot(availIdx) \in Desc /\ Dist(vq_available_idx, availIdx) < N
    BY <1>1, Room, SlotType DEF IInv, TypeOK
<1>4. /\ availRing' \in [Desc -> Desc] /\ availRing'[Slot(availIdx)] = h
      /\ \A s \in Desc : s # Slot(availIdx) => availRing'[s] = availRing[s]
    BY <1>1, <1>2, <1>3
<1>5. InOrder(availRing', vq_available_idx, availIdx) = q
    BY <1>3, <1>4, InOrderWrite
<1>6. InOrder(availRing', vq_available_idx, Inc(availIdx)) = Append(q, h)
    BY <1>3, <1>4, <1>5, InOrderPublish
<1>7. q \in Seq(Desc)
    BY <1>3, InOrderIs
<1> HIDE DEF q
<1>8. Append(q, h) \o From(h + 1) = q \o From(h)
    BY <1>2, <1>7, FillMoves
<1>9. StillToFill' = From(h + 1) /\ StillToFill = From(h)
    BY <1>1 DEF StillToFill, From
<1>10. AvailQ' = AvailQ
    <2>1. AvailQ' = Append(q, h) \o From(h + 1)
        BY <1>1, <1>6, <1>9 DEF AvailQ
    <2>2. AvailQ = q \o From(h)
        BY <1>1, <1>9 DEF AvailQ, q
    <2> QED BY <1>8, <2>1, <2>2
<1>11. UsedQ' = UsedQ
    BY <1>1 DEF UsedQ
<1> QED BY <1>1, <1>10, <1>11 DEF Chan!chanVars, AvailQ, UsedQ

LEMMA FillUsedBuffersMaps ==
    ASSUME IInv, FillUsedBuffers
    PROVE  UNCHANGED Chan!chanVars
<1> DEFINE h == vq_desc_head_idx
           q == InOrder(usedRing, vq_used_cons_idx, usedIdx)
<1>1. /\ masterSends /\ ~Filled /\ h' = h + 1 /\ usedIdx' = Inc(usedIdx)
      /\ usedRing' = [usedRing EXCEPT ![Slot(usedIdx)] = h]
      /\ UNCHANGED <<masterSends, vq_used_cons_idx, availRing, availIdx, vq_available_idx,
                     mHeld, mPut, rHeld, rPut>>
    BY DEF FillUsedBuffers, master, remote
<1>2. h \in 0 .. N - 1 /\ h \in Desc
    BY <1>1, Sizes DEF IInv, TypeOK, Filled, Desc
<1>3. /\ usedRing \in [Desc -> Desc] /\ usedIdx \in Idx /\ vq_used_cons_idx \in Idx
      /\ Slot(usedIdx) \in Desc /\ Dist(vq_used_cons_idx, usedIdx) < N
    BY <1>1, Room, SlotType DEF IInv, TypeOK
<1>4. /\ usedRing' \in [Desc -> Desc] /\ usedRing'[Slot(usedIdx)] = h
      /\ \A s \in Desc : s # Slot(usedIdx) => usedRing'[s] = usedRing[s]
    BY <1>1, <1>2, <1>3
<1>5. InOrder(usedRing', vq_used_cons_idx, usedIdx) = q
    BY <1>3, <1>4, InOrderWrite
<1>6. InOrder(usedRing', vq_used_cons_idx, Inc(usedIdx)) = Append(q, h)
    BY <1>3, <1>4, <1>5, InOrderPublish
<1>7. q \in Seq(Desc)
    BY <1>3, InOrderIs
<1> HIDE DEF q
<1>8. Append(q, h) \o From(h + 1) = q \o From(h)
    BY <1>2, <1>7, FillMoves
<1>9. StillToFill' = From(h + 1) /\ StillToFill = From(h)
    BY <1>1 DEF StillToFill, From
<1>10. UsedQ' = UsedQ
    <2>1. UsedQ' = Append(q, h) \o From(h + 1)
        BY <1>1, <1>6, <1>9 DEF UsedQ
    <2>2. UsedQ = q \o From(h)
        BY <1>1, <1>9 DEF UsedQ, q
    <2> QED BY <1>8, <2>1, <2>2
<1>11. AvailQ' = AvailQ
    BY <1>1 DEF AvailQ
<1> QED BY <1>1, <1>10, <1>11 DEF Chan!chanVars, AvailQ, UsedQ

\* The master gives a buffer up when it publishes it, not when it writes it.
LEMMA AddBufferMaps ==
    ASSUME IInv, NEW d \in Desc, AddBuffer(d)
    PROVE  UNCHANGED Chan!chanVars
<1>1. /\ Filled /\ mPut = {} /\ mPut' = {d} /\ d \in mHeld /\ mHeld' = mHeld \ {d}
      /\ availRing' = [availRing EXCEPT ![Slot(availIdx)] = d]
      /\ UNCHANGED <<masterSends, availIdx, vq_available_idx, usedRing, usedIdx,
                     vq_used_cons_idx, vq_desc_head_idx, rHeld, rPut>>
    BY DEF AddBuffer, remote
<1>2. /\ availRing \in [Desc -> Desc] /\ availIdx \in Idx /\ vq_available_idx \in Idx
      /\ Slot(availIdx) \in Desc /\ Dist(vq_available_idx, availIdx) < N
    BY <1>1, Room, SlotType DEF IInv, TypeOK
<1>3. /\ availRing' \in [Desc -> Desc]
      /\ \A s \in Desc : s # Slot(availIdx) => availRing'[s] = availRing[s]
    BY <1>1, <1>2
<1>4. InOrder(availRing', vq_available_idx, availIdx) = InOrder(availRing, vq_available_idx, availIdx)
    BY <1>2, <1>3, InOrderWrite
<1>5. AvailQ' = AvailQ /\ UsedQ' = UsedQ
    BY <1>1, <1>4 DEF AvailQ, UsedQ, StillToFill
<1>6. mHeld' \cup mPut' = mHeld \cup mPut
    BY <1>1
<1> QED BY <1>1, <1>5, <1>6 DEF Chan!chanVars, AvailQ, UsedQ

LEMMA AddConsumedBufferMaps ==
    ASSUME IInv, NEW d \in Desc, AddConsumedBuffer(d)
    PROVE  UNCHANGED Chan!chanVars
<1>1. /\ rPut = {} /\ rPut' = {d} /\ d \in rHeld /\ rHeld' = rHeld \ {d}
      /\ usedRing' = [usedRing EXCEPT ![Slot(usedIdx)] = d]
      /\ UNCHANGED <<masterSends, usedIdx, vq_used_cons_idx, availRing, availIdx,
                     vq_available_idx, vq_desc_head_idx, mHeld, mPut>>
    BY DEF AddConsumedBuffer, master
<1>2. /\ usedRing \in [Desc -> Desc] /\ usedIdx \in Idx /\ vq_used_cons_idx \in Idx
      /\ Slot(usedIdx) \in Desc /\ Dist(vq_used_cons_idx, usedIdx) < N
    BY <1>1, Room, SlotType DEF IInv, TypeOK
<1>3. /\ usedRing' \in [Desc -> Desc]
      /\ \A s \in Desc : s # Slot(usedIdx) => usedRing'[s] = usedRing[s]
    BY <1>1, <1>2
<1>4. InOrder(usedRing', vq_used_cons_idx, usedIdx) = InOrder(usedRing, vq_used_cons_idx, usedIdx)
    BY <1>2, <1>3, InOrderWrite
<1>5. AvailQ' = AvailQ /\ UsedQ' = UsedQ
    BY <1>1, <1>4 DEF AvailQ, UsedQ, StillToFill
<1>6. rHeld' \cup rPut' = rHeld \cup rPut
    BY <1>1
<1> QED BY <1>1, <1>5, <1>6 DEF Chan!chanVars, AvailQ, UsedQ

LEMMA PublishAvailMaps ==
    ASSUME IInv, PublishAvail
    PROVE  Chan!Next
<1>1. /\ mPut # {} /\ mPut' = {} /\ mHeld' = mHeld /\ availIdx' = Inc(availIdx)
      /\ UNCHANGED <<masterSends, availRing, vq_available_idx, usedRing, usedIdx,
                     vq_used_cons_idx, vq_desc_head_idx, rHeld, rPut>>
    BY DEF PublishAvail, remote
<1>2. PICK d \in Desc : mPut = {d}
    BY <1>1, CountSingle DEF IInv, TypeOK
<1>3. availRing[Slot(availIdx)] = d /\ d \notin mHeld
    BY <1>2 DEF IInv, SlotWritten, OneOwner
<1>4. /\ availRing \in [Desc -> Desc] /\ vq_available_idx \in Idx
      /\ availIdx \in Idx /\ Inc(availIdx) \in Idx /\ Filled
    BY <1>1, ActOnlyFilled, IncIs DEF IInv, TypeOK
<1>5. /\ AvailQ = InOrder(availRing, vq_available_idx, availIdx)
      /\ AvailQ' = InOrder(availRing, vq_available_idx, Inc(availIdx))
      /\ UsedQ' = UsedQ
    <2>1. StillToFill' = StillToFill
        BY <1>1 DEF StillToFill
    <2>2. AvailQ' = InOrder(availRing, vq_available_idx, Inc(availIdx))
                      \o IF masterSends THEN << >> ELSE StillToFill
        BY <1>1, <2>1 DEF AvailQ
    <2> QED BY <1>1, <1>4, <2>1, <2>2, FilledQueue DEF AvailQ, UsedQ
<1>6. AvailQ' = Append(AvailQ, d)
    BY <1>1, <1>3, <1>4, <1>5, Room, InOrderPublish
<1>7. d \in mHeld \cup mPut /\ mHeld' \cup mPut' = (mHeld \cup mPut) \ {d}
    BY <1>1, <1>2, <1>3
<1>8. Chan!MasterGives(d)
    BY <1>1, <1>5, <1>6, <1>7 DEF Chan!MasterGives, AvailQ, UsedQ
<1> QED BY <1>7, <1>8 DEF Chan!Next

LEMMA PublishUsedMaps ==
    ASSUME IInv, PublishUsed
    PROVE  Chan!Next
<1>1. /\ rPut # {} /\ rPut' = {} /\ rHeld' = rHeld /\ usedIdx' = Inc(usedIdx)
      /\ UNCHANGED <<masterSends, usedRing, vq_used_cons_idx, availRing, availIdx,
                     vq_available_idx, vq_desc_head_idx, mHeld, mPut>>
    BY DEF PublishUsed, master
<1>2. PICK d \in Desc : rPut = {d}
    BY <1>1, CountSingle DEF IInv, TypeOK
<1>3. usedRing[Slot(usedIdx)] = d /\ d \notin rHeld
    BY <1>2 DEF IInv, SlotWritten, OneOwner
<1>4. /\ usedRing \in [Desc -> Desc] /\ vq_used_cons_idx \in Idx
      /\ usedIdx \in Idx /\ Inc(usedIdx) \in Idx /\ Filled
    BY <1>1, ActOnlyFilled, IncIs DEF IInv, TypeOK
<1>5. /\ UsedQ = InOrder(usedRing, vq_used_cons_idx, usedIdx)
      /\ UsedQ' = InOrder(usedRing, vq_used_cons_idx, Inc(usedIdx))
      /\ AvailQ' = AvailQ
    <2>1. StillToFill' = StillToFill
        BY <1>1 DEF StillToFill
    <2>2. UsedQ' = InOrder(usedRing, vq_used_cons_idx, Inc(usedIdx))
                     \o IF masterSends THEN StillToFill ELSE << >>
        BY <1>1, <2>1 DEF UsedQ
    <2> QED BY <1>1, <1>4, <2>1, <2>2, FilledQueue DEF AvailQ, UsedQ
<1>6. UsedQ' = Append(UsedQ, d)
    BY <1>1, <1>3, <1>4, <1>5, Room, InOrderPublish
<1>7. d \in rHeld \cup rPut /\ rHeld' \cup rPut' = (rHeld \cup rPut) \ {d}
    BY <1>1, <1>2, <1>3
<1>8. Chan!RemoteGives(d)
    BY <1>1, <1>5, <1>6, <1>7 DEF Chan!RemoteGives, AvailQ, UsedQ
<1> QED BY <1>7, <1>8 DEF Chan!Next

LEMMA GetBufferMaps ==
    ASSUME IInv, GetBuffer
    PROVE  Chan!MasterTakes
<1>1. /\ mGet /\ mHeld' = mHeld \cup {usedRing[Slot(vq_used_cons_idx)]}
      /\ vq_used_cons_idx' = Inc(vq_used_cons_idx)
      /\ UNCHANGED <<masterSends, availRing, availIdx, vq_available_idx, usedRing, usedIdx,
                     vq_desc_head_idx, mPut, rHeld, rPut>>
    BY DEF GetBuffer, shared, remote
<1>2. /\ usedRing \in [Desc -> Desc] /\ vq_used_cons_idx \in Idx /\ usedIdx \in Idx
      /\ Inc(vq_used_cons_idx) \in Idx /\ Filled /\ vq_used_cons_idx # usedIdx
    BY <1>1, ActOnlyFilled, IncIs DEF IInv, TypeOK, ReaderHasEntry
<1>3. /\ UsedQ = InOrder(usedRing, vq_used_cons_idx, usedIdx)
      /\ UsedQ' = InOrder(usedRing, Inc(vq_used_cons_idx), usedIdx)
      /\ AvailQ' = AvailQ
    <2>1. StillToFill' = StillToFill
        BY <1>1 DEF StillToFill
    <2>2. UsedQ' = InOrder(usedRing, Inc(vq_used_cons_idx), usedIdx)
                     \o IF masterSends THEN StillToFill ELSE << >>
        BY <1>1, <2>1 DEF UsedQ
    <2> QED BY <1>1, <1>2, <2>1, <2>2, FilledQueue DEF AvailQ, UsedQ
<1>4. /\ UsedQ # << >> /\ Head(UsedQ) = usedRing[Slot(vq_used_cons_idx)]
      /\ Tail(UsedQ) = UsedQ'
    BY <1>2, <1>3, InOrderTake
<1>5. mHeld' \cup mPut' = (mHeld \cup mPut) \cup {Head(UsedQ)}
    BY <1>1, <1>4
<1> QED BY <1>1, <1>3, <1>4, <1>5 DEF Chan!MasterTakes, AvailQ, UsedQ

LEMMA GetAvailableBufferMaps ==
    ASSUME IInv, GetAvailableBuffer
    PROVE  Chan!RemoteTakes
<1>1. /\ rGet /\ rHeld' = rHeld \cup {availRing[Slot(vq_available_idx)]}
      /\ vq_available_idx' = Inc(vq_available_idx)
      /\ UNCHANGED <<masterSends, availRing, availIdx, vq_used_cons_idx, usedRing, usedIdx,
                     vq_desc_head_idx, mHeld, mPut, rPut>>
    BY DEF GetAvailableBuffer, shared, master
<1>2. /\ availRing \in [Desc -> Desc] /\ vq_available_idx \in Idx /\ availIdx \in Idx
      /\ Inc(vq_available_idx) \in Idx /\ Filled /\ vq_available_idx # availIdx
    BY <1>1, ActOnlyFilled, IncIs DEF IInv, TypeOK, ReaderHasEntry
<1>3. /\ AvailQ = InOrder(availRing, vq_available_idx, availIdx)
      /\ AvailQ' = InOrder(availRing, Inc(vq_available_idx), availIdx)
      /\ UsedQ' = UsedQ
    <2>1. StillToFill' = StillToFill
        BY <1>1 DEF StillToFill
    <2>2. AvailQ' = InOrder(availRing, Inc(vq_available_idx), availIdx)
                      \o IF masterSends THEN << >> ELSE StillToFill
        BY <1>1, <2>1 DEF AvailQ
    <2> QED BY <1>1, <1>2, <2>1, <2>2, FilledQueue DEF AvailQ, UsedQ
<1>4. /\ AvailQ # << >> /\ Head(AvailQ) = availRing[Slot(vq_available_idx)]
      /\ Tail(AvailQ) = AvailQ'
    BY <1>2, <1>3, InOrderTake
<1>5. rHeld' \cup rPut' = (rHeld \cup rPut) \cup {Head(AvailQ)}
    BY <1>1, <1>4
<1> QED BY <1>1, <1>3, <1>4, <1>5 DEF Chan!RemoteTakes, AvailQ, UsedQ

\* A test for an empty ring is nothing the channel sees.
LEMMA TestMaps ==
    ASSUME GetBufferTest \/ GetAvailableBufferTest \/ UNCHANGED vars
    PROVE  UNCHANGED Chan!chanVars
<1>1. UNCHANGED <<masterSends, availRing, availIdx, vq_available_idx, usedRing, usedIdx,
                  vq_used_cons_idx, vq_desc_head_idx, mHeld, mPut, rHeld, rPut>>
    BY DEF GetBufferTest, GetAvailableBufferTest, vars, shared, master, remote
<1>2. AvailQ' = AvailQ /\ UsedQ' = UsedQ
    BY <1>1 DEF AvailQ, UsedQ, StillToFill
<1> QED BY <1>1, <1>2 DEF Chan!chanVars, AvailQ, UsedQ

-----------------------------------------------------------------------------
\* The freshly created control blocks stand for the freshly filled channel.
LEMMA InitMaps == Init => Chan!Init
<1> SUFFICES ASSUME Init PROVE Chan!Init
    OBVIOUS
<1>1. /\ masterSends \in BOOLEAN /\ availIdx = 0 /\ usedIdx = 0 /\ vq_desc_head_idx = 0
      /\ vq_used_cons_idx = 0 /\ vq_available_idx = 0
      /\ mHeld = {} /\ mPut = {} /\ rHeld = {} /\ rPut = {}
    BY DEF Init
<1>2. availRing \in [Desc -> Desc] /\ usedRing \in [Desc -> Desc] /\ 0 \in Idx
    BY TypeInit, Sizes DEF TypeOK, Idx
<1>3. InOrder(availRing, 0, 0) = << >> /\ InOrder(usedRing, 0, 0) = << >>
    <2>1. Dist(0, 0) = 0
        BY <1>2, DistIs
    <2> QED BY <1>2, <2>1, InOrderIs, EmptySeq
<1>4. StillToFill = Chan!AllBuffers /\ StillToFill \in Seq(Desc)
    <2>1. \A k \in 1 .. N : 0 + k - 1 = k - 1
        BY Sizes
    <2>2. StillToFill = Chan!AllBuffers
        BY <1>1, <2>1, Sizes DEF StillToFill, Chan!AllBuffers
    <2> QED BY <1>1, <2>2, StillToFillIs, FromIs, Sizes
<1>5. /\ << >> \o << >> = << >> /\ << >> \o StillToFill = StillToFill
    BY <1>4, ConcatEmptySeq, EmptySeq
<1> QED BY <1>1, <1>3, <1>4, <1>5 DEF Chan!Init

LEMMA StepMaps == IInv /\ [Next]_vars => [Chan!Next]_Chan!chanVars
<1> SUFFICES ASSUME IInv, [Next]_vars PROVE [Chan!Next]_Chan!chanVars
    OBVIOUS
<1>1. CASE GetBuffer
    BY <1>1, GetBufferMaps DEF Chan!Next
<1>2. CASE GetAvailableBuffer
    BY <1>2, GetAvailableBufferMaps DEF Chan!Next
<1>3. CASE PublishAvail \/ PublishUsed
    BY <1>3, PublishAvailMaps, PublishUsedMaps
<1>4. CASE GetBufferTest \/ GetAvailableBufferTest \/ UNCHANGED vars
    BY <1>4, TestMaps
<1>5. CASE FillAvailBuffers \/ FillUsedBuffers
    BY <1>5, FillAvailBuffersMaps, FillUsedBuffersMaps
<1>6. CASE \E d \in Desc : AddBuffer(d) \/ AddConsumedBuffer(d)
    BY <1>6, AddBufferMaps, AddConsumedBufferMaps
<1> QED BY <1>1, <1>2, <1>3, <1>4, <1>5, <1>6 DEF Next

\* virtqueue.c implements the channel: whatever the size of the ring, however
\* the cores interleave and however often the indices wrap, buffers come out of
\* each ring in the order they were published, each exactly once.
THEOREM RefinesChannel == Spec => ImplementsChannel
<1>1. Init => Chan!Init
    BY InitMaps
<1>2. IInv /\ [Next]_vars => [Chan!Next]_Chan!chanVars
    BY StepMaps
<1> QED BY <1>1, <1>2, Inductive, PTL DEF Spec, ImplementsChannel, Chan!Spec

=============================================================================
