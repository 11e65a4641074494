-------------------------- MODULE Virtqueue_proofs --------------------------
(***************************************************************************)
(* For every ring size and index width: the vring loses, duplicates and    *)
(* overwrites no buffer.                                                   *)
(***************************************************************************)
EXTENDS Virtqueue, FiniteSetTheorems, TLAPS

\* The assumption without its divisibility part, which few steps need.
LEMMA Sizes == /\ N \in Nat /\ N >= 1
               /\ IdxMod \in Nat /\ IdxMod >= 2 * N
BY VirtqueueAssumption

-----------------------------------------------------------------------------
\* Arithmetic of the wrapping indices.

LEMMA IncIs ==
    \A i \in Idx : /\ Inc(i) \in Idx
                   /\ Inc(i) = IF i = IdxMod - 1 THEN 0 ELSE i + 1
BY Sizes DEF Idx, Inc

LEMMA DistIs ==
    \A f, t \in Idx : /\ Dist(f, t) \in Idx
                      /\ Dist(f, t) = IF t >= f THEN t - f ELSE t - f + IdxMod
<1> SUFFICES ASSUME NEW f \in Idx, NEW t \in Idx
             PROVE /\ Dist(f, t) \in Idx
                   /\ Dist(f, t) = IF t >= f THEN t - f ELSE t - f + IdxMod
    OBVIOUS
<1>1. CASE t >= f
    BY <1>1, Sizes DEF Idx, Dist
<1>2. CASE ~(t >= f)
    <2>1. (t - f + IdxMod) \in Idx
        BY <1>2, Sizes DEF Idx
    <2>2. (t - f) % IdxMod = t - f + IdxMod
        BY <1>2, <2>1, Sizes DEF Idx
    <2> QED BY <1>2, <2>1, <2>2 DEF Dist
<1> QED BY <1>1, <1>2

LEMMA DistType == \A f, t \in Idx : Dist(f, t) \in Nat
BY DistIs, Sizes DEF Idx

LEMMA SlotType == \A i \in Idx : Slot(i) \in Desc
BY Sizes DEF Idx, Slot, Desc

\* The only multiple of N strictly between -N and N is zero.
LEMMA SmallMultiple ==
    ASSUME NEW k \in Int, -N < N * k, N * k < N
    PROVE  k = 0
<1>1. CASE k >= 1
    <2>1. N * (k - 1) >= 0 BY <1>1, Sizes
    <2>2. N * k = N * (k - 1) + N BY Sizes
    <2> QED BY <2>1, <2>2, Sizes
<1>2. CASE k =< -1
    <2>1. N * (-1 - k) >= 0 BY <1>2, Sizes
    <2>2. N * (-1 - k) = -N - N * k BY Sizes
    <2> QED BY <2>1, <2>2, Sizes
<1> QED BY <1>1, <1>2

LEMMA SlotOf == \A i \in Idx : \E q \in Int : i = N * q + Slot(i)
<1> SUFFICES ASSUME NEW i \in Idx PROVE \E q \in Int : i = N * q + Slot(i)
    OBVIOUS
<1>1. i \div N \in Int
    BY Sizes DEF Idx
<1>2. i = N * (i \div N) + (i % N)
    BY Sizes DEF Idx
<1>3. i = N * (i \div N) + Slot(i)
    BY <1>2 DEF Slot
<1> QED BY <1>1, <1>3

\* Positions less than a round away from the same start have different slots.
LEMMA SlotInjective ==
    ASSUME NEW f \in Idx, NEW i \in Idx, NEW j \in Idx,
           Dist(f, i) < N, Dist(f, j) < N, Slot(i) = Slot(j)
    PROVE  i = j
<1>1. PICK q \in Int : IdxMod = N * q
    <2>1. IdxMod = N * (IdxMod \div N) + (IdxMod % N)
        BY Sizes
    <2> QED BY <2>1, VirtqueueAssumption
<1>2. PICK qi \in Int : i = N * qi + Slot(i)
    BY SlotOf
<1>3. PICK qj \in Int : j = N * qj + Slot(j)
    BY SlotOf
<1>4. PICK a \in Idx : a = Dist(f, i)
    BY DistIs
<1>5. PICK b \in Idx : b = Dist(f, j)
    BY DistIs
<1>6. a = (IF i >= f THEN i - f ELSE i - f + IdxMod)
    BY <1>4, DistIs
<1>7. b = (IF j >= f THEN j - f ELSE j - f + IdxMod)
    BY <1>5, DistIs
<1>8. PICK e \in {0, 1, -1} : i - j = a - b + e * IdxMod
    <2>1. i - j = a - b + 0 * IdxMod \/ i - j = a - b + 1 * IdxMod \/ i - j = a - b + (-1) * IdxMod
        BY <1>6, <1>7, Sizes DEF Idx
    <2> QED BY <2>1
<1>9. Slot(i) \in Int /\ Slot(j) \in Int
    BY SlotType, Sizes DEF Desc
<1>10. i - j = N * (qi - qj)
    <2>1. i - j = N * qi - N * qj
        BY <1>2, <1>3, <1>9, Sizes DEF Idx
    <2> QED BY <2>1, Sizes
<1>11. a - b = N * (qi - qj - e * q)
    <2>1. e * IdxMod = N * (e * q)
        BY <1>1, Sizes
    <2>2. a - b = N * (qi - qj) - N * (e * q)
        BY <1>8, <1>10, <2>1, Sizes DEF Idx
    <2> QED BY <2>2, Sizes
<1>12. qi - qj - e * q = 0
    <2>1. -N < a - b /\ a - b < N
        BY <1>4, <1>5, Sizes DEF Idx
    <2>2. qi - qj - e * q \in Int
        OBVIOUS
    <2> QED BY <1>11, <2>1, <2>2, SmallMultiple
<1>13. a = b
    BY <1>11, <1>12, Sizes DEF Idx
<1> QED BY <1>6, <1>7, <1>13, Sizes DEF Idx

-----------------------------------------------------------------------------
\* What a step of a ring does to the positions and descriptors in flight.

LEMMA PendingIn ==
    ASSUME NEW f \in Idx, NEW t \in Idx, NEW i \in Pending(f, t)
    PROVE  i \in Idx /\ Dist(f, i) < Dist(f, t) /\ Dist(f, i) >= 0
BY DistIs, Sizes DEF Pending, Idx

\* Publishing an entry adds the writer's position, and nothing else.
LEMMA PendingPublish ==
    ASSUME NEW f \in Idx, NEW t \in Idx, Dist(f, t) < N
    PROVE  /\ Dist(f, Inc(t)) = Dist(f, t) + 1
           /\ Pending(f, Inc(t)) = Pending(f, t) \cup {t}
           /\ t \notin Pending(f, t)
<1>1. Inc(t) \in Idx /\ Inc(t) = (IF t = IdxMod - 1 THEN 0 ELSE t + 1)
    BY IncIs
<1>2. /\ Dist(f, t) = (IF t >= f THEN t - f ELSE t - f + IdxMod)
      /\ Dist(f, Inc(t)) = (IF Inc(t) >= f THEN Inc(t) - f ELSE Inc(t) - f + IdxMod)
    BY <1>1, DistIs
<1>3. Dist(f, Inc(t)) = Dist(f, t) + 1
    BY <1>1, <1>2, Sizes DEF Idx
<1>4. \A i \in Idx : Dist(f, i) < Dist(f, t) + 1 <=> Dist(f, i) < Dist(f, t) \/ i = t
    <2> SUFFICES ASSUME NEW i \in Idx
                 PROVE  Dist(f, i) < Dist(f, t) + 1 <=> Dist(f, i) < Dist(f, t) \/ i = t
        OBVIOUS
    <2>1. Dist(f, i) = (IF i >= f THEN i - f ELSE i - f + IdxMod)
        BY DistIs
    <2> QED BY <1>2, <2>1, Sizes DEF Idx
<1>5. Pending(f, Inc(t)) = Pending(f, t) \cup {t}
    BY <1>3, <1>4 DEF Pending
<1>6. t \notin Pending(f, t)
    BY DistIs, Sizes DEF Pending, Idx
<1> QED BY <1>3, <1>5, <1>6

\* Reading an entry removes the reader's position, and nothing else.
LEMMA PendingTake ==
    ASSUME NEW f \in Idx, NEW t \in Idx, f # t
    PROVE  /\ Dist(Inc(f), t) = Dist(f, t) - 1
           /\ f \in Pending(f, t)
           /\ Pending(Inc(f), t) = Pending(f, t) \ {f}
<1>1. Inc(f) \in Idx /\ Inc(f) = (IF f = IdxMod - 1 THEN 0 ELSE f + 1)
    BY IncIs
<1>2. \A i \in Idx :
        /\ Dist(f, i) = (IF i >= f THEN i - f ELSE i - f + IdxMod)
        /\ Dist(Inc(f), i) = (IF i >= Inc(f) THEN i - Inc(f) ELSE i - Inc(f) + IdxMod)
    BY <1>1, DistIs
<1>3. Dist(Inc(f), t) = Dist(f, t) - 1
    BY <1>1, <1>2, Sizes DEF Idx
<1>4. f \in Pending(f, t)
    <2>1. Dist(f, f) = 0
        BY <1>2, Sizes DEF Idx
    <2>2. Dist(f, t) > 0
        BY <1>2, Sizes DEF Idx
    <2> QED BY <2>1, <2>2 DEF Pending
<1>5. \A i \in Idx : Dist(Inc(f), i) < Dist(f, t) - 1 <=> Dist(f, i) < Dist(f, t) /\ i # f
    <2> SUFFICES ASSUME NEW i \in Idx
                 PROVE  Dist(Inc(f), i) < Dist(f, t) - 1 <=> Dist(f, i) < Dist(f, t) /\ i # f
        OBVIOUS
    <2>1. /\ Dist(f, i) = (IF i >= f THEN i - f ELSE i - f + IdxMod)
          /\ Dist(Inc(f), i) = (IF i >= Inc(f) THEN i - Inc(f) ELSE i - Inc(f) + IdxMod)
          /\ Dist(f, t) = (IF t >= f THEN t - f ELSE t - f + IdxMod)
        BY <1>2
    <2> QED BY <1>1, <2>1, Sizes DEF Idx
<1>6. Pending(Inc(f), t) = Pending(f, t) \ {f}
    BY <1>3, <1>5 DEF Pending
<1> QED BY <1>3, <1>4, <1>6

\* The window between two slots of one round holds no slot twice.
LEMMA WindowInjective ==
    ASSUME NEW f \in Idx, NEW t \in Idx, Dist(f, t) =< N,
           NEW i \in Pending(f, t), NEW j \in Pending(f, t), Slot(i) = Slot(j)
    PROVE  i = j
<1>1. /\ i \in Idx /\ Dist(f, i) < N
      /\ j \in Idx /\ Dist(f, j) < N
    <2>1. /\ i \in Idx /\ Dist(f, i) < Dist(f, t)
          /\ j \in Idx /\ Dist(f, j) < Dist(f, t)
        BY PendingIn
    <2>2. Dist(f, i) \in Nat /\ Dist(f, j) \in Nat /\ Dist(f, t) \in Nat
        BY <2>1, DistType
    <2> QED BY <2>1, <2>2, Sizes
<1> QED BY <1>1, SlotInjective

\* Writing the writer's slot touches no entry in flight while there is room.
LEMMA FlightWrite ==
    ASSUME NEW ring \in [Desc -> Desc], NEW f \in Idx, NEW t \in Idx,
           Dist(f, t) < N,
           NEW r \in [Desc -> Desc], \A s \in Desc : s # Slot(t) => r[s] = ring[s]
    PROVE  /\ Flight(r, f, t) = Flight(ring, f, t)
           /\ Injective(ring, f, t) => Injective(r, f, t)
<1>1. \A i \in Pending(f, t) : r[Slot(i)] = ring[Slot(i)]
    <2> SUFFICES ASSUME NEW i \in Pending(f, t) PROVE r[Slot(i)] = ring[Slot(i)]
        OBVIOUS
    <2>1. i \in Idx /\ Slot(i) \in Desc
        BY PendingIn, SlotType
    <2>2. Slot(i) # Slot(t)
        <3>1. SUFFICES ASSUME Slot(i) = Slot(t) PROVE FALSE
            OBVIOUS
        <3>2. Dist(f, i) < N
            <4>1. Dist(f, i) < Dist(f, t)
                BY PendingIn
            <4>2. Dist(f, i) \in Nat /\ Dist(f, t) \in Nat
                BY <2>1, DistType
            <4> QED BY <4>1, <4>2, Sizes
        <3>3. i = t
            BY <2>1, <3>1, <3>2, SlotInjective
        <3> QED BY <3>3, PendingPublish
    <2> QED BY <2>1, <2>2
<1>2. Flight(r, f, t) = Flight(ring, f, t)
    BY <1>1 DEF Flight
<1>3. Injective(ring, f, t) => Injective(r, f, t)
    BY <1>1 DEF Injective
<1> QED BY <1>2, <1>3

\* Publishing puts the written descriptor in flight.
LEMMA FlightPublish ==
    ASSUME NEW ring \in [Desc -> Desc], NEW f \in Idx, NEW t \in Idx,
           Dist(f, t) < N
    PROVE  /\ Flight(ring, f, Inc(t)) = Flight(ring, f, t) \cup {ring[Slot(t)]}
           /\ Injective(ring, f, t) /\ ring[Slot(t)] \notin Flight(ring, f, t)
                => Injective(ring, f, Inc(t))
<1>1. Pending(f, Inc(t)) = Pending(f, t) \cup {t}
    BY PendingPublish
<1>2. Flight(ring, f, Inc(t)) = Flight(ring, f, t) \cup {ring[Slot(t)]}
    BY <1>1, Zenon DEF Flight
<1>3. ASSUME Injective(ring, f, t), ring[Slot(t)] \notin Flight(ring, f, t)
      PROVE  Injective(ring, f, Inc(t))
    <2>1. \A i \in Pending(f, t) : ring[Slot(i)] # ring[Slot(t)]
        BY <1>3 DEF Flight
    <2> QED BY <1>1, <1>3, <2>1 DEF Injective
<1> QED BY <1>2, <1>3

\* Reading takes exactly one descriptor out of flight.
LEMMA FlightTake ==
    ASSUME NEW ring \in [Desc -> Desc], NEW f \in Idx, NEW t \in Idx,
           f # t, Injective(ring, f, t)
    PROVE  /\ ring[Slot(f)] \in Desc
           /\ ring[Slot(f)] \in Flight(ring, f, t)
           /\ Flight(ring, Inc(f), t) = Flight(ring, f, t) \ {ring[Slot(f)]}
           /\ Injective(ring, Inc(f), t)
<1>1. f \in Pending(f, t) /\ Pending(Inc(f), t) = Pending(f, t) \ {f}
    BY PendingTake
<1>2. ring[Slot(f)] \in Desc
    BY SlotType
<1>3. ring[Slot(f)] \in Flight(ring, f, t)
    BY <1>1 DEF Flight
<1>4. \A i \in Pending(f, t) : ring[Slot(i)] = ring[Slot(f)] => i = f
    BY <1>1 DEF Injective
<1>5. Flight(ring, Inc(f), t) = Flight(ring, f, t) \ {ring[Slot(f)]}
    BY <1>1, <1>4 DEF Flight
<1>6. Injective(ring, Inc(f), t)
    BY <1>1 DEF Injective
<1> QED BY <1>2, <1>3, <1>5, <1>6

LEMMA FlightType ==
    ASSUME NEW ring \in [Desc -> Desc], NEW f \in Idx, NEW t \in Idx
    PROVE  Flight(ring, f, t) \subseteq Desc
BY PendingIn, SlotType DEF Flight

-----------------------------------------------------------------------------
\* Type correctness: whatever the cores do, every index, slot and held
\* descriptor stays in its range.

LEMMA TypeInit == Init => TypeOK
<1>1. 0 \in Desc /\ 0 \in Idx /\ 0 \in 0 .. N
    BY Sizes DEF Desc, Idx
<1>2. [s \in Desc |-> 0] \in [Desc -> Desc]
    BY <1>1
<1> QED BY <1>1, <1>2 DEF Init, TypeOK, Single

LEMMA TypeStep == TypeOK /\ [Next]_vars => TypeOK'
<1> SUFFICES ASSUME TypeOK, [Next]_vars PROVE TypeOK'
    OBVIOUS
<1> USE DEF TypeOK
<1>1. CASE FillAvailBuffers
    <2>1. vq_desc_head_idx \in Desc /\ vq_desc_head_idx' \in 0 .. N
        BY <1>1, Sizes DEF FillAvailBuffers, Filled, Desc
    <2> QED BY <1>1, <2>1, IncIs, SlotType DEF FillAvailBuffers, master, remote
<1>2. CASE FillUsedBuffers
    <2>1. vq_desc_head_idx \in Desc /\ vq_desc_head_idx' \in 0 .. N
        BY <1>2, Sizes DEF FillUsedBuffers, Filled, Desc
    <2> QED BY <1>2, <2>1, IncIs, SlotType DEF FillUsedBuffers, master, remote
<1>3. ASSUME NEW d \in Desc, AddBuffer(d) PROVE TypeOK'
    BY <1>3 DEF AddBuffer, remote, Single
<1>4. CASE PublishAvail
    BY <1>4, IncIs DEF PublishAvail, remote, Single
<1>5. CASE GetBufferTest
    BY <1>5 DEF GetBufferTest, shared, remote
<1>6. CASE GetBuffer
    BY <1>6, IncIs, SlotType DEF GetBuffer, shared, remote
<1>7. CASE GetAvailableBufferTest
    BY <1>7 DEF GetAvailableBufferTest, shared, master
<1>8. CASE GetAvailableBuffer
    BY <1>8, IncIs, SlotType DEF GetAvailableBuffer, shared, master
<1>9. ASSUME NEW d \in Desc, AddConsumedBuffer(d) PROVE TypeOK'
    BY <1>9 DEF AddConsumedBuffer, master, Single
<1>10. CASE PublishUsed
    BY <1>10, IncIs DEF PublishUsed, master, Single
<1>11. CASE UNCHANGED vars
    BY <1>11 DEF vars, shared, master, remote
<1> QED BY <1>1, <1>2, <1>3, <1>4, <1>5, <1>6, <1>7, <1>8, <1>9, <1>10, <1>11 DEF Next

\* The types of virtqueue.c's control blocks and rings hold in every behaviour.
THEOREM TypeCorrect == Spec => []TypeOK
<1>1. Init => TypeOK BY TypeInit
<1>2. TypeOK /\ [Next]_vars => TypeOK' BY TypeStep
<1> QED BY <1>1, <1>2, PTL DEF Spec

-----------------------------------------------------------------------------
\* Counting.

LEMMA Finite ==
    ASSUME NEW S, S \subseteq Desc
    PROVE  IsFiniteSet(S) /\ Cardinality(S) \in Nat
<1>1. IsFiniteSet(Desc)
    BY FS_Interval, Sizes DEF Desc
<1>2. IsFiniteSet(S)
    BY <1>1, FS_Subset
<1> QED BY <1>2, FS_CardinalityType

LEMMA CountRemove ==
    ASSUME NEW S, S \subseteq Desc, NEW d \in S
    PROVE  Cardinality(S \ {d}) = Cardinality(S) - 1
BY Finite, FS_RemoveElement

LEMMA CountAdd ==
    ASSUME NEW S, S \subseteq Desc, NEW d \in Desc, d \notin S
    PROVE  Cardinality(S \cup {d}) = Cardinality(S) + 1
BY Finite, FS_AddElement

\* A core publishes one descriptor or none.
LEMMA CountSingle ==
    ASSUME NEW S, S \subseteq Desc, Single(S)
    PROVE  /\ S # {} => \E d \in Desc : S = {d} /\ Cardinality(S) = 1
           /\ S = {} => Cardinality(S) = 0
<1>1. ASSUME S # {} PROVE \E d \in Desc : S = {d} /\ Cardinality(S) = 1
    <2>1. PICK d \in S : TRUE BY <1>1
    <2>2. S = {d} BY <2>1 DEF Single
    <2> QED BY <2>1, <2>2, FS_Singleton
<1>2. S = {} => Cardinality(S) = 0
    BY FS_EmptySet
<1> QED BY <1>1, <1>2

\* The numbers Counted adds up are natural numbers with sum at most N.
LEMMA Counts ==
    ASSUME TypeOK
    PROVE  /\ Dist(vq_available_idx, availIdx) \in Nat
           /\ Dist(vq_used_cons_idx, usedIdx) \in Nat
           /\ Cardinality(mHeld) \in Nat /\ Cardinality(mPut) \in Nat
           /\ Cardinality(rHeld) \in Nat /\ Cardinality(rPut) \in Nat
           /\ vq_desc_head_idx \in Nat /\ vq_desc_head_idx =< N
BY Finite, DistType, Sizes DEF TypeOK

LEMMA Bounds == IInv => NoOverrun
BY Counts, Sizes DEF IInv, Counted, NoOverrun

-----------------------------------------------------------------------------
\* The safety of the vring: one lemma per action, each in terms of the sets of
\* descriptors the action moves.

Safe == OneOwner /\ NoneLost /\ Counted /\ SlotWritten /\ ReaderHasEntry

\* The rings' room: a core that holds a descriptor finds a free slot.
LEMMA Room ==
    ASSUME IInv
    PROVE  /\ mHeld # {} \/ mPut # {} => Dist(vq_available_idx, availIdx) < N
           /\ rHeld # {} \/ rPut # {} => Dist(vq_used_cons_idx, usedIdx) < N
           /\ ~Filled => /\ Dist(vq_available_idx, availIdx) < N
                         /\ Dist(vq_used_cons_idx, usedIdx) < N
<1>1. /\ mHeld # {} => Cardinality(mHeld) # 0
      /\ mPut # {} => Cardinality(mPut) # 0
      /\ rHeld # {} => Cardinality(rHeld) # 0
      /\ rPut # {} => Cardinality(rPut) # 0
    BY Finite, FS_EmptySet DEF IInv, TypeOK
<1> QED BY <1>1, Counts, Sizes DEF IInv, Counted, Filled

LEMMA AddBufferStep ==
    ASSUME IInv, NEW d \in Desc, AddBuffer(d)
    PROVE  Safe'
<1> USE DEF IInv
<1>1. /\ mPut = {} /\ mPut' = {d} /\ d \in mHeld /\ mHeld' = mHeld \ {d}
      /\ availRing' = [availRing EXCEPT ![Slot(availIdx)] = d]
      /\ rHeld' = rHeld /\ rPut' = rPut /\ Unfilled' = Unfilled /\ UsedFlight' = UsedFlight
      /\ UNCHANGED <<availIdx, vq_available_idx, usedRing, usedIdx, vq_used_cons_idx,
                     vq_desc_head_idx, mGet, rGet>>
    BY DEF AddBuffer, remote, Unfilled, UsedFlight
<1>2. Dist(vq_available_idx, availIdx) < N
    BY <1>1, Room
<1>3. /\ availRing'[Slot(availIdx)] = d
      /\ AvailFlight' = AvailFlight
      /\ Injective(availRing', vq_available_idx, availIdx)
    <2>1. availRing \in [Desc -> Desc] /\ availIdx \in Idx /\ vq_available_idx \in Idx
        BY DEF TypeOK
    <2>2. /\ availRing'[Slot(availIdx)] = d
          /\ Flight(availRing', vq_available_idx, availIdx) = AvailFlight
          /\ Injective(availRing', vq_available_idx, availIdx)
        <3>1. Injective(availRing, vq_available_idx, availIdx)
            BY DEF OneOwner
        <3>2. Slot(availIdx) \in Desc
            BY <2>1, SlotType
        <3>3. /\ availRing' \in [Desc -> Desc] /\ availRing'[Slot(availIdx)] = d
              /\ \A s \in Desc : s # Slot(availIdx) => availRing'[s] = availRing[s]
            BY <1>1, <2>1, <3>2
        <3> QED BY <1>2, <2>1, <3>1, <3>3, FlightWrite DEF AvailFlight
    <2> QED BY <1>1, <2>2 DEF AvailFlight
<1>4. OneOwner'
    BY <1>1, <1>3 DEF OneOwner
<1>5. NoneLost'
    BY <1>1, <1>3 DEF NoneLost
<1>6. Cardinality(mHeld') = Cardinality(mHeld) - 1 /\ Cardinality(mPut) = 0 /\ Cardinality(mPut') = 1
    BY <1>1, CountRemove, FS_EmptySet, FS_Singleton DEF TypeOK
<1>7. Counted'
    <2>1. Cardinality(rHeld') = Cardinality(rHeld) /\ Cardinality(rPut') = Cardinality(rPut)
        BY <1>1
    <2> QED BY <1>1, <1>6, <2>1, Counts DEF Counted
<1>8. SlotWritten' /\ ReaderHasEntry'
    BY <1>1, <1>3 DEF SlotWritten, ReaderHasEntry
<1> QED BY <1>4, <1>5, <1>7, <1>8 DEF Safe

LEMMA PublishAvailStep ==
    ASSUME IInv, PublishAvail
    PROVE  Safe'
<1> USE DEF IInv
<1>1. /\ mPut # {} /\ mPut' = {} /\ mHeld' = mHeld /\ availIdx' = Inc(availIdx)
      /\ rHeld' = rHeld /\ rPut' = rPut /\ Unfilled' = Unfilled /\ UsedFlight' = UsedFlight
      /\ UNCHANGED <<availRing, vq_available_idx, usedRing, usedIdx, vq_used_cons_idx,
                     vq_desc_head_idx, mGet, rGet>>
    BY DEF PublishAvail, remote, Unfilled, UsedFlight
<1>2. Dist(vq_available_idx, availIdx) < N
    BY <1>1, Room
<1>3. PICK d \in Desc : mPut = {d} /\ Cardinality(mPut) = 1
    BY <1>1, CountSingle DEF TypeOK
<1>4. availRing[Slot(availIdx)] = d /\ d \notin AvailFlight
    BY <1>3 DEF SlotWritten, OneOwner
<1>5. /\ AvailFlight' = AvailFlight \cup {d}
      /\ Injective(availRing', vq_available_idx', availIdx')
    BY <1>1, <1>2, <1>4, FlightPublish DEF TypeOK, OneOwner, AvailFlight
<1>6. OneOwner'
    BY <1>1, <1>3, <1>5 DEF OneOwner
<1>7. NoneLost'
    BY <1>1, <1>3, <1>5 DEF NoneLost
<1>8. Counted'
    <2>1. Dist(vq_available_idx', availIdx') = Dist(vq_available_idx, availIdx) + 1
        BY <1>1, <1>2, PendingPublish DEF TypeOK
    <2>2. Cardinality(mPut') = 0
        BY <1>1, FS_EmptySet
    <2>3. /\ Cardinality(mHeld') = Cardinality(mHeld)
          /\ Cardinality(rHeld') = Cardinality(rHeld) /\ Cardinality(rPut') = Cardinality(rPut)
        BY <1>1
    <2> QED BY <1>1, <1>3, <2>1, <2>2, <2>3, Counts DEF Counted
<1>9. SlotWritten'
    BY <1>1 DEF SlotWritten
<1>10. ReaderHasEntry'
    <2>1. vq_available_idx' # availIdx'
        <3>1. Dist(vq_available_idx, Inc(availIdx)) = Dist(vq_available_idx, availIdx) + 1
            BY <1>2, PendingPublish DEF TypeOK
        <3>2. Dist(vq_available_idx, vq_available_idx) = 0
            BY DistIs, Sizes DEF TypeOK, Idx
        <3> QED BY <1>1, <3>1, <3>2, Counts
    <2> QED BY <1>1, <2>1 DEF ReaderHasEntry
<1> QED BY <1>6, <1>7, <1>8, <1>9, <1>10 DEF Safe

LEMMA AddConsumedBufferStep ==
    ASSUME IInv, NEW d \in Desc, AddConsumedBuffer(d)
    PROVE  Safe'
<1> USE DEF IInv
<1>1. /\ rPut = {} /\ rPut' = {d} /\ d \in rHeld /\ rHeld' = rHeld \ {d}
      /\ usedRing' = [usedRing EXCEPT ![Slot(usedIdx)] = d]
      /\ mHeld' = mHeld /\ mPut' = mPut /\ Unfilled' = Unfilled /\ AvailFlight' = AvailFlight
      /\ UNCHANGED <<usedIdx, vq_used_cons_idx, availRing, availIdx, vq_available_idx,
                     vq_desc_head_idx, rGet, mGet>>
    BY DEF AddConsumedBuffer, master, Unfilled, AvailFlight
<1>2. Dist(vq_used_cons_idx, usedIdx) < N
    BY <1>1, Room
<1>3. /\ usedRing'[Slot(usedIdx)] = d
      /\ UsedFlight' = UsedFlight
      /\ Injective(usedRing', vq_used_cons_idx, usedIdx)
    <2>1. usedRing \in [Desc -> Desc] /\ usedIdx \in Idx /\ vq_used_cons_idx \in Idx
        BY DEF TypeOK
    <2>2. /\ usedRing'[Slot(usedIdx)] = d
          /\ Flight(usedRing', vq_used_cons_idx, usedIdx) = UsedFlight
          /\ Injective(usedRing', vq_used_cons_idx, usedIdx)
        <3>1. Injective(usedRing, vq_used_cons_idx, usedIdx)
            BY DEF OneOwner
        <3>2. Slot(usedIdx) \in Desc
            BY <2>1, SlotType
        <3>3. /\ usedRing' \in [Desc -> Desc] /\ usedRing'[Slot(usedIdx)] = d
              /\ \A s \in Desc : s # Slot(usedIdx) => usedRing'[s] = usedRing[s]
            BY <1>1, <2>1, <3>2
        <3> QED BY <1>2, <2>1, <3>1, <3>3, FlightWrite DEF UsedFlight
    <2> QED BY <1>1, <2>2 DEF UsedFlight
<1>4. OneOwner'
    BY <1>1, <1>3 DEF OneOwner
<1>5. NoneLost'
    BY <1>1, <1>3 DEF NoneLost
<1>6. Cardinality(rHeld') = Cardinality(rHeld) - 1 /\ Cardinality(rPut) = 0 /\ Cardinality(rPut') = 1
    BY <1>1, CountRemove, FS_EmptySet, FS_Singleton DEF TypeOK
<1>7. Counted'
    <2>1. Cardinality(mHeld') = Cardinality(mHeld) /\ Cardinality(mPut') = Cardinality(mPut)
        BY <1>1
    <2> QED BY <1>1, <1>6, <2>1, Counts DEF Counted
<1>8. SlotWritten' /\ ReaderHasEntry'
    BY <1>1, <1>3 DEF SlotWritten, ReaderHasEntry
<1> QED BY <1>4, <1>5, <1>7, <1>8 DEF Safe

LEMMA PublishUsedStep ==
    ASSUME IInv, PublishUsed
    PROVE  Safe'
<1> USE DEF IInv
<1>1. /\ rPut # {} /\ rPut' = {} /\ rHeld' = rHeld /\ usedIdx' = Inc(usedIdx)
      /\ mHeld' = mHeld /\ mPut' = mPut /\ Unfilled' = Unfilled /\ AvailFlight' = AvailFlight
      /\ UNCHANGED <<usedRing, vq_used_cons_idx, availRing, availIdx, vq_available_idx,
                     vq_desc_head_idx, rGet, mGet>>
    BY DEF PublishUsed, master, Unfilled, AvailFlight
<1>2. Dist(vq_used_cons_idx, usedIdx) < N
    BY <1>1, Room
<1>3. PICK d \in Desc : rPut = {d} /\ Cardinality(rPut) = 1
    BY <1>1, CountSingle DEF TypeOK
<1>4. usedRing[Slot(usedIdx)] = d /\ d \notin UsedFlight
    BY <1>3 DEF SlotWritten, OneOwner
<1>5. /\ UsedFlight' = UsedFlight \cup {d}
      /\ Injective(usedRing', vq_used_cons_idx', usedIdx')
    BY <1>1, <1>2, <1>4, FlightPublish DEF TypeOK, OneOwner, UsedFlight
<1>6. OneOwner'
    BY <1>1, <1>3, <1>5 DEF OneOwner
<1>7. NoneLost'
    BY <1>1, <1>3, <1>5 DEF NoneLost
<1>8. Counted'
    <2>1. Dist(vq_used_cons_idx', usedIdx') = Dist(vq_used_cons_idx, usedIdx) + 1
        BY <1>1, <1>2, PendingPublish DEF TypeOK
    <2>2. Cardinality(rPut') = 0
        BY <1>1, FS_EmptySet
    <2>3. /\ Cardinality(rHeld') = Cardinality(rHeld)
          /\ Cardinality(mHeld') = Cardinality(mHeld) /\ Cardinality(mPut') = Cardinality(mPut)
        BY <1>1
    <2> QED BY <1>1, <1>3, <2>1, <2>2, <2>3, Counts DEF Counted
<1>9. SlotWritten'
    BY <1>1 DEF SlotWritten
<1>10. ReaderHasEntry'
    <2>1. vq_used_cons_idx' # usedIdx'
        <3>1. Dist(vq_used_cons_idx, Inc(usedIdx)) = Dist(vq_used_cons_idx, usedIdx) + 1
            BY <1>2, PendingPublish DEF TypeOK
        <3>2. Dist(vq_used_cons_idx, vq_used_cons_idx) = 0
            BY DistIs, Sizes DEF TypeOK, Idx
        <3> QED BY <1>1, <3>1, <3>2, Counts
    <2> QED BY <1>1, <2>1 DEF ReaderHasEntry
<1> QED BY <1>6, <1>7, <1>8, <1>9, <1>10 DEF Safe

LEMMA GetBufferStep ==
    ASSUME IInv, GetBuffer
    PROVE  Safe'
<1> USE DEF IInv
<1> DEFINE d == usedRing[Slot(vq_used_cons_idx)]
<1>1. /\ mGet /\ mGet' = FALSE /\ mHeld' = mHeld \cup {d}
      /\ vq_used_cons_idx' = Inc(vq_used_cons_idx)
      /\ rHeld' = rHeld /\ rPut' = rPut /\ mPut' = mPut /\ Unfilled' = Unfilled
      /\ AvailFlight' = AvailFlight
      /\ UNCHANGED <<availRing, availIdx, vq_available_idx, usedRing, usedIdx,
                     vq_desc_head_idx, rGet>>
    BY DEF GetBuffer, shared, remote, Unfilled, AvailFlight
<1>2. vq_used_cons_idx # usedIdx
    BY <1>1 DEF ReaderHasEntry
<1>3. /\ d \in Desc /\ d \in UsedFlight
      /\ UsedFlight' = UsedFlight \ {d}
      /\ Injective(usedRing', vq_used_cons_idx', usedIdx')
    <2>1. Injective(usedRing, vq_used_cons_idx, usedIdx)
        BY DEF OneOwner
    <2>2. usedRing \in [Desc -> Desc] /\ vq_used_cons_idx \in Idx /\ usedIdx \in Idx
        BY DEF TypeOK
    <2> QED BY <1>1, <1>2, <2>1, <2>2, FlightTake DEF UsedFlight
<1> HIDE DEF d
<1>4. OneOwner'
    BY <1>1, <1>3 DEF OneOwner
<1>5. NoneLost'
    BY <1>1, <1>3 DEF NoneLost
<1>6. Cardinality(mHeld') = Cardinality(mHeld) + 1
    <2>1. d \notin mHeld
        BY <1>3 DEF OneOwner
    <2> QED BY <1>1, <1>3, <2>1, CountAdd DEF TypeOK
<1>7. Counted'
    <2>1. Dist(vq_used_cons_idx', usedIdx') = Dist(vq_used_cons_idx, usedIdx) - 1
        BY <1>1, <1>2, PendingTake DEF TypeOK
    <2>2. /\ Cardinality(mPut') = Cardinality(mPut)
          /\ Cardinality(rHeld') = Cardinality(rHeld) /\ Cardinality(rPut') = Cardinality(rPut)
        BY <1>1
    <2> QED BY <1>1, <1>6, <2>1, <2>2, Counts DEF Counted
<1>8. SlotWritten' /\ ReaderHasEntry'
    BY <1>1 DEF SlotWritten, ReaderHasEntry
<1> QED BY <1>4, <1>5, <1>7, <1>8 DEF Safe

LEMMA GetAvailableBufferStep ==
    ASSUME IInv, GetAvailableBuffer
    PROVE  Safe'
<1> USE DEF IInv
<1> DEFINE d == availRing[Slot(vq_available_idx)]
<1>1. /\ rGet /\ rGet' = FALSE /\ rHeld' = rHeld \cup {d}
      /\ vq_available_idx' = Inc(vq_available_idx)
      /\ mHeld' = mHeld /\ mPut' = mPut /\ rPut' = rPut /\ Unfilled' = Unfilled
      /\ UsedFlight' = UsedFlight
      /\ UNCHANGED <<usedRing, usedIdx, vq_used_cons_idx, availRing, availIdx,
                     vq_desc_head_idx, mGet>>
    BY DEF GetAvailableBuffer, shared, master, Unfilled, UsedFlight
<1>2. vq_available_idx # availIdx
    BY <1>1 DEF ReaderHasEntry
<1>3. /\ d \in Desc /\ d \in AvailFlight
      /\ AvailFlight' = AvailFlight \ {d}
      /\ Injective(availRing', vq_available_idx', availIdx')
    <2>1. Injective(availRing, vq_available_idx, availIdx)
        BY DEF OneOwner
    <2>2. availRing \in [Desc -> Desc] /\ vq_available_idx \in Idx /\ availIdx \in Idx
        BY DEF TypeOK
    <2> QED BY <1>1, <1>2, <2>1, <2>2, FlightTake DEF AvailFlight
<1> HIDE DEF d
<1>4. OneOwner'
    BY <1>1, <1>3 DEF OneOwner
<1>5. NoneLost'
    BY <1>1, <1>3 DEF NoneLost
<1>6. Cardinality(rHeld') = Cardinality(rHeld) + 1
    <2>1. d \notin rHeld
        BY <1>3 DEF OneOwner
    <2> QED BY <1>1, <1>3, <2>1, CountAdd DEF TypeOK
<1>7. Counted'
    <2>1. Dist(vq_available_idx', availIdx') = Dist(vq_available_idx, availIdx) - 1
        BY <1>1, <1>2, PendingTake DEF TypeOK
    <2>2. /\ Cardinality(rPut') = Cardinality(rPut)
          /\ Cardinality(mHeld') = Cardinality(mHeld) /\ Cardinality(mPut') = Cardinality(mPut)
        BY <1>1
    <2> QED BY <1>1, <1>6, <2>1, <2>2, Counts DEF Counted
<1>8. SlotWritten' /\ ReaderHasEntry'
    BY <1>1 DEF SlotWritten, ReaderHasEntry
<1> QED BY <1>4, <1>5, <1>7, <1>8 DEF Safe

LEMMA FillAvailBuffersStep ==
    ASSUME IInv, FillAvailBuffers
    PROVE  Safe'
<1> USE DEF IInv
<1> DEFINE d == vq_desc_head_idx
<1>1. /\ ~Filled /\ vq_desc_head_idx' = d + 1 /\ availIdx' = Inc(availIdx)
      /\ availRing' = [availRing EXCEPT ![Slot(availIdx)] = d]
      /\ mHeld' = mHeld /\ mPut' = mPut /\ rHeld' = rHeld /\ rPut' = rPut
      /\ UsedFlight' = UsedFlight
      /\ UNCHANGED <<vq_available_idx, usedRing, usedIdx, vq_used_cons_idx, mGet, rGet>>
    BY DEF FillAvailBuffers, master, remote, UsedFlight
<1>2. d \in Desc /\ d \in Unfilled /\ Unfilled' = Unfilled \ {d}
    <2>1. d \in 0 .. N /\ d # N
        BY <1>1 DEF TypeOK, Filled
    <2>2. d \in Int /\ 0 =< d /\ d =< N - 1
        BY <2>1, Sizes
    <2>3. Unfilled = d .. N - 1 /\ Unfilled' = d + 1 .. N - 1
        BY <1>1 DEF Unfilled
    <2> HIDE DEF d
    <2> QED BY <2>2, <2>3, Sizes DEF Desc
<1>3. mHeld = {} /\ mPut = {} /\ rHeld = {} /\ rPut = {} /\ ~mGet /\ ~rGet
    BY <1>1 DEF FillAlone
<1>4. Dist(vq_available_idx, availIdx) < N
    BY <1>1, Room
<1>5. /\ availRing \in [Desc -> Desc] /\ availIdx \in Idx /\ vq_available_idx \in Idx
      /\ Slot(availIdx) \in Desc /\ Injective(availRing, vq_available_idx, availIdx)
    BY SlotType DEF TypeOK, OneOwner
<1>6. /\ availRing' \in [Desc -> Desc] /\ availRing'[Slot(availIdx)] = d
      /\ \A s \in Desc : s # Slot(availIdx) => availRing'[s] = availRing[s]
    BY <1>1, <1>2, <1>5
<1>7. /\ Flight(availRing', vq_available_idx, availIdx) = AvailFlight
      /\ Injective(availRing', vq_available_idx, availIdx)
    BY <1>4, <1>5, <1>6, FlightWrite DEF AvailFlight
<1>8. d \notin AvailFlight
    BY <1>2 DEF OneOwner
<1>9. /\ AvailFlight' = AvailFlight \cup {d}
      /\ Injective(availRing', vq_available_idx', availIdx')
    <2>1. /\ Flight(availRing', vq_available_idx, Inc(availIdx)) = AvailFlight \cup {d}
          /\ Injective(availRing', vq_available_idx, Inc(availIdx))
        BY <1>4, <1>5, <1>6, <1>7, <1>8, FlightPublish
    <2> QED BY <1>1, <2>1 DEF AvailFlight
<1> HIDE DEF d
<1>10. OneOwner'
    BY <1>1, <1>2, <1>9 DEF OneOwner
<1>11. NoneLost'
    BY <1>1, <1>2, <1>9 DEF NoneLost
<1>12. Counted'
    <2>1. Dist(vq_available_idx', availIdx') = Dist(vq_available_idx, availIdx) + 1
        BY <1>1, <1>4, <1>5, PendingPublish
    <2>2. /\ Cardinality(mHeld') = Cardinality(mHeld) /\ Cardinality(mPut') = Cardinality(mPut)
          /\ Cardinality(rHeld') = Cardinality(rHeld) /\ Cardinality(rPut') = Cardinality(rPut)
        BY <1>1
    <2> QED BY <1>1, <2>1, <2>2, Counts DEF Counted, d
<1>13. SlotWritten' /\ ReaderHasEntry'
    BY <1>1, <1>3 DEF SlotWritten, ReaderHasEntry
<1> QED BY <1>10, <1>11, <1>12, <1>13 DEF Safe

LEMMA FillUsedBuffersStep ==
    ASSUME IInv, FillUsedBuffers
    PROVE  Safe'
<1> USE DEF IInv
<1> DEFINE d == vq_desc_head_idx
<1>1. /\ ~Filled /\ vq_desc_head_idx' = d + 1 /\ usedIdx' = Inc(usedIdx)
      /\ usedRing' = [usedRing EXCEPT ![Slot(usedIdx)] = d]
      /\ rHeld' = rHeld /\ rPut' = rPut /\ mHeld' = mHeld /\ mPut' = mPut
      /\ AvailFlight' = AvailFlight
      /\ UNCHANGED <<vq_used_cons_idx, availRing, availIdx, vq_available_idx, rGet, mGet>>
    BY DEF FillUsedBuffers, master, remote, AvailFlight
<1>2. d \in Desc /\ d \in Unfilled /\ Unfilled' = Unfilled \ {d}
    <2>1. d \in 0 .. N /\ d # N
        BY <1>1 DEF TypeOK, Filled
    <2>2. d \in Int /\ 0 =< d /\ d =< N - 1
        BY <2>1, Sizes
    <2>3. Unfilled = d .. N - 1 /\ Unfilled' = d + 1 .. N - 1
        BY <1>1 DEF Unfilled
    <2> HIDE DEF d
    <2> QED BY <2>2, <2>3, Sizes DEF Desc
<1>3. rHeld = {} /\ rPut = {} /\ mHeld = {} /\ mPut = {} /\ ~rGet /\ ~mGet
    BY <1>1 DEF FillAlone
<1>4. Dist(vq_used_cons_idx, usedIdx) < N
    BY <1>1, Room
<1>5. /\ usedRing \in [Desc -> Desc] /\ usedIdx \in Idx /\ vq_used_cons_idx \in Idx
      /\ Slot(usedIdx) \in Desc /\ Injective(usedRing, vq_used_cons_idx, usedIdx)
    BY SlotType DEF TypeOK, OneOwner
<1>6. /\ usedRing' \in [Desc -> Desc] /\ usedRing'[Slot(usedIdx)] = d
      /\ \A s \in Desc : s # Slot(usedIdx) => usedRing'[s] = usedRing[s]
    BY <1>1, <1>2, <1>5
<1>7. /\ Flight(usedRing', vq_used_cons_idx, usedIdx) = UsedFlight
      /\ Injective(usedRing', vq_used_cons_idx, usedIdx)
    BY <1>4, <1>5, <1>6, FlightWrite DEF UsedFlight
<1>8. d \notin UsedFlight
    BY <1>2 DEF OneOwner
<1>9. /\ UsedFlight' = UsedFlight \cup {d}
      /\ Injective(usedRing', vq_used_cons_idx', usedIdx')
    <2>1. /\ Flight(usedRing', vq_used_cons_idx, Inc(usedIdx)) = UsedFlight \cup {d}
          /\ Injective(usedRing', vq_used_cons_idx, Inc(usedIdx))
        BY <1>4, <1>5, <1>6, <1>7, <1>8, FlightPublish
    <2> QED BY <1>1, <2>1 DEF UsedFlight
<1> HIDE DEF d
<1>10. OneOwner'
    BY <1>1, <1>2, <1>9 DEF OneOwner
<1>11. NoneLost'
    BY <1>1, <1>2, <1>9 DEF NoneLost
<1>12. Counted'
    <2>1. Dist(vq_used_cons_idx', usedIdx') = Dist(vq_used_cons_idx, usedIdx) + 1
        BY <1>1, <1>4, <1>5, PendingPublish
    <2>2. /\ Cardinality(rHeld') = Cardinality(rHeld) /\ Cardinality(rPut') = Cardinality(rPut)
          /\ Cardinality(mHeld') = Cardinality(mHeld) /\ Cardinality(mPut') = Cardinality(mPut)
        BY <1>1
    <2> QED BY <1>1, <2>1, <2>2, Counts DEF Counted, d
<1>13. SlotWritten' /\ ReaderHasEntry'
    BY <1>1, <1>3 DEF SlotWritten, ReaderHasEntry
<1> QED BY <1>10, <1>11, <1>12, <1>13 DEF Safe

\* What no step changes.
LEMMA StutterStep ==
    ASSUME IInv, UNCHANGED vars
    PROVE  Safe'
<1>1. /\ UNCHANGED <<availRing, availIdx, usedRing, usedIdx, vq_desc_head_idx>>
      /\ UNCHANGED <<vq_used_cons_idx, mHeld, mPut, mGet>>
      /\ UNCHANGED <<vq_available_idx, rHeld, rPut, rGet>>
    BY DEF vars, shared, master, remote
<1>2. AvailFlight' = AvailFlight /\ UsedFlight' = UsedFlight /\ Unfilled' = Unfilled
    BY <1>1 DEF AvailFlight, UsedFlight, Unfilled
<1> QED BY <1>1, <1>2 DEF IInv, Safe, OneOwner, NoneLost, Counted, SlotWritten, ReaderHasEntry

LEMMA TestStep ==
    ASSUME IInv, GetBufferTest \/ GetAvailableBufferTest
    PROVE  Safe'
<1>1. /\ UNCHANGED <<availRing, availIdx, usedRing, usedIdx, vq_desc_head_idx>>
      /\ UNCHANGED <<vq_used_cons_idx, mHeld, mPut>>
      /\ UNCHANGED <<vq_available_idx, rHeld, rPut>>
    BY DEF GetBufferTest, GetAvailableBufferTest, shared, master, remote
<1>2. AvailFlight' = AvailFlight /\ UsedFlight' = UsedFlight /\ Unfilled' = Unfilled
    BY <1>1 DEF AvailFlight, UsedFlight, Unfilled
<1>3. OneOwner' /\ NoneLost' /\ Counted' /\ SlotWritten'
    BY <1>1, <1>2 DEF IInv, OneOwner, NoneLost, Counted, SlotWritten
<1>4. ReaderHasEntry'
    BY DEF IInv, ReaderHasEntry, GetBufferTest, GetAvailableBufferTest, shared, master, remote
<1> QED BY <1>3, <1>4 DEF Safe

\* Until the fill is done neither core holds, reads or publishes anything.
LEMMA FillAloneStep ==
    ASSUME IInv, [Next]_vars
    PROVE  FillAlone'
<1> USE DEF IInv, FillAlone, Filled
<1>1. CASE FillAvailBuffers
    BY <1>1 DEF FillAvailBuffers, master, remote
<1>2. CASE FillUsedBuffers
    BY <1>2 DEF FillUsedBuffers, master, remote
<1>3. ASSUME NEW d \in Desc, AddBuffer(d) PROVE FillAlone'
    BY <1>3 DEF AddBuffer
<1>4. CASE PublishAvail
    BY <1>4 DEF PublishAvail
<1>5. CASE GetBufferTest
    BY <1>5 DEF GetBufferTest
<1>6. CASE GetBuffer
    BY <1>6 DEF GetBuffer
<1>7. CASE GetAvailableBufferTest
    BY <1>7 DEF GetAvailableBufferTest
<1>8. CASE GetAvailableBuffer
    BY <1>8 DEF GetAvailableBuffer
<1>9. ASSUME NEW d \in Desc, AddConsumedBuffer(d) PROVE FillAlone'
    BY <1>9 DEF AddConsumedBuffer
<1>10. CASE PublishUsed
    BY <1>10 DEF PublishUsed
<1>11. CASE UNCHANGED vars
    BY <1>11 DEF vars, master, remote
<1> QED BY <1>1, <1>2, <1>3, <1>4, <1>5, <1>6, <1>7, <1>8, <1>9, <1>10, <1>11 DEF Next

-----------------------------------------------------------------------------
LEMMA SafeInit == Init => IInv
<1> SUFFICES ASSUME Init PROVE IInv
    OBVIOUS
<1>1. TypeOK
    BY TypeInit
<1>2. Dist(0, 0) = 0 /\ 0 \in Idx
    BY DistIs, Sizes DEF Idx
<1>3. Pending(0, 0) = {}
    BY <1>2, DistType DEF Pending
<1>4. AvailFlight = {} /\ UsedFlight = {} /\ Unfilled = Desc
    BY <1>3 DEF Init, AvailFlight, UsedFlight, Flight, Unfilled, Desc
<1>5. OneOwner
    BY <1>3, <1>4 DEF Init, OneOwner, Injective
<1>6. NoneLost
    BY <1>4 DEF Init, NoneLost
<1>7. Counted
    BY <1>2, FS_EmptySet DEF Init, Counted
<1>8. SlotWritten /\ ReaderHasEntry /\ FillAlone
    BY DEF Init, SlotWritten, ReaderHasEntry, FillAlone
<1> QED BY <1>1, <1>5, <1>6, <1>7, <1>8 DEF IInv

LEMMA SafeStep == IInv /\ [Next]_vars => IInv'
<1> SUFFICES ASSUME IInv, [Next]_vars PROVE IInv'
    OBVIOUS
<1>1. TypeOK'
    BY TypeStep DEF IInv
<1>2. Safe'
    BY FillAvailBuffersStep, FillUsedBuffersStep, AddBufferStep, PublishAvailStep,
       TestStep, GetBufferStep, GetAvailableBufferStep, AddConsumedBufferStep,
       PublishUsedStep, StutterStep DEF Next
<1>3. FillAlone'
    BY FillAloneStep
<1> QED BY <1>1, <1>2, <1>3 DEF IInv, Safe

LEMMA Inductive == Spec => []IInv
<1> QED BY SafeInit, SafeStep, PTL DEF Spec

\* No descriptor of a vring is ever owned twice: not by the two cores, not by a
\* core and a ring, not by two slots of a ring.
THEOREM NeverShared == Spec => []OneOwner
<1>1. IInv => OneOwner BY DEF IInv
<1> QED BY <1>1, Inductive, PTL

\* No descriptor of a vring ever drops out of circulation.
THEOREM NeverLost == Spec => []NoneLost
<1>1. IInv => NoneLost BY DEF IInv
<1> QED BY <1>1, Inductive, PTL

\* vq_ring_update_avail and vq_ring_update_used never overwrite an entry the
\* other core has not read, though neither checks for room.
THEOREM NeverOverrun == Spec => []NoOverrun
<1> QED BY Bounds, Inductive, PTL

=============================================================================
