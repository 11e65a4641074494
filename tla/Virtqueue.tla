----------------------------- MODULE Virtqueue -----------------------------
(***************************************************************************)
(* One vring of RPMsg-Lite and the two virtqueue control blocks that work  *)
(* on it, one per core (lib/virtio/virtqueue.c).  The vring lives in memory*)
(* both cores see: a ring of available descriptors, written by the master  *)
(* and read by the remote, and a ring of used descriptors, written by the  *)
(* remote and read by the master.  Each ring has a free-running 16-bit     *)
(* index that its writer increments after it has filled a slot, and each   *)
(* reader keeps a private free-running index of its own.                   *)
(*                                                                         *)
(* Each core has one writing context and one reading context here, and the *)
(* cores interleave at every access to the shared indices: a writer fills  *)
(* the slot in one step and publishes the index in the next, a reader      *)
(* finds the ring non-empty in one step and reads the slot in the next.    *)
(* RpmsgLite shows where the contexts of one core break this discipline.   *)
(*                                                                         *)
(* Abstracted: the descriptor table (a descriptor is its index; address    *)
(* and length never change after the fill), vq_queued_cnt and the flags    *)
(* words (no code of RPMsg-Lite ever sets VIRTQUEUE_FLAG_EVENT_IDX or      *)
(* VRING_USED_F_NO_NOTIFY, so nothing reads the count and every kick       *)
(* notifies).                                                              *)
(***************************************************************************)
EXTENDS Integers, FiniteSets

CONSTANTS
    N,            \* vq_nentries: descriptors of the vring, a power of two
    IdxMod        \* the free-running indices are uint16_t: 2^16 in the code

\* A power of two below 2^16 divides 2^16, and leaves room to tell a full ring
\* from an empty one.
ASSUME VirtqueueAssumption ==
    /\ N \in Nat \ {0}
    /\ IdxMod \in Nat
    /\ IdxMod % N = 0
    /\ IdxMod >= 2 * N

Desc == 0 .. N - 1
Idx  == 0 .. IdxMod - 1

\* idx & (vq_nentries - 1)
Slot(i) == i % N

\* Mutant of Inc: an index wider than the arithmetic expects never wraps.
IncNoWrap(i) == i + 1

\* idx++ on a uint16_t
Inc(i) == (i + 1) % IdxMod

\* (uint16_t)(to - from): entries published and not yet consumed
Dist(from, to) == (to - from) % IdxMod

VARIABLES
    masterSends,            \* TRUE: vring 1 (master's tvq), filled through the
                            \* used ring; FALSE: vring 0 (its rvq), filled
                            \* through the avail ring
    availRing, availIdx,    \* vq_ring.avail->ring and avail->idx
    usedRing, usedIdx,      \* vq_ring.used->ring[].id and used->idx
    vq_desc_head_idx,       \* master: descriptors filled so far
    vq_used_cons_idx,       \* master: reader's index into the used ring
    vq_available_idx,       \* remote: reader's index into the avail ring
    mHeld, rHeld,           \* descriptors the callers on each core hold
    mPut, rPut,             \* the descriptor in the slot written, not published
    mGet, rGet              \* the reader found the ring non-empty

shared == <<availRing, availIdx, usedRing, usedIdx>>
master == <<vq_used_cons_idx, mHeld, mPut, mGet>>
remote == <<vq_available_idx, rHeld, rPut, rGet>>
vars   == <<masterSends, shared, vq_desc_head_idx, master, remote>>

-----------------------------------------------------------------------------
\* virtqueue_create on zeroed shared memory and a zeroed control block.
Init ==
    /\ masterSends \in BOOLEAN
    /\ availRing = [s \in Desc |-> 0] /\ availIdx = 0
    /\ usedRing  = [s \in Desc |-> 0] /\ usedIdx  = 0
    /\ vq_desc_head_idx = 0
    /\ vq_used_cons_idx = 0 /\ mHeld = {} /\ mPut = {} /\ mGet = FALSE
    /\ vq_available_idx = 0 /\ rHeld = {} /\ rPut = {} /\ rGet = FALSE

\* rpmsg_lite_master_init has filled the ring.  The remote touches the vring
\* only after the kick that follows, so a fill never interleaves with a core.
Filled == vq_desc_head_idx = N

\* virtqueue_fill_avail_buffers: one buffer of the master's rvq.
FillAvailBuffers ==
    /\ ~masterSends /\ ~Filled
    /\ availRing' = [availRing EXCEPT ![Slot(availIdx)] = vq_desc_head_idx]
    /\ availIdx' = Inc(availIdx)
    /\ vq_desc_head_idx' = vq_desc_head_idx + 1
    /\ UNCHANGED <<masterSends, usedRing, usedIdx, master, remote>>

\* virtqueue_fill_used_buffers: one buffer of the master's tvq.
FillUsedBuffers ==
    /\ masterSends /\ ~Filled
    /\ usedRing' = [usedRing EXCEPT ![Slot(usedIdx)] = vq_desc_head_idx]
    /\ usedIdx' = Inc(usedIdx)
    /\ vq_desc_head_idx' = vq_desc_head_idx + 1
    /\ UNCHANGED <<masterSends, availRing, availIdx, master, remote>>

-----------------------------------------------------------------------------
\* virtqueue_add_buffer -> vq_ring_update_avail, up to the write barrier.
AddBuffer(d) ==
    /\ Filled /\ mPut = {} /\ d \in mHeld
    /\ availRing' = [availRing EXCEPT ![Slot(availIdx)] = d]
    /\ mPut' = {d} /\ mHeld' = mHeld \ {d}
    /\ UNCHANGED <<masterSends, availIdx, usedRing, usedIdx, vq_desc_head_idx,
                   vq_used_cons_idx, mGet, remote>>

\* Mutants of PublishAvail: the index is not advanced, or advanced by two.
PublishAvailNotAdvanced ==
    /\ mPut # {}
    /\ mPut' = {}
    /\ UNCHANGED <<masterSends, shared, vq_desc_head_idx,
                   vq_used_cons_idx, mHeld, mGet, remote>>
PublishAvailByTwo ==
    /\ mPut # {}
    /\ availIdx' = Inc(Inc(availIdx))
    /\ mPut' = {}
    /\ UNCHANGED <<masterSends, availRing, usedRing, usedIdx, vq_desc_head_idx,
                   vq_used_cons_idx, mHeld, mGet, remote>>

\* ... and the increment of avail->idx after it.
PublishAvail ==
    /\ mPut # {}
    /\ availIdx' = Inc(availIdx)
    /\ mPut' = {}
    /\ UNCHANGED <<masterSends, availRing, usedRing, usedIdx, vq_desc_head_idx,
                   vq_used_cons_idx, mHeld, mGet, remote>>

\* virtqueue_get_buffer: the test for an empty ring.
GetBufferTest ==
    /\ Filled /\ ~mGet /\ vq_used_cons_idx # usedIdx
    /\ mGet' = TRUE
    /\ UNCHANGED <<masterSends, shared, vq_desc_head_idx,
                   vq_used_cons_idx, mHeld, mPut, remote>>

\* Mutant of GetBuffer: the reader's index is not advanced.
GetBufferNotAdvanced ==
    /\ mGet
    /\ mHeld' = mHeld \cup {usedRing[Slot(vq_used_cons_idx)]}
    /\ mGet' = FALSE
    /\ UNCHANGED <<masterSends, shared, vq_desc_head_idx,
                   vq_used_cons_idx, mPut, remote>>

\* ... and the read of the slot.
GetBuffer ==
    /\ mGet
    /\ mHeld' = mHeld \cup {usedRing[Slot(vq_used_cons_idx)]}
    /\ vq_used_cons_idx' = Inc(vq_used_cons_idx)
    /\ mGet' = FALSE
    /\ UNCHANGED <<masterSends, shared, vq_desc_head_idx, mPut, remote>>

-----------------------------------------------------------------------------
\* virtqueue_get_available_buffer: the test for an empty ring.
GetAvailableBufferTest ==
    /\ Filled /\ ~rGet /\ vq_available_idx # availIdx
    /\ rGet' = TRUE
    /\ UNCHANGED <<masterSends, shared, vq_desc_head_idx,
                   master, vq_available_idx, rHeld, rPut>>

\* Mutant of GetAvailableBuffer: ++idx in place of idx++.
GetAvailableBufferPreIncrement ==
    /\ rGet
    /\ rHeld' = rHeld \cup {availRing[Slot(Inc(vq_available_idx))]}
    /\ vq_available_idx' = Inc(vq_available_idx)
    /\ rGet' = FALSE
    /\ UNCHANGED <<masterSends, shared, vq_desc_head_idx, master, rPut>>

\* ... and the read of the slot.
GetAvailableBuffer ==
    /\ rGet
    /\ rHeld' = rHeld \cup {availRing[Slot(vq_available_idx)]}
    /\ vq_available_idx' = Inc(vq_available_idx)
    /\ rGet' = FALSE
    /\ UNCHANGED <<masterSends, shared, vq_desc_head_idx, master, rPut>>

\* virtqueue_add_consumed_buffer -> vq_ring_update_used, up to the barrier.
AddConsumedBuffer(d) ==
    /\ rPut = {} /\ d \in rHeld
    /\ ~(d > N)
    /\ usedRing' = [usedRing EXCEPT ![Slot(usedIdx)] = d]
    /\ rPut' = {d} /\ rHeld' = rHeld \ {d}
    /\ UNCHANGED <<masterSends, availRing, availIdx, usedIdx,
                   vq_desc_head_idx, master, vq_available_idx, rGet>>

\* ... and the increment of used->idx after it.
PublishUsed ==
    /\ rPut # {}
    /\ usedIdx' = Inc(usedIdx)
    /\ rPut' = {}
    /\ UNCHANGED <<masterSends, availRing, availIdx, usedRing,
                   vq_desc_head_idx, master, vq_available_idx, rHeld, rGet>>

-----------------------------------------------------------------------------
Next ==
    \/ FillAvailBuffers
    \/ FillUsedBuffers
    \/ \E d \in Desc : AddBuffer(d)
    \/ PublishAvail
    \/ GetBufferTest
    \/ GetBuffer
    \/ GetAvailableBufferTest
    \/ GetAvailableBuffer
    \/ \E d \in Desc : AddConsumedBuffer(d)
    \/ PublishUsed

Spec == Init /\ [][Next]_vars

-----------------------------------------------------------------------------
\* Positions of a ring published by its writer and not yet read.
Pending(from, to) == {i \in Idx : Dist(from, i) < Dist(from, to)}

\* The descriptors in those positions, and whether they are all different.
Flight(ring, from, to) == {ring[Slot(i)] : i \in Pending(from, to)}
Injective(ring, from, to) ==
    \A i, j \in Pending(from, to) : ring[Slot(i)] = ring[Slot(j)] => i = j

AvailFlight == Flight(availRing, vq_available_idx, availIdx)
UsedFlight  == Flight(usedRing, vq_used_cons_idx, usedIdx)
Unfilled    == vq_desc_head_idx .. N - 1

Single(S) == \A x, y \in S : x = y

\* Every variable of the two control blocks and of the shared ring stays in
\* its range, and a core is publishing at most one descriptor at a time.
TypeOK ==
    /\ masterSends \in BOOLEAN
    /\ availRing \in [Desc -> Desc] /\ availIdx \in Idx
    /\ usedRing  \in [Desc -> Desc] /\ usedIdx  \in Idx
    /\ vq_desc_head_idx \in 0 .. N
    /\ vq_used_cons_idx \in Idx /\ vq_available_idx \in Idx
    /\ mHeld \subseteq Desc /\ mPut \subseteq Desc /\ Single(mPut)
    /\ rHeld \subseteq Desc /\ rPut \subseteq Desc /\ Single(rPut)
    /\ mGet \in BOOLEAN /\ rGet \in BOOLEAN

\* No descriptor is ever in two hands: what the master holds, what it is
\* publishing, what is in flight in the avail ring, what the remote holds, what
\* it is publishing, what is in flight in the used ring and what is not filled
\* yet never overlap, and no two pending slots of a ring name the same buffer.
OneOwner ==
    /\ mHeld \cap (mPut \cup AvailFlight \cup rHeld \cup rPut \cup UsedFlight \cup Unfilled) = {}
    /\ mPut \cap (AvailFlight \cup rHeld \cup rPut \cup UsedFlight \cup Unfilled) = {}
    /\ AvailFlight \cap (rHeld \cup rPut \cup UsedFlight \cup Unfilled) = {}
    /\ rHeld \cap (rPut \cup UsedFlight \cup Unfilled) = {}
    /\ rPut \cap (UsedFlight \cup Unfilled) = {}
    /\ UsedFlight \cap Unfilled = {}
    /\ Injective(availRing, vq_available_idx, availIdx)
    /\ Injective(usedRing, vq_used_cons_idx, usedIdx)

\* No buffer is ever lost: every descriptor is in one of those places.
NoneLost ==
    Desc = mHeld \cup mPut \cup AvailFlight \cup rHeld \cup rPut \cup UsedFlight \cup Unfilled

\* The writers never run into the readers: even with the slot being written, a
\* ring has at most N entries the other core has not read, across the wrap of
\* the 16-bit indices.  vq_ring_update_avail and vq_ring_update_used check
\* nothing before they write, and rely on this.
NoOverrun ==
    /\ Dist(vq_available_idx, availIdx) + Cardinality(mPut) =< N
    /\ Dist(vq_used_cons_idx, usedIdx) + Cardinality(rPut) =< N

\* What makes the three inductive: every filled descriptor is counted once, the
\* slot being published holds the descriptor its writer gave up, and a reader
\* past its test has something to read; both cores are idle during the fill.
Counted ==
    Dist(vq_available_idx, availIdx) + Dist(vq_used_cons_idx, usedIdx)
      + Cardinality(mHeld) + Cardinality(mPut)
      + Cardinality(rHeld) + Cardinality(rPut) = vq_desc_head_idx

SlotWritten ==
    /\ \A d \in mPut : availRing[Slot(availIdx)] = d
    /\ \A d \in rPut : usedRing[Slot(usedIdx)] = d

ReaderHasEntry ==
    /\ mGet => vq_used_cons_idx # usedIdx
    /\ rGet => vq_available_idx # availIdx

FillAlone ==
    ~Filled => /\ mHeld = {} /\ mPut = {} /\ ~mGet
               /\ rHeld = {} /\ rPut = {} /\ ~rGet

IInv ==
    /\ TypeOK
    /\ OneOwner /\ NoneLost /\ Counted
    /\ SlotWritten /\ ReaderHasEntry /\ FillAlone

=============================================================================
