---------------------------- MODULE MCVirtqueue ----------------------------
(***************************************************************************)
(* Virtqueue on small rings, with indices that wrap after a few rounds,    *)
(* and the mapping to the abstract channel.                                *)
(***************************************************************************)
EXTENDS Virtqueue, Sequences

\* The entries of a ring from the reader's index to the writer's, in order.
InOrder(ring, from, to) ==
    [k \in 1 .. Dist(from, to) |-> ring[Slot((from + k - 1) % IdxMod)]]

\* Buffers the master has still to fill are already on their way in the channel.
StillToFill == [k \in 1 .. (N - vq_desc_head_idx) |-> vq_desc_head_idx + k - 1]

Chan == INSTANCE VringChannel WITH
    availQ <- InOrder(availRing, vq_available_idx, availIdx)
                \o IF masterSends THEN << >> ELSE StillToFill,
    usedQ  <- InOrder(usedRing, vq_used_cons_idx, usedIdx)
                \o IF masterSends THEN StillToFill ELSE << >>,
    mOwn   <- mHeld \cup mPut,
    rOwn   <- rHeld \cup rPut

\* The vring implements the channel: buffers come out of each ring in the order
\* they were published, each exactly once, whatever the wrap of the indices.
ImplementsChannel == Chan!Spec

=============================================================================
