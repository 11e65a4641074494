---------------------------- MODULE VringChannel ----------------------------
(***************************************************************************)
(* What a vring promises the two cores: the buffers circulate between four *)
(* places, the master, a first-in first-out queue to the remote, the       *)
(* remote, and a first-in first-out queue back, and a core that takes a    *)
(* buffer gets the oldest one of the queue.  No slots, no indices and no   *)
(* window between writing a slot and publishing it.                        *)
(***************************************************************************)
EXTENDS Naturals, Sequences

CONSTANT N

VARIABLES
    masterSends,     \* which of the two vrings: who sends through it
    availQ, usedQ, mOwn, rOwn

chanVars == <<masterSends, availQ, usedQ, mOwn, rOwn>>

\* The buffers in the order rpmsg_lite_master_init fills them.
AllBuffers == [k \in 1 .. N |-> k - 1]

Init ==
    /\ masterSends \in BOOLEAN
    /\ availQ = IF masterSends THEN << >> ELSE AllBuffers
    /\ usedQ  = IF masterSends THEN AllBuffers ELSE << >>
    /\ mOwn = {} /\ rOwn = {}

MasterGives(d) ==
    /\ d \in mOwn
    /\ mOwn' = mOwn \ {d}
    /\ availQ' = Append(availQ, d)
    /\ UNCHANGED <<masterSends, usedQ, rOwn>>

MasterTakes ==
    /\ usedQ # << >>
    /\ mOwn' = mOwn \cup {Head(usedQ)}
    /\ usedQ' = Tail(usedQ)
    /\ UNCHANGED <<masterSends, availQ, rOwn>>

RemoteGives(d) ==
    /\ d \in rOwn
    /\ rOwn' = rOwn \ {d}
    /\ usedQ' = Append(usedQ, d)
    /\ UNCHANGED <<masterSends, availQ, mOwn>>

RemoteTakes ==
    /\ availQ # << >>
    /\ rOwn' = rOwn \cup {Head(availQ)}
    /\ availQ' = Tail(availQ)
    /\ UNCHANGED <<masterSends, usedQ, mOwn>>

Next ==
    \/ \E d \in mOwn : MasterGives(d)
    \/ MasterTakes
    \/ \E d \in rOwn : RemoteGives(d)
    \/ RemoteTakes

Spec == Init /\ [][Next]_chanVars

=============================================================================
