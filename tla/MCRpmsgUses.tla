---------------------------- MODULE MCRpmsgUses ----------------------------
(***************************************************************************)
(* RpmsgLite for TLC in the ways its API is used, each with as many tasks  *)
(* as contend in it.  Which way it is is chosen at the start; the steps    *)
(* are those of RpmsgLite.                                                 *)
(***************************************************************************)
EXTENDS RpmsgLite, TLC

VARIABLE use

Of(X, k) == {Y \in SUBSET X : Cardinality(Y) = k}
Uses(ns, nr, to, timeouts) ==
    {[senders |-> S, receivers |-> R, to |-> to, timeouts |-> timeouts] :
        S \in Of(Senders, ns), R \in Of(Receivers, nr)}

\* Two senders with a time-out and one reader of a queue; one sender that waits
\* for ever and two readers of all queues; one sender to a releasing endpoint or
\* to an address without endpoint, which waits or does not.
AllUses ==
    UNION {Uses(2, 1, Q, {2}) : Q \in Of(QueueAddr, 1)}
    \union Uses(1, 2, QueueAddr, {RL_BLOCK})
    \union Uses(1, 0, CallAddr \union OtherAddr, {0, 2})

vars_use == <<vars, use>>

InitUses == Init /\ use \in AllUses

NextUses ==
    /\ \/ \E s \in use.senders, a \in use.to, t \in use.timeouts, nocopy \in BOOLEAN :
             Send(s, a, t, nocopy)
       \/ \E s \in use.senders : SenderStep(s)
       \/ IsrStep
       \/ \E r \in use.receivers : ReceiverStep(r)
    /\ UNCHANGED use

SpecUses == InitUses /\ [][NextUses]_vars_use

Symmetry == Permutations(Senders) \union Permutations(Receivers)
            \union Permutations(QueueAddr)

=============================================================================
