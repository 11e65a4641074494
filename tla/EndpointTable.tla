--------------------------- MODULE EndpointTable ---------------------------
(***************************************************************************)
(* What rpmsg_lite_create_ept and rpmsg_lite_destroy_ept promise: a set of *)
(* addresses in use.  An address is taken once, or not at all, and given   *)
(* up by whoever has it; the message handler sees each change at once.     *)
(***************************************************************************)
CONSTANT Addresses

VARIABLE table

Init == table = {}

Create(a) == a \notin table /\ table' = table \cup {a}
Destroy(a) == a \in table /\ table' = table \ {a}

Next == \E a \in Addresses : Create(a) \/ Destroy(a)

Spec == Init /\ [][Next]_table

=============================================================================
