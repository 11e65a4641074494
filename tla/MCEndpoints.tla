---------------------------- MODULE MCEndpoints ----------------------------
(***************************************************************************)
(* Endpoints on a small heap, and the mapping to the set of addresses.     *)
(***************************************************************************)
EXTENDS Endpoints, TLC

Table == INSTANCE EndpointTable WITH table <- {addr[c] : c \in Listed}

\* create_ept and destroy_ept take effect in one store each, at one moment the
\* handler can see, however long they take: an address comes when the node
\* becomes the head, and goes when its predecessor skips it.  What a walk finds
\* behind a first node that is not finished is no part of the table.
ImplementsTable == Table!Spec

Symmetry == Permutations(Tasks) \cup Permutations(Cells)

=============================================================================
