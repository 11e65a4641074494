----------------------------- MODULE Endpoints -----------------------------
(***************************************************************************)
(* The endpoints of one core: a doubly linked list in the heap             *)
(* (lib/common/llist.c) that tasks change under the device lock            *)
(* (rpmsg_lite_create_ept, rpmsg_lite_destroy_ept) and that the message    *)
(* handler walks, without the lock, for every message                      *)
(* (rpmsg_lite_get_endpoint_from_addr).                                    *)
(*                                                                         *)
(* The handler interrupts the tasks of its core between any two of their   *)
(* stores and runs to its end before they go on.  It changes nothing here, *)
(* so it needs no action: what it would find is Lookup, in every state.    *)
(* It reads only head, next and the address of an endpoint; stores to a    *)
(* cell that is not yet linked and stores to prev are invisible to it and  *)
(* join the store that follows or precedes them.                           *)
(*                                                                         *)
(* An endpoint and its list node, two allocations of the code, are one     *)
(* cell; the allocation may fail for either.                               *)
(***************************************************************************)
EXTENDS Naturals, FiniteSets

CONSTANTS
    Tasks,
    Cells,        \* heap blocks for an endpoint and its node
    MaxAddr,      \* bound: addresses are 1 .. MaxAddr, 2^32 - 2 in the code
    None,         \* RL_NULL, and no task
    Junk          \* a value that is no pointer to a cell

Addresses == 1 .. MaxAddr
RL_ADDR_ANY == 0

ASSUME EndpointsAssumption ==
    /\ MaxAddr \in Nat /\ IsFiniteSet(Cells)
    /\ None \notin Tasks \cup Cells /\ Junk \notin Cells \cup {None}

VARIABLES
    head,                   \* rpmsg_lite_dev->rl_endpoints
    next, prev, addr,       \* of each cell
    allocated,              \* cells that are not free
    owned,                  \* endpoints in the hands of the application
    lock,                   \* rpmsg_lite_dev->lock
    pc, request, cell       \* per task: step, address asked for, cell in hand

list == <<head, next, prev, addr>>
task == <<pc, request, cell>>
vars == <<list, allocated, owned, lock, task>>

Init ==
    /\ head = None
    /\ next = [c \in Cells |-> Junk] /\ prev = [c \in Cells |-> Junk]
    /\ addr = [c \in Cells |-> 0]
    /\ allocated = {} /\ owned = {}
    /\ lock = None
    /\ pc = [t \in Tasks |-> "idle"] /\ request = [t \in Tasks |-> 0]
    /\ cell = [t \in Tasks |-> None]

-----------------------------------------------------------------------------
\* The walk along next until the address is found: the cell after k steps.  It
\* follows whatever next holds, into cells that are not linked or not allocated
\* and to Junk, where the code reads memory that is not a node.
Walk(a) ==
    LET at[k \in 0 .. Cardinality(Cells)] ==
            IF k = 0 THEN head
            ELSE LET c == at[k - 1]
                 IN IF c \in Cells /\ addr[c] # a THEN next[c] ELSE c
    IN at

Lookup(a) == Walk(a)[Cardinality(Cells)]
Touched(a) == {Walk(a)[k] : k \in 0 .. Cardinality(Cells)}

\* Lowest free address, or the one asked for; None when there is none.
Chosen(a) ==
    LET free == {b \in Addresses : Lookup(b) = None}
        fits == IF a = RL_ADDR_ANY THEN free ELSE free \cap {a}
    IN IF fits = {} THEN None ELSE CHOOSE b \in fits : \A x \in fits : b =< x

\* rpmsg_lite_create_ept takes the lock.
Create(t, a) ==
    /\ pc[t] = "idle" /\ lock = None
    /\ lock' = t
    /\ request' = [request EXCEPT ![t] = a]
    /\ pc' = [pc EXCEPT ![t] = "search"]
    /\ UNCHANGED <<list, allocated, owned, cell>>

Unlock(t) ==
    /\ lock' = None
    /\ request' = [request EXCEPT ![t] = 0]
    /\ pc' = [pc EXCEPT ![t] = "idle"]

\* No address, or no memory: RL_NULL.
CreateFails(t) ==
    /\ pc[t] = "search"
    /\ Unlock(t)
    /\ UNCHANGED <<list, allocated, owned, cell>>

\* Mutant: the address is not looked up.
AllocateUnchecked(t, c, old) ==
    /\ pc[t] = "search" /\ c \notin allocated
    /\ allocated' = allocated \cup {c}
    /\ next' = [next EXCEPT ![c] = old]
    /\ addr' = [addr EXCEPT ![c] = IF request[t] = RL_ADDR_ANY THEN 1 ELSE request[t]]
    /\ cell' = [cell EXCEPT ![t] = c]
    /\ pc' = [pc EXCEPT ![t] = "add"]
    /\ UNCHANGED <<head, prev, owned, lock, request>>

\* The search and the two allocations.  The memory is not cleared: the pointer
\* to the next node is what the block held, such as a node freed before.
Allocate(t, c, old) ==
    /\ pc[t] = "search" /\ Chosen(request[t]) # None /\ c \notin allocated
    /\ allocated' = allocated \cup {c}
    /\ next' = [next EXCEPT ![c] = old]
    /\ addr' = [addr EXCEPT ![c] = Chosen(request[t])]
    /\ cell' = [cell EXCEPT ![t] = c]
    /\ pc' = [pc EXCEPT ![t] = "add"]
    /\ UNCHANGED <<head, prev, owned, lock, request>>

\* Mutant: the old head's prev keeps its value.
AddToFrontOneWay(t) ==
    /\ pc[t] = "add" /\ head # None
    /\ next' = [next EXCEPT ![cell[t]] = head]
    /\ prev' = [prev EXCEPT ![cell[t]] = None]
    /\ head' = cell[t]
    /\ pc' = [pc EXCEPT ![t] = "added"]
    /\ UNCHANGED <<addr, allocated, owned, lock, request, cell>>

\* add_to_list: the new node is complete before it becomes the head.
AddToFront(t) ==
    /\ pc[t] = "add" /\ head # None
    /\ next' = [next EXCEPT ![cell[t]] = head]
    /\ prev' = [prev EXCEPT ![cell[t]] = None, ![head] = cell[t]]
    /\ head' = cell[t]
    /\ pc' = [pc EXCEPT ![t] = "added"]
    /\ UNCHANGED <<addr, allocated, owned, lock, request, cell>>

\* ... but into an empty list it goes as it is ...
AddToEmpty(t) ==
    /\ pc[t] = "add" /\ head = None
    /\ head' = cell[t]
    /\ pc' = [pc EXCEPT ![t] = "clear"]
    /\ UNCHANGED <<next, prev, addr, allocated, owned, lock, request, cell>>

\* ... and its pointers are cleared afterwards.
ClearPointers(t) ==
    /\ pc[t] = "clear"
    /\ next' = [next EXCEPT ![cell[t]] = None]
    /\ prev' = [prev EXCEPT ![cell[t]] = None]
    /\ pc' = [pc EXCEPT ![t] = "added"]
    /\ UNCHANGED <<head, addr, allocated, owned, lock, request, cell>>

\* The unlock; the application has its endpoint.
CreateReturns(t) ==
    /\ pc[t] = "added"
    /\ Unlock(t)
    /\ owned' = owned \cup {cell[t]}
    /\ cell' = [cell EXCEPT ![t] = None]
    /\ UNCHANGED <<list, allocated>>

-----------------------------------------------------------------------------
\* rpmsg_lite_destroy_ept takes the lock; the caller gives its endpoint up.
Destroy(t, c) ==
    /\ pc[t] = "idle" /\ lock = None /\ c \in owned
    /\ lock' = t
    /\ owned' = owned \ {c}
    /\ cell' = [cell EXCEPT ![t] = c]
    /\ pc' = [pc EXCEPT ![t] = "remove"]
    /\ UNCHANGED <<list, allocated, request>>

\* Mutant: the node is freed but not taken out of the list.
RemoveFreed(t) ==
    LET node == Lookup(addr[cell[t]])
    IN /\ pc[t] = "remove" /\ node # None
       /\ allocated' = allocated \ {cell[t]}
       /\ Unlock(t)
       /\ UNCHANGED <<list, owned, cell>>

\* Mutant: the links of the first node are mixed up.
RemoveWrongWay(t) ==
    LET node == Lookup(addr[cell[t]])
    IN /\ pc[t] = "remove" /\ node # None
       /\ head' = IF node = head THEN prev[node] ELSE head
       /\ next' = IF node = head THEN next
                  ELSE [next EXCEPT ![prev[node]] = next[node]]
       /\ lock' = None
       /\ cell' = [cell EXCEPT ![t] = node]
       /\ pc' = [pc EXCEPT ![t] = "free"]
       /\ UNCHANGED <<prev, addr, allocated, owned, request>>

\* remove_from_list on the node that has the address, and the unlock.  A head
\* that is removed leaves its successor's prev as it was.
Remove(t) ==
    LET node == Lookup(addr[cell[t]])
    IN /\ pc[t] = "remove" /\ node # None
       /\ IF node = head
          THEN /\ head' = next[node]
               /\ UNCHANGED <<next, prev>>
          ELSE /\ next' = [next EXCEPT ![prev[node]] = next[node]]
               /\ prev' = IF next[node] = None THEN prev
                          ELSE [prev EXCEPT ![next[node]] = prev[node]]
               /\ UNCHANGED head
       /\ lock' = None
       /\ cell' = [cell EXCEPT ![t] = node]
       /\ pc' = [pc EXCEPT ![t] = "free"]
       /\ UNCHANGED <<addr, allocated, owned, request>>

\* env_free_memory, outside the lock; what the memory held is lost.
Free(t) ==
    /\ pc[t] = "free"
    /\ allocated' = allocated \ {cell[t]}
    /\ next' = [next EXCEPT ![cell[t]] = Junk]
    /\ prev' = [prev EXCEPT ![cell[t]] = Junk]
    /\ addr' = [addr EXCEPT ![cell[t]] = 0]
    /\ cell' = [cell EXCEPT ![t] = None]
    /\ pc' = [pc EXCEPT ![t] = "idle"]
    /\ UNCHANGED <<head, owned, lock, request>>

Next ==
    \E t \in Tasks :
        \/ \E a \in Addresses \cup {RL_ADDR_ANY} : Create(t, a)
        \/ CreateFails(t)
        \/ \E c \in Cells, old \in Cells \cup {None, Junk} : Allocate(t, c, old)
        \/ AddToFront(t)
        \/ AddToEmpty(t)
        \/ ClearPointers(t)
        \/ CreateReturns(t)
        \/ \E c \in Cells : Destroy(t, c)
        \/ Remove(t)
        \/ Free(t)

Spec == Init /\ [][Next]_vars

-----------------------------------------------------------------------------

\* A node that was added to an empty list is the head already, and its next is
\* still what the memory held.
Unfinished == \E t \in Tasks : pc[t] = "clear"

\* The nodes of the list: nobody has address 0, so the walk for it sees them all.
Listed == IF Unfinished THEN {head} ELSE Touched(0) \ {None}

\* The message handler finds every endpoint an application has, whatever the
\* tasks are in the middle of: no insertion or removal hides another endpoint
\* for a moment, and no two endpoints have the same address.
EndpointFound == \A c \in owned : Lookup(addr[c]) = c

\* The handler reads no node that has been freed, and stops at the end of the
\* list, but for one case: while the pointers of a first node are not cleared, a
\* message for any other address takes it wherever the memory pointed.
NeverFreed ==
    \A a \in Addresses :
        \/ Touched(a) \subseteq allocated \cup {None}
        \/ Unfinished /\ a # addr[head]

\* Between two calls the list reads the same backwards, but for the prev of the
\* head, which remove_from_list leaves pointing to a node that may be freed: it
\* is what every later removal relies on.
ReadsBackwards ==
    lock = None =>
        \A c \in Listed : next[c] # None => prev[next[c]] = c

=============================================================================
