-------------------------- MODULE Endpoints_proofs --------------------------
(***************************************************************************)
(* For every number of tasks, cells and addresses: the message handler     *)
(* finds each endpoint an application has, reads no node that has been     *)
(* freed unless the first node of the list is not finished, and sees the   *)
(* list of nodes as a set of addresses.  The invariant is that the list is *)
(* a sequence of cells linked both ways, and that its cells are the        *)
(* endpoints of the applications and of the task that has the lock.        *)
(***************************************************************************)
EXTENDS MCEndpoints, FiniteSetTheorems, WellFoundedInduction, TLAPS

-----------------------------------------------------------------------------
\* The inductive invariant.

Inside == {"search", "add", "clear", "added", "remove"}
Holding == {"add", "clear", "added", "remove", "free"}
Ptr == Cells \cup {None, Junk}

Types ==
    /\ head \in Cells \cup {None}
    /\ next \in [Cells -> Ptr] /\ prev \in [Cells -> Ptr]
    /\ addr \in [Cells -> Addresses \cup {0}]
    /\ allocated \subseteq Cells /\ owned \subseteq allocated
    /\ lock \in Tasks \cup {None}
    /\ pc \in [Tasks -> Inside \cup {"idle", "free"}]
    /\ request \in [Tasks -> Addresses \cup {RL_ADDR_ANY}]
    /\ cell \in [Tasks -> Cells \cup {None}]

\* The lock keeps all but one task out; what a task holds is its own.
Locked == \A t \in Tasks : pc[t] \in Inside <=> lock = t
Held ==
    /\ \A t \in Tasks : pc[t] \in Holding => cell[t] \in allocated \ owned
    /\ \A t, u \in Tasks :
          pc[t] \in Holding /\ pc[u] \in Holding /\ cell[t] = cell[u] => t = u

\* A node that is not finished is the only one.
Alone == \A t \in Tasks : pc[t] = "clear" => head = cell[t] /\ owned = {}

\* The cells of the list, and what the last one points to.
Linked == owned \cup {cell[t] : t \in {u \in Tasks : pc[u] \in {"clear", "added", "remove"}}}
End == IF Unfinished THEN next[head] ELSE None

\* The address of a cell in the list, or about to be, is its own.
Numbered ==
    /\ \A c \in Linked : addr[c] \in Addresses
    /\ \A c, d \in Linked : addr[c] = addr[d] => c = d
    /\ \A t \in Tasks : pc[t] = "add" =>
          /\ addr[cell[t]] \in Addresses
          /\ \A c \in Linked : addr[c] # addr[cell[t]]

IsList(n, s) ==
    /\ \A i, j \in 1 .. n : s[i] = s[j] => i = j
    /\ head = IF n = 0 THEN None ELSE s[1]
    /\ \A i \in 1 .. n : next[s[i]] = IF i = n THEN End ELSE s[i + 1]
    /\ \A i \in 2 .. n : prev[s[i]] = s[i - 1]
    /\ \A c \in Cells : c \in Linked <=> \E i \in 1 .. n : s[i] = c

Listing == \E n \in Nat : \E s \in [1 .. n -> Cells] : IsList(n, s)

EInv == Types /\ Locked /\ Held /\ Alone /\ Numbered /\ Listing

-----------------------------------------------------------------------------
\* The walk of the message handler.

\* A set of naturals with 0 and the successors of its elements has them all.
LEMMA SetInduction ==
    ASSUME NEW S \in SUBSET Nat, 0 \in S, \A n \in S : n + 1 \in S
    PROVE  S = Nat
<1> SUFFICES ASSUME S # Nat PROVE FALSE
    OBVIOUS
<1>1. PICK x \in Nat \ S : \A y \in Nat \ S : ~ (<<y, x>> \in OpToRel(<, Nat))
    BY NatLessThanWellFounded, WFMin
<1>2. \A y \in Nat \ S : ~ (y < x)
    BY <1>1 DEF OpToRel
<1>3. x - 1 \in Nat /\ x - 1 < x /\ (x - 1) + 1 = x
    <2>1. x \in Nat /\ x # 0
        OBVIOUS
    <2> QED BY <2>1
<1>4. x - 1 \in S
    BY <1>2, <1>3
<1> QED BY <1>1, <1>3, <1>4

\* A non-empty set of naturals has a least element.
LEMMA Least ==
    ASSUME NEW S \in SUBSET Nat, S # {}
    PROVE  \E b \in S : \A x \in S : b <= x
<1>1. PICK b \in S : \A y \in S : ~ (<<y, b>> \in OpToRel(<, Nat))
    BY NatLessThanWellFounded, WFMin
<1>2. \A y \in S : ~ (y < b)
    BY <1>1 DEF OpToRel
<1>3. \A y \in S : b <= y
    BY <1>2
<1> QED BY <1>3

LEMMA Sizes == MaxAddr \in Nat /\ Cardinality(Cells) \in Nat /\ IsFiniteSet(Cells)
               /\ None \notin Tasks /\ None \notin Cells /\ Junk \notin Cells /\ Junk # None
BY EndpointsAssumption, FS_CardinalityType

LEMMA EndIs == ~Unfinished => End = None /\ End \notin Cells
BY Sizes DEF End

\* The task that has the lock is the only one inside.
LEMMA OneInside ==
    ASSUME Locked, NEW t \in Tasks, pc[t] \in Inside, NEW u \in Tasks, u # t
    PROVE  pc[u] \notin Inside
BY DEF Locked

LEMMA LinkedBy ==
    ASSUME Locked, NEW t \in Tasks, pc[t] \in Inside
    PROVE  /\ Linked = IF pc[t] \in {"clear", "added", "remove"} THEN owned \cup {cell[t]}
                       ELSE owned
           /\ End = IF pc[t] = "clear" THEN next[head] ELSE None
<1>1. \A u \in Tasks : u # t => pc[u] \notin Inside
    BY OneInside
<1>2. {u \in Tasks : pc[u] \in {"clear", "added", "remove"}}
        = IF pc[t] \in {"clear", "added", "remove"} THEN {t} ELSE {}
    BY <1>1 DEF Inside
<1>3. End = IF pc[t] = "clear" THEN next[head] ELSE None
    BY <1>1 DEF Inside, End, Unfinished
<1> QED BY <1>2, <1>3 DEF Linked

LEMMA LinkedIdle ==
    ASSUME Locked, lock = None
    PROVE  Linked = owned /\ End = None
<1>1. \A u \in Tasks : pc[u] \notin Inside
    BY Sizes DEF Locked
<1> QED BY <1>1 DEF Inside, Linked, End, Unfinished

LEMMA LinkedCells == Types /\ Held => Linked \subseteq Cells /\ Linked \subseteq allocated
BY DEF Types, Held, Linked, Holding

\* The list has no more cells than the heap.
LEMMA ListFits ==
    ASSUME NEW n \in Nat, NEW s \in [1 .. n -> Cells], IsList(n, s)
    PROVE  n <= Cardinality(Cells)
<1>1. s \in Injection(1 .. n, Cells)
    BY DEF IsList, Injection, IsInjective
<1>2. Cardinality(1 .. n) <= Cardinality(Cells)
    BY <1>1, Sizes, FS_Injection
<1>3. Cardinality(1 .. n) = IF 1 > n THEN 0 ELSE n - 1 + 1
    BY FS_Interval
<1> QED BY <1>2, <1>3, Sizes

\* The walk for an address goes along the list to its first cell with that address,
\* the p-th, and stays there; without one it stays at the end.
LEMMA WalkIs ==
    ASSUME EInv, NEW n \in Nat, NEW s \in [1 .. n -> Cells], IsList(n, s), NEW a,
           NEW p \in 1 .. n + 1, \A i \in 1 .. n : i < p => addr[s[i]] # a,
           p <= n => addr[s[p]] = a, Unfinished => p <= n
    PROVE  \A k \in 0 .. Cardinality(Cells) :
               Walk(a)[k] = IF k < p - 1 THEN s[k + 1] ELSE IF p <= n THEN s[p] ELSE End
<1> DEFINE C == Cardinality(Cells)
           Step(c) == IF c \in Cells /\ addr[c] # a THEN next[c] ELSE c
           at[k \in 0 .. C] == IF k = 0 THEN head ELSE Step(at[k - 1])
           Reach(f) == [k \in 0 .. C |-> IF k = 0 THEN head ELSE Step(f[k - 1])]
           g == [k \in 0 .. C |->
                   IF k < p - 1 THEN s[k + 1] ELSE IF p <= n THEN s[p] ELSE End]
<1>1. Walk(a) = at
    BY DEF Walk
<1>2. at = CHOOSE f : f = Reach(f)
    BY DEF at
<1>3. C \in Nat
    BY Sizes
<1> HIDE DEF C, at
<1>4. n = 0 => End = None
    <2>1. ASSUME NEW t \in Tasks, pc[t] = "clear" PROVE cell[t] \in Linked /\ cell[t] \in Cells
        BY <2>1 DEF EInv, Types, Held, Linked, Holding
    <2>2. Linked # {} => n # 0
        BY LinkedCells DEF IsList, EInv
    <2> QED BY <2>1, <2>2 DEF End, Unfinished
<1>5. /\ head = IF n = 0 THEN End ELSE s[1]
      /\ \A i \in 1 .. n : next[s[i]] = IF i = n THEN End ELSE s[i + 1]
      /\ \A i \in 1 .. n : s[i] \in Cells
    BY <1>4 DEF IsList
<1>6. g = Reach(g)
    <2> SUFFICES ASSUME NEW k \in 0 .. C
                 PROVE  g[k] = IF k = 0 THEN head ELSE Step(g[k - 1])
        OBVIOUS
    <2>1. CASE k = 0
        <3>1. g[k] = IF 0 < p - 1 THEN s[1] ELSE IF p <= n THEN s[p] ELSE End
            BY <2>1
        <3>2. CASE n = 0
            BY <1>5, <2>1, <3>1, <3>2
        <3>3. CASE n # 0
            BY <1>5, <2>1, <3>1, <3>3
        <3> QED BY <3>2, <3>3
    <2>2. CASE k # 0
        <3>1. k - 1 \in 0 .. C /\ (k - 1) + 1 = k /\ k \in Nat
            BY <1>3, <2>2
        <3>2. g[k - 1] = IF k - 1 < p - 1 THEN s[k] ELSE IF p <= n THEN s[p] ELSE End
            BY <3>1
        <3>3. g[k] = IF k < p - 1 THEN s[k + 1] ELSE IF p <= n THEN s[p] ELSE End
            OBVIOUS
        <3> HIDE DEF g
        <3>4. CASE k < p
            <4>1. k \in 1 .. n /\ k - 1 < p - 1
                BY <2>2, <3>1, <3>4
            <4>2. g[k - 1] = s[k] /\ s[k] \in Cells /\ addr[s[k]] # a
                BY <1>5, <3>2, <3>4, <4>1
            <4>3. Step(g[k - 1]) = IF k = n THEN End ELSE s[k + 1]
                BY <1>5, <4>1, <4>2
            <4>4. g[k] = IF k = n THEN End ELSE s[k + 1]
                <5>1. CASE k = n
                    BY <3>3, <3>4, <5>1
                <5>2. CASE k # n /\ k < p - 1
                    BY <3>3, <5>2
                <5>3. CASE k # n /\ ~(k < p - 1)
                    <6>1. p = k + 1 /\ p <= n
                        BY <3>4, <4>1, <5>3
                    <6> QED BY <3>3, <5>3, <6>1
                <5> QED BY <5>1, <5>2, <5>3
            <4> QED BY <2>2, <4>3, <4>4
        <3>5. CASE ~(k < p)
            <4>1. ~(k - 1 < p - 1) /\ ~(k < p - 1)
                BY <3>1, <3>5
            <4>2. g[k - 1] = g[k] /\ g[k] = IF p <= n THEN s[p] ELSE End
                BY <3>2, <3>3, <4>1
            <4>3. Step(g[k]) = g[k]
                <5>1. CASE p <= n
                    BY <4>2, <5>1
                <5>2. CASE ~(p <= n)
                    BY <4>2, <5>2, EndIs
                <5> QED BY <5>1, <5>2
            <4> QED BY <2>2, <4>2, <4>3
        <3> QED BY <3>4, <3>5, <3>1
    <2> QED BY <2>1, <2>2
<1>7. at = Reach(at)
    <2> HIDE DEF g, Reach
    <2> QED BY <1>2, <1>6, Zenon
<1>8. \A k \in 0 .. C : at[k] = g[k]
    <2> DEFINE S == {k \in Nat : k \in 0 .. C => at[k] = g[k]}
    <2>0. /\ \A k \in 0 .. C : at[k] = IF k = 0 THEN head ELSE Step(at[k - 1])
          /\ \A k \in 0 .. C : g[k] = IF k = 0 THEN head ELSE Step(g[k - 1])
        BY <1>6, <1>7
    <2> HIDE DEF g, Reach, Step
    <2>1. 0 \in S
        BY <1>3, <2>0
    <2>2. ASSUME NEW k \in S PROVE k + 1 \in S
        <3>1. CASE k + 1 \in 0 .. C
            <4>1. k \in 0 .. C /\ (k + 1) - 1 = k /\ k + 1 # 0
                BY <1>3, <3>1
            <4> QED BY <2>0, <3>1, <4>1
        <3>2. CASE k + 1 \notin 0 .. C
            BY <3>2
        <3> QED BY <3>1, <3>2
    <2>3. S = Nat
        <3> HIDE DEF S
        <3> QED BY <2>1, <2>2, SetInduction DEF S
    <2> QED BY <2>3
<1> QED BY <1>1, <1>8 DEF C

\* The search finds a cell of the list by its address ...
LEMMA Found ==
    ASSUME EInv, NEW c \in Linked
    PROVE  Lookup(addr[c]) = c /\ Touched(addr[c]) \subseteq Linked
<1>0. PICK n \in Nat : \E s \in [1 .. n -> Cells] : IsList(n, s)
    BY DEF EInv, Listing
<1>1. PICK s \in [1 .. n -> Cells] : IsList(n, s)
    BY <1>0
<1>2. c \in Cells /\ (\A d \in Linked : addr[d] = addr[c] => d = c)
    BY LinkedCells DEF EInv, Numbered
<1>3. PICK p \in 1 .. n : s[p] = c
    BY <1>1, <1>2 DEF IsList
<1>4. \A i \in 1 .. n : s[i] \in Linked
    BY <1>1 DEF IsList
<1>5. \A i \in 1 .. n : i < p => addr[s[i]] # addr[c]
    BY <1>1, <1>2, <1>3, <1>4 DEF IsList
<1>6. p \in 1 .. n + 1 /\ p <= n
    OBVIOUS
<1>7. \A k \in 0 .. Cardinality(Cells) :
          Walk(addr[c])[k] = IF k < p - 1 THEN s[k + 1] ELSE IF p <= n THEN s[p] ELSE End
    BY <1>1, <1>3, <1>5, <1>6, WalkIs
<1>8. n <= Cardinality(Cells) /\ Cardinality(Cells) \in Nat
    BY <1>1, ListFits, Sizes
<1>9. ~(Cardinality(Cells) < p - 1) /\ Cardinality(Cells) \in 0 .. Cardinality(Cells)
    BY <1>8
<1>10. ASSUME NEW k \in 0 .. Cardinality(Cells) PROVE Walk(addr[c])[k] \in Linked
    <2>1. k < p - 1 => k + 1 \in 1 .. n
        BY <1>6
    <2> QED BY <1>4, <1>6, <1>7, <2>1
<1>11. Touched(addr[c]) \subseteq Linked
    BY <1>10 DEF Touched
<1> QED BY <1>3, <1>6, <1>7, <1>9, <1>11 DEF Lookup

\* ... and comes to the end without one, having seen every cell.
LEMMA Missed ==
    ASSUME EInv, NEW a, \A c \in Linked : addr[c] # a, ~Unfinished
    PROVE  Lookup(a) = End /\ Touched(a) = Linked \cup {End}
<1>0. PICK n \in Nat : \E s \in [1 .. n -> Cells] : IsList(n, s)
    BY DEF EInv, Listing
<1>1. PICK s \in [1 .. n -> Cells] : IsList(n, s)
    BY <1>0
<1>2. \A i \in 1 .. n : s[i] \in Linked
    BY <1>1 DEF IsList
<1>3. n + 1 \in 1 .. n + 1 /\ ~(n + 1 <= n) /\ (n + 1) - 1 = n
    OBVIOUS
<1>4. \A i \in 1 .. n : i < n + 1 => addr[s[i]] # a
    BY <1>2
<1>5. \A k \in 0 .. Cardinality(Cells) :
          Walk(a)[k] = IF k < (n + 1) - 1 THEN s[k + 1]
                       ELSE IF n + 1 <= n THEN s[n + 1] ELSE End
    <2>1. \E p \in 1 .. n + 1 : p = n + 1
        BY <1>3
    <2>2. PICK p \in 1 .. n + 1 : p = n + 1
        BY <2>1
    <2>3. /\ \A i \in 1 .. n : i < p => addr[s[i]] # a
          /\ ~(p <= n) /\ (p <= n => addr[s[p]] = a) /\ (Unfinished => p <= n)
        BY <1>3, <1>4, <2>2
    <2>4. \A k \in 0 .. Cardinality(Cells) :
              Walk(a)[k] = IF k < p - 1 THEN s[k + 1] ELSE IF p <= n THEN s[p] ELSE End
        BY <1>1, <2>3, WalkIs
    <2> QED BY <2>2, <2>4
<1>6. \A k \in 0 .. Cardinality(Cells) : Walk(a)[k] = IF k < n THEN s[k + 1] ELSE End
    BY <1>3, <1>5
<1>7. n <= Cardinality(Cells) /\ Cardinality(Cells) \in Nat
    BY <1>1, ListFits, Sizes
<1>8. Walk(a)[Cardinality(Cells)] = End /\ Cardinality(Cells) \in 0 .. Cardinality(Cells)
    BY <1>6, <1>7
<1>9. ASSUME NEW k \in 0 .. Cardinality(Cells) PROVE Walk(a)[k] \in Linked \cup {End}
    <2>1. CASE k < n
        <3>1. k + 1 \in 1 .. n
            BY <2>1
        <3> QED BY <1>2, <1>6, <2>1, <3>1
    <2>2. CASE ~(k < n)
        BY <1>6, <2>2
    <2> QED BY <2>1, <2>2
<1>10. ASSUME NEW c \in Linked
       PROVE  \E k \in 0 .. Cardinality(Cells) : Walk(a)[k] = c
    <2>1. PICK i \in 1 .. n : s[i] = c
        BY <1>1, LinkedCells DEF IsList, EInv
    <2>2. i - 1 \in 0 .. Cardinality(Cells) /\ i - 1 < n /\ (i - 1) + 1 = i
        BY <1>7
    <2>3. Walk(a)[i - 1] = c
        BY <1>6, <2>1, <2>2
    <2> QED BY <2>2, <2>3
<1> QED BY <1>8, <1>9, <1>10 DEF Lookup, Touched

\* A first node that is not finished is all there is.
LEMMA OneNode == EInv /\ Unfinished => Linked = {head}
<1> SUFFICES ASSUME EInv, NEW t \in Tasks, pc[t] = "clear" PROVE Linked = {head}
    BY DEF Unfinished
<1> QED BY LinkedBy DEF EInv, Alone, Inside

\* The nodes of the list are what is linked.
LEMMA ListedIs == EInv => Listed = Linked
<1> SUFFICES ASSUME EInv, ~Unfinished PROVE Listed = Linked
    BY OneNode DEF Listed
<1>1. \A c \in Linked : addr[c] # 0
    BY Sizes DEF EInv, Numbered, Addresses
<1>2. Touched(0) = Linked \cup {End}
    BY <1>1, Missed
<1>3. Linked \subseteq Cells
    BY LinkedCells DEF EInv
<1> QED BY <1>2, <1>3, EndIs, Sizes DEF Listed

\* An address that is chosen is nobody's.
LEMMA ChosenIsNew ==
    ASSUME EInv, NEW a, Chosen(a) # None
    PROVE  Chosen(a) \in Addresses /\ \A c \in Linked : addr[c] # Chosen(a)
<1> DEFINE free == {b \in Addresses : Lookup(b) = None}
           fits == IF a = RL_ADDR_ANY THEN free ELSE free \cap {a}
<1>1. Chosen(a) = IF fits = {} THEN None ELSE CHOOSE b \in fits : \A x \in fits : b =< x
    BY DEF Chosen
<1>2. fits \subseteq free /\ fits \in SUBSET Nat
    BY Sizes DEF Addresses
<1>3. fits # {}
    BY <1>1
<1> HIDE DEF fits
<1>4. \E b \in fits : \A x \in fits : b =< x
    BY <1>2, <1>3, Least
<1>5. Chosen(a) \in fits
    BY <1>1, <1>3, <1>4
<1>6. Chosen(a) \in Addresses /\ Lookup(Chosen(a)) = None
    BY <1>2, <1>5
<1>7. ASSUME NEW c \in Linked, addr[c] = Chosen(a) PROVE FALSE
    <2>1. Lookup(Chosen(a)) = c
        BY <1>7, Found
    <2>2. c \in Cells
        BY LinkedCells DEF EInv
    <2> QED BY <1>6, <2>1, <2>2, Sizes
<1> QED BY <1>6, <1>7

-----------------------------------------------------------------------------
\* The steps.

LEMMA EInit == Init => EInv
<1> SUFFICES ASSUME Init PROVE EInv
    OBVIOUS
<1> USE DEF Init
<1>1. Types
    BY Sizes DEF Types, Ptr, Inside, RL_ADDR_ANY
<1>2. Linked = {} /\ End = None
    BY DEF Linked, End, Unfinished
<1>3. Locked /\ Held /\ Alone /\ Numbered
    BY <1>2, Sizes DEF Locked, Held, Alone, Numbered, Inside, Holding
<1>4. Listing
    <2> DEFINE s == [i \in 1 .. 0 |-> head]
    <2>1. s \in [1 .. 0 -> Cells] /\ 0 \in Nat
        OBVIOUS
    <2>2. IsList(0, s)
        BY <1>2 DEF IsList
    <2> QED BY <2>1, <2>2 DEF Listing
<1> QED BY <1>1, <1>3, <1>4 DEF EInv

\* A task that is alone inside and goes to step x.
LEMMA After ==
    ASSUME EInv, NEW t \in Tasks, lock \in {t, None}, NEW x, pc' = [pc EXCEPT ![t] = x],
           lock' = IF x \in Inside THEN t ELSE None
    PROVE  /\ \A u \in Tasks : u # t => pc[u] \notin Inside /\ pc'[u] = pc[u]
           /\ pc'[t] = x
           /\ Locked'
           /\ Linked' = IF x \in {"clear", "added", "remove"} THEN owned' \cup {cell'[t]}
                        ELSE owned'
           /\ End' = IF x = "clear" THEN next'[head'] ELSE None
<1>1. \A u \in Tasks : u # t => pc[u] \notin Inside
    BY Sizes DEF EInv, Locked
<1>2. pc'[t] = x /\ \A u \in Tasks : u # t => pc'[u] = pc[u]
    BY DEF EInv, Types
<1>3. Locked'
    BY <1>1, <1>2, Sizes DEF Locked
<1>4. {u \in Tasks : pc'[u] \in {"clear", "added", "remove"}}
        = IF x \in {"clear", "added", "remove"} THEN {t} ELSE {}
    BY <1>1, <1>2 DEF Inside
<1>5. Linked' = IF x \in {"clear", "added", "remove"} THEN owned' \cup {cell'[t]} ELSE owned'
    BY <1>4 DEF Linked
<1>6. End' = IF x = "clear" THEN next'[head'] ELSE None
    BY <1>1, <1>2 DEF Inside, End, Unfinished
<1> QED BY <1>1, <1>2, <1>3, <1>5, <1>6

\* The task has the lock while it is inside.
LEMMA HasLock ==
    ASSUME EInv, NEW t \in Tasks, pc[t] \in Inside
    PROVE  lock = t
BY DEF EInv, Locked

\* Stores outside the list leave it as it is.
LEMMA ListKept ==
    ASSUME EInv, head' = head, End' = End, Linked' = Linked,
           \A c \in Linked : next'[c] = next[c] /\ prev'[c] = prev[c]
    PROVE  Listing'
<1>0. PICK n \in Nat : \E s \in [1 .. n -> Cells] : IsList(n, s)
    BY DEF EInv, Listing
<1>1. PICK s \in [1 .. n -> Cells] : IsList(n, s)
    BY <1>0
<1>2. \A i \in 1 .. n : s[i] \in Linked
    BY <1>1 DEF IsList
<1>a. \A i \in 1 .. n : next'[s[i]] = next[s[i]] /\ prev'[s[i]] = prev[s[i]]
    BY <1>2
<1>b. \A i \in 2 .. n : i \in 1 .. n
    OBVIOUS
<1>3. /\ \A i \in 1 .. n : next'[s[i]] = IF i = n THEN End' ELSE s[i + 1]
      /\ \A i \in 2 .. n : prev'[s[i]] = s[i - 1]
    BY <1>1, <1>a, <1>b DEF IsList
<1>4. /\ \A i, j \in 1 .. n : s[i] = s[j] => i = j
      /\ head' = IF n = 0 THEN None ELSE s[1]
      /\ \A c \in Cells : c \in Linked' <=> \E i \in 1 .. n : s[i] = c
    BY <1>1 DEF IsList
<1>5. IsList(n, s)'
    BY <1>3, <1>4 DEF IsList
<1> QED BY <1>5 DEF Listing

LEMMA CreateKeeps ==
    ASSUME EInv, NEW t \in Tasks, NEW a \in Addresses \cup {RL_ADDR_ANY}, Create(t, a)
    PROVE  EInv' /\ Linked' = Linked /\ UNCHANGED addr
<1> USE DEF Create, list
<1>1. Linked = owned /\ End = None
    BY LinkedIdle DEF EInv
<1>2. /\ \A u \in Tasks : u # t => pc[u] \notin Inside /\ pc'[u] = pc[u]
      /\ pc'[t] = "search" /\ Locked' /\ Linked' = owned' /\ End' = None
    BY After DEF Inside
<1>3. Types'
    BY DEF EInv, Types, Inside
<1>4. Held' /\ Alone' /\ Numbered'
    BY <1>1, <1>2 DEF EInv, Held, Holding, Alone, Numbered, Inside
<1>5. Listing'
    BY <1>1, <1>2, ListKept
<1> QED BY <1>1, <1>2, <1>3, <1>4, <1>5 DEF EInv

LEMMA FailsKeeps ==
    ASSUME EInv, NEW t \in Tasks, CreateFails(t)
    PROVE  EInv' /\ Linked' = Linked /\ UNCHANGED addr
<1> USE DEF CreateFails, Unlock, list
<1>0. lock = t /\ pc[t] = "search"
    BY HasLock DEF Inside
<1>1. Linked = owned /\ End = None
    BY <1>0, LinkedBy DEF EInv, Inside
<1>2. /\ \A u \in Tasks : u # t => pc[u] \notin Inside /\ pc'[u] = pc[u]
      /\ pc'[t] = "idle" /\ Locked' /\ Linked' = owned' /\ End' = None
    BY <1>0, After DEF Inside
<1>3. Types'
    BY DEF EInv, Types, Inside, RL_ADDR_ANY
<1>4. Held' /\ Alone' /\ Numbered'
    BY <1>1, <1>2 DEF EInv, Held, Holding, Alone, Numbered, Inside
<1>5. Listing'
    BY <1>1, <1>2, ListKept
<1> QED BY <1>1, <1>2, <1>3, <1>4, <1>5 DEF EInv

LEMMA AllocateKeeps ==
    ASSUME EInv, NEW t \in Tasks, NEW c \in Cells, NEW old \in Ptr, Allocate(t, c, old)
    PROVE  EInv' /\ Linked' = Linked /\ \A d \in Linked : addr'[d] = addr[d]
<1> USE DEF Allocate
<1>0. lock = t /\ pc[t] = "search"
    BY HasLock DEF Inside
<1>1. Linked = owned /\ End = None /\ Linked \subseteq allocated
    BY <1>0, LinkedBy, LinkedCells DEF EInv, Inside
<1>2. /\ \A u \in Tasks : u # t => pc[u] \notin Inside /\ pc'[u] = pc[u]
      /\ pc'[t] = "add" /\ Locked' /\ Linked' = owned' /\ End' = None
    BY <1>0, After DEF Inside
<1>3. Chosen(request[t]) \in Addresses /\ \A d \in Linked : addr[d] # Chosen(request[t])
    BY ChosenIsNew
<1>4. /\ cell'[t] = c /\ \A u \in Tasks : u # t => cell'[u] = cell[u]
      /\ addr'[c] = Chosen(request[t])
      /\ \A d \in Cells : d # c => addr'[d] = addr[d] /\ next'[d] = next[d]
    BY DEF EInv, Types
<1>5. Types'
    BY <1>3 DEF EInv, Types, Inside
<1>6. Held'
    BY <1>2, <1>4 DEF EInv, Types, Held, Holding, Inside
<1>7. Alone'
    BY <1>2, <1>4 DEF EInv, Types, Alone, Inside
<1>8. \A d \in Linked : addr'[d] = addr[d] /\ next'[d] = next[d] /\ d # c
    BY <1>1, <1>4 DEF EInv, Types
<1>9. Numbered'
    BY <1>1, <1>2, <1>3, <1>4, <1>8 DEF EInv, Numbered, Inside
<1>10. Listing'
    BY <1>1, <1>2, <1>8, ListKept
<1> QED BY <1>1, <1>2, <1>5, <1>6, <1>7, <1>8, <1>9, <1>10 DEF EInv

\* The node that is linked next comes before all others.
LEMMA FrontKeeps ==
    ASSUME EInv, NEW t \in Tasks, AddToFront(t)
    PROVE  EInv' /\ Linked' = Linked \cup {cell[t]} /\ cell[t] \notin Linked /\ UNCHANGED addr
<1> USE DEF AddToFront
<1> DEFINE c == cell[t]
<1>0. lock = t /\ pc[t] = "add"
    BY HasLock DEF Inside
<1>1. Linked = owned /\ End = None
    BY <1>0, LinkedBy DEF EInv, Inside
<1>2. /\ \A u \in Tasks : u # t => pc[u] \notin Inside /\ pc'[u] = pc[u]
      /\ pc'[t] = "added" /\ Locked' /\ Linked' = owned' \cup {cell'[t]} /\ End' = None
    BY <1>0, After DEF Inside
<1>3. c \in Cells /\ c \in allocated /\ c \notin Linked
    BY <1>0, <1>1 DEF EInv, Types, Held, Holding
<1>4. Linked' = Linked \cup {c}
    BY <1>1, <1>2
<1>5. head \in Cells /\ head \in Linked
    <2>0. PICK n \in Nat : \E s \in [1 .. n -> Cells] : IsList(n, s)
        BY DEF EInv, Listing
    <2>1. PICK s \in [1 .. n -> Cells] : IsList(n, s)
        BY <2>0
    <2>2. n # 0 /\ 1 \in 1 .. n /\ head = s[1]
        BY <2>1 DEF IsList
    <2> QED BY <2>1, <2>2 DEF IsList
<1>6. /\ next'[c] = head /\ \A d \in Cells : d # c => next'[d] = next[d]
      /\ prev'[head] = c /\ \A d \in Cells : d # c /\ d # head => prev'[d] = prev[d]
    BY <1>3, <1>5 DEF EInv, Types
<1>7. Types'
    BY <1>3, <1>5 DEF EInv, Types, Inside, Ptr
<1>8. Held'
    BY <1>0, <1>2 DEF EInv, Held, Holding, Inside
<1>9. Alone'
    BY <1>2, <1>3, <1>6 DEF EInv, Types, Alone, Inside
<1>10. Numbered'
    BY <1>0, <1>2, <1>4 DEF EInv, Numbered, Inside
<1>11. Listing'
    <2>0. PICK n \in Nat : \E s \in [1 .. n -> Cells] : IsList(n, s)
        BY DEF EInv, Listing
    <2>1. PICK s \in [1 .. n -> Cells] : IsList(n, s)
        BY <2>0
    <2>a. \E r : r = [i \in 1 .. n + 1 |-> IF i = 1 THEN c ELSE s[i - 1]]
        OBVIOUS
    <2>b. PICK r : r = [i \in 1 .. n + 1 |-> IF i = 1 THEN c ELSE s[i - 1]]
        BY <2>a
    <2>2. /\ n + 1 \in Nat /\ r[1] = c /\ n # 0 /\ head = s[1]
          /\ \A i \in 1 .. n + 1 : i # 1 => i - 1 \in 1 .. n /\ r[i] = s[i - 1]
          /\ \A i \in 1 .. n : i + 1 \in 1 .. n + 1 /\ r[i + 1] = s[i]
        BY <1>5, <2>1, <2>b, Sizes DEF IsList
    <2>3. r \in [1 .. n + 1 -> Cells]
        BY <1>3, <2>b
    <2>4. \A i \in 1 .. n : s[i] \in Cells /\ s[i] \in Linked /\ s[i] # c
        BY <1>3, <2>1 DEF IsList
    <2>5. \A i, j \in 1 .. n + 1 : r[i] = r[j] => i = j
        <3> SUFFICES ASSUME NEW i \in 1 .. n + 1, NEW j \in 1 .. n + 1, r[i] = r[j]
                     PROVE  i = j
            OBVIOUS
        <3>1. CASE i = 1 \/ j = 1
            BY <2>2, <2>4, <3>1
        <3>2. CASE i # 1 /\ j # 1
            <4>1. i - 1 = j - 1
                BY <2>1, <2>2, <3>2 DEF IsList
            <4> QED BY <4>1
        <3> QED BY <3>1, <3>2
    <2>6. \A i \in 1 .. n + 1 : next'[r[i]] = IF i = n + 1 THEN End' ELSE r[i + 1]
        <3> SUFFICES ASSUME NEW i \in 1 .. n + 1
                     PROVE  next'[r[i]] = IF i = n + 1 THEN End' ELSE r[i + 1]
            OBVIOUS
        <3>1. CASE i = 1
            BY <1>6, <2>2, <3>1
        <3>2. CASE i # 1
            <4>1. next'[r[i]] = next[s[i - 1]] /\ i - 1 \in 1 .. n
                BY <1>6, <2>2, <2>4, <3>2
            <4>2. next[s[i - 1]] = IF i - 1 = n THEN End ELSE s[i]
                BY <2>1, <4>1 DEF IsList
            <4>3. i # n + 1 => i \in 1 .. n /\ r[i + 1] = s[i] /\ i - 1 # n
                BY <2>2
            <4> QED BY <1>1, <1>2, <4>1, <4>2, <4>3
        <3> QED BY <3>1, <3>2
    <2>7. \A i \in 2 .. n + 1 : prev'[r[i]] = r[i - 1]
        <3> SUFFICES ASSUME NEW i \in 2 .. n + 1 PROVE prev'[r[i]] = r[i - 1]
            OBVIOUS
        <3>1. i - 1 \in 1 .. n /\ r[i] = s[i - 1] /\ i - 1 \in 1 .. n + 1
            BY <2>2
        <3>2. CASE i = 2
            BY <1>6, <2>2, <3>1, <3>2
        <3>3. CASE i # 2
            <4>1. i - 1 \in 2 .. n /\ (i - 1) - 1 = i - 2 /\ r[i - 1] = s[i - 2]
                BY <2>2, <3>1, <3>3
            <4>2. s[i - 1] # head
                BY <2>1, <2>2, <3>1, <3>3 DEF IsList
            <4>3. prev'[s[i - 1]] = prev[s[i - 1]]
                BY <1>6, <2>4, <3>1, <4>2
            <4>4. prev[s[i - 1]] = s[i - 2]
                BY <2>1, <4>1 DEF IsList
            <4> QED BY <3>1, <4>1, <4>3, <4>4
        <3> QED BY <3>2, <3>3
    <2>8. \A d \in Cells : d \in Linked' <=> \E i \in 1 .. n + 1 : r[i] = d
        <3>1. ASSUME NEW d \in Linked, d \in Cells PROVE \E i \in 1 .. n + 1 : r[i] = d
            <4>1. PICK i \in 1 .. n : s[i] = d
                BY <2>1, <3>1 DEF IsList
            <4> QED BY <2>2, <4>1
        <3>2. \E i \in 1 .. n + 1 : r[i] = c
            BY <2>2
        <3>3. ASSUME NEW i \in 1 .. n + 1 PROVE r[i] \in Linked'
            BY <1>4, <2>2, <2>4
        <3> QED BY <1>4, <3>1, <3>2, <3>3
    <2>9. head' = IF n + 1 = 0 THEN None ELSE r[1]
        BY <2>2
    <2>10. IsList(n + 1, r)'
        BY <2>5, <2>6, <2>7, <2>8, <2>9 DEF IsList
    <2> QED BY <2>2, <2>3, <2>10 DEF Listing
<1> QED BY <1>2, <1>3, <1>4, <1>7, <1>8, <1>9, <1>10, <1>11 DEF EInv

\* The first node of all is the list before its pointers are cleared.
LEMMA EmptyKeeps ==
    ASSUME EInv, NEW t \in Tasks, AddToEmpty(t)
    PROVE  EInv' /\ Linked' = Linked \cup {cell[t]} /\ cell[t] \notin Linked /\ UNCHANGED addr
<1> USE DEF AddToEmpty
<1> DEFINE c == cell[t]
<1>0. lock = t /\ pc[t] = "add"
    BY HasLock DEF Inside
<1>1. Linked = owned /\ End = None
    BY <1>0, LinkedBy DEF EInv, Inside
<1>2. /\ \A u \in Tasks : u # t => pc[u] \notin Inside /\ pc'[u] = pc[u]
      /\ pc'[t] = "clear" /\ Locked' /\ Linked' = owned' \cup {cell'[t]} /\ End' = next'[head']
    BY <1>0, After DEF Inside
<1>3. c \in Cells /\ c \in allocated /\ c \notin Linked
    BY <1>0, <1>1 DEF EInv, Types, Held, Holding
<1>4. Linked' = Linked \cup {c} /\ Linked = {}
    <2>0. PICK n \in Nat : \E s \in [1 .. n -> Cells] : IsList(n, s)
        BY DEF EInv, Listing
    <2>1. PICK s \in [1 .. n -> Cells] : IsList(n, s)
        BY <2>0
    <2>2. n = 0
        BY <2>1, Sizes DEF IsList
    <2>3. Linked = {}
        BY <2>1, <2>2, LinkedCells DEF IsList, EInv
    <2> QED BY <1>1, <1>2, <2>3
<1>5. Types'
    BY <1>3 DEF EInv, Types, Inside
<1>6. Held'
    BY <1>0, <1>2 DEF EInv, Held, Holding, Inside
<1>7. Alone'
    BY <1>1, <1>2, <1>4 DEF EInv, Types, Alone, Inside
<1>8. Numbered'
    BY <1>0, <1>2, <1>4 DEF EInv, Numbered, Inside
<1>9. Listing'
    <2>a. \E r : r = [i \in 1 .. 1 |-> c]
        OBVIOUS
    <2>b. PICK r : r = [i \in 1 .. 1 |-> c]
        BY <2>a
    <2>1. r \in [1 .. 1 -> Cells] /\ r[1] = c /\ 1 \in Nat /\ 1 .. 1 = {1}
        BY <1>3, <2>b
    <2>2. head' = r[1] /\ next'[r[1]] = End'
        BY <1>2, <1>3, <2>1
    <2>3. \A d \in Cells : d \in Linked' <=> \E i \in 1 .. 1 : r[i] = d
        BY <1>4, <2>1
    <2>4. IsList(1, r)'
        BY <2>1, <2>2, <2>3 DEF IsList
    <2> QED BY <2>1, <2>4 DEF Listing
<1> QED BY <1>2, <1>3, <1>4, <1>5, <1>6, <1>7, <1>8, <1>9 DEF EInv

LEMMA ClearKeeps ==
    ASSUME EInv, NEW t \in Tasks, ClearPointers(t)
    PROVE  EInv' /\ Linked' = Linked /\ UNCHANGED addr
<1> USE DEF ClearPointers
<1> DEFINE c == cell[t]
<1>0. lock = t /\ pc[t] = "clear"
    BY HasLock DEF Inside
<1>1. Linked = owned \cup {c}
    BY <1>0, LinkedBy DEF EInv, Inside
<1>2. /\ \A u \in Tasks : u # t => pc[u] \notin Inside /\ pc'[u] = pc[u]
      /\ pc'[t] = "added" /\ Locked' /\ Linked' = owned' \cup {cell'[t]} /\ End' = None
    BY <1>0, After DEF Inside
<1>3. c \in Cells /\ c \in allocated /\ Linked = {c} /\ head = c /\ Linked' = Linked
    BY <1>0, <1>1, <1>2 DEF EInv, Types, Held, Holding, Alone
<1>4. next'[c] = None /\ \A d \in Cells : d # c => next'[d] = next[d]
    BY <1>3 DEF EInv, Types
<1>5. Types'
    BY DEF EInv, Types, Inside, Ptr
<1>6. Held'
    BY <1>0, <1>2 DEF EInv, Held, Holding, Inside
<1>7. Alone'
    BY <1>2, <1>3, <1>4 DEF EInv, Types, Alone, Inside
<1>8. Numbered'
    BY <1>0, <1>2, <1>3 DEF EInv, Numbered, Inside
<1>9. Listing'
    <2>0. PICK n \in Nat : \E s \in [1 .. n -> Cells] : IsList(n, s)
        BY DEF EInv, Listing
    <2>1. PICK s \in [1 .. n -> Cells] : IsList(n, s)
        BY <2>0
    <2>2. n # 0 /\ 1 \in 1 .. n /\ s[1] = c
        BY <1>3, <2>1, Sizes DEF IsList
    <2>3. n = 1
        <3>1. \A i \in 1 .. n : s[i] = c
            BY <1>3, <2>1 DEF IsList
        <3>2. n \in 1 .. n
            BY <2>2
        <3> QED BY <2>1, <2>2, <3>1, <3>2 DEF IsList
    <2>4. \A i \in 1 .. 1 : i = 1
        OBVIOUS
    <2>5. head' = s[1] /\ next'[s[1]] = End'
        BY <1>2, <1>3, <1>4, <2>2
    <2>6. \A d \in Cells : d \in Linked' <=> \E i \in 1 .. 1 : s[i] = d
        BY <1>3, <2>1, <2>3 DEF IsList
    <2>7. IsList(1, s)'
        BY <2>4, <2>5, <2>6 DEF IsList
    <2> QED BY <2>3, <2>7 DEF Listing
<1> QED BY <1>2, <1>3, <1>5, <1>6, <1>7, <1>8, <1>9 DEF EInv

LEMMA ReturnsKeeps ==
    ASSUME EInv, NEW t \in Tasks, CreateReturns(t)
    PROVE  EInv' /\ Linked' = Linked /\ UNCHANGED addr
<1> USE DEF CreateReturns, Unlock, list
<1>0. lock = t /\ pc[t] = "added"
    BY HasLock DEF Inside
<1>1. Linked = owned \cup {cell[t]} /\ End = None
    BY <1>0, LinkedBy DEF EInv, Inside
<1>2. /\ \A u \in Tasks : u # t => pc[u] \notin Inside /\ pc'[u] = pc[u]
      /\ pc'[t] = "idle" /\ Locked' /\ Linked' = owned' /\ End' = None
    BY <1>0, After DEF Inside
<1>3. cell[t] \in allocated
    BY <1>0 DEF EInv, Held, Holding
<1>4. Types'
    BY <1>3 DEF EInv, Types, Inside, RL_ADDR_ANY
<1>5. Held'
    <2>1. \A u \in Tasks : u # t => cell'[u] = cell[u]
        BY DEF EInv, Types
    <2>2. \A u \in Tasks : pc'[u] \in Holding => u # t /\ pc[u] \in Holding
        BY <1>2 DEF Holding
    <2>3. \A u \in Tasks : u # t /\ pc[u] \in Holding => cell[u] # cell[t]
        BY <1>0 DEF EInv, Held, Holding
    <2> QED BY <2>1, <2>2, <2>3 DEF EInv, Held
<1>6. Alone'
    BY <1>2 DEF EInv, Types, Alone, Inside
<1>7. Linked' = Linked
    BY <1>1, <1>2
<1>8. Numbered'
    BY <1>2, <1>7 DEF EInv, Numbered, Inside
<1>9. Listing'
    BY <1>1, <1>2, <1>7, ListKept
<1> QED BY <1>2, <1>4, <1>5, <1>6, <1>7, <1>8, <1>9 DEF EInv

LEMMA DestroyKeeps ==
    ASSUME EInv, NEW t \in Tasks, NEW c \in Cells, Destroy(t, c)
    PROVE  EInv' /\ Linked' = Linked /\ UNCHANGED addr
<1> USE DEF Destroy, list
<1>1. Linked = owned /\ End = None /\ c \in owned /\ c \in allocated
    BY LinkedIdle DEF EInv, Types
<1>2. /\ \A u \in Tasks : u # t => pc[u] \notin Inside /\ pc'[u] = pc[u]
      /\ pc'[t] = "remove" /\ Locked' /\ Linked' = owned' \cup {cell'[t]} /\ End' = None
    BY After DEF Inside
<1>3. cell'[t] = c /\ \A u \in Tasks : u # t => cell'[u] = cell[u]
    BY DEF EInv, Types
<1>4. Linked' = Linked
    BY <1>1, <1>2, <1>3
<1>5. Types'
    BY DEF EInv, Types, Inside
<1>6. Held'
    <2>1. \A u \in Tasks : pc'[u] \in Holding /\ u # t => pc[u] \in Holding
        BY <1>2
    <2>2. \A u \in Tasks : pc[u] \in Holding => cell[u] # c
        BY <1>1 DEF EInv, Held
    <2>3. \A u \in Tasks : pc'[u] \in Holding => cell'[u] \in allocated' \ owned'
        BY <1>1, <1>3, <2>1 DEF EInv, Held
    <2>4. \A u, v \in Tasks :
             pc'[u] \in Holding /\ pc'[v] \in Holding /\ cell'[u] = cell'[v] => u = v
        BY <1>3, <2>1, <2>2 DEF EInv, Held
    <2> QED BY <2>3, <2>4 DEF Held
<1>7. Alone'
    BY <1>2, <1>3 DEF EInv, Types, Alone, Inside
<1>8. Numbered'
    BY <1>2, <1>4 DEF EInv, Numbered, Inside
<1>9. Listing'
    BY <1>1, <1>2, <1>4, ListKept
<1> QED BY <1>2, <1>4, <1>5, <1>6, <1>7, <1>8, <1>9 DEF EInv

\* The memory that is freed is nobody's.
LEMMA FreeKeeps ==
    ASSUME EInv, NEW t \in Tasks, Free(t)
    PROVE  EInv' /\ Linked' = Linked /\ \A d \in Linked : addr'[d] = addr[d]
<1> USE DEF Free
<1> DEFINE c == cell[t]
<1>1. c \in Cells /\ c \in allocated /\ c \notin owned
      /\ \A u \in Tasks : u # t /\ pc[u] \in Holding => cell[u] # c
    BY DEF EInv, Types, Held, Holding
<1>2. pc'[t] = "idle" /\ \A u \in Tasks : u # t => pc'[u] = pc[u] /\ cell'[u] = cell[u]
    BY DEF EInv, Types
<1>3. /\ \A d \in Cells : d # c => next'[d] = next[d] /\ prev'[d] = prev[d] /\ addr'[d] = addr[d]
    BY <1>1 DEF EInv, Types
<1>4. {u \in Tasks : pc'[u] \in {"clear", "added", "remove"}}
        = {u \in Tasks : pc[u] \in {"clear", "added", "remove"}}
    BY <1>2
<1>6. c \notin Linked /\ Linked \subseteq Cells
    BY <1>1, LinkedCells DEF EInv, Linked, Holding
<1>5. Linked' = Linked /\ End' = End
    <2>1. \A u \in Tasks : pc[u] \in {"clear", "added", "remove"} => cell'[u] = cell[u]
        BY <1>2
    <2>2. Unfinished' = Unfinished
        BY <1>2 DEF Unfinished
    <2>3. Unfinished => head \in Cells /\ head # c
        BY <1>6, OneNode
    <2>4. End' = End
        BY <1>3, <2>2, <2>3 DEF End
    <2> QED BY <1>4, <2>1, <2>4 DEF Linked
<1>7. Types'
    BY <1>1 DEF EInv, Types, Inside, Ptr
<1>8. Locked'
    BY <1>2 DEF EInv, Locked, Inside
<1>9. Held'
    BY <1>1, <1>2 DEF EInv, Held, Holding
<1>10. Alone'
    BY <1>1, <1>2, <1>3 DEF EInv, Types, Alone, Holding
<1>11. Numbered'
    <2>1. \A d \in Linked : addr'[d] = addr[d]
        BY <1>3, <1>6
    <2>2. \A u \in Tasks : pc'[u] = "add" =>
             u # t /\ pc[u] = "add" /\ cell'[u] = cell[u] /\ addr'[cell[u]] = addr[cell[u]]
        BY <1>1, <1>2, <1>3 DEF EInv, Types, Held, Holding
    <2> QED BY <1>5, <2>1, <2>2 DEF EInv, Numbered
<1>12. Listing'
    BY <1>3, <1>5, <1>6, ListKept
<1> QED BY <1>3, <1>5, <1>6, <1>7, <1>8, <1>9, <1>10, <1>11, <1>12 DEF EInv

\* The node that is taken out is the one the caller gave: its neighbours are linked.
LEMMA RemoveKeeps ==
    ASSUME EInv, NEW t \in Tasks, Remove(t)
    PROVE  EInv' /\ cell[t] \in Linked /\ Linked' = Linked \ {cell[t]} /\ UNCHANGED addr
<1> DEFINE c == cell[t]
<1>0. lock = t /\ pc[t] = "remove"
    BY HasLock DEF Inside, Remove
<1>1. Linked = owned \cup {c} /\ End = None
    BY <1>0, LinkedBy DEF EInv, Inside
<1>2. c \in Linked /\ Lookup(addr[c]) = c /\ c \in Cells /\ c \notin owned /\ c \in allocated
    BY <1>0, <1>1, Found DEF EInv, Types, Held, Holding
<1>3. /\ IF c = head
         THEN /\ head' = next[c]
              /\ UNCHANGED <<next, prev>>
         ELSE /\ next' = [next EXCEPT ![prev[c]] = next[c]]
              /\ prev' = IF next[c] = None THEN prev
                         ELSE [prev EXCEPT ![next[c]] = prev[c]]
              /\ UNCHANGED head
      /\ lock' = None
      /\ cell' = [cell EXCEPT ![t] = c]
      /\ pc' = [pc EXCEPT ![t] = "free"]
      /\ UNCHANGED <<addr, allocated, owned, request>>
    BY <1>2 DEF Remove
<1>4. cell' = cell
    BY <1>3 DEF EInv, Types
<1>5. /\ \A u \in Tasks : u # t => pc[u] \notin Inside /\ pc'[u] = pc[u]
      /\ pc'[t] = "free" /\ Locked' /\ Linked' = owned' /\ End' = None
    BY <1>0, <1>3, After DEF Inside
<1>6. Linked' = Linked \ {c}
    BY <1>1, <1>2, <1>3, <1>5
<1>7. Held'
    BY <1>0, <1>3, <1>4, <1>5 DEF EInv, Held, Holding, Inside
<1>8. Numbered'
    BY <1>3, <1>5, <1>6 DEF EInv, Numbered, Inside
<1>9a. PICK n \in Nat : \E s \in [1 .. n -> Cells] : IsList(n, s)
    BY DEF EInv, Listing
<1>9b. PICK s \in [1 .. n -> Cells] : IsList(n, s)
    BY <1>9a
<1>9. PICK p \in 1 .. n : s[p] = c
    BY <1>2, <1>9b DEF IsList
<1>10. /\ \A i, j \in 1 .. n : s[i] = s[j] => i = j
       /\ n # 0 /\ head = s[1]
       /\ \A i \in 1 .. n : next[s[i]] = IF i = n THEN None ELSE s[i + 1]
       /\ \A i \in 2 .. n : prev[s[i]] = s[i - 1]
       /\ \A i \in 1 .. n : s[i] \in Cells /\ s[i] \in Linked /\ s[i] # None
    BY <1>1, <1>9, <1>9b, Sizes DEF IsList
<1>11. c = head <=> p = 1
    BY <1>9, <1>10
<1>12. next[c] = IF p = n THEN None ELSE s[p + 1]
    BY <1>9, <1>10
<1>13. p # 1 => prev[c] = s[p - 1] /\ p - 1 \in 1 .. n /\ prev[c] \in Cells
    <2>1. p # 1 => p \in 2 .. n /\ p - 1 \in 1 .. n
        OBVIOUS
    <2> QED BY <1>9, <1>10, <2>1
<1>14. p # n => p + 1 \in 1 .. n /\ s[p + 1] \in Cells /\ s[p + 1] # None
    <2>1. p # n => p + 1 \in 1 .. n
        OBVIOUS
    <2> QED BY <1>10, <2>1
<1>15. next \in [Cells -> Ptr] /\ prev \in [Cells -> Ptr]
    BY DEF EInv, Types
\* What each cell points to afterwards.
<1>16. \A d \in Cells : next'[d] = IF p # 1 /\ d = prev[c] THEN next[c] ELSE next[d]
    BY <1>3, <1>11, <1>13, <1>15
<1>17. \A d \in Cells : prev'[d] = IF p # 1 /\ p # n /\ d = s[p + 1] THEN prev[c] ELSE prev[d]
    BY <1>3, <1>11, <1>12, <1>13, <1>14, <1>15
<1>18. next' \in [Cells -> Ptr] /\ prev' \in [Cells -> Ptr]
    <2>1. next[c] \in Ptr /\ prev[c] \in Ptr
        BY <1>2, <1>15
    <2> QED BY <1>3, <1>15, <2>1
<1>19. head' = (IF p = 1 THEN next[c] ELSE head)
    BY <1>3, <1>11
<1>20. Types'
    <2>1. head' \in Cells \cup {None}
        BY <1>10, <1>12, <1>14, <1>19
    <2> QED BY <1>3, <1>4, <1>18, <2>1 DEF EInv, Types, Inside
<1>21. Alone'
    <2>1. \A u \in Tasks : pc'[u] # "clear"
        BY <1>5 DEF Inside
    <2> QED BY <2>1 DEF Alone
<1>22. Listing'
    <2>a. \E r : r = [i \in 1 .. n - 1 |-> IF i < p THEN s[i] ELSE s[i + 1]]
        OBVIOUS
    <2>b. PICK r : r = [i \in 1 .. n - 1 |-> IF i < p THEN s[i] ELSE s[i + 1]]
        BY <2>a
    <2>1. n - 1 \in Nat /\ \A i \in 1 .. n - 1 : i \in 1 .. n /\ i + 1 \in 1 .. n
        BY <1>10
    <2>2. \A i \in 1 .. n - 1 :
             /\ i < p => r[i] = s[i]
             /\ ~(i < p) => r[i] = s[i + 1]
             /\ r[i] \in Cells
        BY <1>10, <2>b, <2>1
    <2>3. r \in [1 .. n - 1 -> Cells]
        BY <2>b, <2>2
    <2>4. \A i, j \in 1 .. n - 1 : r[i] = r[j] => i = j
        <3> SUFFICES ASSUME NEW i \in 1 .. n - 1, NEW j \in 1 .. n - 1, r[i] = r[j]
                     PROVE  i = j
            OBVIOUS
        <3>1. PICK k \in 1 .. n : r[i] = s[k] /\ k = IF i < p THEN i ELSE i + 1
            BY <2>1, <2>2
        <3>2. PICK l \in 1 .. n : r[j] = s[l] /\ l = IF j < p THEN j ELSE j + 1
            BY <2>1, <2>2
        <3>3. k = l
            BY <1>10, <3>1, <3>2
        <3> QED BY <3>1, <3>2, <3>3
    <2>5. head' = IF n - 1 = 0 THEN None ELSE r[1]
        <3>1. CASE n = 1
            BY <1>12, <1>19, <3>1
        <3>2. CASE n # 1
            <4>1. 1 \in 1 .. n - 1
                BY <3>2
            <4>2. r[1] = IF p = 1 THEN s[2] ELSE s[1]
                BY <2>2, <4>1
            <4> QED BY <1>10, <1>12, <1>19, <3>2, <4>2
        <3> QED BY <3>1, <3>2
    <2>6. \A i \in 1 .. n - 1 : next'[r[i]] = IF i = n - 1 THEN None ELSE r[i + 1]
        <3> SUFFICES ASSUME NEW i \in 1 .. n - 1
                     PROVE  next'[r[i]] = IF i = n - 1 THEN None ELSE r[i + 1]
            OBVIOUS
        <3>0. i # n - 1 => i + 1 \in 1 .. n - 1
            OBVIOUS
        <3>1. CASE i < p - 1
            <4>1. r[i] = s[i] /\ r[i + 1] = s[i + 1] /\ i # n - 1
                BY <2>2, <3>0, <3>1
            <4>2. p # 1 /\ s[i] # prev[c]
                BY <1>10, <1>13, <2>1, <3>1
            <4>3. next'[s[i]] = next[s[i]]
                BY <1>10, <1>16, <2>1, <4>2
            <4> QED BY <1>10, <2>1, <4>1, <4>3
        <3>2. CASE i = p - 1
            <4>1. r[i] = s[i] /\ p # 1 /\ s[i] = prev[c]
                BY <1>13, <2>2, <3>2
            <4>2. next'[s[i]] = next[c]
                BY <1>10, <1>16, <2>1, <4>1
            <4>3. i # n - 1 => r[i + 1] = s[p + 1] /\ p # n
                BY <2>2, <3>0, <3>2
            <4>4. i = n - 1 => p = n
                BY <3>2
            <4> QED BY <1>12, <4>1, <4>2, <4>3, <4>4
        <3>3. CASE ~(i < p)
            <4>1. r[i] = s[i + 1] /\ i + 1 # p - 1
                BY <2>2, <3>3
            <4>2. p # 1 => s[i + 1] # prev[c]
                BY <1>10, <1>13, <2>1, <4>1
            <4>3. next'[s[i + 1]] = next[s[i + 1]]
                BY <1>10, <1>16, <2>1, <4>2
            <4>4. next[s[i + 1]] = IF i + 1 = n THEN None ELSE s[(i + 1) + 1]
                BY <1>10, <2>1
            <4>5. i # n - 1 => r[i + 1] = s[(i + 1) + 1] /\ i + 1 # n
                BY <2>2, <3>0, <3>3
            <4>6. i = n - 1 => i + 1 = n
                OBVIOUS
            <4> QED BY <4>1, <4>3, <4>4, <4>5, <4>6
        <3> QED BY <3>1, <3>2, <3>3
    <2>7. \A i \in 2 .. n - 1 : prev'[r[i]] = r[i - 1]
        <3> SUFFICES ASSUME NEW i \in 2 .. n - 1 PROVE prev'[r[i]] = r[i - 1]
            OBVIOUS
        <3>0. /\ i \in 1 .. n - 1 /\ i - 1 \in 1 .. n - 1 /\ i \in 2 .. n /\ i + 1 \in 2 .. n
              /\ (i + 1) - 1 = i /\ (i - 1) + 1 = i /\ i \in 1 .. n /\ i + 1 \in 1 .. n
            OBVIOUS
        <3>1. CASE i < p
            <4>1. r[i] = s[i] /\ r[i - 1] = s[i - 1] /\ i - 1 < p
                BY <2>2, <3>0, <3>1
            <4>2. p # n => s[i] # s[p + 1]
                BY <1>10, <1>14, <3>0, <3>1
            <4>3. prev'[s[i]] = prev[s[i]]
                BY <1>10, <1>17, <3>0, <4>2
            <4> QED BY <1>10, <3>0, <4>1, <4>3
        <3>2. CASE i = p
            <4>1. r[i] = s[p + 1] /\ r[i - 1] = s[p - 1] /\ p # 1 /\ p # n
                BY <2>2, <3>0, <3>2
            <4>2. prev'[s[p + 1]] = prev[c]
                BY <1>14, <1>17, <4>1
            <4> QED BY <1>13, <4>1, <4>2
        <3>3. CASE i > p
            <4>1. r[i] = s[i + 1] /\ r[i - 1] = s[i] /\ ~(i - 1 < p)
                BY <2>2, <3>0, <3>3
            <4>2. p # n => s[i + 1] # s[p + 1]
                BY <1>10, <1>14, <3>0, <3>3
            <4>3. prev'[s[i + 1]] = prev[s[i + 1]]
                BY <1>10, <1>17, <3>0, <4>2
            <4>4. prev[s[i + 1]] = s[(i + 1) - 1]
                BY <1>10, <3>0
            <4> QED BY <3>0, <4>1, <4>3, <4>4
        <3> QED BY <3>1, <3>2, <3>3
    <2>8. \A d \in Cells : d \in Linked' <=> \E i \in 1 .. n - 1 : r[i] = d
        <3>1. ASSUME NEW d \in Cells, d \in Linked' PROVE \E i \in 1 .. n - 1 : r[i] = d
            <4>1. PICK k \in 1 .. n : s[k] = d
                BY <1>6, <1>9b, <3>1 DEF IsList
            <4>2. k # p
                BY <1>6, <1>9, <3>1, <4>1
            <4>3. CASE k < p
                <5>1. k \in 1 .. n - 1 /\ r[k] = d
                    BY <2>2, <4>1, <4>3
                <5> QED BY <5>1
            <4>4. CASE k > p
                <5>1. k - 1 \in 1 .. n - 1 /\ ~(k - 1 < p) /\ (k - 1) + 1 = k
                    BY <4>4
                <5>2. r[k - 1] = d
                    BY <2>2, <4>1, <5>1
                <5> QED BY <5>1, <5>2
            <4> QED BY <4>2, <4>3, <4>4
        <3>2. ASSUME NEW i \in 1 .. n - 1 PROVE r[i] \in Linked'
            <4>1. PICK k \in 1 .. n : r[i] = s[k] /\ k # p
                BY <2>1, <2>2
            <4>2. s[k] # c
                BY <1>9, <1>10, <4>1
            <4> QED BY <1>6, <1>10, <4>1, <4>2
        <3> QED BY <3>1, <3>2
    <2>9. IsList(n - 1, r)'
        BY <1>5, <2>4, <2>5, <2>6, <2>7, <2>8 DEF IsList
    <2> QED BY <2>1, <2>3, <2>9 DEF Listing
<1> QED BY <1>2, <1>3, <1>5, <1>6, <1>7, <1>8, <1>20, <1>21, <1>22 DEF EInv

\* Every step changes the set of linked cells by one, or not at all, and none
\* changes the address of a linked cell.
LEMMA ENext ==
    ASSUME EInv, [Next]_vars
    PROVE  /\ EInv'
           /\ \A c \in Linked : addr'[c] = addr[c]
           /\ \/ Linked' = Linked
              \/ \E c \in Cells \ Linked : Linked' = Linked \cup {c} /\ UNCHANGED addr
              \/ \E c \in Linked : Linked' = Linked \ {c} /\ UNCHANGED addr
<1>1. CASE UNCHANGED vars
    <2>1. Linked' = Linked /\ End' = End
        BY <1>1 DEF vars, list, task, Linked, End, Unfinished
    <2>2. Listing'
        BY <1>1, <2>1, ListKept DEF vars, list
    <2>3. Types' /\ Locked' /\ Held' /\ Alone'
        BY <1>1 DEF vars, list, task, EInv, Types, Locked, Held, Alone
    <2>4. Numbered'
        BY <1>1, <2>1 DEF vars, list, task, EInv, Numbered
    <2> QED BY <1>1, <2>1, <2>2, <2>3, <2>4 DEF vars, list, EInv
<1>2. ASSUME NEW t \in Tasks, NEW a \in Addresses \cup {RL_ADDR_ANY}, Create(t, a)
      PROVE  EInv' /\ Linked' = Linked /\ UNCHANGED addr
    BY <1>2, CreateKeeps
<1>3. ASSUME NEW t \in Tasks, CreateFails(t)
      PROVE  EInv' /\ Linked' = Linked /\ UNCHANGED addr
    BY <1>3, FailsKeeps
<1>4. ASSUME NEW t \in Tasks, NEW c \in Cells, NEW old \in Ptr, Allocate(t, c, old)
      PROVE  EInv' /\ Linked' = Linked /\ \A d \in Linked : addr'[d] = addr[d]
    BY <1>4, AllocateKeeps
<1>5. ASSUME NEW t \in Tasks, AddToFront(t) \/ AddToEmpty(t)
      PROVE  /\ EInv' /\ UNCHANGED addr
             /\ \E c \in Cells \ Linked : Linked' = Linked \cup {c}
    <2>1. /\ EInv' /\ UNCHANGED addr
          /\ Linked' = Linked \cup {cell[t]} /\ cell[t] \notin Linked
        BY <1>5, FrontKeeps, EmptyKeeps
    <2>2. cell[t] \in Cells
        BY <1>5 DEF AddToFront, AddToEmpty, EInv, Types, Held, Holding
    <2> QED BY <2>1, <2>2
<1>6. ASSUME NEW t \in Tasks, ClearPointers(t)
      PROVE  EInv' /\ Linked' = Linked /\ UNCHANGED addr
    BY <1>6, ClearKeeps
<1>7. ASSUME NEW t \in Tasks, CreateReturns(t)
      PROVE  EInv' /\ Linked' = Linked /\ UNCHANGED addr
    BY <1>7, ReturnsKeeps
<1>8. ASSUME NEW t \in Tasks, NEW c \in Cells, Destroy(t, c)
      PROVE  EInv' /\ Linked' = Linked /\ UNCHANGED addr
    BY <1>8, DestroyKeeps
<1>9. ASSUME NEW t \in Tasks, Remove(t)
      PROVE  EInv' /\ UNCHANGED addr /\ \E c \in Linked : Linked' = Linked \ {c}
    BY <1>9, RemoveKeeps
<1>10. ASSUME NEW t \in Tasks, Free(t)
       PROVE  EInv' /\ Linked' = Linked /\ \A d \in Linked : addr'[d] = addr[d]
    BY <1>10, FreeKeeps
<1> QED
    BY <1>1, <1>2, <1>3, <1>4, <1>5, <1>6, <1>7, <1>8, <1>9, <1>10 DEF Next, Ptr

LEMMA Inductive == Spec => []EInv
<1>1. EInv /\ [Next]_vars => EInv'
    BY ENext
<1> QED BY EInit, <1>1, PTL DEF Spec

-----------------------------------------------------------------------------
\* What follows, in every state a handler may interrupt.

\* Each endpoint that an application has is the one the search for its address ends
\* at, also between any two stores of another task that creates or destroys one:
\* rpmsg_lite_get_endpoint_from_addr needs no lock.
THEOREM NeverHidden == Spec => []EndpointFound
<1>1. EInv => EndpointFound
    BY Found DEF EndpointFound, Linked
<1> QED BY Inductive, <1>1, PTL

\* No walk of the handler reaches memory that was freed, with one exception: a walk
\* for another address than that of a first node whose pointers are not cleared.
\* env_free_memory comes after remove_from_list, no node still points to the one taken
\* out, and the handler that finds the first node reads none of its pointers.
THEOREM NeverStale == Spec => []NeverFreed
<1>1. EInv => NeverFreed
    <2> SUFFICES ASSUME EInv, NEW a \in Addresses, ~(Unfinished /\ a # addr[head])
                 PROVE  Touched(a) \subseteq allocated \cup {None}
        BY DEF NeverFreed
    <2>1. Linked \subseteq allocated
        BY LinkedCells DEF EInv
    <2>2. CASE \E c \in Linked : addr[c] = a
        BY <2>1, <2>2, Found
    <2>3. CASE ~ \E c \in Linked : addr[c] = a
        <3>1. ~Unfinished
            BY <2>3, OneNode
        <3> QED BY <2>1, <2>3, <3>1, Missed, EndIs
    <2> QED BY <2>2, <2>3
<1> QED BY Inductive, <1>1, PTL

\* remove_from_list may rely on prev: whatever was created and destroyed before, each
\* node is the prev of its next when the next call takes the lock.
THEOREM LinkedBothWays == Spec => []ReadsBackwards
<1>1. EInv => ReadsBackwards
    <2> SUFFICES ASSUME EInv, lock = None, NEW c \in Listed, next[c] # None
                 PROVE  prev[next[c]] = c
        BY DEF ReadsBackwards
    <2>1. c \in Linked /\ End = None /\ c \in Cells
        BY ListedIs, LinkedIdle, LinkedCells DEF EInv
    <2>2. PICK n \in Nat : \E s \in [1 .. n -> Cells] : IsList(n, s)
        BY DEF EInv, Listing
    <2>3. PICK s \in [1 .. n -> Cells] : IsList(n, s)
        BY <2>2
    <2>4. PICK i \in 1 .. n : s[i] = c
        BY <2>1, <2>3 DEF IsList
    <2>5. next[c] = s[i + 1] /\ i # n
        BY <2>1, <2>3, <2>4 DEF IsList
    <2>6. i + 1 \in 2 .. n /\ (i + 1) - 1 = i
        BY <2>5
    <2>7. prev[s[i + 1]] = s[(i + 1) - 1]
        BY <2>3, <2>6 DEF IsList
    <2> QED BY <2>4, <2>5, <2>6, <2>7
<1> QED BY Inductive, <1>1, PTL

\* The calls change the set of addresses the handler can see in one store each, one
\* address at a time, and never give an address out twice.
THEOREM RefinesTable == Spec => ImplementsTable
<1> DEFINE table == {addr[c] : c \in Listed}
           used == {addr[c] : c \in Linked}
<1>1. EInv => table = used
    BY ListedIs
<1>2. (EInv => table = used)'
    BY <1>1, PTL
<1>3. Init => Table!Init
    <2> SUFFICES ASSUME Init PROVE Table!Init
        OBVIOUS
    <2>1. Linked = {} /\ EInv
        BY EInit DEF Init, Linked
    <2>2. Listed = {}
        BY <2>1, ListedIs
    <2> QED BY <2>2 DEF Table!Init
<1>4. EInv /\ [Next]_vars => [Table!Next]_table
    <2> SUFFICES ASSUME EInv, [Next]_vars
                 PROVE  Table!Next \/ table' = table
        OBVIOUS
    <2>1. /\ EInv'
          /\ \A c \in Linked : addr'[c] = addr[c]
          /\ \/ Linked' = Linked
             \/ \E c \in Cells \ Linked : Linked' = Linked \cup {c} /\ UNCHANGED addr
             \/ \E c \in Linked : Linked' = Linked \ {c} /\ UNCHANGED addr
        BY ENext
    <2>2. table = used /\ table' = used'
        BY <1>1, <1>2, <2>1
    <2>3. CASE Linked' = Linked
        <3>1. used' = used
            BY <2>1, <2>3
        <3> QED BY <2>2, <3>1
    <2>4. ASSUME NEW c \in Cells \ Linked, Linked' = Linked \cup {c}, UNCHANGED addr
          PROVE  Table!Next
        <3>1. used' = used \cup {addr[c]}
            BY <2>4
        <3>2. addr[c] \in Addresses /\ addr[c] \notin used
            BY <2>1, <2>4 DEF EInv, Numbered
        <3>3. Table!Create(addr[c])
            BY <2>2, <3>1, <3>2 DEF Table!Create
        <3> QED BY <3>2, <3>3 DEF Table!Next, Table!Create, Table!Destroy
    <2>5. ASSUME NEW c \in Linked, Linked' = Linked \ {c}, UNCHANGED addr
          PROVE  Table!Next
        <3>1. used' = used \ {addr[c]}
            BY <2>5 DEF EInv, Numbered
        <3>2. addr[c] \in Addresses /\ addr[c] \in used
            BY <2>5 DEF EInv, Numbered
        <3>3. Table!Destroy(addr[c])
            BY <2>2, <3>1, <3>2 DEF Table!Destroy
        <3> QED BY <3>2, <3>3 DEF Table!Next, Table!Create, Table!Destroy
    <2> QED BY <2>1, <2>3, <2>4, <2>5
<1> QED BY Inductive, <1>3, <1>4, PTL DEF Spec, ImplementsTable, Table!Spec

=============================================================================
