------------------------ MODULE SerialManager_proofs ------------------------
(***************************************************************************)
(* For every number of tasks and write handles: the serial manager's       *)
(* queues stay whole, every accepted write has exactly one place, the port *)
(* and the queue never get out of step and a reported success was sent.    *)
(* The rule: nobody cancels writes, whatever form the lists have; or       *)
(* cancels are guarded and the lists are built with GENERIC_LIST_LIGHT 0.  *)
(***************************************************************************)
EXTENDS SerialManager, FiniteSetTheorems, WellFoundedInduction, TLAPS

-----------------------------------------------------------------------------
Rule == Cancels = "none" \/ (Cancels = "guarded" /\ ~Light)

\* The sequence s of the elements of a queue, head first: what the links, the
\* owners and the size of the list say when nothing is wrong with it.
IsQueue(l, q, s) ==
    LET n == l.size[q]
    IN  /\ \A i, j \in 1 .. n : s[i] = s[j] => i = j
        /\ \A h \in Handle : l.owner[h] = q <=> \E i \in 1 .. n : s[i] = h
        /\ l.first[q] = IF n = 0 THEN None ELSE s[1]
        /\ l.last[q]  = IF n = 0 THEN None ELSE s[n]
        /\ \A i \in 1 .. n : l.next[s[i]] = IF i = n THEN None ELSE s[i + 1]
        /\ ~Light => \A i \in 1 .. n : l.prev[s[i]] = IF i = 1 THEN None ELSE s[i - 1]

Linked(l) == \A q \in Queue : \E s \in [1 .. l.size[q] -> Handle] : IsQueue(l, q, s)

ListType == [first : [Queue -> Ptr], last : [Queue -> Ptr], size : [Queue -> Nat],
             next : [Handle -> Ptr], prev : [Handle -> Ptr],
             owner : [Handle -> Queue \cup {None}]]

Steps == {"idle", "written", "poll", "start", "port", "send", "clear", "abort",
          "callback", "remove", "complete", "finish", "notify", "canceled"}

\* The steps "refused", "assert" and "abort idle" are never reached.
TypeInv ==
    /\ lists \in ListType
    /\ busy \in [Handle -> BOOLEAN]
    /\ soFar \in [Handle -> 0 .. Length] /\ sent \in [Handle -> 0 .. Length]
    /\ status \in [Handle -> {"none", "success", "canceled"}]
    /\ port \in [busy : BOOLEAN, buffer : Ptr, count : 0 .. Length - 1, txlvl : BOOLEAN]
    /\ events \in Int /\ sem \in Int
    /\ task \in {"wait", "next", "take", "report", "callback", "drained"}
    /\ taken \in Ptr
    /\ pc \in [Caller -> Steps] /\ obj \in [Caller -> Ptr]
    /\ head \in [Caller -> Ptr] /\ tx \in [Caller -> Ptr]
    /\ back \in [Caller -> {"idle", "written", "finish", "canceled"}]

Starting == {"start", "port", "send"}

\* Where a call comes from and which write it has in its hands.
CallIs(c) ==
    /\ pc[c] \in {"idle", "poll", "clear", "abort", "complete"} => back[c] = "idle"
    /\ pc[c] = "written" => back[c] = "written"
    /\ pc[c] \in Starting => back[c] # "idle"
    /\ pc[c] \in {"callback", "remove", "canceled"} => back[c] = "canceled"
    /\ pc[c] = "finish" => back[c] = "finish"
    /\ pc[c] = "notify" => back[c] \in {"idle", "finish"}
    /\ pc[c] = "send" => back[c] # "canceled"
    /\ pc[c] = "poll" => obj[c] \in Blocking
    /\ pc[c] \in {"clear", "abort", "callback", "remove"} =>
           obj[c] # None /\ obj[c] = lists.first["running"] /\ obj[c] \notin Blocking
    /\ pc[c] = "complete" =>
           obj[c] # None /\ obj[c] \notin Blocking /\ lists.owner[obj[c]] = None
    /\ pc[c] \in {"port", "send"} =>
           head[c] # None /\ head[c] = lists.first["running"]
    /\ pc[c] = "remove" => tx[c] = obj[c]
    /\ IF pc[c] \in {"remove", "finish"} \/ (pc[c] \in Starting /\ back[c] = "finish")
       THEN tx[c] # None /\ tx[c] \notin Blocking
       ELSE tx[c] = None
    /\ c = "manager" => /\ pc[c] \in {"idle", "written"} \cup Starting
                        /\ back[c] \in {"idle", "written"}
                        /\ pc[c] = "written" \/ pc[c] \in Starting => obj[c] \notin Blocking

\* One write starts the port at a time, and it found the queue empty.
Starter(c) == pc[c] \in Starting /\ back[c] = "written"
OneStarter ==
    /\ \A c, d \in Caller : Starter(c) /\ Starter(d) => c = d
    /\ \A c \in Caller : Starter(c) => lists.first["running"] # None

\* A cancel has the processor for itself.
Alone ==
    \A c \in Caller : Cancelling(c) =>
        /\ Cancels = "guarded" /\ task = "wait"
        /\ \A d \in Caller \ {c} : pc[d] \in {"idle", "poll"}

\* The port is down from the abort, or the write, to the call that starts it.
Down     == \E c \in Caller : \/ pc[c] \in {"callback", "remove"}
                              \/ pc[c] \in Starting /\ back[c] # "canceled"
Aborting == \E c \in Caller : pc[c] = "abort"
PortIs ==
    /\ Down => ~port.busy /\ port.buffer = None
    /\ Aborting => ~port.busy /\ port.buffer = lists.first["running"]
    /\ ~Down /\ ~Aborting => /\ port.buffer = lists.first["running"]
                             /\ port.busy <=> port.buffer # None

\* The bytes that went out are counted by the port for the write it sends, and
\* none went out of the writes behind it.
Aborted(h) == \E c \in Caller : pc[c] \in {"callback", "remove"} /\ obj[c] = h
SentIs ==
    /\ \A h \in Handle : lists.owner[h] = "running" =>
           /\ soFar[h] = 0
           /\ ~Aborted(h) => sent[h] = IF port.buffer = h THEN port.count ELSE 0
    /\ \A h \in Blocking : soFar[h] = Length => sent[h] = Length
    /\ \A h \in Handle :
           lists.owner[h] = "completed" /\ status[h] = "success" => sent[h] = Length

\* The manager's task takes the write it has looked at.
TakenIs ==
    /\ task = "take" => taken # None /\ taken = lists.first["completed"]
    /\ task = "report" => taken # None

\* Placed, as implications.
PlaceIs(h) ==
    /\ busy[h] => (lists.owner[h] # None <=> ~InHand(h))
    /\ ~busy[h] => lists.owner[h] = None /\ ~InHand(h)

IInv ==
    /\ TypeInv /\ Linked(lists)
    /\ \A c \in Caller : CallIs(c)
    /\ OneStarter /\ Alone /\ PortIs /\ SentIs /\ TakenIs
    /\ \A h \in Handle : PlaceIs(h)

-----------------------------------------------------------------------------
LEMMA QueueIs == /\ Queue = {"running", "completed"} /\ "running" # "completed"
                 /\ None \notin Queue /\ None \notin Handle
BY SerialAssumption DEF Queue

LEMMA ListFields ==
    ASSUME NEW l \in ListType
    PROVE  /\ l.first \in [Queue -> Ptr] /\ l.last \in [Queue -> Ptr]
           /\ l.size \in [Queue -> Nat]
           /\ l.next \in [Handle -> Ptr] /\ l.prev \in [Handle -> Ptr]
           /\ l.owner \in [Handle -> Queue \cup {None}]
BY DEF ListType

\* The head of a queue tells whether it is empty, and is one of its elements.
LEMMA HeadOf ==
    ASSUME NEW l \in ListType, Linked(l), NEW q \in Queue
    PROVE  /\ l.first[q] = None <=> l.size[q] = 0
           /\ l.first[q] # None => l.first[q] \in Handle /\ l.owner[l.first[q]] = q
           /\ l.size[q] = 0 => l.last[q] = None
           /\ l.size[q] # 0 => l.last[q] \in Handle /\ l.owner[l.last[q]] = q
<1>1. PICK s \in [1 .. l.size[q] -> Handle] : IsQueue(l, q, s)
    BY DEF Linked
<1>2. l.size[q] \in Nat
    BY ListFields
<1>3. CASE l.size[q] = 0
    BY <1>1, <1>3, QueueIs DEF IsQueue
<1>4. CASE l.size[q] # 0
    <2>1. 1 \in 1 .. l.size[q] /\ l.size[q] \in 1 .. l.size[q]
        BY <1>2, <1>4
    <2> QED BY <1>1, <1>4, <2>1, QueueIs DEF IsQueue
<1> QED BY <1>3, <1>4

\* What LIST_AddTail does: the element is owned by the queue, and is its head
\* when the queue was empty.
LEMMA AddTailIs ==
    ASSUME NEW l \in ListType, Linked(l), NEW q \in Queue,
           NEW e \in Handle, l.owner[e] = None
    PROVE  /\ AddTail(l, q, e) \in ListType
           /\ Linked(AddTail(l, q, e))
           /\ AddTail(l, q, e).owner = [l.owner EXCEPT ![e] = q]
           /\ AddTail(l, q, e).first =
                  [l.first EXCEPT ![q] = IF l.first[q] = None THEN e ELSE @]
<1> DEFINE m == AddTail(l, q, e)
           n == l.size[q]
<1>1. /\ l.first \in [Queue -> Ptr] /\ l.last \in [Queue -> Ptr]
      /\ l.size \in [Queue -> Nat] /\ n \in Nat
      /\ l.next \in [Handle -> Ptr] /\ l.prev \in [Handle -> Ptr]
      /\ l.owner \in [Handle -> Queue \cup {None}]
      /\ e \in Ptr
    BY ListFields DEF Ptr
<1>2. /\ m.first = [l.first EXCEPT ![q] = IF n = 0 THEN e ELSE @]
      /\ m.next = [h \in Handle |-> IF h = e THEN None
                                    ELSE IF n # 0 /\ h = l.last[q] THEN e ELSE l.next[h]]
      /\ m.prev = [l.prev EXCEPT ![e] = IF Light THEN @ ELSE l.last[q]]
      /\ m.owner = [l.owner EXCEPT ![e] = q]
      /\ m.last = [l.last EXCEPT ![q] = e]
      /\ m.size = [l.size EXCEPT ![q] = @ + 1]
    BY <1>1 DEF AddTail, ListType
<1>3. m \in ListType
    <2>1. /\ m.first \in [Queue -> Ptr] /\ m.last \in [Queue -> Ptr]
          /\ m.size \in [Queue -> Nat] /\ m.prev \in [Handle -> Ptr]
          /\ m.owner \in [Handle -> Queue \cup {None}]
        BY <1>1, <1>2
    <2>2. m.next \in [Handle -> Ptr]
        BY <1>1, <1>2 DEF Ptr
    <2>3. m = [l EXCEPT !.first = m.first, !.next = m.next, !.prev = m.prev,
                        !.owner = m.owner, !.last = m.last, !.size = m.size]
        BY <1>2 DEF AddTail
    <2> HIDE DEF m
    <2> QED BY <2>1, <2>2, <2>3 DEF ListType
<1> HIDE DEF m, n
<1>4. PICK s \in [1 .. n -> Handle] : IsQueue(l, q, s)
    BY DEF Linked, n
<1>5. /\ \A i, j \in 1 .. n : s[i] = s[j] => i = j
      /\ \A h \in Handle : l.owner[h] = q <=> \E i \in 1 .. n : s[i] = h
      /\ l.first[q] = (IF n = 0 THEN None ELSE s[1])
      /\ l.last[q] = (IF n = 0 THEN None ELSE s[n])
      /\ \A i \in 1 .. n : l.next[s[i]] = IF i = n THEN None ELSE s[i + 1]
      /\ ~Light => \A i \in 1 .. n : l.prev[s[i]] = IF i = 1 THEN None ELSE s[i - 1]
    BY <1>4 DEF IsQueue, n
<1>6. \A i \in 1 .. n : s[i] \in Handle /\ s[i] # e
    BY <1>5, QueueIs
<1> DEFINE t == [i \in 1 .. n + 1 |-> IF i = n + 1 THEN e ELSE s[i]]
<1>7. t \in [1 .. m.size[q] -> Handle] /\ m.size[q] = n + 1
    BY <1>1, <1>2, <1>6 DEF n
<1>8. IsQueue(m, q, t)
    <2>1. /\ t[n + 1] = e /\ \A i \in 1 .. n : t[i] = s[i]
          /\ 1 .. n + 1 = (1 .. n) \cup {n + 1} /\ n + 1 \notin 1 .. n
        BY <1>1
    <2> HIDE DEF t
    <2>2. \A i, j \in 1 .. n + 1 : t[i] = t[j] => i = j
        <3> SUFFICES ASSUME NEW i \in 1 .. n + 1, NEW j \in 1 .. n + 1, t[i] = t[j]
                     PROVE  i = j
            OBVIOUS
        <3>1. (i \in 1 .. n /\ j \in 1 .. n) \/ i = n + 1 \/ j = n + 1
            BY <2>1
        <3>2. i \in 1 .. n => t[i] # e /\ t[i] = s[i]
            BY <1>6, <2>1
        <3>3. j \in 1 .. n => t[j] # e /\ t[j] = s[j]
            BY <1>6, <2>1
        <3> QED BY <1>5, <2>1, <3>1, <3>2, <3>3
    <2>3. \A h \in Handle : m.owner[h] = q <=> \E i \in 1 .. n + 1 : t[i] = h
        <3> SUFFICES ASSUME NEW h \in Handle
                     PROVE  m.owner[h] = q <=> \E i \in 1 .. n + 1 : t[i] = h
            OBVIOUS
        <3>1. CASE h = e
            BY <1>1, <1>2, <2>1, <3>1
        <3>2. CASE h # e
            <4>1. m.owner[h] = q <=> \E i \in 1 .. n : s[i] = h
                BY <1>1, <1>2, <1>5, <3>2
            <4>2. (\E i \in 1 .. n + 1 : t[i] = h) <=> \E i \in 1 .. n : s[i] = h
                BY <2>1, <3>2
            <4> QED BY <4>1, <4>2
        <3> QED BY <3>1, <3>2
    <2>4. m.first[q] = t[1] /\ m.last[q] = t[n + 1]
        <3>1. n # 0 => 1 \in 1 .. n
            BY <1>1
        <3> QED BY <1>1, <1>2, <1>5, <2>1, <3>1
    <2>5. \A i \in 1 .. n + 1 : m.next[t[i]] = IF i = n + 1 THEN None ELSE t[i + 1]
        <3> SUFFICES ASSUME NEW i \in 1 .. n + 1
                     PROVE  m.next[t[i]] = IF i = n + 1 THEN None ELSE t[i + 1]
            OBVIOUS
        <3>1. CASE i = n + 1
            BY <1>2, <2>1, <3>1
        <3>2. CASE i \in 1 .. n /\ i # n
            <4>1. i + 1 \in 1 .. n /\ n \in 1 .. n /\ n # 0 /\ i # n + 1
                BY <1>1, <3>2
            <4>2. s[i] # l.last[q] /\ t[i] = s[i] /\ t[i + 1] = s[i + 1] /\ s[i] # e /\ s[i] \in Handle
                BY <1>5, <1>6, <2>1, <3>2, <4>1
            <4> QED BY <1>2, <1>5, <3>2, <4>1, <4>2
        <3>3. CASE i \in 1 .. n /\ i = n
            <4>1. s[i] = l.last[q] /\ t[i] = s[i] /\ s[i] # e /\ s[i] \in Handle /\ n # 0 /\ i # n + 1
                BY <1>1, <1>5, <1>6, <2>1, <3>3
            <4> QED BY <1>2, <2>1, <3>3, <4>1
        <3> QED BY <2>1, <3>1, <3>2, <3>3
    <2>6. ~Light => \A i \in 1 .. n + 1 : m.prev[t[i]] = IF i = 1 THEN None ELSE t[i - 1]
        <3> SUFFICES ASSUME ~Light, NEW i \in 1 .. n + 1
                     PROVE  m.prev[t[i]] = IF i = 1 THEN None ELSE t[i - 1]
            OBVIOUS
        <3>1. CASE i = n + 1
            <4>1. n # 0 => i - 1 = n /\ n \in 1 .. n /\ i # 1
                BY <1>1, <3>1
            <4>2. n = 0 => i = 1
                BY <3>1
            <4> QED BY <1>1, <1>2, <1>5, <2>1, <3>1, <4>1, <4>2
        <3>2. CASE i \in 1 .. n
            <4>1. i # 1 => i - 1 \in 1 .. n
                BY <1>1, <3>2
            <4>2. t[i] = s[i] /\ s[i] # e /\ s[i] \in Handle /\ m.prev[s[i]] = l.prev[s[i]]
                BY <1>1, <1>2, <1>6, <2>1, <3>2
            <4> QED BY <1>5, <2>1, <3>2, <4>1, <4>2
        <3> QED BY <2>1, <3>1, <3>2
    <2>7. m.size[q] = n + 1 /\ n + 1 # 0
        BY <1>1, <1>7
    <2> QED BY <2>2, <2>3, <2>4, <2>5, <2>6, <2>7 DEF IsQueue
<1> HIDE DEF t
<1>9. ASSUME NEW p \in Queue, p # q
      PROVE  \E r \in [1 .. m.size[p] -> Handle] : IsQueue(m, p, r)
    <2>1. PICK r \in [1 .. l.size[p] -> Handle] : IsQueue(l, p, r)
        BY DEF Linked
    <2>2. m.size[p] = l.size[p] /\ m.first[p] = l.first[p] /\ m.last[p] = l.last[p]
        BY <1>1, <1>2, <1>9
    <2>3. \A h \in Handle : m.owner[h] = p <=> l.owner[h] = p
        BY <1>1, <1>2, <1>9, QueueIs
    <2>4. \A i \in 1 .. l.size[p] : r[i] \in Handle /\ l.owner[r[i]] = p
        BY <2>1 DEF IsQueue
    <2>5. \A i \in 1 .. l.size[p] : r[i] # e /\ (n # 0 => r[i] # l.last[q])
        <3>1. n # 0 => l.last[q] \in Handle /\ l.owner[l.last[q]] = q
            BY HeadOf DEF n
        <3> QED BY <1>9, <2>4, <3>1, QueueIs
    <2>6. \A i \in 1 .. l.size[p] : m.next[r[i]] = l.next[r[i]] /\ m.prev[r[i]] = l.prev[r[i]]
        BY <1>1, <1>2, <2>4, <2>5
    <2>7. IsQueue(m, p, r)
        BY <2>1, <2>2, <2>3, <2>6 DEF IsQueue
    <2> QED BY <2>1, <2>2, <2>7
<1>10. Linked(m)
    BY <1>7, <1>8, <1>9 DEF Linked
<1>11. n = 0 <=> l.first[q] = None
    BY HeadOf DEF n
<1> QED BY <1>2, <1>3, <1>10, <1>11 DEF m

\* What LIST_RemoveHead does: the head is owned by nobody, and the other queue
\* keeps its head.
LEMMA RemoveHeadIs ==
    ASSUME NEW l \in ListType, Linked(l), NEW q \in Queue, l.first[q] # None
    PROVE  /\ RemoveHead(l, q) \in ListType
           /\ Linked(RemoveHead(l, q))
           /\ RemoveHead(l, q).owner = [l.owner EXCEPT ![l.first[q]] = None]
           /\ \A p \in Queue \ {q} : RemoveHead(l, q).first[p] = l.first[p]
<1> DEFINE m == RemoveHead(l, q)
           n == l.size[q]
           e == l.first[q]
<1>1. /\ l.first \in [Queue -> Ptr] /\ l.last \in [Queue -> Ptr]
      /\ l.size \in [Queue -> Nat] /\ n \in Nat /\ n # 0
      /\ l.next \in [Handle -> Ptr] /\ l.prev \in [Handle -> Ptr]
      /\ l.owner \in [Handle -> Queue \cup {None}]
      /\ e \in Handle /\ l.owner[e] = q
    BY ListFields, HeadOf DEF Ptr
<1>2. /\ m.first = [l.first EXCEPT ![q] = l.next[e]]
      /\ m.next = l.next
      /\ m.prev = [h \in Handle |-> IF ~Light /\ n # 1 /\ h = l.next[e] THEN None ELSE l.prev[h]]
      /\ m.owner = [l.owner EXCEPT ![e] = None]
      /\ m.last = [l.last EXCEPT ![q] = IF n = 1 THEN None ELSE @]
      /\ m.size = [l.size EXCEPT ![q] = @ - 1]
    BY <1>1 DEF RemoveHead, ListType
<1>3. m \in ListType
    <2>1. /\ m.first \in [Queue -> Ptr] /\ m.last \in [Queue -> Ptr]
          /\ m.size \in [Queue -> Nat] /\ m.next \in [Handle -> Ptr]
          /\ m.owner \in [Handle -> Queue \cup {None}]
        BY <1>1, <1>2 DEF Ptr
    <2>2. m.prev \in [Handle -> Ptr]
        BY <1>1, <1>2 DEF Ptr
    <2>3. m = [l EXCEPT !.first = m.first, !.last = m.last, !.prev = m.prev,
                        !.owner = m.owner, !.size = m.size]
        BY <1>1, <1>2 DEF RemoveHead
    <2> HIDE DEF m
    <2> QED BY <2>1, <2>2, <2>3 DEF ListType
<1> HIDE DEF m, n
<1>4. PICK s \in [1 .. n -> Handle] : IsQueue(l, q, s)
    BY DEF Linked, n
<1>5. /\ \A i, j \in 1 .. n : s[i] = s[j] => i = j
      /\ \A h \in Handle : l.owner[h] = q <=> \E i \in 1 .. n : s[i] = h
      /\ l.first[q] = (IF n = 0 THEN None ELSE s[1])
      /\ l.last[q] = (IF n = 0 THEN None ELSE s[n])
      /\ \A i \in 1 .. n : l.next[s[i]] = IF i = n THEN None ELSE s[i + 1]
      /\ ~Light => \A i \in 1 .. n : l.prev[s[i]] = IF i = 1 THEN None ELSE s[i - 1]
    BY <1>4 DEF IsQueue, n
<1>6. /\ \A i \in 1 .. n : s[i] \in Handle
      /\ 1 \in 1 .. n /\ s[1] = e
      /\ \A i \in 1 .. n - 1 : i + 1 \in 1 .. n /\ s[i + 1] # e
    BY <1>1, <1>5
<1> DEFINE t == [i \in 1 .. n - 1 |-> s[i + 1]]
<1>7. t \in [1 .. m.size[q] -> Handle] /\ m.size[q] = n - 1
    BY <1>1, <1>2, <1>6 DEF n
<1>8. IsQueue(m, q, t)
    <2>1. \A i \in 1 .. n - 1 : t[i] = s[i + 1]
        OBVIOUS
    <2> HIDE DEF t, e
    <2>2. \A i, j \in 1 .. n - 1 : t[i] = t[j] => i = j
        <3> SUFFICES ASSUME NEW i \in 1 .. n - 1, NEW j \in 1 .. n - 1, t[i] = t[j]
                     PROVE  i = j
            OBVIOUS
        <3>1. i + 1 = j + 1
            BY <1>5, <1>6, <2>1
        <3> QED BY <1>1, <3>1
    <2>3. \A h \in Handle : m.owner[h] = q <=> \E i \in 1 .. n - 1 : t[i] = h
        <3> SUFFICES ASSUME NEW h \in Handle
                     PROVE  m.owner[h] = q <=> \E i \in 1 .. n - 1 : t[i] = h
            OBVIOUS
        <3>1. CASE h = e
            BY <1>1, <1>2, <1>6, <2>1, <3>1, QueueIs
        <3>2. CASE h # e
            <4>1. m.owner[h] = q <=> \E i \in 1 .. n : s[i] = h
                BY <1>1, <1>2, <1>5, <3>2
            <4>2. ASSUME NEW i \in 1 .. n, s[i] = h
                  PROVE  i - 1 \in 1 .. n - 1 /\ t[i - 1] = h
                <5>1. i # 1
                    BY <1>6, <3>2, <4>2
                <5>2. i - 1 \in 1 .. n - 1 /\ (i - 1) + 1 = i
                    BY <1>1, <5>1
                <5> QED BY <2>1, <4>2, <5>2
            <4>3. ASSUME NEW i \in 1 .. n - 1, t[i] = h
                  PROVE  i + 1 \in 1 .. n /\ s[i + 1] = h
                BY <1>6, <2>1, <4>3
            <4> QED BY <4>1, <4>2, <4>3
        <3> QED BY <3>1, <3>2
    <2>4. /\ m.first[q] = IF n - 1 = 0 THEN None ELSE t[1]
          /\ m.last[q] = IF n - 1 = 0 THEN None ELSE t[n - 1]
        <3>1. n # 1 => 1 \in 1 .. n - 1 /\ n - 1 \in 1 .. n - 1 /\ (n - 1) + 1 = n
            BY <1>1
        <3> QED BY <1>1, <1>2, <1>5, <1>6, <2>1, <3>1
    <2>5. \A i \in 1 .. n - 1 : m.next[t[i]] = IF i = n - 1 THEN None ELSE t[i + 1]
        <3> SUFFICES ASSUME NEW i \in 1 .. n - 1
                     PROVE  m.next[t[i]] = IF i = n - 1 THEN None ELSE t[i + 1]
            OBVIOUS
        <3>1. i + 1 \in 1 .. n /\ (i = n - 1 <=> i + 1 = n)
            BY <1>1
        <3>2. i # n - 1 => i + 1 \in 1 .. n - 1
            BY <1>1
        <3> QED BY <1>2, <1>5, <2>1, <3>1, <3>2
    <2>6. ~Light => \A i \in 1 .. n - 1 : m.prev[t[i]] = IF i = 1 THEN None ELSE t[i - 1]
        <3> SUFFICES ASSUME ~Light, NEW i \in 1 .. n - 1
                     PROVE  m.prev[t[i]] = IF i = 1 THEN None ELSE t[i - 1]
            OBVIOUS
        <3>1. /\ i + 1 \in 1 .. n /\ n # 1 /\ t[i] = s[i + 1] /\ t[i] \in Handle
              /\ 2 \in 1 .. n /\ l.next[e] = s[2]
            BY <1>1, <1>5, <1>6, <2>1
        <3>2. CASE i = 1
            BY <1>2, <3>1, <3>2
        <3>3. CASE i # 1
            <4>1. i - 1 \in 1 .. n - 1 /\ (i - 1) + 1 = i /\ (i + 1) - 1 = i /\ i + 1 # 2 /\ i + 1 # 1
                BY <1>1, <3>3
            <4>2. s[i + 1] # s[2]
                BY <1>5, <3>1, <4>1
            <4>3. m.prev[t[i]] = l.prev[s[i + 1]]
                BY <1>2, <3>1, <4>2
            <4>4. l.prev[s[i + 1]] = s[i] /\ t[i - 1] = s[i]
                BY <1>5, <2>1, <3>1, <4>1
            <4> QED BY <3>3, <4>3, <4>4
        <3> QED BY <3>2, <3>3
    <2> QED BY <1>7, <2>2, <2>3, <2>4, <2>5, <2>6 DEF IsQueue
<1> HIDE DEF t
<1>9. ASSUME NEW p \in Queue, p # q
      PROVE  /\ \E r \in [1 .. m.size[p] -> Handle] : IsQueue(m, p, r)
             /\ m.first[p] = l.first[p]
    <2>1. PICK r \in [1 .. l.size[p] -> Handle] : IsQueue(l, p, r)
        BY DEF Linked
    <2>2. m.size[p] = l.size[p] /\ m.first[p] = l.first[p] /\ m.last[p] = l.last[p]
        BY <1>1, <1>2, <1>9
    <2>3. \A h \in Handle : m.owner[h] = p <=> l.owner[h] = p
        BY <1>1, <1>2, <1>9, QueueIs
    <2>4. \A i \in 1 .. l.size[p] : r[i] \in Handle /\ l.owner[r[i]] = p
        BY <2>1 DEF IsQueue
    <2>5. n # 1 => l.next[e] \in Handle /\ l.owner[l.next[e]] = q
        <3>1. n # 1 => 2 \in 1 .. n /\ l.next[e] = s[2]
            BY <1>1, <1>5, <1>6
        <3> QED BY <1>5, <1>6, <3>1
    <2>6. \A i \in 1 .. l.size[p] : m.next[r[i]] = l.next[r[i]] /\ m.prev[r[i]] = l.prev[r[i]]
        BY <1>2, <1>9, <2>4, <2>5
    <2>7. IsQueue(m, p, r)
        BY <2>1, <2>2, <2>3, <2>6 DEF IsQueue
    <2> QED BY <2>1, <2>2, <2>7
<1>10. Linked(m)
    BY <1>7, <1>8, <1>9 DEF Linked
<1> QED BY <1>2, <1>3, <1>9, <1>10 DEF m

\* What LIST_RemoveElement does in the form with links back: the element is
\* owned by nobody, and a queue that it does not head keeps its head.
LEMMA RemoveElementIs ==
    ASSUME ~Light, NEW l \in ListType, Linked(l),
           NEW e \in Handle, l.owner[e] # None
    PROVE  /\ RemoveElement(l, e) \in ListType
           /\ Linked(RemoveElement(l, e))
           /\ RemoveElement(l, e).owner = [l.owner EXCEPT ![e] = None]
           /\ \A p \in Queue : l.first[p] # e => RemoveElement(l, e).first[p] = l.first[p]
<1> DEFINE m == RemoveElement(l, e)
           q == l.owner[e]
           n == l.size[q]
<1>1. /\ l.first \in [Queue -> Ptr] /\ l.last \in [Queue -> Ptr]
      /\ l.size \in [Queue -> Nat]
      /\ l.next \in [Handle -> Ptr] /\ l.prev \in [Handle -> Ptr]
      /\ l.owner \in [Handle -> Queue \cup {None}]
      /\ q \in Queue /\ n \in Nat /\ l.next[e] \in Ptr /\ l.prev[e] \in Ptr
    BY ListFields
<1>2. /\ m.first = [l.first EXCEPT ![q] = IF l.prev[e] = None THEN l.next[e] ELSE @]
      /\ m.last = [l.last EXCEPT ![q] = IF l.next[e] = None THEN l.prev[e] ELSE @]
      /\ m.next = [h \in Handle |-> IF h = l.prev[e] THEN l.next[e] ELSE l.next[h]]
      /\ m.prev = [h \in Handle |-> IF h = l.next[e] THEN l.prev[e] ELSE l.prev[h]]
      /\ m.owner = [l.owner EXCEPT ![e] = None]
      /\ m.size = [l.size EXCEPT ![q] = @ - 1]
    BY <1>1 DEF RemoveElement, RemoveFull, ListType
<1> HIDE DEF m, n, q
<1>4. PICK s \in [1 .. n -> Handle] : IsQueue(l, q, s)
    BY <1>1 DEF Linked, n
<1>5. /\ \A i, j \in 1 .. n : s[i] = s[j] => i = j
      /\ \A h \in Handle : l.owner[h] = q <=> \E i \in 1 .. n : s[i] = h
      /\ l.first[q] = (IF n = 0 THEN None ELSE s[1])
      /\ l.last[q] = (IF n = 0 THEN None ELSE s[n])
      /\ \A i \in 1 .. n : l.next[s[i]] = IF i = n THEN None ELSE s[i + 1]
      /\ \A i \in 1 .. n : l.prev[s[i]] = IF i = 1 THEN None ELSE s[i - 1]
    BY <1>4 DEF IsQueue, n
<1>6. PICK k \in 1 .. n : s[k] = e
    BY <1>5 DEF q
<1>7. /\ \A i \in 1 .. n : s[i] \in Handle
      /\ n # 0 /\ n - 1 \in Nat /\ 1 \in 1 .. n /\ n \in 1 .. n
      /\ l.first[q] = s[1] /\ l.last[q] = s[n]
      /\ l.next[e] = IF k = n THEN None ELSE s[k + 1]
      /\ l.prev[e] = IF k = 1 THEN None ELSE s[k - 1]
      /\ k # n => k + 1 \in 1 .. n
      /\ k # 1 => k - 1 \in 1 .. n
    <2>1. /\ n # 0 /\ n - 1 \in Nat /\ 1 \in 1 .. n /\ n \in 1 .. n
          /\ k # n => k + 1 \in 1 .. n
          /\ k # 1 => k - 1 \in 1 .. n
        BY <1>1, <1>6
    <2>2. /\ l.next[s[k]] = IF k = n THEN None ELSE s[k + 1]
          /\ l.prev[s[k]] = IF k = 1 THEN None ELSE s[k - 1]
        BY <1>5
    <2> QED BY <1>5, <1>6, <2>1, <2>2
<1>8. /\ l.next[e] = None <=> k = n
      /\ l.prev[e] = None <=> k = 1
    BY <1>7, QueueIs
<1>3. m \in ListType
    <2>0. m.size[q] \in Nat
        BY <1>1, <1>2, <1>7 DEF n
    <2>1. /\ m.first \in [Queue -> Ptr] /\ m.last \in [Queue -> Ptr]
          /\ m.size \in [Queue -> Nat]
          /\ m.owner \in [Handle -> Queue \cup {None}]
        BY <1>1, <1>2, <2>0
    <2>2. m.prev \in [Handle -> Ptr] /\ m.next \in [Handle -> Ptr]
        BY <1>1, <1>2
    <2>3. m = [l EXCEPT !.first = m.first, !.last = m.last, !.next = m.next,
                        !.prev = m.prev, !.owner = m.owner, !.size = m.size]
        BY <1>2 DEF m, RemoveElement, RemoveFull, q
    <2> QED BY <2>1, <2>2, <2>3 DEF ListType
<1>9. \A p \in Queue : l.first[p] # e => m.first[p] = l.first[p]
    BY <1>1, <1>2, <1>6, <1>7, <1>8
<1> DEFINE t == [i \in 1 .. n - 1 |-> IF i < k THEN s[i] ELSE s[i + 1]]
<1>10. t \in [1 .. m.size[q] -> Handle] /\ m.size[q] = n - 1
    <2>1. m.size[q] = n - 1
        BY <1>1, <1>2 DEF n
    <2>2. \A i \in 1 .. n - 1 : i \in 1 .. n /\ i + 1 \in 1 .. n
        BY <1>1
    <2> QED BY <1>7, <2>1, <2>2
<1>11. IsQueue(m, q, t)
    <2>1. \A i \in 1 .. n - 1 : t[i] = IF i < k THEN s[i] ELSE s[i + 1]
        OBVIOUS
    <2>a. \A i \in 1 .. n - 1 : i \in 1 .. n /\ i + 1 \in 1 .. n
        BY <1>1
    <2> HIDE DEF t
    <2>2. \A i, j \in 1 .. n - 1 : t[i] = t[j] => i = j
        <3> SUFFICES ASSUME NEW i \in 1 .. n - 1, NEW j \in 1 .. n - 1, t[i] = t[j]
                     PROVE  i = j
            OBVIOUS
        <3>1. PICK a \in 1 .. n : a = IF i < k THEN i ELSE i + 1
            BY <2>a
        <3>2. PICK b \in 1 .. n : b = IF j < k THEN j ELSE j + 1
            BY <2>a
        <3>3. s[a] = s[b]
            BY <2>1, <3>1, <3>2
        <3>4. a = b
            BY <1>5, <3>3
        <3> QED BY <1>1, <3>1, <3>2, <3>4
    <2>3. \A h \in Handle : m.owner[h] = q <=> \E i \in 1 .. n - 1 : t[i] = h
        <3> SUFFICES ASSUME NEW h \in Handle
                     PROVE  m.owner[h] = q <=> \E i \in 1 .. n - 1 : t[i] = h
            OBVIOUS
        <3>1. CASE h = e
            <4>1. m.owner[h] # q
                BY <1>1, <1>2, <3>1, QueueIs
            <4>2. ASSUME NEW i \in 1 .. n - 1, t[i] = e
                  PROVE  FALSE
                <5>1. PICK a \in 1 .. n : a = IF i < k THEN i ELSE i + 1
                    BY <2>a
                <5>2. s[a] = s[k] /\ a # k
                    BY <1>1, <1>6, <2>1, <4>2, <5>1
                <5> QED BY <1>5, <5>2
            <4> QED BY <3>1, <4>1, <4>2
        <3>2. CASE h # e
            <4>1. m.owner[h] = q <=> \E i \in 1 .. n : s[i] = h
                BY <1>1, <1>2, <1>5, <3>2
            <4>2. ASSUME NEW i \in 1 .. n, s[i] = h
                  PROVE  \E j \in 1 .. n - 1 : t[j] = h
                <5>1. i # k
                    BY <1>6, <3>2, <4>2
                <5>2. CASE i < k
                    <6>1. i \in 1 .. n - 1
                        BY <1>1, <5>2
                    <6> QED BY <2>1, <4>2, <5>2, <6>1
                <5>3. CASE i > k
                    <6>1. i - 1 \in 1 .. n - 1 /\ ~(i - 1 < k) /\ (i - 1) + 1 = i
                        BY <1>1, <5>3
                    <6> QED BY <2>1, <4>2, <6>1
                <5> QED BY <1>1, <5>1, <5>2, <5>3
            <4>3. ASSUME NEW j \in 1 .. n - 1, t[j] = h
                  PROVE  \E i \in 1 .. n : s[i] = h
                BY <2>1, <2>a, <4>3
            <4> QED BY <4>1, <4>2, <4>3
        <3> QED BY <3>1, <3>2
    <2>4. m.first[q] = IF n - 1 = 0 THEN None ELSE t[1]
        <3>1. m.first[q] = IF k = 1 THEN l.next[e] ELSE s[1]
            BY <1>1, <1>2, <1>7, <1>8
        <3>2. n # 1 => 1 \in 1 .. n - 1
            BY <1>1, <1>7
        <3>3. CASE k = 1
            BY <1>1, <1>7, <2>1, <3>1, <3>2, <3>3
        <3>4. CASE k # 1
            BY <1>1, <1>7, <2>1, <3>1, <3>2, <3>4
        <3> QED BY <3>3, <3>4
    <2>5. m.last[q] = IF n - 1 = 0 THEN None ELSE t[n - 1]
        <3>1. m.last[q] = IF k = n THEN l.prev[e] ELSE s[n]
            BY <1>1, <1>2, <1>7, <1>8
        <3>2. n # 1 => n - 1 \in 1 .. n - 1 /\ (n - 1) + 1 = n
            BY <1>1, <1>7
        <3>3. CASE k = n
            BY <1>1, <1>7, <2>1, <3>1, <3>2, <3>3
        <3>4. CASE k # n
            BY <1>1, <1>7, <2>1, <3>1, <3>2, <3>4
        <3> QED BY <3>3, <3>4
    <2>6. \A i \in 1 .. n - 1 : m.next[t[i]] = IF i = n - 1 THEN None ELSE t[i + 1]
        <3> SUFFICES ASSUME NEW i \in 1 .. n - 1
                     PROVE  m.next[t[i]] = IF i = n - 1 THEN None ELSE t[i + 1]
            OBVIOUS
        <3>1. /\ i \in 1 .. n /\ i + 1 \in 1 .. n
              /\ i # n - 1 => i + 1 \in 1 .. n - 1 /\ i + 2 \in 1 .. n /\ (i + 1) + 1 = i + 2
            BY <1>1, <2>a
        <3>2. CASE i + 1 = k
            <4>1. t[i] = s[i] /\ s[i] = l.prev[e]
                BY <1>7, <2>1, <3>1, <3>2
            <4>2. m.next[t[i]] = l.next[e]
                BY <1>2, <1>7, <3>1, <4>1
            <4> QED BY <1>1, <1>7, <2>1, <3>1, <3>2, <4>2
        <3>3. CASE i + 1 < k
            <4>1. t[i] = s[i] /\ l.prev[e] = s[k - 1] /\ k - 1 \in 1 .. n /\ i # k - 1
                BY <1>1, <1>7, <2>1, <3>1, <3>3
            <4>2. s[i] # s[k - 1]
                BY <1>5, <3>1, <4>1
            <4>3. m.next[t[i]] = l.next[s[i]]
                BY <1>2, <1>7, <3>1, <4>1, <4>2
            <4>4. i # n /\ i # n - 1 /\ t[i + 1] = s[i + 1]
                BY <1>1, <2>1, <3>1, <3>3
            <4> QED BY <1>5, <3>1, <4>3, <4>4
        <3>4. CASE i >= k
            <4>1. t[i] = s[i + 1] /\ (k # 1 => i + 1 # k - 1)
                BY <1>1, <2>1, <3>4
            <4>2. s[i + 1] # l.prev[e]
                BY <1>5, <1>7, <3>1, <4>1, QueueIs
            <4>3. m.next[t[i]] = l.next[s[i + 1]]
                BY <1>2, <1>7, <3>1, <4>1, <4>2
            <4>4. i = n - 1 <=> i + 1 = n
                BY <1>1
            <4>5. i # n - 1 => t[i + 1] = s[(i + 1) + 1]
                BY <1>1, <2>1, <3>1, <3>4
            <4> QED BY <1>5, <3>1, <4>3, <4>4, <4>5
        <3> QED BY <1>1, <3>2, <3>3, <3>4
    <2>7. \A i \in 1 .. n - 1 : m.prev[t[i]] = IF i = 1 THEN None ELSE t[i - 1]
        <3> SUFFICES ASSUME NEW i \in 1 .. n - 1
                     PROVE  m.prev[t[i]] = IF i = 1 THEN None ELSE t[i - 1]
            OBVIOUS
        <3>1. /\ i \in 1 .. n /\ i + 1 \in 1 .. n /\ (i + 1) - 1 = i
              /\ i # 1 => i - 1 \in 1 .. n - 1 /\ i - 1 \in 1 .. n /\ (i - 1) + 1 = i
            BY <1>1, <2>a
        <3>2. CASE i = k
            <4>1. t[i] = s[i + 1] /\ s[i + 1] = l.next[e]
                <5>1. k # n /\ ~(i < k)
                    BY <1>1, <3>2
                <5> QED BY <1>7, <2>1, <3>2, <5>1
            <4>2. m.prev[t[i]] = l.prev[e]
                BY <1>2, <1>7, <3>1, <4>1
            <4> QED BY <1>1, <1>7, <2>1, <3>1, <3>2, <4>2
        <3>3. CASE i < k
            <4>1. t[i] = s[i] /\ (k # n => i # k + 1)
                BY <1>1, <2>1, <3>1, <3>3
            <4>2. s[i] # l.next[e]
                BY <1>5, <1>7, <3>1, <4>1, QueueIs
            <4>3. m.prev[t[i]] = l.prev[s[i]]
                BY <1>2, <1>7, <3>1, <4>1, <4>2
            <4>4. i # 1 => t[i - 1] = s[i - 1]
                BY <1>1, <2>1, <3>1, <3>3
            <4> QED BY <1>5, <3>1, <4>3, <4>4
        <3>4. CASE i > k
            <4>1. t[i] = s[i + 1] /\ i + 1 # k + 1 /\ i + 1 # 1 /\ i # 1
                BY <1>1, <2>1, <3>1, <3>4
            <4>2. s[i + 1] # l.next[e]
                BY <1>5, <1>7, <3>1, <4>1, QueueIs
            <4>3. m.prev[t[i]] = l.prev[s[i + 1]]
                BY <1>2, <1>7, <3>1, <4>1, <4>2
            <4>4. t[i - 1] = s[i]
                BY <1>1, <2>1, <3>1, <3>4
            <4> QED BY <1>5, <3>1, <4>1, <4>3, <4>4
        <3> QED BY <1>1, <3>2, <3>3, <3>4
    <2> QED BY <1>10, <2>2, <2>3, <2>4, <2>5, <2>6, <2>7 DEF IsQueue
<1> HIDE DEF t
<1>12. ASSUME NEW p \in Queue, p # q
       PROVE  \E r \in [1 .. m.size[p] -> Handle] : IsQueue(m, p, r)
    <2>1. PICK r \in [1 .. l.size[p] -> Handle] : IsQueue(l, p, r)
        BY DEF Linked
    <2>2. m.size[p] = l.size[p] /\ m.first[p] = l.first[p] /\ m.last[p] = l.last[p]
        BY <1>1, <1>2, <1>12
    <2>3. \A h \in Handle : m.owner[h] = p <=> l.owner[h] = p
        BY <1>1, <1>2, <1>12, QueueIs DEF q
    <2>4. \A i \in 1 .. l.size[p] : r[i] \in Handle /\ l.owner[r[i]] = p
        BY <2>1 DEF IsQueue
    <2>5. \A i \in 1 .. n : l.owner[s[i]] = q
        BY <1>5, <1>7
    <2>6. \A i \in 1 .. l.size[p] : r[i] # l.next[e] /\ r[i] # l.prev[e]
        <3>1. l.next[e] \in Handle => l.owner[l.next[e]] = q
            BY <1>7, <2>5, QueueIs
        <3>2. l.prev[e] \in Handle => l.owner[l.prev[e]] = q
            BY <1>7, <2>5, QueueIs
        <3> QED BY <1>12, <2>4, <3>1, <3>2
    <2>7. \A i \in 1 .. l.size[p] : m.next[r[i]] = l.next[r[i]] /\ m.prev[r[i]] = l.prev[r[i]]
        BY <1>2, <2>4, <2>6
    <2>8. IsQueue(m, p, r)
        BY <2>1, <2>2, <2>3, <2>7 DEF IsQueue
    <2> QED BY <2>1, <2>2, <2>8
<1>13. Linked(m)
    BY <1>10, <1>11, <1>12 DEF Linked
<1> QED BY <1>2, <1>3, <1>9, <1>13 DEF m

-----------------------------------------------------------------------------
\* A set of naturals with 0 and the successors of its elements has them all.
LEMMA SetInduction ==
    ASSUME NEW S \in SUBSET Nat, 0 \in S, \A n \in S : n + 1 \in S
    PROVE  S = Nat
<1> SUFFICES ASSUME S # Nat PROVE FALSE
    OBVIOUS
<1>1. PICK x \in Nat \ S : \A y \in Nat \ S : ~ (<<y, x>> \in OpToRel(<, Nat))
    BY NatLessThanWellFounded, WFMin
<1>2. \A y \in Nat \ S : ~ (y < x)
    BY <1>1 DEF OpToRel
<1>3. x - 1 \in Nat /\ x - 1 < x /\ (x - 1) + 1 = x
    <2>1. x \in Nat /\ x # 0
        OBVIOUS
    <2> QED BY <2>1
<1>4. x - 1 \in S
    BY <1>2, <1>3
<1> QED BY <1>1, <1>3, <1>4

\* The walk from the head of a queue meets the elements of its sequence.
LEMMA MembersIs ==
    ASSUME NEW l \in ListType, NEW q \in Queue,
           NEW s \in [1 .. l.size[q] -> Handle], IsQueue(l, q, s)
    PROVE  /\ Members(l, q) = {s[i] : i \in 1 .. l.size[q]}
           /\ l.size[q] = Cardinality(Members(l, q))
<1> DEFINE n == l.size[q]
           C == Cardinality(Handle)
           Walk[i \in 0 .. C] == IF i = 0 THEN l.first[q] ELSE After(l, Walk[i - 1])
           Reach(f) == [i \in 0 .. C |-> IF i = 0 THEN l.first[q] ELSE After(l, f[i - 1])]
           g == [i \in 0 .. C |-> IF i < n THEN s[i + 1] ELSE None]
<1>1. Members(l, q) = {Walk[i] : i \in 0 .. C} \ {None}
    BY DEF Members
<1>2. Walk = CHOOSE f : f = Reach(f)
    BY DEF Walk
<1>3. n \in Nat /\ C \in Nat /\ l.next \in [Handle -> Ptr]
    BY ListFields, FS_CardinalityType, SerialAssumption
<1> HIDE DEF n, C, Walk
<1>4. /\ \A i, j \in 1 .. n : s[i] = s[j] => i = j
      /\ l.first[q] = IF n = 0 THEN None ELSE s[1]
      /\ \A i \in 1 .. n : l.next[s[i]] = IF i = n THEN None ELSE s[i + 1]
      /\ \A i \in 1 .. n : s[i] \in Handle /\ s[i] # None
    BY QueueIs DEF IsQueue, n
<1>5. g = Reach(g)
    <2> SUFFICES ASSUME NEW i \in 0 .. C
                 PROVE  g[i] = IF i = 0 THEN l.first[q] ELSE After(l, g[i - 1])
        OBVIOUS
    <2>1. CASE i = 0
        BY <1>3, <1>4, <2>1
    <2>2. CASE i # 0
        <3>1. i - 1 \in 0 .. C /\ (i - 1) + 1 = i
            BY <1>3, <2>2
        <3>2. g[i - 1] = IF i - 1 < n THEN s[i] ELSE None
            BY <3>1
        <3>3. CASE i - 1 < n
            <4>1. i \in 1 .. n /\ (i < n <=> i # n)
                BY <1>3, <2>2, <3>3
            <4> QED BY <1>4, <2>2, <3>2, <3>3, <4>1 DEF After
        <3>4. CASE ~(i - 1 < n)
            BY <1>3, <2>2, <3>2, <3>4 DEF After
        <3> QED BY <3>3, <3>4
    <2> QED BY <2>1, <2>2
<1>6. Walk = Reach(Walk)
    <2> HIDE DEF g, Reach
    <2> QED BY <1>2, <1>5, Zenon
<1>7. \A i \in 0 .. C : Walk[i] = g[i]
    <2> DEFINE S == {i \in Nat : i \in 0 .. C => Walk[i] = g[i]}
    <2>0. /\ \A i \in 0 .. C : Walk[i] = IF i = 0 THEN l.first[q] ELSE After(l, Walk[i - 1])
          /\ \A i \in 0 .. C : g[i] = IF i = 0 THEN l.first[q] ELSE After(l, g[i - 1])
        BY <1>5, <1>6
    <2> HIDE DEF g, Reach
    <2>1. 0 \in S
        BY <1>3, <2>0
    <2>2. ASSUME NEW i \in S PROVE i + 1 \in S
        <3>1. CASE i + 1 \in 0 .. C
            <4>1. i \in 0 .. C /\ (i + 1) - 1 = i /\ i + 1 # 0
                BY <1>3, <3>1
            <4> QED BY <2>0, <3>1, <4>1
        <3>2. CASE i + 1 \notin 0 .. C
            BY <3>2
        <3> QED BY <3>1, <3>2
    <2>3. S = Nat
        <3> HIDE DEF S
        <3> QED BY <2>1, <2>2, SetInduction DEF S
    <2> QED BY <2>3
<1>8. s \in Injection(1 .. n, Handle)
    BY <1>4 DEF Injection, IsInjective, n
<1>9. n <= C
    <2>1. IsFiniteSet(Handle)
        BY SerialAssumption
    <2>2. Cardinality(1 .. n) <= C
        BY <1>8, <2>1, FS_Injection DEF C
    <2>3. Cardinality(1 .. n) = IF 1 > n THEN 0 ELSE n - 1 + 1
        BY <1>3, FS_Interval
    <2> QED BY <1>3, <2>2, <2>3
<1>10. Members(l, q) = {s[i] : i \in 1 .. n}
    <2>1. ASSUME NEW i \in 0 .. C, Walk[i] # None
          PROVE  Walk[i] \in {s[j] : j \in 1 .. n}
        <3>1. i + 1 \in 1 .. n /\ Walk[i] = s[i + 1]
            BY <1>3, <1>7, <2>1
        <3> QED BY <3>1
    <2>2. ASSUME NEW j \in 1 .. n
          PROVE  s[j] \in {Walk[i] : i \in 0 .. C} \ {None}
        <3>1. j - 1 \in 0 .. C /\ j - 1 < n /\ (j - 1) + 1 = j
            BY <1>3, <1>9
        <3>2. Walk[j - 1] = s[j]
            BY <1>7, <3>1
        <3> QED BY <1>4, <3>1, <3>2
    <2> QED BY <1>1, <2>1, <2>2
<1>11. Cardinality(Members(l, q)) = n
    <2>1. s \in Bijection(1 .. n, Members(l, q))
        <3>1. s \in [1 .. n -> Members(l, q)]
            <4>1. s \in [1 .. n -> Handle]
                BY DEF n
            <4>2. \A i \in 1 .. n : s[i] \in Members(l, q)
                BY <1>10
            <4> QED BY <4>1, <4>2
        <3>2. s \in Injection(1 .. n, Members(l, q))
            BY <1>4, <3>1 DEF Injection, IsInjective
        <3>3. \A h \in Members(l, q) : \E i \in 1 .. n : s[i] = h
            BY <1>10
        <3> QED BY <3>1, <3>2, <3>3 DEF Bijection, Surjection
    <2>2. ExistsBijection(1 .. n, Members(l, q))
        BY <2>1 DEF ExistsBijection
    <2> QED BY <1>3, <2>2, FS_CountingElements
<1> QED BY <1>10, <1>11 DEF n

\* Queues that are linked are whole.
LEMMA LinkedIsWhole ==
    ASSUME NEW l \in ListType, Linked(l), NEW q \in Queue
    PROVE  /\ Members(l, q) = {h \in Handle : l.owner[h] = q}
           /\ l.size[q] = Cardinality(Members(l, q))
           /\ Members(l, q) # {} =>
                  l.last[q] \in Members(l, q) /\ l.next[l.last[q]] = None
<1>1. PICK s \in [1 .. l.size[q] -> Handle] : IsQueue(l, q, s)
    BY DEF Linked
<1>2. l.size[q] \in Nat
    BY ListFields
<1>3. /\ Members(l, q) = {s[i] : i \in 1 .. l.size[q]}
      /\ l.size[q] = Cardinality(Members(l, q))
    BY <1>1, MembersIs, Zenon
<1>4. Members(l, q) = {h \in Handle : l.owner[h] = q}
    <2>1. \A h \in Handle : l.owner[h] = q <=> \E i \in 1 .. l.size[q] : s[i] = h
        BY <1>1 DEF IsQueue
    <2>2. \A i \in 1 .. l.size[q] : s[i] \in Handle
        OBVIOUS
    <2> QED BY <1>3, <2>1, <2>2
<1>5. ASSUME Members(l, q) # {}
      PROVE  l.last[q] \in Members(l, q) /\ l.next[l.last[q]] = None
    <2>1. PICK i \in 1 .. l.size[q] : TRUE
        BY <1>3, <1>5
    <2>2. l.size[q] # 0 /\ l.size[q] \in 1 .. l.size[q]
        BY <1>2, <2>1
    <2>3. l.last[q] = s[l.size[q]] /\ l.next[s[l.size[q]]] = None
        BY <1>1, <2>2 DEF IsQueue
    <2>4. s[l.size[q]] \in Members(l, q)
        BY <1>3, <2>2
    <2> QED BY <2>3, <2>4
<1> QED BY <1>3, <1>4, <1>5

-----------------------------------------------------------------------------
LEMMA CallerIs == /\ Caller = User \cup {"manager"} /\ "manager" \notin User
                  /\ Blocking \subseteq Handle /\ Length \in Nat /\ Length # 0
BY SerialAssumption DEF Caller

\* A call that does not cancel is idle, polls, has written or starts the port.
LEMMA NotCancelling ==
    ASSUME IInv, NEW c \in Caller, ~Cancelling(c)
    PROVE  /\ pc[c] \in {"idle", "poll", "written"} \/ Starter(c)
           /\ pc[c] = "written" => back[c] = "written"
           /\ tx[c] = None
BY DEF IInv, TypeInv, CallIs, Cancelling, Starter, Starting, Steps

\* Whoever runs has no cancel beside it; a user task runs when the manager's
\* task waits, and that task calls back when its writes run.
LEMMA RunsBeside ==
    ASSUME IInv, NEW c \in Caller, Runs(c)
    PROVE  /\ \A d \in Caller \ {c} : ~Cancelling(d)
           /\ c \in User => task = "wait"
           /\ c = "manager" => task = "callback" /\ ~Cancelling(c)
<1>1. CASE Masks(c)
    <2>1. Cancelling(c)
        BY <1>1 DEF Masks
    <2>2. task = "wait" /\ \A d \in Caller \ {c} : pc[d] \in {"idle", "poll"}
        BY <2>1 DEF IInv, Alone
    <2> QED BY <2>1, <2>2 DEF Cancelling
<1>2. CASE ~Masks(c)
    <2>1. \A d \in Caller : Cancelling(d) => Masks(d)
        BY DEF IInv, Alone, Masks
    <2> QED BY <1>2, <2>1, CallerIs DEF Runs, NobodyMasks, Cancelling
<1> QED BY <1>1, <1>2

\* The port while nobody cancels: it is down while a write starts it.
LEMMA PortBeside ==
    ASSUME IInv, \A d \in Caller : ~Cancelling(d)
    PROVE  /\ ~Aborting
           /\ Down <=> \E c \in Caller : Starter(c)
           /\ \A h \in Handle : ~Aborted(h)
           /\ \A c \in Caller : tx[c] = None
<1>1. \A c \in Caller : /\ pc[c] \in {"idle", "poll", "written"} \/ Starter(c)
                        /\ tx[c] = None
    BY NotCancelling
<1> QED BY <1>1 DEF Aborting, Down, Aborted, Starter, Starting

\* SerialManager_Write.
LEMMA WriteStep ==
    ASSUME Rule, IInv, NEW c \in Caller, NEW h \in Handle, Write(c, h)
    PROVE  IInv'
<1>1. /\ Runs(c) /\ pc[c] = "idle" /\ ~busy[h]
      /\ c = "manager" => h \notin Blocking
      /\ busy' = [busy EXCEPT ![h] = TRUE]
      /\ soFar' = [soFar EXCEPT ![h] = 0] /\ sent' = [sent EXCEPT ![h] = 0]
      /\ lists' = AddTail(lists, "running", h)
      /\ obj' = [obj EXCEPT ![c] = h]
      /\ back' = [back EXCEPT ![c] = "written"]
      /\ pc' = [pc EXCEPT ![c] = IF lists.first["running"] = None THEN "start" ELSE "written"]
      /\ UNCHANGED <<status, port, events, sem, task, taken, head, tx>>
    BY DEF Write, GoTo, manager
<1>2. /\ TypeInv /\ Linked(lists) /\ \A d \in Caller : CallIs(d)
      /\ OneStarter /\ Alone /\ PortIs /\ SentIs /\ TakenIs
      /\ \A g \in Handle : PlaceIs(g)
    BY DEF IInv
<1>3. \A d \in Caller : ~Cancelling(d)
    BY <1>1, RunsBeside DEF Cancelling
<1>4. lists.owner[h] = None /\ ~InHand(h)
    BY <1>1, <1>2 DEF PlaceIs
<1>5. /\ lists' \in ListType /\ Linked(lists)'
      /\ lists'.owner = [lists.owner EXCEPT ![h] = "running"]
      /\ lists'.first = [lists.first EXCEPT !["running"] = IF lists.first["running"] = None THEN h ELSE @]
    BY <1>1, <1>2, <1>4, AddTailIs, QueueIs DEF TypeInv, Linked
<1>6. lists.first \in [Queue -> Ptr] /\ lists.owner \in [Handle -> Queue \cup {None}]
    BY <1>2, ListFields DEF TypeInv
<1>7. lists.first["running"] # None => lists.first["running"] \in Handle /\ lists.owner[lists.first["running"]] = "running"
    BY <1>2, HeadOf, QueueIs DEF TypeInv
<1>8. TypeInv'
    BY <1>1, <1>2, <1>5, CallerIs, QueueIs DEF TypeInv, Steps, Ptr
<1>9. \A d \in Caller : CallIs(d)'
    <2> SUFFICES ASSUME NEW d \in Caller PROVE CallIs(d)'
        OBVIOUS
    <2>1. CASE d = c
        BY <1>1, <1>2, <2>1 DEF CallIs, TypeInv, Starting
    <2>2. CASE d # c
        <3>1. /\ pc'[d] = pc[d] /\ obj'[d] = obj[d] /\ back'[d] = back[d]
              /\ head'[d] = head[d] /\ tx'[d] = tx[d]
            BY <1>1, <1>2, <2>2 DEF TypeInv
        <3>2. pc[d] \in {"idle", "poll", "written"} \/ Starter(d)
            BY <1>3, NotCancelling
        <3>3. Starter(d) => lists'.first["running"] = lists.first["running"]
            BY <1>2, <1>5, <1>6, QueueIs DEF OneStarter
        <3> QED BY <1>2, <3>1, <3>2, <3>3 DEF CallIs, Starter, Starting
    <2> QED BY <2>1, <2>2
<1>10. OneStarter'
    BY <1>1, <1>2, <1>5, <1>6, QueueIs DEF OneStarter, Starter, Starting, TypeInv
<1>11. Alone'
    BY <1>1, <1>2, <1>3 DEF Alone, Cancelling, TypeInv
<1>12. ~Aborting /\ ~Aborting' /\ (Down <=> \E d \in Caller : Starter(d))
    <2>1. \A d \in Caller : pc[d] # "abort"
        BY <1>3, PortBeside DEF Aborting
    <2> QED BY <1>1, <1>2, <1>3, <2>1, PortBeside DEF Aborting, TypeInv
<1>13. PortIs'
    <2>1. CASE lists.first["running"] = None
        <3>1. ~Down
            BY <1>2, <1>12, <2>1 DEF OneStarter
        <3> QED BY <1>1, <1>2, <1>12, <2>1, <3>1 DEF PortIs, Down, Starting, TypeInv
    <2>2. CASE lists.first["running"] # None
        <3>1. lists'.first["running"] = lists.first["running"]
            BY <1>5, <1>6, <2>2, QueueIs
        <3>2. Down' <=> Down
            BY <1>1, <1>2, <2>2 DEF Down, Starting, TypeInv
        <3> QED BY <1>1, <1>2, <1>12, <3>1, <3>2 DEF PortIs
    <2> QED BY <2>1, <2>2
<1>14. SentIs'
    <2>1. \A g \in Handle : ~Aborted(g)
        BY <1>3, PortBeside
    <2>2. port.buffer # h
        BY <1>2, <1>4, <1>7, <1>12, QueueIs DEF PortIs
    <2>3. /\ lists'.owner[h] = "running" /\ soFar'[h] = 0 /\ sent'[h] = 0
          /\ \A g \in Handle \ {h} : /\ lists'.owner[g] = lists.owner[g]
                                     /\ soFar'[g] = soFar[g] /\ sent'[g] = sent[g]
        BY <1>1, <1>2, <1>5, <1>6 DEF TypeInv
    <2> QED BY <1>1, <1>2, <2>1, <2>2, <2>3, CallerIs, QueueIs DEF SentIs
<1>15. TakenIs'
    BY <1>1, <1>2, <1>5, <1>6, QueueIs DEF TakenIs
<1>16. \A g \in Handle : PlaceIs(g)'
    <2> SUFFICES ASSUME NEW g \in Handle PROVE PlaceIs(g)'
        OBVIOUS
    <2>1. InHand(g)' <=> InHand(g)
        BY <1>1, <1>2 DEF InHand, TypeInv
    <2>2. g = h => busy'[g] /\ lists'.owner[g] = "running"
        BY <1>1, <1>2, <1>5, <1>6 DEF TypeInv
    <2>3. g # h => (busy'[g] <=> busy[g]) /\ lists'.owner[g] = lists.owner[g]
        BY <1>1, <1>2, <1>5, <1>6 DEF TypeInv
    <2> QED BY <1>2, <1>4, <2>1, <2>2, <2>3, QueueIs DEF PlaceIs
<1> QED BY <1>5, <1>8, <1>9, <1>10, <1>11, <1>13, <1>14, <1>15, <1>16 DEF IInv
\* The calls of the others stay what they are when only c moves: nobody else
\* holds the head of the running queue, or the queues are left alone.
OnlyCaller(c) ==
    \A d \in Caller \ {c} : /\ pc'[d] = pc[d] /\ obj'[d] = obj[d] /\ back'[d] = back[d]
                            /\ head'[d] = head[d] /\ tx'[d] = tx[d]

LEMMA OthersKeep ==
    ASSUME IInv, NEW c \in Caller, OnlyCaller(c), CallIs(c)',
           \/ lists' = lists
           \/ \A d \in Caller \ {c} : pc[d] \in {"idle", "poll", "written"}
    PROVE  \A d \in Caller : CallIs(d)'
<1> SUFFICES ASSUME NEW d \in Caller, d # c PROVE CallIs(d)'
    OBVIOUS
<1>1. /\ CallIs(d)
      /\ pc'[d] = pc[d] /\ obj'[d] = obj[d] /\ back'[d] = back[d]
      /\ head'[d] = head[d] /\ tx'[d] = tx[d]
    BY DEF IInv, OnlyCaller
<1> QED BY <1>1 DEF CallIs, Starting

\* A step of a cancel, and what it is alone with.
LEMMA CancelAlone ==
    ASSUME IInv, NEW c \in Caller, Cancelling(c)
    PROVE  /\ Cancels = "guarded" /\ task = "wait" /\ c # "manager"
           /\ \A d \in Caller \ {c} : pc[d] \in {"idle", "poll"}
           /\ Down <=> pc[c] \in {"callback", "remove"} \/ (pc[c] \in Starting /\ back[c] # "canceled")
           /\ Aborting <=> pc[c] = "abort"
           /\ \A h \in Handle : Aborted(h) <=> pc[c] \in {"callback", "remove"} /\ obj[c] = h
           /\ \A h \in Handle : InHand(h) <=> (tx[c] = h /\ pc[c] # "remove") \/ (pc[c] = "complete" /\ obj[c] = h)
<1>1. /\ Cancels = "guarded" /\ task = "wait" /\ c # "manager"
      /\ \A d \in Caller \ {c} : pc[d] \in {"idle", "poll"}
    BY DEF IInv, Alone, Cancelling
<1>2. \A d \in Caller \ {c} : tx[d] = None
    BY <1>1, NotCancelling DEF Cancelling
<1>3. /\ Down <=> pc[c] \in {"callback", "remove"} \/ (pc[c] \in Starting /\ back[c] # "canceled")
      /\ Aborting <=> pc[c] = "abort"
      /\ \A h \in Handle : Aborted(h) <=> pc[c] \in {"callback", "remove"} /\ obj[c] = h
    <2>1. \A d \in Caller \ {c} : pc[d] \notin Starting \cup {"callback", "remove", "abort"}
        BY <1>1 DEF Starting
    <2>2. Aborting <=> pc[c] = "abort"
        BY <2>1 DEF Aborting
    <2>3. Down <=> pc[c] \in {"callback", "remove"} \/ (pc[c] \in Starting /\ back[c] # "canceled")
        BY <2>1 DEF Down
    <2>4. \A h \in Handle : Aborted(h) <=> pc[c] \in {"callback", "remove"} /\ obj[c] = h
        BY <2>1 DEF Aborted
    <2> QED BY <2>2, <2>3, <2>4
<1>4. \A h \in Handle : InHand(h) <=> (tx[c] = h /\ pc[c] # "remove") \/ (pc[c] = "complete" /\ obj[c] = h)
    BY <1>1, <1>2, QueueIs DEF InHand
<1> QED BY <1>1, <1>3, <1>4

LEMMA AfterCancel ==
    ASSUME IInv, NEW c \in Caller, c # "manager", OnlyCaller(c), CallIs(c)',
           Cancels = "guarded", task = "wait", task' = "wait",
           \A d \in Caller \ {c} : pc[d] \in {"idle", "poll"},
           ~Starter(c)'
    PROVE  /\ \A d \in Caller : CallIs(d)'
           /\ OneStarter' /\ Alone' /\ TakenIs'
           /\ Down' <=> pc'[c] \in {"callback", "remove"} \/ (pc'[c] \in Starting /\ back'[c] # "canceled")
           /\ Aborting' <=> pc'[c] = "abort"
           /\ \A h \in Handle : Aborted(h)' <=> pc'[c] \in {"callback", "remove"} /\ obj'[c] = h
           /\ \A h \in Handle : InHand(h)' <=> (tx'[c] = h /\ pc'[c] # "remove") \/ (pc'[c] = "complete" /\ obj'[c] = h)
<1>1. \A d \in Caller \ {c} : pc'[d] \in {"idle", "poll"}
    BY DEF OnlyCaller
<1>2. \A d \in Caller \ {c} : tx'[d] = None
    BY NotCancelling DEF Cancelling, OnlyCaller
<1>3. \A d \in Caller : CallIs(d)'
    BY OthersKeep
<1>4. OneStarter'
    BY <1>1 DEF OneStarter, Starter, Starting
<1>5. Alone'
    BY <1>1 DEF Alone, Cancelling
<1>6. TakenIs'
    BY DEF TakenIs
<1>7. /\ Down' <=> pc'[c] \in {"callback", "remove"} \/ (pc'[c] \in Starting /\ back'[c] # "canceled")
      /\ Aborting' <=> pc'[c] = "abort"
      /\ \A h \in Handle : Aborted(h)' <=> pc'[c] \in {"callback", "remove"} /\ obj'[c] = h
    <2>1. \A d \in Caller \ {c} : pc'[d] \notin Starting \cup {"callback", "remove", "abort"}
        BY <1>1 DEF Starting
    <2>2. Aborting' <=> pc'[c] = "abort"
        BY <2>1 DEF Aborting
    <2>3. Down' <=> pc'[c] \in {"callback", "remove"} \/ (pc'[c] \in Starting /\ back'[c] # "canceled")
        BY <2>1 DEF Down
    <2>4. \A h \in Handle : Aborted(h)' <=> pc'[c] \in {"callback", "remove"} /\ obj'[c] = h
        BY <2>1 DEF Aborted
    <2> QED BY <2>2, <2>3, <2>4
<1>8. \A h \in Handle : InHand(h)' <=> (tx'[c] = h /\ pc'[c] # "remove") \/ (pc'[c] = "complete" /\ obj'[c] = h)
    BY <1>1, <1>2, QueueIs DEF InHand
<1> QED BY <1>3, <1>4, <1>5, <1>6, <1>7, <1>8

\* SerialManager_StartWriting in a task: a write that starts the port finds
\* itself at the head.
LEMMA StartWritingStep ==
    ASSUME Rule, IInv, NEW c \in Caller, Runs(c), StartWriting(c)
    PROVE  IInv'
<1>1. /\ pc[c] = "start"
      /\ head' = [head EXCEPT ![c] = lists.first["running"]]
      /\ pc' = [pc EXCEPT ![c] = IF lists.first["running"] = None THEN Failed(c) ELSE "port"]
      /\ UNCHANGED <<lists, busy, soFar, status, sent, port, events, sem, task, taken, obj, tx, back>>
    BY DEF StartWriting, GoTo, manager, transfer
<1>2. /\ TypeInv /\ Linked(lists) /\ \A d \in Caller : CallIs(d)
      /\ OneStarter /\ Alone /\ PortIs /\ SentIs /\ TakenIs
      /\ \A g \in Handle : PlaceIs(g)
    BY DEF IInv
<1>3. OnlyCaller(c)
    BY <1>1, <1>2 DEF OnlyCaller, TypeInv
<1>4. lists.first \in [Queue -> Ptr]
    BY <1>2, ListFields DEF TypeInv
<1>5. back[c] = "written" => lists.first["running"] # None
    BY <1>1, <1>2 DEF OneStarter, Starter, Starting
<1>6. /\ pc'[c] = IF lists.first["running"] = None THEN back[c] ELSE "port"
      /\ pc'[c] \in {"port", "finish", "canceled"}
      /\ back[c] \in {"written", "finish", "canceled"}
      /\ head'[c] = lists.first["running"]
    <2>1. back[c] \in {"written", "finish", "canceled"}
        BY <1>1, <1>2 DEF CallIs, TypeInv, Starting
    <2>2. pc'[c] = IF lists.first["running"] = None THEN back[c] ELSE "port"
        BY <1>1, <1>2, <1>5 DEF TypeInv, Failed
    <2>3. head'[c] = lists.first["running"]
        BY <1>1, <1>2 DEF TypeInv
    <2> QED BY <1>5, <2>1, <2>2, <2>3
<1>7. CallIs(c)'
    <2>1. CallIs(c) /\ obj'[c] = obj[c] /\ back'[c] = back[c] /\ tx'[c] = tx[c]
        BY <1>1, <1>2
    <2>2. CASE lists.first["running"] = None
        <3>1. pc'[c] = back[c] /\ back[c] \in {"finish", "canceled"}
            BY <1>5, <1>6, <2>2
        <3> QED BY <1>1, <2>1, <3>1 DEF CallIs, Starting
    <2>3. CASE lists.first["running"] # None
        <3>1. pc'[c] = "port" /\ head'[c] = lists'.first["running"] /\ head'[c] # None
            BY <1>1, <1>6, <2>3
        <3> QED BY <1>1, <2>1, <3>1 DEF CallIs, Starting
    <2> QED BY <2>2, <2>3
<1>8. TypeInv'
    BY <1>1, <1>2, <1>4, <1>6, QueueIs DEF TypeInv, Steps
<1>9. \A d \in Caller : CallIs(d)'
    BY <1>1, <1>3, <1>7, OthersKeep
<1>10. OneStarter' /\ Alone' /\ PortIs'
    <2>1. CASE Cancelling(c)
        <3>1. ~Starter(c)' /\ task' = "wait" /\ c # "manager"
            BY <1>1, <1>2, <2>1, CancelAlone DEF Cancelling, Starter
        <3>2. PortIs'
            <4>1. /\ Down' <=> pc'[c] \in {"callback", "remove"} \/ (pc'[c] \in Starting /\ back'[c] # "canceled")
                  /\ Aborting' <=> pc'[c] = "abort"
                BY <1>1, <1>3, <1>7, <2>1, <3>1, CancelAlone, AfterCancel
            <4>2. /\ Down <=> back[c] # "canceled"
                  /\ ~Aborting
                BY <1>1, <2>1, CancelAlone DEF Starting
            <4> QED BY <1>1, <1>2, <1>6, <4>1, <4>2 DEF PortIs, Starting
        <3> QED BY <1>1, <1>3, <1>7, <2>1, <3>1, <3>2, CancelAlone, AfterCancel
    <2>2. CASE ~Cancelling(c)
        <3>1. \A d \in Caller : ~Cancelling(d)
            BY <2>2, RunsBeside
        <3>2. Starter(c) /\ lists.first["running"] # None /\ pc'[c] = "port"
            BY <1>1, <1>5, <1>6, <2>2, NotCancelling DEF Starter
        <3>3. \A d \in Caller : Starter(d)' <=> Starter(d)
            BY <1>1, <1>3, <3>2 DEF OnlyCaller, Starter, Starting
        <3>4. OneStarter'
            BY <1>1, <1>2, <3>3 DEF OneStarter
        <3>5. Alone'
            BY <1>1, <1>3, <3>1, <3>2 DEF Alone, Cancelling, OnlyCaller, Starter
        <3>6. Down' /\ Down
            BY <1>1, <3>2 DEF Down, Starter, Starting
        <3>7. ~Aborting /\ ~Aborting'
            BY <1>3, <3>1, <3>2, PortBeside DEF OnlyCaller, Aborting
        <3> QED BY <1>1, <1>2, <3>4, <3>5, <3>6, <3>7 DEF PortIs
    <2> QED BY <2>1, <2>2
<1>11. SentIs'
    <2>1. \A h \in Handle : Aborted(h)' <=> Aborted(h)
        BY <1>1, <1>3, <1>6 DEF Aborted, OnlyCaller
    <2> QED BY <1>1, <1>2, <2>1 DEF SentIs
<1>12. TakenIs'
    BY <1>1, <1>2 DEF TakenIs
<1>13. \A h \in Handle : PlaceIs(h)'
    <2>1. \A h \in Handle : InHand(h)' <=> InHand(h)
        BY <1>1, <1>3, <1>6 DEF InHand, OnlyCaller
    <2> QED BY <1>1, <1>2, <2>1 DEF PlaceIs
<1> QED BY <1>1, <1>2, <1>8, <1>9, <1>10, <1>11, <1>12, <1>13 DEF IInv, Linked
\* A step of a call that leaves the queues and the transfers alone.
LEMMA QuietStep ==
    ASSUME IInv, NEW c \in Caller, OnlyCaller(c), CallIs(c)',
           UNCHANGED <<lists, busy, soFar, status, sent, task, taken>>,
           tx'[c] = tx[c], {pc[c], pc'[c]} \cap {"remove", "complete"} = {}
    PROVE  /\ Linked(lists)' /\ \A d \in Caller : CallIs(d)'
           /\ TakenIs' /\ \A g \in Handle : PlaceIs(g)'
           /\ port'.buffer = port.buffer /\ port'.count = port.count
              /\ (pc[c] = "callback" <=> pc'[c] = "callback") /\ obj'[c] = obj[c] => SentIs'
<1>1. /\ Linked(lists) /\ TakenIs /\ SentIs
      /\ \A g \in Handle : PlaceIs(g)
    BY DEF IInv
<1>2. \A d \in Caller : CallIs(d)'
    BY OthersKeep
<1>3. \A g \in Handle : InHand(g)' <=> InHand(g)
    BY DEF InHand, OnlyCaller
<1>4. \A g \in Handle : PlaceIs(g)'
    BY <1>1, <1>3 DEF PlaceIs
<1>5. ASSUME port'.buffer = port.buffer, port'.count = port.count,
             pc[c] = "callback" <=> pc'[c] = "callback", obj'[c] = obj[c]
      PROVE  SentIs'
    <2>1. \A g \in Handle : Aborted(g)' <=> Aborted(g)
        BY <1>5 DEF Aborted, OnlyCaller
    <2> QED BY <1>1, <1>5, <2>1 DEF SentIs
<1>6. TakenIs'
    BY <1>1 DEF TakenIs
<1> QED BY <1>1, <1>2, <1>4, <1>5, <1>6 DEF Linked

\* The end of a write, and the loop of a blocking one.
LEMMA WrittenStep ==
    ASSUME Rule, IInv, NEW c \in Caller, Runs(c), Written(c) \/ Poll(c) \/ Canceled(c)
    PROVE  IInv'
<1>1. /\ pc[c] \in {"written", "poll", "canceled"}
      /\ UNCHANGED <<lists, busy, soFar, status, sent, port, events, sem, task, taken, head, tx>>
    BY DEF Written, Poll, Canceled, manager, transfer
<1>2. /\ TypeInv /\ Linked(lists) /\ \A d \in Caller : CallIs(d)
      /\ OneStarter /\ Alone /\ PortIs /\ SentIs /\ TakenIs
      /\ \A g \in Handle : PlaceIs(g)
    BY DEF IInv
<1>3. /\ pc'[c] = IF pc[c] # "canceled" /\ obj'[c] # None THEN "poll" ELSE "idle"
      /\ obj'[c] \in {obj[c], None}
      /\ obj'[c] # None => obj[c] \in Blocking
      /\ pc[c] # "poll" => back'[c] = "idle"
      /\ pc[c] = "poll" => back'[c] = back[c]
      /\ pc' \in [Caller -> Steps] /\ obj' \in [Caller -> Ptr]
      /\ back' \in [Caller -> {"idle", "written", "finish", "canceled"}]
      /\ OnlyCaller(c)
    <2>0. \A h \in Handle : h # None
        BY QueueIs
    <2>1. CASE Written(c)
        BY <1>2, <2>0, <2>1, CallerIs DEF Written, GoTo, TypeInv, OnlyCaller, Ptr, Steps
    <2>2. CASE Poll(c)
        <3>1. obj[c] \in Blocking
            BY <1>2, <2>2 DEF Poll, CallIs
        <3> QED BY <1>2, <2>0, <2>2, <3>1, CallerIs DEF Poll, GoTo, TypeInv, OnlyCaller, Ptr, Steps
    <2>3. CASE Canceled(c)
        BY <1>2, <2>0, <2>3, CallerIs DEF Canceled, GoTo, TypeInv, OnlyCaller, Ptr, Steps
    <2> QED BY <2>1, <2>2, <2>3
<1>4. CallIs(c)'
    <2>1. CallIs(c) /\ tx'[c] = tx[c]
        BY <1>1, <1>2
    <2>2. ASSUME c = "manager"
          PROVE  obj'[c] = None
        <3>1. pc[c] = "written" /\ obj[c] \notin Blocking
            BY <1>1, <2>1, <2>2 DEF CallIs, Starting
        <3> QED BY <1>3, <3>1
    <2>3. back'[c] = "idle" /\ pc'[c] \in {"idle", "poll"} /\ tx'[c] = None
        BY <1>1, <1>3, <2>1 DEF CallIs, Starting
    <2>4. pc'[c] = "poll" => obj'[c] \in Blocking /\ c # "manager"
        BY <1>3, <2>2
    <2>5. pc'[c] \notin Starting /\ pc'[c] \notin {"written", "clear", "abort", "callback", "complete",
                                     "finish", "notify", "canceled", "port", "send"}
        BY <2>3 DEF Starting
    <2> QED BY <2>3, <2>4, <2>5 DEF CallIs
<1>5. TypeInv'
    BY <1>1, <1>2, <1>3 DEF TypeInv
<1>6. pc'[c] \in {"idle", "poll"} /\ ~Cancelling(c)' /\ ~Starter(c)' /\ ~Starter(c)
    BY <1>1, <1>3 DEF Cancelling, Starter, Starting
<1>7. OneStarter' /\ Alone' /\ PortIs'
    <2>1. CASE Cancelling(c)
        <3>1. task' = "wait" /\ task = "wait" /\ c # "manager"
            BY <1>1, <2>1, CancelAlone
        <3>2. ~Down /\ ~Aborting /\ ~Down' /\ ~Aborting'
            BY <1>1, <1>3, <1>4, <1>6, <2>1, <3>1, CancelAlone, AfterCancel DEF Starting, Cancelling
        <3> QED BY <1>1, <1>2, <1>3, <1>4, <1>6, <2>1, <3>1, <3>2, CancelAlone, AfterCancel DEF PortIs
    <2>2. CASE ~Cancelling(c)
        <3>1. \A d \in Caller : ~Cancelling(d)
            BY <2>2, RunsBeside
        <3>2. Alone'
            BY <1>3, <1>6, <3>1 DEF Alone, Cancelling, OnlyCaller
        <3>3. OneStarter'
            BY <1>1, <1>2, <1>3, <1>6 DEF OneStarter, Starter, OnlyCaller
        <3>4. pc[c] \notin Starting \cup {"callback", "remove", "abort"}
            BY <1>1 DEF Starting
        <3>5. pc'[c] \notin Starting \cup {"callback", "remove", "abort"}
            BY <1>6 DEF Starting
        <3>6. (Down' <=> Down) /\ (Aborting' <=> Aborting)
            BY <1>3, <3>4, <3>5 DEF Down, Aborting, OnlyCaller
        <3> QED BY <1>1, <1>2, <3>2, <3>3, <3>6 DEF PortIs
    <2> QED BY <2>1, <2>2
<1>8. /\ Linked(lists)' /\ \A d \in Caller : CallIs(d)'
      /\ TakenIs' /\ \A g \in Handle : PlaceIs(g)'
    BY <1>1, <1>3, <1>4, <1>6, QuietStep
<1>9. SentIs'
    <2>1. \A g \in Handle : Aborted(g)' <=> Aborted(g)
        BY <1>1, <1>3, <1>6 DEF Aborted, OnlyCaller
    <2> QED BY <1>1, <1>2, <2>1 DEF SentIs
<1> QED BY <1>5, <1>7, <1>8, <1>9 DEF IInv
\* Serial_UartWrite: the head of the queue has a buffer; a write or a callback
\* finds the port free, a cancel finds it busy.
LEMMA UartWriteStep ==
    ASSUME Rule, IInv, NEW c \in Caller, Runs(c), UartWrite(c)
    PROVE  IInv'
<1>2. /\ TypeInv /\ Linked(lists) /\ \A d \in Caller : CallIs(d)
      /\ OneStarter /\ Alone /\ PortIs /\ SentIs /\ TakenIs
      /\ \A g \in Handle : PlaceIs(g)
    BY DEF IInv
<1>3. /\ pc[c] = "port" /\ pc[c] \in Starting
      /\ head[c] # None /\ head[c] = lists.first["running"]
      /\ back[c] \in {"written", "finish", "canceled"}
    BY <1>2 DEF UartWrite, CallIs, TypeInv, Starting
<1>4. busy[head[c]]
    <2>1. head[c] \in Handle /\ lists.owner[head[c]] = "running"
        BY <1>2, <1>3, HeadOf, QueueIs DEF TypeInv
    <2> QED BY <1>2, <2>1, QueueIs DEF PlaceIs
<1>5. port.busy <=> back[c] = "canceled"
    <2>1. CASE back[c] # "canceled"
        BY <1>2, <1>3, <2>1 DEF Down, PortIs
    <2>2. CASE back[c] = "canceled"
        <3>1. Cancelling(c)
            <4>1. c # "manager"
                BY <1>2, <2>2 DEF CallIs
            <4> QED BY <1>3, <2>2, <4>1 DEF Cancelling
        <3>2. ~Down /\ ~Aborting
            BY <1>3, <2>2, <3>1, CancelAlone
        <3> QED BY <1>2, <1>3, <2>2, <3>2 DEF PortIs
    <2> QED BY <2>1, <2>2
<1>6. /\ UNCHANGED <<lists, busy, soFar, status, sent, port, events, sem, task, taken, obj, tx, back>>
      /\ IF back[c] = "canceled"
         THEN pc' = [pc EXCEPT ![c] = "canceled"] /\ head' = [head EXCEPT ![c] = None]
         ELSE pc' = [pc EXCEPT ![c] = "send"] /\ head' = head
    <2>1. UNCHANGED <<lists, busy, soFar, status, sent, port, events, sem, task, taken, obj, tx, back>>
        BY DEF UartWrite, manager, transfer
    <2>2. CASE back[c] = "canceled"
        <3>1. pc' = [pc EXCEPT ![c] = Failed(c)] /\ head' = [head EXCEPT ![c] = None]
            BY <1>4, <1>5, <2>2 DEF UartWrite, GoTo
        <3> QED BY <2>1, <2>2, <3>1 DEF Failed
    <2>3. CASE back[c] # "canceled"
        <3>1. pc' = [pc EXCEPT ![c] = "send"] /\ head' = head
            BY <1>4, <1>5, <2>3 DEF UartWrite, GoTo
        <3> QED BY <2>1, <2>3, <3>1
    <2> QED BY <2>2, <2>3
<1>7. /\ OnlyCaller(c)
      /\ pc'[c] = IF back[c] = "canceled" THEN "canceled" ELSE "send"
      /\ back[c] # "canceled" => head'[c] = head[c]
    BY <1>2, <1>6 DEF OnlyCaller, TypeInv
<1>8. CallIs(c)'
    <2>1. CallIs(c) /\ obj'[c] = obj[c] /\ tx'[c] = tx[c] /\ back'[c] = back[c]
          /\ lists'.first["running"] = lists.first["running"]
        BY <1>2, <1>6
    <2> QED BY <1>3, <1>7, <2>1 DEF CallIs, Starting
<1>9. TypeInv'
    BY <1>2, <1>6 DEF TypeInv, Steps, Ptr
<1>10. OneStarter' /\ Alone' /\ PortIs'
    <2>1. CASE Cancelling(c)
        <3>1. ~Starter(c)' /\ task' = "wait" /\ task = "wait" /\ c # "manager"
            BY <1>6, <2>1, CancelAlone DEF Cancelling, Starter
        <3>2. (Down' <=> Down) /\ (Aborting' <=> Aborting)
            BY <1>3, <1>6, <1>7, <1>8, <2>1, <3>1, CancelAlone, AfterCancel DEF Starting
        <3> QED BY <1>2, <1>6, <1>7, <1>8, <2>1, <3>1, <3>2, CancelAlone, AfterCancel DEF PortIs
    <2>2. CASE ~Cancelling(c)
        <3>1. \A d \in Caller : ~Cancelling(d)
            BY <2>2, RunsBeside
        <3>2. Starter(c) /\ pc'[c] = "send" /\ back[c] = "written"
            BY <1>3, <1>7, <2>2, NotCancelling DEF Starter
        <3>3. \A d \in Caller : Starter(d)' <=> Starter(d)
            BY <1>6, <1>7, <3>2 DEF OnlyCaller, Starter, Starting
        <3>4. OneStarter'
            BY <1>2, <1>6, <3>3 DEF OneStarter
        <3>5. Alone'
            BY <1>6, <1>7, <3>1, <3>2 DEF Alone, Cancelling, OnlyCaller
        <3>6. Down' /\ Down
            BY <1>6, <3>2 DEF Down, Starter, Starting
        <3>7. ~Aborting /\ ~Aborting'
            BY <1>7, <3>1, <3>2, PortBeside DEF OnlyCaller, Aborting
        <3> QED BY <1>2, <1>6, <3>4, <3>5, <3>6, <3>7 DEF PortIs
    <2> QED BY <2>1, <2>2
<1>11. /\ Linked(lists)' /\ \A d \in Caller : CallIs(d)'
       /\ TakenIs' /\ \A g \in Handle : PlaceIs(g)'
       /\ SentIs'
    BY <1>3, <1>6, <1>7, <1>8, QuietStep
<1> QED BY <1>9, <1>10, <1>11 DEF IInv

\* The adapter takes the head of the queue.
LEMMA UartSendStep ==
    ASSUME Rule, IInv, NEW c \in Caller, Runs(c), UartSend(c)
    PROVE  IInv'
<1>2. /\ TypeInv /\ Linked(lists) /\ \A d \in Caller : CallIs(d)
      /\ OneStarter /\ Alone /\ PortIs /\ SentIs /\ TakenIs
      /\ \A g \in Handle : PlaceIs(g)
    BY DEF IInv
<1>3. /\ pc[c] = "send" /\ pc[c] \in Starting
      /\ head[c] # None /\ head[c] = lists.first["running"]
      /\ back[c] \in {"written", "finish"}
    BY <1>2 DEF UartSend, CallIs, TypeInv, Starting
<1>4. Down /\ port.buffer = None
    BY <1>2, <1>3 DEF Down, PortIs
<1>5. head[c] \in Handle /\ lists.owner[head[c]] = "running"
    BY <1>2, <1>3, HeadOf, QueueIs DEF TypeInv
<1>6. /\ UNCHANGED <<lists, busy, soFar, status, sent, events, sem, task, taken, obj, tx, back>>
      /\ port' = SendOn(head[c])
      /\ pc' = [pc EXCEPT ![c] = back[c]]
      /\ head' = [head EXCEPT ![c] = None]
    BY <1>4 DEF UartSend, GoTo, manager, transfer
<1>7. OnlyCaller(c) /\ pc'[c] = back[c]
    BY <1>2, <1>3, <1>6 DEF OnlyCaller, TypeInv
<1>8. CallIs(c)'
    <2>1. CallIs(c) /\ obj'[c] = obj[c] /\ tx'[c] = tx[c] /\ back'[c] = back[c]
        BY <1>2, <1>6
    <2> QED BY <1>3, <1>7, <2>1 DEF CallIs, Starting
<1>9. TypeInv'
    <2>1. SendOn(head[c]) \in [busy : BOOLEAN, buffer : Ptr, count : 0 .. Length - 1, txlvl : BOOLEAN]
        BY <1>5, CallerIs DEF SendOn, Ptr
    <2> QED BY <1>2, <1>3, <1>6, <2>1 DEF TypeInv, Steps, Ptr
<1>10. OneStarter' /\ Alone' /\ ~Down' /\ ~Aborting' /\ \A h \in Handle : ~Aborted(h) /\ ~Aborted(h)'
    <2>1. CASE Cancelling(c)
        <3>1. ~Starter(c)' /\ task' = "wait" /\ task = "wait" /\ c # "manager"
            BY <1>6, <2>1, CancelAlone DEF Cancelling, Starter
        <3> QED BY <1>3, <1>6, <1>7, <1>8, <2>1, <3>1, CancelAlone, AfterCancel DEF Starting
    <2>2. CASE ~Cancelling(c)
        <3>1. \A d \in Caller : ~Cancelling(d)
            BY <2>2, RunsBeside
        <3>2. Starter(c) /\ pc'[c] = "written" /\ back[c] = "written"
            BY <1>3, <1>7, <2>2, NotCancelling DEF Starter
        <3>3. \A d \in Caller : ~Starter(d)'
            BY <1>2, <1>6, <1>7, <3>2 DEF OnlyCaller, Starter, Starting, OneStarter
        <3>4. OneStarter'
            BY <3>3 DEF OneStarter
        <3>5. Alone'
            BY <1>6, <1>7, <3>1, <3>2 DEF Alone, Cancelling, OnlyCaller
        <3>6. \A d \in Caller : pc[d] \in {"idle", "poll", "written"} \/ Starter(d)
            BY <3>1, NotCancelling
        <3>7. \A d \in Caller : pc'[d] \in {"idle", "poll", "written"}
            BY <1>2, <1>7, <3>2, <3>6 DEF OnlyCaller, OneStarter
        <3>8. \A h \in Handle : ~Aborted(h)
            BY <3>1, PortBeside
        <3> QED BY <3>4, <3>5, <3>7, <3>8 DEF Down, Aborting, Aborted, Starting
    <2> QED BY <2>1, <2>2
<1>11. PortIs'
    BY <1>3, <1>6, <1>10 DEF PortIs, SendOn
<1>12. SentIs'
    BY <1>2, <1>4, <1>6, <1>10, QueueIs DEF SentIs, SendOn
<1>13. /\ Linked(lists)' /\ \A d \in Caller : CallIs(d)'
       /\ TakenIs' /\ \A g \in Handle : PlaceIs(g)'
    BY <1>3, <1>6, <1>7, <1>8, QuietStep
<1> QED BY <1>9, <1>10, <1>11, <1>12, <1>13 DEF IInv
\* SerialManager_CancelWriting begins while nobody starts a write: the port
\* sends the head of the queue.
LEMMA CancelStep ==
    ASSUME Rule, IInv, NEW c \in Caller, NEW h \in Handle, Cancel(c, h)
    PROVE  IInv'
<1>1. /\ Runs(c) /\ c \in User /\ pc[c] = "idle"
      /\ \A d \in Caller \ {c} : pc[d] \in {"idle", "poll"}
      /\ h \notin Blocking /\ Cancels = "guarded" /\ ~Light
      /\ obj' = [obj EXCEPT ![c] = h]
      /\ IF lists.first["running"] = h
         THEN pc' = [pc EXCEPT ![c] = "clear"] /\ lists' = lists
         ELSE /\ lists.owner[h] # None /\ lists' = RemoveElement(lists, h)
              /\ pc' = [pc EXCEPT ![c] = "complete"]
      /\ UNCHANGED <<busy, soFar, status, sent, port, events, sem, task, taken, head, tx, back>>
    BY DEF Cancel, MayCancel, Rule, GoTo, manager, transfer
<1>2. /\ TypeInv /\ Linked(lists) /\ \A d \in Caller : CallIs(d)
      /\ OneStarter /\ Alone /\ PortIs /\ SentIs /\ TakenIs
      /\ \A g \in Handle : PlaceIs(g)
    BY DEF IInv
<1>3. /\ lists' \in ListType /\ Linked(lists)'
      /\ lists'.first["running"] = lists.first["running"]
      /\ \A g \in Handle \ {h} : lists'.owner[g] = lists.owner[g]
      /\ lists'.owner[h] = IF lists.first["running"] = h THEN "running" ELSE None
      /\ lists.owner[h] # None
    <2>1. lists \in ListType /\ Linked(lists) /\ lists.owner \in [Handle -> Queue \cup {None}]
        BY <1>2, ListFields DEF TypeInv
    <2>2. CASE lists.first["running"] = h
        <3>1. lists.owner[h] = "running"
            BY <2>1, <2>2, HeadOf, QueueIs
        <3> QED BY <1>1, <2>1, <2>2, <3>1, QueueIs DEF Linked
    <2>3. CASE lists.first["running"] # h
        <3>1. lists' = RemoveElement(lists, h) /\ lists.owner[h] # None
            BY <1>1, <2>3
        <3>2. /\ lists' \in ListType /\ Linked(lists)'
              /\ lists'.owner = [lists.owner EXCEPT ![h] = None]
              /\ \A p \in Queue : lists.first[p] # h => lists'.first[p] = lists.first[p]
            BY <1>1, <2>1, <3>1, RemoveElementIs DEF Linked
        <3> QED BY <2>1, <2>3, <3>1, <3>2, QueueIs
    <2> QED BY <2>2, <2>3
<1>4. h # None /\ h \notin Blocking
    BY <1>1, <1>2, <1>3, QueueIs DEF PlaceIs
<1>5. /\ c # "manager" /\ task = "wait" /\ task' = "wait"
      /\ OnlyCaller(c)
      /\ pc'[c] = IF lists.first["running"] = h THEN "clear" ELSE "complete"
      /\ obj'[c] = h /\ back'[c] = "idle" /\ tx'[c] = None
      /\ back[c] = "idle" /\ tx[c] = None
    BY <1>1, <1>2, RunsBeside, CallerIs DEF OnlyCaller, TypeInv, CallIs, Starting
<1>6. CallIs(c)'
    BY <1>3, <1>4, <1>5 DEF CallIs, Starting
<1>7. TypeInv'
    BY <1>1, <1>2, <1>3 DEF TypeInv, Steps, Ptr
<1>8. /\ \A d \in Caller : CallIs(d)'
      /\ OneStarter' /\ Alone' /\ TakenIs'
      /\ ~Down' /\ ~Aborting'
      /\ \A g \in Handle : ~Aborted(g)'
      /\ \A g \in Handle : InHand(g)' <=> (pc'[c] = "complete" /\ h = g)
    <2>1. ~Starter(c)'
        BY <1>5 DEF Starter, Starting
    <2> QED BY <1>1, <1>5, <1>6, <2>1, AfterCancel, QueueIs DEF Starting
<1>9. /\ ~Down /\ ~Aborting
      /\ \A g \in Handle : ~Aborted(g) /\ ~InHand(g)
    <2>1. \A d \in Caller : ~Cancelling(d) /\ tx[d] = None
        BY <1>1, NotCancelling DEF Cancelling
    <2> QED BY <1>1, <1>5, <2>1, QueueIs DEF Down, Aborting, Aborted, InHand, Starting
<1>10. PortIs'
    BY <1>1, <1>2, <1>3, <1>8, <1>9 DEF PortIs
<1>11. SentIs'
    BY <1>1, <1>2, <1>3, <1>8, <1>9, QueueIs DEF SentIs
<1>12. \A g \in Handle : PlaceIs(g)'
    <2> SUFFICES ASSUME NEW g \in Handle PROVE PlaceIs(g)'
        OBVIOUS
    <2>1. PlaceIs(g)
        BY <1>2
    <2>2. CASE g = h
        BY <1>1, <1>3, <1>5, <1>8, <1>9, <2>1, <2>2, QueueIs DEF PlaceIs
    <2>3. CASE g # h
        BY <1>1, <1>3, <1>8, <1>9, <2>1, <2>3 DEF PlaceIs
    <2> QED BY <2>2, <2>3
<1> QED BY <1>3, <1>7, <1>8, <1>10, <1>11, <1>12 DEF IInv

\* Serial_UartCancelWrite and the event of a cancel: a write in progress finds
\* the port busy.
LEMMA AbortStep ==
    ASSUME Rule, IInv, NEW c \in Caller, Runs(c),
           ClearBusy(c) \/ Abort(c) \/ Notify(c)
    PROVE  IInv'
<1>1. /\ pc[c] \in {"clear", "abort", "notify"}
      /\ UNCHANGED <<lists, busy, soFar, status, sent, task, taken, obj, head, tx>>
    BY DEF ClearBusy, Abort, Notify, manager, transfer, IInv, TypeInv, Steps
<1>2. /\ TypeInv /\ Linked(lists) /\ \A d \in Caller : CallIs(d)
      /\ OneStarter /\ Alone /\ PortIs /\ SentIs /\ TakenIs
      /\ \A g \in Handle : PlaceIs(g)
    BY DEF IInv
<1>3. /\ CallIs(c) /\ tx[c] = None
      /\ pc[c] # "notify" => back[c] = "idle" /\ obj[c] # None
                             /\ obj[c] = lists.first["running"] /\ obj[c] \notin Blocking
    BY <1>1, <1>2 DEF CallIs, Starting
<1>4. Cancelling(c)
    BY <1>1, <1>2 DEF CallIs, Cancelling, Starting
<1>5. /\ ~Down /\ (Aborting <=> pc[c] = "abort")
      /\ Cancels = "guarded" /\ task = "wait" /\ task' = "wait" /\ c # "manager"
      /\ \A d \in Caller \ {c} : pc[d] \in {"idle", "poll"}
      /\ \A g \in Handle : ~Aborted(g)
    BY <1>1, <1>4, CancelAlone DEF Starting
<1>6. /\ port.busy <=> pc[c] = "clear" \/ (pc[c] = "notify" /\ port.buffer # None)
      /\ port.buffer = lists.first["running"]
    BY <1>1, <1>2, <1>3, <1>5 DEF PortIs
<1>7. \/ /\ pc[c] = "clear" /\ pc' = [pc EXCEPT ![c] = "abort"]
         /\ port' = [port EXCEPT !.busy = FALSE]
         /\ UNCHANGED <<events, sem, back>>
      \/ /\ pc[c] = "abort" /\ pc' = [pc EXCEPT ![c] = "callback"]
         /\ port' = [port EXCEPT !.buffer = None, !.txlvl = FALSE]
         /\ back' = [back EXCEPT ![c] = "canceled"]
         /\ UNCHANGED <<events, sem>>
      \/ /\ pc[c] = "notify" /\ pc' = [pc EXCEPT ![c] = "start"]
         /\ back' = [back EXCEPT ![c] = "canceled"]
         /\ events' = events + 1 /\ sem' = sem + 1
         /\ UNCHANGED port
    <2>1. CASE ClearBusy(c)
        BY <1>6, <2>1 DEF ClearBusy, GoTo
    <2>2. CASE Abort(c)
        BY <1>1, <1>3, <1>6, <2>2 DEF Abort, GoTo
    <2>3. CASE Notify(c)
        BY <2>3 DEF Notify, GoTo
    <2> QED BY <2>1, <2>2, <2>3
<1>8. /\ OnlyCaller(c)
      /\ pc'[c] = CASE pc[c] = "clear" -> "abort" [] pc[c] = "abort" -> "callback"
                    [] pc[c] = "notify" -> "start"
      /\ back'[c] = IF pc[c] = "clear" THEN "idle" ELSE "canceled"
      /\ obj'[c] = obj[c] /\ tx'[c] = None
      /\ port'.buffer = IF pc[c] = "abort" THEN None ELSE port.buffer
      /\ port'.count = port.count
      /\ port'.busy <=> pc[c] = "notify" /\ port.busy
    BY <1>1, <1>2, <1>3, <1>6, <1>7 DEF OnlyCaller, TypeInv
<1>9. CallIs(c)'
    BY <1>1, <1>3, <1>5, <1>8 DEF CallIs, Starting
<1>10. TypeInv'
    <2>1. port' \in [busy : BOOLEAN, buffer : Ptr, count : 0 .. Length - 1, txlvl : BOOLEAN]
        BY <1>2, <1>7 DEF TypeInv, Ptr
    <2>2. /\ pc' \in [Caller -> Steps]
          /\ back' \in [Caller -> {"idle", "written", "finish", "canceled"}]
        BY <1>2, <1>7 DEF TypeInv, Steps
    <2>3. events' \in Int /\ sem' \in Int
        BY <1>2, <1>7 DEF TypeInv
    <2> QED BY <1>1, <1>2, <2>1, <2>2, <2>3 DEF TypeInv
<1>11. /\ OneStarter' /\ Alone'
       /\ Down' <=> pc'[c] = "callback"
       /\ Aborting' <=> pc'[c] = "abort"
       /\ \A g \in Handle : Aborted(g)' <=> pc'[c] = "callback" /\ obj[c] = g
    <2>1. ~Starter(c)'
        BY <1>1, <1>8 DEF Starter, Starting
    <2> QED BY <1>1, <1>5, <1>8, <1>9, <2>1, AfterCancel DEF Starting
<1>12. PortIs'
    BY <1>1, <1>6, <1>8, <1>11 DEF PortIs
<1>13. SentIs'
    <2>1. ASSUME NEW g \in Handle, lists.owner[g] = "running", ~Aborted(g)'
          PROVE  sent[g] = IF port'.buffer = g THEN port'.count ELSE 0
        BY <1>1, <1>2, <1>3, <1>5, <1>6, <1>8, <1>11, <2>1, QueueIs DEF SentIs
    <2> QED BY <1>1, <1>2, <2>1 DEF SentIs
<1>14. /\ Linked(lists)' /\ \A d \in Caller : CallIs(d)'
       /\ TakenIs' /\ \A g \in Handle : PlaceIs(g)'
    BY <1>1, <1>3, <1>8, <1>9, QuietStep
<1> QED BY <1>10, <1>11, <1>12, <1>13, <1>14 DEF IInv
\* SerialManager_TxCallback in the canceling task looks at the write it cancels ...
LEMMA TxCallbackStep ==
    ASSUME Rule, IInv, NEW c \in Caller, Runs(c), TxCallback(c)
    PROVE  IInv'
<1>1. /\ TypeInv /\ Linked(lists) /\ \A d \in Caller : CallIs(d)
      /\ OneStarter /\ Alone /\ PortIs /\ SentIs /\ TakenIs
      /\ \A g \in Handle : PlaceIs(g)
    BY DEF IInv
<1>2. /\ pc[c] = "callback" /\ back[c] = "canceled" /\ tx[c] = None
      /\ obj[c] = lists.first["running"] /\ obj[c] # None /\ obj[c] \notin Blocking
    BY <1>1 DEF TxCallback, CallIs, Starting
<1>3. /\ tx' = [tx EXCEPT ![c] = obj[c]] /\ pc' = [pc EXCEPT ![c] = "remove"]
      /\ UNCHANGED <<lists, busy, soFar, status, sent, port, events, sem, task, taken, obj, head, back>>
    BY <1>2 DEF TxCallback, GoTo, manager, transfer
<1>4. Cancelling(c)
    BY <1>1, <1>2 DEF CallIs, Cancelling, Starting
<1>5. /\ Cancels = "guarded" /\ Down /\ ~Aborting
      /\ task = "wait" /\ task' = "wait" /\ c # "manager"
      /\ \A d \in Caller \ {c} : pc[d] \in {"idle", "poll"}
      /\ \A g \in Handle : Aborted(g) <=> obj[c] = g
      /\ \A g \in Handle : ~InHand(g)
    BY <1>2, <1>3, <1>4, CancelAlone, QueueIs
<1>6. /\ OnlyCaller(c)
      /\ pc'[c] = "remove" /\ back'[c] = "canceled" /\ tx'[c] = obj[c] /\ obj'[c] = obj[c]
    BY <1>1, <1>2, <1>3 DEF OnlyCaller, TypeInv
<1>7. CallIs(c)'
    BY <1>2, <1>3, <1>5, <1>6 DEF CallIs, Starting
<1>8. TypeInv'
    BY <1>1, <1>3 DEF TypeInv, Steps
<1>9. /\ \A d \in Caller : CallIs(d)'
      /\ OneStarter' /\ Alone' /\ TakenIs'
      /\ Down' /\ ~Aborting'
      /\ \A g \in Handle : Aborted(g)' <=> obj[c] = g
      /\ \A g \in Handle : ~InHand(g)'
    <2>1. ~Starter(c)'
        BY <1>6 DEF Starter
    <2> QED BY <1>5, <1>6, <1>7, <2>1, AfterCancel DEF Starting
<1>10. PortIs'
    BY <1>1, <1>3, <1>5, <1>9 DEF PortIs
<1>11. SentIs'
    BY <1>1, <1>3, <1>5, <1>9 DEF SentIs
<1>12. \A g \in Handle : PlaceIs(g)'
    BY <1>1, <1>3, <1>5, <1>9 DEF PlaceIs
<1> QED BY <1>1, <1>3, <1>8, <1>9, <1>10, <1>11, <1>12 DEF IInv, Linked

\* ... and takes it.
LEMMA RemoveStep ==
    ASSUME Rule, IInv, NEW c \in Caller, Runs(c), Remove(c)
    PROVE  IInv'
<1>2. /\ TypeInv /\ Linked(lists) /\ \A d \in Caller : CallIs(d)
      /\ OneStarter /\ Alone /\ PortIs /\ SentIs /\ TakenIs
      /\ \A g \in Handle : PlaceIs(g)
    BY DEF IInv
<1> DEFINE h == lists.first["running"]
<1>3. /\ pc[c] = "remove" /\ back[c] = "canceled" /\ tx[c] = h
      /\ obj[c] = h /\ h # None /\ h \notin Blocking
    BY <1>2 DEF Remove, CallIs, Starting
<1>4. h \in Handle /\ lists.owner[h] = "running" /\ lists \in ListType
    BY <1>2, <1>3, HeadOf, QueueIs DEF TypeInv
<1>5. /\ lists' = RemoveHead(lists, "running")
      /\ pc' = [pc EXCEPT ![c] = "start"] /\ back' = [back EXCEPT ![c] = "finish"]
      /\ UNCHANGED <<busy, soFar, status, sent, port, events, sem, task, taken, obj, head, tx>>
    BY DEF Remove, GoTo, manager, transfer
<1>6. /\ lists' \in ListType /\ Linked(lists)'
      /\ lists'.owner = [lists.owner EXCEPT ![h] = None]
    BY <1>2, <1>3, <1>4, <1>5, RemoveHeadIs, QueueIs DEF Linked
<1>7. Cancelling(c)
    BY <1>2, <1>3 DEF CallIs, Cancelling, Starting
<1> HIDE DEF h
<1>8. /\ Cancels = "guarded" /\ Down /\ task = "wait" /\ task' = "wait" /\ c # "manager"
      /\ \A d \in Caller \ {c} : pc[d] \in {"idle", "poll"}
      /\ \A g \in Handle : Aborted(g) <=> g = h
      /\ \A g \in Handle : ~InHand(g)
    BY <1>3, <1>5, <1>7, CancelAlone, QueueIs
<1>9. /\ OnlyCaller(c)
      /\ pc'[c] = "start" /\ back'[c] = "finish" /\ tx'[c] = h /\ obj'[c] = obj[c]
    BY <1>2, <1>3, <1>5 DEF OnlyCaller, TypeInv
<1>10. CallIs(c)'
    BY <1>3, <1>8, <1>9 DEF CallIs, Starting
<1>11. TypeInv'
    BY <1>2, <1>4, <1>5, <1>6 DEF TypeInv, Steps, Ptr
<1>12. /\ \A d \in Caller : CallIs(d)'
       /\ OneStarter' /\ Alone' /\ TakenIs'
       /\ Down' /\ ~Aborting'
       /\ \A g \in Handle : ~Aborted(g)'
       /\ \A g \in Handle : InHand(g)' <=> g = h
    <2>1. ~Starter(c)'
        BY <1>9 DEF Starter
    <2> QED BY <1>8, <1>9, <1>10, <2>1, AfterCancel DEF Starting
<1>13. port.buffer = None
    BY <1>2, <1>8 DEF PortIs
<1>14. PortIs'
    BY <1>2, <1>5, <1>8, <1>12 DEF PortIs
<1>15. \A g \in Handle : lists'.owner[g] = IF g = h THEN None ELSE lists.owner[g]
    <2>1. lists.owner \in [Handle -> Queue \cup {None}]
        BY <1>4, ListFields
    <2> QED BY <1>6, <2>1
<1>16. SentIs'
    BY <1>2, <1>5, <1>8, <1>13, <1>15, QueueIs DEF SentIs
<1>17. \A g \in Handle : PlaceIs(g)'
    BY <1>2, <1>4, <1>5, <1>8, <1>12, <1>15, QueueIs DEF PlaceIs
<1> QED BY <1>6, <1>11, <1>12, <1>14, <1>16, <1>17 DEF IInv

\* A canceled write is handed to the manager's task.
LEMMA HandOverStep ==
    ASSUME Rule, IInv, NEW c \in Caller, Runs(c), Complete(c) \/ Finish(c)
    PROVE  IInv'
<1>2. /\ TypeInv /\ Linked(lists) /\ \A d \in Caller : CallIs(d)
      /\ OneStarter /\ Alone /\ PortIs /\ SentIs /\ TakenIs
      /\ \A g \in Handle : PlaceIs(g)
    BY DEF IInv
<1> DEFINE h == IF pc[c] = "complete" THEN obj[c] ELSE tx[c]
<1>3. /\ pc[c] \in {"complete", "finish"}
      /\ back[c] = IF pc[c] = "complete" THEN "idle" ELSE "finish"
      /\ h # None /\ h \notin Blocking /\ h \in Handle
      /\ pc[c] = "complete" => tx[c] = None
    BY <1>2 DEF Complete, Finish, CallIs, Starting, TypeInv, Ptr
<1>4. Cancelling(c)
    <2>1. c # "manager"
        BY <1>2, <1>3 DEF CallIs, Starting
    <2> QED BY <1>3, <2>1 DEF Cancelling
<1>5. /\ Cancels = "guarded" /\ ~Down /\ ~Aborting /\ task = "wait" /\ c # "manager"
      /\ \A d \in Caller \ {c} : pc[d] \in {"idle", "poll"}
      /\ \A g \in Handle : ~Aborted(g)
      /\ \A g \in Handle : InHand(g) <=> g = h
    BY <1>3, <1>4, CancelAlone, QueueIs DEF Starting
<1>6. \E n \in {0, Length} : /\ soFar' = [soFar EXCEPT ![h] = n]
                             /\ status' = [status EXCEPT ![h] = "canceled"]
                             /\ lists' = AddTail(lists, "completed", h)
                             /\ pc' = [pc EXCEPT ![c] = "notify"]
                             /\ tx' = IF pc[c] = "complete" THEN tx ELSE [tx EXCEPT ![c] = None]
                             /\ UNCHANGED <<busy, sent, port, events, sem, task, taken, obj, head, back>>
    <2>1. CASE Complete(c)
        BY <2>1 DEF Complete, GoTo, manager
    <2>2. CASE Finish(c)
        BY <1>3, <2>2 DEF Finish, GoTo, manager
    <2> QED BY <2>1, <2>2
<1> HIDE DEF h
<1>7. lists.owner[h] = None /\ busy[h]
    BY <1>2, <1>3, <1>5 DEF PlaceIs
<1>8. /\ lists' \in ListType /\ Linked(lists)'
      /\ \A g \in Handle : lists'.owner[g] = IF g = h THEN "completed" ELSE lists.owner[g]
      /\ lists'.first["running"] = lists.first["running"]
    <2>1. lists \in ListType /\ lists.owner \in [Handle -> Queue \cup {None}]
          /\ lists.first \in [Queue -> Ptr]
        BY <1>2, ListFields DEF TypeInv
    <2>2. /\ AddTail(lists, "completed", h) \in ListType
          /\ Linked(AddTail(lists, "completed", h))
          /\ AddTail(lists, "completed", h).owner = [lists.owner EXCEPT ![h] = "completed"]
          /\ AddTail(lists, "completed", h).first =
                 [lists.first EXCEPT !["completed"] = IF lists.first["completed"] = None THEN h ELSE @]
        BY <1>2, <1>3, <1>7, <2>1, AddTailIs, QueueIs
    <2>3. lists' = AddTail(lists, "completed", h)
        BY <1>6
    <2>4. Linked(lists)'
        BY <2>2, <2>3 DEF Linked
    <2> QED BY <2>1, <2>2, <2>3, <2>4, QueueIs
<1>9. /\ OnlyCaller(c)
      /\ pc'[c] = "notify" /\ back'[c] = back[c] /\ tx'[c] = None
      /\ task' = "wait"
    BY <1>2, <1>3, <1>5, <1>6 DEF OnlyCaller, TypeInv
<1>10. CallIs(c)'
    BY <1>3, <1>5, <1>9 DEF CallIs, Starting
<1>11. TypeInv'
    BY <1>2, <1>3, <1>6, <1>8, CallerIs DEF TypeInv, Steps, Ptr
<1>12. /\ \A d \in Caller : CallIs(d)'
       /\ OneStarter' /\ Alone' /\ TakenIs'
       /\ ~Down' /\ ~Aborting'
       /\ \A g \in Handle : ~Aborted(g)'
       /\ \A g \in Handle : ~InHand(g)'
    <2>1. ~Starter(c)'
        BY <1>9 DEF Starter, Starting
    <2> QED BY <1>5, <1>9, <1>10, <2>1, AfterCancel, QueueIs DEF Starting
<1>13. PortIs'
    BY <1>2, <1>5, <1>6, <1>8, <1>12 DEF PortIs
<1>14. SentIs'
    <2>1. \A g \in Handle \ {h} : soFar'[g] = soFar[g] /\ status'[g] = status[g]
        BY <1>2, <1>6 DEF TypeInv
    <2>2. status'[h] = "canceled" /\ sent' = sent /\ port' = port
        BY <1>2, <1>3, <1>6 DEF TypeInv
    <2> QED BY <1>2, <1>3, <1>5, <1>8, <1>12, <2>1, <2>2, CallerIs, QueueIs DEF SentIs
<1>15. \A g \in Handle : PlaceIs(g)'
    <2>1. busy' = busy
        BY <1>6
    <2> QED BY <1>2, <1>5, <1>7, <1>8, <1>12, <2>1, QueueIs DEF PlaceIs
<1> QED BY <1>8, <1>11, <1>12, <1>13, <1>14, <1>15 DEF IInv
\* While the interrupts are open nobody cancels; a port that sends, sends the
\* head of the queue, and no write starts it.
LEMMA PortSends ==
    ASSUME IInv, NobodyMasks
    PROVE  /\ \A d \in Caller : ~Cancelling(d) /\ tx[d] = None
           /\ \A d \in Caller : pc[d] \in {"idle", "poll", "written"} \/ Starter(d)
           /\ ~Aborting /\ \A g \in Handle : ~Aborted(g)
           /\ port.buffer # None =>
                  /\ ~Down /\ port.busy /\ port.buffer = lists.first["running"]
                  /\ port.buffer \in Handle /\ lists.owner[port.buffer] = "running"
                  /\ \A d \in Caller : pc[d] \in {"idle", "poll", "written"}
<1>1. \A d \in Caller : ~Cancelling(d)
    BY DEF NobodyMasks, Masks, IInv, Alone
<1>2. /\ \A d \in Caller : tx[d] = None
      /\ \A d \in Caller : pc[d] \in {"idle", "poll", "written"} \/ Starter(d)
      /\ ~Aborting /\ (Down <=> \E d \in Caller : Starter(d))
      /\ \A g \in Handle : ~Aborted(g)
    BY <1>1, NotCancelling, PortBeside
<1>3. ASSUME port.buffer # None
      PROVE  /\ ~Down /\ port.busy /\ port.buffer = lists.first["running"]
             /\ port.buffer \in Handle /\ lists.owner[port.buffer] = "running"
    <2>1. ~Down /\ port.busy /\ port.buffer = lists.first["running"]
        BY <1>2, <1>3 DEF IInv, PortIs
    <2>2. lists \in ListType /\ Linked(lists) /\ lists.first["running"] # None
        BY <1>3, <2>1 DEF IInv, TypeInv
    <2> QED BY <2>1, <2>2, HeadOf, QueueIs
<1> QED BY <1>1, <1>2, <1>3

\* The steps of the interrupt and of the manager's task leave the calls alone.
LEMMA CallsKeep ==
    ASSUME IInv, UNCHANGED <<pc, obj, head, tx, back>>,
           \A d \in Caller : ~Cancelling(d),
           \/ lists'.first["running"] = lists.first["running"]
           \/ \A d \in Caller : pc[d] \in {"idle", "poll", "written"}
    PROVE  /\ \A d \in Caller : CallIs(d)'
           /\ OneStarter' /\ Alone'
           /\ (Down' <=> Down) /\ (Aborting' <=> Aborting)
           /\ \A g \in Handle : Aborted(g)' <=> Aborted(g)
           /\ \A g \in Handle : InHand(g)' <=> (task' = "report" /\ taken' = g)
           /\ \A g \in Handle : InHand(g) <=> (task = "report" /\ taken = g)
<1>1. \A d \in Caller : /\ pc[d] \in {"idle", "poll", "written"} \/ Starter(d)
                        /\ tx[d] = None
    BY NotCancelling
<1>2. \A d \in Caller : CallIs(d)'
    <2> SUFFICES ASSUME NEW d \in Caller PROVE CallIs(d)'
        OBVIOUS
    <2>1. CallIs(d)
        BY DEF IInv
    <2> QED BY <1>1, <2>1 DEF CallIs, Starter, Starting
<1>3. OneStarter'
    BY <1>1 DEF IInv, OneStarter, Starter, Starting
<1>4. Alone'
    BY DEF Alone, Cancelling
<1> QED BY <1>1, <1>2, <1>3, <1>4, QueueIs DEF Down, Aborting, Aborted, InHand, Starter, Starting

\* One byte of the write at the head.
LEMMA SendByteStep ==
    ASSUME Rule, IInv, NobodyMasks, SendByte
    PROVE  IInv'
<1>2. /\ TypeInv /\ Linked(lists) /\ \A d \in Caller : CallIs(d)
      /\ OneStarter /\ Alone /\ PortIs /\ SentIs /\ TakenIs
      /\ \A g \in Handle : PlaceIs(g)
    BY DEF IInv
<1>3. /\ port.buffer # None /\ port.count + 1 < Length
      /\ port' = [port EXCEPT !.count = @ + 1]
      /\ sent' = [sent EXCEPT ![port.buffer] = @ + 1]
      /\ UNCHANGED <<lists, busy, soFar, status, events, sem, task, taken, pc, obj, head, tx, back>>
    BY DEF SendByte, manager, transfer, calls
<1> DEFINE h == port.buffer
<1>4. /\ \A d \in Caller : ~Cancelling(d)
      /\ h \in Handle /\ lists.owner[h] = "running"
      /\ \A g \in Handle : ~Aborted(g)
    BY <1>3, PortSends
<1>5. /\ \A d \in Caller : CallIs(d)'
      /\ OneStarter' /\ Alone'
      /\ (Down' <=> Down) /\ (Aborting' <=> Aborting)
      /\ \A g \in Handle : Aborted(g)' <=> Aborted(g)
      /\ \A g \in Handle : InHand(g)' <=> InHand(g)
    BY <1>3, <1>4, CallsKeep
<1>6. sent[h] = port.count /\ soFar[h] = 0 /\ port.count \in Nat /\ sent \in [Handle -> 0 .. Length]
    BY <1>2, <1>4 DEF SentIs, TypeInv
<1>7. /\ port'.buffer = h /\ port'.busy = port.busy /\ port'.count = port.count + 1
      /\ port' \in [busy : BOOLEAN, buffer : Ptr, count : 0 .. Length - 1, txlvl : BOOLEAN]
      /\ sent' \in [Handle -> 0 .. Length] /\ sent'[h] = port.count + 1
      /\ \A g \in Handle \ {h} : sent'[g] = sent[g]
    BY <1>2, <1>3, <1>4, <1>6, CallerIs DEF TypeInv
<1>8. TypeInv'
    BY <1>2, <1>3, <1>7 DEF TypeInv
<1>9. PortIs'
    BY <1>2, <1>3, <1>5, <1>7 DEF PortIs
<1>10. SentIs'
    BY <1>2, <1>3, <1>4, <1>5, <1>6, <1>7, CallerIs, QueueIs DEF SentIs
<1>11. TakenIs' /\ \A g \in Handle : PlaceIs(g)'
    BY <1>2, <1>3, <1>5 DEF TakenIs, PlaceIs
<1> QED BY <1>2, <1>3, <1>5, <1>8, <1>9, <1>10, <1>11 DEF IInv, Linked

\* The last byte: the head is done, and the write behind it starts.
LEMMA SendLastStep ==
    ASSUME Rule, IInv, NobodyMasks, SendLast
    PROVE  IInv'
<1>2. /\ TypeInv /\ Linked(lists) /\ \A d \in Caller : CallIs(d)
      /\ OneStarter /\ Alone /\ PortIs /\ SentIs /\ TakenIs
      /\ \A g \in Handle : PlaceIs(g)
    BY DEF IInv
<1> DEFINE h == lists.first["running"]
           l == RemoveHead(lists, "running")
<1>3. /\ port.buffer # None /\ port.count + 1 = Length
      /\ UNCHANGED <<task, taken, pc, obj, head, tx, back>>
    BY DEF SendLast, manager, calls
<1>4. /\ \A d \in Caller : ~Cancelling(d)
      /\ \A d \in Caller : pc[d] \in {"idle", "poll", "written"}
      /\ \A g \in Handle : ~Aborted(g)
      /\ ~Down /\ ~Aborting /\ port.busy /\ port.buffer = h
      /\ h \in Handle /\ lists.owner[h] = "running" /\ h # None
    BY <1>3, PortSends
<1>5. /\ sent' = [sent EXCEPT ![h] = @ + 1]
      /\ port' = Started(l)
      /\ soFar' = [soFar EXCEPT ![h] = Length]
      /\ status' = [status EXCEPT ![h] = "success"]
      /\ IF h \in Blocking
         THEN busy' = [busy EXCEPT ![h] = FALSE] /\ lists' = l /\ UNCHANGED <<events, sem>>
         ELSE /\ lists' = AddTail(l, "completed", h) /\ busy' = busy
              /\ events' = events + 1 /\ sem' = sem + 1
    BY <1>4 DEF SendLast
<1> HIDE DEF h, l
<1>6. /\ l \in ListType /\ Linked(l)
      /\ l.owner = [lists.owner EXCEPT ![h] = None]
      /\ l.first["completed"] = lists.first["completed"]
    <2>1. lists \in ListType
        BY <1>2 DEF TypeInv
    <2>2. lists.first["running"] # None
        BY <1>4 DEF h
    <2>3. /\ l \in ListType /\ Linked(l)
          /\ l.owner = [lists.owner EXCEPT ![h] = None]
          /\ \A p \in Queue \ {"running"} : l.first[p] = lists.first[p]
        BY <1>2, <2>1, <2>2, RemoveHeadIs, QueueIs DEF h, l
    <2> QED BY <2>3, QueueIs
<1>7. /\ lists' \in ListType /\ Linked(lists)'
      /\ \A g \in Handle : lists'.owner[g] = IF g # h THEN lists.owner[g]
                                             ELSE IF h \in Blocking THEN None ELSE "completed"
      /\ lists'.first["running"] = l.first["running"]
      /\ lists.first["completed"] # None => lists'.first["completed"] = lists.first["completed"]
    <2>1. /\ lists.owner \in [Handle -> Queue \cup {None}]
          /\ l.owner \in [Handle -> Queue \cup {None}] /\ l.first \in [Queue -> Ptr]
        BY <1>2, <1>6, ListFields DEF TypeInv
    <2>2. CASE h \in Blocking
        BY <1>5, <1>6, <2>1, <2>2 DEF Linked
    <2>3. CASE h \notin Blocking
        <3>1. l.owner[h] = None
            BY <1>4, <1>6, <2>1
        <3>2. /\ AddTail(l, "completed", h) \in ListType
              /\ Linked(AddTail(l, "completed", h))
              /\ AddTail(l, "completed", h).owner = [l.owner EXCEPT ![h] = "completed"]
              /\ AddTail(l, "completed", h).first =
                     [l.first EXCEPT !["completed"] = IF l.first["completed"] = None THEN h ELSE @]
            BY <1>4, <1>6, <3>1, AddTailIs, QueueIs
        <3>3. lists' = AddTail(l, "completed", h)
            BY <1>5, <2>3
        <3>4. Linked(lists)'
            BY <3>2, <3>3 DEF Linked
        <3> QED BY <1>4, <1>6, <2>1, <2>3, <3>2, <3>3, <3>4, QueueIs
    <2> QED BY <2>2, <2>3
<1>8. lists'.first["running"] # None =>
          lists'.first["running"] \in Handle /\ lists'.owner[lists'.first["running"]] = "running"
    <2>1. l.first["running"] # None => l.first["running"] \in Handle /\ l.owner[l.first["running"]] = "running"
        BY <1>6, HeadOf, QueueIs
    <2>2. lists.owner \in [Handle -> Queue \cup {None}]
        BY <1>2, ListFields DEF TypeInv
    <2> QED BY <1>6, <1>7, <2>1, <2>2, QueueIs
<1>9. /\ \A d \in Caller : CallIs(d)'
      /\ OneStarter' /\ Alone' /\ ~Down' /\ ~Aborting'
      /\ \A g \in Handle : ~Aborted(g)'
      /\ \A g \in Handle : InHand(g)' <=> InHand(g)
    BY <1>3, <1>4, CallsKeep
<1>10. /\ sent[h] = port.count /\ port.count \in Nat
       /\ \A g \in Handle \ {h} : /\ lists.owner[g] = "running" => sent[g] = 0
                                  /\ sent'[g] = sent[g] /\ soFar'[g] = soFar[g]
                                  /\ status'[g] = status[g]
       /\ sent' \in [Handle -> 0 .. Length] /\ sent'[h] = Length /\ soFar'[h] = Length
    BY <1>2, <1>3, <1>4, <1>5, CallerIs DEF SentIs, TypeInv
<1>11. /\ port' \in [busy : BOOLEAN, buffer : Ptr, count : 0 .. Length - 1, txlvl : BOOLEAN]
       /\ port'.count = 0 /\ port'.buffer = lists'.first["running"]
       /\ port'.busy <=> port'.buffer # None
    BY <1>5, <1>7, <1>8, CallerIs, QueueIs DEF Started, SendOn, IdlePort, Ptr
<1>12. TypeInv'
    <2>1. busy' \in [Handle -> BOOLEAN] /\ events' \in Int /\ sem' \in Int
        <3>1. CASE h \in Blocking
            <4>1. busy' = [busy EXCEPT ![h] = FALSE] /\ events' = events /\ sem' = sem
                BY <1>5, <3>1
            <4> QED BY <1>2, <4>1 DEF TypeInv
        <3>2. CASE h \notin Blocking
            BY <1>2, <1>5, <3>2 DEF TypeInv
        <3> QED BY <3>1, <3>2
    <2> QED BY <1>2, <1>3, <1>5, <1>7, <1>10, <1>11, <2>1, CallerIs DEF TypeInv
<1>13. PortIs'
    BY <1>9, <1>11 DEF PortIs
<1>14. SentIs'
    BY <1>2, <1>4, <1>7, <1>9, <1>10, <1>11, CallerIs, QueueIs DEF SentIs
<1>15. TakenIs'
    BY <1>2, <1>3, <1>7 DEF TakenIs
<1>16. \A g \in Handle : PlaceIs(g)'
    <2> SUFFICES ASSUME NEW g \in Handle PROVE PlaceIs(g)'
        OBVIOUS
    <2>1. PlaceIs(g) /\ PlaceIs(h)
        BY <1>2, <1>4
    <2>2. CASE g = h /\ h \in Blocking
        <3>1. ~busy'[g]
            BY <1>2, <1>4, <1>5, <2>2 DEF TypeInv
        <3> QED BY <1>4, <1>7, <1>9, <2>1, <2>2, <3>1, QueueIs DEF PlaceIs
    <2>3. CASE g = h /\ h \notin Blocking
        <3>1. busy' = busy
            BY <1>5, <2>3
        <3> QED BY <1>4, <1>7, <1>9, <2>1, <2>3, <3>1, QueueIs DEF PlaceIs
    <2>4. CASE g # h
        <3>1. busy'[g] <=> busy[g]
            BY <1>2, <1>4, <1>5, <2>4 DEF TypeInv
        <3> QED BY <1>7, <1>9, <2>1, <2>4, <3>1 DEF PlaceIs
    <2> QED BY <2>2, <2>3, <2>4
<1> QED BY <1>7, <1>9, <1>12, <1>13, <1>14, <1>15, <1>16 DEF IInv
\* The manager's task: it takes the writes that are completed, gives the
\* buffers back and calls back.
LEMMA ManagerStepKeeps ==
    ASSUME Rule, IInv, ManagerStep
    PROVE  IInv'
<1>2. /\ TypeInv /\ Linked(lists) /\ \A d \in Caller : CallIs(d)
      /\ OneStarter /\ Alone /\ PortIs /\ SentIs /\ TakenIs
      /\ \A g \in Handle : PlaceIs(g)
    BY DEF IInv
<1>3. /\ UNCHANGED <<soFar, status, sent, port, pc, obj, head, tx, back>>
      /\ NobodyMasks
    BY DEF ManagerStep, Wake, NextCompleted, Take, Report, Reported, Drained, calls, transfer, manager
<1>4. /\ \A d \in Caller : ~Cancelling(d)
      /\ \A g \in Handle : ~Aborted(g)
    BY <1>3, PortSends
<1>5. lists \in ListType /\ lists.owner \in [Handle -> Queue \cup {None}]
      /\ lists.first \in [Queue -> Ptr]
    BY <1>2, ListFields DEF TypeInv
<1>6. CASE Take
    <2>1. /\ task = "take" /\ task' = "report" /\ taken' = taken
          /\ taken = lists.first["completed"] /\ taken # None
          /\ lists' = RemoveHead(lists, "completed")
          /\ UNCHANGED <<busy, events, sem>>
        BY <1>2, <1>6 DEF Take, TakenIs, transfer
    <2>2. taken \in Handle /\ lists.owner[taken] = "completed"
        BY <1>2, <1>5, <2>1, HeadOf, QueueIs
    <2>3. /\ lists' \in ListType /\ Linked(lists)'
          /\ lists'.first["running"] = lists.first["running"]
          /\ \A g \in Handle : lists'.owner[g] = IF g = taken THEN None ELSE lists.owner[g]
        <3>1. /\ RemoveHead(lists, "completed") \in ListType
              /\ Linked(RemoveHead(lists, "completed"))
              /\ RemoveHead(lists, "completed").owner = [lists.owner EXCEPT ![lists.first["completed"]] = None]
              /\ \A p \in Queue \ {"completed"} : RemoveHead(lists, "completed").first[p] = lists.first[p]
            BY <1>2, <1>5, <2>1, RemoveHeadIs, QueueIs
        <3>2. Linked(lists)'
            BY <2>1, <3>1 DEF Linked
        <3> QED BY <1>5, <2>1, <2>2, <3>1, <3>2, QueueIs
    <2>4. /\ \A d \in Caller : CallIs(d)'
          /\ OneStarter' /\ Alone'
          /\ (Down' <=> Down) /\ (Aborting' <=> Aborting)
          /\ \A g \in Handle : Aborted(g)' <=> Aborted(g)
          /\ \A g \in Handle : InHand(g)' <=> taken = g
          /\ \A g \in Handle : ~InHand(g)
        BY <1>3, <1>4, <2>1, <2>3, CallsKeep
    <2>5. TypeInv'
        BY <1>2, <1>3, <2>1, <2>3 DEF TypeInv
    <2>6. PortIs' /\ TakenIs'
        BY <1>2, <1>3, <2>1, <2>3, <2>4 DEF PortIs, TakenIs
    <2>7. SentIs'
        BY <1>2, <1>3, <1>4, <2>1, <2>3, <2>4, QueueIs DEF SentIs
    <2>8. \A g \in Handle : PlaceIs(g)'
        BY <1>2, <2>1, <2>2, <2>3, <2>4, QueueIs DEF PlaceIs
    <2> QED BY <2>3, <2>4, <2>5, <2>6, <2>7, <2>8 DEF IInv
<1>7. ASSUME ~Take
      PROVE  IInv'
    <2>1. /\ lists' = lists
          /\ events' \in Int /\ sem' \in Int /\ taken' \in Ptr
          /\ task' \in {"wait", "next", "take", "report", "callback", "drained"}
          /\ task' # "report" /\ (task = "report" <=> Report)
          /\ task' = "take" => taken' # None /\ taken' = lists.first["completed"]
        <3>1. /\ events \in Int /\ sem \in Int /\ taken \in Ptr
              /\ task \in {"wait", "next", "take", "report", "callback", "drained"}
            BY <1>2 DEF TypeInv
        <3>2. CASE Wake
            BY <3>1, <3>2 DEF Wake, Report, transfer
        <3>3. CASE NextCompleted
            BY <1>5, <3>1, <3>3, QueueIs DEF NextCompleted, Report, transfer
        <3>4. CASE Report
            BY <3>1, <3>4 DEF Report
        <3>5. CASE Reported
            BY <3>1, <3>5 DEF Reported, Report, transfer
        <3>6. CASE Drained
            BY <3>1, <3>6 DEF Drained, Report, transfer
        <3> QED BY <1>7, <3>2, <3>3, <3>4, <3>5, <3>6 DEF ManagerStep
    <2>2. IF task = "report" THEN busy' = [busy EXCEPT ![taken] = FALSE] /\ task' = "callback"
                             ELSE busy' = busy
        BY <1>7, <2>1 DEF ManagerStep, Wake, NextCompleted, Report, Reported, Drained, transfer
    <2>3. /\ \A d \in Caller : CallIs(d)'
          /\ OneStarter' /\ Alone'
          /\ (Down' <=> Down) /\ (Aborting' <=> Aborting)
          /\ \A g \in Handle : Aborted(g)' <=> Aborted(g)
          /\ \A g \in Handle : ~InHand(g)'
          /\ \A g \in Handle : InHand(g) <=> task = "report" /\ taken = g
        BY <1>3, <1>4, <2>1, CallsKeep
    <2>4. TypeInv'
        BY <1>2, <1>3, <2>1, <2>2 DEF TypeInv
    <2>5. PortIs' /\ TakenIs'
        BY <1>2, <1>3, <2>1, <2>3 DEF PortIs, TakenIs
    <2>6. SentIs'
        BY <1>2, <1>3, <2>1, <2>3 DEF SentIs
    <2>7. \A g \in Handle : PlaceIs(g)'
        <3> SUFFICES ASSUME NEW g \in Handle PROVE PlaceIs(g)'
            OBVIOUS
        <3>1. PlaceIs(g)
            BY <1>2
        <3>2. CASE task = "report" /\ g = taken
            <4>1. ~busy'[g]
                BY <1>2, <2>2, <3>2 DEF TypeInv
            <4> QED BY <2>1, <2>3, <3>1, <3>2, <4>1 DEF PlaceIs
        <3>3. CASE ~(task = "report" /\ g = taken)
            <4>1. busy'[g] <=> busy[g]
                BY <1>2, <2>2, <3>3 DEF TypeInv
            <4> QED BY <2>1, <2>3, <3>1, <3>3, <4>1 DEF PlaceIs
        <3> QED BY <3>2, <3>3
    <2> QED BY <1>2, <2>1, <2>3, <2>4, <2>5, <2>6, <2>7 DEF IInv, Linked
<1> QED BY <1>6, <1>7

-----------------------------------------------------------------------------
LEMMA InitIs ==
    ASSUME Init
    PROVE  IInv
<1>1. lists \in ListType
    BY QueueIs DEF Init, EmptyLists, ListType, Ptr
<1>2. Linked(lists)
    <2> SUFFICES ASSUME NEW q \in Queue
                 PROVE  \E s \in [1 .. lists.size[q] -> Handle] : IsQueue(lists, q, s)
        BY DEF Linked
    <2>1. /\ lists.size[q] = 0 /\ lists.first[q] = None /\ lists.last[q] = None
          /\ \A h \in Handle : lists.owner[h] # q
        BY QueueIs DEF Init, EmptyLists
    <2> DEFINE s == [i \in {} |-> None]
    <2>2. s \in [1 .. lists.size[q] -> Handle]
        BY <2>1
    <2>3. IsQueue(lists, q, s)
        BY <2>1 DEF IsQueue
    <2> QED BY <2>2, <2>3
<1>3. TypeInv
    BY <1>1, CallerIs DEF Init, TypeInv, IdlePort, Ptr, Steps
<1>4. \A c \in Caller : CallIs(c) /\ ~Starter(c) /\ ~Cancelling(c)
    BY DEF Init, CallIs, Starter, Starting, Cancelling
<1>5. OneStarter /\ Alone
    BY <1>4 DEF OneStarter, Alone
<1>6. ~Down /\ ~Aborting /\ lists.first["running"] = None
    BY QueueIs DEF Init, EmptyLists, Down, Aborting, Starting
<1>7. PortIs
    BY <1>6 DEF Init, IdlePort, PortIs
<1>8. /\ \A h \in Handle : lists.owner[h] = None /\ ~InHand(h)
      /\ \A h \in Handle : ~busy[h]
    BY QueueIs DEF Init, EmptyLists, InHand
<1>9. SentIs
    BY <1>8, CallerIs, QueueIs DEF Init, SentIs
<1>10. TakenIs /\ \A h \in Handle : PlaceIs(h)
    BY <1>8 DEF Init, TakenIs, PlaceIs
<1> QED BY <1>2, <1>3, <1>4, <1>5, <1>7, <1>9, <1>10 DEF IInv

LEMMA NextKeeps ==
    ASSUME Rule, IInv, [Next]_vars
    PROVE  IInv'
<1>1. ASSUME NEW c \in Caller, CallStep(c)
      PROVE  IInv'
    <2>1. Runs(c) /\ pc[c] # "refused"
        BY <1>1 DEF CallStep, IInv, TypeInv, Steps
    <2>2. \/ Written(c) \/ Poll(c) \/ Canceled(c)
          \/ StartWriting(c) \/ UartWrite(c) \/ UartSend(c)
          \/ ClearBusy(c) \/ Abort(c) \/ Notify(c)
          \/ TxCallback(c) \/ Remove(c) \/ Complete(c) \/ Finish(c)
        BY <1>1, <2>1 DEF CallStep, Refused
    <2> QED BY <2>1, <2>2, WrittenStep, StartWritingStep, UartWriteStep, UartSendStep,
               AbortStep, TxCallbackStep, RemoveStep, HandOverStep
<1>2. ASSUME NEW c \in Caller, NEW h \in Handle, Write(c, h) \/ Cancel(c, h)
      PROVE  IInv'
    BY <1>2, WriteStep, CancelStep
<1>3. ASSUME Interrupt
      PROVE  IInv'
    BY <1>3, SendByteStep, SendLastStep DEF Interrupt
<1>4. ASSUME ManagerStep
      PROVE  IInv'
    BY <1>4, ManagerStepKeeps
<1>5. ASSUME UNCHANGED vars
      PROVE  IInv'
    BY <1>5 DEF vars, transfer, manager, calls, IInv, TypeInv, Linked, CallIs, OneStarter, Starter,
                Alone, Cancelling, PortIs, Down, Aborting, SentIs, Aborted, TakenIs, PlaceIs, InHand
<1> QED BY <1>1, <1>2, <1>3, <1>4, <1>5 DEF Next

LEMMA Invariant ==
    ASSUME Rule
    PROVE  Spec => []IInv
<1>1. Init => IInv
    BY InitIs
<1>2. IInv /\ [Next]_vars => IInv'
    BY NextKeeps
<1> QED BY <1>1, <1>2, PTL DEF Spec

-----------------------------------------------------------------------------
\* Every step of a call is one the code takes: no write is refused, no assertion
\* of the port fires and no abort meets a port that is idle.
THEOREM TypeCorrect ==
    ASSUME Rule
    PROVE  Spec => []TypeInv
<1>1. IInv => TypeInv
    BY DEF IInv
<1> QED BY <1>1, Invariant, PTL

\* LIST_AddTail, LIST_RemoveHead and LIST_RemoveElement keep the two queues whole,
\* however tasks, interrupt and manager's task mix them.
THEOREM ListsWhole ==
    ASSUME Rule
    PROVE  Spec => []QueuesWhole
<1>1. IInv => QueuesWhole
    BY LinkedIsWhole DEF IInv, TypeInv, QueuesWhole
<1> QED BY <1>1, Invariant, PTL

\* An accepted write is in a queue or in the hands of one who moves it, never
\* in both and never in neither; a write that is not accepted is in no place.
THEOREM WritesPlaced ==
    ASSUME Rule
    PROVE  Spec => []Placed
<1>1. IInv => Placed
    BY DEF IInv, PlaceIs, Placed, InHand
<1> QED BY <1>1, Invariant, PTL

\* The adapter sends the head of the running queue, and is never started twice.
THEOREM PortFollowsQueue ==
    ASSUME Rule
    PROVE  Spec => []PortInStep
<1>1. IInv => PortInStep
    <2> SUFFICES ASSUME IInv PROVE PortInStep
        OBVIOUS
    <2>1. \A c \in Caller : pc[c] # "assert"
        BY DEF IInv, TypeInv, Steps
    <2>2. NobodyMasks /\ port.buffer # None => port.busy /\ port.buffer = lists.first["running"]
        BY PortSends
    <2> QED BY <2>1, <2>2 DEF PortInStep
<1> QED BY <1>1, Invariant, PTL

\* A reported success is a transfer whose every byte went out.
THEOREM SuccessWasSent ==
    ASSUME Rule
    PROVE  Spec => []SuccessMeansSent
<1>1. IInv => SuccessMeansSent
    BY DEF IInv, SentIs, CallIs, SuccessMeansSent
<1> QED BY <1>1, Invariant, PTL

=============================================================================
