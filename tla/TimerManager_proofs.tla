------------------------- MODULE TimerManager_proofs -------------------------
(***************************************************************************)
(* Types, the count of live timers, and when the hardware runs, for any    *)
(* number of timers and any timeouts.                                      *)
(***************************************************************************)
EXTENDS TimerManager, FiniteSetTheorems, WellFoundedInduction, TLAPS

LiveTimers == {t \in Timer : Live(t)}

\* The count stays below the match value, and the task has a timer in hand while
\* a callback runs.
Within ==
    /\ count = 0 \/ count < activeInterval
    /\ pc \in {"callback", "called"} => th \in Timer

TInv == TypeOK /\ CountsMatch /\ Within

-----------------------------------------------------------------------------
\* The set of live timers is as finite as that of all timers.
LEMMA LiveFinite ==
    /\ IsFiniteSet(LiveTimers) /\ Cardinality(LiveTimers) \in Nat
    /\ Cardinality(LiveTimers) <= Cardinality(Timer)
    /\ Cardinality(Timer) \in Nat
<1>1. LiveTimers \in SUBSET Timer /\ IsFiniteSet(Timer)
  BY TimerAssumption DEF LiveTimers
<1> QED  BY <1>1, FS_Subset, FS_CardinalityType

\* The same one step later.
LEMMA LiveFiniteNext ==
    /\ IsFiniteSet(LiveTimers') /\ Cardinality(LiveTimers') \in Nat
    /\ Cardinality(LiveTimers') <= Cardinality(Timer)
<1>1. LiveTimers' \in SUBSET Timer /\ IsFiniteSet(Timer)
  BY TimerAssumption DEF LiveTimers
<1> QED  BY <1>1, FS_Subset, FS_CardinalityType

\* What TimerStop does to the counts, whether the timer is live or not.
LEMMA StopCounts ==
    ASSUME TInv, NEW t \in Timer, NEW to \in {"inactive", "free"}, TimerStop(t, to)
    PROVE  /\ status' \in [Timer -> {"free", "inactive", "ready", "active"}]
           /\ active' \in 0 .. Cardinality(Timer) /\ CountsMatch'
           /\ hwOn' \in BOOLEAN /\ running' \in BOOLEAN
<1> USE DEF TInv, TypeOK
<1>1. active = Cardinality(LiveTimers)
  BY DEF CountsMatch, LiveTimers
<1>2. CASE Live(t)
  <2>1. /\ status' = [status EXCEPT ![t] = to] /\ active' = active - 1
        /\ hwOn' \in BOOLEAN /\ running' \in BOOLEAN
    BY <1>2 DEF TimerStop
  <2>2. LiveTimers' = LiveTimers \ {t} /\ t \in LiveTimers
    BY <1>2, <2>1 DEF LiveTimers, Live
  <2>3. Cardinality(LiveTimers') = Cardinality(LiveTimers) - 1
    BY <2>2, LiveFinite, FS_RemoveElement
  <2>4. active' = Cardinality(LiveTimers') /\ active' \in 0 .. Cardinality(Timer)
    BY <1>1, <2>1, <2>3, LiveFinite, LiveFiniteNext
  <2> QED  BY <2>1, <2>4 DEF CountsMatch, LiveTimers
<1>3. CASE ~Live(t)
  <2>1. /\ status' = [status EXCEPT ![t] = IF to = "free" THEN to ELSE @]
        /\ UNCHANGED <<active, hwOn, running>>
    BY <1>3 DEF TimerStop
  <2>2. LiveTimers' = LiveTimers
    BY <1>3, <2>1 DEF LiveTimers, Live
  <2> QED  BY <1>1, <2>1, <2>2 DEF CountsMatch, LiveTimers
<1> QED  BY <1>2, <1>3

\* Time that passes keeps the remaining times in range, and a post the semaphore.
LEMMA SyncTypes ==
    ASSUME TypeOK, NEW us \in Nat, UpdateSync(us)
    PROVE  /\ remaining' \in [Timer -> Nat] /\ sem' \in 0 .. MaxPosts
<1>1. \A t \in Timer : Elapsed(remaining[t], us) \in Nat
  BY TimerAssumption DEF TypeOK, Elapsed
<1>2. sem' \in 0 .. MaxPosts
  BY TimerAssumption DEF TypeOK, UpdateSync, Posted
<1>3. remaining' \in [Timer -> Nat]
  BY <1>1 DEF TypeOK, UpdateSync
<1> QED  BY <1>2, <1>3

-----------------------------------------------------------------------------
LEMMA TInit == Init => TInv
<1> SUFFICES ASSUME Init PROVE TInv
  OBVIOUS
<1>1. LiveTimers = {}
  BY DEF Init, LiveTimers, Live
<1>2. CountsMatch
  BY <1>1, FS_EmptySet DEF Init, CountsMatch, LiveTimers
<1>3. TypeOK
  <2>1. /\ active \in 0 .. Cardinality(Timer) /\ sem \in 0 .. MaxPosts
        /\ interval \in 0 .. MaxTimeout /\ activeInterval \in 0 .. MaxTimeout
        /\ count \in 0 .. MaxTimeout
    BY TimerAssumption, LiveFinite DEF Init
  <2>2. timeout \in [Timer -> Nat] /\ remaining \in [Timer -> Nat]
    BY DEF Init
  <2>3. /\ head \in Timer \union {NoTimer} /\ next \in [Timer -> Timer \union {NoTimer}]
        /\ status \in [Timer -> {"free", "inactive", "ready", "active"}]
        /\ periodic \in [Timer -> BOOLEAN]
        /\ starting \in [Caller -> Timer \union {NoTimer}]
    BY DEF Init
  <2>4. /\ running \in BOOLEAN /\ hwOn \in BOOLEAN /\ irq \in BOOLEAN
        /\ pc \in {"wait", "walk", "callback", "called", "test", "store"}
        /\ th \in Timer \union {NoTimer} /\ state \in {"free", "inactive", "active"}
    BY DEF Init
  <2> QED  BY <2>1, <2>2, <2>3, <2>4 DEF TypeOK
<1>4. Within
  BY DEF Init, Within
<1> QED  BY <1>2, <1>3, <1>4 DEF TInv

-----------------------------------------------------------------------------
LEMMA TNext == TInv /\ [Next]_vars => TInv'
<1> SUFFICES ASSUME TInv, [Next]_vars PROVE TInv'
  OBVIOUS
<1> USE DEF TInv, TypeOK, Within
<1>1. CASE Tick
  <2>1. UNCHANGED status
    BY <1>1 DEF Tick
  <2>2. CountsMatch'
    BY <1>1, <2>1 DEF Tick, CountsMatch, Live
  <2>3. count' \in 0 .. MaxTimeout /\ irq' \in BOOLEAN /\ (count' = 0 \/ count' < activeInterval')
    <3>1. CASE hwOn /\ activeInterval > 0
      <4>1. CASE count + 1 = activeInterval
        BY <1>1, <3>1, <4>1, TimerAssumption DEF Tick
      <4>2. CASE count + 1 # activeInterval
        <5>1. count' = count + 1 /\ UNCHANGED <<irq, activeInterval>>
          BY <1>1, <3>1, <4>2 DEF Tick
        <5>2. count + 1 < activeInterval
          BY <3>1, <4>2, TimerAssumption
        <5> QED  BY <5>1, <5>2, TimerAssumption
      <4> QED  BY <4>1, <4>2
    <3>2. CASE ~(hwOn /\ activeInterval > 0)
      BY <1>1, <3>2 DEF Tick
    <3> QED  BY <3>1, <3>2
  <2> QED  BY <1>1, <2>1, <2>2, <2>3 DEF Tick, list, task
<1>2. CASE Match
  <2>1. /\ remaining' \in [Timer -> Nat] /\ sem' \in 0 .. MaxPosts
    BY <1>2, SyncTypes DEF Match
  <2>2. CountsMatch'
    BY <1>2 DEF Match, CountsMatch, Live
  <2> QED  BY <1>2, <2>1, <2>2 DEF Match, list, task
<1>3. ASSUME NEW c \in Caller, NEW t \in Timer, Open(c, t) PROVE TInv'
  <2>1. CountsMatch'
    BY <1>3 DEF Open, CountsMatch, Live
  <2>2. pc' \in {"wait", "walk", "callback", "called", "test", "store"}
        /\ (pc' \in {"callback", "called"} => th' \in Timer)
    BY <1>3 DEF Open, MayCall, Called
  <2>3. /\ status' \in [Timer -> {"free", "inactive", "ready", "active"}]
        /\ head' \in Timer \union {NoTimer} /\ next' \in [Timer -> Timer \union {NoTimer}]
    BY <1>3 DEF Open, LinkOf
  <2> QED  BY <1>3, <2>1, <2>2, <2>3 DEF Open, hw
<1>4. ASSUME NEW c \in Caller, NEW t \in Timer, Stop(c, t) PROVE TInv'
  <2>1. /\ remaining' \in [Timer -> Nat] /\ sem' \in 0 .. MaxPosts
    BY <1>4, SyncTypes DEF Stop
  <2>2. /\ status' \in [Timer -> {"free", "inactive", "ready", "active"}]
        /\ active' \in 0 .. Cardinality(Timer) /\ CountsMatch'
        /\ hwOn' \in BOOLEAN /\ running' \in BOOLEAN
    BY <1>4, StopCounts DEF Stop
  <2>3. pc' \in {"wait", "walk", "callback", "called", "test", "store"}
        /\ (pc' \in {"callback", "called"} => th' \in Timer)
    BY <1>4 DEF Stop, MayCall, Called
  <2> QED  BY <1>4, <2>1, <2>2, <2>3 DEF Stop, list
<1>5. ASSUME NEW c \in Caller, NEW t \in Timer, Close(c, t) PROVE TInv'
  <2>1. /\ remaining' \in [Timer -> Nat] /\ sem' \in 0 .. MaxPosts
    BY <1>5, SyncTypes DEF Close
  <2>2. /\ status' \in [Timer -> {"free", "inactive", "ready", "active"}]
        /\ active' \in 0 .. Cardinality(Timer) /\ CountsMatch'
        /\ hwOn' \in BOOLEAN /\ running' \in BOOLEAN
    BY <1>5, StopCounts DEF Close
  <2>3. head' \in Timer \union {NoTimer} /\ next' \in [Timer -> Timer \union {NoTimer}]
    BY <1>5 DEF Close, Unlink
  <2>4. pc' \in {"wait", "walk", "callback", "called", "test", "store"}
        /\ (pc' \in {"callback", "called"} => th' \in Timer)
    BY <1>5 DEF Close, MayCall, Called
  <2> QED  BY <1>5, <2>1, <2>2, <2>3, <2>4 DEF Close
<1>6. ASSUME NEW c \in Caller, NEW t \in Timer, Start(c, t) PROVE TInv'
  <2>1. /\ remaining' \in [Timer -> Nat] /\ sem' \in 0 .. MaxPosts
    BY <1>6, SyncTypes DEF Start
  <2>2. /\ status' \in [Timer -> {"free", "inactive", "ready", "active"}]
        /\ active' \in 0 .. Cardinality(Timer) /\ CountsMatch'
        /\ hwOn' \in BOOLEAN /\ running' \in BOOLEAN
    BY <1>6, StopCounts DEF Start
  <2>3. pc' \in {"wait", "walk", "callback", "called", "test", "store"}
        /\ (pc' \in {"callback", "called"} => th' \in Timer)
    BY <1>6 DEF Start, MayCall, Called
  <2>4. starting' \in [Caller -> Timer \union {NoTimer}]
    BY <1>6 DEF Start
  <2> QED  BY <1>6, <2>1, <2>2, <2>3, <2>4 DEF Start, list
<1>7. ASSUME NEW c \in Caller, Enable(c) PROVE TInv'
  <2> DEFINE t == starting[c]
  <2>1. t \in Timer
    BY <1>7 DEF Enable
  <2>2. PICK us \in Timeouts, p \in BOOLEAN :
          /\ timeout' = [timeout EXCEPT ![t] = us]
          /\ periodic' = [periodic EXCEPT ![t] = p]
          /\ IF status[t] = "inactive"
             THEN /\ active' = active + 1
                  /\ status' = [status EXCEPT ![t] = "ready"]
                  /\ remaining' = [u \in Timer |->
                        IF u = t THEN us
                        ELSE IF u \in InList /\ status[u] = "active"
                        THEN Elapsed(remaining[u], count) ELSE remaining[u]]
                  /\ sem' = Posted
             ELSE /\ remaining' = [remaining EXCEPT ![t] = us]
                  /\ UNCHANGED <<active, status, sem>>
    BY <1>7 DEF Enable
  <2>3. us \in Nat
    BY TimerAssumption
  <2>4. /\ timeout' \in [Timer -> Nat] /\ periodic' \in [Timer -> BOOLEAN]
    BY <2>1, <2>2, <2>3
  <2>5. CASE status[t] = "inactive"
    <3>1. \A u \in Timer : Elapsed(remaining[u], count) \in Nat
      BY TimerAssumption DEF Elapsed
    <3>2. remaining' \in [Timer -> Nat]
      BY <2>2, <2>3, <2>5, <3>1
    <3>3. sem' \in 0 .. MaxPosts
      BY <2>2, <2>5, TimerAssumption DEF Posted
    <3>4. /\ status' = [status EXCEPT ![t] = "ready"] /\ active' = active + 1
      BY <2>2, <2>5
    <3>5. LiveTimers' = LiveTimers \union {t} /\ t \notin LiveTimers
      BY <2>1, <2>5, <3>4 DEF LiveTimers, Live
    <3>6. Cardinality(LiveTimers') = active' /\ active' \in 0 .. Cardinality(Timer)
      <4>1. Cardinality(LiveTimers') = Cardinality(LiveTimers) + 1
        BY <3>5, LiveFinite, FS_AddElement
      <4> QED  BY <3>4, <4>1, LiveFinite, LiveFiniteNext DEF CountsMatch, LiveTimers
    <3>7. CountsMatch' /\ status' \in [Timer -> {"free", "inactive", "ready", "active"}]
      BY <3>4, <3>6 DEF CountsMatch, LiveTimers
    <3> QED  BY <1>7, <2>4, <3>2, <3>3, <3>6, <3>7 DEF Enable, list, hw, task
  <2>6. CASE status[t] # "inactive"
    <3>1. remaining' \in [Timer -> Nat] /\ UNCHANGED <<active, status, sem>>
      BY <2>1, <2>2, <2>3, <2>6
    <3>2. CountsMatch'
      BY <3>1 DEF CountsMatch, Live
    <3> QED  BY <1>7, <2>4, <3>1, <3>2 DEF Enable, list, hw, task
  <2> QED  BY <2>5, <2>6
<1>8. CASE Wait
  <2>1. interval' \in 0 .. MaxTimeout /\ sem' \in 0 .. MaxPosts /\ CountsMatch'
    BY <1>8, TimerAssumption DEF Wait, CountsMatch, Live
  <2> QED  BY <1>8, <2>1 DEF Wait, list, hw
<1>9. CASE VisitReady
  <2>1. LiveTimers' = LiveTimers /\ th \in Timer
    BY <1>9 DEF VisitReady, LiveTimers, Live
  <2>2. CountsMatch'
    BY <1>9, <2>1 DEF VisitReady, CountsMatch, LiveTimers
  <2>3. interval' \in 0 .. MaxTimeout
    <3>1. interval \in 0 .. MaxTimeout /\ timeout[th] \in Nat /\ MaxTimeout \in Nat
      BY <2>1, TimerAssumption
    <3> QED  BY <1>9, <3>1 DEF VisitReady, Shorter
  <2> QED  BY <1>9, <2>1, <2>2, <2>3 DEF VisitReady, list, hw
<1>10. CASE VisitRunning
  <2>1. CountsMatch' /\ th \in Timer
    BY <1>10 DEF VisitRunning, CountsMatch, Live
  <2>2. interval' \in 0 .. MaxTimeout
    <3>1. interval \in 0 .. MaxTimeout /\ remaining[th] \in Nat /\ MaxTimeout \in Nat
      BY <2>1, TimerAssumption
    <3> QED  BY <1>10, <3>1 DEF VisitRunning, Shorter
  <2> QED  BY <1>10, <2>1, <2>2 DEF VisitRunning, list, hw
<1>11. CASE VisitOther
  <2>1. CountsMatch' /\ th \in Timer
    BY <1>11 DEF VisitOther, CountsMatch, Live
  <2> QED  BY <1>11, <2>1 DEF VisitOther, list, hw
<1>12. CASE Expire
  <2>1. th \in Timer
    BY <1>12 DEF Expire
  <2>2. CASE periodic[th]
    <3>1. remaining' \in [Timer -> Nat] /\ state' = "active"
          /\ UNCHANGED <<status, active, hwOn, running>>
      BY <1>12, <2>1, <2>2 DEF Expire, Reload
    <3>2. CountsMatch'
      BY <3>1 DEF CountsMatch, Live
    <3> QED  BY <1>12, <2>1, <3>1, <3>2 DEF Expire, list
  <2>3. CASE ~periodic[th]
    <3>1. TimerStop(th, "inactive") /\ state' = "inactive" /\ UNCHANGED remaining
      BY <1>12, <2>3 DEF Expire
    <3>2. /\ status' \in [Timer -> {"free", "inactive", "ready", "active"}]
          /\ active' \in 0 .. Cardinality(Timer) /\ CountsMatch'
          /\ hwOn' \in BOOLEAN /\ running' \in BOOLEAN
      BY <2>1, <3>1, StopCounts
    <3> QED  BY <1>12, <2>1, <3>1, <3>2 DEF Expire, list
  <2> QED  BY <2>2, <2>3
<1>13. CASE CallbackReturns
  <2>1. CountsMatch' /\ th \in Timer
    BY <1>13 DEF CallbackReturns, CountsMatch, Live
  <2>2. interval' \in 0 .. MaxTimeout
    <3>1. interval \in 0 .. MaxTimeout /\ remaining[th] \in Nat /\ MaxTimeout \in Nat
      BY <2>1, TimerAssumption
    <3> QED  BY <1>13, <3>1 DEF CallbackReturns, Shorter
  <2> QED  BY <1>13, <2>1, <2>2 DEF CallbackReturns, list, hw
<1>14. CASE WalkEnds
  <2>1. CountsMatch'
    BY <1>14 DEF WalkEnds, CountsMatch, Live
  <2> QED  BY <1>14, <2>1 DEF WalkEnds, list, hw
<1>15. CASE Program
  <2>1. CountsMatch'
    BY <1>15 DEF Program, CountsMatch, Live
  <2>2. /\ hwOn' \in BOOLEAN /\ activeInterval' \in 0 .. MaxTimeout
        /\ count' \in 0 .. MaxTimeout /\ (count' = 0 \/ count' < activeInterval')
    <3>1. CASE MustProgram
      BY <1>15, <3>1, TimerAssumption DEF Program
    <3>2. CASE ~MustProgram
      BY <1>15, <3>2 DEF Program
    <3> QED  BY <3>1, <3>2
  <2> QED  BY <1>15, <2>1, <2>2 DEF Program, list
<1>16. CASE StoreRunning
  <2>1. CountsMatch'
    BY <1>16 DEF StoreRunning, CountsMatch, Live
  <2> QED  BY <1>16, <2>1 DEF StoreRunning, list, hw
<1>17. CASE UNCHANGED vars
  BY <1>17 DEF vars, list, hw, task, CountsMatch, Live
<1> QED
  BY <1>1, <1>2, <1>3, <1>4, <1>5, <1>6, <1>7, <1>8, <1>9, <1>10, <1>11, <1>12,
     <1>13, <1>14, <1>15, <1>16, <1>17 DEF Next, Process

\* Every variable keeps its range: the subtraction of the counts never goes below
\* zero (TimerStop has no test), and the hardware never counts past its match.
THEOREM TypeCorrect == Spec => []TypeOK
<1>1. TInv => TypeOK
  BY DEF TInv
<1> QED  BY TInit, TNext, <1>1, PTL DEF Spec

\* The count that turns the hardware on and off is that of the live timers.
THEOREM CountsCorrect == Spec => []CountsMatch
<1>1. TInv => CountsMatch
  BY DEF TInv
<1> QED  BY TInit, TNext, <1>1, PTL DEF Spec

-----------------------------------------------------------------------------
(***************************************************************************)
(* When the hardware runs.  A caller that cannot preempt the timer task    *)
(* never meets it between the test of the counts and                       *)
(* timerHardwareIsRunning; then the flag tells whether the hardware is on, *)
(* and a start that finds it off leaves a post for the task.               *)
(***************************************************************************)
Switch ==
    /\ pc # "store" => (hwOn <=> running)
    /\ pc = "store" => hwOn
    /\ hwOn => active > 0
    /\ pc \in {"test", "store"} => active > 0
    /\ active > 0 => hwOn \/ sem > 0 \/ pc # "wait"

SInv == TInv /\ Switch

\* The calls come only where the flag tells the truth.
LEMMA CallerWaits ==
    ASSUME Preempting = FALSE, NEW c \in Caller, MayCall(c)
    PROVE  pc \in {"wait", "callback"}
BY DEF MayCall

\* A post can be seen.
LEMMA PostSeen == TypeOK => Posted > 0
BY TimerAssumption DEF TypeOK, Posted

\* TimerStop turns the hardware off with the last live timer and keeps it otherwise.
LEMMA StopSwitch ==
    ASSUME SInv, pc # "store", NEW t \in Timer, NEW to \in {"inactive", "free"},
           TimerStop(t, to)
    PROVE  /\ hwOn' <=> running'
           /\ hwOn' => active' > 0
<1> USE DEF SInv, TInv, TypeOK, Switch
<1>1. CASE Live(t)
  <2>1. /\ active' = active - 1
        /\ hwOn' <=> (hwOn /\ ~(active = 1 /\ running))
        /\ running' <=> (running /\ active # 1)
    BY <1>1 DEF TimerStop
  <2>2. hwOn' => active # 1 /\ active > 0
    BY <2>1
  <2>3. active \in Nat
    BY LiveFinite
  <2> QED  BY <2>1, <2>2, <2>3
<1>2. CASE ~Live(t)
  BY <1>2 DEF TimerStop
<1> QED  BY <1>1, <1>2

LEMMA SInit == Init => SInv
<1>1. Init => Switch
  BY DEF Init, Switch
<1> QED  BY <1>1, TInit DEF SInv

LEMMA SNext == ASSUME Preempting = FALSE PROVE SInv /\ [Next]_vars => SInv'
<1> SUFFICES ASSUME SInv, [Next]_vars PROVE Switch'
  BY TNext DEF SInv
<1>a. TInv' /\ TInv /\ TypeOK
  BY TNext DEF SInv, TInv
<1>b. active \in Nat /\ sem \in Nat
  BY <1>a, LiveFinite, TimerAssumption DEF TypeOK
<1> USE DEF Switch
<1>1. CASE Tick
  BY <1>1 DEF Tick, task, SInv
<1>2. CASE Match
  <2>1. sem' > 0
    BY <1>2, <1>a, PostSeen DEF Match, UpdateSync
  <2> QED  BY <1>2, <2>1 DEF Match, task, SInv
<1>3. ASSUME NEW c \in Caller, NEW t \in Timer, Open(c, t) PROVE Switch'
  <2>1. pc \in {"wait", "callback"} /\ (pc = "callback" \/ pc' = pc)
    BY <1>3, CallerWaits DEF Open, MayCall, Called
  <2>2. pc' \in {"wait", "callback", "called"} /\ UNCHANGED <<active, running, hwOn, sem>>
        /\ (pc' = "wait" => pc = "wait")
    BY <1>3, <2>1 DEF Open, Called, hw
  <2> QED  BY <2>1, <2>2 DEF SInv
<1>4. ASSUME NEW c \in Caller, NEW t \in Timer, NEW to \in {"inactive", "free"},
             MayCall(c), TimerStop(t, to), UpdateSync(count), Called(c)
      PROVE  Switch'
  <2>1. pc \in {"wait", "callback"} /\ pc' \in {"wait", "callback", "called"}
    BY <1>4, CallerWaits DEF Called
  <2>2. sem' > 0
    BY <1>4, <1>a, PostSeen DEF UpdateSync
  <2>3. (hwOn' <=> running') /\ (hwOn' => active' > 0)
    BY <1>4, <2>1, StopSwitch
  <2> QED  BY <2>1, <2>2, <2>3
<1>5. ASSUME NEW c \in Caller, Enable(c) PROVE Switch'
  <2>1. pc \in {"wait", "called"} /\ UNCHANGED <<running, hwOn, pc>>
    BY <1>5 DEF Enable, hw, task
  <2>2. \/ active' = active + 1 /\ sem' = Posted
        \/ UNCHANGED <<active, sem>>
    BY <1>5 DEF Enable
  <2>3. CASE active' = active + 1 /\ sem' = Posted
    BY <1>a, <1>b, <2>1, <2>3, PostSeen DEF SInv
  <2>4. CASE UNCHANGED <<active, sem>>
    BY <2>1, <2>4 DEF SInv
  <2> QED  BY <2>2, <2>3, <2>4
<1>6. CASE Wait
  BY <1>6 DEF Wait, hw, SInv
<1>7. CASE VisitReady
  BY <1>7 DEF VisitReady, hw, SInv
<1>8. CASE VisitRunning
  BY <1>8 DEF VisitRunning, hw, SInv
<1>9. CASE VisitOther
  BY <1>9 DEF VisitOther, hw, SInv
<1>10. CASE Expire
  <2>1. pc = "walk" /\ pc' = "callback" /\ th \in Timer
    BY <1>10, <1>a DEF Expire, TypeOK
  <2>2. CASE periodic[th]
    <3>1. UNCHANGED <<active, hwOn, running>>
      BY <1>10, <2>2 DEF Expire
    <3> QED  BY <2>1, <3>1 DEF SInv
  <2>3. CASE ~periodic[th]
    <3>1. TimerStop(th, "inactive")
      BY <1>10, <2>3 DEF Expire
    <3>2. (hwOn' <=> running') /\ (hwOn' => active' > 0)
      BY <2>1, <3>1, StopSwitch
    <3> QED  BY <2>1, <3>2
  <2> QED  BY <2>2, <2>3
<1>11. CASE CallbackReturns
  BY <1>11 DEF CallbackReturns, hw, SInv
<1>12. CASE WalkEnds
  <2>1. UNCHANGED <<active, running, hwOn, sem>> /\ pc = "walk"
        /\ pc' = (IF active > 0 THEN "test" ELSE "wait")
    BY <1>12 DEF WalkEnds, hw
  <2> QED  BY <2>1 DEF SInv
<1>13. CASE Program
  <2>1. pc = "test" /\ pc' = "store" /\ UNCHANGED <<active, running, sem>>
    BY <1>13 DEF Program
  <2>2. hwOn'
    <3>1. CASE MustProgram
      BY <1>13, <3>1 DEF Program
    <3>2. CASE ~MustProgram
      BY <1>13, <2>1, <3>2 DEF Program, MustProgram, SInv
    <3> QED  BY <3>1, <3>2
  <2> QED  BY <2>1, <2>2 DEF SInv
<1>14. CASE StoreRunning
  BY <1>14 DEF StoreRunning, hw, SInv
<1>15. CASE UNCHANGED vars
  BY <1>15 DEF vars, hw, task, SInv
<1>16. ASSUME NEW c \in Caller, NEW t \in Timer, Stop(c, t) \/ Close(c, t) \/ Start(c, t)
       PROVE  Switch'
  <2>1. CASE Stop(c, t)
    BY <1>4, <2>1 DEF Stop
  <2>2. CASE Close(c, t)
    BY <1>4, <2>2 DEF Close
  <2>3. CASE Start(c, t)
    BY <1>4, <2>3 DEF Start
  <2> QED  BY <1>16, <2>1, <2>2, <2>3
<1> QED
  BY <1>1, <1>2, <1>3, <1>5, <1>6, <1>7, <1>8, <1>9, <1>10, <1>11, <1>12, <1>13,
     <1>14, <1>15, <1>16 DEF Next, Process

\* With the default priority of the timer task, the hardware runs when it must
\* and only then, for any number of timers.
THEOREM HardwareSwitched == ASSUME Preempting = FALSE PROVE Spec => []HardwareOn
<1>1. SInv => HardwareOn
  <2> SUFFICES ASSUME SInv, Quiet PROVE hwOn = (active > 0)
    BY DEF HardwareOn
  <2>1. hwOn \in BOOLEAN /\ sem = 0 /\ pc = "wait"
    BY DEF SInv, TInv, TypeOK, Quiet
  <2>2. hwOn <=> active > 0
    BY <2>1 DEF SInv, Switch
  <2> QED  BY <2>1, <2>2
<1> QED  BY SInit, SNext, <1>1, PTL DEF Spec


-----------------------------------------------------------------------------
(***************************************************************************)
(* The list.  From the head on it is a sequence of the timers that are     *)
(* open, each of them once, so a walk as long as there are timers has met  *)
(* them all and is at its end.                                             *)
(***************************************************************************)
IsList(n, s) ==
    /\ \A i, j \in 1 .. n : s[i] = s[j] => i = j
    /\ head = IF n = 0 THEN NoTimer ELSE s[1]
    /\ \A i \in 1 .. n : next[s[i]] = IF i = n THEN NoTimer ELSE s[i + 1]
    /\ \A t \in Timer : status[t] # "free" <=> \E i \in 1 .. n : s[i] = t

Listing == \E n \in Nat : \E s \in [1 .. n -> Timer] : IsList(n, s)

\* A set of naturals with 0 and the successors of its elements has them all.
LEMMA SetInduction ==
    ASSUME NEW S \in SUBSET Nat, 0 \in S, \A n \in S : n + 1 \in S
    PROVE  S = Nat
<1> SUFFICES ASSUME S # Nat PROVE FALSE
  OBVIOUS
<1>1. PICK x \in Nat \ S : \A y \in Nat \ S : ~ (<<y, x>> \in OpToRel(<, Nat))
  BY NatLessThanWellFounded, WFMin
<1>2. \A y \in Nat \ S : ~ (y < x)
  BY <1>1 DEF OpToRel
<1>3. x - 1 \in Nat /\ x - 1 < x /\ (x - 1) + 1 = x
  <2>1. x \in Nat /\ x # 0
    OBVIOUS
  <2> QED  BY <2>1
<1>4. x - 1 \in S
  BY <1>2, <1>3
<1> QED  BY <1>1, <1>3, <1>4

LEMMA TimersAre == NoTimer \notin Timer /\ IsFiniteSet(Timer) /\ Cardinality(Timer) \in Nat
BY TimerAssumption, LiveFinite

\* The list has no more nodes than there are timers.
LEMMA ListFits ==
    ASSUME NEW n \in Nat, NEW s \in [1 .. n -> Timer], IsList(n, s)
    PROVE  n <= Cardinality(Timer)
<1>1. s \in Injection(1 .. n, Timer)
  BY DEF IsList, Injection, IsInjective
<1>2. Cardinality(1 .. n) <= Cardinality(Timer)
  BY <1>1, TimersAre, FS_Injection
<1>3. Cardinality(1 .. n) = IF 1 > n THEN 0 ELSE n - 1 + 1
  BY FS_Interval
<1> QED  BY <1>2, <1>3, TimersAre

\* A walk meets the elements of the sequence and then stays at the end.
LEMMA NodeIs ==
    ASSUME NEW n \in Nat, NEW s \in [1 .. n -> Timer], IsList(n, s)
    PROVE  \A k \in Nat : Node[k] = IF k < n THEN s[k + 1] ELSE NoTimer
<1> DEFINE Step(x) == IF x = NoTimer THEN NoTimer ELSE next[x]
           Reach(f) == [k \in Nat |-> IF k = 0 THEN head ELSE Step(f[k - 1])]
           g == [k \in Nat |-> IF k < n THEN s[k + 1] ELSE NoTimer]
<1>1. Node = CHOOSE f : f = Reach(f)
  BY DEF Node
<1>2. /\ head = IF n = 0 THEN NoTimer ELSE s[1]
      /\ \A i \in 1 .. n : next[s[i]] = IF i = n THEN NoTimer ELSE s[i + 1]
      /\ \A i \in 1 .. n : s[i] # NoTimer
  BY TimersAre DEF IsList
<1>3. g = Reach(g)
  <2> SUFFICES ASSUME NEW k \in Nat
               PROVE  g[k] = IF k = 0 THEN head ELSE Step(g[k - 1])
    OBVIOUS
  <2>1. CASE k = 0
    BY <1>2, <2>1
  <2>2. CASE k # 0
    <3>1. k - 1 \in Nat /\ (k - 1) + 1 = k
      BY <2>2
    <3>2. g[k - 1] = (IF k - 1 < n THEN s[k] ELSE NoTimer)
      BY <3>1
    <3>3. g[k] = (IF k < n THEN s[k + 1] ELSE NoTimer)
      OBVIOUS
    <3> HIDE DEF g
    <3>4. CASE k - 1 < n
      <4>1. k \in 1 .. n /\ (k < n <=> k # n)
        BY <2>2, <3>4
      <4>2. Step(g[k - 1]) = next[s[k]]
        BY <1>2, <3>2, <3>4, <4>1
      <4> QED  BY <1>2, <2>2, <3>3, <4>1, <4>2
    <3>5. CASE ~(k - 1 < n)
      <4>1. ~(k < n)
        BY <3>5
      <4> QED  BY <2>2, <3>2, <3>3, <3>5, <4>1
    <3> QED  BY <3>4, <3>5
  <2> QED  BY <2>1, <2>2
<1>4. Node = Reach(Node)
  <2> HIDE DEF g, Reach
  <2> QED  BY <1>1, <1>3, Zenon
<1>5. \A k \in Nat : Node[k] = g[k]
  <2> DEFINE S == {k \in Nat : Node[k] = g[k]}
  <2>0. /\ \A k \in Nat : Node[k] = IF k = 0 THEN head ELSE Step(Node[k - 1])
        /\ \A k \in Nat : g[k] = IF k = 0 THEN head ELSE Step(g[k - 1])
    BY <1>3, <1>4
  <2> HIDE DEF g, Reach, Step
  <2>1. 0 \in S
    BY <2>0
  <2>2. ASSUME NEW k \in S PROVE k + 1 \in S
    <3>1. k + 1 \in Nat /\ (k + 1) - 1 = k /\ k + 1 # 0
      OBVIOUS
    <3> QED  BY <2>0, <3>1
  <2>3. S = Nat
    <3> HIDE DEF S
    <3> QED  BY <2>1, <2>2, SetInduction DEF S
  <2> QED  BY <2>3
<1> QED  BY <1>5

LEMMA InListIs ==
    ASSUME Listing
    PROVE  /\ InList = {t \in Timer : status[t] # "free"}
           /\ Node[Cardinality(Timer)] = NoTimer
<1>0. PICK n \in Nat : \E s \in [1 .. n -> Timer] : IsList(n, s)
  BY DEF Listing
<1>1. PICK s \in [1 .. n -> Timer] : IsList(n, s)
  BY <1>0
<1>2. \A k \in Nat : Node[k] = IF k < n THEN s[k + 1] ELSE NoTimer
  BY <1>1, NodeIs
<1>3. n <= Cardinality(Timer) /\ Cardinality(Timer) \in Nat
  BY <1>1, ListFits, TimersAre
<1>4. Node[Cardinality(Timer)] = NoTimer
  BY <1>2, <1>3
<1>5. ASSUME NEW x \in InList PROVE x \in Timer /\ status[x] # "free"
  <2>1. PICK k \in 0 .. Cardinality(Timer) : Node[k] = x /\ x # NoTimer
    BY <1>5 DEF InList
  <2>2. k \in Nat /\ k < n /\ k + 1 \in 1 .. n /\ x = s[k + 1]
    BY <1>2, <1>3, <2>1
  <2> QED  BY <1>1, <2>2 DEF IsList
<1>6. ASSUME NEW t \in Timer, status[t] # "free" PROVE t \in InList
  <2>1. PICK i \in 1 .. n : s[i] = t
    BY <1>1, <1>6 DEF IsList
  <2>2. i - 1 \in 0 .. Cardinality(Timer) /\ i - 1 \in Nat /\ i - 1 < n /\ (i - 1) + 1 = i
    BY <1>3
  <2>3. Node[i - 1] = t
    BY <1>2, <2>1, <2>2
  <2> QED  BY <2>2, <2>3, TimersAre DEF InList
<1> QED  BY <1>4, <1>5, <1>6

\* Only TM_Open and TM_Close touch the list and what is open.
LEMMA OthersKeep ==
    ASSUME TInv, [Next]_vars
    PROVE  \/ \E c \in Caller, t \in Timer : Open(c, t)
           \/ \E c \in Caller, t \in Timer : Close(c, t)
           \/ UNCHANGED list /\ \A t \in Timer : status'[t] = "free" <=> status[t] = "free"
<1> DEFINE Same == UNCHANGED list /\ \A t \in Timer : status'[t] = "free" <=> status[t] = "free"
<1> USE DEF TInv, TypeOK
<1>1. ASSUME NEW t \in Timer, status[t] # "free", TimerStop(t, "inactive")
      PROVE  \A u \in Timer : status'[u] = "free" <=> status[u] = "free"
  BY <1>1 DEF TimerStop, Live
<1>2. CASE Tick \/ Match
  BY <1>2 DEF Tick, Match
<1>3. ASSUME NEW c \in Caller, NEW t \in Timer, Stop(c, t) \/ Start(c, t) PROVE Same
  BY <1>1, <1>3 DEF Stop, Start
<1>4. ASSUME NEW c \in Caller, Enable(c) PROVE Same
  <2>1. \/ starting[c] \in Timer /\ status[starting[c]] = "inactive"
           /\ status' = [status EXCEPT ![starting[c]] = "ready"]
        \/ status' = status
    BY <1>4 DEF Enable
  <2> QED  BY <1>4, <2>1 DEF Enable
<1>5. CASE Wait \/ VisitRunning \/ VisitOther \/ CallbackReturns \/ WalkEnds \/ Program
           \/ StoreRunning
  BY <1>5 DEF Wait, VisitRunning, VisitOther, CallbackReturns, WalkEnds, Program,
              StoreRunning
<1>6. CASE VisitReady
  BY <1>6 DEF VisitReady
<1>7. CASE Expire
  <2>1. th \in Timer /\ status[th] = "active" /\ UNCHANGED list
        /\ (status' = status \/ TimerStop(th, "inactive"))
    BY <1>7 DEF Expire
  <2> QED  BY <1>1, <2>1
<1>8. CASE UNCHANGED vars
  BY <1>8 DEF vars
<1> QED
  BY <1>2, <1>3, <1>4, <1>5, <1>6, <1>7, <1>8 DEF Next, Process

LEMMA ListKept ==
    ASSUME UNCHANGED list, \A t \in Timer : status'[t] = "free" <=> status[t] = "free",
           NEW n \in Nat, NEW s \in [1 .. n -> Timer], IsList(n, s)
    PROVE  IsList(n, s)'
<1>1. /\ \A i \in 1 .. n : next'[s[i]] = IF i = n THEN NoTimer ELSE s[i + 1]
      /\ head' = IF n = 0 THEN NoTimer ELSE s[1]
  BY DEF IsList, list
<1>2. \A t \in Timer : status'[t] # "free" <=> \E i \in 1 .. n : s[i] = t
  BY DEF IsList
<1> QED  BY <1>1, <1>2 DEF IsList

\* TM_Open puts the timer before all others, which keep their places.
LEMMA ListOpened ==
    ASSUME Cleared, TInv, NEW c \in Caller, NEW t \in Timer, Open(c, t),
           NEW n \in Nat, NEW s \in [1 .. n -> Timer], IsList(n, s)
    PROVE  \E r \in [1 .. n + 1 -> Timer] :
              IsList(n + 1, r)' /\ r[1] = t /\ \A i \in 1 .. n : r[i + 1] = s[i]
<1>1. /\ status[t] = "free" /\ status' = [status EXCEPT ![t] = "inactive"]
      /\ head' = t /\ next' = [next EXCEPT ![t] = head]
  BY DEF Open, LinkOf
<1>2. \A u \in Timer : (status'[u] # "free" <=> u = t \/ status[u] # "free")
                       /\ next'[u] = IF u = t THEN head ELSE next[u]
  BY <1>1 DEF TInv, TypeOK
<1>a. \E r : r = [i \in 1 .. n + 1 |-> IF i = 1 THEN t ELSE s[i - 1]]
  OBVIOUS
<1>b. PICK r : r = [i \in 1 .. n + 1 |-> IF i = 1 THEN t ELSE s[i - 1]]
  BY <1>a
<1>3. /\ n + 1 \in Nat /\ n + 1 # 0 /\ r[1] = t
      /\ \A i \in 1 .. n + 1 : i # 1 => i - 1 \in 1 .. n /\ r[i] = s[i - 1]
      /\ \A i \in 1 .. n : i + 1 \in 1 .. n + 1 /\ r[i + 1] = s[i]
  BY <1>b
<1>4. r \in [1 .. n + 1 -> Timer]
  BY <1>b
<1>5. \A i \in 1 .. n : s[i] \in Timer /\ s[i] # t
  BY <1>1 DEF IsList
<1>6. \A i, j \in 1 .. n + 1 : r[i] = r[j] => i = j
  <2> SUFFICES ASSUME NEW i \in 1 .. n + 1, NEW j \in 1 .. n + 1, r[i] = r[j]
               PROVE  i = j
    OBVIOUS
  <2>1. CASE i = 1 \/ j = 1
    BY <1>3, <1>5, <2>1
  <2>2. CASE i # 1 /\ j # 1
    <3>1. i - 1 = j - 1
      BY <1>3, <2>2 DEF IsList
    <3> QED  BY <3>1
  <2> QED  BY <2>1, <2>2
<1>7. \A i \in 1 .. n + 1 : next'[r[i]] = IF i = n + 1 THEN NoTimer ELSE r[i + 1]
  <2> SUFFICES ASSUME NEW i \in 1 .. n + 1
               PROVE  next'[r[i]] = IF i = n + 1 THEN NoTimer ELSE r[i + 1]
    OBVIOUS
  <2>1. CASE i = 1
    <3>1. next'[r[i]] = head
      BY <1>2, <1>3, <2>1
    <3>2. n # 0 => 1 \in 1 .. n /\ r[i + 1] = s[1]
      BY <1>3, <2>1
    <3> QED  BY <2>1, <3>1, <3>2 DEF IsList
  <2>2. CASE i # 1
    <3>1. next'[r[i]] = next[s[i - 1]] /\ i - 1 \in 1 .. n
      BY <1>2, <1>3, <1>5, <2>2
    <3>2. next[s[i - 1]] = IF i - 1 = n THEN NoTimer ELSE s[(i - 1) + 1]
      BY <3>1 DEF IsList
    <3>3. i # n + 1 => i \in 1 .. n /\ r[i + 1] = s[i] /\ i - 1 # n /\ (i - 1) + 1 = i
      BY <1>3
    <3> QED  BY <3>1, <3>2, <3>3
  <2> QED  BY <2>1, <2>2
<1>8. \A u \in Timer : status'[u] # "free" <=> \E i \in 1 .. n + 1 : r[i] = u
  <2>1. ASSUME NEW u \in Timer, status'[u] # "free" PROVE \E i \in 1 .. n + 1 : r[i] = u
    <3>1. CASE u = t
      BY <1>3, <3>1
    <3>2. CASE u # t
      <4>1. PICK i \in 1 .. n : s[i] = u
        BY <1>2, <2>1, <3>2 DEF IsList
      <4> QED  BY <1>3, <4>1
    <3> QED  BY <3>1, <3>2
  <2>2. ASSUME NEW i \in 1 .. n + 1 PROVE status'[r[i]] # "free"
    <3>1. CASE i = 1
      BY <1>2, <1>3, <3>1
    <3>2. CASE i # 1
      <4>1. i - 1 \in 1 .. n /\ r[i] = s[i - 1] /\ s[i - 1] \in Timer
        BY <1>3, <3>2
      <4>2. status[s[i - 1]] # "free"
        BY <4>1 DEF IsList
      <4> QED  BY <1>2, <4>1, <4>2
    <3> QED  BY <3>1, <3>2
  <2> QED  BY <2>1, <2>2
<1>9. IsList(n + 1, r)'
  BY <1>1, <1>3, <1>6, <1>7, <1>8 DEF IsList
<1> QED  BY <1>3, <1>4, <1>9

\* TM_Close leaves the other timers in their order.
LEMMA ListClosed ==
    ASSUME TInv, Listing, NEW c \in Caller, NEW t \in Timer, Close(c, t)
    PROVE  Listing'
<1>0. PICK n \in Nat : \E s \in [1 .. n -> Timer] : IsList(n, s)
  BY DEF Listing
<1>1. PICK s \in [1 .. n -> Timer] : IsList(n, s)
  BY <1>0
<1>2. status[t] # "free" /\ TimerStop(t, "free") /\ Unlink(t)
  BY DEF Close
<1>3. \A u \in Timer : status'[u] # "free" <=> u # t /\ status[u] # "free"
  BY <1>2 DEF TimerStop, TInv, TypeOK
<1>4. PICK q \in 1 .. n : s[q] = t
  BY <1>1, <1>2 DEF IsList
<1>5. /\ \A i, j \in 1 .. n : s[i] = s[j] => i = j
      /\ n # 0 /\ head = s[1]
      /\ \A i \in 1 .. n : next[s[i]] = IF i = n THEN NoTimer ELSE s[i + 1]
      /\ \A i \in 1 .. n : s[i] \in Timer /\ s[i] # NoTimer /\ status[s[i]] # "free"
  BY <1>1, <1>4, TimersAre DEF IsList
<1>6. head = t <=> q = 1
  BY <1>4, <1>5
<1>7. head' = IF q = 1 THEN next[t] ELSE head
  BY <1>2, <1>6 DEF Unlink
<1>8. \A i \in 1 .. n : next'[s[i]] = IF i + 1 = q THEN next[t] ELSE next[s[i]]
  <2> SUFFICES ASSUME NEW i \in 1 .. n
               PROVE  next'[s[i]] = IF i + 1 = q THEN next[t] ELSE next[s[i]]
    OBVIOUS
  <2>1. CASE q = 1
    BY <1>2, <1>6, <2>1 DEF Unlink
  <2>2. CASE q # 1
    <3>1. s[i] \in InList
      BY <1>5, InListIs
    <3>2. next'[s[i]] = IF next[s[i]] = t THEN next[t] ELSE next[s[i]]
      BY <1>2, <1>5, <1>6, <2>2, <3>1 DEF Unlink
    <3>3. next[s[i]] = t <=> i + 1 = q
      <4>1. CASE i = n
        BY <1>5, <4>1, TimersAre
      <4>2. CASE i # n
        <5>1. i + 1 \in 1 .. n /\ next[s[i]] = s[i + 1]
          BY <1>5, <4>2
        <5> QED  BY <1>4, <1>5, <5>1
      <4> QED  BY <4>1, <4>2
    <3> QED  BY <3>2, <3>3
  <2> QED  BY <2>1, <2>2
<1>9. next[t] = IF q = n THEN NoTimer ELSE s[q + 1]
  BY <1>4, <1>5
<1>a. \E r : r = [i \in 1 .. n - 1 |-> IF i < q THEN s[i] ELSE s[i + 1]]
  OBVIOUS
<1>b. PICK r : r = [i \in 1 .. n - 1 |-> IF i < q THEN s[i] ELSE s[i + 1]]
  BY <1>a
<1>10. n - 1 \in Nat /\ \A i \in 1 .. n - 1 : i \in 1 .. n /\ i + 1 \in 1 .. n
  BY <1>5
<1>11. \A i \in 1 .. n - 1 :
          /\ i < q => r[i] = s[i]
          /\ ~(i < q) => r[i] = s[i + 1]
          /\ r[i] \in Timer
  BY <1>5, <1>10, <1>b
<1>12. r \in [1 .. n - 1 -> Timer]
  BY <1>11, <1>b
<1>13. \A i, j \in 1 .. n - 1 : r[i] = r[j] => i = j
  <2> SUFFICES ASSUME NEW i \in 1 .. n - 1, NEW j \in 1 .. n - 1, r[i] = r[j]
               PROVE  i = j
    OBVIOUS
  <2>1. PICK k \in 1 .. n : r[i] = s[k] /\ k = IF i < q THEN i ELSE i + 1
    BY <1>10, <1>11
  <2>2. PICK l \in 1 .. n : r[j] = s[l] /\ l = IF j < q THEN j ELSE j + 1
    BY <1>10, <1>11
  <2>3. k = l
    BY <1>5, <2>1, <2>2
  <2> QED  BY <2>1, <2>2, <2>3
<1>14. head' = IF n - 1 = 0 THEN NoTimer ELSE r[1]
  <2>1. CASE n = 1
    BY <1>7, <1>9, <2>1
  <2>2. CASE n # 1
    <3>1. 1 \in 1 .. n - 1
      BY <1>5, <2>2
    <3>2. r[1] = IF q = 1 THEN s[2] ELSE s[1]
      BY <1>11, <3>1
    <3> QED  BY <1>5, <1>7, <1>9, <2>2, <3>2
  <2> QED  BY <2>1, <2>2
<1>15. \A i \in 1 .. n - 1 : next'[r[i]] = IF i = n - 1 THEN NoTimer ELSE r[i + 1]
  <2> SUFFICES ASSUME NEW i \in 1 .. n - 1
               PROVE  next'[r[i]] = IF i = n - 1 THEN NoTimer ELSE r[i + 1]
    OBVIOUS
  <2>0. i # n - 1 => i + 1 \in 1 .. n - 1
    OBVIOUS
  <2>1. CASE i + 1 < q
    <3>1. r[i] = s[i] /\ r[i + 1] = s[i + 1] /\ i # n - 1 /\ i \in 1 .. n /\ i # n
      BY <1>10, <1>11, <2>0, <2>1
    <3>2. next'[s[i]] = next[s[i]] /\ next[s[i]] = s[i + 1]
      BY <1>5, <1>8, <2>1, <3>1
    <3> QED  BY <3>1, <3>2
  <2>2. CASE i + 1 = q
    <3>1. r[i] = s[i] /\ i \in 1 .. n
      BY <1>10, <1>11, <2>2
    <3>2. next'[s[i]] = next[t]
      BY <1>8, <2>2, <3>1
    <3>3. i # n - 1 => r[i + 1] = s[q + 1] /\ q # n
      BY <1>11, <2>0, <2>2
    <3>4. i = n - 1 => q = n
      BY <2>2
    <3> QED  BY <1>9, <3>1, <3>2, <3>3, <3>4
  <2>3. CASE ~(i < q)
    <3>1. r[i] = s[i + 1] /\ (i + 1) + 1 # q /\ i + 1 \in 1 .. n
      BY <1>10, <1>11, <2>3
    <3>2. next'[s[i + 1]] = next[s[i + 1]]
      BY <1>8, <3>1
    <3>3. next[s[i + 1]] = IF i + 1 = n THEN NoTimer ELSE s[(i + 1) + 1]
      BY <1>5, <3>1
    <3>4. i # n - 1 => r[i + 1] = s[(i + 1) + 1] /\ i + 1 # n
      BY <1>11, <2>0, <2>3
    <3>5. i = n - 1 => i + 1 = n
      OBVIOUS
    <3> QED  BY <3>1, <3>2, <3>3, <3>4, <3>5
  <2> QED  BY <2>1, <2>2, <2>3
<1>16. \A u \in Timer : status'[u] # "free" <=> \E i \in 1 .. n - 1 : r[i] = u
  <2>1. ASSUME NEW u \in Timer, status'[u] # "free" PROVE \E i \in 1 .. n - 1 : r[i] = u
    <3>1. PICK k \in 1 .. n : s[k] = u
      BY <1>1, <1>3, <2>1 DEF IsList
    <3>2. k # q
      BY <1>3, <1>4, <2>1, <3>1
    <3>3. CASE k < q
      <4>1. k \in 1 .. n - 1 /\ r[k] = u
        BY <1>11, <3>1, <3>3
      <4> QED  BY <4>1
    <3>4. CASE k > q
      <4>1. k - 1 \in 1 .. n - 1 /\ ~(k - 1 < q) /\ (k - 1) + 1 = k
        BY <3>4
      <4>2. r[k - 1] = u
        BY <1>11, <3>1, <4>1
      <4> QED  BY <4>1, <4>2
    <3> QED  BY <3>2, <3>3, <3>4
  <2>2. ASSUME NEW i \in 1 .. n - 1 PROVE status'[r[i]] # "free"
    <3>1. PICK k \in 1 .. n : r[i] = s[k] /\ k # q
      BY <1>10, <1>11
    <3>2. s[k] # t
      BY <1>4, <1>5, <3>1
    <3> QED  BY <1>3, <1>5, <3>1, <3>2
  <2> QED  BY <2>1, <2>2
<1>17. IsList(n - 1, r)'
  BY <1>13, <1>14, <1>15, <1>16 DEF IsList
<1> QED  BY <1>10, <1>12, <1>17 DEF Listing

LEMMA LInit == Init => Listing
<1> SUFFICES ASSUME Init PROVE Listing
  OBVIOUS
<1> DEFINE s == [i \in 1 .. 0 |-> head]
<1>1. s \in [1 .. 0 -> Timer] /\ 0 \in Nat
  OBVIOUS
<1>2. IsList(0, s)
  BY DEF Init, IsList
<1> QED  BY <1>1, <1>2 DEF Listing

LEMMA LNext == ASSUME Cleared PROVE TInv /\ Listing /\ [Next]_vars => Listing'
<1> SUFFICES ASSUME TInv, Listing, [Next]_vars PROVE Listing'
  OBVIOUS
<1>0. PICK n \in Nat : \E s \in [1 .. n -> Timer] : IsList(n, s)
  BY DEF Listing
<1>1. PICK s \in [1 .. n -> Timer] : IsList(n, s)
  BY <1>0
<1>2. ASSUME NEW c \in Caller, NEW t \in Timer, Open(c, t) PROVE Listing'
  <2>1. \E r \in [1 .. n + 1 -> Timer] : IsList(n + 1, r)'
    BY <1>1, <1>2, ListOpened
  <2> QED  BY <2>1 DEF Listing
<1>3. ASSUME NEW c \in Caller, NEW t \in Timer, Close(c, t) PROVE Listing'
  BY <1>3, ListClosed
<1>4. CASE UNCHANGED list /\ \A t \in Timer : status'[t] = "free" <=> status[t] = "free"
  <2>1. IsList(n, s)'
    BY <1>1, <1>4, ListKept
  <2> QED  BY <2>1 DEF Listing
<1> QED  BY <1>2, <1>3, <1>4, OthersKeep

\* Every open timer is in the list once and a walk ends, whoever opened and closed
\* which timers in which order, from callbacks too (TM_Open, TM_Close), when callers
\* clear a handle before they open it again: TM_Open keeps the old link of a timer
\* that it puts into an empty list.
THEOREM ListCorrect == ASSUME Cleared PROVE Spec => []ListWhole
<1>1. Listing => ListWhole
  BY InListIs DEF ListWhole
<1>2. TInv /\ Listing /\ [Next]_vars => (TInv /\ Listing)'
  BY TNext, LNext
<1> QED  BY TInit, LInit, <1>1, <1>2, PTL DEF Spec

-----------------------------------------------------------------------------
(***************************************************************************)
(* What the match value covers.  As long as nothing is posted, each timer  *)
(* the walk has met is active or idle and the interval is at most what     *)
(* remains of it; a post makes the task walk again, so nothing need hold   *)
(* then.  A start in two halves by the user task leaves its timer idle and *)
(* no other due, so that no callback can start the timer in between.       *)
(***************************************************************************)
Covered(t, us) ==
    /\ status[t] # "ready"
    /\ status[t] = "active" => 0 < us /\ us <= remaining[t]

Loaded ==
    \A t \in Timer :
       /\ status[t] = "ready" => remaining[t] = timeout[t]
       /\ Live(t) => timeout[t] > 0

InCallback == pc \in {"callback", "called"}

Calls ==
    /\ starting["callback"] # NoTimer => pc = "called" /\ sem > 0
    /\ starting["user"] # NoTimer =>
          /\ ~InCallback /\ ~irq
          /\ status[starting["user"]] = "inactive"
          /\ \A t \in Timer : status[t] = "active" => remaining[t] > 0

\* The walk is at the k-th timer of the list s.
Visited(n, s, k) ==
    /\ th = IF k <= n THEN s[k] ELSE NoTimer
    /\ \A i \in 1 .. n : i < k => Covered(s[i], interval)

Walked ==
    sem = 0 /\ (pc = "walk" \/ InCallback) =>
       /\ interval > 0 \/ MaxTimeout = 0
       /\ \E n \in Nat : \E s \in [1 .. n -> Timer] :
             IsList(n, s) /\ \E k \in 1 .. n + 1 : Visited(n, s, k)

\* The timer whose callback runs.
Returns ==
    sem = 0 /\ InCallback =>
       /\ status[th] # "free"
       /\ IF state = "active" THEN status[th] = "active" /\ remaining[th] > 0
                              ELSE ~Live(th)

Programmed ==
    sem = 0 =>
       /\ pc = "test" => \A t \in Timer : Covered(t, interval)
       /\ pc \in {"store", "wait"} => \A t \in Timer : Covered(t, activeInterval)
       /\ pc = "wait" => running \/ \A t \in Timer : ~Live(t)

CInv == TInv /\ Listing /\ Loaded /\ Calls /\ Walked /\ Returns /\ Programmed

LEMMA CInit == Init => CInv
<1> SUFFICES ASSUME Init PROVE CInv
  OBVIOUS
<1>1. Loaded /\ Calls /\ Walked /\ Returns /\ Programmed
  BY DEF Init, Loaded, Live, Calls, Caller, Walked, Returns, Programmed, InCallback
<1> QED  BY <1>1, TInit, LInit DEF CInv

\* A step that posts leaves nothing to show of the walk and of the match value.
LEMMA PostedKeeps ==
    ASSUME sem' > 0
    PROVE  Walked' /\ Returns' /\ Programmed'
BY DEF Walked, Returns, Programmed

LEMMA Numbers ==
    ASSUME TInv
    PROVE  /\ MaxTimeout \in Nat /\ sem \in Nat /\ count \in Nat
           /\ interval \in Nat /\ activeInterval \in Nat
           /\ interval <= MaxTimeout /\ MaxTimeout # 0
           /\ \A t \in Timer : remaining[t] \in Nat /\ timeout[t] \in Nat
BY TimerAssumption DEF TInv, TypeOK

\* Time that passes leaves the timers that wait to be looked at alone.
LEMMA SyncIs ==
    ASSUME TInv, NEW us \in Nat, UpdateSync(us), NEW t \in Timer
    PROVE  /\ status'[t] # "active" => remaining'[t] = remaining[t]
           /\ remaining'[t] \in {remaining[t], Elapsed(remaining[t], us)}
BY DEF UpdateSync, TInv, TypeOK

\* TimerStop makes no timer live.
LEMMA StopIs ==
    ASSUME TInv, NEW t \in Timer, NEW to \in {"inactive", "free"}, TimerStop(t, to)
    PROVE  /\ status'[t] \in {"inactive", "free"}
           /\ \A u \in Timer : u # t => status'[u] = status[u]
           /\ to = "inactive" /\ status[t] # "free" => status'[t] = "inactive"
<1> USE DEF TInv, TypeOK
<1>1. CASE Live(t)
  BY <1>1 DEF TimerStop, Live
<1>2. CASE ~Live(t)
  BY <1>2 DEF TimerStop, Live
<1> QED  BY <1>1, <1>2

\* Where the calls come.
LEMMA CallIs ==
    ASSUME Preempting = FALSE, NEW c \in Caller, MayCall(c), Called(c)
    PROVE  /\ ~irq /\ starting[c] = NoTimer
           /\ \/ c = "callback" /\ pc = "callback" /\ pc' = "called"
              \/ c = "user" /\ pc = "wait" /\ pc' = "wait" /\ sem = 0
BY DEF Caller, MayCall, Called

\* TM_Stop, alone or in a TM_Close or TM_Start.
LEMMA StopKeeps ==
    ASSUME Preempting = FALSE, CInv, NEW c \in Caller, NEW t \in Timer,
           NEW to \in {"inactive", "free"}, MayCall(c), Called(c),
           TimerStop(t, to), UpdateSync(count), UNCHANGED <<timeout, irq>>,
           \/ UNCHANGED starting /\ (to = "free" => \A d \in Caller : starting[d] # t)
           \/ starting' = [starting EXCEPT ![c] = t] /\ to = "inactive" /\ status[t] # "free"
    PROVE  Loaded' /\ Calls' /\ Walked' /\ Returns' /\ Programmed'
<1>0. TInv /\ count \in Nat /\ sem \in Nat
  BY Numbers DEF CInv
<1>1. sem' > 0
  BY <1>0, PostSeen DEF UpdateSync, TInv
<1>2. Walked' /\ Returns' /\ Programmed'
  BY <1>1, PostedKeeps
<1>3. /\ status'[t] \in {"inactive", "free"}
      /\ \A u \in Timer : u # t => status'[u] = status[u]
      /\ to = "inactive" /\ status[t] # "free" => status'[t] = "inactive"
  BY <1>0, StopIs
<1>4. \A u \in Timer : status'[u] # "active" => remaining'[u] = remaining[u]
  BY <1>0, SyncIs
<1>5. Loaded'
  BY <1>3, <1>4 DEF CInv, Loaded, Live
<1>6. /\ ~irq /\ starting[c] = NoTimer
      /\ \/ c = "callback" /\ pc = "callback" /\ pc' = "called"
         \/ c = "user" /\ pc = "wait" /\ pc' = "wait" /\ sem = 0
  BY CallIs
<1>7. \A d \in Caller : d # c => starting'[d] = starting[d]
  BY <1>0 DEF TInv, TypeOK
<1>8. CASE c = "callback"
  <2>1. starting["user"] = NoTimer /\ pc' = "called"
    BY <1>6, <1>8 DEF CInv, Calls, InCallback
  <2>2. starting'["user"] = NoTimer
    BY <1>7, <1>8, <2>1 DEF Caller
  <2> QED  BY <1>1, <1>2, <1>5, <2>1, <2>2 DEF Calls
<1>9. CASE c = "user"
  <2>1. starting["callback"] = NoTimer /\ pc = "wait" /\ pc' = "wait" /\ sem = 0
    BY <1>6, <1>9 DEF CInv, Calls
  <2>2. starting'["callback"] = NoTimer
    BY <1>7, <1>9, <2>1 DEF Caller
  <2>3. CASE UNCHANGED starting
    <3>1. starting'["user"] = NoTimer
      BY <1>6, <1>9, <2>3
    <3> QED  BY <1>2, <1>5, <2>2, <3>1 DEF Calls
  <2>4. CASE starting' = [starting EXCEPT ![c] = t] /\ to = "inactive" /\ status[t] # "free"
    <3>1. starting'["user"] = t /\ status'[t] = "inactive"
      BY <1>0, <1>3, <1>9, <2>4 DEF TInv, TypeOK
    <3>2. ASSUME NEW u \in Timer, status'[u] = "active" PROVE remaining'[u] > 0
      <4>1. u # t /\ status[u] = "active"
        BY <1>3, <3>1, <3>2
      <4>2. 0 < activeInterval /\ activeInterval <= remaining[u]
        BY <2>1, <4>1 DEF CInv, Programmed, Covered
      <4>3. count < remaining[u]
        BY <1>0, <4>2, Numbers DEF TInv, Within
      <4>4. remaining[u] > 0 /\ Elapsed(remaining[u], count) > 0
        BY <1>0, <4>2, <4>3, Numbers DEF Elapsed
      <4> QED  BY <1>0, <4>4, SyncIs
    <3>3. ~InCallback' /\ ~irq'
      BY <1>6, <2>1 DEF InCallback
    <3> QED  BY <1>2, <1>5, <2>2, <3>1, <3>2, <3>3 DEF Calls
  <2> QED  BY <2>3, <2>4
<1> QED  BY <1>6, <1>8, <1>9

\* TM_Open posts nothing: the new timer is idle and counts as met.
LEMMA OpenKeeps ==
    ASSUME Cleared, Preempting = FALSE, CInv, NEW c \in Caller, NEW t \in Timer, Open(c, t)
    PROVE  Loaded' /\ Calls' /\ Walked' /\ Returns' /\ Programmed'
<1>0. TInv
  BY DEF CInv
<1>1. /\ ~irq /\ starting[c] = NoTimer
      /\ \/ c = "callback" /\ pc = "callback" /\ pc' = "called"
         \/ c = "user" /\ pc = "wait" /\ pc' = "wait" /\ sem = 0
  BY CallIs DEF Open
<1>2. /\ status[t] = "free" /\ status'[t] = "inactive"
      /\ \A u \in Timer : u # t => status'[u] = status[u]
      /\ UNCHANGED <<timeout, remaining, interval, activeInterval, running, irq, sem, th,
                     state, starting>>
  BY <1>0 DEF Open, hw, TInv, TypeOK
<1>3. Loaded'
  BY <1>2 DEF CInv, Loaded, Live
<1>4. Calls'
  <2>1. CASE c = "callback"
    BY <1>1, <1>2, <2>1 DEF CInv, Calls, InCallback
  <2>2. CASE c = "user"
    BY <1>1, <1>2, <2>2 DEF CInv, Calls, InCallback
  <2> QED  BY <1>1, <2>1, <2>2
<1>5. \A u \in Timer, us \in Nat : Covered(u, us) => Covered(u, us)'
  BY <1>2 DEF Covered
<1>6. interval \in Nat /\ activeInterval \in Nat
  BY <1>0, Numbers
<1>7. Walked'
  <2> SUFFICES ASSUME sem' = 0, pc' = "walk" \/ InCallback'
               PROVE  /\ interval' > 0 \/ MaxTimeout = 0
                      /\ \E n \in Nat : \E s \in [1 .. n -> Timer] :
                            IsList(n, s)' /\ \E k \in 1 .. n + 1 : Visited(n, s, k)'
    BY DEF Walked
  <2>1. sem = 0 /\ InCallback
    BY <1>1, <1>2 DEF InCallback
  <2>2. PICK n \in Nat : \E s \in [1 .. n -> Timer] :
           IsList(n, s) /\ \E k \in 1 .. n + 1 : Visited(n, s, k)
    BY <2>1 DEF CInv, Walked
  <2>3. PICK s \in [1 .. n -> Timer] : IsList(n, s) /\ \E k \in 1 .. n + 1 : Visited(n, s, k)
    BY <2>2
  <2>4. PICK k \in 1 .. n + 1 : Visited(n, s, k)
    BY <2>3
  <2>5. PICK r \in [1 .. n + 1 -> Timer] :
           IsList(n + 1, r)' /\ r[1] = t /\ \A i \in 1 .. n : r[i + 1] = s[i]
    BY <1>0, <2>3, ListOpened
  <2>6. n + 1 \in Nat /\ k + 1 \in 1 .. (n + 1) + 1
    OBVIOUS
  <2>7. th' = IF k + 1 <= n + 1 THEN r[k + 1] ELSE NoTimer
    <3>1. th' = IF k <= n THEN s[k] ELSE NoTimer
      BY <1>2, <2>4 DEF Visited
    <3>2. k <= n => k \in 1 .. n /\ k + 1 <= n + 1
      OBVIOUS
    <3>3. ~(k <= n) => ~(k + 1 <= n + 1)
      OBVIOUS
    <3> QED  BY <2>5, <3>1, <3>2, <3>3
  <2>8. ASSUME NEW i \in 1 .. n + 1, i < k + 1 PROVE Covered(r[i], interval)'
    <3>1. CASE i = 1
      <4>1. status'[r[i]] = "inactive"
        BY <1>2, <2>5, <3>1
      <4> QED  BY <4>1 DEF Covered
    <3>2. CASE i # 1
      <4>1. i - 1 \in 1 .. n /\ i - 1 < k /\ (i - 1) + 1 = i
        BY <2>8, <3>2
      <4>2. r[i] = s[i - 1] /\ s[i - 1] \in Timer /\ Covered(s[i - 1], interval)
        BY <2>4, <2>5, <4>1 DEF Visited
      <4>3. status'[r[i]] = status[s[i - 1]] \/ status'[r[i]] = "inactive"
        BY <1>2, <4>2
      <4> QED  BY <1>2, <4>2, <4>3 DEF Covered
    <3> QED  BY <3>1, <3>2
  <2>9. Visited(n + 1, r, k + 1)'
    BY <2>7, <2>8 DEF Visited
  <2>10. interval' > 0 \/ MaxTimeout = 0
    BY <1>2, <2>1 DEF CInv, Walked
  <2> QED  BY <2>5, <2>6, <2>9, <2>10
<1>8. Returns'
  <2> SUFFICES ASSUME sem' = 0, InCallback'
               PROVE  /\ status'[th'] # "free"
                      /\ IF state' = "active" THEN status'[th'] = "active" /\ remaining'[th'] > 0
                                              ELSE ~Live(th)'
    BY DEF Returns, Live
  <2>1. sem = 0 /\ InCallback /\ th \in Timer
    BY <1>0, <1>1, <1>2 DEF InCallback, TInv, Within
  <2>2. th # t /\ status'[th] = status[th]
    BY <1>2, <2>1 DEF CInv, Returns
  <2> QED  BY <1>2, <2>1, <2>2 DEF CInv, Returns, Live
<1>9. Programmed'
  <2> SUFFICES ASSUME sem' = 0, pc' = "wait"
               PROVE  /\ \A u \in Timer : Covered(u, activeInterval)'
                      /\ running' \/ \A u \in Timer : ~Live(u)'
    BY <1>1 DEF Programmed
  <2>1. sem = 0 /\ pc = "wait"
    BY <1>1, <1>2
  <2>2. \A u \in Timer : Covered(u, activeInterval)
    BY <2>1 DEF CInv, Programmed
  <2>3. \A u \in Timer : Covered(u, activeInterval)'
    BY <1>2, <2>2 DEF Covered
  <2>4. running' \/ \A u \in Timer : ~Live(u)'
    BY <1>2, <2>1 DEF CInv, Programmed, Live
  <2> QED  BY <2>3, <2>4
<1> QED  BY <1>3, <1>4, <1>7, <1>8, <1>9

\* The second half of TM_Start: it posts, or has already.
LEMMA EnableKeeps ==
    ASSUME Preempting = FALSE, CInv, NEW c \in Caller, Enable(c)
    PROVE  Loaded' /\ Calls' /\ Walked' /\ Returns' /\ Programmed'
<1> DEFINE t == starting[c]
<1>0. TInv /\ t \in Timer /\ sem \in Nat
  BY Numbers DEF CInv, Enable, TInv, TypeOK
<1>1. /\ ~irq /\ UNCHANGED <<irq, pc, th, state, interval, activeInterval, running>>
      /\ starting' = [starting EXCEPT ![c] = NoTimer]
      /\ \/ c = "callback" /\ pc = "called"
         \/ c = "user" /\ pc = "wait" /\ sem = 0
  BY DEF Enable, hw, task, Caller
<1>2. PICK us \in Timeouts, p \in BOOLEAN :
          /\ timeout' = [timeout EXCEPT ![t] = us]
          /\ periodic' = [periodic EXCEPT ![t] = p]
          /\ IF status[t] = "inactive"
             THEN /\ active' = active + 1
                  /\ status' = [status EXCEPT ![t] = "ready"]
                  /\ remaining' = [u \in Timer |->
                        IF u = t THEN us
                        ELSE IF u \in InList /\ status[u] = "active"
                        THEN Elapsed(remaining[u], count) ELSE remaining[u]]
                  /\ sem' = Posted
             ELSE /\ remaining' = [remaining EXCEPT ![t] = us]
                  /\ UNCHANGED <<active, status, sem>>
  BY DEF Enable
<1>3. us \in Nat /\ us > 0 /\ timeout'[t] = us /\ remaining'[t] = us
      /\ \A u \in Timer : u # t =>
            /\ timeout'[u] = timeout[u] /\ status'[u] = status[u]
            /\ status[u] # "active" => remaining'[u] = remaining[u]
  <2>1. us \in Nat /\ us > 0
    BY TimerAssumption
  <2>2. timeout'[t] = us /\ \A u \in Timer : u # t => timeout'[u] = timeout[u]
    BY <1>0, <1>2 DEF TInv, TypeOK
  <2>3. CASE status[t] = "inactive"
    BY <1>0, <1>2, <2>1, <2>2, <2>3 DEF TInv, TypeOK
  <2>4. CASE status[t] # "inactive"
    BY <1>0, <1>2, <2>1, <2>2, <2>4 DEF TInv, TypeOK
  <2> QED  BY <2>3, <2>4
<1>4. sem' > 0
  <2>1. CASE status[t] = "inactive"
    BY <1>0, <1>2, <2>1, PostSeen DEF TInv
  <2>2. CASE status[t] # "inactive"
    <3>1. c = "callback"
      BY <1>0, <1>1, <2>2, TimersAre DEF CInv, Calls
    <3> QED  BY <1>0, <1>2, <2>2, <3>1, TimersAre DEF CInv, Calls
  <2> QED  BY <2>1, <2>2
<1>5. Walked' /\ Returns' /\ Programmed'
  BY <1>4, PostedKeeps
<1>6. Loaded'
  BY <1>0, <1>3 DEF CInv, Loaded, Live
<1>7. Calls'
  <2>1. starting'[c] = NoTimer /\ \A d \in Caller : d # c => starting'[d] = starting[d]
    BY <1>0, <1>1 DEF TInv, TypeOK
  <2>2. CASE c = "callback"
    <3>1. starting["user"] = NoTimer
      BY <1>1, <2>2 DEF CInv, Calls, InCallback
    <3>2. starting'["user"] = NoTimer /\ starting'["callback"] = NoTimer
      BY <2>1, <2>2, <3>1 DEF Caller
    <3> QED  BY <3>2 DEF Calls
  <2>3. CASE c = "user"
    <3>1. starting["callback"] = NoTimer
      BY <1>1, <2>3 DEF CInv, Calls
    <3>2. starting'["user"] = NoTimer /\ starting'["callback"] = NoTimer
      BY <2>1, <2>3, <3>1 DEF Caller
    <3> QED  BY <3>2 DEF Calls
  <2> QED  BY <1>1, <2>2, <2>3
<1> QED  BY <1>5, <1>6, <1>7

\* Steps that only let the walk stand where it is.
LEMMA StandsKeep ==
    ASSUME CInv, UNCHANGED <<list, interval, sem, th>>,
           \A t \in Timer : status'[t] = "free" <=> status[t] = "free",
           \A t \in Timer : t # th /\ Covered(t, interval) => Covered(t, interval)',
           pc = "walk" \/ InCallback
    PROVE  Walked'
<1> SUFFICES ASSUME sem' = 0
             PROVE  /\ interval' > 0 \/ MaxTimeout = 0
                    /\ \E n \in Nat : \E s \in [1 .. n -> Timer] :
                          IsList(n, s)' /\ \E k \in 1 .. n + 1 : Visited(n, s, k)'
  BY DEF Walked
<1>1. (interval > 0 \/ MaxTimeout = 0)
      /\ \E n \in Nat : \E s \in [1 .. n -> Timer] :
            IsList(n, s) /\ \E k \in 1 .. n + 1 : Visited(n, s, k)
  BY DEF CInv, Walked
<1>2. PICK n \in Nat : \E s \in [1 .. n -> Timer] :
         IsList(n, s) /\ \E k \in 1 .. n + 1 : Visited(n, s, k)
  BY <1>1
<1>3. PICK s \in [1 .. n -> Timer] : IsList(n, s) /\ \E k \in 1 .. n + 1 : Visited(n, s, k)
  BY <1>2
<1>4. PICK k \in 1 .. n + 1 : Visited(n, s, k)
  BY <1>3
<1>5. IsList(n, s)'
  BY <1>3, ListKept
<1>6. ASSUME NEW i \in 1 .. n, i < k PROVE Covered(s[i], interval)'
  <2>1. Covered(s[i], interval) /\ s[i] \in Timer
    BY <1>4, <1>6 DEF Visited
  <2>2. s[i] # th
    <3>1. CASE k <= n
      <4>1. k \in 1 .. n /\ th = s[k] /\ i # k
        BY <1>4, <1>6, <3>1 DEF Visited
      <4> QED  BY <1>3, <4>1 DEF IsList
    <3>2. CASE ~(k <= n)
      BY <1>4, <2>1, <3>2, TimersAre DEF Visited
    <3> QED  BY <3>1, <3>2
  <2> QED  BY <2>1, <2>2
<1>7. th' = IF k <= n THEN s[k] ELSE NoTimer
  BY <1>4 DEF Visited
<1>8. Visited(n, s, k)'
  BY <1>6, <1>7 DEF Visited
<1> QED  BY <1>1, <1>5, <1>8

\* A step of the walk from a timer that it covers to the next one.
LEMMA AdvanceKeeps ==
    ASSUME CInv, UNCHANGED <<list, sem>>, th \in Timer, th' = next[th],
           \A t \in Timer : status'[t] = "free" <=> status[t] = "free",
           pc = "walk" \/ InCallback,
           sem = 0 => \A t \in Timer :
                         t = th \/ Covered(t, interval) => Covered(t, interval)',
           sem = 0 => interval' > 0 \/ MaxTimeout = 0
    PROVE  Walked'
<1> SUFFICES ASSUME sem = 0
             PROVE  \E n \in Nat : \E s \in [1 .. n -> Timer] :
                       IsList(n, s)' /\ \E k \in 1 .. n + 1 : Visited(n, s, k)'
  BY DEF Walked
<1>1. \E n \in Nat : \E s \in [1 .. n -> Timer] :
         IsList(n, s) /\ \E k \in 1 .. n + 1 : Visited(n, s, k)
  BY DEF CInv, Walked
<1>2. PICK n \in Nat : \E s \in [1 .. n -> Timer] :
         IsList(n, s) /\ \E k \in 1 .. n + 1 : Visited(n, s, k)
  BY <1>1
<1>3. PICK s \in [1 .. n -> Timer] : IsList(n, s) /\ \E k \in 1 .. n + 1 : Visited(n, s, k)
  BY <1>2
<1>4. PICK k \in 1 .. n + 1 : Visited(n, s, k)
  BY <1>3
<1>5. IsList(n, s)'
  BY <1>3, ListKept
<1>6. k <= n /\ k \in 1 .. n /\ th = s[k] /\ k + 1 \in 1 .. n + 1
  BY <1>4, TimersAre DEF Visited
<1>7. th' = IF k + 1 <= n THEN s[k + 1] ELSE NoTimer
  <2>1. next[s[k]] = IF k = n THEN NoTimer ELSE s[k + 1]
    BY <1>3, <1>6 DEF IsList
  <2>2. k = n <=> ~(k + 1 <= n)
    BY <1>6
  <2> QED  BY <1>6, <2>1, <2>2
<1>8. ASSUME NEW i \in 1 .. n, i < k + 1 PROVE Covered(s[i], interval)'
  <2>1. CASE i = k
    BY <1>6, <2>1
  <2>2. CASE i # k
    <3>1. i < k /\ s[i] \in Timer
      BY <1>8, <2>2
    <3>2. Covered(s[i], interval)
      BY <1>4, <3>1 DEF Visited
    <3> QED  BY <3>1, <3>2
  <2> QED  BY <2>1, <2>2
<1>9. Visited(n, s, k + 1)'
  BY <1>7, <1>8 DEF Visited
<1> QED  BY <1>5, <1>6, <1>9

\* The interval only gets shorter, and stays above zero.
LEMMA ShorterIs ==
    ASSUME TInv, NEW us \in Nat, Shorter(us)
    PROVE  /\ interval' \in Nat /\ interval' <= interval /\ interval' <= us
           /\ us > 0 /\ interval > 0 => interval' > 0
BY Numbers DEF Shorter

LEMMA VisitReadyKeeps ==
    ASSUME CInv, VisitReady
    PROVE  Loaded' /\ Calls' /\ Walked' /\ Returns' /\ Programmed'
<1>0. TInv
  BY DEF CInv
<1>1. /\ pc = "walk" /\ pc' = "walk" /\ th \in Timer /\ status[th] = "ready"
      /\ status'[th] = "active" /\ \A t \in Timer : t # th => status'[t] = status[t]
      /\ Shorter(timeout[th]) /\ th' = next[th]
      /\ UNCHANGED <<list, timeout, remaining, irq, sem, starting>>
  BY <1>0 DEF VisitReady, hw, TInv, TypeOK
<1>2. remaining[th] = timeout[th] /\ timeout[th] > 0 /\ timeout[th] \in Nat
  BY <1>0, <1>1, Numbers DEF CInv, Loaded, Live
<1>3. /\ interval' \in Nat /\ interval' <= interval /\ interval' <= timeout[th]
      /\ (interval > 0 => interval' > 0)
  BY <1>0, <1>1, <1>2, ShorterIs
<1>4. Loaded'
  BY <1>1 DEF CInv, Loaded, Live
<1>5. Calls'
  <2>1. ASSUME starting["user"] # NoTimer
        PROVE  /\ ~irq /\ status'[starting["user"]] = "inactive"
               /\ \A t \in Timer : status'[t] = "active" => remaining'[t] > 0
    <3>1. status[starting["user"]] = "inactive" /\ ~irq /\ starting["user"] \in Timer
      BY <1>0, <2>1 DEF CInv, Calls, TInv, TypeOK, Caller
    <3>2. \A t \in Timer : status[t] = "active" => remaining[t] > 0
      BY <2>1 DEF CInv, Calls
    <3> QED  BY <1>1, <1>2, <3>1, <3>2
  <2>2. starting["callback"] = NoTimer
    BY <1>1 DEF CInv, Calls
  <2> QED  BY <1>1, <2>1, <2>2 DEF Calls, InCallback
<1>6. sem = 0 => interval > 0 /\ MaxTimeout # 0
  BY <1>0, <1>1, <1>2, Numbers DEF CInv, Walked
<1>8. sem = 0 => \A t \in Timer : t = th \/ Covered(t, interval) => Covered(t, interval)'
  <2> SUFFICES ASSUME sem = 0, NEW t \in Timer, t = th \/ Covered(t, interval)
               PROVE  Covered(t, interval)'
    OBVIOUS
  <2>1. CASE t = th
    BY <1>1, <1>2, <1>3, <1>6, <2>1 DEF Covered
  <2>2. CASE t # th
    <3>1. status'[t] = status[t] /\ remaining'[t] = remaining[t] /\ remaining[t] \in Nat
      BY <1>0, <1>1, <2>2, Numbers
    <3> QED  BY <1>0, <1>3, <1>6, <2>2, <3>1, Numbers DEF Covered
  <2> QED  BY <2>1, <2>2
<1>9. \A t \in Timer : status'[t] = "free" <=> status[t] = "free"
  BY <1>1
<1>10. Walked'
  BY <1>1, <1>3, <1>6, <1>8, <1>9, AdvanceKeeps
<1>11. Returns' /\ Programmed'
  BY <1>1 DEF Returns, Programmed, InCallback
<1> QED  BY <1>4, <1>5, <1>10, <1>11

LEMMA VisitRunningKeeps ==
    ASSUME CInv, VisitRunning
    PROVE  Loaded' /\ Calls' /\ Walked' /\ Returns' /\ Programmed'
<1>0. TInv
  BY DEF CInv
<1>1. /\ pc = "walk" /\ pc' = "walk" /\ th \in Timer
      /\ status[th] = "active" /\ remaining[th] > 0
      /\ Shorter(remaining[th]) /\ th' = next[th]
      /\ UNCHANGED <<list, status, timeout, remaining, irq, sem, starting>>
  BY <1>0 DEF VisitRunning, hw, TInv, TypeOK
<1>2. remaining[th] \in Nat
  BY <1>0, <1>1, Numbers
<1>3. /\ interval' \in Nat /\ interval' <= interval /\ interval' <= remaining[th]
      /\ (interval > 0 => interval' > 0)
  BY <1>0, <1>1, <1>2, ShorterIs
<1>4. Loaded' /\ Calls'
  BY <1>1 DEF CInv, Loaded, Live, Calls, InCallback
<1>5. sem = 0 => interval > 0
  BY <1>0, <1>1, <1>2, Numbers DEF CInv, Walked
<1>6. sem = 0 => \A t \in Timer : t = th \/ Covered(t, interval) => Covered(t, interval)'
  BY <1>0, <1>1, <1>2, <1>3, <1>5, Numbers DEF Covered
<1>8. Walked'
  BY <1>1, <1>3, <1>5, <1>6, AdvanceKeeps
<1>9. Returns' /\ Programmed'
  BY <1>1 DEF Returns, Programmed, InCallback
<1> QED  BY <1>4, <1>8, <1>9

LEMMA VisitOtherKeeps ==
    ASSUME CInv, VisitOther
    PROVE  Loaded' /\ Calls' /\ Walked' /\ Returns' /\ Programmed'
<1>0. TInv
  BY DEF CInv
<1>1. /\ pc = "walk" /\ pc' = "walk" /\ th \in Timer /\ ~Live(th) /\ th' = next[th]
      /\ UNCHANGED <<list, status, timeout, remaining, interval, irq, sem, starting>>
  BY <1>0 DEF VisitOther, hw, TInv, TypeOK
<1>2. Loaded' /\ Calls'
  BY <1>1 DEF CInv, Loaded, Live, Calls, InCallback
<1>3. \A t \in Timer : t = th \/ Covered(t, interval) => Covered(t, interval)'
  BY <1>1 DEF Covered, Live
<1>5. sem = 0 => interval' > 0 \/ MaxTimeout = 0
  BY <1>1 DEF CInv, Walked
<1>6. Walked'
  BY <1>1, <1>3, <1>5, AdvanceKeeps
<1>7. Returns' /\ Programmed'
  BY <1>1 DEF Returns, Programmed, InCallback
<1> QED  BY <1>2, <1>6, <1>7

\* A timer expires only when no call of the user task is half done.
LEMMA ExpireKeeps ==
    ASSUME CInv, Expire
    PROVE  Loaded' /\ Calls' /\ Walked' /\ Returns' /\ Programmed'
<1>0. TInv
  BY DEF CInv
<1>1. /\ pc = "walk" /\ pc' = "callback" /\ th \in Timer
      /\ status[th] = "active" /\ remaining[th] = 0
      /\ UNCHANGED <<list, timeout, interval, irq, sem, th, starting>>
  BY <1>0 DEF Expire, TInv, TypeOK
<1>2. starting["user"] = NoTimer /\ starting["callback"] = NoTimer
  BY <1>1 DEF CInv, Calls
<1>3. Calls'
  BY <1>1, <1>2 DEF Calls
<1>4. timeout[th] > 0
  BY <1>1 DEF CInv, Loaded, Live
<1>5. /\ \A t \in Timer : t # th => status'[t] = status[t] /\ remaining'[t] = remaining[t]
      /\ \/ state' = "active" /\ status'[th] = "active" /\ remaining'[th] = timeout[th]
         \/ state' = "inactive" /\ status'[th] = "inactive"
  <2>1. CASE periodic[th]
    BY <1>0, <1>1, <2>1 DEF Expire, Reload, TInv, TypeOK
  <2>2. CASE ~periodic[th]
    <3>1. TimerStop(th, "inactive") /\ state' = "inactive" /\ UNCHANGED remaining
      BY <2>2 DEF Expire
    <3>2. status'[th] = "inactive" /\ \A t \in Timer : t # th => status'[t] = status[t]
      BY <1>0, <1>1, <3>1, StopIs
    <3> QED  BY <3>1, <3>2
  <2> QED  BY <2>1, <2>2
<1>6. Loaded'
  BY <1>1, <1>4, <1>5 DEF CInv, Loaded, Live
<1>7. \A t \in Timer : status'[t] = "free" <=> status[t] = "free"
  BY <1>1, <1>5
<1>8. \A t \in Timer : t # th /\ Covered(t, interval) => Covered(t, interval)'
  BY <1>1, <1>5 DEF Covered
<1>9. Walked'
  BY <1>1, <1>7, <1>8, StandsKeep
<1>10. Returns'
  <2>1. status'[th] # "free" /\ th' = th
    BY <1>1, <1>5
  <2>2. IF state' = "active" THEN status'[th] = "active" /\ remaining'[th] > 0
                             ELSE status'[th] \notin {"ready", "active"}
    BY <1>4, <1>5
  <2> QED  BY <2>1, <2>2 DEF Returns, Live
<1>11. Programmed'
  BY <1>1 DEF Programmed
<1> QED  BY <1>3, <1>6, <1>9, <1>10, <1>11

LEMMA CallbackReturnsKeeps ==
    ASSUME CInv, CallbackReturns
    PROVE  Loaded' /\ Calls' /\ Walked' /\ Returns' /\ Programmed'
<1>0. TInv
  BY DEF CInv
<1>1. /\ InCallback /\ pc' = "walk" /\ th \in Timer /\ th' = next[th]
      /\ starting["callback"] = NoTimer
      /\ IF state = "active" THEN Shorter(remaining[th]) ELSE UNCHANGED interval
      /\ UNCHANGED <<list, status, timeout, remaining, irq, sem, starting>>
  BY <1>0 DEF CallbackReturns, hw, InCallback, TInv, Within
<1>2. starting["user"] = NoTimer
  BY <1>1 DEF CInv, Calls
<1>3. Calls' /\ Loaded'
  BY <1>1, <1>2 DEF Calls, CInv, Loaded, Live
<1>4. remaining[th] \in Nat
  BY <1>0, <1>1, Numbers
<1>5. sem = 0 =>
         /\ interval' \in Nat /\ interval' <= interval
         /\ interval > 0 => interval' > 0
         /\ interval > 0 \/ MaxTimeout = 0
         /\ status[th] # "ready"
         /\ status[th] = "active" => interval' <= remaining[th] /\ remaining[th] > 0
  <2> SUFFICES ASSUME sem = 0
               PROVE  /\ interval' \in Nat /\ interval' <= interval
                      /\ interval > 0 => interval' > 0
                      /\ interval > 0 \/ MaxTimeout = 0
                      /\ status[th] # "ready"
                      /\ status[th] = "active" =>
                            interval' <= remaining[th] /\ remaining[th] > 0
    OBVIOUS
  <2>1. interval > 0 \/ MaxTimeout = 0
    BY <1>1 DEF CInv, Walked
  <2>2. CASE state = "active"
    <3>1. status[th] = "active" /\ remaining[th] > 0
      BY <1>1, <2>2 DEF CInv, Returns
    <3> QED  BY <1>0, <1>1, <1>4, <2>1, <2>2, <3>1, ShorterIs
  <2>3. CASE state # "active"
    <3>1. ~Live(th)
      BY <1>1, <2>3 DEF CInv, Returns
    <3> QED  BY <1>0, <1>1, <2>1, <2>3, <3>1, Numbers DEF Live
  <2> QED  BY <2>2, <2>3
<1>7. sem = 0 => \A t \in Timer : t = th \/ Covered(t, interval) => Covered(t, interval)'
  <2> SUFFICES ASSUME sem = 0, NEW t \in Timer, t = th \/ Covered(t, interval)
               PROVE  Covered(t, interval)'
    OBVIOUS
  <2>1. remaining[t] \in Nat /\ MaxTimeout # 0 /\ interval \in Nat
    BY <1>0, Numbers
  <2>2. CASE t = th
    BY <1>1, <1>4, <1>5, <2>1, <2>2 DEF Covered
  <2>3. CASE t # th
    BY <1>1, <1>5, <2>1, <2>3 DEF Covered
  <2> QED  BY <2>2, <2>3
<1>8. sem = 0 => interval' > 0 \/ MaxTimeout = 0
  BY <1>5
<1>9. Walked'
  BY <1>1, <1>7, <1>8, AdvanceKeeps
<1>10. Returns' /\ Programmed'
  BY <1>1 DEF Returns, Programmed, InCallback
<1> QED  BY <1>3, <1>9, <1>10

\* At the end of an undisturbed walk every timer is covered.
LEMMA WalkEndsKeeps ==
    ASSUME CInv, WalkEnds
    PROVE  Loaded' /\ Calls' /\ Walked' /\ Returns' /\ Programmed'
<1>0. TInv
  BY DEF CInv
<1>1. /\ pc = "walk" /\ th = NoTimer /\ pc' = (IF active > 0 THEN "test" ELSE "wait")
      /\ UNCHANGED <<status, timeout, remaining, active, interval, activeInterval, irq,
                     sem, starting>>
  BY DEF WalkEnds, hw
<1>2. Loaded' /\ Calls'
  BY <1>1 DEF CInv, Loaded, Live, Calls, InCallback
<1>3. Walked' /\ Returns'
  BY <1>1 DEF Walked, Returns, InCallback
<1>4. CASE active > 0
  <2> SUFFICES ASSUME sem = 0, NEW t \in Timer PROVE Covered(t, interval)
    BY <1>1, <1>2, <1>3, <1>4 DEF Programmed, Covered
  <2>1. \E n \in Nat : \E s \in [1 .. n -> Timer] :
           IsList(n, s) /\ \E k \in 1 .. n + 1 : Visited(n, s, k)
    BY <1>1 DEF CInv, Walked
  <2>2. PICK n \in Nat : \E s \in [1 .. n -> Timer] :
           IsList(n, s) /\ \E k \in 1 .. n + 1 : Visited(n, s, k)
    BY <2>1
  <2>3. PICK s \in [1 .. n -> Timer] : IsList(n, s) /\ \E k \in 1 .. n + 1 : Visited(n, s, k)
    BY <2>2
  <2>4. PICK k \in 1 .. n + 1 : Visited(n, s, k)
    BY <2>3
  <2>5. ~(k <= n)
    <3> SUFFICES ASSUME k <= n PROVE FALSE
      OBVIOUS
    <3>1. k \in 1 .. n /\ s[k] \in Timer /\ s[k] = NoTimer
      BY <1>1, <2>4 DEF Visited
    <3> QED  BY <3>1, TimersAre
  <2>6. CASE status[t] = "free"
    BY <2>6 DEF Covered
  <2>7. CASE status[t] # "free"
    <3>1. PICK i \in 1 .. n : s[i] = t
      BY <2>3, <2>7 DEF IsList
    <3>2. i < k
      BY <2>5
    <3> QED  BY <2>4, <3>1, <3>2 DEF Visited
  <2> QED  BY <2>6, <2>7
<1>5. CASE ~(active > 0)
  <2>1. active = 0 /\ active = Cardinality(LiveTimers)
    BY <1>0, <1>5, LiveFinite DEF TInv, CountsMatch, LiveTimers
  <2>2. LiveTimers = {}
    BY <2>1, LiveFinite, FS_EmptySet
  <2>3. \A t \in Timer : ~Live(t)
    BY <2>2 DEF LiveTimers
  <2>4. Programmed'
    BY <1>1, <1>5, <2>3 DEF Programmed, Covered, Live
  <2> QED  BY <1>2, <1>3, <2>4
<1> QED  BY <1>4, <1>5

LEMMA WaitKeeps ==
    ASSUME CInv, Wait
    PROVE  Loaded' /\ Calls' /\ Walked' /\ Returns' /\ Programmed'
<1>0. TInv /\ MaxTimeout \in Nat
  BY TimerAssumption DEF CInv
<1>1. /\ pc = "wait" /\ pc' = "walk" /\ ~irq /\ th' = head /\ interval' = MaxTimeout
      /\ UNCHANGED <<list, status, timeout, remaining, irq, starting>>
  BY DEF Wait, hw
<1>2. starting["callback"] = NoTimer
  BY <1>1 DEF CInv, Calls
<1>3. Loaded' /\ Calls'
  BY <1>1, <1>2 DEF CInv, Loaded, Live, Calls, InCallback
<1>4. Walked'
  <2>0. PICK n \in Nat : \E s \in [1 .. n -> Timer] : IsList(n, s)
    BY DEF CInv, Listing
  <2>1. PICK s \in [1 .. n -> Timer] : IsList(n, s)
    BY <2>0
  <2>2. IsList(n, s)'
    BY <1>1, <2>1, ListKept
  <2>3. th' = IF 1 <= n THEN s[1] ELSE NoTimer
    BY <1>1, <2>1 DEF IsList
  <2>4. Visited(n, s, 1)'
    BY <2>3 DEF Visited
  <2>5. 1 \in 1 .. n + 1 /\ (interval' > 0 \/ MaxTimeout = 0)
    BY <1>0, <1>1
  <2> QED  BY <2>2, <2>4, <2>5 DEF Walked
<1>5. Returns' /\ Programmed'
  BY <1>1 DEF Returns, Programmed, InCallback
<1> QED  BY <1>3, <1>4, <1>5

LEMMA ProgramKeeps ==
    ASSUME CInv, Program
    PROVE  Loaded' /\ Calls' /\ Walked' /\ Returns' /\ Programmed'
<1>1. /\ pc = "test" /\ pc' = "store"
      /\ activeInterval' = interval
      /\ UNCHANGED <<status, timeout, remaining, interval, irq, sem, starting>>
  BY DEF Program, MustProgram
<1>2. Loaded' /\ Calls'
  BY <1>1 DEF CInv, Loaded, Live, Calls, InCallback
<1>3. Walked' /\ Returns'
  BY <1>1 DEF Walked, Returns, InCallback
<1>4. Programmed'
  BY <1>1 DEF CInv, Programmed, Covered
<1> QED  BY <1>2, <1>3, <1>4

LEMMA StoreKeeps ==
    ASSUME CInv, StoreRunning
    PROVE  Loaded' /\ Calls' /\ Walked' /\ Returns' /\ Programmed'
<1>1. /\ pc = "store" /\ pc' = "wait" /\ running' = TRUE
      /\ UNCHANGED <<status, timeout, remaining, activeInterval, irq, sem, starting>>
  BY DEF StoreRunning, hw
<1>2. Loaded' /\ Calls'
  BY <1>1 DEF CInv, Loaded, Live, Calls, InCallback
<1>3. Walked' /\ Returns'
  BY <1>1 DEF Walked, Returns, InCallback
<1>4. Programmed'
  BY <1>1 DEF CInv, Programmed, Covered
<1> QED  BY <1>2, <1>3, <1>4

\* The hardware: it counts when no call is half done, and its interrupt posts.
LEMMA TickKeeps ==
    ASSUME CInv, Tick
    PROVE  Loaded' /\ Calls' /\ Walked' /\ Returns' /\ Programmed'
<1>1. /\ \A c \in Caller : starting[c] = NoTimer
      /\ UNCHANGED <<list, status, timeout, remaining, active, interval, activeInterval,
                     running, sem, pc, th, state, starting>>
  BY DEF Tick, task
<1>2. Loaded' /\ Calls'
  BY <1>1 DEF CInv, Loaded, Live, Calls, Caller
<1>3. CASE pc = "walk" \/ InCallback
  <2>1. \A t \in Timer : Covered(t, interval) => Covered(t, interval)'
    BY <1>1 DEF Covered
  <2>2. Walked'
    BY <1>1, <1>3, <2>1, StandsKeep
  <2>3. Returns' /\ Programmed'
    BY <1>1 DEF CInv, Returns, Programmed, InCallback, Live, Covered
  <2> QED  BY <1>2, <2>2, <2>3
<1>4. CASE ~(pc = "walk" \/ InCallback)
  <2>1. Walked'
    BY <1>1, <1>4 DEF Walked, InCallback
  <2>2. Returns' /\ Programmed'
    BY <1>1 DEF CInv, Returns, Programmed, InCallback, Live, Covered
  <2> QED  BY <1>2, <2>1, <2>2
<1> QED  BY <1>3, <1>4

LEMMA MatchKeeps ==
    ASSUME CInv, Match
    PROVE  Loaded' /\ Calls' /\ Walked' /\ Returns' /\ Programmed'
<1>0. TInv /\ activeInterval \in Nat
  BY Numbers DEF CInv
<1>1. /\ irq /\ UNCHANGED <<status, timeout, pc, starting>> /\ UpdateSync(activeInterval)
  BY DEF Match, task
<1>2. sem' > 0
  BY <1>0, <1>1, PostSeen DEF UpdateSync, TInv
<1>3. Walked' /\ Returns' /\ Programmed'
  BY <1>2, PostedKeeps
<1>4. Calls'
  BY <1>1, <1>2 DEF CInv, Calls
<1>5. \A t \in Timer : status'[t] # "active" => remaining'[t] = remaining[t]
  BY <1>0, <1>1, SyncIs
<1>6. Loaded'
  BY <1>1, <1>5 DEF CInv, Loaded, Live
<1> QED  BY <1>3, <1>4, <1>6

LEMMA StutterKeeps ==
    ASSUME CInv, UNCHANGED vars
    PROVE  Loaded' /\ Calls' /\ Walked' /\ Returns' /\ Programmed'
<1>1. UNCHANGED <<list, status, timeout, remaining, active, interval, activeInterval,
                  running, irq, sem, pc, th, state, starting>>
  BY DEF vars, hw, task
<1>2. Loaded' /\ Calls'
  BY <1>1 DEF CInv, Loaded, Live, Calls, InCallback
<1>3. Walked'
  <2>1. CASE pc = "walk" \/ InCallback
    <3>1. \A t \in Timer : Covered(t, interval) => Covered(t, interval)'
      BY <1>1 DEF Covered
    <3> QED  BY <1>1, <2>1, <3>1, StandsKeep
  <2>2. CASE ~(pc = "walk" \/ InCallback)
    BY <1>1, <2>2 DEF Walked, InCallback
  <2> QED  BY <2>1, <2>2
<1>4. Returns' /\ Programmed'
  BY <1>1 DEF CInv, Returns, Programmed, InCallback, Live, Covered
<1> QED  BY <1>2, <1>3, <1>4

LEMMA CNext ==
    ASSUME Cleared, Preempting = FALSE
    PROVE  CInv /\ [Next]_vars => CInv'
<1> SUFFICES ASSUME CInv, [Next]_vars
             PROVE  Loaded' /\ Calls' /\ Walked' /\ Returns' /\ Programmed'
  BY TNext, LNext DEF CInv
<1>1. ASSUME NEW c \in Caller, NEW t \in Timer, Stop(c, t)
      PROVE  Loaded' /\ Calls' /\ Walked' /\ Returns' /\ Programmed'
  BY <1>1, StopKeeps DEF Stop
<1>2. ASSUME NEW c \in Caller, NEW t \in Timer, Close(c, t)
      PROVE  Loaded' /\ Calls' /\ Walked' /\ Returns' /\ Programmed'
  BY <1>2, StopKeeps DEF Close
<1>3. ASSUME NEW c \in Caller, NEW t \in Timer, Start(c, t)
      PROVE  Loaded' /\ Calls' /\ Walked' /\ Returns' /\ Programmed'
  BY <1>3, StopKeeps DEF Start
<1>4. ASSUME NEW c \in Caller, NEW t \in Timer, Open(c, t)
      PROVE  Loaded' /\ Calls' /\ Walked' /\ Returns' /\ Programmed'
  BY <1>4, OpenKeeps
<1>5. ASSUME NEW c \in Caller, Enable(c)
      PROVE  Loaded' /\ Calls' /\ Walked' /\ Returns' /\ Programmed'
  BY <1>5, EnableKeeps
<1>6. ASSUME Process
      PROVE  Loaded' /\ Calls' /\ Walked' /\ Returns' /\ Programmed'
  BY <1>6, WaitKeeps, VisitReadyKeeps, VisitRunningKeeps, VisitOtherKeeps, ExpireKeeps,
     CallbackReturnsKeeps, WalkEndsKeeps, ProgramKeeps, StoreKeeps DEF Process
<1> QED
  BY <1>1, <1>2, <1>3, <1>4, <1>5, <1>6, TickKeeps, MatchKeeps, StutterKeeps DEF Next

\* When nobody is about to look at the timers, the hardware matches before any timer
\* has expired, and no started timer waits to be seen: for any number of timers, also
\* when callbacks start, stop, open and close them (TimerManagerTaskProcess) and when
\* a timeout is longer than the hardware can count; handles are opened cleared.
THEOREM MatchInTime ==
    ASSUME Cleared, Preempting = FALSE
    PROVE  Spec => []HardwareCovers
<1>1. CInv => HardwareCovers
  <2> SUFFICES ASSUME CInv, Quiet, NEW t \in Timer
               PROVE  /\ status[t] # "ready"
                      /\ status[t] = "active" =>
                            running /\ activeInterval > 0 /\ activeInterval <= remaining[t]
    BY DEF HardwareCovers
  <2>1. Covered(t, activeInterval) /\ (running \/ ~Live(t)) /\ activeInterval \in Nat
    BY Numbers DEF CInv, Programmed, Quiet
  <2> QED  BY <2>1 DEF Covered, Live
<1> QED  BY CInit, CNext, <1>1, PTL DEF Spec

=============================================================================
