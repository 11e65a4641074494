---------------------------- MODULE TimerManager ----------------------------
(***************************************************************************)
(* The timer manager (components/timer_manager) in its RTOS form: software *)
(* timers in a list, one hardware timer (timer/fsl_adapter_ctimer.c) set   *)
(* to the shortest remaining time, a handler that posts a semaphore and a  *)
(* task that walks the list, calls back and programs the hardware again.   *)
(*                                                                         *)
(* The task masks the interrupts while it walks, except during a callback. *)
(* The callers are a user task and the callbacks themselves.  Low-power    *)
(* and other timers are counted together, as every test of the two counts  *)
(* in the code does.                                                       *)
(***************************************************************************)
EXTENDS Integers, FiniteSets

CONSTANTS
    Timer, NoTimer,   \* timer handles; NULL
    Timeouts,         \* timeouts given to TM_Start, in ticks
    MaxTimeout,       \* HAL_TimerGetMaxTimeout
    MaxPosts,         \* count at which the semaphore is full (255)
    Cleared,          \* callers clear a handle before they open it again
    Preempting        \* the user task may preempt the timer task

ASSUME TimerAssumption ==
    /\ NoTimer \notin Timer /\ IsFiniteSet(Timer)
    /\ MaxTimeout \in Nat \ {0} /\ MaxPosts \in Nat \ {0}
    /\ Timeouts \subseteq Nat \ {0}
    /\ Cleared \in BOOLEAN /\ Preempting \in BOOLEAN

VARIABLES
    head, next,       \* timerHead and the links
    status,           \* tmrStatus
    periodic,         \* tmrType is not kTimerModeSingleShot
    timeout, remaining,  \* timeoutInUs, remainingUs
    active,           \* numberOfActiveTimers + numberOfLowPowerActiveTimers
    interval,         \* mUsInTimerInterval
    activeInterval,   \* mUsActiveInTimerInterval, the match value
    running,          \* timerHardwareIsRunning
    hwOn, count, irq, \* the hardware counts; its count; its match interrupt
    sem,              \* halTimerTaskSemaphoreHandle
    pc, th, state,    \* the timer task and its locals
    starting          \* the timer each caller is in TM_Start for

list  == <<head, next>>
hw    == <<hwOn, count, irq>>
task  == <<pc, th, state>>
vars  == <<list, status, periodic, timeout, remaining, active, interval,
           activeInterval, running, hw, sem, task, starting>>

Caller == {"user", "callback"}

\* The timers that a walk from the head meets.
Node[n \in Nat] ==
    IF n = 0 THEN head
    ELSE IF Node[n - 1] = NoTimer THEN NoTimer ELSE next[Node[n - 1]]
InList == {Node[n] : n \in 0 .. Cardinality(Timer)} \ {NoTimer}

\* TM_Init has run: no timer is open, the semaphore starts at 1.  The interval is
\* set by the first walk before anything reads it.
Init ==
    /\ head = NoTimer /\ next = [t \in Timer |-> NoTimer]
    /\ status = [t \in Timer |-> "free"]
    /\ periodic = [t \in Timer |-> FALSE]
    /\ timeout = [t \in Timer |-> 0] /\ remaining = [t \in Timer |-> 0]
    /\ active = 0
    /\ interval = MaxTimeout /\ activeInterval = 0
    /\ running = FALSE /\ hwOn = FALSE /\ count = 0 /\ irq = FALSE
    /\ sem = 1
    /\ pc = "wait" /\ th = NoTimer /\ state = "free"
    /\ starting = [c \in Caller |-> NoTimer]

Live(t) == status[t] \in {"ready", "active"}

-----------------------------------------------------------------------------
\* The hardware timer (external): it counts to the match value, starts again
\* from zero and interrupts.  A value of zero never matches.

\* Time passes while the cores wait or a callback runs; the rest takes no time.
Tick ==
    /\ ~irq
    /\ pc \in {"callback", "called"} \/ (pc = "wait" /\ sem = 0)
    /\ \A c \in Caller : starting[c] = NoTimer
    /\ IF hwOn /\ activeInterval > 0
       THEN IF count + 1 = activeInterval
            THEN count' = 0 /\ irq' = TRUE
            ELSE count' = count + 1 /\ UNCHANGED irq
       ELSE UNCHANGED <<count, irq>>
    /\ UNCHANGED <<list, status, periodic, timeout, remaining, active, interval,
                   activeInterval, running, hwOn, sem, task, starting>>

-----------------------------------------------------------------------------
\* TimersUpdateSyncTask: us have passed for every active timer (status after
\* this step), and the task is notified; a full semaphore takes no more posts.
Posted == IF sem < MaxPosts THEN sem + 1 ELSE sem
Elapsed(left, us) == IF left > us THEN left - us ELSE 0

UpdateSync(us) ==
    /\ remaining' = [t \in Timer |->
           IF active' > 0 /\ t \in InList /\ status'[t] = "active"
           THEN Elapsed(remaining[t], us) ELSE remaining[t]]
    /\ sem' = Posted

\* HAL_TIMER_Callback.
Match ==
    /\ irq /\ pc # "walk"
    /\ irq' = FALSE
    /\ UNCHANGED <<status, active>>
    /\ UpdateSync(activeInterval)
    /\ UNCHANGED <<list, periodic, timeout, interval, activeInterval, running, hwOn,
                   count, task, starting>>

\* TimerStop, to a status; the last live timer turns the hardware off.
\* Mutant: a timer that is not live is counted down too.
StopAlways(t, to) ==
    /\ status' = [status EXCEPT ![t] = to]
    /\ active' = active - 1
    /\ hwOn' = (hwOn /\ ~(active = 1 /\ running))
    /\ running' = (running /\ active # 1)
TimerStop(t, to) ==
    IF Live(t)
    THEN /\ status' = [status EXCEPT ![t] = to]
         /\ active' = active - 1
         /\ hwOn' = (hwOn /\ ~(active = 1 /\ running))
         /\ running' = (running /\ active # 1)
    ELSE /\ status' = [status EXCEPT ![t] = IF to = "free" THEN to ELSE @]
         /\ UNCHANGED <<active, hwOn, running>>

-----------------------------------------------------------------------------
\* The callers.  The user task runs when the timer task waits, unless it has
\* the higher priority; a callback makes at most one call.

MayCall(c) ==
    /\ ~irq
    /\ IF c = "callback" THEN pc = "callback"
       ELSE IF Preempting THEN pc # "walk" ELSE pc = "wait" /\ sem = 0
    /\ starting[c] = NoTimer

Called(c) == pc' = IF c = "callback" THEN "called" ELSE pc

\* The link in the caller's memory: TM_Close leaves it as it is.
\* Mutant: handles are opened again as they were closed.
OldLink(t) == next[t]
LinkOf(t) == IF Cleared THEN NoTimer ELSE next[t]

\* TM_Open writes no link when the list is empty.
Open(c, t) ==
    /\ MayCall(c) /\ status[t] = "free"
    /\ status' = [status EXCEPT ![t] = "inactive"]
    /\ head' = t
    /\ next' = [next EXCEPT ![t] = IF head = NoTimer THEN LinkOf(t) ELSE head]
    /\ Called(c)
    /\ UNCHANGED <<periodic, timeout, remaining, active, interval, activeInterval,
                   running, hw, sem, th, state, starting>>

\* TM_Stop on its own.
Stop(c, t) ==
    /\ MayCall(c) /\ status[t] # "free"
    /\ TimerStop(t, "inactive")
    /\ UpdateSync(count)
    /\ Called(c)
    /\ UNCHANGED <<list, periodic, timeout, interval, activeInterval, count, irq, th,
                   state, starting>>

\* The list without t.
Unlink(t) ==
    IF head = t THEN head' = next[t] /\ UNCHANGED next
    ELSE /\ next' = [p \in Timer |->
                        IF p \in InList /\ next[p] = t THEN next[t] ELSE next[p]]
         /\ UNCHANGED head

Close(c, t) ==
    /\ MayCall(c) /\ status[t] # "free"
    /\ \A d \in Caller : starting[d] # t
    /\ TimerStop(t, "free")
    /\ UpdateSync(count)
    /\ Unlink(t)
    /\ Called(c)
    /\ UNCHANGED <<periodic, timeout, interval, activeInterval, count, irq, th, state,
                   starting>>

\* TM_Start first calls TM_Stop, which notifies the task ...
Start(c, t) ==
    /\ MayCall(c) /\ status[t] # "free"
    /\ TimerStop(t, "inactive")
    /\ UpdateSync(count)
    /\ starting' = [starting EXCEPT ![c] = t]
    /\ Called(c)
    /\ UNCHANGED <<list, periodic, timeout, interval, activeInterval, count, irq, th,
                   state>>

\* ... and then stores the request and calls TimerEnable.
\* The task that was notified runs in between when it has the higher priority.
Enable(c) ==
    LET t == starting[c] IN
    /\ t # NoTimer /\ ~irq
    /\ IF c = "callback" THEN pc = "called"
       ELSE IF Preempting THEN pc # "walk" ELSE pc = "wait" /\ sem = 0
    /\ \E us \in Timeouts, p \in BOOLEAN :
          /\ timeout' = [timeout EXCEPT ![t] = us]
          /\ periodic' = [periodic EXCEPT ![t] = p]
          /\ IF status[t] = "inactive"
             THEN /\ active' = active + 1
                  /\ status' = [status EXCEPT ![t] = "ready"]
                  /\ remaining' = [u \in Timer |->
                        IF u = t THEN us
                        ELSE IF u \in InList /\ status[u] = "active"
                        THEN Elapsed(remaining[u], count) ELSE remaining[u]]
                  /\ sem' = Posted
             ELSE /\ remaining' = [remaining EXCEPT ![t] = us]
                  /\ UNCHANGED <<active, status, sem>>
    /\ starting' = [starting EXCEPT ![c] = NoTimer]
    /\ UNCHANGED <<list, interval, activeInterval, running, hw, task>>

-----------------------------------------------------------------------------
\* The timer task, TimerManagerTaskProcess.

Wait ==
    /\ pc = "wait" /\ sem > 0 /\ ~irq
    /\ sem' = sem - 1
    /\ interval' = MaxTimeout
    /\ th' = head /\ pc' = "walk"
    /\ UNCHANGED <<list, status, periodic, timeout, remaining, active, activeInterval,
                   running, hw, state, starting>>

Shorter(us) == interval' = IF interval > us THEN us ELSE interval

\* A timer that was started is taken into account.
VisitReady ==
    /\ pc = "walk" /\ th # NoTimer /\ status[th] = "ready"
    /\ status' = [status EXCEPT ![th] = "active"]
    /\ Shorter(timeout[th])
    /\ th' = next[th]
    /\ UNCHANGED <<list, periodic, timeout, remaining, active, activeInterval, running,
                   hw, sem, pc, state, starting>>

VisitRunning ==
    /\ pc = "walk" /\ th # NoTimer /\ status[th] = "active" /\ remaining[th] > 0
    /\ Shorter(remaining[th])
    /\ th' = next[th]
    /\ UNCHANGED <<list, status, periodic, timeout, remaining, active, activeInterval,
                   running, hw, sem, pc, state, starting>>

VisitOther ==
    /\ pc = "walk" /\ th # NoTimer /\ ~Live(th)
    /\ th' = next[th]
    /\ UNCHANGED <<list, status, periodic, timeout, remaining, active, interval,
                   activeInterval, running, hw, sem, pc, state, starting>>

\* A timer has expired: it is stopped or starts again, and its callback runs with
\* the interrupts enabled.
\* Mutant: the next period is not loaded.
NoReload == remaining
Reload == [remaining EXCEPT ![th] = timeout[th]]
Expire ==
    /\ pc = "walk" /\ th # NoTimer /\ status[th] = "active" /\ remaining[th] = 0
    /\ IF periodic[th]
       THEN remaining' = Reload /\ state' = "active"
            /\ UNCHANGED <<status, active, hwOn, running>>
       ELSE TimerStop(th, "inactive") /\ state' = "inactive" /\ UNCHANGED remaining
    /\ pc' = "callback"
    /\ UNCHANGED <<list, periodic, timeout, interval, activeInterval, count, irq, sem, th,
                   starting>>

\* The status read before the callback decides; the link is read after it.
CallbackReturns ==
    /\ pc \in {"callback", "called"} /\ starting["callback"] = NoTimer /\ ~irq
    /\ IF state = "active" THEN Shorter(remaining[th]) ELSE UNCHANGED interval
    /\ th' = next[th] /\ pc' = "walk" /\ state' = "free"
    /\ UNCHANGED <<list, status, periodic, timeout, remaining, active, activeInterval,
                   running, hw, sem, starting>>

WalkEnds ==
    /\ pc = "walk" /\ th = NoTimer
    /\ pc' = IF active > 0 THEN "test" ELSE "wait"
    /\ UNCHANGED <<list, status, periodic, timeout, remaining, active, interval,
                   activeInterval, running, hw, sem, th, state, starting>>

\* The hardware is set when the interval is a new one or nothing runs.
\* Mutant: only when it is a new one.
NewInterval == interval # activeInterval
MustProgram == interval # activeInterval \/ ~running
Program ==
    /\ pc = "test" /\ ~irq
    /\ pc' = "store"
    /\ IF MustProgram
       THEN hwOn' = TRUE /\ count' = 0 /\ activeInterval' = interval
       ELSE UNCHANGED <<hwOn, count, activeInterval>>
    /\ UNCHANGED <<list, status, periodic, timeout, remaining, active, interval, running,
                   irq, sem, th, state, starting>>

StoreRunning ==
    /\ pc = "store" /\ ~irq
    /\ pc' = "wait" /\ running' = TRUE
    /\ UNCHANGED <<list, status, periodic, timeout, remaining, active, interval,
                   activeInterval, hw, sem, th, state, starting>>

-----------------------------------------------------------------------------

Process ==
    \/ Wait \/ VisitReady \/ VisitRunning \/ VisitOther \/ Expire
    \/ CallbackReturns \/ WalkEnds \/ Program \/ StoreRunning

Next ==
    \/ Tick \/ Match
    \/ Process
    \/ \E c \in Caller :
          \/ \E t \in Timer : Open(c, t) \/ Close(c, t) \/ Start(c, t) \/ Stop(c, t)
          \/ Enable(c)

Spec == Init /\ [][Next]_vars

\* Time passes; the handler, the timer task and a call that is in progress go on.
FairSpec ==
    /\ Spec
    /\ SF_vars(Tick /\ pc = "wait") /\ WF_vars(Match) /\ SF_vars(Process)
    /\ \A c \in Caller : SF_vars(Enable(c))

-----------------------------------------------------------------------------

TypeOK ==
    /\ head \in Timer \union {NoTimer} /\ next \in [Timer -> Timer \union {NoTimer}]
    /\ status \in [Timer -> {"free", "inactive", "ready", "active"}]
    /\ periodic \in [Timer -> BOOLEAN]
    /\ timeout \in [Timer -> Nat] /\ remaining \in [Timer -> Nat]
    /\ active \in 0 .. Cardinality(Timer)
    /\ interval \in 0 .. MaxTimeout /\ activeInterval \in 0 .. MaxTimeout
    /\ running \in BOOLEAN /\ hwOn \in BOOLEAN /\ irq \in BOOLEAN
    /\ count \in 0 .. MaxTimeout /\ sem \in 0 .. MaxPosts
    /\ pc \in {"wait", "walk", "callback", "called", "test", "store"}
    /\ th \in Timer \union {NoTimer} /\ state \in {"free", "inactive", "active"}
    /\ starting \in [Caller -> Timer \union {NoTimer}]

\* The count that decides whether the hardware is needed is that of the live timers,
\* however stops, restarts and expiries are interleaved (TimerStop, TimerEnable).
CountsMatch == active = Cardinality({t \in Timer : Live(t)})

\* Every open timer is in the list once, so a walk meets it and ends, as long as
\* callers clear a handle before they open it again.  Without that a handle opened
\* into an empty list leads to the timers it was linked to when it was closed, and
\* a walk with the interrupts masked may not end.
ListWhole ==
    /\ InList = {t \in Timer : status[t] # "free"}
    /\ Node[Cardinality(Timer)] = NoTimer

Quiet == pc = "wait" /\ sem = 0 /\ ~irq

\* When nobody is about to look at the timers again, the hardware runs if and only
\* if a timer needs it: the last stop turned it off (TimerStop), and a start after
\* that made the task turn it on again, whatever the interval was.
HardwareOn == Quiet => hwOn = (active > 0)

\* And then it matches before any timer has expired.
HardwareCovers ==
    Quiet =>
        /\ \A t \in Timer : status[t] # "ready"
        /\ \A t \in Timer : status[t] = "active" =>
              running /\ activeInterval > 0 /\ activeInterval <= remaining[t]

\* A started timer calls back, or is stopped: no timer is forgotten.
TimerFires ==
    \A t \in Timer : Live(t) ~> (~Live(t) \/ (pc = "callback" /\ th = t))

=============================================================================
