------------------------------- MODULE LinkUp -------------------------------
(***************************************************************************)
(* How the remote core learns that the master is ready                     *)
(* (rpmsg_lite_master_init, rpmsg_lite_remote_init, rpmsg_lite_deinit,     *)
(* rpmsg_lite_tx_callback and env_wait_for_link_up).                       *)
(*                                                                         *)
(* The master writes the rings and then kicks the remote once, through MU  *)
(* general interrupt 0.  On the remote the MU handler runs tx_callback,    *)
(* which sets link_state and, in the environments with an operating        *)
(* system, an event.  rpmsg_lite_remote_init installs the handler first    *)
(* and stores link_state = 0 afterwards; whether a kick that came early is *)
(* taken in between depends on the interrupt line of the platform.         *)
(***************************************************************************)
EXTENDS Integers, Sequences

CONSTANTS
    Waiters,      \* tasks that call rpmsg_lite_wait_for_link_up
    Env,          \* "bm", "freertos" or "xos"
    Platform,     \* of the remote core: "m33" or "hifi4"
    Blocking,     \* the tasks wait with RL_BLOCK
    MaxRounds     \* bound: how often each side is initialised

ASSUME LinkAssumption ==
    /\ Env \in {"bm", "freertos", "xos"} /\ Platform \in {"m33", "hifi4"}
    /\ Blocking \in BOOLEAN /\ MaxRounds \in Nat \ {0}

\* What rpmsg_lite_remote_init does once its virtqueues exist.  Each of the two
\* vectors of the link is installed, masked and unmasked; "install" stands for
\* the transmit vector, the only one that can be pending before the link is up.
\* Mutant: link_state is reset after the line is open again.
InitStepsResetLate == <<"install", "mask", "mask", "unmask", "reset", "unmask">>
InitSteps == <<"install", "mask", "mask", "reset", "unmask", "unmask">>
Up == Len(InitSteps) + 1

VARIABLES
    master, masterRounds,     \* "down", "kick" (rings written) or "up"
    gip,                      \* MU general interrupt 0 pending at the remote
    remote, remoteRounds,     \* 0 when down, else the next of InitSteps, or Up
    gie,                      \* MU general interrupt 0 enabled at the remote
    line, disable_counter,    \* interrupt line of the MU in the remote's core
    link_state,
    event, deferred,          \* bit of the event object; FreeRTOS: set it later
    wait                      \* step of each waiting task

interrupt == <<gie, line, disable_counter>>
vars == <<master, masterRounds, gip, remote, remoteRounds, interrupt,
          link_state, event, deferred, wait>>

Init ==
    /\ master = "down" /\ masterRounds = 0
    /\ gip = FALSE
    /\ remote = 0 /\ remoteRounds = 0
    /\ gie = FALSE /\ line = FALSE /\ disable_counter = 0
    /\ link_state = 0
    /\ event = FALSE /\ deferred = FALSE
    /\ wait = [w \in Waiters |-> "idle"]

-----------------------------------------------------------------------------
\* The master.  After an orderly stop both sides are down before either starts
\* again.

MasterInit ==
    /\ master = "down" /\ masterRounds < MaxRounds
    /\ masterRounds = remoteRounds => remote = 0
    /\ master' = "kick" /\ masterRounds' = masterRounds + 1
    /\ UNCHANGED <<gip, remote, remoteRounds, interrupt, link_state, event,
                   deferred, wait>>

\* "Let the remote device know that Master is ready for communication."
MasterKick ==
    /\ master = "kick"
    /\ gip' = TRUE
    /\ master' = "up"
    /\ UNCHANGED <<masterRounds, remote, remoteRounds, interrupt, link_state,
                   event, deferred, wait>>

MasterDeinit ==
    /\ master = "up" /\ masterRounds < MaxRounds
    /\ masterRounds = remoteRounds /\ remote = 0
    /\ master' = "down"
    /\ UNCHANGED <<masterRounds, gip, remote, remoteRounds, interrupt,
                   link_state, event, deferred, wait>>

-----------------------------------------------------------------------------
\* The remote.

\* The M33 opens its interrupt line in platform_init; the HiFi4 only sets the
\* handler and keeps whatever state line 6 has.
EnvInit ==
    /\ remote = 0 /\ remoteRounds < MaxRounds
    /\ masterRounds = remoteRounds => master = "down"
    /\ remote' = 1 /\ remoteRounds' = remoteRounds + 1
    /\ line' = (line \/ Platform = "m33")
    /\ link_state' = 0
    /\ UNCHANGED <<master, masterRounds, gip, gie, disable_counter, event,
                   deferred, wait>>

At(step) == remote \in 1 .. Len(InitSteps) /\ InitSteps[remote] = step

\* env_register_isr, then MU_EnableInterrupts for the vector.
InitInterrupt ==
    /\ At("install")
    /\ gie' = TRUE
    /\ UNCHANGED <<line, disable_counter, link_state>>

\* Mutant: the M33's count is forgotten.
DisableLineUncounted ==
    /\ At("mask")
    /\ line' = FALSE
    /\ UNCHANGED <<gie, disable_counter, link_state>>
DisableLine ==
    /\ At("mask")
    /\ line' = FALSE
    /\ disable_counter' = disable_counter + 1
    /\ UNCHANGED <<gie, link_state>>

\* The M33 counts how often the line was disabled, the HiFi4 does not.
EnableLine ==
    /\ At("unmask")
    /\ line' = (Platform = "hifi4" \/ disable_counter = 1)
    /\ disable_counter' = disable_counter - 1
    /\ UNCHANGED <<gie, link_state>>

ResetLink ==
    /\ At("reset")
    /\ link_state' = 0
    /\ UNCHANGED interrupt

RemoteInitStep ==
    /\ InitInterrupt \/ DisableLine \/ EnableLine \/ ResetLink
    /\ remote' = remote + 1
    /\ UNCHANGED <<master, masterRounds, gip, remoteRounds, event, deferred,
                   wait>>

\* The interrupt is disabled before link_state is reset and the event object is
\* deleted.  The line stays as it is.  A task does not stop the link under
\* another that still waits, nor under the timer task.
RemoteDeinit ==
    /\ remote = Up /\ remoteRounds < MaxRounds
    /\ \A w \in Waiters : wait[w] \in {"yes", "no"}
    /\ ~deferred
    /\ remote' = 0 /\ gie' = FALSE /\ link_state' = 0 /\ event' = FALSE
    /\ wait' = [w \in Waiters |-> "idle"]
    /\ UNCHANGED <<master, masterRounds, gip, remoteRounds, line,
                   disable_counter, deferred>>

-----------------------------------------------------------------------------
\* The event object: xEventGroup* of FreeRTOS, xos_event_* of XOS.  Setting the
\* bit answers every task blocked on it; XOS clears the bit with that.

SetEvent ==
    /\ wait' = [w \in Waiters |-> IF wait[w] = "blocked" THEN "yes" ELSE wait[w]]
    /\ event' = (Env = "freertos" \/ \A w \in Waiters : wait[w] # "blocked")

\* FreeRTOS: an event group is set from an interrupt by the timer task.
DeferredSet ==
    /\ deferred
    /\ deferred' = FALSE
    /\ SetEvent
    /\ UNCHANGED <<master, masterRounds, gip, remote, remoteRounds, interrupt,
                   link_state>>

EnvTxCallback ==
    CASE Env = "bm"       -> UNCHANGED <<event, deferred, wait>>
      [] Env = "freertos" -> deferred' = TRUE /\ UNCHANGED <<event, wait>>
      [] Env = "xos"      -> SetEvent /\ UNCHANGED deferred

\* MU_x_IRQHandler for vector 0: rpmsg_lite_tx_callback.
\* Mutant: the handler leaves the flag set.
IrqHandlerKeepsFlag ==
    /\ gip /\ gie /\ line
    /\ link_state' = 1
    /\ EnvTxCallback
    /\ UNCHANGED <<gip, master, masterRounds, remote, remoteRounds, interrupt>>
IrqHandler ==
    /\ gip /\ gie /\ line
    /\ gip' = FALSE
    /\ link_state' = 1
    /\ EnvTxCallback
    /\ UNCHANGED <<master, masterRounds, remote, remoteRounds, interrupt>>

-----------------------------------------------------------------------------
\* rpmsg_lite_wait_for_link_up.

others == <<master, masterRounds, gip, remote, remoteRounds, interrupt,
            link_state, deferred>>

CallWait(w) ==
    /\ remote = Up /\ wait[w] = "idle"
    /\ wait' = [wait EXCEPT ![w] = IF Env = "freertos" THEN "clear" ELSE "check"]
    /\ UNCHANGED <<event, others>>

ClearEvent(w) ==
    /\ wait[w] = "clear"
    /\ event' = FALSE
    /\ wait' = [wait EXCEPT ![w] = "check"]
    /\ UNCHANGED others

\* Without an operating system the task spins on link_state.
CheckLink(w) ==
    /\ wait[w] = "check"
    /\ \/ link_state = 1 /\ wait' = [wait EXCEPT ![w] = "yes"]
       \/ link_state = 0 /\ Env # "bm" /\ wait' = [wait EXCEPT ![w] = "wait"]
    /\ UNCHANGED <<event, others>>

\* Mutant: a task that finds the bit set goes to sleep all the same.
WaitEventMissesBit(w) ==
    /\ wait[w] = "wait"
    /\ wait' = [wait EXCEPT ![w] = "blocked"]
    /\ UNCHANGED <<event, others>>
WaitEvent(w) ==
    /\ wait[w] = "wait"
    /\ wait' = [wait EXCEPT ![w] = IF event THEN "yes" ELSE "blocked"]
    /\ event' = (event /\ Env = "freertos")
    /\ UNCHANGED others

TimeOut(w) ==
    /\ wait[w] = "blocked" /\ ~Blocking
    /\ wait' = [wait EXCEPT ![w] = "no"]
    /\ UNCHANGED <<event, others>>

WaitStep(w) ==
    \/ ClearEvent(w)
    \/ CheckLink(w)
    \/ WaitEvent(w)

Next ==
    \/ MasterInit \/ MasterKick \/ MasterDeinit
    \/ EnvInit \/ RemoteInitStep \/ RemoteDeinit
    \/ IrqHandler \/ DeferredSet
    \/ \E w \in Waiters : CallWait(w) \/ WaitStep(w) \/ TimeOut(w)

Spec == Init /\ [][Next]_vars

\* A core that has begun to initialise goes on, a pending interrupt whose line
\* is open is taken, the timer task runs and a task inside the wait goes on.
\* Nobody has to start, to stop or to wait.
FairSpec ==
    /\ Spec
    /\ WF_vars(MasterKick) /\ WF_vars(RemoteInitStep)
    /\ WF_vars(IrqHandler) /\ WF_vars(DeferredSet)
    /\ \A w \in Waiters : WF_vars(WaitStep(w))

-----------------------------------------------------------------------------
\* Every variable keeps its range; the disable counter is the nesting of the
\* masks that remote_init has not undone, so its assertions (0 < disable_counter
\* in platform_interrupt_enable, 0 <= in platform_interrupt_disable) hold.
TypeOK ==
    /\ master \in {"down", "kick", "up"} /\ masterRounds \in 0 .. MaxRounds
    /\ remote \in 0 .. Up /\ remoteRounds \in 0 .. MaxRounds
    /\ gip \in BOOLEAN /\ gie \in BOOLEAN /\ line \in BOOLEAN
    /\ link_state \in {0, 1} /\ event \in BOOLEAN /\ deferred \in BOOLEAN
    /\ wait \in [Waiters ->
                   {"idle", "clear", "check", "wait", "blocked", "yes", "no"}]
    /\ disable_counter \in 0 .. 2
    /\ At("unmask") => disable_counter > 0
    /\ remote \in {0, Up} => disable_counter = 0

\* A link that is up means that the master of this round has written its rings:
\* when tasks wait for the link before they stop it, no interrupt left over from
\* before a restart raises it.
LinkMeansReady == link_state = 1 => master # "down"

\* rpmsg_lite_wait_for_link_up answers RL_TRUE only while the link is up: no
\* event bit left over from before a restart is taken for an answer.
AnswerTrue == \A w \in Waiters : wait[w] = "yes" => link_state = 1

\* Once the master is up and the remote initialised, the link comes up: the one
\* kick the master sends is not lost, whichever side starts first.
LinkComes == (master = "up" /\ remote = Up) ~> (link_state = 1)

\* A task that waits while the link is up gets its answer: the event is not
\* missed between the look at link_state and the sleep.
WaitReturns ==
    \A w \in Waiters :
        (wait[w] \in {"clear", "check", "wait", "blocked"} /\ link_state = 1)
            ~> (wait[w] \in {"yes", "no"})

=============================================================================
