---------------------------- MODULE LinkUp_proofs ----------------------------
(***************************************************************************)
(* Type correctness of LinkUp, for every environment and platform, and     *)
(* LinkMeansReady for applications that wait with RL_BLOCK before they     *)
(* stop the link.                                                          *)
(***************************************************************************)
EXTENDS LinkUp, TLAPS

\* How often remote_init has masked the line at each of its steps.
Masks == disable_counter = CASE remote = 3 -> 1
                             [] remote \in {4, 5} -> 2
                             [] remote = 6 -> 1
                             [] OTHER -> 0

TInv == TypeOK /\ Masks

\* remote_init has six steps, two of them of each masking kind.
LEMMA Steps ==
    /\ Up = 7 /\ Len(InitSteps) = 6
    /\ At("install") <=> remote = 1
    /\ At("mask") <=> remote \in {2, 3}
    /\ At("reset") <=> remote = 4
    /\ At("unmask") <=> remote \in {5, 6}
<1>1. Len(InitSteps) = 6
  BY DEF InitSteps
<1>2. /\ InitSteps[1] = "install" /\ InitSteps[2] = "mask"
      /\ InitSteps[3] = "mask" /\ InitSteps[4] = "reset"
      /\ InitSteps[5] = "unmask" /\ InitSteps[6] = "unmask"
  BY DEF InitSteps
<1>3. 1 .. 6 = {1, 2, 3, 4, 5, 6}
  OBVIOUS
<1> QED  BY <1>1, <1>2, <1>3 DEF At, Up

LEMMA TInit == Init => TInv
<1>1. Init => TypeOK
  <2> SUFFICES ASSUME Init PROVE TypeOK
    OBVIOUS
  <2>1. ~At("unmask") /\ remote \in 0 .. Up /\ disable_counter = 0
    BY Steps DEF Init
  <2>2. masterRounds \in 0 .. MaxRounds /\ remoteRounds \in 0 .. MaxRounds
    BY LinkAssumption DEF Init
  <2>3. wait \in [Waiters ->
                    {"idle", "clear", "check", "wait", "blocked", "yes", "no"}]
    BY DEF Init
  <2>4. master \in {"down", "kick", "up"} /\ link_state \in {0, 1}
    BY DEF Init
  <2>5. gip \in BOOLEAN /\ gie \in BOOLEAN /\ line \in BOOLEAN
        /\ event \in BOOLEAN /\ deferred \in BOOLEAN
    BY DEF Init
  <2> QED  BY <2>1, <2>2, <2>3, <2>4, <2>5 DEF TypeOK
<1>2. Init => Masks
  BY DEF Init, Masks
<1> QED  BY <1>1, <1>2 DEF TInv

LEMMA TNext == TInv /\ [Next]_vars => TInv'
<1> SUFFICES ASSUME TInv, [Next]_vars PROVE TInv'
  OBVIOUS
<1> USE LinkAssumption, Steps DEF TInv, TypeOK, Masks, interrupt
<1>1. CASE MasterInit
  BY <1>1 DEF MasterInit, At
<1>2. CASE MasterKick
  BY <1>2 DEF MasterKick, At
<1>3. CASE MasterDeinit
  BY <1>3 DEF MasterDeinit, At
<1>4. CASE EnvInit
  <2>1. remote' = 1 /\ disable_counter' = 0
    BY <1>4 DEF EnvInit
  <2>2. ~At("unmask")'
    BY <2>1 DEF At, InitSteps
  <2> QED  BY <1>4, <2>1, <2>2 DEF EnvInit
<1>5. CASE RemoteInitStep
  <2>1. remote \in 1 .. 6 /\ remote' = remote + 1 /\ remote' \in 2 .. 7
    BY <1>5 DEF RemoteInitStep, InitInterrupt, DisableLine, EnableLine, ResetLink
  <2>2. At("unmask")' => remote' \in {5, 6}
    BY <2>1 DEF At, InitSteps
  <2>3. Masks' /\ disable_counter' \in 0 .. 2
    <3>1. CASE InitInterrupt
      BY <2>1, <3>1 DEF InitInterrupt
    <3>2. CASE DisableLine
      BY <2>1, <3>2 DEF DisableLine
    <3>3. CASE EnableLine
      BY <2>1, <3>3 DEF EnableLine
    <3>4. CASE ResetLink
      BY <2>1, <3>4 DEF ResetLink
    <3> QED  BY <1>5, <3>1, <3>2, <3>3, <3>4 DEF RemoteInitStep
  <2>4. gie' \in BOOLEAN /\ line' \in BOOLEAN /\ link_state' \in {0, 1}
    BY <1>5 DEF RemoteInitStep, InitInterrupt, DisableLine, EnableLine, ResetLink
  <2>5. UNCHANGED <<master, masterRounds, gip, remoteRounds, event, deferred,
                    wait>>
    BY <1>5 DEF RemoteInitStep
  <2> QED  BY <2>1, <2>2, <2>3, <2>4, <2>5
<1>6. CASE RemoteDeinit
  <2>1. remote' = 0 /\ disable_counter' = 0
    BY <1>6 DEF RemoteDeinit
  <2>2. ~At("unmask")'
    BY <2>1 DEF At, InitSteps
  <2>3. UNCHANGED <<master, masterRounds, gip, remoteRounds, line, deferred>>
    BY <1>6 DEF RemoteDeinit
  <2>4. gie' = FALSE /\ link_state' = 0 /\ event' = FALSE
        /\ wait' = [w \in Waiters |-> "idle"]
    BY <1>6 DEF RemoteDeinit
  <2>5. wait' \in [Waiters ->
                     {"idle", "clear", "check", "wait", "blocked", "yes", "no"}]
    BY <2>4
  <2>6. gie' \in BOOLEAN /\ link_state' \in {0, 1} /\ event' \in BOOLEAN
    BY <2>4
  <2> QED  BY <2>1, <2>2, <2>3, <2>5, <2>6
<1>7. CASE IrqHandler
  <2>1. UNCHANGED <<master, masterRounds, remote, remoteRounds, gie, line,
                    disable_counter>>
    BY <1>7 DEF IrqHandler
  <2>2. wait' \in [Waiters ->
                     {"idle", "clear", "check", "wait", "blocked", "yes", "no"}]
    BY <1>7 DEF IrqHandler, EnvTxCallback, SetEvent
  <2>3. event' \in BOOLEAN /\ deferred' \in BOOLEAN
    BY <1>7 DEF IrqHandler, EnvTxCallback, SetEvent
  <2>4. ~At("unmask")' <=> ~At("unmask")
    BY <2>1 DEF At
  <2>5. gip' \in BOOLEAN /\ link_state' \in {0, 1}
    BY <1>7 DEF IrqHandler
  <2> QED  BY <2>1, <2>2, <2>3, <2>4, <2>5
<1>8. CASE DeferredSet
  <2>1. UNCHANGED <<master, masterRounds, gip, remote, remoteRounds, gie, line,
                    disable_counter, link_state>>
    BY <1>8 DEF DeferredSet
  <2>2. wait' \in [Waiters ->
                     {"idle", "clear", "check", "wait", "blocked", "yes", "no"}]
    BY <1>8 DEF DeferredSet, SetEvent
  <2>3. event' \in BOOLEAN /\ deferred' \in BOOLEAN
    BY <1>8 DEF DeferredSet, SetEvent
  <2>4. ~At("unmask")' <=> ~At("unmask")
    BY <2>1 DEF At
  <2>5. gip' \in BOOLEAN /\ link_state' \in {0, 1}
    BY <1>8 DEF DeferredSet
  <2> QED  BY <2>1, <2>2, <2>3, <2>4, <2>5
<1>9. ASSUME NEW w \in Waiters, CallWait(w) \/ WaitStep(w) \/ TimeOut(w)
      PROVE  TInv'
  <2>1. UNCHANGED others
    BY <1>9 DEF CallWait, WaitStep, ClearEvent, CheckLink, WaitEvent, TimeOut,
                others
  <2>2. wait' \in [Waiters ->
                     {"idle", "clear", "check", "wait", "blocked", "yes", "no"}]
    BY <1>9 DEF CallWait, WaitStep, ClearEvent, CheckLink, WaitEvent, TimeOut
  <2>3. event' \in BOOLEAN
    BY <1>9 DEF CallWait, WaitStep, ClearEvent, CheckLink, WaitEvent, TimeOut
  <2>4. ~At("unmask")' <=> ~At("unmask")
    BY <2>1 DEF others, At
  <2> QED  BY <2>1, <2>2, <2>3, <2>4 DEF others
<1>10. CASE UNCHANGED vars
  BY <1>10 DEF vars, At
<1> QED
  BY <1>1, <1>2, <1>3, <1>4, <1>5, <1>6, <1>7, <1>8, <1>9, <1>10 DEF Next

LEMMA TAlways == Spec => []TInv
BY TInit, TNext, PTL DEF Spec

\* Every variable keeps its range, and remote_init undoes as many masks as it
\* has set.
THEOREM TypeCorrect == Spec => []TypeOK
<1>1. TInv => TypeOK
  BY DEF TInv
<1> QED  BY TAlways, <1>1, PTL

-----------------------------------------------------------------------------
\* The remote of this round has taken the kick of this round.
KickTaken == master = "up" /\ masterRounds = remoteRounds /\ ~gip

\* The two sides are never more than half a round apart.
RoundsAgree ==
    /\ masterRounds > remoteRounds =>
           remote = 0 /\ master # "down" /\ masterRounds = remoteRounds + 1
    /\ remoteRounds > masterRounds =>
           remote # 0 /\ master = "down" /\ remoteRounds = masterRounds + 1

\* A pending kick comes from a master that is up, and no kick is left over when
\* the remote of the same round has stopped.
NoStaleKick ==
    /\ gip => master = "up"
    /\ masterRounds = remoteRounds /\ remote = 0 => master # "kick" /\ ~gip

\* Whatever tells the remote that the link is up came from that kick.
Evidence ==
    (link_state = 1 \/ event \/ deferred \/ \E w \in Waiters : wait[w] = "yes")
        => KickTaken

\* A remote that is down has left nothing behind; tasks wait only while it is up.
Quiet ==
    /\ remote = 0 => ~gie /\ ~event /\ ~deferred /\ link_state = 0
    /\ remote # Up => \A w \in Waiters : wait[w] = "idle"
    /\ \A w \in Waiters : wait[w] # "no"

RInv == TInv /\ RoundsAgree /\ NoStaleKick /\ Evidence /\ Quiet

\* The link comes up only with a master that has written its rings: for every
\* number of restarts, as long as some task waits for the link, with RL_BLOCK,
\* before it is stopped.
THEOREM LinkReady ==
    ASSUME Blocking, Waiters # {}
    PROVE  Spec => []LinkMeansReady
<1> USE LinkAssumption DEF RInv
<1>1. Init => RInv
  <2>1. Init => TInv
    BY TInit
  <2>2. Init => RoundsAgree /\ NoStaleKick /\ Evidence /\ Quiet
    BY DEF Init, RoundsAgree, NoStaleKick, Evidence, Quiet
  <2> QED  BY <2>1, <2>2
<1>2. RInv /\ TInv' /\ [Next]_vars => RInv'
  <2> SUFFICES ASSUME RInv, TInv', [Next]_vars
               PROVE  RoundsAgree' /\ NoStaleKick' /\ Evidence' /\ Quiet'
    OBVIOUS
  <2> USE Steps DEF TInv, TypeOK, RoundsAgree, NoStaleKick, Evidence, Quiet,
                    KickTaken, interrupt
  <2>1. CASE MasterInit
    BY <2>1 DEF MasterInit
  <2>2. CASE MasterKick
    BY <2>2 DEF MasterKick
  <2>3. CASE MasterDeinit
    BY <2>3 DEF MasterDeinit
  <2>4. CASE EnvInit
    BY <2>4 DEF EnvInit
  <2>5. CASE RemoteInitStep
    <3>1. remote \in 1 .. 6 /\ remote' = remote + 1 /\ link_state' \in {0, link_state}
      BY <2>5 DEF RemoteInitStep, InitInterrupt, DisableLine, EnableLine, ResetLink
    <3>2. UNCHANGED <<master, masterRounds, gip, remoteRounds, event, deferred,
                      wait>>
      BY <2>5 DEF RemoteInitStep
    <3> QED  BY <3>1, <3>2
  <2>6. CASE RemoteDeinit
    <3>1. PICK w \in Waiters : wait[w] = "yes"
      BY <2>6 DEF RemoteDeinit
    <3>2. KickTaken
      BY <3>1
    <3> QED  BY <2>6, <3>2 DEF RemoteDeinit
  <2>7. CASE IrqHandler
    <3>1. remote # 0 /\ master = "up" /\ masterRounds = remoteRounds
      BY <2>7 DEF IrqHandler
    <3>2. KickTaken'
      BY <2>7, <3>1 DEF IrqHandler
    <3>3. \A w \in Waiters : wait'[w] \in {wait[w], "yes"}
                             /\ (wait[w] = "idle" => wait'[w] = "idle")
      BY <2>7 DEF IrqHandler, EnvTxCallback, SetEvent
    <3> QED  BY <2>7, <3>1, <3>2, <3>3 DEF IrqHandler
  <2>8. CASE DeferredSet
    <3>1. KickTaken
      BY <2>8 DEF DeferredSet
    <3>2. KickTaken'
      BY <2>8, <3>1 DEF DeferredSet
    <3>3. \A w \in Waiters : wait'[w] \in {wait[w], "yes"}
                             /\ (wait[w] = "idle" => wait'[w] = "idle")
      BY <2>8 DEF DeferredSet, SetEvent
    <3> QED  BY <2>8, <3>1, <3>2, <3>3 DEF DeferredSet
  <2>9. ASSUME NEW w \in Waiters, CallWait(w) \/ WaitStep(w) \/ TimeOut(w)
        PROVE  RoundsAgree' /\ NoStaleKick' /\ Evidence' /\ Quiet'
    <3>1. CASE CallWait(w)
      BY <3>1 DEF CallWait, others
    <3>2. CASE ClearEvent(w)
      BY <3>2 DEF ClearEvent, others
    <3>3. CASE CheckLink(w)
      BY <3>3 DEF CheckLink, others
    <3>4. CASE WaitEvent(w)
      BY <3>4 DEF WaitEvent, others
    <3>5. CASE TimeOut(w)
      BY <3>5 DEF TimeOut
    <3> QED  BY <2>9, <3>1, <3>2, <3>3, <3>4, <3>5 DEF WaitStep
  <2>10. CASE UNCHANGED vars
    BY <2>10 DEF vars
  <2> QED
    BY <2>1, <2>2, <2>3, <2>4, <2>5, <2>6, <2>7, <2>8, <2>9, <2>10 DEF Next
<1>3. RInv => LinkMeansReady
  BY DEF Evidence, KickTaken, LinkMeansReady
<1> QED  BY <1>1, <1>2, <1>3, TAlways, PTL DEF Spec

-----------------------------------------------------------------------------
\* Until link_state is reset the line of the remote has not been opened, and
\* nothing says that the link is up.
Unopened ==
    remote \in 0 .. 4 => ~line /\ link_state = 0 /\ ~event /\ ~deferred

\* The remote is initialised once, and tasks wait after that.
Once ==
    /\ remote # 0 => remoteRounds = MaxRounds
    /\ remote # Up => \A w \in Waiters : wait[w] = "idle"

\* Whatever can become an answer is there only while the link is up.
Truthful ==
    (event \/ deferred \/ \E w \in Waiters : wait[w] = "yes") => link_state = 1

AInv == TInv /\ Unopened /\ Once /\ Truthful

\* On the HiFi4, whose line is closed after reset, rpmsg_lite_wait_for_link_up
\* answers RL_TRUE only while the link is up: in every environment, for any
\* number of tasks, with and without a time-out, until the link is stopped.
\* (On the Cortex-M33, and after a restart, the line is open while link_state
\* is being reset: an event that came before can be taken for an answer.)
THEOREM AnswersTrue ==
    ASSUME Platform = "hifi4", MaxRounds = 1
    PROVE  Spec => []AnswerTrue
<1> USE LinkAssumption DEF AInv
<1>1. Init => AInv
  <2>1. Init => TInv
    BY TInit
  <2>2. Init => Unopened /\ Once /\ Truthful
    BY DEF Init, Unopened, Once, Truthful
  <2> QED  BY <2>1, <2>2
<1>2. AInv /\ TInv' /\ [Next]_vars => AInv'
  <2> SUFFICES ASSUME AInv, TInv', [Next]_vars
               PROVE  Unopened' /\ Once' /\ Truthful'
    OBVIOUS
  <2> USE Steps DEF TInv, TypeOK, Unopened, Once, Truthful, interrupt
  <2>1. CASE MasterInit \/ MasterKick \/ MasterDeinit
    BY <2>1 DEF MasterInit, MasterKick, MasterDeinit
  <2>2. CASE EnvInit
    BY <2>2 DEF EnvInit
  <2>3. CASE RemoteInitStep
    <3>1. /\ remote \in 1 .. 6 /\ remote' = remote + 1
          /\ UNCHANGED <<remoteRounds, event, deferred, wait>>
          /\ remote # 4 => link_state' = link_state
          /\ remote \in 1 .. 3 => (line' => line)
      <4>1. CASE InitInterrupt
        BY <2>3, <4>1 DEF RemoteInitStep, InitInterrupt
      <4>2. CASE DisableLine
        BY <2>3, <4>2 DEF RemoteInitStep, DisableLine
      <4>3. CASE EnableLine
        BY <2>3, <4>3 DEF RemoteInitStep, EnableLine
      <4>4. CASE ResetLink
        BY <2>3, <4>4 DEF RemoteInitStep, ResetLink
      <4> QED  BY <2>3, <4>1, <4>2, <4>3, <4>4 DEF RemoteInitStep
    <3>2. remote' # 0 /\ remoteRounds = MaxRounds /\ \A w \in Waiters : wait[w] = "idle"
      BY <3>1
    <3>3. Unopened'
      <4>1. remote' \in 0 .. 4 => remote \in 1 .. 3 /\ remote # 4
        BY <3>1
      <4>2. remote' \in 0 .. 4 => ~line /\ link_state = 0 /\ ~event /\ ~deferred
        BY <4>1
      <4>3. remote' \in 0 .. 4 => ~line' /\ link_state' = 0
        BY <3>1, <4>1, <4>2
      <4>4. event' = event /\ deferred' = deferred
        BY <3>1
      <4> QED  BY <4>2, <4>3, <4>4, Zenon DEF Unopened
    <3>4. Once'
      BY <3>1, <3>2
    <3>5. Truthful'
      BY <3>1, <3>2
    <3> QED  BY <3>3, <3>4, <3>5
  <2>4. ~RemoteDeinit
    BY DEF RemoteDeinit
  <2>5. CASE IrqHandler
    <3>1. /\ remote \notin 0 .. 4 /\ link_state' = 1
          /\ UNCHANGED <<remote, remoteRounds, line>>
      BY <2>5 DEF IrqHandler
    <3>2. \A w \in Waiters : wait[w] = "idle" => wait'[w] = "idle"
      BY <2>5 DEF IrqHandler, EnvTxCallback, SetEvent
    <3> QED  BY <3>1, <3>2
  <2>6. CASE DeferredSet
    <3>1. /\ link_state = 1 /\ UNCHANGED <<remote, remoteRounds, line, link_state>>
          /\ remote \notin 0 .. 4
      BY <2>6 DEF DeferredSet
    <3>2. \A w \in Waiters : wait[w] = "idle" => wait'[w] = "idle"
      BY <2>6 DEF DeferredSet, SetEvent
    <3> QED  BY <3>1, <3>2
  <2>7. ASSUME NEW w \in Waiters, CallWait(w) \/ WaitStep(w) \/ TimeOut(w)
        PROVE  Unopened' /\ Once' /\ Truthful'
    <3>1. UNCHANGED <<remote, remoteRounds, line, link_state, deferred>>
      BY <2>7 DEF CallWait, WaitStep, ClearEvent, CheckLink, WaitEvent, TimeOut, others
    <3>2. remote = Up
      <4>1. wait[w] # "idle" \/ remote = Up
        BY <2>7 DEF CallWait, WaitStep, ClearEvent, CheckLink, WaitEvent, TimeOut
      <4> QED  BY <4>1
    <3>3. Truthful'
      BY <2>7, <3>1 DEF CallWait, WaitStep, ClearEvent, CheckLink, WaitEvent, TimeOut
    <3> QED  BY <3>1, <3>2, <3>3
  <2>8. CASE UNCHANGED vars
    BY <2>8 DEF vars
  <2> QED
    BY <2>1, <2>2, <2>3, <2>4, <2>5, <2>6, <2>7, <2>8 DEF Next
<1>3. AInv => AnswerTrue
  BY DEF Truthful, AnswerTrue
<1> QED  BY <1>1, <1>2, <1>3, TAlways, PTL DEF Spec

=============================================================================
