------------------------------ MODULE TimerAges ------------------------------
(***************************************************************************)
(* The timer manager with a history variable: how long ago each timer was  *)
(* started or last expired.                                                *)
(***************************************************************************)
EXTENDS TimerManager

VARIABLE age

\* A timer that is started or expires is new; a live one grows older with time,
\* up to the longest timeout.
AgeInit == age = [t \in Timer |-> 0]

AgeNext ==
    age' = [t \in Timer |->
        IF \/ status[t] # "ready" /\ status'[t] = "ready"
           \/ pc = "walk" /\ pc' = "callback" /\ th = t
        THEN 0
        ELSE IF Tick /\ Live(t) /\ (\E us \in Timeouts : age[t] < us) THEN age[t] + 1 ELSE age[t]]

AgedSpec == (Init /\ AgeInit) /\ [][Next /\ AgeNext]_<<vars, age>>

\* A callback comes no earlier than the time it was asked for (fsl_component_timer_-
\* manager.h: it "will be called if timer is expired"; TimersUpdateSyncTask).
NotEarly == [][(pc = "walk" /\ pc' = "callback") => age[th] >= timeout[th]]_<<vars, age>>

=============================================================================
