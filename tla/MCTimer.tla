------------------------------- MODULE MCTimer -------------------------------
(***************************************************************************)
(* The timer manager with two timers and short timeouts.                   *)
(***************************************************************************)
EXTENDS TimerManager

=============================================================================
