------------------------------- MODULE MCUsart -------------------------------
(***************************************************************************)
(* A small USART: a receive queue of two bytes, a send queue of one, and a *)
(* ring that keeps one (MCUsart); one byte of each, for the storm that a   *)
(* stale mask makes (UsartStorm).                                          *)
(***************************************************************************)
EXTENDS Usart

=============================================================================
