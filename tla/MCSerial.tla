------------------------------ MODULE MCSerial ------------------------------
(***************************************************************************)
(* Instances of SerialManager for TLC: two tasks, three write handles (one *)
(* of them blocking) and guarded cancels (MCSerial); one task, the list in *)
(* its default form (SerialList); cancels as the library allows them, with *)
(* one task that writes blocking and one that does not (SerialCut).        *)
(***************************************************************************)
EXTENDS SerialManager

CONSTANT Polling    \* the tasks that write blocking, and do nothing else

NextApart ==
    \/ \E c \in Caller :
          \/ CallStep(c)
          \/ \E h \in Handle :
                (h \in Blocking <=> c \in Polling) /\ (Write(c, h) \/ Cancel(c, h))
    \/ Interrupt \/ ManagerStep

SpecApart == Init /\ [][NextApart]_vars
=============================================================================
