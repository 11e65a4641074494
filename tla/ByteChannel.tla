----------------------------- MODULE ByteChannel -----------------------------
(***************************************************************************)
(* What the receive path of the USART driver promises: a first-in          *)
(* first-out channel of bytes between the line and the user's buffer.      *)
(* Bytes may be lost, in two ways only: the oldest ones when Capacity of   *)
(* them wait for a reader, and the newest ones when the hardware has an    *)
(* error to report or the user gives a request up.  None is reordered,     *)
(* repeated or invented.  A channel that is broken promises nothing.       *)
(***************************************************************************)
EXTENDS Integers, Sequences

CONSTANTS Byte,      \* what travels on the line
          Capacity   \* bytes that can wait for a reader without loss

VARIABLES pipe,      \* bytes that arrived and are not delivered
          last,      \* the byte delivered last
          lossy,     \* an error is to be reported, or a request is given up
          broken     \* the promise is off

vars == <<pipe, last, lossy, broken>>

Init == pipe = << >> /\ last = 0 /\ lossy = FALSE /\ broken = FALSE

Arrive == \E b \in Byte : pipe' = Append(pipe, b) /\ UNCHANGED <<last, lossy>>

\* Some bytes reach the user, in the order they came.
Deliver ==
    \E n \in 1 .. Len(pipe) :
        /\ last' = pipe[n]
        /\ pipe' = SubSeq(pipe, n + 1, Len(pipe))
        /\ UNCHANGED lossy

DropOldest ==
    /\ Len(pipe) > Capacity
    /\ pipe' = Tail(pipe)
    /\ UNCHANGED <<last, lossy>>

\* The newest bytes are going to be lost.
Announce == lossy' = TRUE /\ UNCHANGED <<pipe, last>>

DropNewest ==
    /\ lossy
    /\ \E n \in 0 .. Len(pipe) : pipe' = SubSeq(pipe, 1, n)
    /\ lossy' \in BOOLEAN
    /\ UNCHANGED last

\* Anything may happen to the bytes.
Break == broken' = TRUE

Work == Arrive \/ Deliver \/ DropOldest \/ Announce \/ DropNewest

Next == (Work /\ UNCHANGED broken) \/ Break

Spec == Init /\ [][Next]_vars

=============================================================================
