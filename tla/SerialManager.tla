---------------------------- MODULE SerialManager ----------------------------
(***************************************************************************)
(* The write side of the serial manager (components/serial_manager) over   *)
(* the USART port (fsl_component_serial_port_uart.c), the UART adapter     *)
(* (components/uart) and the generic list (components/lists).              *)
(*                                                                         *)
(* Tasks queue writes and cancel them; the transmit interrupt finishes the *)
(* write at the head of the running queue, starts the next one and hands   *)
(* the finished one to the completed queue; the manager's task takes it    *)
(* from there and calls back, and the callback may write again.  The task  *)
(* has the highest priority of the callers (SERIAL_MANAGER_TASK_PRIORITY). *)
(* Built with OSA_USED, SERIAL_MANAGER_TASK_HANDLE_TX 0, one write handle  *)
(* in one mode, as the header asks.                                        *)
(***************************************************************************)
EXTENDS Integers, FiniteSets

CONSTANTS
    User,        \* the tasks that write
    Handle,      \* the opened write handles
    Blocking,    \* those used with SerialManager_WriteBlocking
    None,        \* NULL
    Length,      \* bytes of a write
    MaxEvents,   \* bound: callbacks write below so many unserved events
    Light,       \* GENERIC_LIST_LIGHT, 1 unless the build says otherwise
    Cancels      \* how the callers cancel: "none", "guarded" or "any"

ASSUME SerialAssumption ==
    /\ IsFiniteSet(Handle) /\ None \notin Handle \cup {"running", "completed"}
    /\ Blocking \subseteq Handle
    /\ "manager" \notin User
    /\ Length \in Nat \ {0} /\ MaxEvents \in Nat
    /\ Light \in BOOLEAN /\ Cancels \in {"none", "guarded", "any"}

VARIABLES
    lists,       \* the running and the completed queue, and the links
    busy,        \* transfer.buffer is not NULL
    soFar, status,  \* transfer.soFar, transfer.status
    sent,        \* bytes of the transfer put into the hardware
    port,        \* serial_uart_state_t tx and hal_uart_state_t tx
    events, sem, \* serialManagerState[SERIAL_EVENT_DATA_SENT]; serSemaphore
    task, taken, \* the manager's task and its serialWriteHandle
    pc, obj,     \* the callers and the handle of their call
    head,        \* the writeHandle of StartWriting
    tx,          \* the writeHandle of TxCallback
    back         \* where StartWriting returns to

transfer == <<busy, soFar, status>>
manager  == <<task, taken>>
calls    == <<pc, obj, head, tx, back>>
vars     == <<lists, transfer, sent, port, events, sem, manager, calls>>

Caller == User \cup {"manager"}
Queue  == {"running", "completed"}
Ptr    == Handle \cup {None}

-----------------------------------------------------------------------------
\* The generic list (fsl_component_generic_list.c).

EmptyLists ==
    [first |-> [q \in Queue |-> None], last |-> [q \in Queue |-> None],
     size  |-> [q \in Queue |-> 0],
     next  |-> [h \in Handle |-> None], prev |-> [h \in Handle |-> None],
     owner |-> [h \in Handle |-> None]]

\* The elements met from the head of a queue.
After(l, e) == IF e = None THEN None ELSE l.next[e]
Members(l, q) ==
    LET Walk[n \in 0 .. Cardinality(Handle)] ==
            IF n = 0 THEN l.first[q] ELSE After(l, Walk[n - 1])
    IN  {Walk[n] : n \in 0 .. Cardinality(Handle)} \ {None}

\* LIST_AddTail.
AddTail(l, q, e) ==
    [l EXCEPT !.first[q] = IF l.size[q] = 0 THEN e ELSE @,
              !.next     = [h \in Handle |->
                                IF h = e THEN None
                                ELSE IF l.size[q] # 0 /\ h = l.last[q] THEN e
                                ELSE l.next[h]],
              !.prev[e]  = IF Light THEN @ ELSE l.last[q],
              !.owner[e] = q,
              !.last[q]  = e,
              !.size[q]  = @ + 1]

\* LIST_RemoveHead.
RemoveHead(l, q) ==
    LET e == l.first[q]
    IN  IF l.size[q] = 0 THEN l ELSE
        [l EXCEPT !.first[q] = l.next[e],
                  !.last[q]  = IF l.size[q] = 1 THEN None ELSE @,
                  !.prev     = [h \in Handle |->
                                    IF ~Light /\ l.size[q] # 1 /\ h = l.next[e]
                                    THEN None ELSE l.prev[h]],
                  !.owner[e] = None,
                  !.size[q]  = @ - 1]

\* LIST_RemoveElement of an element of a list, in the light form: only the
\* link that leads to it changes.
RemoveLight(l, e) ==
    LET q == l.owner[e]
    IN  [l EXCEPT !.first[q] = IF @ = e THEN l.next[e] ELSE @,
                  !.next     = [h \in Handle |->
                                    IF l.first[q] # e /\ h \in Members(l, q) /\ l.next[h] = e
                                    THEN l.next[e] ELSE l.next[h]],
                  !.owner[e] = None,
                  !.size[q]  = @ - 1]

\* Mutant: the element after the removed one keeps its link back.
RemoveFullOneWay(l, e) ==
    LET q == l.owner[e]
    IN  [l EXCEPT !.first[q] = IF l.prev[e] = None THEN l.next[e] ELSE @,
                  !.last[q]  = IF l.next[e] = None THEN l.prev[e] ELSE @,
                  !.next     = [h \in Handle |->
                                    IF h = l.prev[e] THEN l.next[e] ELSE l.next[h]],
                  !.owner[e] = None,
                  !.size[q]  = @ - 1]
RemoveFull(l, e) ==
    LET q == l.owner[e]
    IN  [l EXCEPT !.first[q] = IF l.prev[e] = None THEN l.next[e] ELSE @,
                  !.last[q]  = IF l.next[e] = None THEN l.prev[e] ELSE @,
                  !.next     = [h \in Handle |->
                                    IF h = l.prev[e] THEN l.next[e] ELSE l.next[h]],
                  !.prev     = [h \in Handle |->
                                    IF h = l.next[e] THEN l.prev[e] ELSE l.prev[h]],
                  !.owner[e] = None,
                  !.size[q]  = @ - 1]
RemoveElement(l, e) == IF Light THEN RemoveLight(l, e) ELSE RemoveFull(l, e)

-----------------------------------------------------------------------------
\* The port: busy is tx.busy of the port; buffer, count and txlvl are the
\* adapter's tx.buffer, tx.bufferSofar and transmit interrupt.

IdlePort == [busy |-> FALSE, buffer |-> None, count |-> 0, txlvl |-> FALSE]
SendOn(h) == [busy |-> TRUE, buffer |-> h, count |-> 0, txlvl |-> TRUE]

Init ==
    /\ lists = EmptyLists
    /\ busy = [h \in Handle |-> FALSE]
    /\ soFar = [h \in Handle |-> 0] /\ status = [h \in Handle |-> "none"]
    /\ sent = [h \in Handle |-> 0]
    /\ port = IdlePort
    /\ events = 0 /\ sem = 1
    /\ task = "wait" /\ taken = None
    /\ pc = [c \in Caller |-> "idle"] /\ obj = [c \in Caller |-> None]
    /\ head = [c \in Caller |-> None] /\ tx = [c \in Caller |-> None]
    /\ back = [c \in Caller |-> "idle"]

\* Cancels = "guarded": the caller wraps CancelWriting in DisableGlobalIRQ and
\* EnableGlobalIRQ.  The pairs inside it restore the mask they found, so nobody
\* else runs until it returns.  The library does not ask for it: "any" is what
\* it allows.  Without a mask a user task runs when the manager's task waits.
Cancelling(c) == pc[c] \notin {"idle", "poll"} /\ back[c] # "written" /\ c # "manager"
Masks(c)      == Cancels = "guarded" /\ Cancelling(c)
NobodyMasks   == \A c \in Caller : ~Masks(c)
Runs(c) ==
    \/ Masks(c)
    \/ /\ NobodyMasks
       /\ IF c = "manager" THEN task = "callback" ELSE task = "wait" /\ sem = 0

GoTo(c, at) == pc' = [pc EXCEPT ![c] = at]

-----------------------------------------------------------------------------
\* SerialManager_Write: the part under the mask.

Write(c, h) ==
    /\ Runs(c) /\ pc[c] = "idle"
    /\ c = "manager" => h \notin Blocking /\ events < MaxEvents
    /\ ~busy[h]
    /\ busy' = [busy EXCEPT ![h] = TRUE]
    /\ soFar' = [soFar EXCEPT ![h] = 0] /\ sent' = [sent EXCEPT ![h] = 0]
    /\ lists' = AddTail(lists, "running", h)
    /\ obj' = [obj EXCEPT ![c] = h]
    /\ back' = [back EXCEPT ![c] = "written"]
    /\ GoTo(c, IF lists.first["running"] = None THEN "start" ELSE "written")
    /\ UNCHANGED <<status, port, events, sem, manager, head, tx>>

\* The write is started, or queued behind others: a blocking one waits.
Written(c) ==
    /\ pc[c] = "written"
    /\ GoTo(c, IF obj[c] \in Blocking THEN "poll" ELSE "idle")
    /\ obj' = [obj EXCEPT ![c] = IF @ \in Blocking THEN @ ELSE None]
    /\ back' = [back EXCEPT ![c] = "idle"]
    /\ UNCHANGED <<lists, transfer, sent, port, events, sem, manager, head, tx>>

\* The loop of a blocking write: one more delay, or the end.
Poll(c) ==
    /\ pc[c] = "poll"
    /\ \/ soFar[obj[c]] < Length /\ UNCHANGED <<pc, obj>>
       \/ /\ soFar[obj[c]] >= Length
          /\ GoTo(c, "idle") /\ obj' = [obj EXCEPT ![c] = None]
    /\ UNCHANGED <<lists, transfer, sent, port, events, sem, manager, head, tx, back>>

\* The status of StartWriting was not success: the write returns it.
Refused(c) ==
    /\ pc[c] = "refused"
    /\ GoTo(c, "idle") /\ obj' = [obj EXCEPT ![c] = None]
    /\ back' = [back EXCEPT ![c] = "idle"]
    /\ UNCHANGED <<lists, transfer, sent, port, events, sem, manager, head, tx>>

-----------------------------------------------------------------------------
\* SerialManager_StartWriting and Serial_UartWrite in a task.  CancelWriting
\* and TxCallback ignore the status.

Failed(c) == IF back[c] = "written" THEN "refused" ELSE back[c]

StartWriting(c) ==
    /\ pc[c] = "start"
    /\ head' = [head EXCEPT ![c] = lists.first["running"]]
    /\ GoTo(c, IF lists.first["running"] = None THEN Failed(c) ELSE "port")
    /\ UNCHANGED <<lists, transfer, sent, port, events, sem, manager, obj, tx, back>>

\* The call reads the buffer from the handle; the port asserts that it is one.
UartWrite(c) ==
    /\ pc[c] = "port"
    /\ \/ ~busy[head[c]] /\ GoTo(c, "assert") /\ UNCHANGED head
       \/ /\ busy[head[c]] /\ port.busy
          /\ GoTo(c, Failed(c)) /\ head' = [head EXCEPT ![c] = None]
       \/ busy[head[c]] /\ ~port.busy /\ GoTo(c, "send") /\ UNCHANGED head
    /\ UNCHANGED <<lists, transfer, sent, port, events, sem, manager, obj, tx, back>>

\* The adapter refuses while it has a buffer, and the port asserts it does not.
UartSend(c) ==
    /\ pc[c] = "send"
    /\ port' = IF port.buffer = None THEN SendOn(head[c]) ELSE [port EXCEPT !.busy = TRUE]
    /\ GoTo(c, IF port.buffer = None THEN back[c] ELSE "assert")
    /\ head' = [head EXCEPT ![c] = None]
    /\ UNCHANGED <<lists, transfer, sent, events, sem, manager, obj, tx, back>>

-----------------------------------------------------------------------------
\* SerialManager_CancelWriting, "cannot be used to abort the transmission of"
\* a blocking write.

\* A guarded cancel also waits while another task is inside SerialManager_Write,
\* past its critical section.
MayCancel(c) ==
    \/ Cancels = "any"
    \/ Cancels = "guarded" /\ \A d \in Caller \ {c} : pc[d] \in {"idle", "poll"}

\* The test of the head and the removal are one critical section; a handle in
\* no list needs no cancel.
\* Mutant: a handle in no list is handed over as canceled, too.
CancelAny(c, h) ==
    /\ Runs(c) /\ c \in User /\ pc[c] = "idle" /\ MayCancel(c)
    /\ h \notin Blocking
    /\ \/ lists.first["running"] = h /\ GoTo(c, "clear") /\ UNCHANGED lists
       \/ /\ lists.first["running"] # h
          /\ lists' = IF lists.owner[h] = None THEN lists ELSE RemoveElement(lists, h)
          /\ GoTo(c, "complete")
    /\ obj' = [obj EXCEPT ![c] = h]
    /\ UNCHANGED <<transfer, sent, port, events, sem, manager, head, tx, back>>
Cancel(c, h) ==
    /\ Runs(c) /\ c \in User /\ pc[c] = "idle" /\ MayCancel(c)
    /\ h \notin Blocking
    /\ \/ lists.first["running"] = h /\ GoTo(c, "clear") /\ UNCHANGED lists
       \/ /\ lists.first["running"] # h /\ lists.owner[h] # None
          /\ lists' = RemoveElement(lists, h)
          /\ GoTo(c, "complete")
    /\ obj' = [obj EXCEPT ![c] = h]
    /\ UNCHANGED <<transfer, sent, port, events, sem, manager, head, tx, back>>

\* The write was only queued: hand it to the manager's task as canceled.
Complete(c) ==
    /\ pc[c] = "complete"
    /\ soFar' = [soFar EXCEPT ![obj[c]] = 0]
    /\ status' = [status EXCEPT ![obj[c]] = "canceled"]
    /\ lists' = AddTail(lists, "completed", obj[c])
    /\ GoTo(c, "notify")
    /\ UNCHANGED <<busy, sent, port, events, sem, manager, obj, head, tx, back>>

\* The event and the semaphore; then CancelWriting starts the next write.
Notify(c) ==
    /\ pc[c] = "notify"
    /\ events' = events + 1 /\ sem' = sem + 1
    /\ GoTo(c, "start") /\ back' = [back EXCEPT ![c] = "canceled"]
    /\ UNCHANGED <<lists, transfer, sent, port, manager, obj, head, tx>>

\* Serial_UartCancelWrite: the busy flag is taken under the mask ...
ClearBusy(c) ==
    /\ pc[c] = "clear"
    /\ port' = [port EXCEPT !.busy = FALSE]
    /\ GoTo(c, IF port.busy THEN "abort" ELSE "abort idle")
    /\ UNCHANGED <<lists, transfer, sent, events, sem, manager, obj, head, tx, back>>

\* ... then HAL_UartAbortSend, and the callback if the port was busy.
\* Mutant: the adapter keeps its buffer.
AbortKeepsBuffer(c) ==
    /\ pc[c] \in {"abort", "abort idle"}
    /\ port' = [port EXCEPT !.txlvl = FALSE]
    /\ GoTo(c, IF pc[c] = "abort" THEN "callback" ELSE "start")
    /\ back' = [back EXCEPT ![c] = "canceled"]
    /\ UNCHANGED <<lists, transfer, sent, events, sem, manager, obj, head, tx>>
Abort(c) ==
    /\ pc[c] \in {"abort", "abort idle"}
    /\ port' = IF port.buffer = None THEN port
               ELSE [port EXCEPT !.buffer = None, !.txlvl = FALSE]
    /\ GoTo(c, IF pc[c] = "abort" THEN "callback" ELSE "start")
    /\ back' = [back EXCEPT ![c] = "canceled"]
    /\ UNCHANGED <<lists, transfer, sent, events, sem, manager, obj, head, tx>>

\* SerialManager_TxCallback in the canceling task: it looks at the head of the
\* queue, whatever that is by now, ...
TxCallback(c) ==
    /\ pc[c] = "callback"
    /\ tx' = [tx EXCEPT ![c] = lists.first["running"]]
    /\ GoTo(c, IF lists.first["running"] = None THEN "start" ELSE "remove")
    /\ UNCHANGED <<lists, transfer, sent, port, events, sem, manager, obj, head, back>>

\* ... removes the head and starts the next write.
Remove(c) ==
    /\ pc[c] = "remove"
    /\ lists' = RemoveHead(lists, "running")
    /\ GoTo(c, "start") /\ back' = [back EXCEPT ![c] = "finish"]
    /\ UNCHANGED <<transfer, sent, port, events, sem, manager, obj, head, tx>>

\* The whole length is reported, whatever was sent, as canceled.
\* Mutant: the end of the transfer is reported as its success.
FinishAsSent(c) ==
    /\ pc[c] = "finish"
    /\ soFar' = [soFar EXCEPT ![tx[c]] = Length]
    /\ status' = [status EXCEPT ![tx[c]] = "success"]
    /\ IF tx[c] \in Blocking
       THEN /\ busy' = [busy EXCEPT ![tx[c]] = FALSE]
            /\ GoTo(c, "start") /\ back' = [back EXCEPT ![c] = "canceled"]
            /\ UNCHANGED lists
       ELSE /\ lists' = AddTail(lists, "completed", tx[c])
            /\ GoTo(c, "notify") /\ UNCHANGED <<busy, back>>
    /\ tx' = [tx EXCEPT ![c] = None]
    /\ UNCHANGED <<sent, port, events, sem, manager, obj, head>>
Finish(c) ==
    /\ pc[c] = "finish"
    /\ soFar' = [soFar EXCEPT ![tx[c]] = Length]
    /\ status' = [status EXCEPT ![tx[c]] = "canceled"]
    /\ IF tx[c] \in Blocking
       THEN /\ busy' = [busy EXCEPT ![tx[c]] = FALSE]
            /\ GoTo(c, "start") /\ back' = [back EXCEPT ![c] = "canceled"]
            /\ UNCHANGED lists
       ELSE /\ lists' = AddTail(lists, "completed", tx[c])
            /\ GoTo(c, "notify") /\ UNCHANGED <<busy, back>>
    /\ tx' = [tx EXCEPT ![c] = None]
    /\ UNCHANGED <<sent, port, events, sem, manager, obj, head>>

Canceled(c) ==
    /\ pc[c] = "canceled"
    /\ GoTo(c, "idle") /\ obj' = [obj EXCEPT ![c] = None]
    /\ back' = [back EXCEPT ![c] = "idle"]
    /\ UNCHANGED <<lists, transfer, sent, port, events, sem, manager, head, tx>>

-----------------------------------------------------------------------------
\* The transmit interrupt (HAL_UartInterruptHandle, Serial_UartCallback,
\* SerialManager_TxCallback).

\* StartWriting in the interrupt, on the queue l and a port that is free.
\* Mutant: the interrupt leaves the next write to somebody else.
StartedNot(l) == IdlePort
Started(l) ==
    IF l.first["running"] = None THEN IdlePort ELSE SendOn(l.first["running"])

\* One byte of several.
SendByte ==
    /\ port.txlvl /\ port.buffer # None
    /\ port.count + 1 < Length
    /\ port' = [port EXCEPT !.count = @ + 1]
    /\ sent' = [sent EXCEPT ![port.buffer] = @ + 1]
    /\ UNCHANGED <<lists, transfer, events, sem, manager, calls>>

\* The last byte; the port no longer busy tells nobody.
SendLast ==
    /\ port.txlvl /\ port.buffer # None
    /\ port.count + 1 = Length
    /\ sent' = [sent EXCEPT ![port.buffer] = @ + 1]
    /\ LET h == lists.first["running"]
           l == RemoveHead(lists, "running")
       IN  IF ~port.busy \/ h = None
           THEN port' = IdlePort /\ UNCHANGED <<lists, transfer, events, sem>>
           ELSE /\ port' = Started(l)
                /\ soFar' = [soFar EXCEPT ![h] = Length]
                /\ status' = [status EXCEPT ![h] = "success"]
                /\ IF h \in Blocking
                   THEN /\ busy' = [busy EXCEPT ![h] = FALSE]
                        /\ lists' = l /\ UNCHANGED <<events, sem>>
                   ELSE /\ lists' = AddTail(l, "completed", h)
                        /\ events' = events + 1 /\ sem' = sem + 1
                        /\ UNCHANGED busy
    /\ UNCHANGED <<manager, calls>>

-----------------------------------------------------------------------------
\* SerialManager_Task.

Wake ==
    /\ task = "wait" /\ sem > 0
    /\ sem' = sem - 1
    /\ task' = IF events # 0 THEN "next" ELSE "wait"
    /\ UNCHANGED <<lists, transfer, sent, port, events, taken, calls>>

NextCompleted ==
    /\ task = "next"
    /\ taken' = lists.first["completed"]
    /\ task' = IF lists.first["completed"] = None THEN "drained" ELSE "take"
    /\ UNCHANGED <<lists, transfer, sent, port, events, sem, calls>>

Take ==
    /\ task = "take"
    /\ lists' = RemoveHead(lists, "completed")
    /\ task' = "report"
    /\ UNCHANGED <<transfer, sent, port, events, sem, taken, calls>>

\* The buffer is given back, then the callback runs.
Report ==
    /\ task = "report"
    /\ busy' = [busy EXCEPT ![taken] = FALSE]
    /\ task' = "callback"
    /\ UNCHANGED <<lists, soFar, status, sent, port, events, sem, taken, calls>>

Reported ==
    /\ task = "callback" /\ pc["manager"] = "idle"
    /\ task' = "next"
    /\ UNCHANGED <<lists, transfer, sent, port, events, sem, taken, calls>>

Drained ==
    /\ task = "drained"
    /\ events' = events - 1
    /\ task' = "wait"
    /\ UNCHANGED <<lists, transfer, sent, port, sem, taken, calls>>

-----------------------------------------------------------------------------
CallStep(c) ==
    /\ Runs(c)
    /\ \/ Written(c) \/ Poll(c) \/ Refused(c)
       \/ StartWriting(c) \/ UartWrite(c) \/ UartSend(c)
       \/ Complete(c) \/ Notify(c) \/ ClearBusy(c) \/ Abort(c)
       \/ TxCallback(c) \/ Remove(c) \/ Finish(c) \/ Canceled(c)
Interrupt   == NobodyMasks /\ (SendByte \/ SendLast)
ManagerStep ==
    /\ NobodyMasks
    /\ Wake \/ NextCompleted \/ Take \/ Report \/ Reported \/ Drained

Next ==
    \/ \E c \in Caller : CallStep(c) \/ \E h \in Handle : Write(c, h) \/ Cancel(c, h)
    \/ Interrupt \/ ManagerStep

Spec == Init /\ [][Next]_vars

\* The hardware takes the bytes: its interrupt stays pending while masked and
\* is taken after.  The manager's task, the highest, runs when it can.  The
\* user tasks share a priority: each gets its turns.
Fairness ==
    /\ \A c \in User : SF_vars(CallStep(c))
    /\ SF_vars(Interrupt)
    /\ WF_vars(ManagerStep \/ CallStep("manager"))
FairSpec == Spec /\ Fairness

-----------------------------------------------------------------------------

\* Every element a list owns is linked into it, and nothing else is; the
\* size and the tail agree (LIST_AddTail, LIST_RemoveHead, LIST_RemoveElement
\* as the manager and the interrupt mix them).
QueuesWhole ==
    \A q \in Queue :
        /\ Members(lists, q) = {h \in Handle : lists.owner[h] = q}
        /\ lists.size[q] = Cardinality(Members(lists, q))
        /\ Members(lists, q) # {} =>
               lists.last[q] \in Members(lists, q) /\ lists.next[lists.last[q]] = None

\* What LIST_AddTail promises: the element it added can be reached.
AddedIsLinked ==
    \A h \in Handle : lists.owner[h] # None => h \in Members(lists, lists.owner[h])

\* The one place of a write that was accepted and not reported: a queue, the
\* hands of a canceling task or those of the manager's task.
InHand(h) ==
    \/ \E c \in Caller : \/ tx[c] = h /\ pc[c] # "remove"
                         \/ obj[c] = h /\ pc[c] = "complete"
    \/ (task = "report" /\ taken = h)

\* No accepted write is lost and none is queued that is not accepted: the
\* interrupt, the cancels and the manager's task hand it on to one another.
Placed ==
    \A h \in Handle : IF busy[h] THEN (lists.owner[h] # None) # InHand(h)
                                  ELSE lists.owner[h] = None /\ ~InHand(h)

\* A success, called back or returned by a blocking write, is for a transfer
\* whose every byte went out (fsl_component_serial_manager.h:622, 654-656).
SuccessMeansSent ==
    /\ \A h \in Handle :
           lists.owner[h] = "completed" /\ status[h] = "success" => sent[h] = Length
    /\ \A c \in Caller :
           pc[c] = "poll" /\ soFar[obj[c]] = Length => sent[obj[c]] = Length

\* SerialManager_WriteBlocking returns success only when every byte of its
\* transfer went out: "Successfully sent all data."
BlockingSent ==
    \A c \in Caller : pc[c] = "poll" /\ soFar[obj[c]] = Length => sent[obj[c]] >= Length

\* The port is never started without a buffer or over a transfer the adapter
\* still has (the assertions of Serial_UartWrite), and the adapter sends the
\* head of the running queue: its end is reported for the head, whatever the
\* adapter was sending.
PortInStep ==
    /\ \A c \in Caller : pc[c] # "assert"
    /\ NobodyMasks /\ port.buffer # None =>
           port.busy /\ port.buffer = lists.first["running"]

\* Every accepted write is called back, or finished for the task that polls; and
\* SerialManager_WriteBlocking returns, provided that the callbacks, which
\* may write for ever, leave the processor to the user tasks.
UsersRun == NobodyMasks /\ task = "wait" /\ sem = 0
EveryWriteEnds ==
    /\ \A h \in Handle : busy[h] ~> ~busy[h]
    /\ []<>UsersRun => \A c \in User : pc[c] = "poll" ~> pc[c] = "idle"

=============================================================================
