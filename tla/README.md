# The RT600 SDK's concurrent core: a TLA+ verification project

The repository is the MCUXpresso SDK for the i.MX RT685: a Cortex-M33 and a HiFi4 DSP on one
chip, with drivers, components, middleware and examples. Its own concurrent core is
**RPMsg-Lite** (`src/middleware/multicore/rpmsg_lite`), which passes messages between the two cores
over rings in shared memory and an interrupt of the messaging unit (MU). Next to it stand the
interrupt-driven **USART driver**, the **timer manager** and the **serial manager** with the generic
list under it. These are what this project models. Paths below are relative to `src/`; `RL` stands for
`middleware/multicore/rpmsg_lite/lib`.

How to run, in this directory: `tlc -workers 2 -config MCRpmsgUses.cfg MCRpmsgUses.tla` checks a
run, `tlapm RpmsgLite_proofs.tla` the proofs of a module.

## 1. Inventory

### 1.1 The parts of RPMsg-Lite

| Part | State | Operations | Talks to |
|---|---|---|---|
| virtqueue (`RL/virtio/virtqueue.c`) | avail and used ring with 16-bit indices in shared memory; one control block per core | fill, add buffer, get buffer, get available buffer, add consumed buffer | the other core's control block, through the rings only |
| message path (`RL/rpmsg_lite/rpmsg_lite.c`) | device lock, headers in the buffers | send, alloc_tx_buffer + send_nocopy, rx_callback (interrupt), release_rx_buffer | virtqueue, endpoint callbacks, platform_notify |
| rpmsg_queue (`rpmsg_queue.c`) | one queue of held messages per endpoint | rx_cb (interrupt), recv, recv_nocopy, nocopy_free, create, destroy | message path, environment queues |
| endpoint list (`rpmsg_lite.c`, `RL/common/llist.c`) | doubly linked list in the heap | create_ept, destroy_ept, lookup (interrupt) | message path |
| rpmsg_ns (`rpmsg_ns.c`) | one endpoint at a fixed address | bind, unbind, announce, rx_cb | endpoint list, send |
| initialisation and link-up (`rpmsg_lite.c`) | link_state | master_init, remote_init, deinit, tx_callback, wait_for_link_up | platform, environment |
| platform (`RL/rpmsg_lite/porting/platform/imxrt600_m33`, `imxrt600_hifi4`) | disable counter, interrupt line, platform lock | init, init_interrupt, enable, disable, notify, MU handler | MU driver |
| environment (`RL/rpmsg_lite/porting/environment`: FreeRTOS, XOS, bare metal) | event object, mutexes, queues, ISR table | lock, queue, event, wait for link | the operating system |
| MU driver (`devices/MIMXRT685S/drivers/fsl_mu.c`) | pending and enable bits | trigger, clear, enable | the other core |

Who calls whom: a sending task takes a free buffer out of one ring under the device lock, writes the
header and the payload outside the lock, publishes it on the other ring under the lock and triggers the
MU. On the other core the MU handler drains the ring and calls the endpoint's callback, which either
queues the message for a task (`RL_HOLD`) or has it given back at once (`RL_RELEASE`). A reading task
gives a held buffer back itself, under its own core's lock.

What is hard about it:

* the two cores share rings without a lock, and the writer checks nothing before it writes;
* the handler preempts the tasks of its core at any instruction and takes no lock;
* an MU trigger while the last one is pending is dropped, so one interrupt stands for many messages;
* polling with time-outs races the buffers that come back;
* indices travel in a header in shared memory from one call to a later one;
* initialisation opens an interrupt before the state its handler writes is reset, and the master
  announces itself exactly once.

What makes each part correct, in one line each: a vring loses, duplicates and overwrites no buffer and
is first-in first-out; the message path leaks no buffer on any path, delivers in order and wakes the
receiver; a queue never overflows and nobody writes a buffer that is being read; the endpoint list is
a set of addresses for the handler at every moment; the link is up only when the master is ready, and
comes up when both sides are.

### 1.2 Drivers and components on the Cortex-M33

| Part | State | Operations | Talks to |
|---|---|---|---|
| USART driver (`devices/MIMXRT685S/drivers/fsl_usart.c`) | transfer handle (states, sizes, ring buffer), enabled interrupts, receive level; hardware queues | send, receive, abort of both, `USART_TransferHandleIRQ` | the user's callback, from the handler |
| timer manager (`components/timer_manager`) | list of timers, counts of live ones, interval, hardware running or not | open, close, start, stop, match handler, timer task | hardware timer adapter, users' callbacks from its task |
| serial manager (`components/serial_manager`) | running and completed queue of writes, event counter, semaphore | write (blocking or not), cancel, transmit callback (interrupt), manager's task | port (`fsl_component_serial_port_uart.c`), adapter (`components/uart`), users' callbacks from its task |
| generic list (`components/lists`) | head, tail, size, links and owner | add tail, remove head, remove element, each in one critical section | its users |

What is hard about them:

* the USART calls read the enabled interrupts, disable them and enable what they read, and the handler
  comes in between; callbacks start the next transfer from the handler; the receive level follows the
  request;
* the timer list is walked with the interrupts enabled during every callback, and callbacks start, stop
  and close timers; the counts that turn the hardware off are kept by several contexts;
* a write passes from the caller to the interrupt, to the manager's task and to the callback, through two
  queues, and a cancel may meet it at any of those places.

What makes each correct, in one line each: bytes keep their order, only announced losses happen, transfers
end and no interrupt stays asserted unserved; a timer that is started calls back, and not before its time;
an accepted write is in exactly one place, is finished and called back once, and success means sent.

### 1.3 The rest of the repository

The request-and-response protocol of the audio examples
(`boards/mimxrt685audevk/dsp_examples`, Cortex-M33 task and DSP thread) is an example application; its
hazards are in PROJECT.json. `rpmsg_ns`, messaging and the log ring buffer are small clients of modelled
parts, or sequential. Not modelled besides: the other peripheral drivers (register configuration, or
transfer state machines of the same kind as the USART's), LED, button, codec and sensor components (bus
access), board and demo code, device headers, tools, documents, and the vendored libraries and kernels
(FreeRTOS, lwIP, mbed TLS, USB, FatFs, littlefs, emWin, LVGL, TF-M, MCUboot, eIQ, Wi-Fi and others), which
are separate projects.

## 2. Modules

| Module | What it is |
|---|---|
| `VringChannel` | abstract: two first-in first-out queues between two owners |
| `Virtqueue` | one vring with both control blocks, slot write and index increment apart |
| `MCVirtqueue` | instance for TLC, mapping `Virtqueue` -> `VringChannel` |
| `Virtqueue_proofs` | inductive invariant of `Virtqueue` and its consequences |
| `VirtqueueChannel_proofs` | `Virtqueue` implements `VringChannel`, step by step |
| `RpmsgLite` | senders, MU, interrupt handler, queues and readers in one direction |
| `MCRpmsgUses` | instance for TLC: the ways the API is used with contending tasks, in one run, with symmetry |
| `MCLinkedRpmsg` | `LinkUp` and `RpmsgLite` composed: tasks of a HiFi4 remote wait for the link and then send to the master; also a FreeRTOS remote over a restart |
| `RpmsgLite_proofs` | types, header indices, no unnoticed message; where each buffer is, what it carries and in which order |
| `EndpointTable` | abstract: a set of addresses |
| `Endpoints` | the linked list, store by store, against the handler's walk |
| `MCEndpoints` | instance for TLC, mapping `Endpoints` -> `EndpointTable` |
| `Endpoints_proofs` | the shape of the list between two stores; `Endpoints` implements `EndpointTable` |
| `LinkUp` | initialisation, the first kick, link_state, waiting, orderly restart |
| `LinkUp_proofs` | types, a link that means readiness, an answer that is true |
| `ByteChannel` | abstract: a channel of bytes that drops the oldest when full, the newest when announced, and promises nothing once broken |
| `Usart` | the transactional USART layer, task, handler and line; mapping to `ByteChannel` |
| `TimerManager` | timer list, match handler, timer task, callers |
| `MCTimer`, `TimerManager_proofs` | instance for TLC; types, the count of live timers, when the hardware runs, the list, the match value |
| `TimerAges` | `TimerManager` with the age of every timer as a history variable |
| `SerialManager` | write side of the serial manager over the UART port, the adapter and the generic list |
| `MCUsart`, `MCSerial` | instances for TLC |
| `Usart_proofs` | inductive invariant of `Usart`; `Usart` implements `ByteChannel` |
| `SerialManager_proofs` | inductive invariant of `SerialManager`: with either list when nobody cancels, with the doubly linked one when cancels are guarded |

How they fit together: `RpmsgLite` has the forward ring as a plain sequence. That is the queue of
`VringChannel`; the forward ring has one writer at a time (the sender's lock) and one reader (the
handler), which is the discipline `Virtqueue` assumes and under which it is shown to implement
`VringChannel`. The back ring has two kinds of writer on the receiving core, so `RpmsgLite` keeps its
slots and indices. `SerialManager` takes the byte level (`HAL_UartInterruptHandle`, one byte per
interrupt) into itself; the ring and the queues of the USART driver below it in transfer mode are those of
`Usart`. `RpmsgLite` starts where `LinkUp` ends (rings filled, link up); `MCLinkedRpmsg` puts the two together: a send
is accepted only while `link_state` is 1 (`rpmsg_lite.c:642`), by tasks that were told so. `RpmsgLite` takes the
set of endpoints as given; `Endpoints` shows what the lookup in the handler may rely on.

### 2.1 Virtqueue

State: `availRing/availIdx`, `usedRing/usedIdx` (shared memory), `vq_used_cons_idx` (master's reader),
`vq_available_idx` (remote's reader), `vq_desc_head_idx` (fill), and per core the descriptors its
callers hold, the one between slot write and publication, and whether the reader has passed its test for
an empty ring. Every access to a shared index is a step of its own: `AddBuffer` / `PublishAvail` are
the two halves of `vq_ring_update_avail`, `GetBufferTest` / `GetBuffer` those of
`virtqueue_get_buffer`, and the same on the remote's side. `masterSends` says which of the two vrings
of a link it is; the fill differs.

Abstracted: the descriptor table (a descriptor is its index; address and length never change after the
fill), `vq_queued_cnt` and the flags (nothing ever enables the event index or suppresses a notification,
so every kick notifies). `idx & (n - 1)` is `idx % N`, equal for powers of two; the proofs need only
that N divides the index width. Indices wrap at `IdxMod`, 2^16 in the code.

### 2.2 RpmsgLite

One direction; either core may be the sender, the code of both roles makes the same steps. `Alloc`,
`Poll`, `Fill`, `Tx`, `Kick` are the sections of `rpmsg_lite_format_message` between two points where
another context can interfere (with `nocopy`, of `alloc_tx_buffer` and `send_nocopy`); `IsrEnter`,
`IsrRx`, `IsrHold` / `IsrRelease`, `IsrEmpty`, `IsrExit` are the MU handler with
`rpmsg_lite_rx_callback`; `QueueRecv`, `Release`, `ReleasePublish` are a task in `rpmsg_queue_recv` (copy
or not) and `rpmsg_lite_release_rx_buffer`. Tasks of the receiving core step only while the handler is
not running. `gir` is the pending request of the MU. A payload is a number per sender and address,
counted modulo `SeqMod`, which is larger than the number of buffers.

Assumed of the code's environment: the defaults of `rpmsg_config.h` (no notification of consumed
buffers, buffers not cleared, dynamic API, no environment context); the increment `idx++` of a ring index is
one step; a clearing of the MU flag at one side and a trigger at the other are atomic and ordered
(external, hardware); memory is sequentially consistent: the ring accesses are volatile and the DSP
bypasses its cache for the shared memory.

### 2.3 Endpoints

A cell stands for an endpoint and its list node. `Create`, `Allocate`, `AddToFront` /
`AddToEmpty` + `ClearPointers`, `CreateReturns` are `rpmsg_lite_create_ept`; `Destroy`, `Remove`, `Free`
are `rpmsg_lite_destroy_ept`. The handler runs to its end between two steps of the tasks and only reads,
so it is not an action: `Walk` and `Lookup` say what it reads in each state. Stores it cannot observe
(to an unlinked node, to `prev`) are joined with the store it can. An allocation may fail; a block that it returns
holds in `next` whatever was there before, a node freed earlier or no pointer at all (`Junk`), and `Walk` follows it as
the code does. That matters in one place: `add_to_list` makes the first node the head (`llist.c:75`) before it clears
the pointers (76-77). Between the two stores (`Unfinished`) a message for any address but that of the new endpoint
makes the handler follow the old content, into freed memory. `NeverFreed` says that this is the only case. A caller
does not destroy an endpoint twice.

### 2.4 LinkUp

`MasterInit` and `MasterKick` are the two observable ends of `rpmsg_lite_master_init`; `EnvInit` and
`RemoteInitStep` run the list `InitSteps`, the interrupt-related calls of `rpmsg_lite_remote_init` in their
order; `IrqHandler` is `rpmsg_lite_tx_callback` with the environment's `env_tx_callback` (set by the timer
task under FreeRTOS: `DeferredSet`); `ClearEvent`, `CheckLink`, `WaitEvent`, `TimeOut` are
`env_wait_for_link_up`. Constants choose the environment and the remote's platform: the Cortex-M33 opens
its line in `platform_init` and counts how often it was disabled, the HiFi4 leaves its line closed until
the first `platform_interrupt_enable` and open after it.

Assumed: an application stops both sides before either starts again, and neither stops the link under a
task that still waits or under the timer task; `xEventGroupSetBitsFromISR` finds room in the timer queue;
one instance (the highest link id of this part is 0).

### 2.5 Usart

The hardware (external): `Arrive` brings a byte of the line into the receive queue or notes the overflow,
`Shift` and `ByteOut` are the transmitter, `Pending` says whether an enabled interrupt is asserted. Received
bytes are numbered modulo `SeqMod`; a byte to send is its place in the request. The handler is `IrqEnter`
(the locals `receiveEnabled` and `sendEnabled`, the receive error), `IrqIterate` (one turn of the loop:
`ByteToUser` or `ByteToRing`, then a byte out) and `IrqLeave` (idle report, receive level). A callback may
start the next transfer there, as the drivers above do. The calls of the task are `Send` or `Receive` (checks
and the reading of the enabled interrupts), `DisableInterrupts`, `SendStore` or `ReceiveStore`,
`EnableInterrupts`; the aborts are `AbortSend`, `EndSend` and `AbortReceive`, `EmptyReceive`, `EndReceive`. The
task steps only when no enabled interrupt is asserted.

Sends and receives overlap freely, as in `fsl_usart_freertos.c` (two semaphores, one handle, a ring) and in the
interrupt transfer example (no ring). The four rules that remain (section "Rules" of the module, in force when `Careful` is
TRUE, as in the runs) concern aborts with a ring, a first request no longer than the watermark, and calls from a
callback; the header states none of them. What goes wrong without the first, the second and a
long request from the overrun callback is described under the hazards.

A call reads the enabled interrupts, disables them and enables later what it read, and the handler may come between the
reading and the disabling. What it turns off there (`TurnOff`) the call turns on again: RXLVL or TXLVL with nobody to serve
the queue, or TXIDLE, which reports a send a second time. The history variable `stale` remembers that it happened.
It restricts nothing: all steps after it are in the model. Three promises are stated with it. `NoStorm` is
`stale \/ Served`, where `Served` says that a level interrupt is enabled only when the handler will serve it; the run
`usart_storm` shows `Served` violated. `TxIdleMeansSent` and the refinement of `ByteChannel` (`broken <- stale`) hold until a
mask is stale. `WireInOrder` and `SendCompletes` hold in a storm as well. TXIDLE turned on by the handler
between the reading and the disabling is not disabled by the call, so the handler may enter amid the stores, or amid the
copy out of the ring; those are one step here, and `stale` holds then.

### 2.6 TimerManager

The RTOS form (OSA_USED). Low-power and other timers are counted together, as every test of the two counts
does. `Open`, `Stop`, `Close` and `Start` with `Enable` are the calls of a user task or of a callback (one call
per callback; `TM_Start` is cut after its `TM_Stop`, which notifies the task). `UpdateSync` is
`TimersUpdateSyncTask`, `Match` the hardware's callback. The task is `Wait`, one `Visit...` or `Expire` per
element of the list, `CallbackReturns`, `WalkEnds`, `Program`, `StoreRunning`. The walk masks the interrupts,
except for a callback. `Tick` is the hardware timer (external): it takes time only while the task waits or a
callback runs; a match value of 0, which the adapter refuses after a reset of the module, never matches.
A timeout may be longer than the hardware can count (`MaxTimeout`): the task programs a part of it.

`TM_Open` writes the link of a timer only when the list is not empty, and `TM_Close` leaves it. The model keeps that
link (`LinkOf`). A handle that is closed and opened again as it is can therefore put a closed timer, or a cycle, into the list,
which is then walked with the interrupts masked. With `Cleared` TRUE, as in the runs, callers clear a handle before they open
it again; the header does not ask for it, and the button component does not do it. `ListWhole` and `HardwareCovers`
need it; types, the counts and `HardwareOn` do not.

### 2.7 SerialManager

Operators on a record of lists are the generic list, with both forms of `LIST_RemoveElement` (`Light`). A
caller's program counter walks through `Write`, `StartWriting`, `UartWrite`, `UartSend`, `Written` and, in a
blocking write, `Poll`; or through `Cancel` and either `Complete`, `Notify` (a queued write) or `ClearBusy`,
`Abort`, `TxCallback`, `Remove`, `Finish` (the write being sent), then `StartWriting` again. `SendByte` and `SendLast` are
the interrupt: the last byte finishes the head of the running queue, starts the next and hands the finished one
over, at once. The manager's task is `Wake`, `NextCompleted`, `Take`, `Report`, `Reported`, `Drained`; during its
callback it may write as a caller of its own.

Assumed: the manager's task preempts the callers (its priority, 2, is a default), `SERIAL_MANAGER_TASK_HANDLE_TX`
is 0, a handle is used in one mode, and callbacks write only without blocking; they do not cancel.

`Cancels` says how user tasks call `SerialManager_CancelWriting`. "none": they do not. "any": whenever they like, which is
all the header asks for. "guarded": with the interrupts masked around the call, and not while another task is inside a write,
past its critical section. A mask held by the caller lasts through the call: the `DisableGlobalIRQ` / `EnableGlobalIRQ` pairs
inside restore the mask they found (`serial_manager.c:1696` among them). With "any", PortInStep, SuccessMeansSent and
the status of a refused write all fail, in the ways the hazards describe; the run `serial_cut` shows the one
that contradicts the header, a blocking write that returns success although it was cut.

## 3. Runs

| Run | Question | Answer |
|---|---|---|
| `virtqueue` | do the rings lose, mix up or overwrite a buffer? | no; they implement the channel |
| `rpmsg_uses` | two senders and a reader, two readers and a sender, releasing endpoints and unknown addresses | no leak, in order, held buffers untouched, queue never full, always a wake-up on the way |
| `rpmsg_mixed` | a queue endpoint and a releasing one on one core | **buffer lost** (finding) |
| `endpoints` | two tasks change the list under the handler | every owned endpoint found, a set of addresses, freed memory read in one case only (the first node, unfinished) |
| `linked` | first initialisation of a HiFi4 in any order, then sends; a FreeRTOS remote over an orderly restart | the kick is not lost, answers are true, the wait returns, no stale kick; everything sent arrives and comes back, under the fairness below, for a queue and for an endpoint that the handler releases, one after the other |
| `usart` | overlapping sends and receives, aborts, against the handler and the line | bytes in order and sends finished, always; announced losses only, true reports, receives that end and no storm, until a mask is stale |
| `usart_storm` | is a level interrupt ever enabled that nobody serves? | **yes**, by a stale mask (finding) |
| `timer` | calls and callbacks change two timers while the task walks | no timer forgotten, the hardware always covers the next expiry |
| `timer_early` | does a callback come before its time? | **yes** (finding) |
| `serial` | two tasks write and cancel, guarded, and callbacks write; list in its full form | every write in one place, ends, and success means sent |
| `serial_list` | one task, list in its default form | **element linked behind a removed one** (finding) |
| `serial_cut` | cancels as the header allows them, next to a blocking write; default form | **cut write returns success** (finding) |

Bounds, and why they are enough to meet the interesting cases:

* `virtqueue`: 3 descriptors, indices modulo 6. Each index wraps, a ring is full and empty at every
  offset of the slots, both readers and writers are caught half-way at once. Both vrings are checked.
* `rpmsg_*`: 2 buffers (the smallest count at which one is in flight while another is queued; the code
  requires a power of two), indices modulo 4, numbers modulo 3 (more than buffers in circulation, so a
  lost, doubled or overtaken message shows). Two senders or two readers are the smallest number that
  contend for a lock; `MCRpmsgUses` chooses the use at the start, by a variable that never changes. Time-outs of 0, 2 turns of the polling loop, and RL_BLOCK take every branch. Symmetry
  only over tasks, and only in `rpmsg_uses`, which has no liveness property.
* `endpoints`: 4 cells and 3 addresses: a list of 3 has a first, a middle and a last node to remove
  while another node is being freed or made. Symmetry over tasks and cells.
* `linked`: one waiter, which is the sender, one reader and two buffers; one round is a first initialisation, two rounds a
  restart. Messages are sent in the one-round system only, since a link is not taken down under traffic.
* `usart`: a receive queue of 2, a send queue of 1 and a ring of 2 (1 usable): all of them get full and empty,
  the ring wraps, requests are smaller and larger than ring and watermark and larger than the queues. Bytes are numbered modulo
  2: with the refinement to `ByteChannel` a swap or a repetition of neighbours shows. `usart_storm` has one byte of each.
* `timer`: 2 timers, timeouts of 2 and 3 ticks, hardware that counts to 2 (`timer_early`: to 3), a semaphore that is full
  at 2: timers expire together, apart, and while the other is being started, one is longer than the hardware can count,
  and posts are dropped.
* `serial`: 3 handles, one blocking: a write being sent, one queued and one completed at once, so that a
  removal has a first, a middle and a last element; writes of 2 bytes, so that a cancel cuts one. Callbacks
  write while fewer than `MaxEvents` events are unserved. `serial_cut`: one task that writes blocking (`Polling`) and one that
  writes and cancels.

`CHECK_DEADLOCK FALSE` in `linked` only: after the last round of the restart, with every task answered, the system
is meant to be quiet.

The properties, module by module, are defined and commented at the end of each module. The ones that
carry most: `OneOwner`, `NoneLost`, `NoOverrun`, `ImplementsChannel` (vring); `OnePlace` (a descriptor is in
exactly one place of sender, ring, handler, queue, reader, ring back), `Untouched`, `HeaderIndex`,
`InOrder`, `QueueNeverFull`, `NoLostWakeup` (message path); `EndpointFound`, `NeverFreed`, `ReadsBackwards`,
`ImplementsTable` (endpoints); `LinkMeansReady`, `AnswerTrue`, `LinkComes` (for the HiFi4: `AnswerTrueHifi4`, `LinkComesHifi4`), `WaitReturns` (link-up);
`ImplementsByteChannel`, `WireInOrder`, `NoStorm`, `ReceiveCompletes` (USART); `HardwareOn`, `HardwareCovers`,
`TimerFires` (timers); `Placed`, `SuccessMeansSent`, `EveryWriteEnds` (serial manager).

### 3.1 Fairness

* `RpmsgLite!Fairness`: a pending interrupt is taken and its handler runs to the end (interrupts are
  enabled outside short critical sections); a task inside a send goes on (the scheduler runs it, the
  polling loop sleeps and returns); reading tasks keep reading, as the loops around `rpmsg_queue_recv` do.
  Nobody has to send. All weak: the run `linked` has one sender and one reader, so no lock is contended.
* `LinkUp!FairSpec`: a core that has begun to initialise goes on, a pending interrupt with an open line
  is taken, the timer task runs, a task inside the wait goes on. Nobody has to start, stop or call.

* `Usart!FairSpec`: the transmitter and the handler go on (weak); a task inside a call gets on between
  interrupts (strong: the handler interrupts it again and again). Nothing is assumed of the line or of who calls.
* `TimerManager!FairSpec`: time passes while everything waits (strong: work comes in between), the match
  handler runs (weak), the timer task and a started call go on (strong: both are held up by interrupts and
  by each other). Nobody has to start, stop or close.
* `SerialManager!FairSpec`: the transmit interrupt, which stays pending while masked, is taken and the user
  tasks, which share a priority, get their turns (strong); the manager's task, the highest, runs (weak).
  `EveryWriteEnds` is conditional for a blocking write: callbacks that write for ever may take the processor from the user tasks.

### 3.2 What the violations say

* `rpmsg_mixed`. The handler gives a buffer back through the same ring a task is giving one back through,
  and the device lock does not exclude it. If the interrupt falls between the task's slot write and its
  increment, one buffer is lost for ever and a stale slot is published. A core whose endpoints are all
  queues, or all releasing, is safe (`rpmsg_uses`); `rpmsg_ns_bind` next to a queue
  endpoint is not.
* `timer_early`. `TM_Stop` and `TimerEnable` subtract the elapsed count from every active timer, and the
  hardware goes on counting from where it was unless the shortest interval changes. `TM_Start` does both, so each
  start of one timer takes the same elapsed time off the others twice, and the match handler takes it off
  again.
* `usart_storm`. A task starts a send while a receive without a ring is under way. It reads the mask {RXLVL}; the last
  byte of the receive arrives; the handler takes it and turns RXLVL off; the send stores its request and turns it on
  again. `rxDataSize` is 0, so the handler reads nothing, and from the next byte above the watermark on it is entered for
  ever. The comment at `fsl_usart.c:832-833` says that the interrupts are disabled so that none disturbs the call;
  the mask is read before that.
* `serial_list`. The light form of `LIST_RemoveElement`, the default, leaves `list->tail` on a removed last
  element; `LIST_AddTail` links the next one behind it. A write is accepted, never sent and never called back.
  The same list serves messaging and the OS abstraction.
* `serial_cut`. The test for the head of the running queue (`serial_manager.c:1684`) and the abort of the port are two steps. The
  interrupt finishes the head in between and starts the next write, a blocking one; the abort cuts that one, the
  transmit callback reports its whole length, and the blocking call returns success.

Some hazards fail and have a constant that shows it, not a run. `Cleared` FALSE breaks `ListWhole` (open t1, open t2, close t2,
close t1, open t2, open t1: a cycle). The unfinished first node of `Endpoints` is in the statement of `NeverFreed`. With two FreeRTOS tasks that wait for one link,
`env_wait_for_link_up` of the second clears the event on which the first is about to sleep. A HiFi4
that is initialised a second time, its line left open by `platform_deinit`, may take a kick before
`link_state = 0`, which wipes it out (the Cortex-M33 as remote has its line open from `platform_init` on). The
constants of `LinkUp` (`Waiters`, `MaxRounds`) show both.

## 4. Proofs

`tlapm` checks every theorem for every value of the constants that satisfies the module's assumption.

| Theorem | States |
|---|---|
| `Virtqueue_proofs!TypeCorrect` | `Spec => []TypeOK` |
| `Virtqueue_proofs!NeverShared`, `NeverLost`, `NeverOverrun` | `[]OneOwner`, `[]NoneLost`, `[]NoOverrun` |
| `VirtqueueChannel_proofs!RefinesChannel` | `Spec => ImplementsChannel` (refinement of `VringChannel`) |
| `RpmsgLite_proofs!TypeCorrect`, `HeaderIndexCorrect` | `[]TypeOK`, `[]HeaderIndex` |
| `RpmsgLite_proofs!NeverUnnoticed` | `[]NoLostWakeup` |
| `RpmsgLite_proofs!NeverLeaked`, `NeverOverwritten`, `QueueHasRoom`, `InSequence` | `[]OnePlace`, `[]Untouched`, `[]QueueNeverFull`, `[]InOrder`, when the back ring has one kind of writer |
| `LinkUp_proofs!TypeCorrect`, `LinkReady` | `[]TypeOK`; `[]LinkMeansReady` when tasks wait with RL_BLOCK |
| `LinkUp_proofs!AnswersTrue` | `[]AnswerTrue` on the HiFi4 (its line is closed after a reset), initialised once (`MaxRounds` = 1) |
| `Endpoints_proofs!NeverHidden`, `NeverStale`, `LinkedBothWays` | `[]EndpointFound`, `[]NeverFreed` (the unfinished first node excepted, in the statement), `[]ReadsBackwards` |
| `Endpoints_proofs!RefinesTable` | `Spec => ImplementsTable` (refinement of `EndpointTable`) |
| `Usart_proofs!TypeCorrect`, `StormFree`, `SentWhenReported`, `WireOrdered` | `[]TypeInv` (types, in the proof module), `[]NoStorm`, `[]TxIdleMeansSent`, the action property `WireInOrder`; rules of `Careful` |
| `Usart_proofs!RefinesChannel` | `Spec => ImplementsByteChannel` (refinement of `ByteChannel`); rules of `Careful` |
| `TimerManager_proofs!TypeCorrect`, `CountsCorrect` | `[]TypeOK`, `[]CountsMatch` |
| `TimerManager_proofs!ListCorrect` | `[]ListWhole` when callers clear a handle before they open it again (`Cleared`) |
| `TimerManager_proofs!HardwareSwitched`, `MatchInTime` | `[]HardwareOn`, `[]HardwareCovers` when the callers do not preempt the timer task; the second with `Cleared` |
| `SerialManager_proofs!TypeCorrect`, `ListsWhole`, `WritesPlaced` | `[]TypeInv` (types and reachable steps, in the proof module), `[]QueuesWhole`, `[]Placed`; under `Rule` |
| `SerialManager_proofs!PortFollowsQueue`, `SuccessWasSent` | `[]PortInStep`, `[]SuccessMeansSent`; under `Rule` |

`Rule` is: nobody cancels, with either form of the list, the default included; or cancels are guarded and the list is doubly
linked (`GENERIC_LIST_LIGHT` 0). The two ways in which it can be broken are the runs `serial_list` (cancels with the default list)
and `serial_cut` (cancels without a guard). The rules of `Careful` are those of section 2.5; overlapping sends and receives are
not among the cases they exclude.

*Virtqueue* (assumption: N divides IdxMod, IdxMod >= 2N). The inductive invariant `IInv` adds to
`OneOwner` and `NoneLost` a count (`Counted`: entries in flight and descriptors held sum to the number
filled), the contents of the slot being published (`SlotWritten`), that a reader past its test has
something to read (`ReaderHasEntry`), and that nobody works during the fill (`FillAlone`). Neither
property is inductive alone: that a writer does not overwrite an unread slot follows only from the count,
because the code checks nothing; and the count needs disjointness. The arithmetic lemmas say how the window
of pending indices moves modulo IdxMod and that N consecutive indices have different slots.

*The vring as a channel.* A queue of `VringChannel` is the ring read from its reader's index up to its
writer's. A publication appends the slot just written (`SlotWritten`), a read takes the head, and every other
step leaves both queues as they are: the slot write is beyond the index, and by `NoOverrun` it is in no
pending slot. The positions of the queue are indices modulo IdxMod, which is where that N divides IdxMod is
needed a second time. The buffers that `rpmsg_lite_master_init` has still to fill count as being on their way
(`StillToFill`), so that each step of the fill maps to a stutter.

*RpmsgLite* (assumption: `RpmsgAssumption`). `IInv` is types, what each context holds at each of its steps
(`Hands`), `HeaderIndex` and mutual exclusion of the locks (`Locks`). `HeaderIndex` is what makes the ring
entries written by `send_nocopy` and `release_rx_buffer` descriptors at all, so types and it are proved
together. `NoLostWakeup` is inductive on its own: the handler clears the request before it looks at the ring,
and every sender that has published has its kick to come.

`BInv` is what the back ring needs: each buffer is in exactly one of six places (a sender's hand, the
forward ring, the handler's hand, a queue, a reader's hand, the back ring: `Partition`), contexts hold different
buffers (`Apart`, `InHand`), and a slot that is being published has its entry (`SlotWritten`). Room in the
back ring and in the queues is the pigeonhole principle on the places; the code tests for the second
only and asserts. `Kept` and `Chained` follow the contents: what a place holds is what its sender wrote, and the
sequence numbers of a sender increase by one along what the reader has seen, the queue, the handler and the
forward ring. All four theorems assume `OneWriter`: no reading tasks, or only queue endpoints on the core. With both, the
handler and a task write the back ring's slot at the same time, which is the run `rpmsg_mixed`.

*LinkUp*. `TypeCorrect` includes that the disable counter equals the masks not undone, which the code
asserts. `LinkReady` needs that the rounds of both sides agree, that a pending kick or deferred event
belongs to the current round, and that a task has an answer only after the kick was taken; with time-outs a
task may give up, the link be restarted and the old kick arrive, so the theorem assumes RL_BLOCK.
`AnswersTrue` needs no such assumption, but one about the line: when it is closed until `env_init`
has finished, no kick is taken before `link_state = 0`, and then the flag is only ever raised in a round. A
task that has read the flag and not yet answered is the case to follow.

*Endpoints*. `Listing` is the heart of `EInv`: there is a sequence of cells, from the head, in which each cell
is the `prev` of its `next`; its cells are the application's endpoints and the one that the task with the lock is
about to add or has not yet unlinked. The stores of `llist.c` come one by one, so `EInv` says where the
memory's old content is still in a link (the last `next` is NULL, or anything while a task is between `AddToEmpty` and
`ClearPointers`, and then the list is that one cell: `Alone`) and what the task with the lock has read so far
(`Locked`, `Held`). The set of the refinement changes in the one store that links or unlinks the cell.

*TimerManager* (assumption: `TimerAssumption`). In the theorems on types, counts and `HardwareOn` the list stays opaque: they do not
depend on who is in it. `TInv` is types, `CountsMatch` and `Within` (the hardware's count is below its match
value; a timer is in hand during a callback): types need `CountsMatch`, since `TimerStop` subtracts one without a
test, and the other way round. `Switch`, for `HardwareOn`, says when `timerHardwareIsRunning` tells the truth
(everywhere but between `Program` and `StoreRunning`), that the task programs the hardware only for a live timer,
and that a live timer with the hardware off has left a post or has the task at work. `Listing` is the sequence of
the open timers that a walk from the head meets. `CInv`, for `HardwareCovers`, puts a walk of the task into
the invariant: as long as nothing is posted, each timer it has met is covered by the interval it has found so
far (`Walked`), the interval is what gets programmed (`Programmed`), and a half-done `TM_Start` leaves its timer
idle (`Calls`). A caller that preempts the task in between breaks `HardwareOn` and `HardwareCovers`, so these two theorems
assume `Preempting` FALSE, as does the run. `Listing` is kept because an opened timer's old link is cleared (`Cleared`). `TypeOK` is proved here and not in the run.

*Usart* (assumption `UsartAssumption`). `IInv` has six parts: types; what a call may rely on while it has the
interrupts masked (`CallInv`); that the sizes, the states and the local variables of the handler fit
together (`StateInv`); what is on the wire, in the transmit queue and still in the request (`WireInv`); that
a receive waits for bytes from the line only when the ring has none (`RingInv`); and, unless a mask is stale, that
every enabled interrupt, and every one in a mask, has something to do and none enters amid the stores of a receive
(`FreshInv`). All but the last hold in a storm, which is why `WireOrdered` needs no `stale`. The subtractions of the driver have
no test, so types rest on `StateInv`. The refinement has one case per way a byte can be lost; a step after which a mask is stale
maps to `Break`.

*SerialManager* (assumption `SerialAssumption`). `IInv` gives for each queue the sequence that is linked both
ways, and then who is where: only one context starts the port (`OneStarter`), a cancel has the processor for
itself (`Alone`, from the mask that a guarded cancel holds and the wait for writes being started; nothing is to show when
nobody cancels), the
port's transfer is the head of the running queue but between an abort or a write and the next start (`PortIs`),
what is reported was sent (`SentIs`), what the manager's task takes is the write it has looked at, and a write
is in a queue or in somebody's hands (`TakenIs`, `PlaceIs`). `TypeCorrect` says besides that the steps which
stand for a failed assertion or a refused write are not reached under `Rule`.

*Walks of lists.* Endpoints, timers and writes are met by recursive functions over the heap, which a proof cannot
unfold for every length by an induction rule that takes a predicate. The proofs go round it: the
invariant asserts that a sequence exists, each action exhibits the new one (appended, or with one cell cut
out), and one lemma says that a walk equals the sequence it is given. Its induction is over a *set* of
naturals (`SetInduction`: a set of naturals with 0 and closed under successor is all of them), which follows from
the least element that `WellFoundedInduction` provides.

Only model-checked: liveness (`BufferReturns`, `SendReturns`, `LinkComesHifi4`, `WaitReturns`, `SendCompletes`,
`ReceiveCompletes`, `TimerFires`, `EveryWriteEnds`), since the prover handles neither fairness nor ENABLED; and what
the five violation runs show (`rpmsg_mixed`, `usart_storm`, `timer_early`, `serial_list`, `serial_cut`).

## 5. Not modelled, in the parts that are

* `rpmsg_queue_destroy` with messages in the queue, `rpmsg_ns`, deinitialisation under traffic.
* `env_init` counting its callers, the platform lock, several link ids, the MCMGR variant of the handler.
* The read barrier after the slot read in `virtqueue_get_available_buffer`, and memory ordering in general.
* `RL_CLEAR_USED_BUFFERS`, `RL_ALLOW_CONSUMED_BUFFERS_NOTIFICATION`, the static API.
* USART: `USART_TransferStartRingBuffer` and `USART_TransferStopRingBuffer` at run time; transmit, noise, framing
  and parity errors (the last three empty the queue as the receive error does); the blocking functions.
* Timer manager: `TM_Deinit`, low power and tickless operation (`TM_ExitTickless` walks the list with the
  interrupts masked), the form without an operating system, minutes and seconds.
* Serial manager: opening and closing of handles, deinitialisation, the reading side, the other ports, the form
  without an operating system (which runs the manager's task inside the interrupt), low-power hooks.

## 6. Plan

The modules of section 2 are done and every invariant and refinement of the runs is a theorem. Left, in this order:

1. What holds without the assumptions of the theorems: the parts of `SerialManager` that survive cancels
   without a guard, those of `Usart` that survive an abort with a ring, `HardwareCovers` for callers that preempt the timer task, up to the post they leave.
2. Abstract specifications of the timer manager (a set of deadlines) and of the serial manager (a queue of writes), with
   the refinements, and the composition of `RpmsgLite`'s forward ring with `VringChannel`.
3. `rpmsg_ns` as a client of `Endpoints`.
4. `SerialManager`: the reading side with its ring buffer; closing of handles.
5. `Usart`: taking the ring down at run time.
