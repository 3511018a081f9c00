# CANTS-MCU: TLA+ models of the CAN-TS server and its kernel

This directory holds TLA+ models of the CAN-TS server firmware of this
repository and of the FreeRTOS kernel it brings along, the TLC configurations
that check them on small instances, and theorems about them checked by TLAPS.
`PROJECT.json` lists every run, mutant, mapped definition, finding, hazard and
theorem. Paths below are relative to the repository's own `src/` directory.

1. [The system](#1-the-system)
2. [Plan](#2-plan)
3. [The modules](#3-the-modules)
4. [Runs and bounds](#4-runs-and-bounds)
5. [Fairness](#5-fairness)
6. [Proofs](#6-proofs)
7. [Where the code and its comments part](#7-where-the-code-and-its-comments-part)
8. [What is not modelled](#8-what-is-not-modelled)

## 1. The system

The firmware answers CAN-TS requests on a redundant CAN bus. It runs on FreeRTOS
with static allocation only; every component is a task, an interrupt handler or
a passive helper.

| Component | Code | State it keeps | Operations | Correct means |
| :-- | :-- | :-- | :-- | :-- |
| CAN driver | `candrv.c` | `current_ctrl`, `can_send_queue` (16 frames) | `cants_send_msg`, `can_int_handler`, `candrv_set_bus`, `candrv_init_ctrl` | an accepted frame is sent once, in order, and not left behind |
| CAN controllers | `can/can.c` | registers: transmit buffer, receive FIFO, interrupt flags, filter, bit timing | send, receive, status, reset, filter, baud rate | frames arrive with the fields they were sent with; an exact bit rate is found |
| Dispatcher | `cants/cants.c` | `dispatcher_queue` (64) | `cants_dispatch_isr`, `cants_dispatcher` | each frame is served once or nacked, never both |
| Set Block task | `cants/block.c` | `sb_sessions` (2), `setblock_queue` (64), local `timeout`, `tindex` | request, abort, status, transfer, timeout, next-timeout search | what is reported done is in memory; sessions are unique, expire on time and not early |
| Get Block task | `cants/block.c` | `gb_sessions` (2), `getblock_queue` (5), local `timeout`, `tindex` | request, abort, start, burst, timeout, next-timeout search | exactly the marked blocks are sent, at the right pace |
| TC and TM tasks | `cants/tctm.c` | `tc_queue`, `tm_queue` (5), `utm_ch`, keep-alive timer | telecommand, telemetry, keep-alive | commands run in order and are acknowledged truthfully; keep-alives come every period |
| Redundancy task | `protocol/redundancy.c` | `misses`, `switches`, `bus`, a task notification | keep-alive heard, period elapsed | the bus is switched after missed keep-alives only, a bounded number of times |
| Block memory | `protocol/block_handler.c` | `data[256]` | validate, write, read | no access outside `data` |
| Identifier conversion | `cants/utils.c` | none | parse, construct | the two are inverse |
| Scheduler | `FreeRTOS/tasks.c` | tick count, ready, delayed and suspended lists, control blocks, lock count | tasks, delays, priorities, suspension, notifications, ticks | the most important ready task runs; blocked tasks wake in time |
| Queues | `FreeRTOS/queue.c` | storage, message and lock counts, mutex holder, event lists | send, receive, peek, semaphores, mutexes, sets, from tasks and interrupts | bounded FIFOs; no wake-up is lost; priorities are inherited |
| Kernel lists | `FreeRTOS/list.c` | rings of items with a walk | insert, insert at end, remove, next | a sorted sequence |
| Software timers | `FreeRTOS/timers.c` | two lists of timers, command queue | start, stop, change of period, expiry | no timer runs early, none that is due is slept through |
| Co-routines | `FreeRTOS/croutine.c`, `queue.c` | ready, delayed and pending lists | scheduler, delay, queue calls | in one list each, delays end at their tick |
| Heaps | `FreeRTOS/portable/MemMang/` | free list, block sizes, counters | allocate, free | blocks do not overlap, no byte is lost |
| Kernel port | `FreeRTOS/portable/GCC/PicoSkyFT/` | the registers of the running task, stacks | yield, tick, critical sections, first switch | a task finds its registers as it left them |

How they interact:

- The CAN interrupt handler moves received frames to `dispatcher_queue` and
  feeds the transmit buffer from `can_send_queue`.
- The dispatcher moves each frame to the queue of the task that serves its type
  and answers a nack itself when that queue is full.
- The block, TC and TM tasks answer through `cants_send_msg`, which writes the
  transmit buffer or `can_send_queue` inside a critical section.
- The redundancy task is notified by the dispatcher whenever a keep-alive of the
  master arrives, and redirects `current_ctrl` after missed periods.
- The Set Block task (priority 2) and the Get Block task (priority 1) share
  `data[256]`.
- Every queue is one of the kernel's: a task that finds it empty or full hangs
  itself on an event list and a delayed list under the scheduler's lock, while
  interrupts go on and leave their work in lock counts, pended ticks and a
  pending list.

What is hard: the transmit buffer is written from tasks and from the interrupt
handler while the controller empties it; two controllers share one queue; a
blocked sender sits inside a critical section; the block tasks multiplex several
session timers on one queue block time; slots and their buffers are reused while
a delegated write may still hold pointers into them; queues fill up; the kernel
is interrupted between its steps; tick counts wrap. The "hazards" of
`PROJECT.json` list these line by line, each with the properties that would
catch it going wrong.

## 2. Plan

In the order of what matters most to the users of the node.

| | Module | Covers | State |
| :-- | :-- | :-- | :-- |
| 1 | `SetBlock`, `SetBlockService`, `SetBlock_proofs` | the Set Block task, what it promises, theorems | done |
| 2 | `CanDriver`, `TxChannel`, `CanDriver_proofs` | the driver; a FIFO channel as its abstract specification, theorems | done |
| 3 | `GetBlock`, `GetBlockService`, `GetBlock_proofs` | the Get Block task and what it promises, theorems | done |
| 4 | `Dispatcher` | dispatcher and TC task | done |
| 5 | `Telemetry` | keep-alive period, channels, the loop that looks for a valid one | done |
| 6 | `Redundancy` | missed periods, bounded switches, the master's side | done |
| 7 | `CanFrame`, `Node_proofs` | identifiers, registers, acceptance filter, bit timing; theorems about 4 to 7 | done |
| 8 | `Lists`, `Tasks`, `TaskCalls`, `Queues`, `Kernel`, `Kernel_proofs`, `KernelTime_proofs` | the kernel, with interrupts between its steps; `MessageQueue` as its abstract queue; the invariants of its lists and of its delays, with proof | done |
| 9 | `ListRing`, `ListService` | the pointers of the lists, which implement `Lists` | done |
| 10 | `Timers`, `CoRoutines`, `Heap`, `Context`, `Portable_proofs` | the parts of the kernel that can be configured in, and the port, with theorems about the co-routines, the heaps and the port | done |
| 11 | `Rows` | lemmas about the lists of the kernel that the proofs of several modules use | done |

Every safety property and every refinement of modules 1 to 7, the soundness of
the kernel's lists, the end of its delays, and the properties of the co-routines,
the heaps and the port are proved; section 6 says what is left to TLC and why.

Open models: two servers that answer each other's nacks; preemption inside the
copy of a block.

## 3. The modules

### SetBlock (`cants/block.c`, `protocol/block_handler.c`)

`sessions` is `sb_sessions`; `wait`, `tindex` are the task's locals `timeout`,
`tindex`. The task has two control points. At `"recv"` it is blocked in
`xQueueReceive`: every frame handler (`Request`, `Abort`, `Status`, `Transfer`,
`OtherFrame`, `Mismatch`) and `ReceiveTimeout` start here and model one pass
through the `switch`, up to the answer and the timeout reset after it. At
`"scan"` the task searches for the next timeout (`Scan`). A refused frame of
the wrong session state takes the code's `continue` (`Continue`): it goes back
to `"recv"` past the search and with the old block time.

`age` is the time since `vTaskSetTimeOutState` as `xTaskCheckForTimeOut` computes
it, `waited` the time the task has been blocked. `Tick` advances both. Memory
is kept byte by byte, each byte by the payload written to it; a payload is a
model value. `jobs` are writes a handler has delegated.

Switches: `AsyncWrite` lets the write handler finish later, as the comment at
`block_handler.c:40` allows; `AbortWhileWriting` lets nodes abort meanwhile;
`Prompt` makes time pass only while the task is blocked (no task of the stack
has a higher priority); `StrayFrames` lets nodes send frames that do not match
the state of their session.

The sum of address and size is computed in the width of an address, as
`cants_validate_write_address` does; the addresses of the instances stay clear of
its wrap (section 7).

`SetBlockService` is what an initiator may rely on: one open transfer per node,
collected from nothing, memory changed only by a complete transfer, truthful
answers. The refinement mapping (`TransferOf`) reads a node's transfer off its
slot.

### GetBlock (`cants/block.c`, `protocol/block_handler.c`)

The same structure. A session's copy of memory is known by the version of memory
and the address it was read at. `Burst` is one call of `block_gb_burst`, of
which the driver takes `room` frames (`SendFails` lets it refuse some), so that
`cur_seq` after a refused frame is modelled. `block_validate_mask` is translated
with its loop over the bytes of a longer mask, including the byte it reads past
the received ones, whose value is a free choice.

`orderly`, chosen once and for all in the first state, is to this module what
`Prompt` and `StrayFrames` are to `SetBlock`: time passes only while the task is
blocked, and while a session is active no frame comes that makes the task
`continue`. The properties about deadlines are stated of orderly behaviours, the
others of all.

`GetBlockService` promises each initiator that what it receives are blocks it
asked for, from memory as it was when the request was accepted, in order and
once for each start frame; a transfer with blocks due does not expire. `Proceed`
is the passage of time, in which several transfers may send and others end.

### CanDriver (`candrv.c`, `can/can.c`)

Each sender is a task inside `cants_send_msg`: in the critical section, blocked
on the full queue, woken, or with its block time over. `Interrupt` is the whole
of `can_int_handler` for one controller: transmit part, receive part, reset. A
task may only step while no interrupt is pending, except inside a critical
section. The port keeps the interrupt flag per task, so a task that blocks
inside its section does not mask the interrupts of others (`Masked`). A write
to a busy transmit buffer either replaces the frame in it or has no effect;
`lost` records the frame that is gone.

`calm`, chosen once and for all in the first state, says whether the bus is a
calm one: a transmission never ends inside a critical section, a sender that was
woken runs before the next transmission ends, and neither errors nor bus
switches occur. What holds only there (`QueueNotStranded`, `ImplementsFifo`,
`SendsWhatItAccepts`) is stated of calm behaviours; frames are conserved and
received in order in all of them. `AssertStops` makes a full queue stop the
firmware, as `FreeRTOSConfig.h:116-117` and `Assert.h` build it.

`TxChannel` is a FIFO of accepted frames. It is refined by the transmit buffer
followed by the queue.

### Dispatcher (`cants/cants.c`, `cants/tctm.c`)

`inbox` is `dispatcher_queue`; `msg` and `step` are the dispatcher's frame and
where it is with it: routing, waiting for room in a queue (`StartWait`, then
`PassOn` or `GiveUp`), or about to answer a nack. The TC task takes a
telecommand and carries it out (`TcReceive`), then answers (`TcAnswer`). Other
tasks only take frames from their queues (`Consume`). `SendAnswer` is the call of
`cants_send_msg` with a nack or an acknowledgement: when the queue of the driver
stays full the answer is lost, since nobody looks at the result, or the assertion
of `FreeRTOSConfig.h:116` stops the firmware (`AssertStops`). What is said of
answers is said of those that are made, `sent` or not.

### Telemetry (`cants/tctm.c`)

The TM task with its queue. `wait_time` is the block time of its
`xQueueReceive`, `tmBlocked` how long it has been blocked and `tmAge` the time
since `timeout` was set: the keep-alive has no timer of its own. A pass of the
task is `TmServe` or `TmTimeout`, then `TmCheck` (`xTaskCheckForTimeOut`), then
`TmBeat`, or `TmSkip` for each channel the application cannot read. `late`
chooses, once and for all, whether time may pass while the task is ready.

### Redundancy (`protocol/redundancy.c`)

The task between the dispatcher, which counts keep-alives up in its notification
value (`cants_unsolicited_handler`), and the driver. `Take` is the call of
`ulTaskNotifyTake` up to where it blocks; `Heard`, `Missed` and `GiveUpBus` are
what happens when it returns. The master sends on a bus, may change it and may
be silent; a keep-alive is heard if it comes on the bus the node listens to.
`tardy` is to this module what `late` is to `Telemetry`.

### CanFrame (`can/can.c`, `cants/utils.c`)

A message is packed (`cants_construct_id`, with the bits it leaves
uninitialized free), written to the identifier registers, compared with the
acceptance filter, read back and unpacked. Shifts, masks and casts are
arithmetic. `SetBaudrate` is the search of `can_set_baudrate`, with the
prescaler cut off to eight bits before its range is checked; a sampling point of
0, which the driver passes, stands for 875. `RateError` is `abs()` of the
difference cut off to the 16 bits of this processor's `int`.

`MCNode` puts `Dispatcher`, `Telemetry`, `Redundancy` and `CanFrame` into one
run. They share no state in these models, so `machine` chooses which one is
explored: the dispatcher twice, without the assertions and as the firmware is
built (`AsBuilt`).

### Lists, Tasks, TaskCalls, Queues (`FreeRTOS/list.c`, `tasks.c`, `queue.c`)

Operators, not machines. `Lists` has the lists as sequences with a walk
(`pxIndex`). `Tasks` is the scheduler: its file-scope variables are one record
`k`, and each function is an operator from `k` to `k`. `TaskCalls` adds what
tasks do to each other: delays and time-outs, priorities and their inheritance,
suspension, deletion, notifications, tickless idle. `Queues` adds a record for
each queue, with its circular storage, lock counts, mutex holder and set. The
handle of a member is put into its set at the end at which the item was put into
the member, or in place of the newest one (`queue.c:2895`). Each operator is one
critical section of the code, or one stretch of it with the scheduler locked;
the `yield` at its end is a predicate beside it.

### Kernel

The machine: the current task takes steps, `Tick` and the `...FromISR` actions
come between any two of them. A blocking call of the queues runs through

    try -> suspend -> lock -> check -> test -> (inherit) -> place
        -> unlockSent -> unlockReceived -> resume -> yield -> try

which are the places of `xQueueGenericSend`, `xQueueReceive` and
`xQueueSemaphoreTake` where interrupts may come. `call[t]` holds the locals of
the call a task is in. A switch of the context is part of the step that asks for
it, because `portYIELD` takes effect within a critical section too (the
interrupt flag belongs to the task). What the tasks are and what they call is a
*scenario*, chosen in the first state; `Application` is the kernel as `main`
has set it up. `KernelAssumption` says which scenarios there may be: each
task is created once, a queue is new, and a call names tasks and queues that can
exist and values its type has (`Callable`). What a call asks of the state it is
made in (that a mutex is given by its holder, that a task still exists) is its
guard (`Legal`). An assertion of the code that a call or interrupt would fail ends
a behaviour: its guard excludes it.

`xQueueRemoveFromSet` looks at the set and at the item count before its critical
section, so it has three steps (`RemoveFromSet`, `MemberEmpty`, `LeaveSet`).

`MessageQueue` is what a queue promises: at most `capacity` items, taken in the
order in which they were put in, or from the front. Each queue of the kernel
implements it, and so does each set whose members are sent to at the back; of
other sets it is not true (section 7).

The own modules (`SetBlock`, `CanDriver`, `Dispatcher`, ...) do not use `Kernel`:
they rely on what is checked of it (FIFO queues, time-outs that are neither
early nor late, the most important task running) and model the block times and
critical sections they need themselves.

### ListRing, ListService (`FreeRTOS/list.c`)

`ListRing` has the pointers: `next`, `prev`, `index`, `container` and the end
markers with the largest value. `ListService` is the sequence with a walk that
`Lists` defines. `RingImplements` is the refinement that lets the kernel
modules use sequences.

### Timers (`FreeRTOS/timers.c`)

Callers read the time (`xTimerAsk`) and send the command later
(`xTimerGenericCommand`). The timer task goes through `prvGetNextExpireTime`,
`prvProcessTimerOrBlockTask` (with the switch of its two lists when the tick
count wraps), `prvProcessExpiredTimer` and `prvProcessReceivedCommands`; ticks
and commands come in between. `due` says, on a clock that does not wrap, when
each timer has to run by the commands of the application processed so far, and
`halted` which timers it has stopped. A restart that the timer task sends itself
changes neither; `overtaken` are the timers for which such a restart still lies
behind a command of the application.

### CoRoutines (`FreeRTOS/croutine.c`, `queue.c`)

`vCoRoutineSchedule` in its three parts, the delay, and the calls of one queue
with their interrupt versions. The macros store where a co-routine goes on;
`state` is that place.

### Heap (`FreeRTOS/portable/MemMang/heap_1.c`, `heap_2.c`, `heap_4.c`, `heap_5.c`)

The free list by block addresses, with sizes, the end marker of each region and
the counters. `scheme` says which allocator it is. Every call runs with the
scheduler locked and is one step. Sizes are computed modulo `SizeMod`, the
values of a `size_t`; `SizeAssumption` keeps the requests away from the wrap.
`HeapSound` has four parts: blocks lie side by side (`InPlace`), none is free
and allocated (`Apart`), every byte is in a block and the free ones are counted
(`Accounted`), and no two free blocks are neighbours (`Joined`).

### Context (`FreeRTOS/portable/GCC/PicoSkyFT/`)

Registers, stacks and the interrupt flag, to the instructions between which an
interrupt can come: pushing r0, reading SREG, masking, saving, restoring and
returning; `portENTER_CRITICAL` and `portEXIT_CRITICAL`, which keep SREG on the
stack; the tick handler; and both ways to switch, by the port's own routines and
by the interrupt controller. `own` is what each task had when it left its own
code.

`MCParts` puts these five modules into one run as `MCNode` does.

## 4. Runs and bounds

| Run | Instance | Shows |
| :-- | :-- | :-- |
| `set_block` | *sessions*: 3 nodes, 2 slots, stray frames, late task; *deadline*: 3 nodes, 2 slots, prompt task, delegated writes; *data*: 1 node, 1 slot, 2 blocks of 2 bytes, 4 bytes of memory, 2 addresses, 2 payloads | `TypeOK`, `OneSessionPerSource`, `TimersAgree`, `NeverExpiredEarly`; `SessionsEndInTime`, `DoneMeansStored`, `SlotsBecomeFree`; `StoresTransfers` |
| `set_block_stray` | 2 nodes, 2 slots, prompt task, stray frames | `ExpiredInTime` is violated |
| `can_driver` | *faults*: 2 senders of 2 frames, 2 arrivals, an error, 2 bus switches, queue of 1; *calm*: 2 senders of 3 frames, 1 arrival, queue of 2, one bus that is `calm` | `FramesConserved`, `InboxInOrder`; on the calm bus `QueueNotStranded`, `SendsWhatItAccepts`, `ImplementsFifo` |
| `can_driver_late` | transmissions that end inside critical sections | `NothingLost` is violated |
| `get_block` | *data*: 1 node, 4 blocks, masks of 2 bytes of 2 bits, the driver refuses frames, memory changes; *shared*: 2 nodes, 2 slots, stray frames, late task; *prompt*: 2 nodes, 2 slots, up to 2 blocks, bursts of 1, orderly traffic, a driver that takes every frame | `MarkedSentOnce`, `ImplementsService`; `BurstPacing`; `BurstsOnTime` |
| `get_block_mask` | masks of 2 bytes for a session that needs 1 | `HigherBitsRefused` is violated |
| `get_block_late` | 1 node, orderly traffic, bursts of 1 that come before the timeout | `SessionsEndInTime` is violated |
| `node` | 4 frames of every kind, queues of 1 and 2, and 3 frames with the assertions of the build; keep-alive period 3, channels 1 to 4 of which two can be read; redundancy period 2, 2 misses, 3 switches; fields at their limits, all standard bit rates | `InOnePlace`, `CommandsCarriedOut`, `TelecommandsAnswered`; `KeepAlivesInOrder`, `KeepAlivesSent`; `SwitchesJustified`, `FindsMaster`; `MessagesArrive`, `ExactRateFound` |
| `kernel` | eleven scenarios of three tasks, the idle task and interrupts | `ListsSound`, `HighestRuns`, `WakeNotLate`, `WaitsItsTime`, `NoLostWakeup`, `PriorityInheritance`, `ImplementsQueue` |
| `kernel_mutexes` | three tasks, two mutexes given back in any order | `SwitchesWithLastMutex` is violated |
| `kernel_parts` | 3 items in 2 lists; 2 timers; 2 co-routines; 2 heap regions; 2 tasks of the port | `RingImplements`, `TimersInTime`, `CoRoutinesInTime`, `HeapSound`, `ContextKept` |
| `timer_stopped` | 1 timer, a command queue with room for 3 | `StoppedTimersRest` is violated |

Some runs hold several instances of a module, or several modules: a variable
that never changes (`calm`, `instance`, `machine`, `part`) chooses one in the
first state. The constants of a configuration are upper bounds; `MCSetBlock`,
`MCCanDriver` and `MCGetBlock` say what each of their instances has less of.

The scenarios of `kernel` (`MCKernel`): a queue that interrupts fill
(`Transfer`) and empty (`Filled`); a mutex shared by three priorities
(`Inheritance`) and a recursive one whose waiter is told to stop (`Recursion`);
delays, also of no time, with the scheduler locked at times (`Delays`); tickless
idle (`Tickless`); suspension, resumption, abort and change of priority
(`Control`); notifications (`Notifications`); creation, deletion and the search
for a task by its name (`Lives`); a set of a queue and a semaphore (`Sets`),
each sent to at the back; the wait of the timer task, a queue that is reset and
one that is overwritten (`Daemon`).

Why the bounds are enough:

- *Nodes and slots.* The code treats slots by index and nodes by equality. Two
  slots are what the firmware has; one node more than slots makes them run out
  and be reused by another node. In `get_block`, which checks safety only, the
  two nodes are symmetric (the instance with one node never names the other).
- *Blocks, bytes, bits.* Two blocks of two bytes have a first, a last and a
  short last block; masks of two bytes of two bits have a full byte, unused bits
  and a byte more than needed.
- *Timers of sessions.* Two sessions with a timeout of two ticks that begin at
  different times have all orders of expiry, and block times that end before, at
  and after a session's time. For Get Block the interval of the bursts is as long
  as the timeout, two ticks, where the task may be late; where it is prompt it is
  shorter, two ticks against three. `MAX_DELAY` is one more than the longest
  timeout, so that the wake-up without a session happens too.
- *Histories.* `silent`, `quiet`, `copies`, `sinceBeat`, `silence` and `hops` stop
  counting just above the value the properties compare them with.
- *Queues.* One or two frames: empty, filling, full, and full while a sender
  waits are all reached.
- *Frames, arrivals, errors, switches, memory changes, moves of the master* are
  counted up to `MaxFrames`, `MaxArrivals`, `MaxErrors`, `MaxSwitches`,
  `MaxWrites`, `MaxMoves`; `MaxQueued` bounds the keep-alives on their way.
- *Keep-alive channels.* `ChannelMod` 8 stands for the 256 values of `utm_ch`;
  the range 1 to 4 has channels that can be read and channels that cannot, its
  first among them, and there are readable ones outside it.
- *Kernel.* Four priorities, three tasks and the idle task: a waiter, a holder
  and a third party of every order. `TickMod` is 16 and all scenarios but
  those of mutexes start at tick 13 or 14, so that the count wraps within the 2
  to 7 `ticks` of each;
  `configINITIAL_TICK_COUNT` (`tasks.c:368`) lets an application start there.
  `MaxCount` bounds what interrupts do to a locked queue and notification
  values. `PendedMod` is the code's 256, which no run reaches.
- *Timers.* `TickMod` 6 with periods 1 and 3, a start two ticks before the wrap
  and `MaxClock` 12 has two wraps; `MaxLag` bounds how long the timer task or a
  caller is kept waiting, `MaxAsked` the number of calls.
- *Co-routines.* `CrTickMod` 4, `MaxTicks` 5 and `MaxBehind` 1: one wrap, and
  ticks that the scheduler has not seen.
- *Heaps.* Regions of 28 and 12 bytes with links of 2 bytes, one of them not
  aligned; the requests are 0, odd, even, and too large for the second region
  once it has been split.
- *Port.* `MaxNest` critical sections inside each other, and `MaxStack` bytes on
  a stack when an interrupt comes.

The deadlock check is on where the system cannot stop: the block tasks. The
driver, node, kernel and part instances end when their frames or ticks are used
up, or stop in a failed assertion, so their configurations switch it off.

Every property has a mutant: a definition changed the way a bug in that code
would change it, listed in `PROJECT.json` and written next to the definition it
replaces, with which TLC finds the property violated.

## 5. Fairness

- Ticks go on (`Tick`, `TmTick`, `RedTick`), and the Set Block task runs when its
  block time is over (`ReceiveTimeout`, `Scan`): the tick interrupt wakes it, and
  no task of the stack has a higher priority. The dispatcher shares its priority,
  2, and blocks again after every frame, under time slicing. The Get Block, TC, TM
  and redundancy tasks have priority 1.
- A delegated write finishes. This is what `cants.h:153` demands of the handler.
- A pending interrupt is served, a controller transmits the frame it holds, and a
  sender that may run, runs: blocked senders have a block time of 10 ms.
- The dispatcher, the TC, TM and redundancy tasks run when they have something to
  do: those of priority 1 because dispatcher and Set Block task block again after
  every frame, and frames come more slowly than these are served. Nothing is
  assumed of the other serving tasks: if they never take a frame, the dispatcher
  goes on when its block time ends.
- A master that is up sends (`MasterSends`), at least every `BeatInterval` ticks.

No fairness is assumed of anything else that sends frames. `QuietSlotsFree` is
stated of behaviours in which frames stop arriving, and `FindsMaster` of those in
which the master comes to rest on a bus and dispatcher and task are prompt from
then on. `KeepAlivesSent` is stated where time passes whatever the task does
(`late`): where ticks wait for the task, requests without end would hold up time
itself. The kernel runs check safety only and need no fairness.

## 6. Proofs

The theorems hold for every value of the constants that the named assumptions of
the modules admit. A theorem in parentheses is part of the one above it.

`SetBlock_proofs` (any number of nodes, slots, blocks, bytes, any timers):

| Theorem | States | Also assumes |
| :-- | :-- | :-- |
| `TypeCorrect` | `[]TypeOK` | |
| `UniqueSessions` | `[]OneSessionPerSource` | |
| `TimersAgreement` | `[]TimersAgree` | |
| `NoEarlyExpiry` | `NeverExpiredEarly` | |
| `DoneIsStored` | `[]DoneMeansStored` | `~AsyncWrite`: the handler of `block_handler.c` |
| `ExpiresInTime` | `[]ExpiredInTime`, which the run checks as `SessionsEndInTime` | `Prompt`, `~StrayFrames`: the run `set_block_stray` shows that it fails without |
| `ServiceImplemented` | `ImplementsService`, which the run checks as `StoresTransfers` | `~AsyncWrite`; `NoWrap`: requested ranges do not wrap in the address type, which the code does not ensure |

`GetBlock_proofs` (any number of nodes, slots, blocks, any masks and timers):

| Theorem | States | Also assumes |
| :-- | :-- | :-- |
| `TypeCorrect` | `[]TypeOK` | |
| `BlocksSentOnce` | `[]MarkedSentOnce` | |
| `BurstsNotEarly` | `BurstPacing` | that the history `quiet` counts to `GB_BURST_INTERVAL` |
| `BurstsNotLate` | `[]BurstsOnTime` | |
| `ServiceImplemented` | `ImplementsService` | `NoWrap` |

`CanDriver_proofs` (any number of controllers, senders, frames, errors and bus
switches, queues of any length, assertions that stop the firmware or not):

| Theorem | States |
| :-- | :-- |
| `DriverConserves` | `[]FramesConserved` |
| `ReceivesInOrder` | `[]InboxInOrder` |
| `QueueFed` | `[]QueueNotStranded` |
| `DriverIsFifo` | `ImplementsFifo` |

`Kernel_proofs` and, of the delays, `KernelTime_proofs` (any tasks, queues,
priorities and width of the tick count; any scenario that `KernelAssumption`
admits, with any number of calls, interrupts and ticks):

| Theorem | States |
| :-- | :-- |
| `Invariant` | `[]KernelInv`, the inductive invariant |
| `ListsAreSound` | `[]ListsSound` |
| `WakesInTime` | `[]WakeNotLate`, if `[]InReach` |

`InReach` keeps two counters of the code within their range: the count of pended
ticks, eight bits wide, is not about to wrap (from then on ticks are lost), and no
task calls `vTaskDelayUntil` a whole turn of the tick count after the wake-up time
it counts from (which the code cannot tell from being early). Every state of the
runs is within it: they have fewer ticks than either counter has values.

`Node_proofs` (of the dispatcher: any number of frames, queues of any length,
assertions that stop the firmware or not; of the telemetry task: any period,
range and set of readable channels; of the redundancy task: any period and
numbers of misses and switches; of `CanFrame`: fields of any value their bits
can hold, any addresses, any mask of the filter that compares no bit set in
them; any clock, any rate up to 1 Mbit/s, sampling points from 68 % on, for
which no number of quanta needs more than `TSEG2_MAX` of them behind it; what
`abs()` takes for exact and is not, `Misleading`, is excluded by the property
itself) and
`Portable_proofs` (of the port: up to nine tasks, for their numbers are part of
the addresses; stacks and critical sections of any depth; of the heaps: each of
the four allocators; any alignment, any number of regions of any size that
`configASSERT` accepts, requests of any size that does not wrap in `size_t`
(`SizeAssumption`); of the co-routines: any finite
number of them, any priorities, queue, width of the tick count and delays it can
hold; the scheduler is called before it is a whole wrap behind):

| Theorem | States |
| :-- | :-- |
| `CommandsAreCarriedOut` | `[]CommandsCarriedOut`, from `DispatcherTypes`, `CommandsComeInOrder` and `AcknowledgedIsDone` |
| `EveryFrameInOnePlace` | `[]InOnePlace` |
| `KeepAlivesCorrect` | `KeepAlivesInOrder`, from `KeepAlivesInTime`, `KeepAlivesNotEarly` and `ChannelsComeInTurn` |
| `SwitchesAreJustified` | `SwitchesJustified` |
| `TasksGoOnAsTheyLeft` | `[]ContextKept` |
| `CoRoutinesGoOnInTime` | `[]CoRoutinesInTime` |
| `EveryMessageArrives` | `[]MessagesArrive` |
| `ExactRatesAreFound` | `[]ExactRateFound` |
| `HeapIsSound` | `[]HeapSound` |

### Set Block

- *Types.* One lemma per action; the helpers (`ResetTimeout`, `TimedOut`,
  `Checked`, `Received`, `Written`) map sessions to sessions and memory to
  memory. The index into the buffer needs a bound on a quotient (`DivBound`).
- *Frames have one shape.* `FrameShape` shows that a frame is either `Refused`
  (no session changes but for the address in a free slot) or `Served` (one
  session replaced, its timeout reset). The later proofs split on it instead of
  on every handler.
- *Unique sessions.* Only a request opens a session, and only if its node has
  none; every other step keeps the owners of the active slots (`OwnersKept`).
- *No early expiry.* A session is expired by `Scan` when its own timer is up,
  and by `ReceiveTimeout` when the block time of the task is up. The second
  needs `TimersAgree`: the block time is the remaining time of the slot in
  `tindex`, and the task has been blocked no longer than that session has aged
  since, or that session's time is up; and remaining time and silence add up to
  `SB_TIMEOUT`. `TimersAgree` is inductive together with `TypeOK`.
- *Expiry in time.* `PromptInv`: what a receiving session has left and the
  silence of its initiator add up to `SB_TIMEOUT`; the blocked task has waited as
  long as every session has aged, for no longer than any of them has left. A
  stray frame breaks the second part.
- *Done means stored.* `StoredInv` strengthens the property: every session past
  receiving is stored, no write is pending, and reports speak of stored sessions.
- *The service.* `AllSound` is what the refinement needs of a session: its blocks
  are blocks of its transfer, and the length of the last is known once it has
  come. Because sessions are unique, a step that changes one slot changes one
  transfer (`OwnerChanged`), and a step of the timers changes the transfers whose
  sessions it ends (`QuietExpires`); each frame is then one action of
  `SetBlockService` (`FrameServes`).

### Get Block

- *Bursts.* `BurstSplits` is the arithmetic of `block_gb_burst`: whatever the
  driver refuses, the position afterwards divides the blocks that were due into
  those sent and those left. The lemmas below it are about finite sets of
  numbers (`MinIsLeast`, `MaxIsGreatest`, `FirstOfSplits`).
- *Frames and timers have one shape each.* `FrameShape` (refused, `Opening`,
  `Closing`, `Starting`) and `TimerShape` (some slots have run out of time).
- *Marked blocks once.* `AllExact` adds to `SentExactly` that a transmitting
  session has a block left and that its mask agrees with the last start frame on
  the session's blocks, the bits that a shorter mask leaves over included.
- *Not early, not late.* `SlotStep` lists what a step does to the clock of a
  slot. `WaitOfTask` (the block time belongs to an active session and has not run
  longer than its age) and `Paced` give the lower bound; `WaitsForFirst` (in
  orderly traffic the task has waited as long as every session has aged, and for
  the first of them) with `InTime` gives the upper one.
- *The service.* As for Set Block; `PassingServes` shows that one search of the
  task, in which several sessions may burst and others end, is one `Proceed`.

### CAN driver

- *Conservation.* `Ledger`: the four places of a frame exclude each other
  (`Apart`), none holds it twice, what is accepted is somewhere (`Accounted`),
  and the frame of a call that has not returned is not accepted yet
  (`AcceptedBefore`). The last is what makes the frame a sender writes a new one.
- *Order of reception.* `ArrivalsInOrder`: what the dispatcher still has to take
  came before what the selected controller holds. What the loop of
  `can_int_handler` over the FIFO reads (`ValidNumbersRead`) needs an induction,
  which is carried out over a set of numbers (`BoundedInduction`), because the
  library's rule is out of the provers' reach.
- *The calm bus.* `CalmInv`: only the selected controller transmits, its
  interrupt comes with a free buffer and outside critical sections, and senders
  block on a full queue, or one place is free and a sender is about to take it.
  Then buffer and queue in a row (`Pipeline`) are the channel of `TxChannel`, and
  each step of a sender, the handler or the controller one of its steps.

### Kernel

- *The lists of one task.* `Listed` says of a task where its two items are:
  `StateListed` (in one of the ready, delayed, suspended and ended lists if it
  exists, in none if not), `EventListed` (in one event list at most, the pending
  list being one) and how the two fit: a ready task waits for nothing. There is
  one exception, which the proof brought out: a task that an interrupt notifies or
  resumes while the scheduler is locked, and whose wait ends otherwise, is ready
  and still pending. This can only be one between the two sections of a
  notification call (`noting`).
- *The scheduler.* `Steady` adds that nothing is pending while the scheduler is
  unlocked, that `uxCurrentNumberOfTasks` counts the tasks, and that the idle task
  is ready, which is why there is always one to select (`SelectedSteady`).
- *The calls.* `CallSound` ties the step a call is at to what it was called for.
  Only the current task can be where the scheduler is locked (`LockedByCurrent`),
  and it is ready unless it has put itself into another list and not been
  switched yet (`Away`). Without the last two a second lock, or a task that is
  put into a delayed list twice, could not be excluded.
- *Operators first.* Most lemmas are about one function of `tasks.c` or
  `queue.c` each, for any kernel record: what it keeps (`Keeps`), whom it makes
  ready (`Gains`), whom it takes away (`Drops`, `Parked`) or adds (`Grown`).
  Loops over lists of any length (waking all that are due, draining the pending
  list, replaying missed ticks, announcing what a locked queue was given) are
  recursive functions, and `Iterated` and `IteratesStay` of `Rows` carry an
  invariant through them. Each action of `Kernel` is then one lemma (`...Inv`).
- *Delays in time.* The model keeps the time each wait is due in ticks that do
  not wrap (`due`), the code in a tick count that does. `TimeInv` ties them
  together: the tick count is the `Clock` (the ticks so far less the missed
  ones) modulo `TickMod`; a task in the delayed list wakes after the present
  count and no later than it is due, one in the overflow list so after the next
  wrap (`Timed`); and `xNextTaskUnblockTime` is ahead of the count. Every
  operation of the kernel is of one of three kinds: it makes nobody wait and
  changes no wake-up time (`Calm`), it puts the current task to sleep for a
  given number of ticks (`Dozes`), or it advances the count. Of the last there
  are the tick (`IncrementTimed`, with the exchange of the lists at the wrap),
  the replay of the missed ticks by `xTaskResumeAll`, an induction over their
  number (`ReplayedTimed`), and the step after a tickless sleep, which ends
  before the next wake-up (`SleepTime`). A blocking call that starts again after
  a wake-up waits for what `xTaskCheckForTimeOut` has left of its time, never
  longer than to `due` (`AfterTime`); `vTaskDelayUntil` compares three wrapped
  values, and `DelayAhead` shows that it then waits to the time that is due.
- *What the kernel reports.* `ReportsAgree`: `uxTaskGetSystemState` finds each
  task once, in the state `eTaskGetState` says of it.

### Dispatcher, telemetry, redundancy

- *Commands carried out.* `PipelineInOrder`: whatever is further on its way from
  the interrupt to the TC task has a smaller number, and nothing carried out is
  still on its way. `AnswersTrue` follows the answers: what has a nack is nowhere
  on that way, so it cannot be carried out later. Both are inductive together
  with `Typed`; steps that only take a frame off the way share `OrderLess`.
- *One place.* `Placed`: each place has a label, no frame is under two labels or
  twice under one, and every step moves one frame from one label to another
  (`PlacedMove`).
- *Keep-alives in time.* `BeatInv` says of the block time what the run only
  samples: what is left of it never falls short of what is left of the period,
  and for a prompt task the two are equal, although each request restarts the
  block time and `TmCheck` only knows the age of `timeout`.
- *Channels in turn.* `TurnInv`: between two keep-alives `utm_ch` has passed over
  no channel that can be read, whether or not it has wrapped to `UtmMin` since
  (`NextUtmValue` is where `uint8_t` and the range are reconciled).
- *Switches justified.* `QuietInv`: unless a notification is pending, the task's
  own reckoning (`misses` periods and the ticks of this one) is no more than the
  silence there has been, and it has counted every switch since the last
  keep-alive. Notifications that race with the end of a period cost the task
  time, never the bus.

### Context

- *Saving.* `SavedLayout` says where on the stack `portSAVE_CONTEXT` leaves each
  register, `RestoreSaved` that `portRESTORE_CONTEXT` reads every one from its own
  place, the EAR in the opposite order, and `InitialiseStackSaved` that
  `pxPortInitialiseStack` writes what saving would have.
- *What a task comes back to.* `ContextKept` looks at a task only while it is in
  its own code; `CpuInv` says at every instruction what it will come back to. A
  task is in its code as it left it (`InCode`), or in a switch it asked for or
  that starts it (`AtTask`), or in a handler that interrupted either of these
  (`Interrupting`). `InSwitch` follows r0, SREG and the stack through the five
  places of a switch. A task that does not run has been saved in one of these
  states (`Suspended`).
- *No handler in a handler.* Handlers keep the interrupt flag off from the moment
  they are entered up to their rti (`HandlerOff`), so no interrupt comes there and
  the three cases are all. With the controller, the switch ends with the flag on,
  whichever task it restores; `AtTask` needs that such a task had it on.

### Co-routines

- *Lists.* Module `Rows` is about sequences that hold nothing twice; `Slips` says
  that one of them is another with one entry more. From it follow what
  `vListInsert`, `uxListRemove` and the walk of a ready list do to the members of
  a list, to its order and to `pxIndex` (`ListInsert`, `ReadyRemove`,
  `ReadyWalk`).
- *One list each.* `Listed` is inductive for the six things a step can do to the
  lists as a whole: one enters, is readied, falls asleep or is woken, the two
  delayed lists are swapped, or nothing changes. `Running` adds that the one that
  runs is ready, which it has to be when it blocks.
- *Delays.* `Delays` relates the items of the delayed lists, taken modulo
  `CrTickMod`, to the clock: `due` is the value of the item after the last wrap of
  the scheduler's own count, or after the next. As none of the current list is
  passed over (`FirstIsNext`), that list is empty when the count wraps and the two
  can be swapped (`DelaysCounted`). `Clocks` says that the ticks the scheduler
  works off, which it computes from two wrapped counts (`Passed`), are no more
  than those it is behind.
- *Nobody waits in vain.* `Served` counts those who have been woken and not tried
  again. A message more, or one less, comes with one more of these or with nobody
  left to wait, and the co-routine that sends or receives takes at most itself
  away (`Wins`, `Loses`). That needs `Waits`: who waits to send comes back to
  send, and the one in the second critical section of a send is not counted among
  the receivers.

### CanFrame

- *The fields come back.* `Identifier` gives every field its weight. `Fields`
  divides them off it again one by one, `SentReceived` puts the four bytes of the
  registers together, and `ParsedFields` joins the two: what is read is the same
  identifier without its unused bits. All rest on `Divide` and `DivideTwice`, so
  that no step computes with the large weights themselves.
- *Ours pass.* The low 21 bits of the mask are 0, so that the filter compares bits
  of the destination only (`FilterLooks`), and of these only such as are 0 in each
  address the node serves, as they are in the code register (`FilterTakes`).
- *Exact rates.* `Sound` is the invariant of the search: a choice whose rate is
  exact fits the registers. A pass with the exact divider (`ExactDivider`) takes
  its first rounding, which is never late (`CandidateFits`), unless the rate is
  exact already, and no pass gives that up (`QuantaSound`). An exact rate is the
  only one whose error counts as 0 because no candidate is `Misleading`. That
  the search has 23 passes (`Passes`) is again an induction over a set of
  numbers.

### Heaps

- *Side by side.* `HeapInv` says of the blocks, free or allocated, and the end
  markers that each is aligned and lies in one space, that none reaches past the
  address of the next, and that the free list holds each free one once: in the
  order of the addresses for heap_4 and heap_5, in any order for heap_2.
- *No byte lost.* The bytes of all blocks are those of the spaces. Splitting
  (`SplitCuts`) and joining (`AbsorbCells`) only move the border between two of
  them, so `xFreeBytesRemaining`, which the code adds and subtracts, is the number
  of bytes in the free list.
- *No free neighbours.* `prvInsertBlockIntoFreeList` looks at the block before
  and the one behind the place it finds. That these are all that can touch the
  returned block follows from the order of the list (`PlaceByAddress`,
  `NextInList`); that joining one of them opens no new contact, from the absence
  of neighbours before (`PutAtPlace`, `JoinedBefore`). The same argument serves
  the remainder of a split.
- *Regions.* `vPortDefineHeapRegions` is a loop over the array. What it has built
  after n regions (`FirstBuilt`, `NextBuilt`) is shown by an induction over a set
  of numbers (`Defined`).

### Left to TLC

- Liveness (`QuietSlotsFree`, `SendsWhatItAccepts`, `TelecommandsAnswered`,
  `KeepAlivesSent`, `FindsMaster`): it needs fairness, which is out of the
  prover's reach.
- `Timers` and `ListRing`, which contain recursive operators.
- Of `Kernel`, what does not hold of every scenario: `HighestRuns` fails where
  `kernel_mutexes` shows it, `NoLostWakeup`, `PriorityInheritance` and
  `WaitsItsTime` where section 7 says so (a receiver that is suspended between its
  wake-up and its look at the queue, a priority set while the task holds or waits
  for a mutex, a wait for a notification that `vTaskResume` ends). They are
  checked of scenarios that do without.
- `ImplementsQueue`, which needs the contents of the storage.

## 7. Where the code and its comments part

With a run that shows it:

- `set_block_stray`: a refused frame takes `continue` (`block.c:294`) past the
  search for the next timeout, the next `xQueueReceive` waits the old block time
  from its start, and a session outlives `SB_TIMEOUT`, which `cants_config.h:26`
  describes as counted "from last valid packet received". `block.c:538` does the
  same to bursts of Get Block.
- `can_driver_late`: `can_int_handler` takes a transmit interrupt to mean that
  the transmit buffer is empty (`candrv.c:73`). If the transmission ended inside
  the critical section of `cants_send_msg`, the task has already filled the
  buffer, and one of two accepted frames is destroyed.
- `get_block_mask`: the loop at `block.c:190` increments its index before using
  it; it does not look at the first byte that "has to be 0" and looks at one
  past the end of the mask.
- `get_block_late`: `block_gb_burst` restarts the session timeout (`block.c:502`),
  and the session of an initiator that fell silent outlives the timeout that
  `cants_config.h:28` counts "from last valid packet received".
- `timer_stopped`: a restart that a timer sends itself (`timers.c:899`) waits
  behind the commands in the queue, so that a timer whose stop is among them runs
  on, although by `timers.h:520` stopping "ensures the timer is not in the active
  state". `TimersInTime` leaves these timers out.
- `kernel_mutexes`: `xQueueGenericSend` looks at the yield that
  `prvCopyDataToQueue` asks for only when no task waits for the queue
  (`queue.c:859`), so that a task whose priority drops with its last mutex may
  run on, against the comment at `tasks.c:4088`.

Met while modelling, covered by assumptions or switches of the models instead of
a run:

- `address + size <= 0x100` (`block_handler.c:14`, `:27`) is computed in
  `uint32_t` and wraps near 2^32: a request for such an address is accepted, and
  the handlers then copy from or to places outside `data`. The models compute
  the sum the same way, modulo `ADDRESS_MOD`; their instances use addresses that
  do not reach it, and the two services are proved under `NoWrap`. The claim
  that a validated write stays in memory is not among the properties, because it
  is false.
- With a handler that finishes later, an abort (`block.c:322`) frees the slot
  while the handler still holds its buffer and `done` flag; the next session in
  the slot is then flagged done by the old write. Hence `AbortWhileWriting`.
- `tctm_process` returns 0 for frames that are no requests, which the dispatcher
  answers with a nack, although the comment at `tctm.c:158` says they are ignored.
  The model nacks them, as `cants.c:84-85` does; `TelecommandsAnswered` speaks of
  requests only.
- Nobody looks at the result of `cants_send_msg` for an answer (`tctm.c:186`,
  `cants.c:85`), so an answer that finds the queue of the driver full for 10 ms is
  lost.
- A full queue stops the firmware by `traceQUEUE_SEND_FAILED`
  (`FreeRTOSConfig.h:117`), because `Assert.h:17` compares two names that are no
  macros; with assertions disabled the nack of `cants.c:83` is sent. `node`
  explores both.
- `can_set_baudrate` compares rates with `abs()` (`can.c:49`), which takes an
  `int` of 16 bits on this processor: a rate that is wrong by a multiple of 2^16
  counts as exact. A clock of 30583504 Hz, for instance, gives 546134 bit/s
  exactly, and with a sampling point of 680 the search settles for 611670.
  `ExactRateFound` excludes clocks with such a candidate; the board's 18 MHz has
  none for any rate.
- `candrv_init_ctrl` passes the mask `0x7E << 21` to the filter, which ignores
  bits 0 and 7 of the destination. With `CAN_HW_FILTERING` the stack looks no
  further (`cants.c:32`) and takes frames of other nodes; that the filter drops
  no frame of this node is part of `MessagesArrive`.
- With `utm_ch_max` 255 the increment of `utm_ch` wraps before it is compared
  (`tctm.c:52`), and with no readable channel in the range the loop does not end.
  Both are excluded by `TelemetryAssumption`.

In the kernel, as it is in this repository:

- A call that finds an item after its delay was aborted returns with the abort
  still noted; the next blocking call of the task fails at once. `WaitsItsTime`
  exempts waits that another task cut short (`cut`).
- A task that waits without limit for a notification can be resumed by
  `xTaskResumeFromISR` while the scheduler is locked, and is then pending. A
  notification from an interrupt before the scheduler is unlocked fails the
  assertion that it is on no event list (`tasks.c:4912`, `:5000`).
- `vTaskResume` wakes a task that is blocked without limit in `ulTaskNotifyTake`,
  and `eTaskGetState` says blocked of it while `vTaskGetInfo` says suspended.
  `vTaskSuspend` ends a delay for good.
- `vTaskPrioritySet` does not move a task within the event list it is on, nor does
  it pass the change on to the holder of a mutex the task waits for; inheritance
  is not passed on from holder to holder. The scenarios let tasks of changing
  priority wait for no mutex.
- `xQueueReset` wakes one of the waiting senders, however many there is room for.
- A receiver that is suspended or deleted between its wake-up and its next look
  at the queue takes the wake-up with it. The scenarios suspend and delete tasks
  that wait for queues of their own.
- The set of a queue is told of an item with the copy position of the item itself
  (`queue.c:2895`): one sent to the front of its queue puts the event in front of
  the others, and one that overwrites an empty queue replaces the newest event,
  which is lost, although `queue.h:1541-1544` promises that none is when the set
  is long enough. `ImplementsQueue` fails when a scenario does this. An interrupt
  that overwrites an item may tell the set of it twice.
- `xQueueReset` of a mutex overwrites its holder and its recursive count, which
  share a union with the pointers it sets (`queue.c:263-266`), while the task goes
  on counting the mutex as held.
- `xQueueRemoveFromSet` looks at the item count outside its critical section
  (`queue.c:2826`): an item that comes in between leaves its event in the set.
- `uxTaskGetSystemState` moves the walk of every ready list on by one, and
  `xTaskGetHandle` leaves it at the task it found: both change whose turn is next.
- Timers: a one-shot timer that fires as the lists are switched,
  or because it was started late, still counts as active (`timers.h:414-418`
  says otherwise). A command queue that is full when the timer task writes to it
  fails its assertion (`stopped`).
- Co-routines: a second send or receive within one interrupt wakes nobody
  (`missed`); a co-routine that was woken and finds its item gone gives up before
  its time; `xQueueCRSend` may say full although it had ticks left, when an
  interrupt fills the queue between its two critical sections.
- `heap_2` refuses a request that needs the whole heap. It adds the size of the
  header without a check (`heap_2.c:180`): a request near the limit of `size_t`
  wraps and gets a block that is too small. Hence `SizeAssumption`. (`heap_4` and
  `heap_5` refuse sizes with the top bit set.)

## 8. What is not modelled

- Register access without state of its own: GPIO, the hardware timer, and of the
  CAN controllers standard frames, the dual filter and the mode bits, which the
  firmware does not use or sets once.
- Start-up, vectors and assertions: they run once before the scheduler. That a
  failed assertion stops the firmware is the constant `AssertStops` of
  `CanDriver` and `Dispatcher`.
- `mpu_wrappers.c`: not in the build, and each wrapper only raises the privilege
  around the call it wraps.
- Of the kernel: `vQueueDelete`, the queue registry, the text of names, run-time
  statistics, thread-local storage, dynamic allocation of control blocks,
  unordered event lists (event groups are not in the repository). None of them
  is used by the firmware, and they add no order of events to those that are
  modelled.
- `heap_3` calls the C library. The allocated bit in the headers of `heap_4` and
  `heap_5` is left out.
- Of the port: the three-byte program counter of larger devices and the set-up
  of the tick timer.
- Widths that no run reaches: 256 pended ticks (eight bits), 128 items sent by
  interrupts into one locked queue (`int8_t`).
- Contents of frames beyond what the properties tell apart, and the application's
  telecommands and telemetry beyond whether they succeed.

`FreeRTOSConfig.h` switches off much of what the kernel modules have: mutexes,
sets, timers, co-routines, tickless idle, suspension. They are modelled because
they are in the repository; `has` in a scenario, or the part of `kernel_parts`,
says which are on.
