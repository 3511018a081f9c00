------------------------------ MODULE CanDriver ------------------------------
(***************************************************************************)
(* The CAN driver (src/candrv.c) on two PeliCAN controllers.  Tasks send   *)
(* frames through cants_send_msg: inside a critical section the frame goes *)
(* straight to the transmit buffer of the active controller if the buffer  *)
(* is free, and to the send queue otherwise.  The interrupt handler feeds  *)
(* the buffer from the queue whenever a transmission has completed, moves  *)
(* received frames to the queue of the dispatcher, and reinitializes a     *)
(* controller that reports an error.                                       *)
(*                                                                         *)
(* The processor runs one thing at a time.  A step of a task is taken with *)
(* no interrupt pending, except inside a critical section, where a         *)
(* controller may finish a transmission that the handler only serves after *)
(* the section ends.  A task that blocks inside the section lets others    *)
(* run: the interrupt flag is part of each task's saved context.           *)
(***************************************************************************)
EXTENDS Naturals, Sequences, FiniteSets

CONSTANTS
  Controllers,        \* CAN0 and CAN1
  Primary,            \* the controller candrv_init selects
  Senders,            \* tasks that call cants_send_msg
  MaxFrames,          \* bound: calls of cants_send_msg by one task
  MaxArrivals,        \* bound: frames received from the buses
  MaxErrors,          \* bound: error interrupts
  MaxSwitches,        \* bound: calls of candrv_set_bus
  CAN_SEND_QUEUE_LEN,
  DISPATCHER_QUEUE_LEN,
  Empty,              \* a free transmit buffer
  AssertStops         \* Assert(0) stops the firmware, as Assert.h builds it

Frames == [from : Senders, seq : 1..MaxFrames]

ASSUME DriverAssumption ==
  /\ Primary \in Controllers
  /\ CAN_SEND_QUEUE_LEN \in Nat \ {0}
  /\ DISPATCHER_QUEUE_LEN \in Nat \ {0}
  /\ {MaxFrames, MaxArrivals, MaxErrors, MaxSwitches} \subseteq Nat
  /\ Empty \notin Frames
  /\ AssertStops \in BOOLEAN

VARIABLES
  calm,      \* the bus raises no errors and is never switched, and transmissions
             \* end outside critical sections, when no sender is ready to run
  current,   \* current_ctrl
  buffer,    \* transmit buffer of each controller; Empty iff SR.TBS is set
  ti,        \* IR.TI of each controller: a transmission has completed
  ei,        \* IR.BEI, EPI or EI of each controller
  fifo,      \* receive FIFO of each controller
  queue,     \* can_send_queue
  inbox,     \* dispatcher_queue
  task,      \* where each sender is
  calls,     \* calls of cants_send_msg each sender has made
  arrivals, errors, switches,   \* what has happened so far, for the bounds
  stopped,   \* an assertion stopped the firmware
  accepted,  \* history: frames for which cants_send_msg returned 1
  onBus,     \* history: frames transmitted, in order
  lost       \* history: frames accepted and destroyed before transmission

hardware == <<buffer, ti, ei, fifo>>
bounds == <<arrivals, errors, switches>>
history == <<accepted, onBus, lost>>
vars == <<calm, current, hardware, queue, inbox, task, calls, bounds, stopped, history>>

Arrival == [number : 1..MaxArrivals, valid : BOOLEAN]

TypeOK ==
  /\ calm \in BOOLEAN
  /\ current \in Controllers
  /\ buffer \in [Controllers -> Frames \cup {Empty}]
  /\ ti \in [Controllers -> BOOLEAN]
  /\ ei \in [Controllers -> BOOLEAN]
  /\ fifo \in [Controllers -> Seq(Arrival)]
  /\ queue \in Seq(Frames) /\ Len(queue) <= CAN_SEND_QUEUE_LEN
  /\ inbox \in Seq(1..MaxArrivals) /\ Len(inbox) <= DISPATCHER_QUEUE_LEN
  /\ task \in [Senders -> {"idle", "critical", "blocked", "woken", "expired"}]
  /\ calls \in [Senders -> 0..MaxFrames]
  /\ arrivals \in 0..MaxArrivals
  /\ errors \in 0..MaxErrors
  /\ switches \in 0..MaxSwitches
  /\ stopped \in BOOLEAN
  /\ accepted \subseteq Frames /\ lost \subseteq Frames
  /\ onBus \in Seq(Frames)

Init ==
  /\ calm \in BOOLEAN
  /\ current = Primary
  /\ buffer = [c \in Controllers |-> Empty]
  /\ ti = [c \in Controllers |-> FALSE]
  /\ ei = [c \in Controllers |-> FALSE]
  /\ fifo = [c \in Controllers |-> <<>>]
  /\ queue = <<>> /\ inbox = <<>>
  /\ task = [t \in Senders |-> "idle"]
  /\ calls = [t \in Senders |-> 0]
  /\ arrivals = 0 /\ errors = 0 /\ switches = 0
  /\ stopped = FALSE
  /\ accepted = {} /\ onBus = <<>> /\ lost = {}

\* Interrupts are disabled: a task is between taskENTER_CRITICAL and the end
\* of the section.
Masked == \E t \in Senders : task[t] = "critical"

\* Suspended in xQueueSendToBack, or made ready again and not yet running.
Waits(t) == task[t] \in {"blocked", "woken", "expired"}

Pending(c) == ti[c] \/ ei[c] \/ fifo[c] # <<>>

\* A task runs: nothing else holds the processor.
TaskRuns == ~stopped /\ ~Masked /\ \A c \in Controllers : ~Pending(c)

FrameOf(t) == [from |-> t, seq |-> calls[t]]

-----------------------------------------------------------------------------
(* cants_send_msg                                                          *)

\* taskENTER_CRITICAL
EnterCritical(t) ==
  /\ TaskRuns
  /\ task[t] = "idle" /\ calls[t] < MaxFrames
  /\ task' = [task EXCEPT ![t] = "critical"]
  /\ calls' = [calls EXCEPT ![t] = @ + 1]
  /\ UNCHANGED <<calm, current, hardware, queue, inbox, bounds, stopped, history>>

\* The call returns 1.
Accepted(t) ==
  /\ task' = [task EXCEPT ![t] = "idle"]
  /\ accepted' = accepted \cup {FrameOf(t)}
  /\ UNCHANGED <<calls, stopped, onBus, lost>>

\* The queue stays full: traceQUEUE_SEND_FAILED asserts, and without
\* assertions the call returns 0.
Rejected(t) ==
  /\ task' = [task EXCEPT ![t] = "idle"]
  /\ stopped' = AssertStops
  /\ UNCHANGED <<buffer, queue, calls, history>>

QueueHasRoom == Len(queue) < CAN_SEND_QUEUE_LEN

\* Mutant: the status of the transmit buffer is not checked.
SendDirectly_Unchecked(t) ==
  /\ buffer' = [buffer EXCEPT ![current] = FrameOf(t)]
  /\ UNCHANGED queue
  /\ Accepted(t)

SendDirectly(t) ==
  /\ buffer[current] = Empty
  /\ buffer' = [buffer EXCEPT ![current] = FrameOf(t)]
  /\ UNCHANGED queue
  /\ Accepted(t)

Enqueue(t) ==
  /\ QueueHasRoom
  /\ queue' = Append(queue, FrameOf(t))
  /\ UNCHANGED buffer
  /\ Accepted(t)

\* Mutant: a frame is queued although the transmit buffer is free.
Submit_AlwaysQueues(t, waitAllowed) ==
  /\ ~stopped /\ task[t] = "critical"
  /\ \/ Enqueue(t)
     \/ /\ ~QueueHasRoom
        /\ IF waitAllowed
           THEN /\ task' = [task EXCEPT ![t] = "blocked"]
                /\ UNCHANGED <<buffer, queue, calls, stopped, history>>
           ELSE Rejected(t)
  /\ UNCHANGED <<calm, current, ti, ei, fifo, inbox, bounds>>

\* The rest of the critical section.  xQueueSendToBack blocks only if waiting
\* is allowed.
Submit(t, waitAllowed) ==
  /\ ~stopped /\ task[t] = "critical"
  /\ \/ SendDirectly(t)
     \/ buffer[current] # Empty /\ Enqueue(t)
     \/ /\ buffer[current] # Empty /\ ~QueueHasRoom
        /\ IF waitAllowed
           THEN /\ task' = [task EXCEPT ![t] = "blocked"]
                /\ UNCHANGED <<buffer, queue, calls, stopped, history>>
           ELSE Rejected(t)
  /\ UNCHANGED <<calm, current, ti, ei, fifo, inbox, bounds>>

\* xQueueGenericSend resumes in its loop.  A sender woken by the handler may
\* find the queue full again and blocks for the rest of its block time.
Retry(t) ==
  /\ ~stopped /\ ~Masked
  /\ task[t] \in {"woken", "expired"}
  /\ \/ Enqueue(t)
     \/ ~QueueHasRoom /\ task[t] = "expired" /\ Rejected(t)
     \/ /\ ~QueueHasRoom /\ task[t] = "woken"
        /\ task' = [task EXCEPT ![t] = "blocked"]
        /\ UNCHANGED <<buffer, queue, calls, stopped, history>>
  /\ UNCHANGED <<calm, current, ti, ei, fifo, inbox, bounds>>

\* The block time of a sender ends.
SendTimeout(t) ==
  /\ ~stopped /\ ~Masked
  /\ task[t] = "blocked"
  /\ task' = [task EXCEPT ![t] = "expired"]
  /\ UNCHANGED <<calm, current, hardware, queue, inbox, calls, bounds, stopped, history>>

-----------------------------------------------------------------------------
(* can_int_handler                                                         *)

\* Mutant: a receive interrupt is handled instead of the transmit interrupt.
TakesNext_NotWithReceive(c) ==
  current = c /\ ti[c] /\ queue # <<>> /\ fifo[c] = <<>>

\* The transmit interrupt of the active controller takes the next frame.
TakesNext(c) == current = c /\ ti[c] /\ queue # <<>>

\* can_send_packet does not look whether the transmit buffer is free: what the
\* buffer holds then and the frames that are destroyed.  A controller may
\* ignore writes to a busy buffer or let them through.
AfterWrite(c, frame) ==
  IF buffer[c] = Empty
  THEN {[holds |-> frame, gone |-> {}]}
  ELSE {[holds |-> frame, gone |-> {buffer[c]}],
        [holds |-> buffer[c], gone |-> {frame}]}

AfterTransmitPart(c) ==
  IF TakesNext(c) THEN AfterWrite(c, Head(queue))
                  ELSE {[holds |-> buffer[c], gone |-> {}]}

\* Mutant: the frame is sent and stays at the head of the queue.
QueueAfter_Peek(c) == queue

QueueAfter(c) == IF TakesNext(c) THEN Tail(queue) ELSE queue

\* A frame that leaves the queue wakes one blocked sender.
WakeSender(c) ==
  LET blocked == {t \in Senders : task[t] = "blocked"}
  IN  IF TakesNext(c) /\ blocked # {}
      THEN \E t \in blocked : task' = [task EXCEPT ![t] = "woken"]
      ELSE UNCHANGED task

\* The frames that are extended and no remote requests, as the loop over the
\* receive FIFO reads them one by one.
ValidNumbers(frames) ==
  LET read[n \in 0..Len(frames)] ==
        IF n = 0 THEN <<>>
        ELSE IF frames[n].valid THEN Append(read[n - 1], frames[n].number)
        ELSE read[n - 1]
  IN  read[Len(frames)]

\* Mutant: frames of either controller are dispatched.
Dispatched_AnyBus(c) == ValidNumbers(fifo[c])

Dispatched(c) == IF current = c THEN ValidNumbers(fifo[c]) ELSE <<>>

\* cants_dispatch_isr for each frame; a frame that finds the queue full trips
\* traceQUEUE_SEND_FROM_ISR_FAILED.
Deliver(frames) ==
  LET all == inbox \o frames
      fit == Len(all) <= DISPATCHER_QUEUE_LEN
  IN  /\ inbox' = IF fit THEN all ELSE SubSeq(all, 1, DISPATCHER_QUEUE_LEN)
      /\ stopped' = (~fit /\ AssertStops)

\* The whole handler.  After an error interrupt candrv_init_ctrl resets the
\* controller, which aborts the transmission of the frame in its buffer.
Interrupt(c) ==
  /\ ~stopped /\ ~Masked /\ Pending(c)
  /\ queue' = QueueAfter(c)
  /\ WakeSender(c)
  /\ \E written \in AfterTransmitPart(c) :
       /\ buffer' = [buffer EXCEPT ![c] = IF ei[c] THEN Empty ELSE written.holds]
       /\ lost' = lost \cup written.gone
                       \cup IF ei[c] THEN {written.holds} \ {Empty} ELSE {}
  /\ ti' = [ti EXCEPT ![c] = FALSE]
  /\ ei' = [ei EXCEPT ![c] = FALSE]
  /\ fifo' = [fifo EXCEPT ![c] = <<>>]
  /\ Deliver(Dispatched(c))
  /\ UNCHANGED <<calm, current, calls, bounds, accepted, onBus>>

-----------------------------------------------------------------------------
(* The controllers, the other tasks and the bus                            *)

\* A frame has been transmitted: TBS and IR.TI are set.
TransmitDone(c) ==
  /\ ~stopped /\ buffer[c] # Empty
  /\ calm => ~Masked /\ \A t \in Senders : task[t] \notin {"woken", "expired"}
  /\ buffer' = [buffer EXCEPT ![c] = Empty]
  /\ ti' = [ti EXCEPT ![c] = TRUE]
  /\ onBus' = Append(onBus, buffer[c])
  /\ UNCHANGED <<calm, current, ei, fifo, queue, inbox, task, calls, bounds, stopped,
                 accepted, lost>>

Arrive(c) ==
  /\ ~stopped /\ arrivals < MaxArrivals
  /\ arrivals' = arrivals + 1
  /\ \E valid \in BOOLEAN :
       fifo' = [fifo EXCEPT ![c] = Append(@, [number |-> arrivals', valid |-> valid])]
  /\ UNCHANGED <<calm, current, buffer, ti, ei, queue, inbox, task, calls, errors,
                 switches, stopped, history>>

BusError(c) ==
  /\ ~stopped /\ ~calm /\ errors < MaxErrors
  /\ errors' = errors + 1
  /\ ei' = [ei EXCEPT ![c] = TRUE]
  /\ UNCHANGED <<calm, current, buffer, ti, fifo, queue, inbox, task, calls, arrivals,
                 switches, stopped, history>>

\* candrv_set_bus.  What becomes pending inside its critical section is served
\* after the switch, as if it had come after it.
SetBus(c) ==
  /\ TaskRuns /\ ~calm
  /\ c # current /\ switches < MaxSwitches
  /\ current' = c
  /\ switches' = switches + 1
  /\ UNCHANGED <<calm, hardware, queue, inbox, task, calls, arrivals, errors, stopped,
                 history>>

\* The dispatcher task receives a frame.
Receive ==
  /\ TaskRuns /\ inbox # <<>>
  /\ inbox' = Tail(inbox)
  /\ UNCHANGED <<calm, current, hardware, queue, task, calls, bounds, stopped, history>>

Send(t) ==
  \/ EnterCritical(t)
  \/ \E waitAllowed \in BOOLEAN : Submit(t, waitAllowed)
  \/ Retry(t)

Next ==
  \/ \E t \in Senders : Send(t) \/ SendTimeout(t)
  \/ \E c \in Controllers :
       Interrupt(c) \/ TransmitDone(c) \/ Arrive(c) \/ BusError(c) \/ SetBus(c)
  \/ Receive

Spec == Init /\ [][Next]_vars

\* On a calm bus interrupts are served, controllers transmit what they hold, and
\* a sender that may run, runs.
Fairness ==
  /\ \A c \in Controllers :
       WF_vars(calm /\ Interrupt(c)) /\ WF_vars(calm /\ TransmitDone(c))
  /\ \A t \in Senders : WF_vars(calm /\ Send(t))

FairSpec == Spec /\ Fairness

-----------------------------------------------------------------------------
(* Properties                                                              *)

Sent(frame) == \E n \in DOMAIN onBus : onBus[n] = frame

Copies(frame) ==
    Cardinality({n \in DOMAIN onBus : onBus[n] = frame})
  + Cardinality({n \in DOMAIN queue : queue[n] = frame})
  + Cardinality({c \in Controllers : buffer[c] = frame})
  + IF frame \in lost THEN 1 ELSE 0

\* Whatever interrupts, errors and bus switches come in between, a frame that
\* cants_send_msg accepted is in exactly one place - sent, queued, in a transmit
\* buffer or destroyed - and a frame it did not accept is nowhere.
Conserved ==
  \A frame \in Frames : Copies(frame) = IF frame \in accepted THEN 1 ELSE 0

\* No frame for which cants_send_msg returned 1 is destroyed.
NothingLost == lost = {}

\* A frame cants_send_msg accepted is in exactly one place, whatever interrupts,
\* errors and bus switches come in between; one it refused is nowhere.
FramesConserved == TypeOK /\ Conserved

\* The send queue is only fed again by a transmit interrupt of the active
\* controller: on a calm bus that interrupt is due while frames wait in the
\* queue or senders wait for room in it, so that nothing is left behind.
QueueNotStranded ==
  calm /\ (queue # <<>> \/ \E t \in Senders : Waits(t)) => buffer[current] # Empty \/ ti[current]

\* A frame for which cants_send_msg returned 1 is transmitted, unless an
\* assertion stops the firmware.
SendsWhatItAccepts ==
  calm => \A frame \in Frames : frame \in accepted ~> Sent(frame) \/ stopped

\* The transmit buffer of the selected controller and the queue behind it are the
\* frames of TxChannel that are not yet on the bus.
CalmChannel == INSTANCE TxChannel WITH
  pending <- IF calm THEN (IF buffer[current] = Empty THEN <<>> ELSE <<buffer[current]>>) \o queue
             ELSE <<>>,
  onBus <- IF calm THEN onBus ELSE <<>>

\* On a calm bus senders and interrupt handler together are a FIFO channel.
ImplementsFifo == CalmChannel!Spec

\* The dispatcher gets the frames of the selected bus in the order in which they
\* arrived, across bus switches and resets.
InboxInOrder == \A m, n \in DOMAIN inbox : m < n => inbox[m] < inbox[n]
=============================================================================
