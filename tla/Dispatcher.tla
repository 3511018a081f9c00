------------------------------ MODULE Dispatcher ------------------------------
(***************************************************************************)
(* The dispatcher task (src/cants/cants.c) between the CAN interrupt and   *)
(* the tasks that serve the frames, and the telecommand task               *)
(* (src/cants/tctm.c) behind it.  The dispatcher takes one frame at a time *)
(* from its queue and either handles it itself, or passes it to the queue  *)
(* of the task for its type, for which it may have to wait, or answers it  *)
(* with a nack.  The telemetry and block tasks appear as consumers of      *)
(* their queues.                                                           *)
(*                                                                         *)
(* A frame is known by its arrival number; of its contents the model keeps *)
(* what routing and the telecommand handler look at.                       *)
(***************************************************************************)
EXTENDS Naturals, Sequences, FiniteSets

CONSTANTS
  MaxFrames,            \* bound: frames that arrive
  DISPATCHER_QUEUE_LEN,
  QueueLen,             \* lengths of the queues of the serving tasks, by type
  AssertStops,          \* Assert(0) stops the firmware, as Assert.h builds it
  None                  \* no frame

Served == {"telecommand", "telemetry", "set_block", "get_block"}

ASSUME DispatcherAssumption ==
  /\ MaxFrames \in Nat
  /\ DISPATCHER_QUEUE_LEN \in Nat \ {0}
  /\ QueueLen \in [Served -> Nat \ {0}]
  /\ AssertStops \in BOOLEAN

\* A telecommand or telemetry frame is a request or not; a telecommand names a
\* channel the application knows, with the right length, or not.
Frame ==
  [id : 1..MaxFrames, type : {"telecommand", "telemetry"},
   request : BOOLEAN, known : BOOLEAN]
  \cup [id : 1..MaxFrames, type : {"set_block", "get_block", "time_sync",
                                   "unsolicited_tm", "unassigned"}]

\* An acknowledgement or nack; `sent' is the result of cants_send_msg.
Answer == [id : 1..MaxFrames, ack : BOOLEAN, sent : BOOLEAN]

ASSUME NoneAssumption == None \notin Frame

VARIABLES
  arrived,   \* frames that have arrived, for the bound
  inbox,     \* dispatcher_queue
  msg,       \* frame in the hands of the dispatcher
  step,      \* where the dispatcher is with it
  queues,    \* queues of the serving tasks
  command,   \* telecommand in the hands of the TC task
  answers,   \* history: answers made, in order, sent or not
  executed,  \* history: telecommands carried out, in order
  handled,   \* history: frames that ended without an answer
  stopped    \* an assertion stopped the firmware

vars == <<arrived, inbox, msg, step, queues, command, answers, executed, handled, stopped>>

TypeOK ==
  /\ arrived \in 0..MaxFrames
  /\ inbox \in Seq(Frame) /\ Len(inbox) <= DISPATCHER_QUEUE_LEN
  /\ msg \in Frame \cup {None}
  /\ step \in {"receive", "route", "wait", "nack"}
  /\ (msg = None) = (step = "receive")
  /\ \A type \in Served : /\ queues[type] \in Seq(Frame)
                          /\ Len(queues[type]) <= QueueLen[type]
  /\ command \in Frame \cup {None}
  /\ answers \in Seq(Answer)
  /\ executed \in Seq(1..MaxFrames)
  /\ handled \subseteq 1..MaxFrames
  /\ stopped \in BOOLEAN

Init ==
  /\ arrived = 0
  /\ inbox = <<>> /\ msg = None /\ step = "receive"
  /\ queues = [type \in Served |-> <<>>]
  /\ command = None
  /\ answers = <<>> /\ executed = <<>> /\ handled = {}
  /\ stopped = FALSE

-----------------------------------------------------------------------------
(* The interrupt handler                                                   *)

\* cants_dispatch_isr: a frame that finds the queue full is dropped, after
\* traceQUEUE_SEND_FROM_ISR_FAILED.
Arrive(frame) ==
  /\ ~stopped
  /\ arrived < MaxFrames /\ frame.id = arrived + 1
  /\ arrived' = arrived + 1
  /\ IF Len(inbox) < DISPATCHER_QUEUE_LEN
     THEN inbox' = Append(inbox, frame) /\ UNCHANGED <<handled, stopped>>
     ELSE /\ stopped' = AssertStops
          /\ handled' = handled \cup {frame.id}
          /\ UNCHANGED inbox
  /\ UNCHANGED <<msg, step, queues, command, answers, executed>>

-----------------------------------------------------------------------------
(* The dispatcher                                                          *)

Receive ==
  /\ ~stopped
  /\ step = "receive" /\ inbox # <<>>
  /\ msg' = Head(inbox) /\ inbox' = Tail(inbox)
  /\ step' = "route"
  /\ UNCHANGED <<arrived, queues, command, answers, executed, handled, stopped>>

IsTcTm(frame) == frame.type \in {"telecommand", "telemetry"}

\* Time sync and unsolicited telemetry are handled in the dispatcher, other
\* types have no case in the switch.
HandleHere ==
  /\ msg.type \notin Served
  /\ handled' = handled \cup {msg.id}
  /\ msg' = None /\ step' = "receive"
  /\ UNCHANGED <<queues, answers, stopped>>

\* tctm_process takes only requests; block_process takes every block frame.
Accepts(frame) ==
  frame.type \in Served /\ (IsTcTm(frame) => frame.request)

HasRoom(type) == Len(queues[type]) < QueueLen[type]

\* Mutant: a frame overtakes those that wait for the same task.
PassOn_ToFront ==
  /\ Accepts(msg) /\ HasRoom(msg.type)
  /\ queues' = [queues EXCEPT ![msg.type] = <<msg>> \o @]
  /\ msg' = None /\ step' = "receive"
  /\ UNCHANGED <<answers, handled, stopped>>

\* Mutant: the nack flag of an earlier frame is still set.
PassOn_StaleFlag ==
  /\ Accepts(msg) /\ HasRoom(msg.type)
  /\ queues' = [queues EXCEPT ![msg.type] = Append(@, msg)]
  /\ step' = "nack"
  /\ UNCHANGED <<msg, answers, handled, stopped>>

\* xQueueSendToBack succeeds.
PassOn ==
  /\ Accepts(msg) /\ HasRoom(msg.type)
  /\ queues' = [queues EXCEPT ![msg.type] = Append(@, msg)]
  /\ msg' = None /\ step' = "receive"
  /\ UNCHANGED <<answers, handled, stopped>>

\* xQueueSendToBack blocks, for at most 10 ms.
StartWait ==
  /\ step = "route" /\ Accepts(msg) /\ ~HasRoom(msg.type)
  /\ step' = "wait"
  /\ UNCHANGED <<msg, queues, answers, handled, stopped>>

\* The block time ends and the queue is still full: traceQUEUE_SEND_FAILED,
\* and without assertions errQUEUE_FULL.
GiveUp ==
  /\ step = "wait" /\ ~HasRoom(msg.type)
  /\ stopped' = AssertStops
  /\ step' = "nack"
  /\ UNCHANGED <<msg, queues, answers, handled>>

\* tctm_process returns 0 for anything but a request.
Disregard ==
  /\ step = "route" /\ msg.type \in Served /\ ~Accepts(msg)
  /\ step' = "nack"
  /\ UNCHANGED <<msg, queues, answers, handled, stopped>>

\* cants_send_msg with an answer to a frame: the driver takes it, or its queue
\* stays full for 10 ms, which trips traceQUEUE_SEND_FAILED and, without
\* assertions, loses the answer, because nobody looks at the result.
SendAnswer(id, ack) ==
  \E sent \in BOOLEAN :
    /\ answers' = Append(answers, [id |-> id, ack |-> ack, sent |-> sent])
    /\ stopped' = (AssertStops /\ ~sent)

\* tctm_send_ack(&msg, 0) or block_send_ack(&msg, 0, 1)
Nack ==
  /\ step = "nack"
  /\ SendAnswer(msg.id, FALSE)
  /\ msg' = None /\ step' = "receive"
  /\ UNCHANGED <<queues, handled>>

Dispatch ==
  /\ ~stopped
  /\ \/ step = "route" /\ HandleHere
     \/ step \in {"route", "wait"} /\ PassOn
     \/ StartWait
     \/ GiveUp
     \/ Disregard
     \/ Nack
  /\ UNCHANGED <<arrived, inbox, command, executed>>

-----------------------------------------------------------------------------
(* The serving tasks                                                       *)

\* The TC task takes the next telecommand and carries it out.
TcReceive ==
  /\ ~stopped
  /\ command = None /\ queues["telecommand"] # <<>>
  /\ LET next == Head(queues["telecommand"])
     IN  /\ command' = next
         /\ executed' = IF next.known THEN Append(executed, next.id) ELSE executed
  /\ queues' = [queues EXCEPT !["telecommand"] = Tail(@)]
  /\ UNCHANGED <<arrived, inbox, msg, step, answers, handled, stopped>>

\* Mutant: a telecommand that fails is not answered.
TcAnswer_OnlyAcks ==
  /\ ~stopped
  /\ command # None
  /\ IF command.known THEN SendAnswer(command.id, TRUE) ELSE UNCHANGED <<answers, stopped>>
  /\ command' = None
  /\ UNCHANGED <<arrived, inbox, msg, step, queues, executed, handled>>

\* tctm_send_ack with the result of the handler
TcAnswer ==
  /\ ~stopped
  /\ command # None
  /\ SendAnswer(command.id, command.known)
  /\ command' = None
  /\ UNCHANGED <<arrived, inbox, msg, step, queues, executed, handled>>

\* Another task takes a frame from its queue.
Consume(type) ==
  /\ ~stopped
  /\ type # "telecommand" /\ queues[type] # <<>>
  /\ handled' = handled \cup {Head(queues[type]).id}
  /\ queues' = [queues EXCEPT ![type] = Tail(@)]
  /\ UNCHANGED <<arrived, inbox, msg, step, command, answers, executed, stopped>>

Next ==
  \/ \E frame \in Frame : Arrive(frame)
  \/ Receive
  \/ Dispatch
  \/ TcReceive
  \/ TcAnswer
  \/ \E type \in Served : Consume(type)

Spec == Init /\ [][Next]_vars

\* The dispatcher and the TC task run whenever they have something to do; a
\* blocked send ends after 10 ms at the latest.
Fairness ==
  /\ WF_vars(Receive) /\ WF_vars(Dispatch)
  /\ WF_vars(TcReceive) /\ WF_vars(TcAnswer)

FairSpec == Spec /\ Fairness

-----------------------------------------------------------------------------
(* Properties                                                              *)

IdsIn(seq) == {seq[n].id : n \in DOMAIN seq}

Answered(id) == id \in IdsIn(answers)

Ascending(seq) == \A m, n \in DOMAIN seq : m < n => seq[m] < seq[n]

Holds(frame, id) == frame # None /\ frame.id = id

\* The positions of a frame in a queue, and its position where only one frame
\* can be.
InQueue(label, seq, id) == {<<label, n>> : n \in {n \in DOMAIN seq : seq[n].id = id}}
InHand(label, present) == {<<label, n>> : n \in {n \in {0} : present}}

\* Where a frame is.
Places(id) ==
  UNION ({InQueue("inbox", inbox, id), InQueue("answer", answers, id),
          InHand("dispatcher", Holds(msg, id)), InHand("TC task", Holds(command, id)),
          InHand("handled", id \in handled)}
         \cup {InQueue(type, queues[type], id) : type \in Served})

\* Every frame that arrived is in exactly one place: none is lost between the
\* queues, served and nacked, or answered twice.  Whether its answer gets past the
\* driver is another matter.
InOnePlace == \A id \in 1..arrived : Cardinality(Places(id)) = 1

\* A telecommand is carried out before it is acknowledged, and no frame that was
\* answered with a nack is ever carried out.
AckMeansDone ==
  \A n \in DOMAIN answers :
    answers[n].ack <=> \E m \in DOMAIN executed : executed[m] = answers[n].id

\* Telecommands are carried out in the order in which they arrived, also when
\* the dispatcher had to wait for room in the queue of their task.
CommandsInOrder == Ascending(executed)

\* Telecommands are carried out in order, and what the TC task answers is an
\* acknowledgement if and only if it carried the telecommand out.
CommandsCarriedOut == TypeOK /\ CommandsInOrder /\ AckMeansDone

\* Every telecommand request that reached the dispatcher's queue is acknowledged
\* or nacked, with an answer that the driver may refuse, unless an assertion
\* stops the firmware.  Frames that are no requests are not spoken of.
TelecommandsAnswered ==
  \A id \in 1..MaxFrames :
    (\E n \in DOMAIN inbox :
       inbox[n].id = id /\ inbox[n].type = "telecommand" /\ inbox[n].request)
      ~> Answered(id) \/ stopped
=============================================================================
