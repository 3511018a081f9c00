----------------------------- MODULE Node_proofs -----------------------------
(***************************************************************************)
(* Theorems about the tasks of the node around the block transfers.        *)
(*                                                                         *)
(* The dispatcher and the telecommand task, for queues of any length: the  *)
(* order of telecommands, what an acknowledgement means, and that no frame *)
(* is in two places.  The keep-alives that the telemetry task sends, for   *)
(* every period and every range and set of readable channels, and the bus  *)
(* switches of the redundancy task, which waits for the master's, for      *)
(* every period and numbers of misses and switches.  The way of a message  *)
(* through the registers of two controllers, for every value of its        *)
(* fields, every mask of the filter and every set of addresses that        *)
(* FrameAssumption admits, and the search for the bit timing, for every    *)
(* clock, bit rate and sampling point that TimingAssumption admits.        *)
(***************************************************************************)
EXTENDS Dispatcher, Telemetry, Redundancy, CanFrame, FiniteSetTheorems,
        NaturalsInduction, WellFoundedInduction, TLAPS

-----------------------------------------------------------------------------
(* Frames on their way                                                     *)

TcQueue == queues["telecommand"]
InMsg == IF msg = None THEN {} ELSE {msg.id}
InCommand == IF command = None THEN {} ELSE {command.id}
Executed == {executed[n] : n \in DOMAIN executed}

\* What has not come as far as the queue of the TC task.
Upstream == InMsg \cup IdsIn(inbox)

Before(S, T) == \A i \in S, j \in T : i < j

Sorted(seq) == \A m, n \in DOMAIN seq : m < n => seq[m].id < seq[n].id

\* TypeOK, and what the types of the queues add to it.
Typed ==
  /\ TypeOK
  /\ queues \in [Served -> Seq(Frame)]
  /\ \A n \in DOMAIN TcQueue : TcQueue[n].type = "telecommand"
  /\ command # None => command.type = "telecommand"

\* Whatever is further on its way to the TC task arrived earlier.
PipelineInOrder ==
  /\ Sorted(inbox) /\ Sorted(TcQueue) /\ Ascending(executed)
  /\ Before(InMsg, IdsIn(inbox))
  /\ Before(IdsIn(TcQueue), Upstream)
  /\ Before(Executed \cup InCommand, IdsIn(TcQueue) \cup Upstream)
  /\ \A id \in Executed \cup InCommand \cup IdsIn(TcQueue) \cup Upstream : id <= arrived

\* A frame with a nack is nowhere on its way to being carried out; one with an
\* acknowledgement has been carried out.
AnswersTrue ==
  /\ command # None => (command.known <=> command.id \in Executed)
  /\ \A n \in DOMAIN answers :
       IF answers[n].ack
       THEN answers[n].id \in Executed
       ELSE /\ answers[n].id \notin Executed \cup IdsIn(TcQueue) \cup Upstream
            /\ answers[n].id <= arrived

-----------------------------------------------------------------------------
(* Sequences of frames                                                     *)

LEMMA FrameId == \A frame \in Frame : frame.id \in Nat /\ frame.id \in 1..MaxFrames
BY DispatcherAssumption DEF Frame

LEMMA AppendFrame ==
  ASSUME NEW seq \in Seq(Frame), NEW frame \in Frame
  PROVE  /\ Append(seq, frame) \in Seq(Frame)
         /\ IdsIn(Append(seq, frame)) = IdsIn(seq) \cup {frame.id}
         /\ Sorted(seq) /\ Before(IdsIn(seq), {frame.id}) => Sorted(Append(seq, frame))
         /\ Len(Append(seq, frame)) = Len(seq) + 1
<1> DEFINE longer == Append(seq, frame)
<1>1. /\ longer \in Seq(Frame) /\ Len(longer) = Len(seq) + 1 /\ Len(seq) \in Nat
      /\ \A n \in 1..Len(seq) : longer[n] = seq[n]
      /\ longer[Len(seq) + 1] = frame
      /\ DOMAIN seq = 1..Len(seq) /\ DOMAIN longer = 1..(Len(seq) + 1)
  OBVIOUS
<1> HIDE DEF longer
<1>2. DOMAIN longer = DOMAIN seq \cup {Len(seq) + 1}
  BY <1>1
<1>3. IdsIn(longer) = IdsIn(seq) \cup {frame.id}
  BY <1>1, <1>2 DEF IdsIn
<1>4. ASSUME Sorted(seq), Before(IdsIn(seq), {frame.id}) PROVE Sorted(longer)
  <2> SUFFICES ASSUME NEW m \in DOMAIN longer, NEW n \in DOMAIN longer, m < n
               PROVE  longer[m].id < longer[n].id
    BY DEF Sorted
  <2>1. m \in DOMAIN seq
    BY <1>1
  <2>2. CASE n \in DOMAIN seq
    BY <1>1, <1>4, <2>1, <2>2 DEF Sorted
  <2>3. CASE n = Len(seq) + 1
    <3>1. seq[m].id \in IdsIn(seq)
      BY <2>1 DEF IdsIn
    <3> QED BY <1>1, <1>4, <2>1, <2>3, <3>1 DEF Before
  <2> QED BY <1>2, <2>2, <2>3
<1> QED BY <1>1, <1>3, <1>4 DEF longer

LEMMA TailFrame ==
  ASSUME NEW seq \in Seq(Frame), seq # <<>>
  PROVE  /\ Head(seq) \in Frame /\ Tail(seq) \in Seq(Frame)
         /\ IdsIn(seq) = {Head(seq).id} \cup IdsIn(Tail(seq))
         /\ Sorted(seq) => Sorted(Tail(seq)) /\ Before({Head(seq).id}, IdsIn(Tail(seq)))
         /\ Len(Tail(seq)) = Len(seq) - 1
         /\ Head(seq) = seq[1] /\ 1 \in DOMAIN seq
         /\ \A n \in DOMAIN Tail(seq) : n + 1 \in DOMAIN seq /\ Tail(seq)[n] = seq[n + 1]
<1> DEFINE rest == Tail(seq)
<1>1. /\ Head(seq) = seq[1] /\ Head(seq) \in Frame /\ rest \in Seq(Frame)
      /\ Len(rest) = Len(seq) - 1 /\ Len(seq) \in Nat /\ Len(seq) > 0
      /\ \A n \in 1..(Len(seq) - 1) : rest[n] = seq[n + 1]
      /\ DOMAIN seq = 1..Len(seq) /\ DOMAIN rest = 1..(Len(seq) - 1)
  OBVIOUS
<1> HIDE DEF rest
<1>2. 1 \in DOMAIN seq /\ \A n \in DOMAIN rest : n \in Nat /\ n + 1 \in DOMAIN seq /\ rest[n] = seq[n + 1] /\ 1 < n + 1
  BY <1>1
<1>3. \A n \in DOMAIN seq : n = 1 \/ (n - 1 \in DOMAIN rest /\ rest[n - 1] = seq[n])
  BY <1>1
<1>4. IdsIn(seq) = {Head(seq).id} \cup IdsIn(rest)
  BY <1>1, <1>2, <1>3 DEF IdsIn
<1>5. ASSUME Sorted(seq) PROVE Sorted(rest) /\ Before({Head(seq).id}, IdsIn(rest))
  <2>1. Sorted(rest)
    <3> SUFFICES ASSUME NEW m \in DOMAIN rest, NEW n \in DOMAIN rest, m < n
                 PROVE  rest[m].id < rest[n].id
      BY DEF Sorted
    <3>1. m + 1 < n + 1
      BY <1>2
    <3> QED BY <1>2, <1>5, <3>1 DEF Sorted
  <2>2. \A n \in DOMAIN rest : Head(seq).id < rest[n].id
    BY <1>1, <1>2, <1>5 DEF Sorted
  <2> QED BY <2>1, <2>2 DEF Before, IdsIn
<1> QED BY <1>1, <1>2, <1>4, <1>5 DEF rest

LEMMA TelecommandFields ==
  ASSUME NEW frame \in Frame, frame.type = "telecommand"
  PROVE  frame.known \in BOOLEAN
BY DEF Frame

-----------------------------------------------------------------------------
(* Types                                                                   *)

\* An answer is recorded, whether the driver takes it or not.
LEMMA AnswerMade ==
  ASSUME NEW id \in 1..MaxFrames, NEW ack \in BOOLEAN, SendAnswer(id, ack)
  PROVE  /\ \E new \in Answer : /\ new.id = id /\ new.ack = ack
                                /\ answers' = Append(answers, new)
         /\ stopped' \in BOOLEAN
<1>1. PICK sent \in BOOLEAN :
        /\ answers' = Append(answers, [id |-> id, ack |-> ack, sent |-> sent])
        /\ stopped' = (AssertStops /\ ~sent)
  BY DEF SendAnswer
<1> DEFINE new == [id |-> id, ack |-> ack, sent |-> sent]
<1>2. new \in Answer /\ new.id = id /\ new.ack = ack
  BY DEF Answer
<1> QED BY <1>1, <1>2

LEMMA TypedInit == Init => Typed
<1> SUFFICES ASSUME Init PROVE Typed
  OBVIOUS
<1>1. \A type \in Served : QueueLen[type] \in Nat
  BY DispatcherAssumption
<1>2. queues \in [Served -> Seq(Frame)] /\ \A type \in Served : queues[type] = <<>>
  BY DEF Init
<1>3. TcQueue = <<>>
  BY <1>2 DEF TcQueue, Served
<1>4. \A type \in Served : queues[type] \in Seq(Frame) /\ Len(queues[type]) <= QueueLen[type]
  BY <1>1, <1>2
<1>5. TypeOK
  <2>1. arrived \in 0..MaxFrames /\ inbox \in Seq(Frame) /\ Len(inbox) <= DISPATCHER_QUEUE_LEN
    BY DispatcherAssumption DEF Init
  <2>2. answers \in Seq(Answer) /\ executed \in Seq(1..MaxFrames)
    BY DEF Init
  <2>3. /\ msg \in Frame \cup {None} /\ command \in Frame \cup {None}
        /\ step \in {"receive", "route", "wait", "nack"} /\ (msg = None) = (step = "receive")
        /\ handled \subseteq 1..MaxFrames /\ stopped \in BOOLEAN
    BY DEF Init
  <2> QED BY <1>4, <2>1, <2>2, <2>3 DEF TypeOK
<1> QED BY <1>2, <1>3, <1>5 DEF Init, Typed

\* Queues of the serving tasks when one of them changes.
LEMMA QueuesTyped ==
  ASSUME Typed, NEW type \in Served, NEW seq \in Seq(Frame), Len(seq) <= QueueLen[type],
         queues' = [queues EXCEPT ![type] = seq],
         type = "telecommand" => \A n \in DOMAIN seq : seq[n].type = "telecommand"
  PROVE  /\ queues' \in [Served -> Seq(Frame)]
         /\ \A t \in Served : queues'[t] \in Seq(Frame) /\ Len(queues'[t]) <= QueueLen[t]
         /\ \A n \in DOMAIN TcQueue' : TcQueue'[n].type = "telecommand"
         /\ TcQueue' = IF type = "telecommand" THEN seq ELSE TcQueue
<1>1. queues \in [Served -> Seq(Frame)] /\ "telecommand" \in Served
      /\ \A t \in Served : Len(queues[t]) <= QueueLen[t]
  BY DEF Typed, TypeOK, Served
<1>2. \A t \in Served : queues'[t] = IF t = type THEN seq ELSE queues[t]
  BY <1>1
<1>3. queues' \in [Served -> Seq(Frame)]
  BY <1>1
<1>4. TcQueue' = IF type = "telecommand" THEN seq ELSE TcQueue
  BY <1>1, <1>2 DEF TcQueue
<1>5. \A n \in DOMAIN TcQueue' : TcQueue'[n].type = "telecommand"
  BY <1>4 DEF Typed
<1>6. \A t \in Served : queues'[t] \in Seq(Frame) /\ Len(queues'[t]) <= QueueLen[t]
  BY <1>1, <1>2
<1> QED BY <1>3, <1>4, <1>5, <1>6

\* The interrupt handler and the first step of the dispatcher.
LEMMA TypedInbox == Typed /\ ((\E frame \in Frame : Arrive(frame)) \/ Receive) => Typed'
<1> SUFFICES ASSUME Typed, (\E frame \in Frame : Arrive(frame)) \/ Receive PROVE Typed'
  OBVIOUS
<1>1. inbox \in Seq(Frame) /\ Len(inbox) \in Nat /\ Len(inbox) <= DISPATCHER_QUEUE_LEN
      /\ DISPATCHER_QUEUE_LEN \in Nat
  BY DispatcherAssumption DEF Typed, TypeOK
<1>2. ASSUME NEW frame \in Frame, Arrive(frame) PROVE Typed'
  <2>1. inbox' \in Seq(Frame) /\ Len(inbox') <= DISPATCHER_QUEUE_LEN
    BY <1>1, <1>2, AppendFrame DEF Arrive
  <2>2. handled' \subseteq 1..MaxFrames /\ stopped' \in BOOLEAN
    BY <1>2, FrameId, DispatcherAssumption DEF Arrive, Typed, TypeOK
  <2>3. arrived' \in 0..MaxFrames
    BY <1>2, DispatcherAssumption DEF Arrive, Typed, TypeOK
  <2>4. UNCHANGED <<msg, step, queues, command, answers, executed>>
    BY <1>2 DEF Arrive
  <2> QED BY <2>1, <2>2, <2>3, <2>4 DEF Typed, TypeOK, TcQueue
<1>3. CASE Receive
  <2>1. inbox' = Tail(inbox) /\ msg' = Head(inbox) /\ inbox # <<>> /\ step' = "route"
    BY <1>3 DEF Receive
  <2>2. inbox' \in Seq(Frame) /\ Len(inbox') <= DISPATCHER_QUEUE_LEN /\ msg' \in Frame
    BY <1>1, <2>1, TailFrame
  <2>3. msg' # None
    BY <2>2, NoneAssumption
  <2> QED BY <1>3, <2>1, <2>2, <2>3 DEF Receive, Typed, TypeOK, TcQueue
<1> QED BY <1>2, <1>3

\* The other steps of the dispatcher.
LEMMA TypedDispatch == Typed /\ Dispatch => Typed'
<1> SUFFICES ASSUME Typed, Dispatch PROVE Typed'
  OBVIOUS
<1>1. step # "receive" => msg \in Frame /\ msg.id \in 1..MaxFrames
  BY FrameId DEF Typed, TypeOK
<1>2. UNCHANGED <<arrived, inbox, command, executed>>
  BY DEF Dispatch
<1>3. CASE step = "route" /\ HandleHere
  <2>1. handled' \subseteq 1..MaxFrames
    BY <1>1, <1>3 DEF HandleHere, Typed, TypeOK
  <2> QED BY <1>2, <1>3, <2>1 DEF HandleHere, Typed, TypeOK, TcQueue
<1>4. CASE step \in {"route", "wait"} /\ PassOn
  <2>1. msg \in Frame /\ msg.type \in Served /\ Len(queues[msg.type]) < QueueLen[msg.type]
        /\ queues' = [queues EXCEPT ![msg.type] = Append(queues[msg.type], msg)]
    BY <1>1, <1>4 DEF PassOn, Accepts, HasRoom
  <2> DEFINE seq == queues[msg.type]
  <2>2. seq \in Seq(Frame) /\ Len(seq) \in Nat /\ QueueLen[msg.type] \in Nat
    <3>1. queues \in [Served -> Seq(Frame)] /\ QueueLen \in [Served -> Nat \ {0}]
      BY DispatcherAssumption DEF Typed
    <3> QED BY <2>1, <3>1
  <2>3. Append(seq, msg) \in Seq(Frame) /\ Len(Append(seq, msg)) <= QueueLen[msg.type]
    BY <2>1, <2>2, AppendFrame
  <2>4. msg.type = "telecommand" =>
          \A n \in DOMAIN Append(seq, msg) : Append(seq, msg)[n].type = "telecommand"
    <3> SUFFICES ASSUME msg.type = "telecommand",
                        NEW n \in DOMAIN Append(seq, msg)
                 PROVE  Append(seq, msg)[n].type = "telecommand"
      OBVIOUS
    <3>1. Append(seq, msg)[n] = msg \/ (n \in DOMAIN seq /\ Append(seq, msg)[n] = seq[n])
      BY <2>1, <2>2
    <3> QED BY <3>1 DEF Typed, TcQueue
  <2> HIDE DEF seq
  <2>5. queues' = [queues EXCEPT ![msg.type] = Append(seq, msg)]
    BY <2>1 DEF seq
  <2>6. /\ queues' \in [Served -> Seq(Frame)]
        /\ \A t \in Served : queues'[t] \in Seq(Frame) /\ Len(queues'[t]) <= QueueLen[t]
        /\ \A n \in DOMAIN TcQueue' : TcQueue'[n].type = "telecommand"
    BY <2>1, <2>3, <2>4, <2>5, QueuesTyped
  <2> QED BY <1>2, <1>4, <2>6 DEF PassOn, Typed, TypeOK
<1>5. CASE StartWait \/ GiveUp \/ Disregard
  <2>1. stopped' \in BOOLEAN /\ step # "receive" /\ step' \in {"wait", "nack"}
    BY <1>5, DispatcherAssumption DEF StartWait, GiveUp, Disregard, Typed, TypeOK
  <2>2. UNCHANGED <<msg, queues, answers, handled>>
    BY <1>5 DEF StartWait, GiveUp, Disregard
  <2> QED BY <1>2, <2>1, <2>2 DEF Typed, TypeOK, TcQueue
<1>6. CASE Nack
  <2>1. SendAnswer(msg.id, FALSE) /\ msg.id \in 1..MaxFrames
    BY <1>1, <1>6 DEF Nack
  <2>2. answers' \in Seq(Answer) /\ stopped' \in BOOLEAN
    <3>1. stopped' \in BOOLEAN /\ \E new \in Answer : answers' = Append(answers, new)
      BY <2>1, AnswerMade
    <3>2. answers \in Seq(Answer)
      BY DEF Typed, TypeOK
    <3> QED BY <3>1, <3>2
  <2> QED BY <1>2, <1>6, <2>2 DEF Nack, Typed, TypeOK, TcQueue
<1> QED BY <1>3, <1>4, <1>5, <1>6 DEF Dispatch

\* The serving tasks.
LEMMA TypedTasks == Typed /\ (TcReceive \/ TcAnswer \/ \E type \in Served : Consume(type)) => Typed'
<1> SUFFICES ASSUME Typed, TcReceive \/ TcAnswer \/ \E type \in Served : Consume(type)
             PROVE  Typed'
  OBVIOUS
<1>1. \A type \in Served : queues[type] \in Seq(Frame) /\ Len(queues[type]) \in Nat
                           /\ Len(queues[type]) <= QueueLen[type] /\ QueueLen[type] \in Nat
  BY DispatcherAssumption DEF Typed, TypeOK
<1>2. CASE TcReceive
  <2>1. TcQueue \in Seq(Frame) /\ TcQueue # <<>> /\ "telecommand" \in Served
        /\ queues' = [queues EXCEPT !["telecommand"] = Tail(TcQueue)]
    BY <1>1, <1>2 DEF TcReceive, TcQueue, Served
  <2>2. command' = Head(TcQueue) /\ command' \in Frame /\ command'.type = "telecommand"
    BY <1>2, <2>1, TailFrame DEF TcReceive, TcQueue, Typed
  <2>3. executed' \in Seq(1..MaxFrames)
    <3>1. executed' = executed \/ executed' = Append(executed, command'.id)
      BY <1>2 DEF TcReceive
    <3>2. executed \in Seq(1..MaxFrames) /\ command'.id \in 1..MaxFrames
      BY <2>2, FrameId DEF Typed, TypeOK
    <3>3. Append(executed, command'.id) \in Seq(1..MaxFrames)
      BY <3>2
    <3> QED BY <3>1, <3>2, <3>3
  <2>4. Tail(TcQueue) \in Seq(Frame) /\ Len(Tail(TcQueue)) <= QueueLen["telecommand"]
        /\ \A n \in DOMAIN Tail(TcQueue) : Tail(TcQueue)[n].type = "telecommand"
    <3>1. Len(TcQueue) \in Nat /\ Len(TcQueue) <= QueueLen["telecommand"]
          /\ QueueLen["telecommand"] \in Nat
      BY <1>1, <2>1 DEF TcQueue
    <3> QED BY <2>1, <3>1, TailFrame DEF Typed
  <2>5. /\ queues' \in [Served -> Seq(Frame)]
        /\ \A t \in Served : queues'[t] \in Seq(Frame) /\ Len(queues'[t]) <= QueueLen[t]
        /\ \A n \in DOMAIN TcQueue' : TcQueue'[n].type = "telecommand"
    BY <2>1, <2>4, QueuesTyped
  <2> QED BY <1>2, <2>2, <2>3, <2>5 DEF TcReceive, Typed, TypeOK
<1>3. CASE TcAnswer
  <2>1. /\ command.id \in 1..MaxFrames /\ command.known \in BOOLEAN
        /\ SendAnswer(command.id, command.known)
    BY <1>3, FrameId, TelecommandFields DEF TcAnswer, Typed, TypeOK
  <2>2. answers' \in Seq(Answer) /\ stopped' \in BOOLEAN
    <3>1. stopped' \in BOOLEAN /\ \E new \in Answer : answers' = Append(answers, new)
      BY <2>1, AnswerMade
    <3>2. answers \in Seq(Answer)
      BY DEF Typed, TypeOK
    <3> QED BY <3>1, <3>2
  <2> QED BY <1>3, <2>2 DEF TcAnswer, Typed, TypeOK, TcQueue
<1>4. ASSUME NEW type \in Served, Consume(type) PROVE Typed'
  <2>1. Head(queues[type]) \in Frame /\ Tail(queues[type]) \in Seq(Frame)
        /\ Len(Tail(queues[type])) <= QueueLen[type]
        /\ queues' = [queues EXCEPT ![type] = Tail(queues[type])]
        /\ type # "telecommand"
    BY <1>1, <1>4, TailFrame DEF Consume
  <2>2. /\ queues' \in [Served -> Seq(Frame)]
        /\ \A t \in Served : queues'[t] \in Seq(Frame) /\ Len(queues'[t]) <= QueueLen[t]
        /\ \A n \in DOMAIN TcQueue' : TcQueue'[n].type = "telecommand"
    BY <2>1, QueuesTyped
  <2>3. handled' \subseteq 1..MaxFrames
    BY <1>4, <2>1, FrameId DEF Consume, Typed, TypeOK
  <2> QED BY <1>4, <2>2, <2>3 DEF Consume, Typed, TypeOK
<1> QED BY <1>2, <1>3, <1>4

LEMMA TypedNext == Typed /\ [Next]_vars => Typed'
<1>1. CASE UNCHANGED vars
  BY <1>1 DEF vars, Typed, TypeOK, TcQueue
<1> QED BY <1>1, TypedInbox, TypedDispatch, TypedTasks DEF Next

-----------------------------------------------------------------------------
(* Order                                                                   *)

DispatchInv == Typed /\ PipelineInOrder /\ AnswersTrue

\* The numbers of all frames on their way.
LEMMA NumbersNat ==
  ASSUME Typed
  PROVE  /\ InMsg \subseteq Nat /\ InCommand \subseteq Nat /\ Executed \subseteq Nat
         /\ IdsIn(inbox) \subseteq Nat /\ IdsIn(TcQueue) \subseteq Nat
         /\ Upstream \subseteq Nat /\ arrived \in Nat
         /\ TcQueue \in Seq(Frame) /\ inbox \in Seq(Frame)
<1>1. TcQueue \in Seq(Frame) /\ inbox \in Seq(Frame)
  BY DEF Typed, TypeOK, TcQueue, Served
<1>2. IdsIn(TcQueue) \subseteq Nat /\ IdsIn(inbox) \subseteq Nat
  BY <1>1, FrameId DEF IdsIn
<1>3. InMsg \subseteq Nat /\ InCommand \subseteq Nat
  BY FrameId DEF InMsg, InCommand, Typed, TypeOK
<1>4. Executed \subseteq Nat
  BY DispatcherAssumption DEF Executed, Typed, TypeOK
<1>5. arrived \in Nat
  BY DispatcherAssumption DEF Typed, TypeOK
<1> QED BY <1>1, <1>2, <1>3, <1>4, <1>5 DEF Upstream

LEMMA OrderInit == Init => PipelineInOrder /\ AnswersTrue
<1> SUFFICES ASSUME Init PROVE PipelineInOrder /\ AnswersTrue
  OBVIOUS
<1>1. TcQueue = <<>> /\ inbox = <<>> /\ executed = <<>> /\ answers = <<>>
      /\ InMsg = {} /\ InCommand = {} /\ command = None
  BY DEF Init, TcQueue, Served, InMsg, InCommand
<1>2. IdsIn(inbox) = {} /\ IdsIn(TcQueue) = {} /\ Executed = {} /\ Upstream = {}
  BY <1>1 DEF IdsIn, Executed, Upstream
<1>3. Sorted(inbox) /\ Sorted(TcQueue) /\ Ascending(executed)
  BY <1>1 DEF Sorted, Ascending
<1>4. PipelineInOrder
  BY <1>1, <1>2, <1>3 DEF PipelineInOrder, Before
<1>5. AnswersTrue
  BY <1>1 DEF AnswersTrue
<1> QED BY <1>4, <1>5

\* A step that only takes frames off the way, and answers nothing, or nacks a
\* frame it took off.
LEMMA OrderLess ==
  ASSUME DispatchInv,
         inbox' = inbox, TcQueue' = TcQueue, executed' = executed,
         command' = command, arrived' = arrived, InMsg' \subseteq InMsg,
         \/ answers' = answers
         \/ /\ InMsg' = {} /\ msg # None /\ msg \in Frame
            /\ \E last \in Answer : /\ last.id = msg.id /\ ~last.ack
                                   /\ answers' = Append(answers, last)
  PROVE  PipelineInOrder' /\ AnswersTrue'
<1>1. /\ IdsIn(inbox') = IdsIn(inbox) /\ IdsIn(TcQueue') = IdsIn(TcQueue)
      /\ Executed' = Executed /\ InCommand' = InCommand
  BY DEF Executed, InCommand
<1>2. Upstream' \subseteq Upstream
  BY <1>1 DEF Upstream
<1>3. PipelineInOrder'
  BY <1>1, <1>2 DEF DispatchInv, PipelineInOrder, Before
<1>4. AnswersTrue'
  <2>1. command' # None => (command'.known <=> command'.id \in Executed')
    BY <1>1 DEF DispatchInv, AnswersTrue
  <2>2. CASE answers' = answers
    BY <1>1, <1>2, <2>1, <2>2 DEF DispatchInv, AnswersTrue
  <2>3. ASSUME InMsg' = {}, msg # None, msg \in Frame, NEW last \in Answer,
               last.id = msg.id, ~last.ack, answers' = Append(answers, last)
        PROVE  AnswersTrue'
    <3>1. msg.id \in InMsg /\ msg.id \in Upstream /\ Upstream' = IdsIn(inbox)
      BY <1>1, <2>3 DEF InMsg, Upstream
    <3>2. msg.id \notin Executed \cup IdsIn(TcQueue) \cup IdsIn(inbox) /\ msg.id <= arrived
      <4>1. msg.id \in Nat
        BY <2>3, FrameId
      <4> QED BY <3>1, <4>1 DEF DispatchInv, PipelineInOrder, Before
    <3>3. \A n \in DOMAIN answers' :
            answers'[n] = last \/ (n \in DOMAIN answers /\ answers'[n] = answers[n])
      <4>1. answers \in Seq(Answer) /\ last \in Answer
        BY <2>3 DEF DispatchInv, Typed, TypeOK
      <4>2. \A n \in DOMAIN Append(answers, last) :
              \/ Append(answers, last)[n] = last
              \/ n \in DOMAIN answers /\ Append(answers, last)[n] = answers[n]
        BY <4>1
      <4> QED BY <2>3, <4>2
    <3>5. ASSUME NEW n \in DOMAIN answers'
          PROVE  IF answers'[n].ack
                 THEN answers'[n].id \in Executed'
                 ELSE /\ answers'[n].id \notin Executed' \cup IdsIn(TcQueue') \cup Upstream'
                      /\ answers'[n].id <= arrived'
      <4>1. CASE answers'[n] = last
        BY <1>1, <2>3, <3>1, <3>2, <4>1
      <4>2. CASE n \in DOMAIN answers /\ answers'[n] = answers[n]
        BY <1>1, <1>2, <4>2 DEF DispatchInv, AnswersTrue
      <4> QED BY <3>3, <4>1, <4>2
    <3> QED BY <2>1, <3>5 DEF AnswersTrue
  <2> QED BY <2>2, <2>3
<1> QED BY <1>3, <1>4

\* A frame arrives with the next number.
LEMMA OrderArrive ==
  ASSUME DispatchInv, NEW frame \in Frame, Arrive(frame)
  PROVE  PipelineInOrder' /\ AnswersTrue'
<1>1. UNCHANGED <<msg, queues, command, answers, executed>>
      /\ arrived' = arrived + 1 /\ frame.id = arrived + 1
      /\ (inbox' = inbox \/ inbox' = Append(inbox, frame))
  BY DEF Arrive
<1>2. /\ TcQueue' = TcQueue /\ Executed' = Executed /\ InMsg' = InMsg /\ InCommand' = InCommand
  BY <1>1 DEF TcQueue, Executed, InMsg, InCommand
<1>3. /\ InMsg \subseteq Nat /\ InCommand \subseteq Nat /\ Executed \subseteq Nat
      /\ IdsIn(inbox) \subseteq Nat /\ IdsIn(TcQueue) \subseteq Nat
      /\ Upstream \subseteq Nat /\ arrived \in Nat /\ inbox \in Seq(Frame)
  BY NumbersNat DEF DispatchInv
<1>4. \A id \in Executed \cup InCommand \cup IdsIn(TcQueue) \cup Upstream : id < arrived + 1
  <2>1. \A id \in Executed \cup InCommand \cup IdsIn(TcQueue) \cup Upstream :
          id \in Nat /\ id <= arrived
    BY <1>3 DEF DispatchInv, PipelineInOrder
  <2> QED BY <1>3, <2>1
<1>5. IdsIn(inbox') \subseteq IdsIn(inbox) \cup {arrived + 1} /\ Sorted(inbox')
  <2>1. CASE inbox' = inbox
    BY <2>1 DEF DispatchInv, PipelineInOrder
  <2>2. CASE inbox' = Append(inbox, frame)
    <3>1. IdsIn(Append(inbox, frame)) = IdsIn(inbox) \cup {frame.id}
          /\ (Sorted(inbox) /\ Before(IdsIn(inbox), {frame.id}) => Sorted(Append(inbox, frame)))
      BY <1>3, AppendFrame
    <3>2. Before(IdsIn(inbox), {frame.id})
      BY <1>1, <1>4 DEF Before, Upstream
    <3> QED BY <1>1, <2>2, <3>1, <3>2 DEF DispatchInv, PipelineInOrder
  <2> QED BY <1>1, <2>1, <2>2
<1>6. Upstream' \subseteq Upstream \cup {arrived + 1}
  BY <1>2, <1>5 DEF Upstream
<1>7. \A id \in Executed \cup InCommand \cup IdsIn(TcQueue) \cup Upstream : id <= arrived + 1
  BY <1>3, <1>4
<1>8. PipelineInOrder'
  <2>1. Before(InMsg', IdsIn(inbox'))
    BY <1>2, <1>4, <1>5 DEF DispatchInv, PipelineInOrder, Before, Upstream
  <2>2. Before(IdsIn(TcQueue'), Upstream')
    BY <1>2, <1>4, <1>6 DEF DispatchInv, PipelineInOrder, Before
  <2>3. Before(Executed' \cup InCommand', IdsIn(TcQueue') \cup Upstream')
    BY <1>2, <1>4, <1>6 DEF DispatchInv, PipelineInOrder, Before
  <2>4. \A id \in Executed' \cup InCommand' \cup IdsIn(TcQueue') \cup Upstream' : id <= arrived'
    <3>1. arrived + 1 <= arrived + 1
      BY <1>3
    <3> QED BY <1>1, <1>2, <1>6, <1>7, <3>1
  <2>5. Sorted(TcQueue') /\ Ascending(executed')
    BY <1>1, <1>2 DEF DispatchInv, PipelineInOrder
  <2> QED BY <1>5, <2>1, <2>2, <2>3, <2>4, <2>5 DEF PipelineInOrder
<1>9. AnswersTrue'
  <2> SUFFICES ASSUME NEW n \in DOMAIN answers, ~answers[n].ack
               PROVE  /\ answers[n].id \notin Executed \cup IdsIn(TcQueue) \cup Upstream'
                      /\ answers[n].id <= arrived + 1
    BY <1>1, <1>2 DEF DispatchInv, AnswersTrue
  <2>1. answers[n].id \in Nat
    <3>1. answers \in Seq(Answer)
      BY DEF DispatchInv, Typed, TypeOK
    <3>2. answers[n] \in Answer
      BY <3>1
    <3> QED BY <3>2, DispatcherAssumption DEF Answer
  <2>2. answers[n].id <= arrived
        /\ answers[n].id \notin Executed \cup IdsIn(TcQueue) \cup Upstream
    BY DEF DispatchInv, AnswersTrue
  <2>3. answers[n].id < arrived + 1
    BY <1>3, <2>1, <2>2
  <2> QED BY <1>3, <1>6, <2>1, <2>2, <2>3
<1> QED BY <1>8, <1>9

\* The dispatcher takes the oldest frame of its queue.
LEMMA OrderReceive == DispatchInv /\ Receive => PipelineInOrder' /\ AnswersTrue'
<1> SUFFICES ASSUME DispatchInv, Receive PROVE PipelineInOrder' /\ AnswersTrue'
  OBVIOUS
<1>1. UNCHANGED <<arrived, queues, command, answers, executed>>
      /\ inbox # <<>> /\ inbox' = Tail(inbox) /\ msg' = Head(inbox) /\ step = "receive"
  BY DEF Receive
<1>2. TcQueue' = TcQueue /\ Executed' = Executed /\ InCommand' = InCommand
  BY <1>1 DEF TcQueue, Executed, InCommand
<1>3. inbox \in Seq(Frame)
  BY NumbersNat DEF DispatchInv
<1>4. /\ Head(inbox) \in Frame /\ IdsIn(inbox) = {Head(inbox).id} \cup IdsIn(Tail(inbox))
      /\ (Sorted(inbox) => Sorted(Tail(inbox)) /\ Before({Head(inbox).id}, IdsIn(Tail(inbox))))
  BY <1>1, <1>3, TailFrame
<1>5. InMsg' = {Head(inbox).id}
  BY <1>1, <1>4, NoneAssumption DEF InMsg
<1>6. Upstream' \subseteq Upstream
  BY <1>1, <1>4, <1>5 DEF Upstream
<1>7. Sorted(inbox') /\ Before(InMsg', IdsIn(inbox'))
  BY <1>1, <1>4, <1>5 DEF DispatchInv, PipelineInOrder
<1>8. PipelineInOrder'
  BY <1>1, <1>2, <1>6, <1>7 DEF DispatchInv, PipelineInOrder, Before
<1>9. AnswersTrue'
  BY <1>1, <1>2, <1>6 DEF DispatchInv, AnswersTrue
<1> QED BY <1>8, <1>9

\* A frame moves from the hands of the dispatcher to the queue of a task.
LEMMA OrderPassOn ==
  ASSUME DispatchInv, Dispatch, step \in {"route", "wait"}, PassOn
  PROVE  PipelineInOrder' /\ AnswersTrue'
<1>1. /\ UNCHANGED <<arrived, inbox, command, executed, answers>> /\ msg' = None
      /\ msg \in Frame /\ msg # None /\ msg.type \in Served
      /\ queues' = [queues EXCEPT ![msg.type] = Append(@, msg)]
  BY DEF Dispatch, PassOn, Accepts, DispatchInv, Typed, TypeOK
<1>2. queues \in [Served -> Seq(Frame)] /\ "telecommand" \in Served
  BY DEF DispatchInv, Typed, Served
<1>3. Executed' = Executed /\ InCommand' = InCommand /\ InMsg' = {} /\ InMsg = {msg.id}
  BY <1>1 DEF Executed, InCommand, InMsg
<1>4. Upstream' = IdsIn(inbox) /\ Upstream = {msg.id} \cup IdsIn(inbox)
  BY <1>1, <1>3 DEF Upstream
<1>5. CASE msg.type # "telecommand"
  <2>1. TcQueue' = TcQueue
    BY <1>1, <1>2, <1>5 DEF TcQueue
  <2> QED BY <1>1, <1>3, <2>1, OrderLess
<1>6. CASE msg.type = "telecommand"
  <2>1. TcQueue' = Append(TcQueue, msg) /\ TcQueue \in Seq(Frame)
    BY <1>1, <1>2, <1>6 DEF TcQueue
  <2>2. IdsIn(TcQueue') = IdsIn(TcQueue) \cup {msg.id}
        /\ (Sorted(TcQueue) /\ Before(IdsIn(TcQueue), {msg.id}) => Sorted(TcQueue'))
    BY <1>1, <2>1, AppendFrame
  <2>3. Sorted(TcQueue')
    BY <1>4, <2>2 DEF DispatchInv, PipelineInOrder, Before
  <2>4. IdsIn(TcQueue') \cup Upstream' = IdsIn(TcQueue) \cup Upstream
    BY <1>4, <2>2
  <2>5. Before(IdsIn(TcQueue'), Upstream')
    BY <1>3, <1>4, <2>2 DEF DispatchInv, PipelineInOrder, Before
  <2>6. PipelineInOrder'
    <3>1. Before(InMsg', IdsIn(inbox'))
      BY <1>3 DEF Before
    <3>2. Before(Executed' \cup InCommand', IdsIn(TcQueue') \cup Upstream')
      BY <1>3, <2>4 DEF DispatchInv, PipelineInOrder
    <3>3. \A id \in Executed' \cup InCommand' \cup IdsIn(TcQueue') \cup Upstream' : id <= arrived'
      BY <1>1, <1>3, <2>4 DEF DispatchInv, PipelineInOrder
    <3> QED BY <1>1, <2>3, <2>5, <3>1, <3>2, <3>3 DEF DispatchInv, PipelineInOrder
  <2>7. AnswersTrue'
    BY <1>1, <1>3, <2>4 DEF DispatchInv, AnswersTrue
  <2> QED BY <2>6, <2>7
<1> QED BY <1>5, <1>6

LEMMA OrderDispatch == DispatchInv /\ Dispatch => PipelineInOrder' /\ AnswersTrue'
<1> SUFFICES ASSUME DispatchInv, Dispatch PROVE PipelineInOrder' /\ AnswersTrue'
  OBVIOUS
<1>1. UNCHANGED <<arrived, inbox, command, executed>>
  BY DEF Dispatch
<1>2. CASE step = "route" /\ HandleHere
  <2>1. InMsg' = {} /\ TcQueue' = TcQueue /\ answers' = answers
    BY <1>2 DEF HandleHere, InMsg, TcQueue
  <2> QED BY <1>1, <2>1, OrderLess
<1>3. CASE step \in {"route", "wait"} /\ PassOn
  BY <1>3, OrderPassOn
<1>4. CASE StartWait \/ GiveUp \/ Disregard
  <2>1. InMsg' = InMsg /\ TcQueue' = TcQueue /\ answers' = answers
    BY <1>4 DEF StartWait, GiveUp, Disregard, InMsg, TcQueue
  <2> QED BY <1>1, <2>1, OrderLess
<1>5. CASE Nack
  <2>1. InMsg' = {} /\ TcQueue' = TcQueue /\ SendAnswer(msg.id, FALSE)
    BY <1>5 DEF Nack, InMsg, TcQueue
  <2>2. msg # None /\ msg \in Frame
    BY <1>5 DEF Nack, DispatchInv, Typed, TypeOK
  <2>3. \E last \in Answer : last.id = msg.id /\ ~last.ack /\ answers' = Append(answers, last)
    BY <2>1, <2>2, FrameId, AnswerMade
  <2> QED BY <1>1, <2>1, <2>2, <2>3, OrderLess
<1> QED BY <1>2, <1>3, <1>4, <1>5 DEF Dispatch

\* The TC task takes the oldest telecommand and carries it out.
LEMMA OrderTcReceive == DispatchInv /\ TcReceive => PipelineInOrder' /\ AnswersTrue'
<1> SUFFICES ASSUME DispatchInv, TcReceive PROVE PipelineInOrder' /\ AnswersTrue'
  OBVIOUS
<1> DEFINE next == Head(TcQueue)
<1>1. /\ UNCHANGED <<arrived, inbox, msg, answers>> /\ command = None
      /\ TcQueue # <<>> /\ command' = next
      /\ executed' = IF next.known THEN Append(executed, next.id) ELSE executed
  BY DEF TcReceive, TcQueue
<1>2. TcQueue \in Seq(Frame) /\ TcQueue' = Tail(TcQueue)
  <2>1. queues \in [Served -> Seq(Frame)] /\ "telecommand" \in Served
    BY DEF DispatchInv, Typed, Served
  <2> QED BY <2>1 DEF TcReceive, TcQueue
<1>3. /\ next \in Frame /\ IdsIn(TcQueue) = {next.id} \cup IdsIn(TcQueue')
      /\ (Sorted(TcQueue) => Sorted(TcQueue') /\ Before({next.id}, IdsIn(TcQueue')))
  BY <1>1, <1>2, TailFrame
<1>4. next.known \in BOOLEAN
  BY <1>1, <1>2, <1>3, TailFrame, TelecommandFields DEF DispatchInv, Typed
<1>5. next # None /\ next.id \in Nat /\ next.id \in 1..MaxFrames
  BY <1>3, FrameId, NoneAssumption
<1> HIDE DEF next
<1>6. InMsg' = InMsg /\ Upstream' = Upstream /\ InCommand = {} /\ InCommand' = {next.id}
  BY <1>1, <1>5 DEF InMsg, Upstream, InCommand
<1>7. \A id \in Executed : id < next.id
  BY <1>3 DEF DispatchInv, PipelineInOrder, Before
<1>8. next.id \notin Executed
  BY <1>5, <1>7
<1>9. /\ Executed' = IF next.known THEN Executed \cup {next.id} ELSE Executed
      /\ Ascending(executed')
  <2>1. executed \in Seq(1..MaxFrames) /\ Ascending(executed)
    BY DEF DispatchInv, Typed, TypeOK, PipelineInOrder
  <2>2. CASE ~next.known
    BY <1>1, <2>1, <2>2 DEF Executed
  <2>3. CASE next.known
    <3> DEFINE longer == Append(executed, next.id)
    <3>1. executed' = longer
      BY <1>1, <2>3
    <3>2. /\ DOMAIN executed = 1..Len(executed) /\ DOMAIN longer = 1..(Len(executed) + 1)
          /\ Len(executed) \in Nat /\ longer[Len(executed) + 1] = next.id
          /\ \A n \in 1..Len(executed) : longer[n] = executed[n]
      BY <1>5, <2>1
    <3> HIDE DEF longer
    <3>3. DOMAIN longer = DOMAIN executed \cup {Len(executed) + 1}
      BY <3>2
    <3>4. {longer[n] : n \in DOMAIN longer} = Executed \cup {next.id}
      BY <3>2, <3>3 DEF Executed
    <3>5. Ascending(longer)
      <4> SUFFICES ASSUME NEW m \in DOMAIN longer, NEW n \in DOMAIN longer, m < n
                   PROVE  longer[m] < longer[n]
        BY DEF Ascending
      <4>1. m \in DOMAIN executed
        BY <3>2
      <4>2. CASE n \in DOMAIN executed
        BY <2>1, <3>2, <4>1, <4>2 DEF Ascending
      <4>3. CASE n = Len(executed) + 1
        <5>1. executed[m] \in Executed
          BY <4>1 DEF Executed
        <5> QED BY <1>7, <3>2, <4>1, <4>3, <5>1
      <4> QED BY <3>3, <4>2, <4>3
    <3> QED BY <2>3, <3>1, <3>4, <3>5 DEF Executed
  <2> QED BY <1>4, <2>2, <2>3
<1>10. Executed' \cup InCommand' = Executed \cup {next.id}
  BY <1>6, <1>9
<1>11. PipelineInOrder'
  <2>1. Sorted(TcQueue') /\ Before({next.id}, IdsIn(TcQueue'))
    BY <1>3 DEF DispatchInv, PipelineInOrder
  <2>2. Before({next.id}, Upstream) /\ Before(IdsIn(TcQueue'), Upstream)
    BY <1>3 DEF DispatchInv, PipelineInOrder, Before
  <2>3. Before(Executed, IdsIn(TcQueue') \cup Upstream)
    BY <1>3 DEF DispatchInv, PipelineInOrder, Before
  <2>4. Before(Executed' \cup InCommand', IdsIn(TcQueue') \cup Upstream')
    BY <1>6, <1>10, <2>1, <2>2, <2>3 DEF Before
  <2>5. \A id \in Executed' \cup InCommand' \cup IdsIn(TcQueue') \cup Upstream' : id <= arrived'
    BY <1>1, <1>3, <1>6, <1>10 DEF DispatchInv, PipelineInOrder
  <2> QED BY <1>1, <1>6, <1>9, <2>1, <2>2, <2>4, <2>5 DEF DispatchInv, PipelineInOrder
<1>12. AnswersTrue'
  <2>1. command'.known <=> command'.id \in Executed'
    BY <1>1, <1>4, <1>8, <1>9
  <2>2. ASSUME NEW n \in DOMAIN answers
        PROVE  IF answers[n].ack
               THEN answers[n].id \in Executed'
               ELSE /\ answers[n].id \notin Executed' \cup IdsIn(TcQueue') \cup Upstream'
                    /\ answers[n].id <= arrived'
    BY <1>1, <1>3, <1>6, <1>9 DEF DispatchInv, AnswersTrue
  <2> QED BY <1>1, <2>1, <2>2 DEF AnswersTrue
<1> QED BY <1>11, <1>12

\* The TC task answers; the other tasks take no telecommand.
LEMMA OrderTasks ==
  DispatchInv /\ (TcAnswer \/ \E type \in Served : Consume(type)) => PipelineInOrder' /\ AnswersTrue'
<1> SUFFICES ASSUME DispatchInv, TcAnswer \/ \E type \in Served : Consume(type)
             PROVE  PipelineInOrder' /\ AnswersTrue'
  OBVIOUS
<1>1. CASE TcAnswer
  <2>1. /\ UNCHANGED <<arrived, inbox, msg, queues, executed>>
        /\ command # None /\ command \in Frame /\ command' = None
        /\ SendAnswer(command.id, command.known)
    BY <1>1 DEF TcAnswer, DispatchInv, Typed, TypeOK
  <2>2. /\ Executed' = Executed /\ TcQueue' = TcQueue /\ InMsg' = InMsg
        /\ Upstream' = Upstream /\ InCommand' = {} /\ InCommand = {command.id}
    BY <2>1 DEF Executed, TcQueue, InMsg, Upstream, InCommand
  <2>3. PipelineInOrder'
    BY <2>1, <2>2 DEF DispatchInv, PipelineInOrder, Before
  <2>4. command.known \in BOOLEAN /\ command.id \in 1..MaxFrames /\ command.id \in Nat
    BY <2>1, FrameId, TelecommandFields DEF DispatchInv, Typed
  <2>7. PICK last \in Answer : /\ last.id = command.id /\ last.ack = command.known
                             /\ answers' = Append(answers, last)
    BY <2>1, <2>4, AnswerMade
  <2>5. \A n \in DOMAIN answers' :
          answers'[n] = last \/ (n \in DOMAIN answers /\ answers'[n] = answers[n])
    <3>1. answers \in Seq(Answer)
      BY DEF DispatchInv, Typed, TypeOK
    <3>2. \A n \in DOMAIN Append(answers, last) :
            \/ Append(answers, last)[n] = last
            \/ n \in DOMAIN answers /\ Append(answers, last)[n] = answers[n]
      BY <3>1
    <3> QED BY <2>7, <3>2
  <2>6. command.id <= arrived /\ command.id \notin IdsIn(TcQueue) \cup Upstream
        /\ (command.known <=> command.id \in Executed)
    BY <2>1, <2>2, <2>4 DEF DispatchInv, PipelineInOrder, AnswersTrue, Before
  <2>8. ASSUME NEW n \in DOMAIN answers'
        PROVE  IF answers'[n].ack
               THEN answers'[n].id \in Executed'
               ELSE /\ answers'[n].id \notin Executed' \cup IdsIn(TcQueue') \cup Upstream'
                    /\ answers'[n].id <= arrived'
    <3>1. CASE answers'[n] = last
      BY <2>1, <2>2, <2>6, <2>7, <3>1
    <3>2. CASE n \in DOMAIN answers /\ answers'[n] = answers[n]
      BY <2>1, <2>2, <3>2 DEF DispatchInv, AnswersTrue
    <3> QED BY <2>5, <3>1, <3>2
  <2>9. AnswersTrue'
    BY <2>1, <2>8 DEF AnswersTrue
  <2> QED BY <2>3, <2>9
<1>2. ASSUME NEW type \in Served, Consume(type) PROVE PipelineInOrder' /\ AnswersTrue'
  <2>1. queues \in [Served -> Seq(Frame)] /\ "telecommand" \in Served
    BY DEF DispatchInv, Typed, Served
  <2>2. /\ UNCHANGED <<arrived, inbox, msg, command, answers, executed>>
        /\ TcQueue' = TcQueue /\ InMsg' = InMsg
    BY <1>2, <2>1 DEF Consume, TcQueue, InMsg
  <2> QED BY <2>2, OrderLess
<1> QED BY <1>1, <1>2

-----------------------------------------------------------------------------
(* Theorems                                                                *)

LEMMA DispatchInvHolds == Spec => []DispatchInv
<1>1. Init => DispatchInv
  BY TypedInit, OrderInit DEF DispatchInv
<1>2. DispatchInv /\ [Next]_vars => DispatchInv'
  <2> SUFFICES ASSUME DispatchInv, [Next]_vars PROVE DispatchInv'
    OBVIOUS
  <2>1. Typed'
    BY TypedNext DEF DispatchInv
  <2>2. CASE Next
    BY <2>1, <2>2, OrderArrive, OrderReceive, OrderDispatch, OrderTcReceive, OrderTasks
       DEF Next, DispatchInv
  <2>3. CASE UNCHANGED vars
    <3>1. InMsg' = InMsg /\ TcQueue' = TcQueue /\ UNCHANGED vars
      BY <2>3 DEF vars, InMsg, TcQueue
    <3>2. PipelineInOrder' /\ AnswersTrue'
      BY <3>1, OrderLess DEF vars
    <3> QED BY <2>1, <3>2 DEF DispatchInv
  <2> QED BY <2>2, <2>3
<1> QED BY <1>1, <1>2, PTL DEF Spec

\* Queues keep to their lengths and frames to their queues, whatever the lengths
\* of the queues.
THEOREM DispatcherTypes == Spec => []TypeOK
<1>1. DispatchInv => TypeOK
  BY DEF DispatchInv, Typed
<1> QED BY <1>1, DispatchInvHolds, PTL

\* Telecommands are carried out in the order in which they arrived, however often
\* cants_dispatcher waits for room or gives up on a frame.
THEOREM CommandsComeInOrder == Spec => []CommandsInOrder
<1>1. DispatchInv => CommandsInOrder
  BY DEF DispatchInv, PipelineInOrder, CommandsInOrder
<1> QED BY <1>1, DispatchInvHolds, PTL

\* A frame is acknowledged if and only if it was carried out: what was answered
\* with a nack never is, and what was carried out is never answered with one.
THEOREM AcknowledgedIsDone == Spec => []AckMeansDone
<1>1. DispatchInv => AckMeansDone
  <2> SUFFICES ASSUME DispatchInv, NEW n \in DOMAIN answers
               PROVE  answers[n].ack <=> answers[n].id \in Executed
    BY DEF AckMeansDone, Executed
  <2>1. answers \in Seq(Answer)
    BY DEF DispatchInv, Typed, TypeOK
  <2>2. answers[n].ack \in BOOLEAN
    <3>1. answers[n] \in Answer
      BY <2>1
    <3> QED BY <3>1 DEF Answer
  <2> QED BY <2>2 DEF DispatchInv, AnswersTrue
<1> QED BY <1>1, DispatchInvHolds, PTL

\* What becomes of telecommands between the interrupt and the answer, for queues
\* of any length and any number of frames.
THEOREM CommandsAreCarriedOut == Spec => []CommandsCarriedOut
BY DispatcherTypes, CommandsComeInOrder, AcknowledgedIsDone, PTL DEF CommandsCarriedOut

-----------------------------------------------------------------------------
(* Every frame is in one place                                             *)

Labels == Served \cup {"inbox", "answer", "dispatcher", "TC task", "handled"}

\* Whether a frame is where the label says.
At(label, id) ==
  \/ label \in Served /\ id \in IdsIn(queues[label])
  \/ label = "inbox" /\ id \in IdsIn(inbox)
  \/ label = "answer" /\ id \in IdsIn(answers)
  \/ label = "dispatcher" /\ Holds(msg, id)
  \/ label = "TC task" /\ Holds(command, id)
  \/ label = "handled" /\ id \in handled

\* No number occurs twice in a sequence.
IdOnce(seq) == \A m, n \in DOMAIN seq : seq[m].id = seq[n].id => m = n

\* The frames that arrived are somewhere, and no frame is under two labels or
\* twice under one.
Placed ==
  /\ \A id \in 1..MaxFrames : (\E label \in Labels : At(label, id)) <=> id <= arrived
  /\ \A id \in 1..MaxFrames, label, other \in Labels :
       At(label, id) /\ At(other, id) => label = other
  /\ IdOnce(inbox) /\ IdOnce(answers) /\ \A type \in Served : IdOnce(queues[type])

LEMMA AppendId ==
  ASSUME NEW S, NEW seq \in Seq(S), NEW e \in S
  PROVE  /\ IdsIn(Append(seq, e)) = IdsIn(seq) \cup {e.id}
         /\ IdOnce(seq) /\ e.id \notin IdsIn(seq) => IdOnce(Append(seq, e))
<1> DEFINE longer == Append(seq, e)
<1>1. /\ DOMAIN seq = 1..Len(seq) /\ Len(seq) \in Nat /\ DOMAIN longer = 1..(Len(seq) + 1)
      /\ \A n \in 1..Len(seq) : longer[n] = seq[n]
      /\ longer[Len(seq) + 1] = e
  OBVIOUS
<1> HIDE DEF longer
<1>2. /\ \A n \in DOMAIN longer : \/ n \in DOMAIN seq /\ longer[n] = seq[n]
                                  \/ n = Len(seq) + 1 /\ longer[n] = e
      /\ \A n \in DOMAIN seq : n \in DOMAIN longer /\ longer[n] = seq[n]
      /\ Len(seq) + 1 \in DOMAIN longer /\ longer[Len(seq) + 1] = e
  BY <1>1
<1>3. IdsIn(longer) = IdsIn(seq) \cup {e.id}
  BY <1>2 DEF IdsIn
<1>4. ASSUME IdOnce(seq), e.id \notin IdsIn(seq) PROVE IdOnce(longer)
  BY <1>2, <1>4 DEF IdOnce, IdsIn
<1> QED BY <1>3, <1>4 DEF longer

LEMMA TailId ==
  ASSUME NEW seq \in Seq(Frame), seq # <<>>, IdOnce(seq)
  PROVE  IdOnce(Tail(seq)) /\ Head(seq).id \notin IdsIn(Tail(seq))
<1> DEFINE rest == Tail(seq)
<1>1. /\ Head(seq) = seq[1] /\ 1 \in DOMAIN seq
      /\ \A n \in DOMAIN rest : n + 1 \in DOMAIN seq /\ rest[n] = seq[n + 1]
  BY TailFrame
<1>2. DOMAIN rest \subseteq Nat \ {0}
  OBVIOUS
<1> HIDE DEF rest
<1>3. ASSUME NEW m \in DOMAIN rest, NEW n \in DOMAIN rest, rest[m].id = rest[n].id
      PROVE  m = n
  <2>1. m + 1 = n + 1
    BY <1>1, <1>3 DEF IdOnce
  <2> QED BY <1>2, <2>1
<1>4. ASSUME NEW n \in DOMAIN rest, rest[n].id = Head(seq).id
      PROVE  FALSE
  <2>1. n + 1 = 1
    BY <1>1, <1>4 DEF IdOnce
  <2> QED BY <1>2, <2>1
<1> QED BY <1>3, <1>4 DEF IdOnce, IdsIn, rest

\* A frame that goes from one label to another leaves every frame in its place.
LEMMA PlacedMove ==
  ASSUME Placed, NEW x \in 1..MaxFrames, NEW from \in Labels, NEW to \in Labels,
         At(from, x), arrived' = arrived,
         \A label \in Labels, id \in 1..MaxFrames :
           At(label, id)' <=> IF id = x THEN label = to ELSE At(label, id),
         IdOnce(inbox)', IdOnce(answers)', \A type \in Served : IdOnce(queues[type])'
  PROVE  Placed'
<1>1. \A id \in 1..MaxFrames : (\E label \in Labels : At(label, id)') <=> id <= arrived'
  BY DEF Placed
<1>2. \A id \in 1..MaxFrames, label, other \in Labels :
        At(label, id)' /\ At(other, id)' => label = other
  BY DEF Placed
<1> QED BY <1>1, <1>2 DEF Placed

LEMMA AtNext ==
  ASSUME NEW label, NEW id
  PROVE  At(label, id)' <=>
           \/ label \in Served /\ id \in IdsIn(queues'[label])
           \/ label = "inbox" /\ id \in IdsIn(inbox')
           \/ label = "answer" /\ id \in IdsIn(answers')
           \/ label = "dispatcher" /\ Holds(msg', id)
           \/ label = "TC task" /\ Holds(command', id)
           \/ label = "handled" /\ id \in handled'
BY DEF At, Holds, IdsIn

LEMMA PlacedInit == Init => Placed
<1> SUFFICES ASSUME Init PROVE Placed
  OBVIOUS
<1>1. /\ DOMAIN inbox = {} /\ DOMAIN answers = {} /\ \A type \in Served : DOMAIN queues[type] = {}
      /\ msg = None /\ command = None /\ handled = {} /\ arrived = 0
  BY DEF Init
<1>2. \A label \in Labels, id \in 1..MaxFrames : ~At(label, id)
  BY <1>1 DEF At, IdsIn, Holds
<1>3. \A id \in 1..MaxFrames : ~(id <= arrived)
  BY <1>1, DispatcherAssumption
<1> QED BY <1>1, <1>2, <1>3 DEF Placed, IdOnce

LEMMA PlacedArrive ==
  ASSUME DispatchInv, Placed, NEW frame \in Frame, Arrive(frame)
  PROVE  Placed'
<1>1. /\ frame.id = arrived + 1 /\ arrived' = arrived + 1 /\ arrived \in Nat
      /\ UNCHANGED <<msg, queues, command, answers>>
      /\ inbox \in Seq(Frame)
  BY DEF Arrive, DispatchInv, Typed, TypeOK
<1>2. frame.id \in 1..MaxFrames /\ ~(frame.id <= arrived)
  BY <1>1, FrameId
<1>3. \A label \in Labels : ~At(label, frame.id)
  BY <1>2 DEF Placed
<1>4. \A id \in 1..MaxFrames : id <= arrived' <=> id <= arrived \/ id = frame.id
  BY <1>1
<1>5. \E to \in Labels :
        \A label \in Labels, id \in 1..MaxFrames :
          At(label, id)' <=> IF id = frame.id THEN label = to ELSE At(label, id)
  <2>1. CASE inbox' = Append(inbox, frame) /\ handled' = handled
    <3>1. IdsIn(inbox') = IdsIn(inbox) \cup {frame.id}
      BY <1>1, <2>1, AppendId
    <3>2. \A label \in Labels, id \in 1..MaxFrames :
            At(label, id)' <=> At(label, id) \/ (label = "inbox" /\ id = frame.id)
      BY <1>1, <2>1, <3>1, AtNext DEF At, Served
    <3>3. \A label \in Labels, id \in 1..MaxFrames :
            At(label, id)' <=> IF id = frame.id THEN label = "inbox" ELSE At(label, id)
      BY <1>3, <3>2
    <3> QED BY <3>3, "inbox" \in Labels DEF Labels
  <2>2. CASE inbox' = inbox /\ handled' = handled \cup {frame.id}
    <3>1. \A label \in Labels, id \in 1..MaxFrames :
            At(label, id)' <=> At(label, id) \/ (label = "handled" /\ id = frame.id)
      BY <1>1, <2>2, AtNext DEF At, Served
    <3>2. \A label \in Labels, id \in 1..MaxFrames :
            At(label, id)' <=> IF id = frame.id THEN label = "handled" ELSE At(label, id)
      BY <1>3, <3>1
    <3> QED BY <3>2, "handled" \in Labels DEF Labels
  <2> QED BY <2>1, <2>2 DEF Arrive
<1>6. frame.id \notin IdsIn(inbox)
  BY <1>3 DEF At, Labels
<1>7. IdOnce(inbox')
  BY <1>1, <1>6, AppendId DEF Arrive, Placed
<1>8. PICK to \in Labels :
        \A label \in Labels, id \in 1..MaxFrames :
          At(label, id)' <=> IF id = frame.id THEN label = to ELSE At(label, id)
  BY <1>5
<1>9. \A id \in 1..MaxFrames : (\E label \in Labels : At(label, id)') <=> id <= arrived'
  BY <1>4, <1>8 DEF Placed
<1>10. \A id \in 1..MaxFrames, label, other \in Labels :
        At(label, id)' /\ At(other, id)' => label = other
  BY <1>8 DEF Placed
<1> QED BY <1>1, <1>7, <1>9, <1>10 DEF Placed

\* The steps of the dispatcher and of the serving tasks each move one frame.
LEMMA PlacedReceive == DispatchInv /\ Placed /\ Receive => Placed'
<1> SUFFICES ASSUME DispatchInv, Placed, Receive PROVE Placed'
  OBVIOUS
<1> DEFINE x == Head(inbox)
<1>1. /\ inbox \in Seq(Frame) /\ inbox # <<>> /\ inbox' = Tail(inbox) /\ msg' = x
      /\ msg = None /\ UNCHANGED <<arrived, queues, command, answers, handled>>
  BY DEF Receive, DispatchInv, Typed, TypeOK
<1>2. /\ x \in Frame /\ x.id \in 1..MaxFrames /\ x # None
      /\ IdsIn(inbox) = {x.id} \cup IdsIn(Tail(inbox))
  BY <1>1, TailFrame, FrameId, NoneAssumption
<1>3. IdOnce(inbox') /\ x.id \notin IdsIn(inbox')
  BY <1>1, TailId DEF Placed
<1> HIDE DEF x
<1>4. /\ \A id : id \in IdsIn(inbox') <=> id \in IdsIn(inbox) /\ id # x.id
      /\ \A id : Holds(msg', id) <=> id = x.id
      /\ \A id : ~Holds(msg, id)
  BY <1>1, <1>2, <1>3 DEF Holds
<1>5. At("inbox", x.id) /\ "inbox" \in Labels /\ "dispatcher" \in Labels
  BY <1>2 DEF At, Labels
<1>6. \A label \in Labels : At(label, x.id) => label = "inbox"
  BY <1>2, <1>5 DEF Placed
<1>7. \A label \in Labels, id \in 1..MaxFrames :
        At(label, id)' <=> IF id = x.id THEN label = "dispatcher" ELSE At(label, id)
  <2> TAKE label \in Labels, id \in 1..MaxFrames
  <2>1. CASE id = x.id
    BY <1>1, <1>4, <1>6, <2>1, AtNext DEF At, Served
  <2>2. CASE id # x.id
    BY <1>1, <1>4, <2>2, AtNext DEF At, Served
  <2> QED BY <2>1, <2>2
<1> QED BY <1>1, <1>2, <1>3, <1>5, <1>7, PlacedMove DEF Placed

LEMMA PlacedDispatch == DispatchInv /\ Placed /\ Dispatch => Placed'
<1> SUFFICES ASSUME DispatchInv, Placed, Dispatch PROVE Placed'
  OBVIOUS
<1>1. /\ UNCHANGED <<arrived, inbox, command>>
      /\ answers \in Seq(Answer)
      /\ step # "receive" => msg \in Frame /\ msg # None
      /\ queues \in [Served -> Seq(Frame)]
  BY NoneAssumption DEF Dispatch, DispatchInv, Typed, TypeOK
<1>2. CASE UNCHANGED <<msg, queues, answers, handled>>
  <2>1. \A label, id : At(label, id)' <=> At(label, id)
    BY <1>1, <1>2, AtNext DEF At
  <2> QED BY <1>1, <1>2, <2>1 DEF Placed
<1> SUFFICES ASSUME step # "receive", msg' = None,
                    \/ step = "route" /\ HandleHere
                    \/ step \in {"route", "wait"} /\ PassOn
                    \/ Nack
             PROVE  Placed'
  BY <1>2 DEF Dispatch, StartWait, GiveUp, Disregard, HandleHere, PassOn, Nack
<1> DEFINE x == msg.id
<1>3. /\ msg \in Frame /\ x \in 1..MaxFrames
      /\ \A id : Holds(msg, id) <=> id = x
      /\ \A id : ~Holds(msg', id)
      /\ At("dispatcher", x) /\ "dispatcher" \in Labels
  BY <1>1, FrameId DEF Holds, At, Labels
<1>4. \A label \in Labels : At(label, x) => label = "dispatcher"
  BY <1>3 DEF Placed
<1> HIDE DEF x
<1>5. CASE HandleHere
  <2>1. handled' = handled \cup {x} /\ UNCHANGED <<queues, answers>>
    BY <1>5 DEF HandleHere, x
  <2>2. \A label \in Labels, id \in 1..MaxFrames :
          At(label, id)' <=> IF id = x THEN label = "handled" ELSE At(label, id)
    <3> TAKE label \in Labels, id \in 1..MaxFrames
    <3>1. CASE id = x
      BY <1>1, <1>3, <1>4, <2>1, <3>1, AtNext DEF At, Served
    <3>2. CASE id # x
      BY <1>1, <1>3, <2>1, <3>2, AtNext DEF At, Served
    <3> QED BY <3>1, <3>2
  <2>3. "handled" \in Labels
    BY DEF Labels
  <2> QED BY <1>1, <1>3, <2>1, <2>2, <2>3, PlacedMove DEF Placed
<1>6. CASE PassOn
  <2> DEFINE type == msg.type
  <2>1. /\ type \in Served /\ queues' = [queues EXCEPT ![type] = Append(queues[type], msg)]
        /\ UNCHANGED <<answers, handled>>
    BY <1>6 DEF PassOn, Accepts
  <2>2. queues[type] \in Seq(Frame) /\ type \in Labels
    BY <1>1, <2>1 DEF Labels
  <2>3. x \notin IdsIn(queues[type])
    BY <1>4, <2>1, <2>2 DEF At, Served
  <2>4. /\ IdsIn(queues'[type]) = IdsIn(queues[type]) \cup {x}
        /\ IdOnce(queues'[type])
    BY <1>1, <1>3, <2>1, <2>2, <2>3, AppendId DEF Placed, x
  <2> HIDE DEF type
  <2>5. \A other \in Served : other # type => queues'[other] = queues[other]
    BY <1>1, <2>1
  <2>6. \A label \in Labels, id \in 1..MaxFrames :
          At(label, id)' <=> IF id = x THEN label = type ELSE At(label, id)
    <3> TAKE label \in Labels, id \in 1..MaxFrames
    <3>1. CASE id = x
      BY <1>1, <1>3, <1>4, <2>1, <2>4, <2>5, <3>1, AtNext DEF At, Served
    <3>2. CASE id # x
      BY <1>1, <1>3, <2>1, <2>4, <2>5, <3>2, AtNext DEF At, Served
    <3> QED BY <3>1, <3>2
  <2>7. \A other \in Served : IdOnce(queues'[other])
    BY <2>4, <2>5 DEF Placed
  <2> QED BY <1>1, <1>3, <2>1, <2>2, <2>6, <2>7, PlacedMove DEF Placed
<1>7. CASE Nack
  <2>5. SendAnswer(x, FALSE) /\ UNCHANGED <<queues, handled>>
    BY <1>7 DEF Nack, x
  <2>6. PICK new \in Answer : new.id = x /\ answers' = Append(answers, new)
    BY <1>3, <2>5, AnswerMade
  <2>1. /\ answers' = Append(answers, new) /\ UNCHANGED <<queues, handled>>
        /\ new \in Answer /\ new.id = x
    BY <2>5, <2>6
  <2>2. x \notin IdsIn(answers) /\ "answer" \in Labels
    BY <1>4 DEF At, Labels, Served
  <2>3. IdsIn(answers') = IdsIn(answers) \cup {x} /\ IdOnce(answers')
    BY <1>1, <2>1, <2>2, AppendId DEF Placed
  <2>4. \A label \in Labels, id \in 1..MaxFrames :
          At(label, id)' <=> IF id = x THEN label = "answer" ELSE At(label, id)
    <3> TAKE label \in Labels, id \in 1..MaxFrames
    <3>1. CASE id = x
      BY <1>1, <1>3, <1>4, <2>1, <2>3, <3>1, AtNext DEF At, Served
    <3>2. CASE id # x
      BY <1>1, <1>3, <2>1, <2>3, <3>2, AtNext DEF At, Served
    <3> QED BY <3>1, <3>2
  <2> QED BY <1>1, <1>3, <2>1, <2>2, <2>3, <2>4, PlacedMove DEF Placed
<1> QED BY <1>5, <1>6, <1>7

\* A serving task takes the first frame of its queue.
LEMMA PlacedTake ==
  ASSUME DispatchInv, Placed, NEW type \in Served, queues[type] # <<>>,
         queues' = [queues EXCEPT ![type] = Tail(@)],
         UNCHANGED <<arrived, inbox, msg, answers>>,
         NEW to \in {"TC task", "handled"},
         to = "TC task" => /\ command = None /\ command' = Head(queues[type])
                           /\ handled' = handled,
         to = "handled" => command' = command /\ handled' = handled \cup {Head(queues[type]).id}
  PROVE  Placed'
<1> DEFINE first == Head(queues[type])
           x == first.id
<1>1. queues \in [Served -> Seq(Frame)] /\ queues[type] \in Seq(Frame)
  BY DEF DispatchInv, Typed
<1>2. /\ first \in Frame /\ x \in 1..MaxFrames /\ first # None
      /\ IdsIn(queues[type]) = {x} \cup IdsIn(Tail(queues[type]))
  BY <1>1, TailFrame, FrameId, NoneAssumption
<1>3. /\ queues'[type] = Tail(queues[type])
      /\ \A other \in Served : other # type => queues'[other] = queues[other]
  BY <1>1
<1>4. IdOnce(queues'[type]) /\ x \notin IdsIn(queues'[type])
  BY <1>1, <1>3, TailId DEF Placed
<1>5. \A other \in Served : IdOnce(queues'[other])
  BY <1>3, <1>4 DEF Placed
<1> HIDE DEF x
<1>6. \A id : id \in IdsIn(queues'[type]) <=> id \in IdsIn(queues[type]) /\ id # x
  BY <1>2, <1>3, <1>4
<1>7. At(type, x) /\ type \in Labels /\ to \in Labels
  BY <1>2 DEF At, Labels
<1>8. \A label \in Labels : At(label, x) => label = type
  BY <1>2, <1>7 DEF Placed
<1>9. /\ to = "TC task" => /\ \A id : Holds(command', id) <=> id = x
                           /\ \A id : ~Holds(command, id)
      /\ to = "handled" => \A id : Holds(command', id) <=> Holds(command, id)
  BY <1>2 DEF Holds, x
<1>10. \A id : id \in handled' <=> id \in handled \/ (to = "handled" /\ id = x)
  BY DEF x
<1>11. \A label \in Labels, id \in 1..MaxFrames :
         At(label, id)' <=> IF id = x THEN label = to ELSE At(label, id)
  <2> TAKE label \in Labels, id \in 1..MaxFrames
  <2>1. CASE id = x /\ to = "handled"
    BY <1>3, <1>6, <1>8, <1>9, <1>10, <2>1, AtNext DEF At, Served
  <2>2. CASE id = x /\ to = "TC task"
    BY <1>3, <1>6, <1>8, <1>9, <1>10, <2>2, AtNext DEF At, Served
  <2>3. CASE id # x /\ to = "handled"
    BY <1>3, <1>6, <1>9, <1>10, <2>3, AtNext DEF At, Served
  <2>4. CASE id # x /\ to = "TC task"
    BY <1>3, <1>6, <1>9, <1>10, <2>4, AtNext DEF At, Served
  <2> QED BY <2>1, <2>2, <2>3, <2>4
<1> QED BY <1>2, <1>5, <1>7, <1>11, PlacedMove DEF Placed

LEMMA PlacedTasks ==
  DispatchInv /\ Placed /\ (TcReceive \/ TcAnswer \/ \E type \in Served : Consume(type)) => Placed'
<1> SUFFICES ASSUME DispatchInv, Placed PROVE (TcReceive \/ TcAnswer \/ \E type \in Served : Consume(type)) => Placed'
  OBVIOUS
<1>1. ASSUME TcReceive PROVE Placed'
  <2>1. /\ "telecommand" \in Served /\ queues["telecommand"] # <<>>
        /\ queues' = [queues EXCEPT !["telecommand"] = Tail(@)]
        /\ UNCHANGED <<arrived, inbox, msg, answers, handled>>
        /\ command = None /\ command' = Head(queues["telecommand"])
    BY <1>1 DEF TcReceive, Served
  <2> QED BY <2>1, PlacedTake
<1>2. ASSUME NEW type \in Served, Consume(type) PROVE Placed'
  <2>1. /\ queues[type] # <<>> /\ queues' = [queues EXCEPT ![type] = Tail(@)]
        /\ UNCHANGED <<arrived, inbox, msg, answers, command>>
        /\ handled' = handled \cup {Head(queues[type]).id}
    BY <1>2 DEF Consume
  <2> QED BY <2>1, PlacedTake
<1>3. ASSUME TcAnswer PROVE Placed'
  <2> DEFINE x == command.id
  <2>9. /\ command # None /\ command' = None /\ SendAnswer(x, command.known)
        /\ UNCHANGED <<arrived, inbox, msg, queues, handled>>
    BY <1>3 DEF TcAnswer
  <2>2. command \in Frame /\ command.type = "telecommand" /\ answers \in Seq(Answer)
    BY <2>9 DEF DispatchInv, Typed, TypeOK
  <2>10. x \in 1..MaxFrames /\ command.known \in BOOLEAN
    BY <2>2, FrameId, TelecommandFields
  <2>11. PICK new \in Answer : new.id = x /\ answers' = Append(answers, new)
    BY <2>9, <2>10, AnswerMade
  <2>1. /\ command # None /\ command' = None /\ answers' = Append(answers, new)
        /\ UNCHANGED <<arrived, inbox, msg, queues, handled>>
    BY <2>9, <2>11
  <2>3. x \in 1..MaxFrames /\ new \in Answer /\ new.id = x
    BY <2>10, <2>11
  <2>4. /\ \A id : Holds(command, id) <=> id = x
        /\ \A id : ~Holds(command', id)
        /\ At("TC task", x) /\ "TC task" \in Labels /\ "answer" \in Labels
    BY <2>1 DEF Holds, At, Labels
  <2> HIDE DEF x
  <2>5. \A label \in Labels : At(label, x) => label = "TC task"
    BY <2>3, <2>4 DEF Placed
  <2>6. x \notin IdsIn(answers)
    BY <2>4, <2>5 DEF At, Served
  <2>7. IdsIn(answers') = IdsIn(answers) \cup {x} /\ IdOnce(answers')
    BY <2>1, <2>2, <2>3, <2>6, AppendId DEF Placed
  <2>8. \A label \in Labels, id \in 1..MaxFrames :
          At(label, id)' <=> IF id = x THEN label = "answer" ELSE At(label, id)
    <3> TAKE label \in Labels, id \in 1..MaxFrames
    <3>1. CASE id = x
      BY <2>1, <2>4, <2>5, <2>7, <3>1, AtNext DEF At, Served
    <3>2. CASE id # x
      BY <2>1, <2>4, <2>7, <3>2, AtNext DEF At, Served
    <3> QED BY <3>1, <3>2
  <2> QED BY <2>1, <2>3, <2>4, <2>7, <2>8, PlacedMove DEF Placed
<1> QED BY <1>1, <1>2, <1>3

LEMMA PlacedStep == DispatchInv /\ Placed /\ [Next]_vars => Placed'
<1> SUFFICES ASSUME DispatchInv, Placed, UNCHANGED vars PROVE Placed'
  BY PlacedArrive, PlacedReceive, PlacedDispatch, PlacedTasks DEF Next
<1>1. \A label, id : At(label, id)' <=> At(label, id)
  BY AtNext DEF vars, At
<1> QED BY <1>1 DEF vars, Placed

\* Whether a frame is at a position under a label.
AtPosition(label, n, id) ==
  \/ label \in Served /\ n \in DOMAIN queues[label] /\ queues[label][n].id = id
  \/ label = "inbox" /\ n \in DOMAIN inbox /\ inbox[n].id = id
  \/ label = "answer" /\ n \in DOMAIN answers /\ answers[n].id = id
  \/ label = "dispatcher" /\ n = 0 /\ Holds(msg, id)
  \/ label = "TC task" /\ n = 0 /\ Holds(command, id)
  \/ label = "handled" /\ n = 0 /\ id \in handled

\* The places of a frame are the positions it has.
LEMMA PlacesAre ==
  ASSUME NEW id, NEW p
  PROVE  p \in Places(id) <=> \E label \in Labels : \E n : p = <<label, n>> /\ AtPosition(label, n, id)
<1> DEFINE AtPlace(label) == \E n : p = <<label, n>> /\ AtPosition(label, n, id)
<1>1. /\ \A label, seq : p \in InQueue(label, seq, id) <=>
           \E n \in DOMAIN seq : p = <<label, n>> /\ seq[n].id = id
      /\ \A label : \A present \in BOOLEAN :
           p \in InHand(label, present) <=> p = <<label, 0>> /\ present
  BY DEF InQueue, InHand
<1>2. Holds(msg, id) \in BOOLEAN /\ Holds(command, id) \in BOOLEAN /\ (id \in handled) \in BOOLEAN
  BY DEF Holds
<1>3. p \in Places(id) <=>
        \/ p \in InQueue("inbox", inbox, id) \/ p \in InQueue("answer", answers, id)
        \/ p \in InHand("dispatcher", Holds(msg, id)) \/ p \in InHand("TC task", Holds(command, id))
        \/ p \in InHand("handled", id \in handled)
        \/ \E type \in Served : p \in InQueue(type, queues[type], id)
  BY Zenon DEF Places
<1>4. /\ p \in InQueue("inbox", inbox, id) <=> AtPlace("inbox")
      /\ p \in InQueue("answer", answers, id) <=> AtPlace("answer")
  <2>1. \A n : /\ AtPosition("inbox", n, id) <=> n \in DOMAIN inbox /\ inbox[n].id = id
               /\ AtPosition("answer", n, id) <=> n \in DOMAIN answers /\ answers[n].id = id
    BY DEF AtPosition, Served
  <2> QED BY <1>1, <2>1, Zenon
<1>5. /\ p \in InHand("dispatcher", Holds(msg, id)) <=> AtPlace("dispatcher")
      /\ p \in InHand("TC task", Holds(command, id)) <=> AtPlace("TC task")
      /\ p \in InHand("handled", id \in handled) <=> AtPlace("handled")
  <2>1. \A n : /\ AtPosition("dispatcher", n, id) <=> n = 0 /\ Holds(msg, id)
               /\ AtPosition("TC task", n, id) <=> n = 0 /\ Holds(command, id)
               /\ AtPosition("handled", n, id) <=> n = 0 /\ id \in handled
    BY DEF AtPosition, Served
  <2> QED BY <1>1, <1>2, <2>1, Zenon
<1>6. ASSUME NEW type \in Served
      PROVE  p \in InQueue(type, queues[type], id) <=> AtPlace(type)
  <2>1. \A n : AtPosition(type, n, id) <=> n \in DOMAIN queues[type] /\ queues[type][n].id = id
    BY DEF AtPosition, Served
  <2> QED BY <1>1, <2>1, Zenon
<1> HIDE DEF AtPlace
<1>7. (\E label \in Labels : AtPlace(label)) <=>
        \/ AtPlace("inbox") \/ AtPlace("answer") \/ AtPlace("dispatcher")
        \/ AtPlace("TC task") \/ AtPlace("handled") \/ \E type \in Served : AtPlace(type)
  BY DEF Labels
<1>8. p \in Places(id) <=> \E label \in Labels : AtPlace(label)
  BY <1>3, <1>4, <1>5, <1>6, <1>7
<1> QED BY <1>8 DEF AtPlace

\* A frame under one label, and once under it, has one place.
LEMMA PlacedOnce ==
  ASSUME Placed, NEW id \in 1..MaxFrames, id <= arrived
  PROVE  Cardinality(Places(id)) = 1
<1>1. PICK label \in Labels : At(label, id)
  BY DEF Placed
<1>2. \A other \in Labels : \A n : AtPosition(other, n, id) => At(other, id)
  BY DEF AtPosition, At, IdsIn
<1>3. PICK n : AtPosition(label, n, id)
  BY <1>1 DEF At, AtPosition, IdsIn
<1>4. \A other \in Labels : \A m : AtPosition(other, m, id) => other = label /\ m = n
  <2> SUFFICES ASSUME NEW other \in Labels, NEW m, AtPosition(other, m, id)
               PROVE  other = label /\ m = n
    OBVIOUS
  <2>1. other = label
    BY <1>1, <1>2 DEF Placed
  <2> QED BY <1>3, <2>1 DEF Placed, IdOnce, AtPosition, Served
<1>5. Places(id) = {<<label, n>>}
  BY <1>3, <1>4, PlacesAre
<1> QED BY <1>5, FS_Singleton

\* No frame that cants_dispatch_isr took is lost on its way through the queues,
\* answered twice, or both answered and handed on, for queues of any length.
THEOREM EveryFrameInOnePlace == Spec => []InOnePlace
<1>1. ASSUME DispatchInv, Placed PROVE InOnePlace
  <2>1. arrived \in Nat /\ arrived <= MaxFrames /\ MaxFrames \in Nat
    BY <1>1, DispatcherAssumption DEF DispatchInv, Typed, TypeOK
  <2>2. \A id \in 1..arrived : id \in 1..MaxFrames /\ id <= arrived
    BY <2>1
  <2> QED BY <1>1, <2>2, PlacedOnce DEF InOnePlace
<1>2. Spec => []Placed
  BY DispatchInvHolds, PlacedInit, PlacedStep, PTL DEF Spec
<1> QED BY <1>1, <1>2, DispatchInvHolds, PTL

-----------------------------------------------------------------------------
(* When the keep-alive is sent                                             *)

\* What is left of the block time never falls short of what is left of the
\* period.
NotEarlyInv ==
  /\ tmPc = "keepalive" => tmAge >= wait_time
  /\ sinceBeat >= Period \/ sinceBeat + wait_time >= Period + tmAge

\* For a prompt task both are the same, and xQueueReceive has counted every tick.
PromptInv ==
  ~late => /\ tmBlocked = tmAge /\ tmAge <= wait_time
           /\ sinceBeat + wait_time = Period + tmAge

BeatInv == TmTypeOK /\ NotEarlyInv /\ PromptInv

\* ++utm_ch neither leaves the range nor skips a channel of it.
LEMMA NextUtmValue ==
  ASSUME utm_ch \in UtmMin..UtmMax
  PROVE  NextUtm = IF utm_ch = UtmMax THEN UtmMin ELSE utm_ch + 1
<1>1. /\ UtmMin \in Nat /\ UtmMax \in Nat /\ ChannelMod \in Nat \ {0}
      /\ UtmMin <= UtmMax /\ UtmMax < ChannelMod
      /\ UtmMax = ChannelMod - 1 => UtmMin = 0
  BY TelemetryAssumption
<1>2. CASE utm_ch + 1 < ChannelMod
  <2>1. (utm_ch + 1) % ChannelMod = utm_ch + 1
    BY <1>1, <1>2
  <2> QED BY <1>1, <2>1 DEF NextUtm
<1>3. CASE utm_ch + 1 >= ChannelMod
  <2>1. utm_ch = UtmMax /\ utm_ch + 1 = ChannelMod /\ UtmMin = 0
    BY <1>1, <1>3
  <2>2. ChannelMod % ChannelMod = 0
    BY <1>1
  <2>3. (utm_ch + 1) % ChannelMod = 0
    BY <2>1, <2>2
  <2> QED BY <1>1, <2>1, <2>3 DEF NextUtm
<1> QED BY <1>1, <1>2, <1>3

LEMMA NextUtmInRange == utm_ch \in UtmMin..UtmMax => NextUtm \in UtmMin..UtmMax
BY NextUtmValue, TelemetryAssumption

LEMMA BeatInit == TmInit => BeatInv
<1> SUFFICES ASSUME TmInit PROVE BeatInv
  OBVIOUS
<1>1. /\ UtmMin \in Nat /\ UtmMax \in Nat /\ UtmMin <= UtmMax
      /\ Period \in Nat \ {0} /\ TM_QUEUE_LEN \in Nat \ {0}
  BY TelemetryAssumption
<1>2. TmTypeOK
  BY <1>1 DEF TmInit, TmTypeOK
<1> QED BY <1>1, <1>2 DEF TmInit, BeatInv, NotEarlyInv, PromptInv

\* Requests come and are answered.
LEMMA BeatServe == BeatInv /\ (TmArrive \/ TmServe) => BeatInv'
<1> SUFFICES ASSUME BeatInv, TmArrive \/ TmServe PROVE BeatInv'
  OBVIOUS
<1>1. TM_QUEUE_LEN \in Nat \ {0}
  BY TelemetryAssumption
<1>2. tm_queue \in Seq(TmRequest) /\ Len(tm_queue) <= TM_QUEUE_LEN
  BY DEF BeatInv, TmTypeOK
<1>3. tm_queue' \in Seq(TmRequest) /\ Len(tm_queue') <= TM_QUEUE_LEN
  <2>1. CASE TmArrive
    <3>1. PICK request \in TmRequest : tm_queue' = Append(tm_queue, request)
      BY <2>1 DEF TmArrive
    <3>2. Len(tm_queue') = Len(tm_queue) + 1
      BY <1>2, <3>1
    <3>3. Len(tm_queue) < TM_QUEUE_LEN
      BY <2>1 DEF TmArrive
    <3> QED BY <1>1, <1>2, <3>1, <3>2, <3>3
  <2>2. CASE TmServe
    <3>1. tm_queue # <<>> /\ tm_queue' = Tail(tm_queue)
      BY <2>2 DEF TmServe
    <3> QED BY <1>1, <1>2, <3>1
  <2> QED BY <2>1, <2>2
<1>4. /\ UNCHANGED <<utm_ch, wait_time, tmBlocked, tmAge, late, lastBeat, sinceBeat>>
      /\ tmPc' = tmPc \/ tmPc' = "check"
  BY DEF TmArrive, TmServe
<1>5. TmTypeOK'
  BY <1>3, <1>4 DEF BeatInv, TmTypeOK
<1> QED BY <1>4, <1>5 DEF BeatInv, NotEarlyInv, PromptInv

\* Steps that lead from one xQueueReceive to the next, or to the keep-alive.
LEMMA BeatLoop == BeatInv /\ (TmTimeout \/ TmCheck) => BeatInv'
<1> SUFFICES ASSUME BeatInv, TmTimeout \/ TmCheck PROVE BeatInv'
  OBVIOUS
<1>1. Period \in Nat \ {0}
  BY TelemetryAssumption
<1>2. TmTypeOK
  BY DEF BeatInv
<1>3. CASE TmTimeout
  <2>1. TmTypeOK'
    BY <1>2, <1>3 DEF TmTimeout, TmTypeOK
  <2> QED BY <1>3, <2>1 DEF TmTimeout, BeatInv, NotEarlyInv, PromptInv
<1>4. CASE TmCheck
  <2>1. CASE tmAge < wait_time
    <3>1. /\ wait_time' = wait_time - tmAge /\ tmAge' = 0 /\ tmBlocked' = 0 /\ tmPc' = "recv"
          /\ UNCHANGED <<tm_queue, utm_ch, late, lastBeat, sinceBeat>>
      BY <1>4, <2>1 DEF TmCheck, TmRemaining
    <3>2. TmTypeOK'
      BY <1>1, <1>2, <2>1, <3>1 DEF TmTypeOK
    <3>3. NotEarlyInv' /\ PromptInv'
      BY <1>1, <1>2, <3>1 DEF BeatInv, NotEarlyInv, PromptInv, TmTypeOK
    <3> QED BY <3>2, <3>3 DEF BeatInv
  <2>2. CASE ~(tmAge < wait_time)
    <3>1. /\ tmPc' = "keepalive"
          /\ UNCHANGED <<tm_queue, utm_ch, wait_time, tmAge, tmBlocked, late, lastBeat, sinceBeat>>
      BY <1>4, <2>2 DEF TmCheck
    <3>2. TmTypeOK'
      BY <1>2, <3>1 DEF TmTypeOK
    <3>3. tmAge >= wait_time
      BY <1>1, <1>2, <2>2 DEF TmTypeOK
    <3> QED BY <3>1, <3>2, <3>3 DEF BeatInv, NotEarlyInv, PromptInv
  <2> QED BY <2>1, <2>2
<1> QED BY <1>3, <1>4

\* The loop that looks for a channel, and the keep-alive.
LEMMA BeatSend == BeatInv /\ (TmSkip \/ TmBeat) => BeatInv'
<1> SUFFICES ASSUME BeatInv, TmSkip \/ TmBeat PROVE BeatInv'
  OBVIOUS
<1>1. Period \in Nat \ {0}
  BY TelemetryAssumption
<1>2. TmTypeOK
  BY DEF BeatInv
<1>3. utm_ch' \in UtmMin..UtmMax
  BY <1>2, NextUtmInRange DEF TmSkip, TmBeat, TmTypeOK
<1>4. CASE TmSkip
  <2>1. TmTypeOK'
    BY <1>2, <1>3, <1>4 DEF TmSkip, TmTypeOK
  <2> QED BY <1>4, <2>1 DEF TmSkip, BeatInv, NotEarlyInv, PromptInv
<1>5. CASE TmBeat
  <2>1. TmTypeOK'
    BY <1>1, <1>2, <1>3, <1>5 DEF TmBeat, TmTypeOK
  <2> QED BY <1>1, <1>5, <2>1 DEF TmBeat, BeatInv, NotEarlyInv, PromptInv
<1> QED BY <1>4, <1>5

\* What both sides of NotEarlyInv gain in one tick.
LEMMA OneTick ==
  ASSUME NEW since \in Nat, NEW since2 \in Nat, NEW wait \in Nat,
         NEW age \in Nat, NEW age2 \in Nat,
         since2 = since + 1, age2 <= age + 1, since + wait >= Period + age
  PROVE  since2 + wait >= Period + age2
BY TelemetryAssumption

\* Time passes.
LEMMA BeatTick == BeatInv /\ TmTick => BeatInv'
<1> SUFFICES ASSUME BeatInv, TmTick PROVE BeatInv'
  OBVIOUS
<1>1. Period \in Nat \ {0}
  BY TelemetryAssumption
<1>2. TmTypeOK
  BY DEF BeatInv
<1>3. UNCHANGED <<tm_queue, utm_ch, tmPc, wait_time, late, lastBeat>>
  BY DEF TmTick
<1>4. /\ tmBlocked' \in 0..Period
      /\ tmAge' \in 0..(Period + 1) /\ sinceBeat' \in 0..(Period + 1)
  BY <1>1, <1>2 DEF TmTick, UpTo, TmTypeOK
<1>5. TmTypeOK'
  BY <1>2, <1>3, <1>4 DEF TmTypeOK
<1>6. NotEarlyInv'
  <2>1. tmAge' >= tmAge /\ tmAge' <= tmAge + 1
    BY <1>1, <1>2 DEF TmTick, UpTo, TmTypeOK
  <2>2. sinceBeat' >= Period \/ sinceBeat' = sinceBeat + 1
    BY <1>1, <1>2 DEF TmTick, UpTo, TmTypeOK
  <2>3. sinceBeat' >= sinceBeat
    BY <1>1, <1>2 DEF TmTick, UpTo, TmTypeOK
  <2>4. /\ wait_time \in Nat /\ tmAge \in Nat /\ tmAge' \in Nat
        /\ sinceBeat \in Nat /\ sinceBeat' \in Nat
    BY <1>1, <1>2, <1>4 DEF TmTypeOK
  <2>5. tmPc' = "keepalive" => tmAge' >= wait_time'
    BY <1>3, <2>1, <2>4 DEF BeatInv, NotEarlyInv
  <2>6. sinceBeat' >= Period \/ sinceBeat' + wait_time' >= Period + tmAge'
    <3>1. sinceBeat >= Period \/ sinceBeat + wait_time >= Period + tmAge
      BY DEF BeatInv, NotEarlyInv
    <3>2. wait_time' = wait_time
      BY <1>3
    <3>3. CASE sinceBeat >= Period
      BY <1>1, <2>3, <2>4, <3>3
    <3>4. CASE sinceBeat' = sinceBeat + 1 /\ sinceBeat + wait_time >= Period + tmAge
      <4>1. sinceBeat' + wait_time >= Period + tmAge'
        BY <2>1, <2>4, <3>4, OneTick
      <4> QED BY <3>2, <4>1
    <3>5. CASE sinceBeat' >= Period
      BY <3>5
    <3> QED BY <2>2, <3>1, <3>3, <3>4, <3>5
  <2> QED BY <2>5, <2>6 DEF NotEarlyInv
<1>7. PromptInv'
  <2> SUFFICES ASSUME ~late
               PROVE  /\ tmBlocked' = tmAge' /\ tmAge' <= wait_time'
                      /\ sinceBeat' + wait_time' = Period + tmAge'
    BY <1>3 DEF PromptInv
  <2>1. tmPc = "recv" /\ tmBlocked < wait_time
    BY DEF TmTick
  <2>2. /\ tmBlocked = tmAge /\ tmAge <= wait_time
        /\ sinceBeat + wait_time = Period + tmAge
    BY DEF BeatInv, PromptInv
  <2>3. tmAge < Period + 1 /\ tmBlocked < Period /\ sinceBeat < Period + 1
    BY <1>1, <1>2, <2>1, <2>2 DEF TmTypeOK
  <2>4. tmBlocked' = tmBlocked + 1 /\ tmAge' = tmAge + 1 /\ sinceBeat' = sinceBeat + 1
    BY <2>1, <2>3 DEF TmTick, UpTo
  <2> QED BY <1>1, <1>2, <1>3, <2>1, <2>2, <2>4 DEF TmTypeOK
<1> QED BY <1>5, <1>6, <1>7 DEF BeatInv

LEMMA BeatNext == BeatInv /\ [TmNext]_tmVars => BeatInv'
<1> SUFFICES ASSUME BeatInv, [TmNext]_tmVars PROVE BeatInv'
  OBVIOUS
<1>1. CASE TmNext
  BY <1>1, BeatServe, BeatLoop, BeatSend, BeatTick DEF TmNext, TmStep
<1>2. CASE UNCHANGED tmVars
  BY <1>2 DEF tmVars, BeatInv, TmTypeOK, NotEarlyInv, PromptInv
<1> QED BY <1>1, <1>2

LEMMA BeatInvHolds == TmSpec => []BeatInv
<1>1. TmInit => BeatInv
  BY BeatInit
<1>2. BeatInv /\ [TmNext]_tmVars => BeatInv'
  BY BeatNext
<1> QED BY <1>1, <1>2, PTL DEF TmSpec

\* Whatever the period and whichever requests come at whichever ticks, a prompt
\* telemetry task has sent its keep-alive when the period is over.
THEOREM KeepAlivesInTime == TmSpec => [](TmTypeOK /\ KeepAliveOnTime)
<1>1. BeatInv => TmTypeOK /\ KeepAliveOnTime
  <2> SUFFICES ASSUME BeatInv, ~late PROVE sinceBeat <= Period
    BY DEF BeatInv, KeepAliveOnTime
  <2> QED BY TelemetryAssumption DEF BeatInv, PromptInv, TmTypeOK
<1> QED BY <1>1, BeatInvHolds, PTL

\* No request, and no delay of the task, makes a keep-alive come before a period
\* has passed since the one before it.
THEOREM KeepAlivesNotEarly == TmSpec => KeepAliveNotEarly
<1>1. BeatInv /\ [TmNext]_tmVars => [TmBeat => sinceBeat >= Period]_tmVars
  <2> SUFFICES ASSUME BeatInv, TmBeat PROVE sinceBeat >= Period
    OBVIOUS
  <2>1. tmAge >= wait_time
    BY DEF TmBeat, BeatInv, NotEarlyInv
  <2> QED BY <2>1, TelemetryAssumption DEF BeatInv, NotEarlyInv, TmTypeOK
<1> QED BY <1>1, BeatInvHolds, PTL DEF TmSpec, KeepAliveNotEarly

-----------------------------------------------------------------------------
(* Which channel it carries                                                *)

Readable == Channels \cap (UtmMin..UtmMax)

\* utm_ch has passed over no readable channel since the last keep-alive.
TurnInv ==
  /\ utm_ch \in UtmMin..UtmMax
  /\ lastBeat \in Readable \cup {NoChannel}
  /\ lastBeat = NoChannel => \A c \in Readable : utm_ch <= c
  /\ lastBeat # NoChannel /\ utm_ch > lastBeat =>
       \A c \in Readable : c > lastBeat => utm_ch <= c
  /\ lastBeat # NoChannel /\ utm_ch <= lastBeat =>
       \A c \in Readable : c <= lastBeat /\ utm_ch <= c

LEMMA ReadableFacts ==
  /\ Readable \subseteq Nat /\ Readable # {} /\ NoChannel \notin Readable
  /\ \A c \in Readable : c \in Nat /\ UtmMin <= c /\ c <= UtmMax /\ c \in Channels
  /\ UtmMin \in Nat /\ UtmMax \in Nat /\ UtmMin <= UtmMax /\ NoChannel \in Nat
  /\ UtmMax < NoChannel
BY TelemetryAssumption DEF Readable, NoChannel

LEMMA TurnInit == TmInit => TurnInv
BY ReadableFacts DEF TmInit, TurnInv

LEMMA TurnNext == TurnInv /\ [TmNext]_tmVars => TurnInv'
<1> SUFFICES ASSUME TurnInv, [TmNext]_tmVars PROVE TurnInv'
  OBVIOUS
<1>1. utm_ch \in Nat /\ UtmMin <= utm_ch /\ utm_ch <= UtmMax
  BY ReadableFacts DEF TurnInv
<1>2. NextUtm = IF utm_ch = UtmMax THEN UtmMin ELSE utm_ch + 1
  BY NextUtmValue DEF TurnInv
<1>3. CASE TmSkip
  <2>1. utm_ch \notin Readable /\ utm_ch' = NextUtm /\ lastBeat' = lastBeat
    BY <1>3, ReadableFacts DEF TmSkip
  <2>2. CASE lastBeat = NoChannel
    <3>1. utm_ch # UtmMax
      <4>1. PICK c \in Readable : utm_ch <= c
        BY <2>2, ReadableFacts DEF TurnInv
      <4>2. c \in Nat /\ c <= UtmMax /\ c # utm_ch /\ UtmMax \in Nat
        BY <2>1, <4>1, ReadableFacts
      <4> QED BY <1>1, <4>1, <4>2
    <3>2. utm_ch' = utm_ch + 1
      BY <1>2, <2>1, <3>1
    <3> QED BY <1>1, <2>1, <2>2, <3>1, <3>2, ReadableFacts DEF TurnInv
  <2>3. CASE lastBeat # NoChannel
    <3>1. lastBeat \in Readable /\ lastBeat \in Nat /\ UtmMin <= lastBeat /\ lastBeat <= UtmMax
      BY <2>3, ReadableFacts DEF TurnInv
    <3>2. CASE utm_ch = UtmMax
      <4>1. utm_ch' = UtmMin
        BY <1>2, <2>1, <3>2
      <4>2. \A c \in Readable : c <= lastBeat
        BY <1>1, <2>1, <2>3, <3>1, <3>2, ReadableFacts DEF TurnInv
      <4> QED BY <2>1, <2>3, <3>1, <4>1, <4>2, ReadableFacts DEF TurnInv
    <3>3. CASE utm_ch # UtmMax
      <4>1. utm_ch' = utm_ch + 1
        BY <1>2, <2>1, <3>3
      <4>2. \A c \in Readable : utm_ch <= c => utm_ch' <= c
        BY <1>1, <2>1, <4>1, ReadableFacts
      <4>3. utm_ch # lastBeat
        BY <2>1, <3>1
      <4> QED BY <1>1, <2>1, <2>3, <3>1, <3>3, <4>1, <4>2, <4>3, ReadableFacts DEF TurnInv
    <3> QED BY <3>2, <3>3
  <2> QED BY <2>2, <2>3
<1>4. CASE TmBeat
  <2>1. utm_ch \in Readable /\ utm_ch' = NextUtm /\ lastBeat' = utm_ch
    BY <1>1, <1>4, ReadableFacts DEF TmBeat, Readable
  <2>2. CASE utm_ch = UtmMax
    BY <1>1, <1>2, <2>1, <2>2, ReadableFacts DEF TurnInv
  <2>3. CASE utm_ch # UtmMax
    BY <1>1, <1>2, <2>1, <2>3, ReadableFacts DEF TurnInv
  <2> QED BY <2>2, <2>3
<1>5. CASE UNCHANGED <<utm_ch, lastBeat>>
  BY <1>5 DEF TurnInv
<1> QED BY <1>3, <1>4, <1>5
        DEF TmNext, TmStep, TmArrive, TmServe, TmTimeout, TmCheck, TmTick, tmVars

\* For every range and every set of readable channels, also where uint8_t wraps:
\* the keep-alives carry the readable channels of the range in turn.
THEOREM ChannelsComeInTurn == TmSpec => ChannelsInTurn
<1>1. TmInit => TurnInv
  BY TurnInit
<1>2. TurnInv /\ [TmNext]_tmVars => TurnInv'
  BY TurnNext
<1>3. TurnInv /\ [TmNext]_tmVars => [TmBeat => utm_ch = InTurn(lastBeat)]_tmVars
  <2> SUFFICES ASSUME TurnInv, TmBeat PROVE utm_ch = InTurn(lastBeat)
    OBVIOUS
  <2> DEFINE above == {c \in Readable : c > lastBeat}
             from  == IF lastBeat = NoChannel \/ above = {} THEN Readable ELSE above
  <2>1. utm_ch \in Readable
    BY ReadableFacts DEF TmBeat, TurnInv, Readable
  <2>2. from \subseteq Nat
    BY ReadableFacts
  <2>3. utm_ch \in from /\ \A d \in from : utm_ch <= d
    <3>1. CASE lastBeat = NoChannel
      BY <2>1, <3>1 DEF TurnInv
    <3>2. CASE lastBeat # NoChannel /\ utm_ch > lastBeat
      BY <2>1, <3>2 DEF TurnInv
    <3>3. CASE lastBeat # NoChannel /\ ~(utm_ch > lastBeat)
      <4>1. lastBeat \in Nat /\ utm_ch \in Nat
        BY <2>1, <3>3, ReadableFacts DEF TurnInv
      <4>2. \A c \in Readable : c \in Nat /\ c <= lastBeat
        BY <3>3, <4>1, ReadableFacts DEF TurnInv
      <4>3. \A c \in Readable : ~(c > lastBeat)
        BY <4>1, <4>2
      <4>4. above = {}
        BY <4>3
      <4> QED BY <2>1, <3>3, <4>1, <4>4 DEF TurnInv
    <3> QED BY <3>1, <3>2, <3>3
  <2>4. InTurn(lastBeat) = CHOOSE c \in from : \A d \in from : c <= d
    BY DEF InTurn, Readable
  <2> HIDE DEF from
  <2>5. \A c \in from : (\A d \in from : c <= d) => c = utm_ch
    BY <2>2, <2>3
  <2> QED BY <2>3, <2>4, <2>5
<1> QED BY <1>1, <1>2, <1>3, PTL DEF TmSpec, ChannelsInTurn

\* Time and turn of the keep-alives of tctm.c, for every period, every range of
\* channels and every queue.
THEOREM KeepAlivesCorrect == TmSpec => KeepAlivesInOrder
BY KeepAlivesInTime, KeepAlivesNotEarly, ChannelsComeInTurn DEF KeepAlivesInOrder

-----------------------------------------------------------------------------
(* How long it must have been quiet                                        *)

\* Periods that have passed in silence by the task's own reckoning, in ticks.
Reckoned ==
  CASE redPc = "take" -> misses * REDUNDANCY_PERIOD
    [] redPc = "blocked" -> misses * REDUNDANCY_PERIOD + elapsed
    [] redPc = "return" -> misses * REDUNDANCY_PERIOD + REDUNDANCY_PERIOD

\* The task never reckons more silence than there has been, unless it is about
\* to learn of a keep-alive; and it has learnt of every one before it counts a
\* switch.
QuietInv ==
  /\ RedTypeOK
  /\ redPc = "blocked" => notified = 0 /\ elapsed < REDUNDANCY_PERIOD
  /\ notified = 0 => silence >= Reckoned
  /\ hops <= switches
  /\ notified > 0 => hops = 0

\* The reckoning stays below the silence that switches the bus.
LEMMA ReckonedBound ==
  ASSUME NEW m \in 0..(REDUNDANCY_MAX_MISSES - 1)
  PROVE  /\ m * REDUNDANCY_PERIOD \in Nat
         /\ (m + 1) * REDUNDANCY_PERIOD = m * REDUNDANCY_PERIOD + REDUNDANCY_PERIOD
         /\ m * REDUNDANCY_PERIOD + REDUNDANCY_PERIOD <= LongSilence
         /\ m + 1 >= REDUNDANCY_MAX_MISSES =>
              m * REDUNDANCY_PERIOD + REDUNDANCY_PERIOD = LongSilence
         /\ LongSilence \in Nat
<1>1. REDUNDANCY_PERIOD \in Nat /\ REDUNDANCY_MAX_MISSES \in Nat
  BY RedundancyAssumption
<1>2. m \in Nat /\ m + 1 <= REDUNDANCY_MAX_MISSES
  BY <1>1
<1>3. \A a, b, p \in Nat : a <= b => a * p <= b * p
  OBVIOUS
<1>4. (m + 1) * REDUNDANCY_PERIOD = m * REDUNDANCY_PERIOD + REDUNDANCY_PERIOD
  BY <1>1, <1>2
<1>5. m * REDUNDANCY_PERIOD \in Nat /\ LongSilence \in Nat
  BY <1>1, <1>2 DEF LongSilence
<1>6. (m + 1) * REDUNDANCY_PERIOD <= LongSilence
  BY <1>1, <1>2, <1>3 DEF LongSilence
<1>7. m + 1 >= REDUNDANCY_MAX_MISSES => (m + 1) * REDUNDANCY_PERIOD = LongSilence
  <2> SUFFICES ASSUME m + 1 >= REDUNDANCY_MAX_MISSES
               PROVE  (m + 1) * REDUNDANCY_PERIOD = LongSilence
    OBVIOUS
  <2>1. m + 1 = REDUNDANCY_MAX_MISSES
    BY <1>1, <1>2
  <2> QED BY <2>1 DEF LongSilence
<1> QED BY <1>4, <1>5, <1>6, <1>7

-----------------------------------------------------------------------------
(* The invariant is inductive                                              *)

LEMMA QuietInit == RedInit => QuietInv
<1> SUFFICES ASSUME RedInit PROVE QuietInv
  OBVIOUS
<1>1. REDUNDANCY_PERIOD \in Nat \ {0} /\ REDUNDANCY_MAX_MISSES \in Nat \ {0}
  BY RedundancyAssumption
<1>2. 0 \in 0..(REDUNDANCY_MAX_MISSES - 1)
  BY <1>1
<1>3. 0 * REDUNDANCY_PERIOD = 0 /\ LongSilence \in Nat
  BY <1>1, <1>2, ReckonedBound
<1>4. RedTypeOK
  BY <1>1, <1>2, <1>3, RedundancyAssumption DEF RedInit, RedTypeOK, Silent
<1>5. Reckoned = 0
  BY <1>3 DEF RedInit, Reckoned
<1> QED BY <1>4, <1>5 DEF RedInit, QuietInv

\* Steps of the master and of the dispatcher.
LEMMA QuietOthers ==
  QuietInv /\ (MasterMoves \/ MasterSends \/ cants_unsolicited_handler) => QuietInv'
<1> SUFFICES ASSUME QuietInv,
                    MasterMoves \/ MasterSends \/ cants_unsolicited_handler
             PROVE  QuietInv'
  OBVIOUS
<1>1. REDUNDANCY_PERIOD \in Nat \ {0} /\ BeatInterval \in Nat \ {0} /\ MaxQueued \in Nat \ {0}
      /\ MaxMoves \in Nat
  BY RedundancyAssumption
<1>2. RedTypeOK
  BY DEF QuietInv
<1>3. LongSilence \in Nat
  BY <1>2, ReckonedBound DEF RedTypeOK
<1>4. CASE MasterMoves
  <2>1. RedTypeOK'
    BY <1>1, <1>2, <1>4 DEF MasterMoves, RedTypeOK
  <2>2. Reckoned' = Reckoned
    BY <1>4 DEF MasterMoves, Reckoned
  <2> QED BY <1>4, <2>1, <2>2 DEF MasterMoves, QuietInv
<1>5. CASE MasterSends
  <2>1. RedTypeOK'
    BY <1>1, <1>2, <1>5 DEF MasterSends, RedTypeOK
  <2>2. Reckoned' = Reckoned
    BY <1>5 DEF MasterSends, Reckoned
  <2> QED BY <1>5, <2>1, <2>2 DEF MasterSends, QuietInv
<1>6. CASE cants_unsolicited_handler
  <2>1. RedTypeOK'
    BY <1>1, <1>2, <1>3, <1>6 DEF cants_unsolicited_handler, RedTypeOK
  <2>2. notified' > 0 /\ redPc' # "blocked" /\ hops' = 0 /\ switches' = switches
    BY <1>2, <1>6 DEF cants_unsolicited_handler, RedTypeOK
  <2> QED BY <2>1, <2>2, <1>2 DEF QuietInv, RedTypeOK
<1> QED BY <1>4, <1>5, <1>6

\* Steps of the task.
LEMMA QuietTask == QuietInv /\ RedStep => QuietInv'
<1> SUFFICES ASSUME QuietInv, RedStep PROVE QuietInv'
  OBVIOUS
<1>1. /\ REDUNDANCY_PERIOD \in Nat \ {0} /\ REDUNDANCY_MAX_MISSES \in Nat \ {0}
      /\ REDUNDANCY_MAX_SWITCHES \in Nat
  BY RedundancyAssumption
<1>2. RedTypeOK
  BY DEF QuietInv
<1>3. LongSilence \in Nat /\ 0 * REDUNDANCY_PERIOD = 0 /\ misses * REDUNDANCY_PERIOD \in Nat
  BY <1>1, <1>2, ReckonedBound DEF RedTypeOK
<1>4. CASE Take
  <2>1. RedTypeOK'
    BY <1>1, <1>2, <1>4 DEF Take, RedTypeOK
  <2>2. notified = 0 => Reckoned' = Reckoned
    BY <1>3, <1>4 DEF Take, Reckoned
  <2> QED BY <1>1, <1>2, <1>4, <2>1, <2>2 DEF Take, QuietInv, RedTypeOK
<1>5. CASE Heard
  <2>1. RedTypeOK'
    BY <1>1, <1>2, <1>5 DEF Heard, RedTypeOK
  <2>2. Reckoned' = 0 /\ hops = 0
    BY <1>3, <1>5 DEF Heard, Reckoned, QuietInv
  <2> QED BY <1>2, <1>3, <1>5, <2>1, <2>2 DEF Heard, QuietInv, RedTypeOK
<1>6. CASE Missed
  <2>1. RedTypeOK'
    BY <1>1, <1>2, <1>6 DEF Missed, RedTypeOK
  <2>2. (misses + 1) * REDUNDANCY_PERIOD = misses * REDUNDANCY_PERIOD + REDUNDANCY_PERIOD
    BY <1>2, ReckonedBound DEF RedTypeOK
  <2>3. Reckoned' = Reckoned
    BY <2>2, <1>6 DEF Missed, Reckoned
  <2> QED BY <1>6, <2>1, <2>3 DEF Missed, QuietInv
<1>7. CASE GiveUpBus
  <2>1. RedTypeOK'
    BY <1>1, <1>2, <1>3, <1>7 DEF GiveUpBus, MayHop, RedTypeOK
  <2>2. Reckoned' = 0
    BY <1>3, <1>7 DEF GiveUpBus, Reckoned
  <2>3. hops' <= switches' /\ redPc' = "take" /\ notified' = 0
    BY <1>2, <1>7 DEF GiveUpBus, QuietInv, RedTypeOK
  <2> QED BY <2>1, <2>2, <2>3 DEF QuietInv, RedTypeOK
<1> QED BY <1>4, <1>5, <1>6, <1>7 DEF RedStep

\* Time passes: the task's reckoning never runs ahead of it.
LEMMA QuietTick == QuietInv /\ RedTick => QuietInv'
<1> SUFFICES ASSUME QuietInv, RedTick PROVE QuietInv'
  OBVIOUS
<1>1. REDUNDANCY_PERIOD \in Nat \ {0} /\ BeatInterval \in Nat \ {0}
  BY RedundancyAssumption
<1>2. RedTypeOK
  BY DEF QuietInv
<1>3. /\ LongSilence \in Nat /\ misses * REDUNDANCY_PERIOD \in Nat
      /\ misses * REDUNDANCY_PERIOD + REDUNDANCY_PERIOD <= LongSilence
  BY <1>2, ReckonedBound DEF RedTypeOK
<1>4. redPc = "blocked" => notified = 0 /\ elapsed < REDUNDANCY_PERIOD
  BY DEF QuietInv
<1>5. silence' \in 0..LongSilence /\ silence' >= silence
      /\ (silence' >= silence + 1 \/ silence' = LongSilence)
  BY <1>2, <1>3 DEF RedTick, RedTypeOK
<1>6. elapsed' \in 0..REDUNDANCY_PERIOD /\ redPc' \in {"take", "blocked", "return"}
  BY <1>1, <1>2, <1>4 DEF RedTick, RedTypeOK
<1>7. sinceSent' \in 0..BeatInterval
  BY <1>1, <1>2 DEF RedTick, RedTypeOK
<1>8. RedTypeOK'
  BY <1>2, <1>5, <1>6, <1>7 DEF RedTick, RedTypeOK
<1>9. redPc' = "blocked" => notified' = 0 /\ elapsed' < REDUNDANCY_PERIOD
  BY <1>1, <1>2, <1>4 DEF RedTick, RedTypeOK
<1>10. notified = 0 => silence' >= Reckoned'
  <2> SUFFICES ASSUME notified = 0 PROVE silence' >= Reckoned'
    OBVIOUS
  <2> DEFINE base == misses * REDUNDANCY_PERIOD
  <2>1. silence >= Reckoned
    BY DEF QuietInv
  <2>2. misses' = misses
    BY DEF RedTick
  <2>3. CASE redPc = "blocked"
    <3>1. silence >= base + elapsed
      BY <2>1, <2>3 DEF Reckoned
    <3>2. Reckoned' = base + elapsed + 1
      <4>1. CASE elapsed + 1 = REDUNDANCY_PERIOD
        <5>1. redPc' = "return"
          BY <2>3, <4>1 DEF RedTick
        <5>2. Reckoned' = base + REDUNDANCY_PERIOD
          BY <5>1, <2>2 DEF Reckoned
        <5> HIDE DEF base
        <5> QED BY <5>2, <4>1, <1>1, <1>2, <1>3 DEF RedTypeOK, base
      <4>2. CASE elapsed + 1 # REDUNDANCY_PERIOD
        <5>1. redPc' = "blocked" /\ elapsed' = elapsed + 1
          BY <2>3, <4>2 DEF RedTick
        <5>2. Reckoned' = base + (elapsed + 1)
          BY <5>1, <2>2 DEF Reckoned
        <5> QED BY <5>2, <1>2, <1>3 DEF RedTypeOK
      <4> QED BY <4>1, <4>2
    <3>3. base + elapsed + 1 <= LongSilence
      BY <1>1, <1>2, <1>3, <1>4, <2>3 DEF RedTypeOK
    <3> QED BY <3>1, <3>2, <3>3, <1>2, <1>3, <1>5 DEF RedTypeOK
  <2>4. CASE redPc # "blocked"
    <3>1. redPc' = redPc /\ elapsed' = elapsed
      BY <2>4 DEF RedTick
    <3>2. Reckoned' = Reckoned
      BY <3>1, <2>2 DEF Reckoned
    <3>3. Reckoned \in Nat
      BY <2>4, <1>1, <1>2, <1>3 DEF Reckoned, RedTypeOK
    <3> QED BY <3>2, <3>3, <2>1, <1>2, <1>3, <1>5 DEF RedTypeOK
  <2> QED BY <2>3, <2>4
<1>11. notified' = notified /\ hops' = hops /\ switches' = switches
  BY DEF RedTick
<1> QED BY <1>8, <1>9, <1>10, <1>11 DEF QuietInv

LEMMA QuietNext == QuietInv /\ [RedNext]_redVars => QuietInv'
<1> SUFFICES ASSUME QuietInv, [RedNext]_redVars PROVE QuietInv'
  OBVIOUS
<1>1. CASE RedNext
  BY <1>1, QuietOthers, QuietTask, QuietTick DEF RedNext
<1>2. CASE UNCHANGED redVars
  <2>1. Reckoned' = Reckoned
    BY <1>2 DEF redVars, Reckoned
  <2> QED BY <1>2, <2>1 DEF redVars, QuietInv, RedTypeOK
<1> QED BY <1>1, <1>2

-----------------------------------------------------------------------------
(* Theorems                                                                *)

\* The step that switches the bus finds LongSilence behind it.
LEMMA SwitchStep ==
  QuietInv /\ [RedNext]_redVars => [bus' # bus => silence >= LongSilence]_redVars
<1> SUFFICES ASSUME QuietInv, RedNext, bus' # bus PROVE silence >= LongSilence
  OBVIOUS
<1>1. GiveUpBus
  BY DEF RedNext, RedStep, MasterMoves, MasterSends, cants_unsolicited_handler,
         Take, Heard, Missed, RedTick
<1>2. misses * REDUNDANCY_PERIOD + REDUNDANCY_PERIOD = LongSilence
  BY <1>1, ReckonedBound DEF GiveUpBus, QuietInv, RedTypeOK
<1>3. Reckoned = LongSilence
  BY <1>1, <1>2 DEF GiveUpBus, Reckoned
<1> QED BY <1>1, <1>3 DEF GiveUpBus, QuietInv

LEMMA QuietIsSafe == QuietInv => RedTypeOK /\ SwitchesBounded
BY RedundancyAssumption DEF QuietInv, RedTypeOK, SwitchesBounded

\* Whatever the period and the numbers of misses and switches: the task of
\* redundancy.c switches the bus only after that many periods without a
\* keep-alive, and no more often than allowed until it is notified of one,
\* in whatever order notifications and ends of periods come.
THEOREM SwitchesAreJustified == RedSpec => SwitchesJustified
<1>1. RedInit => QuietInv
  BY QuietInit
<1>2. QuietInv /\ [RedNext]_redVars => QuietInv'
  BY QuietNext
<1>3. QuietInv /\ [RedNext]_redVars => [bus' # bus => silence >= LongSilence]_redVars
  BY SwitchStep
<1>4. QuietInv => RedTypeOK /\ SwitchesBounded
  BY QuietIsSafe
<1> QED BY <1>1, <1>2, <1>3, <1>4, PTL DEF RedSpec, SwitchesJustified, SwitchOnlyAfterSilence

-----------------------------------------------------------------------------
(* Arithmetic                                                              *)

\* The shifts that occur, by what they have in common.
LEMMA Powers ==
  /\ 2 ^ 3 = 8 /\ 2 ^ 5 = 32 /\ 2 ^ 10 = 1024
  /\ 2 ^ 13 = 256 * 2 ^ 5 /\ 2 ^ 21 = 256 * 2 ^ 13 /\ 2 ^ 29 = 256 * 2 ^ 21
  /\ 2 ^ 18 = 256 * 2 ^ 10 /\ 2 ^ 21 = 8 * 2 ^ 18
  /\ 2 ^ 5 \in Nat \ {0} /\ 2 ^ 10 \in Nat \ {0} /\ 2 ^ 13 \in Nat \ {0}
  /\ 2 ^ 18 \in Nat \ {0} /\ 2 ^ 21 \in Nat \ {0} /\ 2 ^ 29 \in Nat \ {0}
BY SMT

LEMMA Divide ==
  ASSUME NEW m \in Nat \ {0}, NEW low \in Nat, low < m, NEW high \in Nat
  PROVE  (low + m * high) \div m = high /\ (low + m * high) % m = low
BY SMT

LEMMA Divides ==
  ASSUME NEW m \in Nat \ {0}, NEW x \in Nat
  PROVE  /\ x \div m \in Nat /\ x % m \in Nat /\ x % m < m
         /\ x = (x % m) + m * (x \div m)
BY SMT

\* Two shifts in a row.
LEMMA DivideTwice ==
  ASSUME NEW m \in Nat \ {0}, NEW n \in Nat \ {0}, NEW x \in Nat
  PROVE  (x \div m) \div n = x \div (n * m)
<1> DEFINE q == x \div m  low == x % m  h == q \div n  r == q % n
<1>1. q \in Nat /\ low \in Nat /\ low < m /\ x = low + m * q
  BY Divides
<1> HIDE DEF q, low
<1>2. h \in Nat /\ r \in Nat /\ r < n /\ q = r + n * h
  BY <1>1, Divides
<1> HIDE DEF h, r
<1> DEFINE mn == n * m  rest == low + m * r
<1>3. mn \in Nat \ {0}
  BY SMT
<1>4. rest \in Nat /\ rest < mn
  <2>1. m * r \in Nat /\ r + 1 <= n
    BY <1>2, SMT
  <2>2. m * (r + 1) <= m * n
    BY <1>2, <2>1, SMT
  <2>3. m * (r + 1) = m * r + m /\ m * n = mn
    BY <1>2, SMT
  <2> QED
    BY <1>1, <2>1, <2>2, <2>3, SMT
<1>5. x = rest + mn * h
  <2>1. m * (r + n * h) = m * r + mn * h
    BY <1>2, SMT
  <2>2. m * r \in Nat /\ mn * h \in Nat
    BY <1>2, <1>3, SMT
  <2> QED
    BY <1>1, <1>2, <2>1, <2>2, SMT
<1> HIDE DEF mn, rest
<1>6. x \div mn = h
  BY <1>2, <1>3, <1>4, <1>5, Divide
<1> QED
  BY <1>6 DEF mn, h, q

-----------------------------------------------------------------------------
(* Identifiers                                                             *)

\* An identifier, in the weights its fields have.
Identifier(c, s, t, d, x) == c + 1024 * (s + 256 * (t + 8 * (d + 256 * x)))

\* What is read off it: the fields, and above them the unused bits.
HasFields(id, c, s, t, d, x) ==
  /\ id \in Nat
  /\ cants_parse_id(id) = [command |-> c, source |-> s, type |-> t, destination |-> d]
  /\ Shr(id, 21) = d + 256 * x

LEMMA Fields ==
  ASSUME NEW c \in 0..1023, NEW s \in 0..255, NEW t \in 0..7, NEW d \in 0..255, NEW x \in Nat
  PROVE  HasFields(Identifier(c, s, t, d, x), c, s, t, d, x)
<1> DEFINE r3 == d + 256 * x  r2 == t + 8 * r3  r1 == s + 256 * r2  id == c + 1024 * r1
<1>1. id = Identifier(c, s, t, d, x)
  BY DEF Identifier
<1>2. c \in Nat /\ s \in Nat /\ t \in Nat /\ d \in Nat /\ c < 1024 /\ s < 256 /\ t < 8 /\ d < 256
  BY SMT
<1>3. 1024 \in Nat \ {0} /\ 256 \in Nat \ {0} /\ 8 \in Nat \ {0}
  BY SMT
<1>4. r3 \in Nat
  BY <1>2, SMT
<1>5. r3 % 256 = d
  BY <1>2, <1>3, Divide
<1> HIDE DEF r3
<1>6. r2 \in Nat
  BY <1>2, <1>4, SMT
<1>7. r2 % 8 = t /\ r2 \div 8 = r3
  BY <1>2, <1>3, <1>4, Divide
<1> HIDE DEF r2
<1>8. r1 \in Nat
  BY <1>2, <1>6, SMT
<1>9. r1 % 256 = s /\ r1 \div 256 = r2
  BY <1>2, <1>3, <1>6, Divide
<1> HIDE DEF r1
<1>10. id \in Nat
  BY <1>2, <1>8, SMT
<1>11. id % 1024 = c /\ id \div 1024 = r1
  BY <1>2, <1>3, <1>8, Divide
<1> HIDE DEF id
<1>12. Shr(id, 10) = r1
  BY <1>11, Powers DEF Shr
<1>13. Shr(id, 18) = r2
  BY <1>9, <1>10, <1>12, Powers, DivideTwice DEF Shr
<1>14. Shr(id, 21) = r3
  BY <1>7, <1>10, <1>13, Powers, DivideTwice DEF Shr
<1>15. cants_parse_id(id) = [command |-> c, source |-> s, type |-> t, destination |-> d]
  BY <1>5, <1>7, <1>9, <1>11, <1>12, <1>13, <1>14 DEF cants_parse_id
<1> QED
  BY <1>1, <1>10, <1>14, <1>15, Zenon DEF r3, HasFields

\* What cants_construct_id packs.
LEMMA Constructed ==
  ASSUME NEW in \in [command : 0..1023, source : 0..255, type : 0..7, destination : 0..255],
         NEW stale \in Nat
  PROVE  cants_construct_id(in, stale)
           = Identifier(in.command, in.source, in.type, in.destination, stale)
<1> DEFINE c == in.command  s == in.source  t == in.type  d == in.destination
<1>1. c \in 0..1023 /\ s \in 0..255 /\ t \in 0..7 /\ d \in 0..255
  OBVIOUS
<1>2. c % 1024 = c /\ s % 256 = s /\ t % 8 = t /\ d % 256 = d
  BY <1>1, SMT
<1>3. cants_construct_id(in, stale)
        = c + s * 2 ^ 10 + t * 2 ^ 18 + d * 2 ^ 21 + stale * 2 ^ 29
  BY <1>2 DEF cants_construct_id
<1> HIDE DEF c, s, t, d
<1>4. /\ 2 ^ 10 = 1024 /\ 2 ^ 18 = 1024 * 256 /\ 2 ^ 21 = 1024 * 2048
      /\ 2 ^ 29 = 1024 * 524288
  BY SMT
<1>5. c + s * (1024) + t * (1024 * 256) + d * (1024 * 2048) + stale * (1024 * 524288)
        = c + 1024 * (s + 256 * (t + 8 * (d + 256 * stale)))
  BY <1>1, SMT
<1> QED
  BY <1>3, <1>4, <1>5, SMT DEF Identifier, c, s, t, d

\* The four bytes hold the lower 29 bits.
LEMMA SentReceived ==
  ASSUME NEW id \in Nat
  PROVE  ReceivedId(SentBytes(id)) = (id % 32) + 32 * ((Shr(id, 5) % 256)
           + 256 * ((Shr(id, 13) % 256) + 256 * (Shr(id, 21) % 256)))
<1> DEFINE low == id % 32  b3 == Shr(id, 5) % 256  b2 == Shr(id, 13) % 256  b1 == Shr(id, 21) % 256
           q5 == Shr(id, 5)  q13 == Shr(id, 13)  q21 == Shr(id, 21)
<1>1. q5 \in Nat /\ q13 \in Nat /\ q21 \in Nat
  BY Powers, Divides DEF Shr
<1>2. low \in Nat /\ b1 \in Nat /\ b2 \in Nat /\ b3 \in Nat
  <2> HIDE DEF q5, q13, q21
  <2>1. id % 32 \in Nat /\ q5 % 256 \in Nat /\ q13 % 256 \in Nat /\ q21 % 256 \in Nat
    BY <1>1, SMT
  <2> QED
    BY <2>1 DEF q5, q13, q21
<1>3. Shr(low * 8, 3) = low
  <2> HIDE DEF low
  <2>1. (0 + 8 * low) \div 8 = low
    BY <1>2, Divide
  <2>2. 0 + 8 * low = low * 8
    BY <1>2, SMT
  <2> QED
    BY <2>1, <2>2, Powers DEF Shr
<1>4. ReceivedId(SentBytes(id)) = b1 * 2 ^ 21 + b2 * 2 ^ 13 + b3 * 2 ^ 5 + low
  BY <1>3 DEF ReceivedId, SentBytes, Byte
<1> HIDE DEF low, b1, b2, b3
<1>5. 2 ^ 5 = 32 /\ 2 ^ 13 = 32 * 256 /\ 2 ^ 21 = 32 * 65536
  BY SMT
<1>6. b1 * (32 * 65536) + b2 * (32 * 256) + b3 * 32 + low
        = low + 32 * (b3 + 256 * (b2 + 256 * b1))
  BY <1>2, SMT
<1> QED
  BY <1>4, <1>5, <1>6, SMT DEF low, b1, b2, b3

\* What is parsed are the fields, whatever the unused bits were.
LEMMA ParsedFields ==
  ASSUME NEW c \in 0..1023, NEW s \in 0..255, NEW t \in 0..7, NEW d \in 0..255, NEW x \in Nat
  PROVE  cants_parse_id(ReceivedId(SentBytes(Identifier(c, s, t, d, x))))
           = [command |-> c, source |-> s, type |-> t, destination |-> d]
<1> DEFINE id == Identifier(c, s, t, d, x)
           low == id % 32  q5 == Shr(id, 5)  q13 == Shr(id, 13)  b3 == q5 % 256  b2 == q13 % 256
<1>1. id \in Nat /\ Shr(id, 21) = d + 256 * x
  <2>1. HasFields(Identifier(c, s, t, d, x), c, s, t, d, x)
    BY Fields, Zenon
  <2> QED
    BY <2>1, Zenon DEF HasFields
<1>2. (d + 256 * x) % 256 = d /\ d \in Nat /\ d + 256 * x \in Nat
  <2>1. d \in Nat /\ d < 256 /\ 256 \in Nat \ {0} /\ d + 256 * x \in Nat
    BY SMT
  <2> QED
    BY <2>1, Divide
<1>3. id = c + 1024 * (s + 256 * (t + 8 * (d + 256 * x)))
  BY DEF Identifier
<1> HIDE DEF id
<1>4. q5 \in Nat /\ low \in Nat /\ id = low + 32 * q5
  BY <1>1, Powers, Divides DEF Shr
<1>5. q13 = q5 \div 256
  BY <1>1, Powers, DivideTwice DEF Shr
<1>6. Shr(id, 21) = q13 \div 256
  BY <1>1, Powers, DivideTwice DEF Shr
<1> HIDE DEF q5, q13, low
<1>7. 256 \in Nat \ {0}
  BY SMT
<1>8. b3 \in Nat /\ q13 \in Nat /\ q5 = b3 + 256 * q13
  BY <1>4, <1>5, <1>7, Divides
<1>9. b2 \in Nat /\ q13 = b2 + 256 * (d + 256 * x)
  BY <1>1, <1>6, <1>7, <1>8, Divides
<1>10. ReceivedId(SentBytes(id)) = low + 32 * (b3 + 256 * (b2 + 256 * d))
  <2>1. Shr(id, 21) % 256 = d
    BY <1>1, <1>2
  <2>2. ReceivedId(SentBytes(id)) = (id % 32) + 32 * ((Shr(id, 5) % 256)
           + 256 * ((Shr(id, 13) % 256) + 256 * (Shr(id, 21) % 256)))
    BY <1>1, SentReceived
  <2> QED
    BY <2>1, <2>2, SMT DEF low, b3, b2, q5, q13
<1> HIDE DEF b2, b3
<1>11. low + 32 * (b3 + 256 * (b2 + 256 * d)) = c + 1024 * (s + 256 * (t + 8 * (d + 256 * 0)))
  BY <1>1, <1>2, <1>3, <1>4, <1>8, <1>9, SMT
<1>12. ReceivedId(SentBytes(id)) = Identifier(c, s, t, d, 0)
  BY <1>10, <1>11, SMT DEF Identifier
<1>13. 0 \in Nat
  BY SMT
<1>14. HasFields(Identifier(c, s, t, d, 0), c, s, t, d, 0)
  BY <1>13, Fields, Zenon
<1> QED
  BY <1>12, <1>14, Zenon DEF id, HasFields

-----------------------------------------------------------------------------
(* The filter                                                              *)

LEMMA BitOfComplement ==
  ASSUME NEW b \in 0..255, NEW n \in 0..7
  PROVE  Bit(255 - b, n) = 0 => Bit(b, n) = 1
<1>1. CASE n = 0
  BY <1>1, SMTT(60) DEF Bit, Shr
<1>2. CASE n = 1
  BY <1>2, SMTT(60) DEF Bit, Shr
<1>3. CASE n = 2
  BY <1>3, SMTT(60) DEF Bit, Shr
<1>4. CASE n = 3
  BY <1>4, SMTT(60) DEF Bit, Shr
<1>5. CASE n = 4
  BY <1>5, SMTT(60) DEF Bit, Shr
<1>6. CASE n = 5
  BY <1>6, SMTT(60) DEF Bit, Shr
<1>7. CASE n = 6
  BY <1>7, SMTT(60) DEF Bit, Shr
<1>8. CASE n = 7
  BY <1>8, SMTT(60) DEF Bit, Shr
<1> QED
  BY <1>1, <1>2, <1>3, <1>4, <1>5, <1>6, <1>7, <1>8, SMT

LEMMA BitsOf ==
  /\ \A n \in 0..7 : Bit(255, n) = 1 /\ Bit(0, n) = 0
  /\ FilterCode(0)[1] = 0
<1>1. \A n \in 0..7 : Bit(255, n) = 1 /\ Bit(0, n) = 0
  <2> TAKE n \in 0..7
  <2>1. CASE n = 0
    BY <2>1, SMT DEF Bit, Shr
  <2>2. CASE n = 1
    BY <2>2, SMT DEF Bit, Shr
  <2>3. CASE n = 2
    BY <2>3, SMT DEF Bit, Shr
  <2>4. CASE n = 3
    BY <2>4, SMT DEF Bit, Shr
  <2>5. CASE n = 4
    BY <2>5, SMT DEF Bit, Shr
  <2>6. CASE n = 5
    BY <2>6, SMT DEF Bit, Shr
  <2>7. CASE n = 6
    BY <2>7, SMT DEF Bit, Shr
  <2>8. CASE n = 7
    BY <2>8, SMT DEF Bit, Shr
  <2> QED
    BY <2>1, <2>2, <2>3, <2>4, <2>5, <2>6, <2>7, <2>8, SMT
<1>2. 0 \div 2 ^ 21 = 0
  BY SMT
<1>3. FilterCode(0)[1] = 0
  BY <1>2, SMT DEF FilterCode, SentBytes, Byte, Shr
<1> QED
  BY <1>1, <1>3

\* Only bits of the destination are compared.
LEMMA FilterLooks ==
  /\ Byte(Shr(FilterMask, 21)) \in 0..255
  /\ FilterIgnore(FilterMask) = <<255 - Byte(Shr(FilterMask, 21)), 255, 255, 255>>
<1> DEFINE h == FilterMask \div 2 ^ 21
<1>1. FilterMask \in Nat /\ FilterMask % 2 ^ 21 = 0
  BY FrameAssumption
<1>2. h \in Nat /\ FilterMask = (FilterMask % 2 ^ 21) + 2 ^ 21 * h
  BY <1>1, Powers, Divides
<1> HIDE DEF h
<1>3. FilterMask = 0 + 2 ^ 13 * (256 * h) /\ FilterMask = 0 + 2 ^ 5 * (256 * (256 * h))
  <2>1. 2 ^ 21 = 2097152 /\ 2 ^ 13 = 8192 /\ 2 ^ 5 = 32
    BY SMT
  <2> QED
    BY <1>1, <1>2, <2>1, SMT
<1>4. 0 \in Nat /\ 256 \in Nat \ {0} /\ 0 < 256 /\ 256 * h \in Nat /\ 256 * (256 * h) \in Nat
  BY <1>2, SMT
<1>5. Shr(FilterMask, 13) = 256 * h /\ Shr(FilterMask, 5) = 256 * (256 * h)
      /\ FilterMask % 32 = 0
  <2>1. 2 ^ 13 \in Nat \ {0} /\ 2 ^ 5 \in Nat \ {0} /\ 0 < 2 ^ 13 /\ 0 < 2 ^ 5 /\ 2 ^ 5 = 32
    BY Powers, SMT
  <2>2. (0 + 2 ^ 13 * (256 * h)) \div 2 ^ 13 = 256 * h
    BY <1>4, <2>1, Divide
  <2>3. /\ (0 + 2 ^ 5 * (256 * (256 * h))) \div 2 ^ 5 = 256 * (256 * h)
        /\ (0 + 2 ^ 5 * (256 * (256 * h))) % 2 ^ 5 = 0
    BY <1>4, <2>1, Divide
  <2> QED
    BY <1>3, <2>1, <2>2, <2>3 DEF Shr
<1>6. Byte(Shr(FilterMask, 13)) = 0 /\ Byte(Shr(FilterMask, 5)) = 0
  <2>1. (0 + 256 * h) % 256 = 0 /\ (0 + 256 * (256 * h)) % 256 = 0
    BY <1>2, <1>4, Divide
  <2>2. 0 + 256 * h = 256 * h /\ 0 + 256 * (256 * h) = 256 * (256 * h)
    BY <1>4, SMT
  <2> QED
    BY <1>5, <2>1, <2>2 DEF Byte
<1>7. Byte(Shr(FilterMask, 21)) \in 0..255
  BY <1>2, SMT DEF Byte, Shr, h
<1> QED
  BY <1>5, <1>6, <1>7 DEF FilterIgnore

\* A frame for an address the node serves passes.
LEMMA FilterTakes ==
  ASSUME NEW d \in {CANTS_NODE_ID, CANTS_KEEPALIVE_ID, CANTS_TIME_ID},
         NEW data, data[1] = d
  PROVE  FilterPasses(data)
<1> DEFINE mask == Byte(Shr(FilterMask, 21))
<1> SUFFICES ASSUME NEW k \in 1..4, NEW n \in 0..7, Bit(FilterIgnore(FilterMask)[k], n) = 0
             PROVE  Bit(data[k], n) = Bit(FilterCode(0)[k], n)
  BY DEF FilterPasses
<1>1. FilterIgnore(FilterMask) = <<255 - mask, 255, 255, 255>> /\ mask \in 0..255
  BY FilterLooks
<1> HIDE DEF mask
<1>2. k = 1
  <2>1. k = 1 \/ k = 2 \/ k = 3 \/ k = 4
    OBVIOUS
  <2>2. k # 1 => FilterIgnore(FilterMask)[k] = 255
    BY <1>1, <2>1
  <2> QED
    BY <2>2, BitsOf
<1>3. Bit(mask, n) = 1
  <2>1. Bit(255 - mask, n) = 0
    BY <1>1, <1>2
  <2> QED
    BY <1>1, <2>1, BitOfComplement
<1>4. Bit(d, n) = 0
  BY <1>3, FrameAssumption DEF mask
<1> QED
  BY <1>2, <1>4, BitsOf

-----------------------------------------------------------------------------
(* The way of a message                                                    *)

FrameInv ==
  /\ message \in Message /\ stage \in {"idle", "sent", "received", "filtered"}
  /\ stage = "sent" => \E stale \in 0..3 : wire = SentBytes(cants_construct_id(message, stale))
  /\ stage = "received" => parsed = message
  /\ stage = "filtered" => ~Wanted(message)

\* What is on the wire.
LEMMA OnTheWire ==
  ASSUME message \in Message, NEW stale \in 0..3,
         wire = SentBytes(cants_construct_id(message, stale))
  PROVE  cants_parse_id(ReceivedId(wire)) = message /\ wire[1] = message.destination
<1> DEFINE c == message.command  s == message.source  t == message.type  d == message.destination
<1>1. c \in 0..1023 /\ s \in 0..255 /\ t \in 0..7 /\ d \in 0..255 /\ stale \in Nat
  <2>1. c \in Commands /\ s \in Sources /\ t \in Types /\ d \in Destinations
    BY DEF Message
  <2>2. stale \in Nat
    BY SMT
  <2>3. /\ Commands \subseteq 0..1023 /\ Sources \subseteq 0..255
        /\ Types \subseteq 0..7 /\ Destinations \subseteq 0..255
    BY FrameAssumption
  <2> HIDE DEF c, s, t, d
  <2>4. c \in 0..1023
    BY <2>1, <2>3
  <2>5. s \in 0..255
    BY <2>1, <2>3
  <2>6. t \in 0..7
    BY <2>1, <2>3
  <2>7. d \in 0..255
    BY <2>1, <2>3
  <2> QED
    BY <2>2, <2>4, <2>5, <2>6, <2>7
<1>2. message = [command |-> c, source |-> s, type |-> t, destination |-> d]
  BY DEF Message
<1>3. message \in [command : 0..1023, source : 0..255, type : 0..7, destination : 0..255]
  BY <1>1, <1>2
<1>4. wire = SentBytes(Identifier(c, s, t, d, stale))
  BY <1>1, <1>3, Constructed
<1> HIDE DEF c, s, t, d
<1>5. cants_parse_id(ReceivedId(wire)) = message
  <2>1. cants_parse_id(ReceivedId(SentBytes(Identifier(c, s, t, d, stale))))
          = [command |-> c, source |-> s, type |-> t, destination |-> d]
    BY <1>1, ParsedFields, Zenon
  <2> QED
    BY <1>2, <1>4, <2>1, Zenon
<1>6. HasFields(Identifier(c, s, t, d, stale), c, s, t, d, stale)
  BY <1>1, Fields, Zenon
<1>7. wire[1] = Byte(d + 256 * stale)
  <2> DEFINE id == Identifier(c, s, t, d, stale)
  <2>1. Shr(id, 21) = d + 256 * stale
    BY <1>6, Zenon DEF HasFields
  <2> HIDE DEF id
  <2>2. SentBytes(id)[1] = Byte(Shr(id, 21))
    BY DEF SentBytes
  <2> QED
    BY <1>4, <2>1, <2>2, Zenon DEF id
<1>8. Byte(d + 256 * stale) = d
  <2>1. d \in Nat /\ d < 256 /\ 256 \in Nat \ {0}
    BY <1>1, SMT
  <2> QED
    BY <1>1, <2>1, Divide DEF Byte
<1> QED
  BY <1>5, <1>7, <1>8 DEF d

\* Whatever its fields and the unused bits of its identifier, a message of this
\* node passes the filter, and what passes is parsed into the fields it was built
\* from.
THEOREM EveryMessageArrives == FrameSpec => []MessagesArrive
<1>1. FrameInit => FrameInv
  BY DEF FrameInit, FrameInv
<1>2. FrameInv /\ [FrameNext]_frameVars => FrameInv'
  <2> SUFFICES ASSUME FrameInv, [FrameNext]_frameVars PROVE FrameInv'
    OBVIOUS
  <2>1. CASE Transmit
    BY <2>1 DEF Transmit, FrameInv
  <2>2. CASE ReceiveFrame
    <3>1. PICK stale \in 0..3 : wire = SentBytes(cants_construct_id(message, stale))
      BY <2>2 DEF ReceiveFrame, FrameInv
    <3>2. cants_parse_id(ReceivedId(wire)) = message /\ wire[1] = message.destination
      BY <3>1, OnTheWire DEF FrameInv
    <3>3. ~FilterPasses(wire) => ~Wanted(message)
      BY <3>2, FilterTakes DEF Wanted
    <3> QED
      BY <2>2, <3>2, <3>3 DEF ReceiveFrame, FrameInv, Wanted
  <2>3. CASE SetBaudrate
    BY <2>3 DEF SetBaudrate, FrameInv, Wanted
  <2>4. CASE UNCHANGED frameVars
    BY <2>4 DEF frameVars, FrameInv, Wanted
  <2> QED
    BY <2>1, <2>2, <2>3, <2>4 DEF FrameNext
<1>3. FrameInv => MessagesArrive
  BY DEF FrameInv, MessagesArrive, RoundTrip, FilterKeepsOurs
<1> QED
  BY <1>1, <1>2, <1>3, PTL DEF FrameSpec

-----------------------------------------------------------------------------
(* Bit timing                                                              *)

Choice == [brp : Int, tseg1 : Int, tseg2 : Int, sample : Int]
Timing == [rate : Nat, sp : Nat, rateError : Nat, spError : Int, choice : Choice]

\* Register values in range, with a sampling point that is not late.
Fits(c, sp) == c.tseg1 \in 1..16 /\ c.tseg2 \in 1..8 /\ c.sample <= sp

\* The choice is a candidate whose error counts as none.
From(c, rate) ==
  \E tseg \in 2..24 :
    /\ c.brp = Prescaler(rate, 1 + tseg) /\ c.brp \in 1..64
    /\ c.tseg1 + c.tseg2 = tseg
    /\ QuantaError(rate, tseg) = 0

\* What the search keeps: as soon as the error is 0, the choice fits.
Sound(best, rate, sp) ==
  /\ best \in Timing /\ best.rate = rate /\ best.sp = sp
  /\ best.rateError = 0 => Fits(best.choice, sp) /\ From(best.choice, rate)

\* The length of the bit up to the sampling point, rounded down.
LEMMA SplitFits ==
  ASSUME NEW sp \in 680..999, NEW full \in 3..25
  PROVE  LET k == (sp * full) \div 1000
         IN  k \in Nat /\ k >= 2 /\ full - k \in 1..8 /\ 1000 * k <= sp * full
<1> DEFINE x == sp * full
<1>1. x \in Nat /\ x <= 999 * full /\ x >= 680 * full
  BY SMT
<1> HIDE DEF x
<1> DEFINE k == x \div 1000
<1>2. k \in Nat /\ 1000 * k <= x /\ x < 1000 * k + 1000
  BY <1>1, SMT
<1> HIDE DEF k
<1>3. k >= 2 /\ full - k \in 1..8
  BY <1>1, <1>2, SMT
<1> QED
  BY <1>2, <1>3, SMT DEF k, x

\* A sampling point of at most k quanta is not late.
LEMMA NotLate ==
  ASSUME NEW sp \in Nat, NEW full \in Nat \ {0}, NEW k \in Nat, 1000 * k <= sp * full
  PROVE  (1000 * k) \div full \in Nat /\ (1000 * k) \div full <= sp
<1> DEFINE x == 1000 * k  q == x \div full  r == x % full
<1>1. x \in Nat
  BY SMT
<1>2. q \in Nat /\ r \in Nat /\ x = r + full * q
  BY <1>1, Divides
<1> HIDE DEF x, q, r
<1>3. full * q <= sp * full
  <2>1. full * q \in Nat /\ sp * full \in Nat
    BY <1>2, SMT
  <2> QED
    BY <1>2, <2>1, SMT DEF x
<1>4. q <= sp
  <2> SUFFICES ASSUME q >= sp + 1 PROVE FALSE
    BY <1>2, SMT
  <2>1. full * q >= full * (sp + 1)
    BY <1>2, SMT
  <2>2. full * (sp + 1) = sp * full + full
    BY SMT
  <2>3. full * q \in Nat /\ sp * full \in Nat
    BY <1>2, SMT
  <2> QED
    BY <1>3, <2>1, <2>2, <2>3, SMT
<1> QED
  BY <1>2, <1>4 DEF x, q

LEMMA HalfClock == SOC_CLOCK \div 2 \in Nat
<1>1. SOC_CLOCK \in Nat
  BY TimingAssumption
<1> QED
  BY <1>1, SMT

LEMMA PrescalerType ==
  ASSUME NEW rate \in Nat \ {0}, NEW full \in 3..25
  PROVE  Prescaler(rate, full) \in Nat
<1> DEFINE h == SOC_CLOCK \div 2  m == full * rate
<1>1. h \in Nat
  BY HalfClock
<1>2. m \in Nat \ {0}
  BY SMT
<1> HIDE DEF h, m
<1>3. h \div m \in Nat
  BY <1>1, <1>2, Divides
<1> QED
  BY <1>3, SMT DEF Prescaler, Byte, h, m

\* Either rounding fits the registers, and the first is never late.
LEMMA CandidateFits ==
  ASSUME NEW rate \in Nat \ {0}, NEW sp \in 680..999, NEW tseg \in 2..24, NEW i \in 0..1
  PROVE  LET c == Candidate(rate, sp, tseg, i)
         IN  /\ c \in Choice /\ c.tseg1 \in 1..16 /\ c.tseg2 \in 1..8
             /\ c.brp = Prescaler(rate, 1 + tseg) /\ c.tseg1 + c.tseg2 = tseg
             /\ i = 0 => c.sample \in Nat /\ c.sample <= sp
<1> DEFINE full == 1 + tseg  k == (sp * full) \div 1000
           split == SplitAt(sp, full, i)
           tseg1 == IF tseg - split > 16 THEN 16 ELSE tseg - split
           sample == (1000 * (full - (tseg - tseg1))) \div full
<1>1. full \in 3..25 /\ tseg \in Nat /\ full = 1 + tseg
  BY SMT
<1>2. k \in Nat /\ k >= 2 /\ full - k \in 1..8 /\ 1000 * k <= sp * full
  BY <1>1, SplitFits
<1>3. split = Clamp(Byte(full - k - i), 1, 8)
  BY DEF SplitAt
<1> HIDE DEF k, split
<1>4. split \in 1..8 /\ split <= full - k /\ (i = 0 => split = full - k)
  <2> HIDE DEF full
  <2>1. full - k - i \in 0..8
    BY <1>1, <1>2, SMT
  <2>2. Byte(full - k - i) = full - k - i
    BY <2>1, SMT DEF Byte
  <2>3. split = Clamp(full - k - i, 1, 8)
    BY <1>3, <2>2
  <2> QED
    BY <1>1, <1>2, <2>1, <2>3, SMT DEF Clamp
<1> HIDE DEF full
<1>5. tseg1 \in 1..16 /\ tseg - tseg1 \in 1..8 /\ (i = 0 => 1 + tseg1 <= k)
  BY <1>1, <1>2, <1>4, SMT
<1> HIDE DEF tseg1
<1>6. full - (tseg - tseg1) = 1 + tseg1
  BY <1>1, <1>5, SMT
<1>7. sample \in Int
  BY <1>1, <1>5, <1>6, SMT
<1>8. i = 0 => sample \in Nat /\ sample <= sp
  <2> SUFFICES ASSUME i = 0 PROVE sample \in Nat /\ sample <= sp
    OBVIOUS
  <2>1. 1000 * (1 + tseg1) <= 1000 * k /\ 1 + tseg1 \in Nat
    BY <1>2, <1>5, SMT
  <2>2. 1000 * (1 + tseg1) <= sp * full
    <3>1. sp * full \in Nat
      BY <1>1, SMT
    <3> QED
      BY <1>2, <1>5, <2>1, <3>1, SMT
  <2>3. sp \in Nat /\ full \in Nat \ {0}
    BY <1>1, SMT
  <2> QED
    BY <1>6, <2>1, <2>2, <2>3, NotLate
<1>9. Prescaler(rate, full) \in Int
  BY <1>1, PrescalerType, SMT
<1>10. Candidate(rate, sp, tseg, i)
         = [brp |-> Prescaler(rate, full), tseg1 |-> tseg1, tseg2 |-> tseg - tseg1, sample |-> sample]
  BY DEF Candidate, full, split, tseg1
<1> HIDE DEF sample
<1>11. tseg1 + (tseg - tseg1) = tseg
  BY <1>1, <1>5, SMT
<1> QED
  BY <1>5, <1>7, <1>8, <1>9, <1>10, <1>11 DEF Choice, full

\* Only a difference that is a multiple of 2^16 counts as none.
LEMMA RateErrorOf ==
  ASSUME NEW rate \in Nat, NEW b \in Nat
  PROVE  RateError(rate, b) \in Nat /\ RateError(rate, rate) = 0
<1> DEFINE x == rate - b  low == x % 65536  d == Int16(x)
<1>1. x \in Int
  OBVIOUS
<1> HIDE DEF x
<1>2. low \in Int /\ 0 <= low /\ low < 65536
  BY <1>1
<1> HIDE DEF low
<1>3. d \in Int /\ -32768 <= d /\ d < 32768
  <2>1. d = IF low < 32768 THEN low ELSE low - 65536
    BY DEF Int16, low
  <2> QED
    BY <1>2, <2>1
<1>4. RateError(rate, b) = IF d = -32768 THEN MaxRateError - 32767 ELSE Abs(d)
  BY DEF RateError, x
<1> HIDE DEF d
<1>5. RateError(rate, b) \in Nat
  BY <1>3, <1>4, SMT DEF Abs, MaxRateError
<1>6. rate - rate = 0 /\ Int16(0) = 0 /\ Abs(0) = 0 /\ 0 # -32768
  BY SMT DEF Int16, Abs
<1>7. RateError(rate, rate) = 0
  BY <1>6 DEF RateError
<1> QED
  BY <1>5, <1>7

LEMMA QuantaErrorType ==
  ASSUME NEW rate \in Nat \ {0}, NEW tseg \in 2..24
  PROVE  QuantaError(rate, tseg) \in Nat
<1> DEFINE full == 1 + tseg  brp == Prescaler(rate, full)  m == brp * full  h == SOC_CLOCK \div 2
<1>1. full \in 3..25
  BY SMT
<1> HIDE DEF full
<1>2. brp \in Nat
  BY <1>1, PrescalerType
<1> HIDE DEF brp
<1>3. h \in Nat
  BY HalfClock
<1>4. brp # 0 => m \in Nat \ {0}
  BY <1>1, <1>2, SMT
<1> HIDE DEF h, m
<1>5. brp # 0 => h \div m \in Nat
  BY <1>3, <1>4, Divides
<1>6. BitRate(brp, full) = IF brp = 0 THEN 0 ELSE h \div m
  BY DEF BitRate, h, m
<1>7. BitRate(brp, full) \in Nat
  BY <1>5, <1>6, SMT
<1> DEFINE b == BitRate(brp, full)
<1>8. QuantaError(rate, tseg) = RateError(rate, b)
  BY DEF QuantaError, full, brp
<1> HIDE DEF b
<1>9. rate \in Nat /\ b \in Nat
  BY <1>7, SMT DEF b
<1> QED
  BY <1>8, <1>9, RateErrorOf

\* A divider that gives the rate is found, and gives it.
LEMMA ExactDivider ==
  ASSUME NEW rate \in Nat \ {0}, NEW brp \in 1..64, NEW tseg \in 2..24,
         brp * (1 + tseg) * rate = SOC_CLOCK \div 2
  PROVE  Prescaler(rate, 1 + tseg) \in 1..64 /\ QuantaError(rate, tseg) = 0
<1> DEFINE full == 1 + tseg  m == full * rate  n == brp * full
<1>1. full \in Nat \ {0} /\ brp \in Nat \ {0}
  BY SMT
<1> HIDE DEF full
<1>2. m \in Nat \ {0} /\ n \in Nat \ {0} /\ 0 \in Nat /\ 0 < m /\ 0 < n
  BY <1>1, SMT
<1>3. SOC_CLOCK \div 2 = 0 + m * brp /\ SOC_CLOCK \div 2 = 0 + n * rate
  <2>1. SOC_CLOCK \div 2 = brp * full * rate
    BY DEF full
  <2>2. brp * full * rate = 0 + m * brp /\ brp * full * rate = 0 + n * rate
    BY <1>1, SMT
  <2> QED
    BY <2>1, <2>2
<1> HIDE DEF m, n
<1>4. (0 + m * brp) \div m = brp /\ (0 + n * rate) \div n = rate
  BY <1>1, <1>2, Divide
<1>5. Prescaler(rate, full) = brp
  <2>1. Prescaler(rate, full) = Byte((SOC_CLOCK \div 2) \div m)
    BY DEF Prescaler, m
  <2>2. (SOC_CLOCK \div 2) \div m = brp
    BY <1>3, <1>4, Zenon
  <2>3. Byte(brp) = brp
    BY SMT DEF Byte
  <2> QED
    BY <2>1, <2>2, <2>3, Zenon
<1>6. BitRate(brp, full) = rate
  <2>1. BitRate(brp, full) = (SOC_CLOCK \div 2) \div n
    BY <1>1 DEF BitRate, n
  <2> QED
    BY <1>3, <1>4, <2>1, Zenon
<1>7. QuantaError(rate, tseg) = RateError(rate, rate)
  BY <1>5, <1>6 DEF QuantaError, full
<1>8. RateError(rate, rate) = 0
  <2>1. rate \in Nat
    BY SMT
  <2> QED
    BY <2>1, RateErrorOf
<1> QED
  BY <1>5, <1>7, <1>8 DEF full

TakenFor(best, x, c, e) == [best EXCEPT !.spError = x, !.choice = c, !.rateError = e]

IsTaken(t, best, c, e) ==
  /\ t \in Timing /\ t.rate = best.rate /\ t.sp = best.sp
  /\ t.choice = c /\ t.rateError = e

LEMMA Taken ==
  ASSUME NEW best \in Timing, NEW x \in Int, NEW c \in Choice, NEW e \in Nat
  PROVE  IsTaken(TakenFor(best, x, c, e), best, c, e)
BY DEF Timing, TakenFor, IsTaken

\* What a rounding makes of best.
Rounded(r, rate, sp, best, tseg, i) ==
  /\ Sound(r, rate, sp)
  /\ r.rateError = best.rateError \/ r.rateError = QuantaError(rate, tseg)
  /\ i = 0 /\ best.spError = MaxError => r.rateError = QuantaError(rate, tseg)

LEMMA RoundingSound ==
  ASSUME NEW rate \in Nat \ {0}, NEW sp \in 680..999, NEW tseg \in 2..24, NEW i \in 0..1,
         NEW best, Sound(best, rate, sp), Prescaler(rate, 1 + tseg) \in 1..64
  PROVE  Rounded(TryRounding(rate, sp, best, tseg, i), rate, sp, best, tseg, i)
<1> DEFINE c == Candidate(rate, sp, tseg, i)  r == TryRounding(rate, sp, best, tseg, i)
           taken == [best EXCEPT !.spError = sp - c.sample, !.choice = c,
                                 !.rateError = QuantaError(rate, tseg)]
<1>1. /\ c \in Choice /\ c.tseg1 \in 1..16 /\ c.tseg2 \in 1..8
      /\ c.brp = Prescaler(rate, 1 + tseg) /\ c.tseg1 + c.tseg2 = tseg
      /\ i = 0 => c.sample \in Nat /\ c.sample <= sp
  BY CandidateFits
<1>2. r = IF c.sample <= sp /\ sp - c.sample < best.spError THEN taken ELSE best
  BY <1>1 DEF TryRounding
<1> HIDE DEF c, r
<1>3. QuantaError(rate, tseg) \in Nat
  BY QuantaErrorType
<1>4. sp \in Nat
  BY SMT
<1>5. CASE c.sample <= sp /\ sp - c.sample < best.spError
  <2>1. r = taken
    BY <1>2, <1>5
  <2>2. /\ best \in Timing /\ best.rate = rate /\ best.sp = sp
    BY DEF Sound
  <2>3. sp - c.sample \in Int
    <3>1. c.sample \in Int
      BY <1>1 DEF Choice
    <3> QED
      BY <1>4, <3>1, SMT
  <2>4. /\ taken \in Timing /\ taken.rate = rate /\ taken.sp = sp /\ taken.choice = c
        /\ taken.rateError = QuantaError(rate, tseg)
    <3> DEFINE x == sp - c.sample  e == QuantaError(rate, tseg)
    <3>1. x \in Int /\ e \in Nat /\ c \in Choice
      BY <1>1, <1>3, <2>3
    <3> HIDE DEF x, e
    <3>2. taken = TakenFor(best, x, c, e)
      BY DEF TakenFor, x, e
    <3> HIDE DEF taken
    <3>3. /\ taken \in Timing /\ taken.rate = best.rate /\ taken.sp = best.sp /\ taken.choice = c
          /\ taken.rateError = e
      <4> HIDE DEF c
      <4>1. best \in Timing
        BY <2>2
      <4>2. IsTaken(TakenFor(best, x, c, e), best, c, e)
        BY <3>1, <4>1, Taken, Zenon
      <4> QED
        BY <3>2, <4>2, Zenon DEF IsTaken
    <3> QED
      BY <2>2, <3>3 DEF e
  <2>5. Fits(c, sp)
    BY <1>1, <1>5 DEF Fits
  <2>6. QuantaError(rate, tseg) = 0 => From(c, rate)
    BY <1>1, Zenon DEF From
  <2> QED
    BY <2>1, <2>4, <2>5, <2>6 DEF Sound, Rounded, r
<1>6. CASE ~(c.sample <= sp /\ sp - c.sample < best.spError)
  <2>1. r = best
    BY <1>2, <1>6
  <2>2. ~(i = 0 /\ best.spError = MaxError)
    <3> SUFFICES ASSUME i = 0, best.spError = MaxError PROVE FALSE
      OBVIOUS
    <3>1. c.sample \in Nat /\ c.sample <= sp
      BY <1>1
    <3> DEFINE x == c.sample
    <3>2. x \in Nat /\ x <= sp
      BY <3>1
    <3> HIDE DEF x
    <3>3. sp - x < MaxError
      BY <3>2, SMT DEF MaxError
    <3> QED
      BY <1>6, <3>2, <3>3 DEF x
  <2> QED
    BY <2>1, <2>2 DEF Rounded, r
<1> QED
  BY <1>5, <1>6

\* One pass keeps an error of 0, and makes the error 0 if it can.
Passed(r, rate, sp, best, tseg) ==
  /\ Sound(r, rate, sp)
  /\ best.rateError = 0 => r.rateError = 0
  /\ Prescaler(rate, 1 + tseg) \in 1..64 /\ QuantaError(rate, tseg) = 0 => r.rateError = 0

LEMMA QuantaSound ==
  ASSUME NEW rate \in Nat \ {0}, NEW sp \in 680..999, NEW tseg \in 2..24,
         NEW best, Sound(best, rate, sp)
  PROVE  Passed(TryQuanta(rate, sp, best, tseg), rate, sp, best, tseg)
<1> DEFINE brp == Prescaler(rate, 1 + tseg)  e == QuantaError(rate, tseg)
           fresh == IF e < best.rateError THEN [best EXCEPT !.spError = MaxError] ELSE best
           skip == \/ best.rateError = 0 /\ best.spError = 0
                   \/ brp \notin 1..64 \/ e > best.rateError
           r1 == TryRounding(rate, sp, fresh, tseg, 0)
           r2 == TryRounding(rate, sp, r1, tseg, 1)
           r == TryQuanta(rate, sp, best, tseg)
<1>1. r = IF skip THEN best ELSE r2
  BY DEF TryQuanta
<1>2. e \in Nat
  BY QuantaErrorType
<1>3. best \in Timing /\ best.rateError \in Nat
  BY DEF Sound, Timing
<1>4. /\ Sound(fresh, rate, sp) /\ fresh.rateError = best.rateError
      /\ e < best.rateError => fresh.spError = MaxError
  <2>1. MaxError \in Int
    BY SMT DEF MaxError
  <2> DEFINE f == [best EXCEPT !.spError = MaxError]
  <2>2. f \in Timing /\ f.rateError = best.rateError /\ f.spError = MaxError /\ f.rate = best.rate
        /\ f.sp = best.sp /\ f.choice = best.choice
    BY <1>3, <2>1 DEF Timing
  <2>3. Sound(f, rate, sp)
    BY <2>2 DEF Sound
  <2> HIDE DEF f, e
  <2> QED
    BY <2>2, <2>3 DEF f
<1> HIDE DEF fresh, e, r, r1, r2
<1>5. CASE skip
  <2>1. r = best
    BY <1>1, <1>5
  <2>2. brp \in 1..64 /\ e = 0 => best.rateError = 0
    BY <1>2, <1>3, <1>5
  <2> QED
    BY <2>1, <2>2 DEF Passed, r, e
<1>6. CASE ~skip
  <2>1. r = r2 /\ brp \in 1..64 /\ 0 \in 0..1 /\ 1 \in 0..1
    BY <1>1, <1>6
  <2>2. /\ Sound(r1, rate, sp) /\ (r1.rateError = fresh.rateError \/ r1.rateError = e)
        /\ fresh.spError = MaxError => r1.rateError = e
    <3>1. Rounded(r1, rate, sp, fresh, tseg, 0)
      BY <1>4, <2>1, RoundingSound, Zenon DEF r1
    <3> QED
      BY <3>1 DEF Rounded, e
  <2>3. Sound(r2, rate, sp) /\ (r2.rateError = r1.rateError \/ r2.rateError = e)
    <3>1. Rounded(r2, rate, sp, r1, tseg, 1)
      BY <2>1, <2>2, RoundingSound, Zenon DEF r2
    <3> QED
      BY <3>1 DEF Rounded, e
  <2>4. best.rateError = 0 => r2.rateError = 0
    BY <1>2, <1>3, <1>4, <1>6, <2>2, <2>3
  <2>5. e = 0 => r2.rateError = 0
    BY <1>2, <1>3, <1>4, <2>2, <2>3, <2>4
  <2> QED
    BY <2>1, <2>3, <2>4, <2>5 DEF Passed, r, e
<1> QED
  BY <1>5, <1>6

LEMMA LeastElement ==
  ASSUME NEW T, T \subseteq Nat, T # {}
  PROVE  \E n \in T : \A m \in T : n <= m
<1>1. \E n \in T : \A m \in T : ~(<<m, n>> \in OpToRel(<, Nat))
  BY NatLessThanWellFounded, WFMin
<1>2. PICK n \in T : \A m \in T : ~(<<m, n>> \in OpToRel(<, Nat))
  BY <1>1
<1>3. ASSUME NEW m \in T
      PROVE  n <= m
  <2>1. m \in Nat /\ n \in Nat
    OBVIOUS
  <2>2. ~(m < n)
    BY <1>2, <2>1 DEF OpToRel
  <2> QED
    BY <2>1, <2>2
<1> QED
  BY <1>3

LEMMA BoundedInduction ==
  ASSUME NEW N \in Nat, NEW T, 0 \in T,
         \A n \in 0..N : n \in T /\ n # N => n + 1 \in T
  PROVE  N \in T
<1> SUFFICES ASSUME N \notin T
             PROVE  FALSE
  OBVIOUS
<1>1. PICK n \in (0..N) \ T : \A m \in (0..N) \ T : n <= m
  <2>1. (0..N) \ T \subseteq Nat /\ (0..N) \ T # {}
    OBVIOUS
  <2> QED
    BY <2>1, LeastElement
<1>2. n \in Nat /\ n # 0 /\ n - 1 \in 0..N /\ n - 1 # N /\ ~(n <= n - 1) /\ (n - 1) + 1 = n
  BY <1>1
<1>3. n - 1 \in T
  BY <1>1, <1>2
<1> QED
  BY <1>1, <1>2, <1>3

Begin(rate, sp) == [NoTiming EXCEPT !.rate = rate, !.sp = sp]
Pass(rate, sp, g, n) ==
  IF n = 0 THEN Begin(rate, sp) ELSE TryQuanta(rate, sp, g[n - 1], 25 - n)

IsSearch(g, rate, sp, result) ==
  /\ result = g[23]
  /\ \A n \in 0..23 : g[n] = Pass(rate, sp, g, n)

\* The passes of the search.
LEMMA Passes ==
  ASSUME NEW rate, NEW point
  PROVE  \E g : IsSearch(g, rate, SamplePoint(point), can_set_baudrate(rate, point))
<1> DEFINE sp == SamplePoint(point)
           body(g) == [n \in 0..23 |-> IF n = 0 THEN [NoTiming EXCEPT !.rate = rate, !.sp = sp]
                                      ELSE TryQuanta(rate, sp, g[n - 1], 25 - n)]
           best == CHOOSE g : g = body(g)
<1>1. can_set_baudrate(rate, point) = best[23]
  BY DEF can_set_baudrate
<1>2. \A g : body(g) = [n \in 0..23 |-> Pass(rate, sp, g, n)]
  BY DEF Pass, Begin
<1> HIDE DEF sp
<1>3. best = body(best)
  <2> DEFINE Upto(k, g) == \A n \in 0..k : g[n] = Pass(rate, sp, g, n)
             T == {k \in 0..23 : \E g : Upto(k, g)}
  <2>1. 0 \in T
    <3>1. Upto(0, [n \in {0} |-> Begin(rate, sp)]) /\ 0 \in 0..23
      BY DEF Pass
    <3> QED
      BY <3>1, Zenon
  <2>2. ASSUME NEW k \in 0..23, k \in T, k # 23
        PROVE  k + 1 \in T
    <3>1. PICK g : Upto(k, g)
      BY <2>2
    <3> DEFINE h == [n \in 0..(k + 1) |-> IF n <= k THEN g[n] ELSE Pass(rate, sp, g, n)]
    <3>2. ASSUME NEW n \in 0..(k + 1)
          PROVE  h[n] = Pass(rate, sp, h, n)
      <4>1. n # 0 => n - 1 \in 0..(k + 1) /\ n - 1 <= k
        OBVIOUS
      <4>2. n # 0 => h[n - 1] = g[n - 1]
        BY <4>1
      <4>3. Pass(rate, sp, h, n) = Pass(rate, sp, g, n)
        <5> HIDE DEF h
        <5> QED
          BY <4>2, Zenon DEF Pass
      <4>4. n <= k => n \in 0..k
        OBVIOUS
      <4>5. h[n] = IF n <= k THEN g[n] ELSE Pass(rate, sp, g, n)
        OBVIOUS
      <4> HIDE DEF h
      <4> QED
        BY <3>1, <4>3, <4>4, <4>5, Zenon
    <3> HIDE DEF h
    <3>3. Upto(k + 1, h)
      BY <3>2, Zenon
    <3>4. k + 1 \in 0..23
      BY <2>2
    <3> HIDE DEF Upto
    <3> QED
      BY <3>3, <3>4
  <2>3. PICK g : Upto(23, g)
    <3>1. 23 \in T
      <4> HIDE DEF T
      <4>1. 23 \in Nat
        BY SMT
      <4> QED
        BY <2>1, <2>2, <4>1, BoundedInduction
    <3> QED
      BY <3>1
  <2> DEFINE h == [n \in 0..23 |-> g[n]]
  <2>4. ASSUME NEW n \in 0..23
        PROVE  h[n] = Pass(rate, sp, h, n)
    <3>1. n # 0 => n - 1 \in 0..23
      OBVIOUS
    <3>2. h[n] = g[n] /\ (n # 0 => h[n - 1] = g[n - 1])
      BY <3>1
    <3> HIDE DEF h
    <3>3. Pass(rate, sp, h, n) = Pass(rate, sp, g, n)
      BY <3>2, Zenon DEF Pass
    <3> QED
      BY <2>3, <3>2, <3>3, Zenon
  <2>5. h = body(h)
    <3>1. h = [n \in 0..23 |-> h[n]]
      OBVIOUS
    <3> HIDE DEF h, body
    <3> QED
      BY <1>2, <2>4, <3>1
  <2> HIDE DEF h, body
  <2> QED
    BY <2>5
<1> HIDE DEF best
<1>4. \A n \in 0..23 : best[n] = Pass(rate, sp, best, n)
  <2> HIDE DEF body
  <2>1. \A n \in 0..23 : best[n] = body(best)[n]
    BY <1>3
  <2>2. \A n \in 0..23 : body(best)[n] = Pass(rate, sp, best, n)
    BY <1>2
  <2> QED
    BY <2>1, <2>2
<1> QED
  BY <1>1, <1>4, Zenon DEF IsSearch, sp

\* What the search ends with: an exact rate if there is one.
Found(r, rate, sp) ==
  /\ Sound(r, rate, sp)
  /\ \A brp \in 1..64, tseg \in 2..24 :
       brp * (1 + tseg) * rate = SOC_CLOCK \div 2 => r.rateError = 0

LEMMA SearchSound ==
  ASSUME NEW rate \in Nat \ {0}, NEW point \in {0} \cup 680..999
  PROVE  Found(can_set_baudrate(rate, point), rate, SamplePoint(point))
<1> DEFINE sp == SamplePoint(point)
<1>1. sp \in 680..999
  BY SMT DEF SamplePoint
<1>2. PICK g : IsSearch(g, rate, sp, can_set_baudrate(rate, point))
  BY Passes, Zenon
<1> HIDE DEF sp
<1> DEFINE Exact(tseg) == Prescaler(rate, 1 + tseg) \in 1..64 /\ QuantaError(rate, tseg) = 0
           Kept(n) == /\ Sound(g[n], rate, sp)
                      /\ \A tseg \in 2..24 : tseg >= 25 - n /\ Exact(tseg) => g[n].rateError = 0
           T == {n \in 0..23 : Kept(n)}
<1>3. 0 \in T
  <2>1. g[0] = Begin(rate, sp)
    BY <1>2, SMT DEF Pass, IsSearch
  <2>2. Sound(Begin(rate, sp), rate, sp)
    <3>1. sp \in Nat
      BY <1>1, SMT
    <3>2. MaxRateError \in Nat /\ MaxRateError # 0 /\ MaxError \in Int
      BY SMT DEF MaxRateError, MaxError
    <3>3. NoTiming \in Timing /\ NoTiming.rateError = MaxRateError
      BY <3>2 DEF NoTiming, Timing, Choice
    <3>4. /\ Begin(rate, sp) \in Timing /\ Begin(rate, sp).rate = rate /\ Begin(rate, sp).sp = sp
          /\ Begin(rate, sp).rateError = MaxRateError
      BY <3>1, <3>3 DEF Begin, Timing
    <3> QED
      BY <3>2, <3>4 DEF Sound
  <2>3. \A tseg \in 2..24 : ~(tseg >= 25 - 0)
    BY SMT
  <2>4. 0 \in 0..23
    BY SMT
  <2> HIDE DEF Exact
  <2>5. Sound(g[0], rate, sp)
    BY <2>1, <2>2, Zenon
  <2>6. Kept(0)
    BY <2>3, <2>5, Zenon
  <2> HIDE DEF Kept
  <2> QED
    BY <2>4, <2>6
<1>4. ASSUME NEW n \in 0..23, n \in T, n # 23
      PROVE  n + 1 \in T
  <2> DEFINE m == n + 1  t == 25 - m
  <2>1. m \in 0..23 /\ m # 0 /\ m - 1 = n /\ t \in 2..24 /\ 25 - n = t + 1
    BY <1>4, SMT
  <2>2. Kept(n)
    BY <1>4
  <2>3. g[m] = TryQuanta(rate, sp, g[n], t)
    <3> HIDE DEF m
    <3> QED
      BY <1>2, <2>1 DEF Pass, IsSearch
  <2> HIDE DEF m, t
  <2>4. /\ Sound(g[m], rate, sp) /\ (g[n].rateError = 0 => g[m].rateError = 0)
        /\ Exact(t) => g[m].rateError = 0
    <3>1. Sound(g[n], rate, sp)
      BY <2>2
    <3>2. Passed(TryQuanta(rate, sp, g[n], t), rate, sp, g[n], t)
      BY <1>1, <2>1, <3>1, QuantaSound, Zenon
    <3> QED
      BY <2>3, <3>2, Zenon DEF Passed
  <2>5. \A tseg \in 2..24 : tseg >= t => tseg = t \/ tseg >= 25 - n
    BY <2>1, SMT
  <2>6. Kept(m)
    <3> HIDE DEF Exact
    <3>1. ASSUME NEW tseg \in 2..24, tseg >= 25 - m, Exact(tseg)
          PROVE  g[m].rateError = 0
      <4>1. tseg = t \/ tseg >= 25 - n
        BY <2>5, <3>1 DEF t
      <4> QED
        BY <2>2, <2>4, <3>1, <4>1, Zenon
    <3> QED
      BY <2>4, <3>1, Zenon
  <2> HIDE DEF Kept
  <2> QED
    BY <2>1, <2>6 DEF m
<1>5. Kept(23)
  <2>1. 23 \in T
    <3> HIDE DEF T
    <3>1. 23 \in Nat
      BY SMT
    <3> QED
      BY <1>3, <1>4, <3>1, BoundedInduction
  <2> HIDE DEF Kept
  <2> QED
    BY <2>1
<1>6. ASSUME NEW brp \in 1..64, NEW tseg \in 2..24,
             brp * (1 + tseg) * rate = SOC_CLOCK \div 2
      PROVE  g[23].rateError = 0
  <2>1. Exact(tseg)
    BY <1>6, ExactDivider
  <2>2. tseg >= 25 - 23
    BY SMT
  <2> HIDE DEF Exact
  <2> QED
    BY <1>5, <2>1, <2>2, Zenon
<1> HIDE DEF Exact
<1> QED
  BY <1>2, <1>5, <1>6 DEF IsSearch, Found, sp

\* If a divider of the clock gives the wanted bit rate, and no rate is wrong by a
\* multiple of 2^16, which abs() of an int takes for exact, the search ends with
\* registers for that rate, with values in range and a sampling point that is not late.
THEOREM ExactRatesAreFound == FrameSpec => []ExactRateFound
<1> DEFINE TimingInv ==
      \/ timing.rate = 0
      \/ \E rate \in Rates, point \in SamplePoints : timing = can_set_baudrate(rate, point)
<1>1. FrameInit => TimingInv
  BY DEF FrameInit, NoTiming
<1>2. TimingInv /\ [FrameNext]_frameVars => TimingInv'
  <2> SUFFICES ASSUME TimingInv, [FrameNext]_frameVars PROVE TimingInv'
    OBVIOUS
  <2>1. CASE Transmit \/ ReceiveFrame \/ UNCHANGED frameVars
    BY <2>1 DEF Transmit, ReceiveFrame, frameVars
  <2>2. CASE SetBaudrate
    BY <2>2 DEF SetBaudrate
  <2> QED
    BY <2>1, <2>2 DEF FrameNext
<1>3. TimingInv => ExactRateFound
  <2> SUFFICES ASSUME TimingInv, timing.rate > 0,
                      NEW brp \in 1..64, NEW full \in 3..25,
                      brp * full * timing.rate = SOC_CLOCK \div 2,
                      \A f \in 3..25 : ~Misleading(timing.rate, f)
               PROVE  ChosenRate = timing.rate /\ Fits(timing.choice, timing.sp)
    BY DEF ExactRateFound, Fits
  <2>1. PICK rate \in Rates, point \in SamplePoints : timing = can_set_baudrate(rate, point)
    BY SMT
  <2>2. rate \in Nat \ {0} /\ point \in {0} \cup 680..999
    BY TimingAssumption
  <2>3. Found(timing, rate, SamplePoint(point))
    BY <2>1, <2>2, SearchSound, Zenon
  <2>4. timing.rate = rate /\ timing.sp = SamplePoint(point)
    BY <2>3 DEF Found, Sound
  <2> DEFINE tseg == full - 1
  <2>5. tseg \in 2..24 /\ full = 1 + tseg
    BY SMT
  <2>6. timing.rateError = 0
    <3>1. \A b \in 1..64, t \in 2..24 :
            b * (1 + t) * rate = SOC_CLOCK \div 2 => timing.rateError = 0
      BY <2>3, Zenon DEF Found
    <3>2. brp * (1 + tseg) * rate = SOC_CLOCK \div 2
      BY <2>4, <2>5
    <3> HIDE DEF tseg
    <3> QED
      BY <2>5, <3>1, <3>2, Zenon
  <2>7. timing \in Timing /\ Fits(timing.choice, timing.sp) /\ From(timing.choice, rate)
    BY <2>3, <2>4, <2>6 DEF Found, Sound
  <2>8. ChosenRate = rate
    <3> DEFINE c == timing.choice
    <3>1. PICK t \in 2..24 : /\ c.brp = Prescaler(rate, 1 + t) /\ c.brp \in 1..64
                             /\ c.tseg1 + c.tseg2 = t /\ QuantaError(rate, t) = 0
      BY <2>7 DEF From
    <3>2. c.tseg1 \in Int /\ c.tseg2 \in Int
      BY <2>7 DEF Timing, Choice
    <3>3. ChosenRate = BitRate(c.brp, 1 + c.tseg1 + c.tseg2)
      BY DEF ChosenRate
    <3> HIDE DEF c
    <3>4. 1 + c.tseg1 + c.tseg2 = 1 + t /\ 1 + t \in 3..25 /\ (1 + t) - 1 = t
      BY <3>1, <3>2, SMT
    <3>5. ~Misleading(rate, 1 + t)
      BY <2>4, <3>4
    <3>6. BitRate(Prescaler(rate, 1 + t), 1 + t) = rate
      BY <3>1, <3>4, <3>5, Zenon DEF Misleading
    <3> QED
      BY <3>1, <3>3, <3>4, <3>6, Zenon
  <2> QED
    BY <2>4, <2>7, <2>8
<1> HIDE DEF TimingInv
<1> QED
  BY <1>1, <1>2, <1>3, PTL DEF FrameSpec
=============================================================================
