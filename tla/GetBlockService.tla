-------------------------- MODULE GetBlockService --------------------------
(***************************************************************************)
(* What a CAN-TS node promises the initiators of Get Block transfers, with *)
(* no slots, masks or timers: opening a transfer fixes what it reads, each *)
(* start frame names the blocks that are due, blocks go out in order and   *)
(* once per start frame, and only a transfer with nothing due expires.     *)
(***************************************************************************)
EXTENDS Integers, FiniteSets

CONSTANTS
  Sources, MaxSeq, BlockLen, MEM_SIZE,
  Capacity     \* how many transfers may be open together

VARIABLES
  transfer,    \* the transfer of each node
  memory,      \* version of the application's memory
  sent         \* frames of the last step

serviceVars == <<transfer, memory, sent>>

NoTransfer == [phase |-> "none"]

Opened(address, last) ==
  [phase |-> "open", last |-> last, due |-> {},
   data |-> [version |-> memory, address |-> address]]

Init ==
  /\ transfer = [src \in Sources |-> NoTransfer]
  /\ memory = 0
  /\ sent = {}

IsOpen(src) == transfer[src].phase = "open"
OpenTransfers == {src \in Sources : IsOpen(src)}

Answer(src, kind) == {[to |-> src, kind |-> kind]}

Frames(src, blocks) ==
  {[to |-> src, kind |-> "transfer", seq |-> q, data |-> transfer[src].data]
     : q \in blocks}

\* Blocks go out in order: those sent come before those left.
InOrder(part, left) == \A q \in part, r \in left : q < r

Open(src, address, last) ==
  /\ sent' = Answer(src, "ack")
  /\ ~IsOpen(src)
  /\ Cardinality(OpenTransfers) < Capacity
  /\ address + (last + 1) * BlockLen <= MEM_SIZE
  /\ transfer' = [transfer EXCEPT ![src] = Opened(address, last)]
  /\ UNCHANGED memory

\* The initiator names blocks it wants, of which `part' goes out at once and
\* `left' does not.
Start(src, part, left) ==
  /\ sent' = Frames(src, part)
  /\ InOrder(part, left)
  /\ transfer' = [transfer EXCEPT ![src].due = left]
  /\ UNCHANGED memory

\* What is no longer due after a step has been sent in it.
Gone(src) == IF IsOpen(src)' THEN transfer[src].due \ transfer'[src].due ELSE {}

\* Blocks that are due go out.
Send(src) ==
  /\ transfer'[src] = [transfer[src] EXCEPT !.due = @ \ Gone(src)]
  /\ InOrder(Gone(src), transfer'[src].due)

\* A transfer with nothing due expires.
Expire(src) == transfer[src].due = {} /\ transfer'[src] = NoTransfer

\* Time passes for all transfers together.
Proceed ==
  /\ DOMAIN transfer' = Sources
  /\ \A src \in Sources : IF IsOpen(src) THEN Send(src) \/ Expire(src)
                                         ELSE transfer'[src] = NoTransfer
  /\ sent' = UNION {Frames(src, Gone(src)) : src \in OpenTransfers}
  /\ UNCHANGED memory

Cancel(src) ==
  /\ sent' = Answer(src, "ack")
  /\ IsOpen(src)
  /\ transfer' = [transfer EXCEPT ![src] = NoTransfer]
  /\ UNCHANGED memory

\* A frame is refused and changes nothing.
RefuseFrame(src) ==
  /\ sent' = Answer(src, "nack")
  /\ UNCHANGED <<transfer, memory>>

\* Somebody writes the memory, which changes no open transfer.
Write ==
  /\ memory' = memory + 1
  /\ sent' = {}
  /\ UNCHANGED transfer

Next ==
  \/ \E src \in Sources :
       \/ RefuseFrame(src)
       \/ Cancel(src)
       \/ \E address \in 0..(MEM_SIZE - 1), last \in 0..MaxSeq : Open(src, address, last)
  \/ Proceed
  \/ \E src \in OpenTransfers :
       \E part, left \in SUBSET (0..transfer[src].last) : Start(src, part, left)
  \/ Write

Spec == Init /\ [][Next]_serviceVars
=============================================================================
