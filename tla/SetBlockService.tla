-------------------------- MODULE SetBlockService --------------------------
(***************************************************************************)
(* What a CAN-TS node promises the initiators of Set Block transfers, with *)
(* no slots, queues or timers: each node has at most one open transfer, a  *)
(* transfer collects blocks from nothing, memory changes only when its     *)
(* last missing block arrives and then takes exactly the blocks collected, *)
(* and every answer tells the truth about the transfer it is about.        *)
(***************************************************************************)
EXTENDS Integers, FiniteSets

CONSTANTS
  Sources, MaxSeq, BlockLen, MEM_SIZE, Payloads, Blank,
  Capacity     \* how many transfers may be open together

VARIABLES
  transfer,    \* the transfer of each node
  data,        \* application memory
  sent         \* the answer of the last step, if any

serviceVars == <<transfer, data, sent>>

NoTransfer == [phase |-> "none"]

Opened(address, last) ==
  [phase |-> "receiving", address |-> address, last |-> last, blocks |-> <<>>]

Init ==
  /\ transfer = [src \in Sources |-> NoTransfer]
  /\ data = [c \in 0..(MEM_SIZE - 1) |-> Blank]
  /\ sent = {}

IsOpen(src) == transfer[src].phase # "none"
OpenTransfers == {src \in Sources : IsOpen(src)}

Answer(src, kind, done, mask) ==
  {[to |-> src, kind |-> kind, done |-> done, mask |-> mask]}

\* A transfer that fits memory is opened and acknowledged.
Open(src, address, last) ==
  /\ ~IsOpen(src)
  /\ Cardinality(OpenTransfers) < Capacity
  /\ address + (last + 1) * BlockLen <= MEM_SIZE
  /\ transfer' = [transfer EXCEPT ![src] = Opened(address, last)]
  /\ sent' = Answer(src, "ack", FALSE, {})
  /\ UNCHANGED data

\* The blocks of a transfer once block seq holds payload.
WithBlock(t, seq, payload) ==
  [q \in DOMAIN t.blocks \cup {seq} |->
     IF q = seq THEN payload ELSE t.blocks[q]]

\* A block is kept, and something is still missing.
Collect(src, seq, payload) ==
  /\ transfer[src].phase = "receiving"
  /\ LET blocks == WithBlock(transfer[src], seq, payload)
     IN  /\ DOMAIN blocks \subseteq 0..transfer[src].last
         /\ DOMAIN blocks # 0..transfer[src].last
         /\ transfer' = [transfer EXCEPT ![src].blocks = blocks]
  /\ sent' = {}
  /\ UNCHANGED data

\* The last missing block arrives: memory takes the whole transfer, of which
\* the last block may be shorter than the others.
Complete(src, seq, payload, tail) ==
  /\ transfer[src].phase = "receiving"
  /\ LET t == transfer[src]
         blocks == WithBlock(t, seq, payload)
     IN  /\ DOMAIN blocks = 0..t.last
         /\ transfer' = [transfer EXCEPT ![src].blocks = blocks,
                                         ![src].phase = "stored"]
         /\ data' = [c \in 0..(MEM_SIZE - 1) |->
              IF t.address <= c /\ c < t.address + t.last * BlockLen + tail
              THEN blocks[(c - t.address) \div BlockLen] ELSE data[c]]
  /\ sent' = {}

\* The initiator asks how far its transfer is.
Inform(src) ==
  /\ IsOpen(src)
  /\ sent' = Answer(src, "report", transfer[src].phase = "stored",
                    DOMAIN transfer[src].blocks)
  /\ UNCHANGED <<transfer, data>>

\* The initiator aborts its transfer.
Cancel(src) ==
  /\ IsOpen(src)
  /\ transfer' = [transfer EXCEPT ![src] = NoTransfer]
  /\ sent' = Answer(src, "ack", FALSE, {})
  /\ UNCHANGED data

\* Transfers end because their initiators have been silent.
Expire(closed) ==
  /\ transfer' = [src \in Sources |->
                    IF src \in closed THEN NoTransfer ELSE transfer[src]]
  /\ sent' = {}
  /\ UNCHANGED data

\* A frame is refused and changes nothing.
RefuseFrame(src) ==
  /\ sent' = Answer(src, "nack", FALSE, {})
  /\ UNCHANGED <<transfer, data>>

Next ==
  \/ \E src \in Sources :
       \/ \E address \in 0..(MEM_SIZE - 1), last \in 0..MaxSeq :
            Open(src, address, last)
       \/ \E seq \in 0..MaxSeq, payload \in Payloads :
            \/ Collect(src, seq, payload)
            \/ \E tail \in 1..BlockLen : Complete(src, seq, payload, tail)
       \/ Inform(src)
       \/ Cancel(src)
       \/ RefuseFrame(src)
  \/ \E closed \in SUBSET OpenTransfers : Expire(closed)

Spec == Init /\ [][Next]_serviceVars
=============================================================================
