------------------------------ MODULE SetBlock ------------------------------
(***************************************************************************)
(* The Set Block task of the CAN-TS stack (src/cants/block.c): it owns the *)
(* table of Set Block sessions, reassembles the blocks other nodes send,   *)
(* hands each complete transfer to the write handler and expires sessions  *)
(* whose initiator fell silent.                                            *)
(*                                                                         *)
(* The task alternates between two control points.  At "recv" it blocks in *)
(* xQueueReceive for at most `wait' ticks; a frame or the timeout resumes  *)
(* it.  At "scan" it runs the search for the next timeout at the bottom of *)
(* its loop.  Frames that match no session, and requests that match one,   *)
(* `continue' straight to the next xQueueReceive and skip the search.      *)
(*                                                                         *)
(* The write handler is the application's: the one in                      *)
(* src/protocol/block_handler.c copies the data and sets `done' before it  *)
(* returns (AsyncWrite = FALSE); cants.h also allows a handler that lets   *)
(* another task finish the work and set `done' later (AsyncWrite = TRUE).  *)
(***************************************************************************)
EXTENDS Integers

CONSTANTS
  Sources,             \* node ids that initiate Set Block transfers
  NoSource,            \* the id a slot holds before its first session
  MAX_SB_SESSIONS,     \* number of session slots
  MaxSeq,              \* largest sequence number a frame can carry (63)
  BlockLen,            \* bytes in a full data frame (8)
  ADDRESS_SIZE,        \* sizeof(ADDRESS_TYPE) (4)
  ADDRESS_MOD,         \* number of values of ADDRESS_TYPE (2^32)
  Addresses,           \* addresses that requests name
  MEM_SIZE,            \* bytes of application memory (256)
  Payloads,            \* contents of a data frame
  Blank,               \* content of memory never written
  SB_TIMEOUT,          \* ticks of silence that end a session
  SB_WRITING_INTERVAL, \* ticks between two looks at `done'
  MAX_DELAY,           \* portMAX_DELAY
  AsyncWrite,          \* the write handler finishes in another task
  AbortWhileWriting,   \* initiators also abort transfers being written
  Prompt,              \* time passes only while the task is blocked
  StrayFrames          \* nodes also send frames that match no session state

Slots == 1..MAX_SB_SESSIONS
NoSlot == 0            \* tindex = -1

ASSUME SizesAssumption ==
  /\ MAX_SB_SESSIONS \in Nat \ {0}
  /\ MaxSeq \in Nat
  /\ BlockLen \in Nat \ {0}
  /\ ADDRESS_SIZE \in Nat \ {0}
  /\ ADDRESS_MOD \in Nat \ {0}
  /\ MEM_SIZE \in Nat \ {0}
  /\ Addresses \subseteq 0..(ADDRESS_MOD - 1)

ASSUME TimesAssumption ==
  /\ SB_TIMEOUT \in Nat \ {0}
  /\ SB_WRITING_INTERVAL \in Nat \ {0}
  /\ SB_WRITING_INTERVAL <= SB_TIMEOUT
  /\ MAX_DELAY \in Nat
  /\ MAX_DELAY > SB_TIMEOUT

ASSUME FlagsAssumption ==
  /\ AsyncWrite \in BOOLEAN
  /\ AbortWhileWriting \in BOOLEAN
  /\ Prompt \in BOOLEAN
  /\ StrayFrames \in BOOLEAN

VARIABLES
  sessions,  \* sb_sessions
  pc,        \* control point of the task
  wait,      \* `timeout', the block time of the next xQueueReceive
  tindex,    \* slot whose session the block time belongs to
  waited,    \* ticks the task has been blocked in this xQueueReceive
  data,      \* the memory of block_handler.c
  jobs,      \* writes the application has accepted and not finished
  sent,      \* the answer put on the bus by the last step, if any
  silent,    \* history: ticks since a slot's last valid packet
  stored     \* history: slots whose current transfer is in memory

taskVars == <<pc, wait, tindex, waited>>
vars == <<sessions, taskVars, data, jobs, sent, silent, stored>>

SbState == {"idle", "receiving", "writing", "done"}

Session ==
  [state : SbState, source : Sources \cup {NoSource}, max_seq : 0..MaxSeq,
   mask : SUBSET (0..MaxSeq), buffer : [0..MaxSeq -> Payloads \cup {Blank}],
   last_blk_size : 0..BlockLen, address : 0..(ADDRESS_MOD - 1),
   done : BOOLEAN, timeout : 0..SB_TIMEOUT, age : 0..(SB_TIMEOUT + 1)]

Sizes == 0..((MaxSeq + 1) * BlockLen)

Job == [slot : Slots, address : 0..(ADDRESS_MOD - 1), size : Sizes,
        orphan : BOOLEAN]

Answer == [to : Sources, kind : {"ack", "nack", "report"}, done : BOOLEAN,
           mask : SUBSET (0..MaxSeq)]

TypeOK ==
  /\ sessions \in [Slots -> Session]
  /\ pc \in {"recv", "scan"}
  /\ wait \in 0..MAX_DELAY
  /\ tindex \in Slots \cup {NoSlot}
  /\ waited \in 0..MAX_DELAY
  /\ data \in [0..(MEM_SIZE - 1) -> Payloads \cup {Blank}]
  /\ jobs \in SUBSET Job
  /\ sent \in SUBSET Answer
  /\ silent \in [Slots -> 0..(SB_TIMEOUT + 1)]
  /\ stored \in SUBSET Slots

Init ==
  /\ sessions = [i \in Slots |->
       [state |-> "idle", source |-> NoSource, max_seq |-> 0, mask |-> {},
        buffer |-> [q \in 0..MaxSeq |-> Blank], last_blk_size |-> 0,
        address |-> 0, done |-> FALSE, timeout |-> 0, age |-> 0]]
  /\ pc = "recv" /\ wait = MAX_DELAY /\ tindex = NoSlot /\ waited = 0
  /\ data = [c \in 0..(MEM_SIZE - 1) |-> Blank]
  /\ jobs = {} /\ sent = {}
  /\ silent = [i \in Slots |-> 0]
  /\ stored = {}

-----------------------------------------------------------------------------
(* Lookups and helpers                                                     *)

Active(i) == sessions[i].state # "idle"

Matches(i, src) == sessions[i].source = src /\ Active(i)

HasSession(src) == \E i \in Slots : Matches(i, src)

\* block_get_sb_session returns the first matching slot.
IsSessionOf(i, src) ==
  Matches(i, src) /\ \A j \in Slots : Matches(j, src) => i <= j

\* block_new_sb_session returns the first idle slot.
IsNewSlot(i) == ~Active(i) /\ \A j \in Slots : ~Active(j) => i <= j

\* block_copy_address accepts 1 to sizeof(ADDRESS_TYPE) bytes.
AddressLengthOK(length) == length # 0 /\ length <= ADDRESS_SIZE

\* The sum is computed in ADDRESS_TYPE and wraps: a range that reaches past the last
\* address of the type is accepted.
cants_validate_write_address(address, size) ==
  (address + size) % ADDRESS_MOD <= MEM_SIZE

ResetTimeout(s) ==
  [s EXCEPT !.timeout = IF s.state = "writing" THEN SB_WRITING_INTERVAL
                                               ELSE SB_TIMEOUT,
            !.age = 0]

\* Mutant: a finished session is kept alive instead of released.
TimedOut_KeepsDone(s) ==
  IF s.state = "writing"
  THEN ResetTimeout(IF s.done THEN [s EXCEPT !.state = "done"] ELSE s)
  ELSE IF s.state = "done" THEN ResetTimeout(s)
  ELSE [s EXCEPT !.state = "idle"]

\* block_sb_timeout
TimedOut(s) ==
  IF s.state = "writing"
  THEN ResetTimeout(IF s.done THEN [s EXCEPT !.state = "done"] ELSE s)
  ELSE [s EXCEPT !.state = "idle"]

FullMask(s) == 0..s.max_seq

\* block_check_fully_received
FullyReceived(s) == s.mask = FullMask(s)

\* memcpy(&data[address], buffer, size): the cells of data inside the range
\* take the payload of the block they fall into.  What is behind `data' is not
\* modelled.
Written(address, size, buffer) ==
  [c \in 0..(MEM_SIZE - 1) |->
     IF address <= c /\ c < address + size
     THEN buffer[(c - address) \div BlockLen] ELSE data[c]]

Nack(src) == {[to |-> src, kind |-> "nack", done |-> FALSE, mask |-> {}]}
Ack(src) == {[to |-> src, kind |-> "ack", done |-> FALSE, mask |-> {}]}
Report(s) ==
  {[to |-> s.source, kind |-> "report",
    done |-> s.state = "done" \/ (s.state = "writing" /\ s.done),
    mask |-> s.mask]}

\* `continue': the next xQueueReceive starts with the block time of this one.
Continue ==
  /\ waited' = 0
  /\ UNCHANGED <<pc, wait, tindex>>

\* Leave the switch and go on to the search for the next timeout.
ToScan ==
  /\ pc' = "scan"
  /\ UNCHANGED <<wait, tindex, waited>>

\* Mutant: the timeout reset after the switch is forgotten.
Valid_NoReset(i, s) ==
  /\ sessions' = [sessions EXCEPT ![i] = s]
  /\ silent' = [silent EXCEPT ![i] = 0]
  /\ ToScan

\* A valid packet: the session's timeout is reset after the switch.
Valid(i, s) ==
  /\ sessions' = [sessions EXCEPT ![i] = ResetTimeout(s)]
  /\ silent' = [silent EXCEPT ![i] = 0]
  /\ ToScan

\* An invalid packet is refused and resets nothing.
Refuse(src) ==
  /\ sent' = Nack(src)
  /\ ToScan
  /\ UNCHANGED <<sessions, data, jobs, silent, stored>>

-----------------------------------------------------------------------------
(* The frame handlers                                                      *)

\* A request from a node that has a session, or anything else from a node
\* that has none.
Mismatch(src, isRequest) ==
  /\ StrayFrames
  /\ pc = "recv"
  /\ HasSession(src) <=> isRequest
  /\ sent' = Nack(src)
  /\ Continue
  /\ UNCHANGED <<sessions, data, jobs, silent, stored>>

RequestOK(seq, length, address) ==
  /\ AddressLengthOK(length)
  /\ cants_validate_write_address(address, (seq + 1) * BlockLen)

\* Mutant: the mask of the slot's previous session is not cleared.
AcceptRequest_KeepsMask(src, seq, length, address) ==
  /\ RequestOK(seq, length, address)
  /\ \E i \in Slots :
       /\ IsNewSlot(i)
       /\ Valid(i, [sessions[i] EXCEPT !.address = address, !.source = src,
                      !.max_seq = seq, !.state = "receiving"])
       /\ stored' = stored \ {i}
  /\ sent' = Ack(src)
  /\ UNCHANGED <<data, jobs>>

AcceptRequest(src, seq, length, address) ==
  /\ RequestOK(seq, length, address)
  /\ \E i \in Slots :
       /\ IsNewSlot(i)
       /\ Valid(i, [sessions[i] EXCEPT !.address = address, !.source = src,
                      !.max_seq = seq, !.mask = {}, !.state = "receiving"])
       /\ stored' = stored \ {i}
  /\ sent' = Ack(src)
  /\ UNCHANGED <<data, jobs>>

\* The address is copied into the free slot before it is validated.
RefuseRequest(src, seq, length, address) ==
  /\ \/ /\ (\A i \in Slots : Active(i)) \/ ~AddressLengthOK(length)
        /\ UNCHANGED sessions
     \/ /\ AddressLengthOK(length) /\ ~RequestOK(seq, length, address)
        /\ \E i \in Slots :
             /\ IsNewSlot(i)
             /\ sessions' = [sessions EXCEPT ![i].address = address]
  /\ sent' = Nack(src)
  /\ ToScan
  /\ UNCHANGED <<data, jobs, silent, stored>>

\* Mutant: a request is served although the node has a session.
Request_NoLookup(src, seq, length, address) ==
  /\ pc = "recv"
  /\ \/ AcceptRequest(src, seq, length, address)
     \/ RefuseRequest(src, seq, length, address)

Request(src, seq, length, address) ==
  /\ pc = "recv"
  /\ ~HasSession(src)
  /\ \/ AcceptRequest(src, seq, length, address)
     \/ RefuseRequest(src, seq, length, address)

Abort(src, length) ==
  /\ pc = "recv"
  /\ \E i \in Slots :
       /\ IsSessionOf(i, src)
       /\ AbortWhileWriting \/ sessions[i].state # "writing"
       /\ IF length = 0
          THEN /\ Valid(i, [sessions[i] EXCEPT !.state = "idle"])
               /\ jobs' = {IF j.slot = i THEN [j EXCEPT !.orphan = TRUE] ELSE j
                             : j \in jobs}
               /\ sent' = Ack(src)
               /\ UNCHANGED <<data, stored>>
          ELSE Refuse(src)

Status(src, length) ==
  /\ pc = "recv"
  /\ \E i \in Slots :
       /\ IsSessionOf(i, src)
       /\ IF length = 0
          THEN /\ Valid(i, sessions[i])
               /\ sent' = Report(sessions[i])
               /\ UNCHANGED <<data, jobs, stored>>
          ELSE Refuse(src)

TransferOK(s, seq, length) ==
  /\ s.state = "receiving"
  /\ \/ seq < s.max_seq /\ length = BlockLen
     \/ seq = s.max_seq /\ length > 0

\* The session after block `seq' has been marked and copied.
Received(s, seq, length, payload) ==
  [s EXCEPT !.last_blk_size = IF seq = s.max_seq THEN length ELSE @,
            !.mask = @ \cup {seq},
            !.buffer[seq] = payload]

\* cants_write_block_handler, called with the session's buffer and done flag.
WriteHandler(i, s, size) ==
  IF AsyncWrite
  THEN /\ jobs' = jobs \cup {[slot |-> i, address |-> s.address,
                              size |-> size, orphan |-> FALSE]}
       /\ UNCHANGED <<data, stored>>
  ELSE /\ data' = Written(s.address, size, s.buffer)
       /\ stored' = stored \cup {i}
       /\ UNCHANGED jobs

\* Mutant: the done flag of the slot's previous session is not reset.
StoreBlock_KeepsDone(i, s) ==
  IF FullyReceived(s)
  THEN /\ Valid(i, [s EXCEPT !.done = ~AsyncWrite \/ s.done,
                             !.state = "writing"])
       /\ WriteHandler(i, s, s.max_seq * BlockLen + s.last_blk_size)
  ELSE /\ Valid(i, s)
       /\ UNCHANGED <<data, jobs, stored>>

StoreBlock(i, s) ==
  IF FullyReceived(s)
  THEN /\ Valid(i, [s EXCEPT !.done = ~AsyncWrite, !.state = "writing"])
       /\ WriteHandler(i, s, s.max_seq * BlockLen + s.last_blk_size)
  ELSE /\ Valid(i, s)
       /\ UNCHANGED <<data, jobs, stored>>

Transfer(src, seq, length, payload) ==
  /\ pc = "recv"
  /\ \E i \in Slots :
       /\ IsSessionOf(i, src)
       /\ IF TransferOK(sessions[i], seq, length)
          THEN /\ StoreBlock(i, Received(sessions[i], seq, length, payload))
               /\ sent' = {}
          ELSE Refuse(src)

\* Acknowledge, nack, report and unassigned frames fall to `default'.
OtherFrame(src) ==
  /\ pc = "recv"
  /\ HasSession(src)
  /\ Refuse(src)

-----------------------------------------------------------------------------
(* Timeouts, the clock and the application's writer                        *)

\* xQueueReceive returned without a frame.
ReceiveTimeout ==
  /\ pc = "recv" /\ waited >= wait
  /\ sessions' = IF tindex # NoSlot
                 THEN [sessions EXCEPT ![tindex] = TimedOut(@)] ELSE sessions
  /\ ToScan
  /\ sent' = {}
  /\ UNCHANGED <<data, jobs, silent, stored>>

\* Mutant: the elapsed time is subtracted without comparing it first.
Checked_NoExpiry(s) ==
  IF s.state = "idle" THEN s
  ELSE [s EXCEPT !.timeout = @ - s.age, !.age = 0]

\* Mutant: the clock is not restarted when the remaining time is reduced.
Checked_NoRestart(s) ==
  IF s.state = "idle" THEN s
  ELSE IF s.age < s.timeout
       THEN [s EXCEPT !.timeout = @ - s.age]
       ELSE TimedOut([s EXCEPT !.timeout = 0])

\* xTaskCheckForTimeOut on one active session, and block_sb_timeout if the
\* time is up.
Checked(s) ==
  IF s.state = "idle" THEN s
  ELSE IF s.age < s.timeout
       THEN [s EXCEPT !.timeout = @ - s.age, !.age = 0]
       ELSE TimedOut([s EXCEPT !.timeout = 0])

\* Mutant: the comparison with the best candidate so far is reversed.
IsNextTimeout_Latest(i, table) ==
  /\ table[i].state # "idle"
  /\ \A j \in Slots : table[j].state # "idle" =>
       \/ table[i].timeout > table[j].timeout
       \/ table[i].timeout = table[j].timeout /\ i <= j

\* The first active session with the smallest remaining time.
IsNextTimeout(i, table) ==
  /\ table[i].state # "idle"
  /\ \A j \in Slots : table[j].state # "idle" =>
       \/ table[i].timeout < table[j].timeout
       \/ table[i].timeout = table[j].timeout /\ i <= j

Scan ==
  /\ pc = "scan"
  /\ sessions' = [i \in Slots |-> Checked(sessions[i])]
  /\ \/ \E i \in Slots : /\ IsNextTimeout(i, sessions')
                         /\ tindex' = i
                         /\ wait' = sessions'[i].timeout
     \/ /\ \A i \in Slots : sessions'[i].state = "idle"
        /\ tindex' = NoSlot
        /\ wait' = MAX_DELAY
  /\ pc' = "recv" /\ waited' = 0
  /\ sent' = {}
  /\ UNCHANGED <<data, jobs, silent, stored>>

\* Saturating increment: beyond `top' the model no longer counts.
Bump(n, top) == IF n < top THEN n + 1 ELSE n

\* xTaskIncrementTick, as the sessions and the blocked task see it.
Tick ==
  /\ Prompt => pc = "recv" /\ waited < wait
  /\ sessions' = [i \in Slots |->
       IF Active(i)
       THEN [sessions[i] EXCEPT !.age = Bump(@, SB_TIMEOUT + 1)]
       ELSE sessions[i]]
  /\ silent' = [i \in Slots |->
       IF Active(i) THEN Bump(silent[i], SB_TIMEOUT + 1) ELSE silent[i]]
  /\ waited' = IF pc = "recv" THEN Bump(waited, MAX_DELAY) ELSE waited
  /\ sent' = {}
  /\ UNCHANGED <<pc, wait, tindex, data, jobs, stored>>

\* The application's task finishes a write: it copies from the session's
\* buffer and sets the session's done flag, both through the pointers it got.
FinishWrite(j) ==
  /\ jobs' = jobs \ {j}
  /\ data' = Written(j.address, j.size, sessions[j.slot].buffer)
  /\ sessions' = [sessions EXCEPT ![j.slot].done = TRUE]
  /\ stored' = IF j.orphan THEN stored ELSE stored \cup {j.slot}
  /\ sent' = {}
  /\ UNCHANGED <<taskVars, silent>>

FrameIn ==
  \E src \in Sources :
    \/ \E isRequest \in BOOLEAN : Mismatch(src, isRequest)
    \/ \E seq \in 0..MaxSeq :
         \/ \E length \in 0..BlockLen, address \in Addresses :
              Request(src, seq, length, address)
         \/ \E length \in 0..BlockLen, payload \in Payloads :
              Transfer(src, seq, length, payload)
    \/ \E length \in {0, 1} : Abort(src, length) \/ Status(src, length)
    \/ OtherFrame(src)

Next ==
  \/ FrameIn
  \/ ReceiveTimeout
  \/ Scan
  \/ Tick
  \/ \E j \in jobs : FinishWrite(j)

Spec == Init /\ [][Next]_vars

\* The tick interrupt, the task and the application's writer all keep running:
\* only the dispatcher shares the priority of the task, none of the stack has a
\* higher one, and tasks of one priority take turns.
Fairness ==
  /\ WF_vars(Tick)
  /\ WF_vars(ReceiveTimeout)
  /\ WF_vars(Scan)
  /\ WF_vars(\E j \in jobs : FinishWrite(j))

FairSpec == Spec /\ Fairness

-----------------------------------------------------------------------------
(* Properties                                                              *)

\* Two sessions never belong to the same node: the lookup by source id that
\* every handler starts with has at most one answer.
OneSessionPerSource ==
  \A i, j \in Slots :
    Active(i) /\ Active(j) /\ sessions[i].source = sessions[j].source => i = j

\* A session that is done, or that is written and flagged done, has its own
\* data in memory, and so has every session reported done.
DoneMeansStored ==
  /\ \A i \in Slots :
       sessions[i].state = "done" \/ (sessions[i].state = "writing"
                                        /\ sessions[i].done)
         => i \in stored
  /\ \A a \in sent :
       a.done => \E i \in stored : Matches(i, a.to)

\* A session that is still receiving ends only by an acknowledged abort or
\* after SB_TIMEOUT ticks without a valid packet from its initiator.
NeverExpiredEarly ==
  [][\A i \in Slots :
       sessions[i].state = "receiving" /\ sessions'[i].state = "idle" =>
         silent[i] >= SB_TIMEOUT \/ sent' = Ack(sessions[i].source)]_vars

\* What the two timers of the task count, from which NeverExpiredEarly
\* follows: the remaining time of a receiving session and its silence add up
\* to SB_TIMEOUT until the session expires, and the blocked task waits for
\* the remaining time of an active session, no longer than that session has
\* aged.
TimersAgree ==
  /\ \A i \in Slots :
       sessions[i].state = "receiving" /\ silent[i] < SB_TIMEOUT =>
         sessions[i].timeout - sessions[i].age = SB_TIMEOUT - silent[i]
  /\ pc = "recv" /\ tindex # NoSlot =>
       /\ Active(tindex)
       /\ wait = sessions[tindex].timeout
       /\ \/ waited <= sessions[tindex].age
          \/ sessions[tindex].age >= sessions[tindex].timeout

\* While the task runs promptly no session outlives SB_TIMEOUT ticks of
\* silence from its initiator.
ExpiredInTime ==
  \A i \in Slots : sessions[i].state = "receiving" => silent[i] <= SB_TIMEOUT

\* If from some moment no frame arrives, every slot becomes free for good.
QuietSlotsFree ==
  <>[][~FrameIn]_vars => <>[](\A i \in Slots : ~Active(i))

\* The transfer of a node as the initiator can know it.
TransferOf(src) ==
  IF HasSession(src)
  THEN LET s == sessions[CHOOSE i \in Slots : Matches(i, src)]
       IN  [phase |-> IF s.state = "receiving" THEN "receiving" ELSE "stored",
            address |-> s.address, last |-> s.max_seq,
            blocks |-> [q \in s.mask |-> s.buffer[q]]]
  ELSE [phase |-> "none"]

Service == INSTANCE SetBlockService
  WITH transfer <- [src \in Sources |-> TransferOf(src)],
       Capacity <- MAX_SB_SESSIONS

\* With a write handler that completes at once the task implements the
\* service of SetBlockService.
ImplementsService == Service!Spec
=============================================================================
