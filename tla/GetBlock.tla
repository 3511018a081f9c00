------------------------------ MODULE GetBlock ------------------------------
(***************************************************************************)
(* The Get Block task of the CAN-TS stack (src/cants/block.c): it reads    *)
(* memory for the nodes that request it, sends the blocks each node marks  *)
(* in a start frame in bursts paced by a timer, and expires sessions whose *)
(* initiator fell silent.                                                  *)
(*                                                                         *)
(* Control points and timers are those of the Set Block task: at "recv" it *)
(* blocks in xQueueReceive for at most `wait' ticks, at "scan" it searches *)
(* for the next timeout; frames that match no session, and requests that   *)
(* match one, `continue' past the search.                                  *)
(*                                                                         *)
(* The memory a session read is known by the version of the memory and the *)
(* address.  A mask is the set of the bits that are 1.                     *)
(***************************************************************************)
EXTENDS Integers, FiniteSets, FiniteSetsExt

CONSTANTS
  Sources,             \* node ids that initiate Get Block transfers
  NoSource,            \* the id a slot holds before its first session
  MAX_GB_SESSIONS,     \* number of session slots
  MaxSeq,              \* largest sequence number (63)
  BlockLen,            \* bytes in a data frame (8)
  BYTE,                \* bits in a byte (8)
  MaskBytes,           \* bytes of data in a frame, and in a mask (8)
  ADDRESS_SIZE,        \* sizeof(ADDRESS_TYPE) (4)
  ADDRESS_MOD,         \* number of values of ADDRESS_TYPE (2^32)
  Addresses,           \* addresses that requests name
  MEM_SIZE,            \* bytes of application memory (256)
  MaxWrites,           \* bound: changes of the memory
  GB_TIMEOUT,          \* ticks after which a session expires
  GB_BURST_INTERVAL,   \* ticks between two bursts
  GB_BURST_SIZE,       \* frames in a burst
  MAX_DELAY,           \* portMAX_DELAY
  MaxLast,             \* bound: largest sequence number a request names
  MaxLength,           \* bound: bytes of mask in a start frame
  MaxSilence,          \* bound: where the history of silence stops counting
  MaxQuiet,            \* bound: where the history of bursts stops counting
  SendFails            \* cants_send_msg may return 0

Slots == 1..MAX_GB_SESSIONS
NoSlot == 0            \* tindex = -1

ASSUME GetSizesAssumption ==
  /\ MAX_GB_SESSIONS \in Nat \ {0}
  /\ MaxSeq \in Nat
  /\ BlockLen \in Nat \ {0}
  /\ BYTE \in Nat \ {0}
  /\ MaskBytes \in Nat \ {0}
  /\ BYTE * MaskBytes = MaxSeq + 1
  /\ ADDRESS_SIZE \in Nat \ {0}
  /\ ADDRESS_MOD \in Nat \ {0}
  /\ MEM_SIZE \in Nat \ {0}
  /\ Addresses \subseteq 0..(ADDRESS_MOD - 1)
  /\ MaxWrites \in Nat
  /\ MaxLast \in 0..MaxSeq
  /\ MaxLength \in 0..MaskBytes
  /\ GB_BURST_SIZE \in Nat \ {0}

ASSUME GetTimesAssumption ==
  /\ GB_TIMEOUT \in Nat \ {0}
  /\ GB_BURST_INTERVAL \in Nat \ {0}
  /\ GB_BURST_INTERVAL <= GB_TIMEOUT
  /\ MAX_DELAY \in Nat
  /\ MAX_DELAY > GB_TIMEOUT
  /\ MaxSilence \in Nat /\ MaxQuiet \in Nat

ASSUME GetFlagsAssumption == SendFails \in BOOLEAN

VARIABLES
  sessions,  \* gb_sessions
  pc,        \* control point of the task
  wait,      \* `timeout', the block time of the next xQueueReceive
  tindex,    \* slot whose session the block time belongs to
  waited,    \* ticks the task has been blocked in this xQueueReceive
  memory,    \* version of the application's memory
  orderly,   \* the task runs promptly, and while a session is active no frame
             \* comes that matches none and no request that matches one
  sent,      \* frames the last step gave to cants_send_msg
  silent,    \* history: ticks since a slot's last valid packet
  quiet,     \* history: ticks since a slot's last burst
  marked,    \* history: blocks the last start frame of a slot asked for
  copies     \* history: times each block was sent since then

taskVars == <<pc, wait, tindex, waited>>
history == <<silent, quiet, marked, copies>>
vars == <<sessions, taskVars, memory, orderly, sent, history>>

GbState == {"idle", "wait_on_start", "transmitting"}

Read == [version : 0..MaxWrites, address : 0..(ADDRESS_MOD - 1)]

Session ==
  [state : GbState, source : Sources \cup {NoSource}, max_seq : 0..MaxSeq,
   cur_seq : 0..(MaxSeq + 1), mask : SUBSET (0..MaxSeq), buffer : Read,
   timeout : 0..GB_TIMEOUT, age : 0..(GB_TIMEOUT + 1)]

Frame == [to : Sources, kind : {"ack", "nack"}]
           \cup [to : Sources, kind : {"transfer"}, seq : 0..MaxSeq, data : Read]

TypeOK ==
  /\ sessions \in [Slots -> Session]
  /\ pc \in {"recv", "scan"}
  /\ wait \in 0..MAX_DELAY
  /\ tindex \in Slots \cup {NoSlot}
  /\ waited \in 0..MAX_DELAY
  /\ memory \in 0..MaxWrites
  /\ orderly \in BOOLEAN
  /\ sent \in SUBSET Frame
  /\ silent \in [Slots -> 0..MaxSilence]
  /\ quiet \in [Slots -> 0..MaxQuiet]
  /\ marked \in [Slots -> SUBSET (0..MaxSeq)]
  /\ copies \in [Slots -> [0..MaxSeq -> 0..2]]

Init ==
  /\ sessions = [i \in Slots |->
       [state |-> "idle", source |-> NoSource, max_seq |-> 0, cur_seq |-> 0,
        mask |-> {}, buffer |-> [version |-> 0, address |-> 0],
        timeout |-> 0, age |-> 0]]
  /\ pc = "recv" /\ wait = MAX_DELAY /\ tindex = NoSlot /\ waited = 0
  /\ memory = 0
  /\ orderly \in BOOLEAN
  /\ sent = {}
  /\ silent = [i \in Slots |-> 0]
  /\ quiet = [i \in Slots |-> 0]
  /\ marked = [i \in Slots |-> {}]
  /\ copies = [i \in Slots |-> [q \in 0..MaxSeq |-> 0]]

-----------------------------------------------------------------------------
(* Lookups and helpers                                                     *)

Active(i) == sessions[i].state # "idle"

Matches(i, src) == sessions[i].source = src /\ Active(i)

HasSession(src) == \E i \in Slots : Matches(i, src)

\* block_get_gb_session returns the first matching slot.
IsSessionOf(i, src) ==
  Matches(i, src) /\ \A j \in Slots : Matches(j, src) => i <= j

\* block_new_gb_session returns the first idle slot.
IsNewSlot(i) == ~Active(i) /\ \A j \in Slots : ~Active(j) => i <= j

\* block_copy_address accepts 1 to sizeof(ADDRESS_TYPE) bytes.
AddressLengthOK(length) == length # 0 /\ length <= ADDRESS_SIZE

\* The check of cants_read_block_handler; the sum wraps in ADDRESS_TYPE.
InMemory(address, size) == (address + size) % ADDRESS_MOD <= MEM_SIZE

BitsOfByte(k) == (k * BYTE)..(k * BYTE + BYTE - 1)

\* Bytes needed for one bit per block.
BytesFor(count) == (count + BYTE - 1) \div BYTE

\* block_validate_mask.  The loop over the bytes of a longer mask increments its
\* index before it uses it: it skips the first of them and reads the byte after
\* the last, of which `stale' says that it is not 0.
block_validate_mask(bits, length, stale, count) ==
  /\ length >= BytesFor(count)
  /\ count % BYTE # 0 => \A b \in bits \cap BitsOfByte(count \div BYTE) : b < count
  /\ \A k \in (BytesFor(count) + 1)..(length - 1) : bits \cap BitsOfByte(k) = {}
  /\ length > BytesFor(count) => ~stale

\* block_gb_reset_timeout
ResetTimeout(s) ==
  [s EXCEPT !.timeout = IF s.state = "transmitting" THEN GB_BURST_INTERVAL
                                                    ELSE GB_TIMEOUT,
            !.age = 0]

\* The blocks a session still has to send.
Due(s) == {q \in s.mask : s.cur_seq <= q /\ q <= s.max_seq}

\* The first `room' blocks of a set.
FirstOf(set, room) == {q \in set : Cardinality({r \in set : r < q}) < room}

\* What one burst sends if the driver takes `room' frames before it refuses
\* one; after GB_BURST_SIZE frames the burst ends by itself.
Burst(s, room) == FirstOf(Due(s), room)

\* Mutant: the block the driver refused is skipped.
NextSeq_SkipsRefused(s, room) ==
  LET sentNow == Burst(s, room)
      left == Due(s) \ sentNow
  IN  IF room < GB_BURST_SIZE /\ left # {} THEN Min(left) + 1
      ELSE IF Cardinality(sentNow) = GB_BURST_SIZE THEN Max(sentNow) + 1
      ELSE s.max_seq + 1

\* cur_seq after the burst.
NextSeq(s, room) ==
  LET sentNow == Burst(s, room)
      left == Due(s) \ sentNow
  IN  IF room < GB_BURST_SIZE /\ left # {} THEN Min(left)
      ELSE IF Cardinality(sentNow) = GB_BURST_SIZE THEN Max(sentNow) + 1
      ELSE s.max_seq + 1

\* block_gb_burst
AfterBurst(s, room) ==
  [s EXCEPT !.cur_seq = NextSeq(s, room),
            !.state = IF NextSeq(s, room) > s.max_seq THEN "wait_on_start" ELSE @]

\* Mutant: a session expires whatever its state.
TimedOut_AnyState(s, room) == [s EXCEPT !.state = "idle"]

\* block_gb_timeout
TimedOut(s, room) ==
  IF s.state = "transmitting" THEN ResetTimeout(AfterBurst(s, room))
                              ELSE [s EXCEPT !.state = "idle"]

\* How many frames of a burst the driver takes.
Rooms == IF SendFails THEN 0..GB_BURST_SIZE ELSE {GB_BURST_SIZE}

Transfers(s, room) ==
  {[to |-> s.source, kind |-> "transfer", seq |-> q, data |-> s.buffer]
     : q \in Burst(s, room)}

Nack(src) == {[to |-> src, kind |-> "nack"]}
Ack(src) == {[to |-> src, kind |-> "ack"]}

\* Saturating increment: beyond `top' the model no longer counts.
Bump(n, top) == IF n < top THEN n + 1 ELSE n

\* The histories once the sessions of some slots have sent a burst.
Counted(count, blocks) ==
  [q \in 0..MaxSeq |-> IF q \in blocks THEN Bump(count[q], 2) ELSE count[q]]

\* `continue': the next xQueueReceive starts with the block time of this one.
Continue ==
  /\ waited' = 0
  /\ UNCHANGED <<pc, wait, tindex>>

\* Leave the switch and go on to the search for the next timeout.
ToScan ==
  /\ pc' = "scan"
  /\ UNCHANGED <<wait, tindex, waited>>

\* A valid packet: the session's timeout is reset after the switch.
Valid(i, s) ==
  /\ sessions' = [sessions EXCEPT ![i] = ResetTimeout(s)]
  /\ silent' = [silent EXCEPT ![i] = 0]
  /\ ToScan

\* An invalid packet is refused and resets nothing.
Refuse(src) ==
  /\ sent' = Nack(src)
  /\ ToScan
  /\ UNCHANGED <<sessions, memory, history>>

-----------------------------------------------------------------------------
(* The frame handlers                                                      *)

\* A request from a node that has a session, or anything else from a node
\* that has none.
Mismatch(src, isRequest) ==
  /\ orderly => \A i \in Slots : ~Active(i)
  /\ pc = "recv"
  /\ HasSession(src) <=> isRequest
  /\ sent' = Nack(src)
  /\ Continue
  /\ UNCHANGED <<sessions, memory, history>>

RequestOK(seq, length, address) ==
  AddressLengthOK(length) /\ InMemory(address, (seq + 1) * BlockLen)

\* The memory is read into the free slot at once.
AcceptRequest(src, seq, length, address) ==
  /\ RequestOK(seq, length, address)
  /\ \E i \in Slots :
       /\ IsNewSlot(i)
       /\ Valid(i, [sessions[i] EXCEPT
                      !.buffer = [version |-> memory, address |-> address],
                      !.source = src, !.max_seq = seq, !.state = "wait_on_start"])
       /\ marked' = [marked EXCEPT ![i] = {}]
       /\ copies' = [copies EXCEPT ![i] = [q \in 0..MaxSeq |-> 0]]
  /\ sent' = Ack(src)
  /\ UNCHANGED <<memory, quiet>>

RefuseRequest(src, seq, length, address) ==
  /\ (\A i \in Slots : Active(i)) \/ ~RequestOK(seq, length, address)
  /\ Refuse(src)

Request(src, seq, length, address) ==
  /\ pc = "recv"
  /\ ~HasSession(src)
  /\ \/ AcceptRequest(src, seq, length, address)
     \/ RefuseRequest(src, seq, length, address)

Abort(src, length) ==
  /\ pc = "recv"
  /\ \E i \in Slots :
       /\ IsSessionOf(i, src)
       /\ IF length = 0
          THEN /\ Valid(i, [sessions[i] EXCEPT !.state = "idle"])
               /\ sent' = Ack(src)
               /\ UNCHANGED <<memory, quiet, marked, copies>>
          ELSE Refuse(src)

\* The session after a start frame: only the bytes received are copied.
Started(s, bits, length) ==
  [s EXCEPT !.mask = bits \cup {b \in @ : b >= length * BYTE},
            !.cur_seq = 0, !.state = "transmitting"]

\* The frame carries `length' bytes of mask.
Start(src, bits, length, stale, room) ==
  /\ pc = "recv"
  /\ \E i \in Slots :
       /\ IsSessionOf(i, src)
       /\ IF block_validate_mask(bits, length, stale, sessions[i].max_seq + 1)
          THEN LET s == Started(sessions[i], bits, length)
               IN  /\ Valid(i, AfterBurst(s, room))
                   /\ sent' = Transfers(s, room)
                   /\ quiet' = [quiet EXCEPT ![i] = 0]
                   /\ marked' = [marked EXCEPT ![i] = bits \cap 0..s.max_seq]
                   /\ copies' = [copies EXCEPT ![i] =
                        Counted([q \in 0..MaxSeq |-> 0], Burst(s, room))]
                   /\ UNCHANGED memory
          ELSE Refuse(src)

\* Acknowledge, nack, transfer and unassigned frames fall to `default'.
OtherFrame(src) ==
  /\ pc = "recv"
  /\ HasSession(src)
  /\ Refuse(src)

-----------------------------------------------------------------------------
(* Timeouts, the clock and the memory                                      *)

Transmitting == {i \in Slots : sessions[i].state = "transmitting"}

\* The slots in `expired' are timed out together; room[i] is how many frames
\* of the burst of slot i the driver takes.
HandleTimeouts(expired, room) ==
  LET bursting == expired \cap Transmitting
  IN  /\ sent' = UNION {Transfers(sessions[i], room[i]) : i \in bursting}
      /\ quiet' = [i \in Slots |-> IF i \in bursting THEN 0 ELSE quiet[i]]
      /\ copies' = [i \in Slots |->
           IF i \in bursting THEN Counted(copies[i], Burst(sessions[i], room[i]))
                             ELSE copies[i]]

\* xQueueReceive returned without a frame.
ReceiveTimeout(room) ==
  /\ pc = "recv" /\ waited >= wait
  /\ sessions' = IF tindex # NoSlot
                 THEN [sessions EXCEPT ![tindex] = TimedOut(@, room[tindex])]
                 ELSE sessions
  /\ HandleTimeouts({tindex} \ {NoSlot}, room)
  /\ ToScan
  /\ UNCHANGED <<memory, silent, marked>>

\* Mutant: the time is up one tick early.
TimeIsUp_Early(s) == s.state # "idle" /\ s.age + 1 >= s.timeout

TimeIsUp(s) == s.state # "idle" /\ s.age >= s.timeout

\* Mutant: the elapsed time is subtracted without comparing it first.
Checked_NoExpiry(s, room) ==
  IF s.state = "idle" THEN s ELSE [s EXCEPT !.timeout = @ - s.age, !.age = 0]

\* xTaskCheckForTimeOut on one active session, and block_gb_timeout if the
\* time is up.
Checked(s, room) ==
  IF s.state = "idle" THEN s
  ELSE IF TimeIsUp(s) THEN TimedOut([s EXCEPT !.timeout = 0], room)
  ELSE [s EXCEPT !.timeout = @ - s.age, !.age = 0]

\* Mutant: the comparison with the best candidate so far is reversed.
IsNextTimeout_Latest(i, table) ==
  /\ table[i].state # "idle"
  /\ \A j \in Slots : table[j].state # "idle" =>
       \/ table[i].timeout > table[j].timeout
       \/ table[i].timeout = table[j].timeout /\ i <= j

\* The first active session with the smallest remaining time.
IsNextTimeout(i, table) ==
  /\ table[i].state # "idle"
  /\ \A j \in Slots : table[j].state # "idle" =>
       \/ table[i].timeout < table[j].timeout
       \/ table[i].timeout = table[j].timeout /\ i <= j

Scan(room) ==
  /\ pc = "scan"
  /\ sessions' = [i \in Slots |-> Checked(sessions[i], room[i])]
  /\ HandleTimeouts({i \in Slots : TimeIsUp(sessions[i])}, room)
  /\ \/ \E i \in Slots : /\ IsNextTimeout(i, sessions')
                         /\ tindex' = i
                         /\ wait' = sessions'[i].timeout
     \/ /\ \A i \in Slots : sessions'[i].state = "idle"
        /\ tindex' = NoSlot
        /\ wait' = MAX_DELAY
  /\ pc' = "recv" /\ waited' = 0
  /\ UNCHANGED <<memory, silent, marked>>

\* xTaskIncrementTick, as the sessions and the blocked task see it.  It also
\* clears the histories of idle slots.
Tick ==
  /\ orderly => pc = "recv" /\ waited < wait
  /\ sessions' = [i \in Slots |->
       IF Active(i)
       THEN [sessions[i] EXCEPT !.age = Bump(@, GB_TIMEOUT + 1)]
       ELSE sessions[i]]
  /\ silent' = [i \in Slots |->
       IF Active(i) THEN Bump(silent[i], MaxSilence) ELSE 0]
  /\ quiet' = [i \in Slots |->
       IF sessions[i].state = "transmitting" THEN Bump(quiet[i], MaxQuiet) ELSE 0]
  /\ waited' = IF pc = "recv" THEN Bump(waited, MAX_DELAY) ELSE waited
  /\ marked' = [i \in Slots |-> IF Active(i) THEN marked[i] ELSE {}]
  /\ copies' = [i \in Slots |->
       IF Active(i) THEN copies[i] ELSE [q \in 0..MaxSeq |-> 0]]
  /\ sent' = {}
  /\ UNCHANGED <<pc, wait, tindex, memory>>

\* The Set Block task writes the memory the Get Block task reads.
MemoryWrite ==
  /\ memory < MaxWrites
  /\ memory' = memory + 1
  /\ sent' = {}
  /\ UNCHANGED <<sessions, taskVars, history>>

FrameIn ==
  \E src \in Sources :
    \/ \E isRequest \in BOOLEAN : Mismatch(src, isRequest)
    \/ \E seq \in 0..MaxLast, length \in 0..BlockLen, address \in Addresses :
         Request(src, seq, length, address)
    \/ \E length \in {0, 1} : Abort(src, length)
    \/ \E length \in 0..MaxLength :
         \E bits \in SUBSET (0..(length * BYTE - 1)), stale \in BOOLEAN, room \in Rooms :
           Start(src, bits, length, stale, room)
    \/ OtherFrame(src)

Timer == \E room \in [Transmitting -> Rooms] : ReceiveTimeout(room) \/ Scan(room)

Next == (FrameIn \/ Timer \/ Tick \/ MemoryWrite) /\ UNCHANGED orderly

Spec == Init /\ [][Next]_vars

-----------------------------------------------------------------------------
(* Properties                                                              *)

\* Two sessions never belong to the same node.
OneSessionPerSource ==
  \A i, j \in Slots :
    Active(i) /\ Active(j) /\ sessions[i].source = sessions[j].source => i = j

\* Whatever start frames, refused sends and timeouts come in between, a session
\* has sent exactly the marked blocks below its position, each of them once,
\* since its last start frame, and all marked blocks once it waits for the next.
SentExactly ==
  \A i \in Slots : Active(i) =>
    \A q \in 0..MaxSeq :
      copies[i][q] =
        IF /\ q \in marked[i]
           /\ sessions[i].state = "wait_on_start" \/ q < sessions[i].cur_seq
        THEN 1 ELSE 0

\* A session sends each block its start frame marked once, also when the driver
\* refuses frames (block_gb_burst), and no node ever has two sessions in the slots
\* it shares with others (cants_getblock).
MarkedSentOnce == TypeOK /\ OneSessionPerSource /\ SentExactly

\* The timer never sends a burst sooner than GB_BURST_INTERVAL ticks after the
\* last burst of the same session, although one block time serves all sessions.
BurstPaced ==
  \A i \in Slots :
    /\ sessions[i].state = "transmitting" /\ quiet[i] < GB_BURST_INTERVAL
    /\ \E f \in sent' : f.to = sessions[i].source
    => ~Timer

\* No burst comes early (gb_get_next_timeout).
BurstPacing == [][BurstPaced]_vars

\* While the task runs promptly a session that transmits sends its next burst
\* GB_BURST_INTERVAL ticks after the last, although one block time serves all
\* sessions (gb_get_next_timeout).
BurstsOnTime ==
  orderly => \A i \in Slots :
    sessions[i].state = "transmitting" => quiet[i] <= GB_BURST_INTERVAL

\* While the task runs promptly no session outlives GB_TIMEOUT ticks without a
\* valid packet from its initiator, as cants_config.h defines the timeout.  The
\* code breaks this: block_gb_timeout restarts the timer with every burst.
SessionsEndInTime ==
  orderly => \A i \in Slots : Active(i) => silent[i] <= GB_TIMEOUT

\* A start frame whose mask has a bit of a block the session does not have is
\* refused, as the comment in block_validate_mask has it.
HigherBitsRefused ==
  [][\A src \in Sources, length \in 0..MaxLength, stale \in BOOLEAN, room \in Rooms :
       \A bits \in SUBSET (0..(length * BYTE - 1)) :
         /\ Start(src, bits, length, stale, room)
         /\ \E i \in Slots : IsSessionOf(i, src) /\ ~(bits \subseteq 0..sessions[i].max_seq)
         => sent' = Nack(src)]_vars

-----------------------------------------------------------------------------
(* The service                                                             *)

\* The transfer of a node as the initiator can know it.
TransferOf(src) ==
  IF HasSession(src)
  THEN LET s == sessions[CHOOSE i \in Slots : Matches(i, src)]
       IN  [phase |-> "open", last |-> s.max_seq, data |-> s.buffer,
            due |-> IF s.state = "transmitting" THEN Due(s) ELSE {}]
  ELSE [phase |-> "none"]

\* The session table with its masks and timers is the service of GetBlockService:
\* slots are transfers, blocks still to be sent are due.
Service == INSTANCE GetBlockService WITH
  Capacity <- MAX_GB_SESSIONS,
  transfer <- [src \in Sources |-> TransferOf(src)]

\* The task implements the abstract service.
ImplementsService == Service!Spec
=============================================================================
