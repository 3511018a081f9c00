-------------------------- MODULE SetBlock_proofs --------------------------
(***************************************************************************)
(* Theorems about the Set Block task, for every number of nodes, slots,    *)
(* blocks and bytes and every length of the timers: its invariants, the    *)
(* time a session takes to expire, and the refinement of SetBlockService.  *)
(***************************************************************************)
EXTENDS SetBlock, TLAPS, FiniteSetTheorems

-----------------------------------------------------------------------------
(* The helpers map sessions to sessions                                    *)

\* Restarting a session's timeout keeps the rest of the session.
LEMMA ResetTimeoutType ==
  ASSUME NEW s \in Session
  PROVE  /\ ResetTimeout(s) \in Session
         /\ ResetTimeout(s).state = s.state
         /\ ResetTimeout(s).source = s.source
         /\ ResetTimeout(s).done = s.done
<1> DEFINE time == IF s.state = "writing" THEN SB_WRITING_INTERVAL ELSE SB_TIMEOUT
<1>1. time \in 0..SB_TIMEOUT /\ 0 \in 0..(SB_TIMEOUT + 1)
  BY TimesAssumption
<1>2. ResetTimeout(s) = [s EXCEPT !.timeout = time, !.age = 0]
  BY DEF ResetTimeout
<1> HIDE DEF time
<1> QED BY <1>1, <1>2 DEF Session

\* Every slot holds a session.
LEMMA SlotType ==
  ASSUME TypeOK, NEW i \in Slots
  PROVE  sessions[i] \in Session /\ sessions[i].state \in SbState
<1>1. sessions[i] \in Session
  BY DEF TypeOK
<1> QED BY <1>1 DEF Session

\* An aborted session is an idle one of the same node.
LEMMA AbortedType ==
  ASSUME NEW s \in Session
  PROVE  /\ [s EXCEPT !.state = "idle"] \in Session
         /\ [s EXCEPT !.state = "idle"].state = "idle"
         /\ [s EXCEPT !.state = "idle"].source = s.source
BY DEF Session, SbState

\* Receiving a block changes nothing but mask, buffer and last length.
LEMMA ReceivedType ==
  ASSUME NEW s \in Session, NEW seq \in 0..MaxSeq, NEW length \in 0..BlockLen,
         NEW payload \in Payloads
  PROVE  LET r == Received(s, seq, length, payload)
         IN  /\ r \in Session /\ r.source = s.source /\ r.state = s.state
             /\ r.address = s.address /\ r.max_seq = s.max_seq
<1> DEFINE last == IF seq = s.max_seq THEN length ELSE s.last_blk_size
           mask == s.mask \cup {seq}
           buffer == [s.buffer EXCEPT ![seq] = payload]
<1>1. last \in 0..BlockLen /\ mask \in SUBSET (0..MaxSeq)
  BY DEF Session
<1>2. buffer \in [0..MaxSeq -> Payloads \cup {Blank}]
  BY DEF Session
<1>3. Received(s, seq, length, payload)
        = [s EXCEPT !.last_blk_size = last, !.mask = mask, !.buffer = buffer]
  BY DEF Received, Session
<1> HIDE DEF last, mask, buffer
<1> QED BY <1>1, <1>2, <1>3 DEF Session

\* Running out of time leaves a session whose source is unchanged.
LEMMA TimedOutType ==
  ASSUME NEW s \in Session
  PROVE  /\ TimedOut(s) \in Session
         /\ TimedOut(s).source = s.source
         /\ TimedOut(s).state # "receiving"
<1>1. CASE s.state # "writing"
  BY <1>1 DEF TimedOut, Session, SbState
<1>2. CASE s.state = "writing" /\ ~s.done
  BY <1>2, ResetTimeoutType DEF TimedOut
<1>3. CASE s.state = "writing" /\ s.done
  <2>1. [s EXCEPT !.state = "done"] \in Session
    BY DEF Session, SbState
  <2>2. [s EXCEPT !.state = "done"].source = s.source /\ [s EXCEPT !.state = "done"].state = "done"
    BY DEF Session
  <2> QED BY <1>3, <2>1, <2>2, ResetTimeoutType DEF TimedOut
<1> QED BY <1>1, <1>2, <1>3

\* Looking for an expired timeout maps a session to a session of the same node,
\* and skips idle ones.
LEMMA CheckedType ==
  ASSUME NEW s \in Session
  PROVE  /\ Checked(s) \in Session
         /\ Checked(s).source = s.source
         /\ s.state = "idle" => Checked(s) = s
<1>1. CASE s.state = "idle"
  BY <1>1 DEF Checked
<1>2. CASE s.state # "idle" /\ s.age < s.timeout
  <2>1. s.timeout - s.age \in 0..SB_TIMEOUT /\ 0 \in 0..(SB_TIMEOUT + 1)
    BY <1>2, TimesAssumption DEF Session
  <2>2. Checked(s) = [s EXCEPT !.timeout = s.timeout - s.age, !.age = 0]
    BY <1>2 DEF Checked
  <2> QED BY <1>2, <2>1, <2>2 DEF Session
<1>3. CASE s.state # "idle" /\ ~(s.age < s.timeout)
  <2>1. [s EXCEPT !.timeout = 0] \in Session /\ [s EXCEPT !.timeout = 0].source = s.source
    BY TimesAssumption DEF Session
  <2> QED BY <1>3, <2>1, TimedOutType DEF Checked
<1> QED BY <1>1, <1>2, <1>3

\* A quotient is small when the dividend is.
LEMMA DivBound ==
  ASSUME NEW a \in Nat, NEW b \in Nat \ {0}, NEW n \in Nat, a < (n + 1) * b
  PROVE  a \div b \in 0..n
BY Z3

\* Copying a block into memory leaves memory of the same shape.
LEMMA WrittenType ==
  ASSUME TypeOK, NEW address \in 0..(ADDRESS_MOD - 1), NEW size \in Sizes,
         NEW buffer \in [0..MaxSeq -> Payloads \cup {Blank}]
  PROVE  Written(address, size, buffer) \in [0..(MEM_SIZE - 1) -> Payloads \cup {Blank}]
<1> SUFFICES ASSUME NEW c \in 0..(MEM_SIZE - 1), address <= c, c < address + size
             PROVE  buffer[(c - address) \div BlockLen] \in Payloads \cup {Blank}
  BY SizesAssumption DEF Written, TypeOK
<1>1. c - address \in Nat /\ c - address < (MaxSeq + 1) * BlockLen
  BY SizesAssumption DEF Sizes
<1>2. (c - address) \div BlockLen \in 0..MaxSeq
  BY <1>1, DivBound, SizesAssumption
<1> QED BY <1>2

\* The number of bytes of a complete transfer fits the buffer.
LEMMA SizeType ==
  ASSUME NEW s \in Session
  PROVE  s.max_seq * BlockLen + s.last_blk_size \in Sizes
<1>1. /\ s.max_seq \in Nat /\ s.max_seq <= MaxSeq
      /\ s.last_blk_size \in Nat /\ s.last_blk_size <= BlockLen
      /\ BlockLen \in Nat /\ MaxSeq \in Nat
  BY SizesAssumption DEF Session
<1>2. \A m, n, k \in Nat : m <= n => m * k <= n * k /\ m * k \in Nat
  BY Z3
<1>3. (MaxSeq + 1) * BlockLen = MaxSeq * BlockLen + BlockLen
  BY <1>1
<1>4. s.max_seq * BlockLen <= MaxSeq * BlockLen /\ s.max_seq * BlockLen \in Nat
  BY <1>1, <1>2
<1>5. MaxSeq * BlockLen \in Nat
  BY <1>1, <1>2
<1> HIDE DEF Session
<1> QED BY <1>1, <1>3, <1>4, <1>5 DEF Sizes

-----------------------------------------------------------------------------
(* Types                                                                   *)

\* A valid packet, which resets the timeout of its session, keeps the types.
LEMMA ValidType ==
  ASSUME TypeOK, NEW i \in Slots, NEW s \in Session, Valid(i, s)
  PROVE  /\ sessions' \in [Slots -> Session]
         /\ silent' \in [Slots -> 0..(SB_TIMEOUT + 1)]
         /\ pc' \in {"recv", "scan"} /\ UNCHANGED <<wait, tindex, waited>>
BY ResetTimeoutType, TimesAssumption DEF TypeOK, Valid, ToScan

\* A slot taken for a new transfer holds a session.
LEMMA OpenedType ==
  ASSUME NEW s \in Session, NEW src \in Sources, NEW seq \in 0..MaxSeq,
         NEW address \in 0..(ADDRESS_MOD - 1)
  PROVE  [s EXCEPT !.address = address, !.source = src, !.max_seq = seq,
                   !.mask = {}, !.state = "receiving"] \in Session
<1> DEFINE t == [s EXCEPT !.address = address, !.source = src, !.max_seq = seq]
           u == [t EXCEPT !.mask = {}]
<1>1. t \in Session
  BY DEF Session
<1> HIDE DEF t
<1>2. u \in Session
  BY <1>1 DEF Session
<1> HIDE DEF u
<1>3. [u EXCEPT !.state = "receiving"] \in Session
  BY <1>2 DEF Session, SbState
<1>4. [u EXCEPT !.state = "receiving"]
        = [s EXCEPT !.address = address, !.source = src, !.max_seq = seq,
                    !.mask = {}, !.state = "receiving"]
  BY DEF Session, t, u
<1> QED BY <1>3, <1>4

\* A request packet keeps the types, whether a slot is taken, only its address is
\* overwritten or nothing happens.
LEMMA RequestType ==
  ASSUME TypeOK, NEW src \in Sources, NEW seq \in 0..MaxSeq,
         NEW length \in 0..BlockLen, NEW address \in Addresses,
         Request(src, seq, length, address)
  PROVE  TypeOK'
<1>1. address \in 0..(ADDRESS_MOD - 1)
  BY SizesAssumption
<1>2. CASE AcceptRequest(src, seq, length, address)
  <2>1. PICK i \in Slots :
          /\ Valid(i, [sessions[i] EXCEPT !.address = address, !.source = src,
                         !.max_seq = seq, !.mask = {}, !.state = "receiving"])
          /\ stored' = stored \ {i}
    BY <1>2 DEF AcceptRequest
  <2>2. [sessions[i] EXCEPT !.address = address, !.source = src,
           !.max_seq = seq, !.mask = {}, !.state = "receiving"] \in Session
    <3>1. sessions[i] \in Session
      BY DEF TypeOK
    <3> QED BY <1>1, <3>1, OpenedType
  <2>3. sent' \in SUBSET Answer
    BY <1>2 DEF AcceptRequest, Ack, Answer
  <2> QED BY <1>2, <2>1, <2>2, <2>3, ValidType DEF AcceptRequest, TypeOK
<1>3. CASE RefuseRequest(src, seq, length, address)
  <2>1. sent' \in SUBSET Answer
    BY <1>3 DEF RefuseRequest, Nack, Answer
  <2>2. sessions' \in [Slots -> Session]
    <3>1. CASE UNCHANGED sessions
      BY <3>1 DEF TypeOK
    <3>2. CASE \E i \in Slots : sessions' = [sessions EXCEPT ![i].address = address]
      <4>1. \A i \in Slots : [sessions[i] EXCEPT !.address = address] \in Session
        <5>1. \A i \in Slots : sessions[i] \in Session
          BY SlotType
        <5> QED BY <1>1, <5>1 DEF Session
      <4> QED BY <3>2, <4>1 DEF TypeOK
    <3> QED BY <1>3, <3>1, <3>2 DEF RefuseRequest
  <2> QED BY <1>3, <2>1, <2>2 DEF RefuseRequest, ToScan, TypeOK
<1> QED BY <1>2, <1>3 DEF Request

\* A refused packet keeps the types.
LEMMA RefuseType ==
  ASSUME TypeOK, NEW src \in Sources, Refuse(src)
  PROVE  TypeOK'
BY DEF Refuse, Nack, Answer, ToScan, TypeOK

\* A transfer packet keeps the types, also when it completes its transfer.
LEMMA TransferType ==
  ASSUME TypeOK, NEW src \in Sources, NEW seq \in 0..MaxSeq,
         NEW length \in 0..BlockLen, NEW payload \in Payloads,
         Transfer(src, seq, length, payload)
  PROVE  TypeOK'
<1>1. PICK i \in Slots :
        IF TransferOK(sessions[i], seq, length)
        THEN /\ StoreBlock(i, Received(sessions[i], seq, length, payload))
             /\ sent' = {}
        ELSE Refuse(src)
  BY DEF Transfer
<1>2. CASE ~TransferOK(sessions[i], seq, length)
  BY <1>1, <1>2, RefuseType
<1>3. CASE TransferOK(sessions[i], seq, length)
  <2> DEFINE s == Received(sessions[i], seq, length, payload)
  <2>1. s \in Session
    BY SlotType, ReceivedType
  <2>2. StoreBlock(i, s) /\ sent' = {}
    BY <1>1, <1>3
  <2> HIDE DEF s
  <2>3. CASE FullyReceived(s)
    <3> DEFINE w == [s EXCEPT !.done = ~AsyncWrite, !.state = "writing"]
               size == s.max_seq * BlockLen + s.last_blk_size
    <3>1. w \in Session
      BY <2>1, FlagsAssumption DEF Session, SbState
    <3>2. Valid(i, w) /\ WriteHandler(i, s, size)
      BY <2>2, <2>3 DEF StoreBlock
    <3>3. size \in Sizes /\ s.address \in 0..(ADDRESS_MOD - 1)
      <4>1. size \in Sizes
        BY <2>1, SizeType
      <4>2. s.address \in 0..(ADDRESS_MOD - 1)
        BY <2>1 DEF Session
      <4> QED BY <4>1, <4>2
    <3>4. s.buffer \in [0..MaxSeq -> Payloads \cup {Blank}]
      BY <2>1 DEF Session
    <3> HIDE DEF w, size
    <3>6. jobs' \in SUBSET Job
      <4>1. [slot |-> i, address |-> s.address, size |-> size, orphan |-> FALSE] \in Job
        BY <3>3 DEF Job
      <4> QED BY <3>2, <4>1 DEF WriteHandler, TypeOK
    <3>7. data' \in [0..(MEM_SIZE - 1) -> Payloads \cup {Blank}]
      BY <3>2, <3>3, <3>4, WrittenType DEF WriteHandler, TypeOK
    <3>8. stored' \in SUBSET Slots
      BY <3>2 DEF WriteHandler, TypeOK
    <3> QED BY <2>2, <3>1, <3>2, <3>6, <3>7, <3>8, ValidType DEF TypeOK
  <2>4. CASE ~FullyReceived(s)
    BY <2>1, <2>2, <2>4, ValidType DEF StoreBlock, TypeOK
  <2> QED BY <2>3, <2>4
<1> QED BY <1>2, <1>3

\* An abort packet keeps the types.
LEMMA AbortType ==
  ASSUME TypeOK, NEW src \in Sources, NEW length \in {0, 1}, Abort(src, length)
  PROVE  TypeOK'
<1>1. CASE length # 0
  BY <1>1, RefuseType DEF Abort
<1>2. CASE length = 0
  <2>1. PICK i \in Slots :
          /\ Valid(i, [sessions[i] EXCEPT !.state = "idle"])
          /\ jobs' = {IF j.slot = i THEN [j EXCEPT !.orphan = TRUE] ELSE j
                         : j \in jobs}
          /\ sent' = Ack(src)
          /\ UNCHANGED <<data, stored>>
    BY <1>2 DEF Abort
  <2>2. [sessions[i] EXCEPT !.state = "idle"] \in Session
    BY SlotType, AbortedType
  <2>3. sent' \in SUBSET Answer
    BY <2>1 DEF Ack, Answer
  <2>4. jobs' \in SUBSET Job
    <3>1. \A j \in Job : [j EXCEPT !.orphan = TRUE] \in Job
      BY DEF Job
    <3> QED BY <2>1, <3>1 DEF TypeOK
  <2> QED BY <2>1, <2>2, <2>3, <2>4, ValidType DEF TypeOK
<1> QED BY <1>1, <1>2

\* A status packet keeps the types.
LEMMA StatusType ==
  ASSUME TypeOK, NEW src \in Sources, NEW length \in {0, 1}, Status(src, length)
  PROVE  TypeOK'
<1>1. CASE length # 0
  BY <1>1, RefuseType DEF Status
<1>2. CASE length = 0
  <2>1. PICK i \in Slots : /\ IsSessionOf(i, src)
                           /\ Valid(i, sessions[i])
                           /\ sent' = Report(sessions[i])
                           /\ UNCHANGED <<data, jobs, stored>>
    BY <1>2 DEF Status
  <2>2. sessions[i] \in Session /\ sessions[i].source \in Sources
    BY <2>1 DEF TypeOK, IsSessionOf, Matches
  <2>3. sent' \in SUBSET Answer
    BY <2>1, <2>2 DEF Report, Answer, Session, SbState
  <2> QED BY <2>1, <2>2, <2>3, ValidType DEF TypeOK
<1> QED BY <1>1, <1>2

\* The search for the next timeout keeps the types.
LEMMA ScanType ==
  ASSUME TypeOK, Scan
  PROVE  TypeOK'
<1>1. sessions' \in [Slots -> Session]
  BY CheckedType DEF Scan, TypeOK
<1>2. tindex' \in Slots \cup {NoSlot} /\ wait' \in 0..MAX_DELAY
  <2>1. CASE \E i \in Slots : tindex' = i /\ wait' = sessions'[i].timeout
    BY <2>1, <1>1, TimesAssumption DEF Session
  <2>2. CASE tindex' = NoSlot /\ wait' = MAX_DELAY
    BY <2>2, TimesAssumption
  <2> QED BY <2>1, <2>2 DEF Scan
<1> QED BY <1>1, <1>2, TimesAssumption DEF Scan, TypeOK

\* The tick interrupt keeps the types.
LEMMA TickType ==
  ASSUME TypeOK, Tick
  PROVE  TypeOK'
<1>1. sessions' \in [Slots -> Session]
  <2>1. \A n \in 0..(SB_TIMEOUT + 1) : Bump(n, SB_TIMEOUT + 1) \in 0..(SB_TIMEOUT + 1)
    BY TimesAssumption DEF Bump
  <2>2. \A i \in Slots : [sessions[i] EXCEPT !.age = Bump(@, SB_TIMEOUT + 1)] \in Session
    <3> SUFFICES ASSUME NEW i \in Slots
                 PROVE  [sessions[i] EXCEPT !.age = Bump(@, SB_TIMEOUT + 1)] \in Session
      OBVIOUS
    <3>1. sessions[i] \in Session
      BY SlotType
    <3>2. Bump(sessions[i].age, SB_TIMEOUT + 1) \in 0..(SB_TIMEOUT + 1)
      BY <2>1, <3>1 DEF Session
    <3> QED BY <3>1, <3>2 DEF Session
  <2> QED BY <2>2 DEF Tick, TypeOK
<1>2. silent' \in [Slots -> 0..(SB_TIMEOUT + 1)]
  BY TimesAssumption DEF Tick, Bump, TypeOK
<1>3. waited' \in 0..MAX_DELAY
  BY TimesAssumption DEF Tick, Bump, TypeOK
<1> QED BY <1>1, <1>2, <1>3 DEF Tick, TypeOK

\* A delegated write that finishes keeps the types.
LEMMA FinishWriteType ==
  ASSUME TypeOK, NEW j \in jobs, FinishWrite(j)
  PROVE  TypeOK'
<1>1. j \in Job
  BY DEF TypeOK
<1>2. sessions' \in [Slots -> Session] /\ stored' \in SUBSET Slots
  <2>1. j.slot \in Slots
    BY <1>1 DEF Job
  <2>2. [sessions[j.slot] EXCEPT !.done = TRUE] \in Session
    <3>1. sessions[j.slot] \in Session
      BY <2>1, SlotType
    <3> QED BY <3>1 DEF Session
  <2> QED BY <2>1, <2>2 DEF FinishWrite, TypeOK
<1>3. data' \in [0..(MEM_SIZE - 1) -> Payloads \cup {Blank}]
  <2>1. sessions[j.slot].buffer \in [0..MaxSeq -> Payloads \cup {Blank}]
    BY <1>1 DEF TypeOK, Session, Job
  <2>2. j.address \in 0..(ADDRESS_MOD - 1) /\ j.size \in Sizes
    BY <1>1 DEF Job
  <2> QED BY <2>1, <2>2, WrittenType DEF FinishWrite
<1> QED BY <1>2, <1>3 DEF FinishWrite, taskVars, TypeOK

\* A block time that ends without a frame keeps the types.
LEMMA TimeoutType ==
  ASSUME TypeOK, ReceiveTimeout
  PROVE  TypeOK'
<1>1. sessions' \in [Slots -> Session]
  BY TimedOutType DEF ReceiveTimeout, TypeOK
<1> QED BY <1>1 DEF ReceiveTimeout, ToScan, TypeOK

\* Types hold from the start, for every value of the constants.
THEOREM TypeCorrect == Spec => []TypeOK
<1>1. Init => TypeOK
  <2> SUFFICES ASSUME Init PROVE TypeOK
    OBVIOUS
  <2>1. sessions \in [Slots -> Session]
    BY SizesAssumption, TimesAssumption DEF Init, Session, SbState
  <2>2. /\ data \in [0..(MEM_SIZE - 1) -> Payloads \cup {Blank}]
        /\ silent \in [Slots -> 0..(SB_TIMEOUT + 1)]
        /\ wait \in 0..MAX_DELAY /\ waited \in 0..MAX_DELAY
    BY TimesAssumption DEF Init
  <2> QED BY <2>1, <2>2 DEF Init, TypeOK, NoSlot
<1>2. TypeOK /\ [Next]_vars => TypeOK'
  <2> SUFFICES ASSUME TypeOK, [Next]_vars PROVE TypeOK'
    OBVIOUS
  <2>1. ASSUME NEW src \in Sources, NEW isRequest \in BOOLEAN,
               Mismatch(src, isRequest)
        PROVE  TypeOK'
    BY <2>1, TimesAssumption DEF Mismatch, Nack, Answer, Continue, TypeOK
  <2>2. ASSUME NEW src \in Sources, OtherFrame(src)
        PROVE  TypeOK'
    BY <2>2, RefuseType DEF OtherFrame
  <2>3. CASE FrameIn
    BY <2>1, <2>2, <2>3, RequestType, TransferType, AbortType, StatusType DEF FrameIn
  <2>4. CASE ReceiveTimeout
    BY <2>4, TimeoutType
  <2>5. CASE Scan
    BY <2>5, ScanType
  <2>6. CASE Tick
    BY <2>6, TickType
  <2>7. CASE \E j \in jobs : FinishWrite(j)
    BY <2>7, FinishWriteType
  <2>8. CASE UNCHANGED vars
    BY <2>8 DEF vars, taskVars, TypeOK
  <2> QED BY <2>3, <2>4, <2>5, <2>6, <2>7, <2>8 DEF Next
<1> QED BY <1>1, <1>2, PTL DEF Spec

-----------------------------------------------------------------------------
(* What a frame does to the sessions                                       *)

\* The frame was served: slot i now holds s, restarted.  Either the sender's
\* own session went on, or a free slot was taken for a node without one.
Served(i, s) ==
  /\ Valid(i, s)
  /\ \/ /\ Active(i) /\ s.source = sessions[i].source
        /\ s.state = "idle" => sent' = Ack(sessions[i].source)
     \/ /\ ~Active(i) /\ ~HasSession(s.source)
        /\ s.state = "receiving"

\* The frame was refused: at most the address left in a free slot changed.
Refused ==
  /\ silent' = silent
  /\ \A i \in Slots : \/ sessions'[i] = sessions[i]
                      \/ /\ ~Active(i)
                         /\ \E a : sessions'[i] = [sessions[i] EXCEPT !.address = a]
  /\ \/ pc' = "scan"
     \/ /\ sessions' = sessions
        /\ pc' = "recv" /\ waited' = 0
        /\ UNCHANGED <<wait, tindex>>

\* The address a request leaves in a slot is neither its state nor its node.
LEMMA AddressOnly ==
  ASSUME NEW s \in Session, NEW a, NEW t, t = [s EXCEPT !.address = a]
  PROVE  t.state = s.state /\ t.source = s.source
BY DEF Session

\* A frame is either refused or served.
LEMMA FrameShape ==
  ASSUME TypeOK, FrameIn
  PROVE  Refused \/ \E i \in Slots, s \in Session : Served(i, s)
<1>1. ASSUME NEW src \in Sources, NEW isRequest \in BOOLEAN,
             Mismatch(src, isRequest)
      PROVE  Refused
  BY <1>1 DEF Mismatch, Continue, Refused
<1>2. ASSUME NEW src \in Sources, Refuse(src)
      PROVE  Refused
  BY <1>2 DEF Refuse, ToScan, Refused
<1>3. ASSUME NEW src \in Sources, NEW seq \in 0..MaxSeq,
             NEW length \in 0..BlockLen, NEW address \in Addresses,
             Request(src, seq, length, address)
      PROVE  Refused \/ \E i \in Slots, s \in Session : Served(i, s)
  <2>1. CASE AcceptRequest(src, seq, length, address)
    <3>1. PICK i \in Slots :
            /\ IsNewSlot(i)
            /\ Valid(i, [sessions[i] EXCEPT !.address = address, !.source = src,
                           !.max_seq = seq, !.mask = {}, !.state = "receiving"])
      BY <2>1 DEF AcceptRequest
    <3> DEFINE s == [sessions[i] EXCEPT !.address = address, !.source = src,
                       !.max_seq = seq, !.mask = {}, !.state = "receiving"]
    <3>2. sessions[i] \in Session /\ address \in 0..(ADDRESS_MOD - 1)
      BY SizesAssumption DEF TypeOK
    <3>3. s \in Session
      BY <3>2, OpenedType
    <3>4. s.source = src /\ s.state = "receiving"
      BY <3>2 DEF Session
    <3>5. Valid(i, s)
      BY <3>1
    <3> HIDE DEF s
    <3>6. ~Active(i) /\ ~HasSession(s.source)
      BY <1>3, <3>1, <3>4 DEF Request, IsNewSlot
    <3> QED BY <3>3, <3>4, <3>5, <3>6 DEF Served
  <2>2. CASE RefuseRequest(src, seq, length, address)
    <3>1. CASE UNCHANGED sessions
      BY <2>2, <3>1 DEF RefuseRequest, ToScan, Refused
    <3>2. CASE \E i \in Slots : /\ IsNewSlot(i)
                               /\ sessions' = [sessions EXCEPT ![i].address = address]
      BY <2>2, <3>2 DEF RefuseRequest, ToScan, Refused, IsNewSlot, TypeOK
    <3> QED BY <2>2, <3>1, <3>2 DEF RefuseRequest
  <2> QED BY <1>3, <2>1, <2>2 DEF Request
<1>4. ASSUME NEW src \in Sources, NEW seq \in 0..MaxSeq,
             NEW length \in 0..BlockLen, NEW payload \in Payloads,
             Transfer(src, seq, length, payload)
      PROVE  Refused \/ \E i \in Slots, s \in Session : Served(i, s)
  <2>1. PICK i \in Slots :
          /\ IsSessionOf(i, src)
          /\ IF TransferOK(sessions[i], seq, length)
             THEN StoreBlock(i, Received(sessions[i], seq, length, payload))
             ELSE Refuse(src)
    BY <1>4 DEF Transfer
  <2>2. CASE ~TransferOK(sessions[i], seq, length)
    BY <1>2, <2>1, <2>2
  <2>3. CASE TransferOK(sessions[i], seq, length)
    <3> DEFINE s == Received(sessions[i], seq, length, payload)
               w == [s EXCEPT !.done = ~AsyncWrite, !.state = "writing"]
    <3>1. s \in Session /\ s.source = sessions[i].source /\ s.state = "receiving"
      BY <2>3, SlotType, ReceivedType DEF TransferOK
    <3>2. Active(i)
      BY <2>1 DEF IsSessionOf, Matches
    <3>3. StoreBlock(i, s)
      BY <2>1, <2>3
    <3> HIDE DEF s
    <3>4. w \in Session /\ w.source = s.source /\ w.state = "writing"
      BY <3>1, FlagsAssumption DEF Session, SbState
    <3>5. Valid(i, w) \/ Valid(i, s)
      BY <3>3 DEF StoreBlock
    <3> HIDE DEF w
    <3> QED BY <3>1, <3>2, <3>4, <3>5 DEF Served
  <2> QED BY <2>2, <2>3
<1>5. ASSUME NEW src \in Sources, NEW length \in {0, 1}, Abort(src, length)
      PROVE  Refused \/ \E i \in Slots, s \in Session : Served(i, s)
  <2>1. CASE length # 0
    BY <1>2, <1>5, <2>1 DEF Abort
  <2>2. CASE length = 0
    <3>1. PICK i \in Slots :
            /\ IsSessionOf(i, src)
            /\ Valid(i, [sessions[i] EXCEPT !.state = "idle"])
            /\ sent' = Ack(src)
      BY <1>5, <2>2 DEF Abort
    <3> DEFINE s == [sessions[i] EXCEPT !.state = "idle"]
    <3>2. s \in Session /\ s.source = sessions[i].source
      BY SlotType, AbortedType
    <3> QED BY <3>1, <3>2 DEF Served, IsSessionOf, Matches
  <2> QED BY <2>1, <2>2
<1>6. ASSUME NEW src \in Sources, NEW length \in {0, 1}, Status(src, length)
      PROVE  Refused \/ \E i \in Slots, s \in Session : Served(i, s)
  <2>1. CASE length # 0
    BY <1>2, <1>6, <2>1 DEF Status
  <2>2. CASE length = 0
    BY <1>6, <2>2 DEF Status, Served, IsSessionOf, Matches, Active, TypeOK
  <2> QED BY <2>1, <2>2
<1>7. ASSUME NEW src \in Sources, OtherFrame(src)
      PROVE  Refused
  BY <1>2, <1>7 DEF OtherFrame
<1> QED BY <1>1, <1>3, <1>4, <1>5, <1>6, <1>7 DEF FrameIn

-----------------------------------------------------------------------------
(* One session per node                                                    *)

\* Every step but a new request keeps the owners of the active slots.
KeepsOwners ==
  \A i \in Slots : Active(i)' => Active(i) /\ sessions'[i].source = sessions[i].source

\* A step that opens no session cannot give a node a second one.
LEMMA OwnersKept ==
  ASSUME OneSessionPerSource, KeepsOwners
  PROVE  OneSessionPerSource'
BY DEF OneSessionPerSource, KeepsOwners

\* No node ever has two sessions, whatever the number of nodes and slots.
THEOREM UniqueSessions == Spec => []OneSessionPerSource
<1>1. Init => OneSessionPerSource
  BY DEF Init, OneSessionPerSource, Active
<1>2. TypeOK /\ OneSessionPerSource /\ [Next]_vars => OneSessionPerSource'
  <2> SUFFICES ASSUME TypeOK, OneSessionPerSource, [Next]_vars
               PROVE  OneSessionPerSource'
    OBVIOUS
  <2>1. CASE FrameIn
    <3>1. CASE Refused
      <4>1. KeepsOwners
        <5> SUFFICES ASSUME NEW i \in Slots, Active(i)'
                     PROVE  Active(i) /\ sessions'[i].source = sessions[i].source
          BY DEF KeepsOwners
        <5>1. sessions[i] \in Session
          BY DEF TypeOK
        <5>2. \/ sessions'[i] = sessions[i]
              \/ \E a : sessions'[i] = [sessions[i] EXCEPT !.address = a]
          BY <3>1 DEF Refused
        <5>3. sessions'[i].state = sessions[i].state /\ sessions'[i].source = sessions[i].source
          <6>1. CASE sessions'[i] = sessions[i]
            BY <6>1
          <6>2. CASE \E a : sessions'[i] = [sessions[i] EXCEPT !.address = a]
            <7>1. PICK a : sessions'[i] = [sessions[i] EXCEPT !.address = a]
              BY <6>2
            <7> QED BY <5>1, <7>1, AddressOnly
          <6> QED BY <5>2, <6>1, <6>2
        <5> QED BY <5>3 DEF Active
      <4> QED BY <4>1, OwnersKept
    <3>2. ASSUME NEW i \in Slots, NEW s \in Session, Served(i, s)
          PROVE  OneSessionPerSource'
      <4>1. sessions' = [sessions EXCEPT ![i] = ResetTimeout(s)]
        BY <3>2 DEF Served, Valid
      <4>2. /\ sessions'[i].source = s.source /\ sessions'[i].state = s.state
            /\ \A j \in Slots \ {i} : sessions'[j] = sessions[j]
        BY <4>1, ResetTimeoutType DEF TypeOK
      <4>3. CASE Active(i) /\ s.source = sessions[i].source
        <5>1. KeepsOwners
          BY <4>2, <4>3 DEF KeepsOwners, Active
        <5> QED BY <5>1, OwnersKept
      <4>4. CASE ~HasSession(s.source)
        BY <4>2, <4>4 DEF OneSessionPerSource, Active, HasSession, Matches
      <4> QED BY <3>2, <4>3, <4>4 DEF Served
    <3> QED BY <2>1, <3>1, <3>2, FrameShape
  <2>2. CASE ReceiveTimeout
    <3>1. KeepsOwners
      <4>1. CASE tindex \in Slots
        <5>1. sessions' = [sessions EXCEPT ![tindex] = TimedOut(sessions[tindex])]
          BY <2>2, <4>1, SizesAssumption DEF ReceiveTimeout, NoSlot, Slots
        <5>2. sessions[tindex].state = "idle" => TimedOut(sessions[tindex]).state = "idle"
          BY <4>1 DEF TimedOut, TypeOK, Session
        <5> QED BY <4>1, <5>1, <5>2, TimedOutType DEF KeepsOwners, Active, TypeOK
      <4>2. CASE tindex = NoSlot
        BY <2>2, <4>2 DEF ReceiveTimeout, KeepsOwners, Active
      <4> QED BY <4>1, <4>2 DEF TypeOK
    <3> QED BY <3>1, OwnersKept
  <2>3. CASE Scan
    <3>1. KeepsOwners
      BY <2>3, CheckedType DEF Scan, KeepsOwners, Active, TypeOK
    <3> QED BY <3>1, OwnersKept
  <2>4. CASE Tick
    <3>1. KeepsOwners
      BY <2>4 DEF Tick, KeepsOwners, Active, TypeOK, Session
    <3> QED BY <3>1, OwnersKept
  <2>5. ASSUME NEW j \in jobs, FinishWrite(j)
        PROVE  OneSessionPerSource'
    <3>1. KeepsOwners
      BY <2>5 DEF FinishWrite, KeepsOwners, Active, TypeOK, Session
    <3> QED BY <3>1, OwnersKept
  <2>6. CASE UNCHANGED vars
    BY <2>6 DEF vars, OneSessionPerSource, Active
  <2> QED BY <2>1, <2>2, <2>3, <2>4, <2>5, <2>6 DEF Next
<1> QED BY <1>1, <1>2, TypeCorrect, PTL DEF Spec

-----------------------------------------------------------------------------
(* No session expires early                                                *)

\* The two halves of TimersAgree.
TimerOf(i) ==
  sessions[i].state = "receiving" /\ silent[i] < SB_TIMEOUT =>
    sessions[i].timeout - sessions[i].age = SB_TIMEOUT - silent[i]

WaitOfTask ==
  pc = "recv" /\ tindex # NoSlot =>
    /\ Active(tindex)
    /\ wait = sessions[tindex].timeout
    /\ \/ waited <= sessions[tindex].age
       \/ sessions[tindex].age >= sessions[tindex].timeout

\* TimersAgree, slot by slot and for the task.
LEMMA TimersAgreeParts == TimersAgree <=> (\A i \in Slots : TimerOf(i)) /\ WaitOfTask
BY DEF TimersAgree, TimerOf, WaitOfTask

\* Handling a frame keeps the timers in agreement.
LEMMA FrameTimers ==
  ASSUME TypeOK, TimersAgree, FrameIn
  PROVE  TimersAgree'
<1>1. CASE Refused
  <2>1. ASSUME NEW i \in Slots PROVE TimerOf(i)'
    <3>1. CASE sessions'[i] = sessions[i]
      BY <1>1, <3>1, TimersAgreeParts DEF Refused, TimerOf
    <3>2. CASE ~Active(i) /\ \E a : sessions'[i] = [sessions[i] EXCEPT !.address = a]
      <4>1. sessions[i] \in Session
        BY DEF TypeOK
      <4>2. sessions'[i].state = "idle"
        BY <3>2, <4>1, AddressOnly DEF Active
      <4> QED BY <4>2 DEF TimerOf
    <3> QED BY <1>1, <3>1, <3>2 DEF Refused
  <2>2. WaitOfTask'
    <3>1. CASE pc' = "scan"
      BY <3>1 DEF WaitOfTask
    <3>2. CASE sessions' = sessions /\ pc' = "recv" /\ waited' = 0 /\ UNCHANGED <<wait, tindex>>
      <4>1. pc = "recv"
        BY DEF FrameIn, Mismatch, Request, Transfer, Abort, Status, OtherFrame
      <4>2. tindex \in Slots => sessions[tindex].age >= 0
        BY TimesAssumption DEF TypeOK, Session
      <4> QED BY <3>2, <4>1, <4>2, TimersAgreeParts DEF WaitOfTask, Active, TypeOK
    <3> QED BY <1>1, <3>1, <3>2 DEF Refused
  <2> QED BY <2>1, <2>2 DEF TimersAgree, TimerOf, WaitOfTask
<1>2. ASSUME NEW i \in Slots, NEW s \in Session, Served(i, s)
      PROVE  TimersAgree'
  <2>1. /\ sessions' = [sessions EXCEPT ![i] = ResetTimeout(s)]
        /\ silent' = [silent EXCEPT ![i] = 0]
        /\ pc' = "scan"
    BY <1>2 DEF Served, Valid, ToScan
  <2>2. TimerOf(i)'
    <3>1. sessions'[i] = ResetTimeout(s) /\ silent'[i] = 0
      BY <2>1 DEF TypeOK
    <3>2. s.state = "receiving" =>
            ResetTimeout(s).timeout = SB_TIMEOUT /\ ResetTimeout(s).age = 0
      BY DEF ResetTimeout, Session
    <3> QED BY <3>1, <3>2, ResetTimeoutType, TimesAssumption DEF TimerOf
  <2>3. ASSUME NEW j \in Slots, j # i PROVE TimerOf(j)'
    BY <2>1, <2>3, TimersAgreeParts DEF TimerOf, TypeOK
  <2>4. WaitOfTask'
    BY <2>1 DEF WaitOfTask
  <2>5. \A j \in Slots : TimerOf(j)'
    BY <2>2, <2>3
  <2> QED BY <2>4, <2>5 DEF TimersAgree, TimerOf, WaitOfTask
<1> QED BY <1>1, <1>2, FrameShape

\* Looking at a session whose time is not up moves its age into its timeout.
LEMMA CheckedTimers ==
  ASSUME NEW s \in Session
  PROVE  /\ Checked(s).state = "receiving" =>
              /\ s.state = "receiving" /\ s.age < s.timeout
              /\ Checked(s).timeout = s.timeout - s.age
         /\ Checked(s).state # "idle" => Checked(s).age = 0
<1>1. CASE s.state = "idle"
  BY <1>1 DEF Checked
<1>2. CASE s.state # "idle" /\ s.age < s.timeout
  BY <1>2 DEF Checked, Session
<1>3. CASE s.state # "idle" /\ ~(s.age < s.timeout)
  <2> DEFINE r == [s EXCEPT !.timeout = 0]
  <2>1. r \in Session
    BY TimesAssumption DEF Session
  <2>2. Checked(s) = TimedOut(r)
    BY <1>3 DEF Checked
  <2> HIDE DEF r
  <2>3. TimedOut(r).state # "idle" => TimedOut(r).age = 0
    <3>1. [r EXCEPT !.state = "done"] \in Session
      BY <2>1 DEF Session, SbState
    <3> QED BY <2>1, <3>1 DEF TimedOut, ResetTimeout, Session
  <2> QED BY <2>1, <2>2, <2>3, TimedOutType
<1> QED BY <1>1, <1>2, <1>3

\* The search for the next timeout keeps the timers in agreement.
LEMMA ScanTimers ==
  ASSUME TypeOK, TimersAgree, Scan
  PROVE  TimersAgree'
<1>1. \A i \in Slots : sessions[i] \in Session /\ sessions'[i] = Checked(sessions[i])
  BY DEF Scan, TypeOK
<1>2. ASSUME NEW i \in Slots PROVE TimerOf(i)'
  BY <1>1, CheckedTimers, TimersAgreeParts DEF Scan, TimerOf, Session
<1>3. WaitOfTask'
  <2>1. CASE tindex' = NoSlot
    BY <2>1 DEF WaitOfTask
  <2>2. ASSUME NEW i \in Slots, IsNextTimeout(i, sessions'),
               tindex' = i, wait' = sessions'[i].timeout
        PROVE  WaitOfTask'
    <3>1. Active(i)'
      BY <2>2 DEF IsNextTimeout, Active
    <3>2. waited' = 0 /\ sessions'[i].age = 0
      BY <1>1, <2>2, CheckedTimers DEF Scan, IsNextTimeout
    <3> QED BY <2>2, <3>1, <3>2 DEF WaitOfTask
  <2> QED BY <2>1, <2>2 DEF Scan
<1> QED BY <1>2, <1>3 DEF TimersAgree, TimerOf, WaitOfTask

\* The tick interrupt keeps the timers in agreement.
LEMMA TickTimers ==
  ASSUME TypeOK, TimersAgree, Tick
  PROVE  TimersAgree'
<1>1. \A i \in Slots : sessions[i] \in Session /\ silent[i] \in 0..(SB_TIMEOUT + 1)
  BY DEF TypeOK
<1>2. \A i \in Slots :
        /\ sessions'[i].state = sessions[i].state
        /\ sessions'[i].timeout = sessions[i].timeout
        /\ Active(i) => sessions'[i].age = Bump(sessions[i].age, SB_TIMEOUT + 1)
  BY <1>1 DEF Tick, TypeOK, Session, Active
<1>3. \A i \in Slots : Active(i) => silent'[i] = Bump(silent[i], SB_TIMEOUT + 1)
  BY DEF Tick, TypeOK
<1>4. ASSUME NEW i \in Slots PROVE TimerOf(i)'
  <2>1. CASE sessions[i].state = "receiving" /\ silent'[i] < SB_TIMEOUT
    <3>1. silent[i] < SB_TIMEOUT /\ silent'[i] = silent[i] + 1
      BY <1>1, <1>3, <2>1, TimesAssumption DEF Active, Bump
    <3>2. sessions[i].timeout - sessions[i].age = SB_TIMEOUT - silent[i]
      BY <2>1, <3>1, TimersAgreeParts DEF TimerOf
    <3>3. sessions[i].timeout \in 0..SB_TIMEOUT /\ sessions[i].age \in 0..(SB_TIMEOUT + 1)
      BY <1>1 DEF Session
    <3>4. sessions'[i].age = sessions[i].age + 1
      BY <1>1, <1>2, <2>1, <3>1, <3>2, <3>3, TimesAssumption DEF Active, Bump
    <3> QED BY <1>1, <1>2, <3>1, <3>2, <3>3, <3>4, TimesAssumption DEF TimerOf
  <2> QED BY <1>2, <2>1 DEF TimerOf
<1>5. WaitOfTask'
  <2> SUFFICES ASSUME pc = "recv", tindex \in Slots PROVE WaitOfTask'
    BY DEF WaitOfTask, Tick, TypeOK
  <2>1. /\ Active(tindex) /\ wait = sessions[tindex].timeout
        /\ waited <= sessions[tindex].age \/ sessions[tindex].age >= sessions[tindex].timeout
    BY TimersAgreeParts, SizesAssumption DEF WaitOfTask, Slots, NoSlot
  <2>2. /\ sessions[tindex].timeout \in 0..SB_TIMEOUT
        /\ sessions[tindex].age \in 0..(SB_TIMEOUT + 1)
        /\ waited \in 0..MAX_DELAY
    BY <1>1 DEF Session, TypeOK
  <2>3. /\ sessions'[tindex].age = Bump(sessions[tindex].age, SB_TIMEOUT + 1)
        /\ waited' = Bump(waited, MAX_DELAY)
        /\ UNCHANGED <<pc, wait, tindex>>
    BY <1>2, <2>1 DEF Tick
  <2>4. \/ waited' <= sessions'[tindex].age
        \/ sessions'[tindex].age >= sessions'[tindex].timeout
    BY <1>2, <2>1, <2>2, <2>3, TimesAssumption DEF Bump
  <2>5. Active(tindex)'
    BY <1>2, <2>1, <2>3 DEF Active
  <2> QED BY <1>2, <2>1, <2>3, <2>4, <2>5 DEF WaitOfTask
<1> QED BY <1>4, <1>5 DEF TimersAgree, TimerOf, WaitOfTask

\* A delegated write that finishes keeps the timers in agreement.
LEMMA FinishWriteTimers ==
  ASSUME TypeOK, TimersAgree, NEW j \in jobs, FinishWrite(j)
  PROVE  TimersAgree'
<1>1. \A i \in Slots : /\ sessions[i] \in Session
                       /\ sessions'[i] = sessions[i]
                          \/ sessions'[i] = [sessions[i] EXCEPT !.done = TRUE]
  BY DEF FinishWrite, TypeOK
<1>2. \A i \in Slots : /\ sessions'[i].state = sessions[i].state
                       /\ sessions'[i].timeout = sessions[i].timeout
                       /\ sessions'[i].age = sessions[i].age
  BY <1>1 DEF Session
<1>3. UNCHANGED <<pc, wait, tindex, waited, silent>>
  BY DEF FinishWrite, taskVars
<1>4. tindex \in Slots \cup {NoSlot}
  BY DEF TypeOK
<1> QED BY <1>2, <1>3, <1>4 DEF TimersAgree, Active

\* A block time that ends keeps the timers in agreement.
LEMMA TimeoutTimers ==
  ASSUME TypeOK, TimersAgree, ReceiveTimeout
  PROVE  TimersAgree'
<1>1. silent' = silent /\ pc' = "scan"
  BY DEF ReceiveTimeout, ToScan
<1>2. ASSUME NEW i \in Slots PROVE TimerOf(i)'
  <2>1. sessions[i] \in Session
    BY DEF TypeOK
  <2>2. sessions'[i] = sessions[i] \/ sessions'[i] = TimedOut(sessions[i])
    BY DEF ReceiveTimeout, TypeOK
  <2> QED BY <1>1, <2>1, <2>2, TimedOutType, TimersAgreeParts DEF TimerOf
<1> QED BY <1>1, <1>2 DEF TimersAgree, TimerOf

\* The two timers of the task always agree with each other and with the
\* silence of the initiators.
THEOREM TimersAgreement == Spec => []TimersAgree
<1>1. Init => TimersAgree
  <2> SUFFICES ASSUME Init PROVE TimersAgree
    OBVIOUS
  <2>1. \A i \in Slots : sessions[i].state = "idle"
    BY DEF Init
  <2> QED BY <2>1 DEF Init, TimersAgree
<1>2. TypeOK /\ TimersAgree /\ [Next]_vars => TimersAgree'
  <2> SUFFICES ASSUME TypeOK, TimersAgree, [Next]_vars PROVE TimersAgree'
    OBVIOUS
  <2>1. CASE UNCHANGED vars
    BY <2>1 DEF vars, taskVars, TimersAgree, Active
  <2> QED BY <2>1, FrameTimers, TimeoutTimers, ScanTimers, TickTimers, FinishWriteTimers
          DEF Next
<1> QED BY <1>1, <1>2, TypeCorrect, PTL DEF Spec

\* A transfer in progress ends only when its initiator aborts it or has been
\* silent for the whole of SB_TIMEOUT.
THEOREM NoEarlyExpiry == Spec => NeverExpiredEarly
<1> DEFINE Early(i) ==
      sessions[i].state = "receiving" /\ sessions'[i].state = "idle" =>
        silent[i] >= SB_TIMEOUT \/ sent' = Ack(sessions[i].source)
<1>1. ASSUME TypeOK, TimersAgree, [Next]_vars, NEW i \in Slots,
             sessions[i].state = "receiving", sessions'[i].state = "idle"
      PROVE  silent[i] >= SB_TIMEOUT \/ sent' = Ack(sessions[i].source)
  <2>1. /\ sessions[i] \in Session
        /\ silent[i] \in 0..(SB_TIMEOUT + 1)
        /\ sessions[i].timeout \in 0..SB_TIMEOUT
        /\ sessions[i].age \in 0..(SB_TIMEOUT + 1)
    BY <1>1 DEF TypeOK, Session
  <2>2. silent[i] < SB_TIMEOUT => sessions[i].age < sessions[i].timeout
    BY <1>1, <2>1, TimersAgreeParts, TimesAssumption DEF TimerOf
  <2>3. CASE FrameIn
    <3>1. CASE Refused
      <4>1. sessions'[i] = sessions[i]
        BY <1>1, <3>1 DEF Refused, Active
      <4> QED BY <1>1, <4>1
    <3>2. ASSUME NEW k \in Slots, NEW s \in Session, Served(k, s)
          PROVE  sent' = Ack(sessions[i].source)
      <4>1. sessions' = [sessions EXCEPT ![k] = ResetTimeout(s)]
        BY <3>2 DEF Served, Valid
      <4>2. i = k
        BY <1>1, <4>1 DEF TypeOK
      <4>3. s.state = "idle"
        BY <1>1, <4>1, <4>2, ResetTimeoutType DEF TypeOK
      <4> QED BY <3>2, <4>2, <4>3 DEF Served
    <3> QED BY <2>3, <3>1, <3>2, <1>1, FrameShape
  <2>4. CASE ReceiveTimeout
    <3>1. tindex = i
      BY <1>1, <2>4 DEF ReceiveTimeout, TypeOK
    <3>2. /\ waited >= wait /\ wait = sessions[i].timeout
          /\ waited <= sessions[i].age \/ sessions[i].age >= sessions[i].timeout
      BY <1>1, <2>4, <3>1, TimersAgreeParts, SizesAssumption
         DEF ReceiveTimeout, WaitOfTask, Slots, NoSlot
    <3>3. waited \in Nat /\ wait \in Nat
      BY <1>1, TimesAssumption DEF TypeOK
    <3> QED BY <2>1, <2>2, <3>2, <3>3, TimesAssumption
  <2>5. CASE Scan
    <3>1. sessions'[i] = Checked(sessions[i])
      BY <1>1, <2>5 DEF Scan, TypeOK
    <3>2. sessions[i].age < sessions[i].timeout =>
            Checked(sessions[i]).state = sessions[i].state
      BY <2>1 DEF Checked, Session
    <3> QED BY <1>1, <2>1, <2>2, <3>1, <3>2, TimesAssumption
  <2>6. CASE Tick
    BY <1>1, <2>1, <2>6 DEF Tick, TypeOK, Session
  <2>7. CASE \E j \in jobs : FinishWrite(j)
    BY <1>1, <2>1, <2>7 DEF FinishWrite, TypeOK, Session
  <2>8. CASE UNCHANGED vars
    BY <1>1, <2>8 DEF vars
  <2> QED BY <1>1, <2>3, <2>4, <2>5, <2>6, <2>7, <2>8 DEF Next
<1>2. TypeOK /\ TimersAgree /\ [Next]_vars => [\A i \in Slots : Early(i)]_vars
  BY <1>1
<1> QED BY <1>2, TypeCorrect, TimersAgreement, PTL DEF Spec, NeverExpiredEarly

-----------------------------------------------------------------------------
(* Done means stored                                                       *)

\* With a handler that writes at once, a session past receiving is stored.
PastReceiving ==
  /\ jobs = {}
  /\ \A i \in Slots : sessions[i].state \in {"writing", "done"} => i \in stored

TrueReports ==
  \A a \in sent : a.done => \E i \in stored : Matches(i, a.to)

\* The inductive invariant behind DoneMeansStored.
StoredInv == PastReceiving /\ TrueReports

\* An answer that is no report says nothing about a write.
LEMMA SilentAnswer ==
  ASSUME \E src \in Sources : sent' \in {{}, Nack(src), Ack(src)}
  PROVE  TrueReports'
BY DEF TrueReports, Nack, Ack

\* A slot that gets a session which is still receiving, or none.
LEMMA NotPastReceiving ==
  ASSUME TypeOK, StoredInv, NEW i \in Slots, NEW s \in Session, Valid(i, s),
         s.state \in {"idle", "receiving"}, jobs' = {},
         stored' = stored \/ stored' = stored \ {i}
  PROVE  PastReceiving'
<1>1. sessions' = [sessions EXCEPT ![i] = ResetTimeout(s)]
  BY DEF Valid
<1>2. sessions'[i].state = s.state /\ \A j \in Slots \ {i} : sessions'[j] = sessions[j]
  BY <1>1, ResetTimeoutType DEF TypeOK
<1> QED BY <1>2 DEF StoredInv, PastReceiving

\* Handling a frame keeps the invariant behind DoneMeansStored.
LEMMA FrameStored ==
  ASSUME ~AsyncWrite, TypeOK, StoredInv, FrameIn
  PROVE  StoredInv'
<1>1. ASSUME NEW src \in Sources, NEW isRequest \in BOOLEAN,
             Mismatch(src, isRequest)
      PROVE  StoredInv'
  BY <1>1, SilentAnswer DEF Mismatch, StoredInv, PastReceiving
<1>2. ASSUME NEW src \in Sources, Refuse(src)
      PROVE  StoredInv'
  BY <1>2, SilentAnswer DEF Refuse, StoredInv, PastReceiving
<1>3. ASSUME NEW src \in Sources, NEW seq \in 0..MaxSeq,
             NEW length \in 0..BlockLen, NEW address \in Addresses,
             Request(src, seq, length, address)
      PROVE  StoredInv'
  <2>1. CASE AcceptRequest(src, seq, length, address)
    <3>1. PICK i \in Slots :
            /\ Valid(i, [sessions[i] EXCEPT !.address = address, !.source = src,
                           !.max_seq = seq, !.mask = {}, !.state = "receiving"])
            /\ stored' = stored \ {i}
      BY <2>1 DEF AcceptRequest
    <3> DEFINE s == [sessions[i] EXCEPT !.address = address, !.source = src,
                       !.max_seq = seq, !.mask = {}, !.state = "receiving"]
    <3>2. sessions[i] \in Session /\ address \in 0..(ADDRESS_MOD - 1)
      BY SizesAssumption DEF TypeOK
    <3>3. s \in Session /\ s.state = "receiving"
      BY <3>2, OpenedType DEF Session
    <3>4. sent' = Ack(src) /\ jobs' = {}
      BY <2>1 DEF AcceptRequest, StoredInv, PastReceiving
    <3>5. Valid(i, s) /\ stored' = stored \ {i}
      BY <3>1
    <3> HIDE DEF s
    <3> QED BY <3>3, <3>4, <3>5, NotPastReceiving, SilentAnswer DEF StoredInv
  <2>2. CASE RefuseRequest(src, seq, length, address)
    <3>1. \A i \in Slots : sessions'[i].state = sessions[i].state
      <4>1. CASE UNCHANGED sessions
        BY <4>1
      <4>2. CASE \E i \in Slots : sessions' = [sessions EXCEPT ![i].address = address]
        <5>1. \A i \in Slots : [sessions[i] EXCEPT !.address = address].state = sessions[i].state
          BY AddressOnly DEF TypeOK
        <5> QED BY <4>2, <5>1 DEF TypeOK
      <4> QED BY <2>2, <4>1, <4>2 DEF RefuseRequest
    <3>2. sent' = Nack(src) /\ UNCHANGED <<jobs, stored>>
      BY <2>2 DEF RefuseRequest
    <3> QED BY <3>1, <3>2, SilentAnswer DEF StoredInv, PastReceiving
  <2> QED BY <1>3, <2>1, <2>2 DEF Request
<1>4. ASSUME NEW src \in Sources, NEW seq \in 0..MaxSeq,
             NEW length \in 0..BlockLen, NEW payload \in Payloads,
             Transfer(src, seq, length, payload)
      PROVE  StoredInv'
  <2>1. PICK i \in Slots :
          IF TransferOK(sessions[i], seq, length)
          THEN /\ StoreBlock(i, Received(sessions[i], seq, length, payload))
               /\ sent' = {}
          ELSE Refuse(src)
    BY <1>4 DEF Transfer
  <2>2. CASE ~TransferOK(sessions[i], seq, length)
    BY <1>2, <2>1, <2>2
  <2>3. CASE TransferOK(sessions[i], seq, length)
    <3> DEFINE s == Received(sessions[i], seq, length, payload)
               w == [s EXCEPT !.done = ~AsyncWrite, !.state = "writing"]
               size == s.max_seq * BlockLen + s.last_blk_size
    <3>1. s \in Session /\ s.state = "receiving"
      BY <2>3, SlotType, ReceivedType DEF TransferOK
    <3>2. StoreBlock(i, s) /\ sent' = {}
      BY <2>1, <2>3
    <3> HIDE DEF s
    <3>3. CASE FullyReceived(s)
      <4>1. w \in Session
        BY <3>1, FlagsAssumption DEF Session, SbState
      <4>2. Valid(i, w) /\ WriteHandler(i, s, size)
        BY <3>2, <3>3 DEF StoreBlock
      <4> HIDE DEF w, size
      <4>3. stored' = stored \cup {i} /\ jobs' = {}
        BY <4>2 DEF WriteHandler, StoredInv, PastReceiving
      <4>4. \A j \in Slots \ {i} : sessions'[j] = sessions[j]
        BY <4>2 DEF Valid, TypeOK
      <4> QED BY <3>2, <4>3, <4>4, SilentAnswer, <1>4 DEF StoredInv, PastReceiving
    <3>4. CASE ~FullyReceived(s)
      <4>1. Valid(i, s) /\ UNCHANGED <<jobs, stored>>
        BY <3>2, <3>4 DEF StoreBlock
      <4>2. jobs' = {}
        BY <4>1 DEF StoredInv, PastReceiving
      <4> QED BY <1>4, <3>1, <3>2, <4>1, <4>2, NotPastReceiving, SilentAnswer DEF StoredInv
    <3> QED BY <3>3, <3>4
  <2> QED BY <2>2, <2>3
<1>5. ASSUME NEW src \in Sources, NEW length \in {0, 1}, Abort(src, length)
      PROVE  StoredInv'
  <2>1. CASE length # 0
    BY <1>2, <1>5, <2>1 DEF Abort
  <2>2. CASE length = 0
    <3>1. PICK i \in Slots :
            /\ Valid(i, [sessions[i] EXCEPT !.state = "idle"])
            /\ jobs' = {IF j.slot = i THEN [j EXCEPT !.orphan = TRUE] ELSE j
                           : j \in jobs}
            /\ sent' = Ack(src)
            /\ UNCHANGED stored
      BY <1>5, <2>2 DEF Abort
    <3> DEFINE s == [sessions[i] EXCEPT !.state = "idle"]
    <3>2. s \in Session /\ s.state = "idle"
      BY SlotType, AbortedType
    <3>3. jobs' = {}
      BY <3>1 DEF StoredInv, PastReceiving
    <3>4. Valid(i, s)
      BY <3>1
    <3> HIDE DEF s
    <3> QED BY <3>1, <3>2, <3>3, <3>4, NotPastReceiving, SilentAnswer DEF StoredInv
  <2> QED BY <2>1, <2>2
<1>6. ASSUME NEW src \in Sources, NEW length \in {0, 1}, Status(src, length)
      PROVE  StoredInv'
  <2>1. CASE length # 0
    BY <1>2, <1>6, <2>1 DEF Status
  <2>2. CASE length = 0
    <3>1. PICK i \in Slots : /\ IsSessionOf(i, src)
                             /\ Valid(i, sessions[i])
                             /\ sent' = Report(sessions[i])
                             /\ UNCHANGED <<jobs, stored>>
      BY <1>6, <2>2 DEF Status
    <3>2. /\ sessions'[i].state = sessions[i].state
          /\ sessions'[i].source = sessions[i].source
          /\ \A j \in Slots \ {i} : sessions'[j] = sessions[j]
      BY <3>1, ResetTimeoutType DEF Valid, TypeOK
    <3>3. PastReceiving'
      BY <3>1, <3>2 DEF StoredInv, PastReceiving
    <3>4. TrueReports'
      <4> SUFFICES ASSUME NEW a \in sent', a.done
                   PROVE  \E k \in stored' : Matches(k, a.to)'
        BY DEF TrueReports
      <4>1. /\ a.to = sessions[i].source
            /\ sessions[i].state = "done" \/ sessions[i].state = "writing"
        <5> DEFINE done == \/ sessions[i].state = "done"
                           \/ sessions[i].state = "writing" /\ sessions[i].done
        <5>1. a = [to |-> sessions[i].source, kind |-> "report",
                   done |-> done, mask |-> sessions[i].mask]
          BY <3>1 DEF Report
        <5> HIDE DEF done
        <5>2. a.to = sessions[i].source /\ a.done = done
          BY <5>1
        <5>3. done
          BY <5>2, Zenon
        <5> QED BY <5>2, <5>3 DEF done
      <4>2. i \in stored'
        BY <3>1, <4>1 DEF StoredInv, PastReceiving
      <4> QED BY <3>2, <4>1, <4>2 DEF Matches, Active
    <3> QED BY <3>3, <3>4 DEF StoredInv
  <2> QED BY <2>1, <2>2
<1>7. ASSUME NEW src \in Sources, OtherFrame(src)
      PROVE  StoredInv'
  BY <1>2, <1>7 DEF OtherFrame
<1> QED BY <1>1, <1>3, <1>4, <1>5, <1>6, <1>7 DEF FrameIn

\* With the write handler of block_handler.c, a session is flagged or
\* reported done only when its whole transfer is in memory.
THEOREM DoneIsStored ==
  ASSUME ~AsyncWrite
  PROVE  Spec => []DoneMeansStored
<1>1. Init => StoredInv
  <2> SUFFICES ASSUME Init PROVE StoredInv
    OBVIOUS
  <2>1. \A i \in Slots : sessions[i].state = "idle"
    BY DEF Init
  <2> QED BY <2>1 DEF Init, StoredInv, PastReceiving, TrueReports
<1>2. TypeOK /\ StoredInv /\ [Next]_vars => StoredInv'
  <2> SUFFICES ASSUME TypeOK, StoredInv, [Next]_vars PROVE StoredInv'
    OBVIOUS
  <2>1. CASE FrameIn
    BY <2>1, FrameStored
  <2>2. ASSUME NEW i \in Slots, NEW s \in Session, s.state = "receiving" \/ s.state = "idle"
        PROVE  TimedOut(s).state = "idle" /\ Checked(s).state \in {"idle", "receiving"}
    <3>1. TimedOut(s).state = "idle"
      BY <2>2 DEF TimedOut, Session
    <3>2. [s EXCEPT !.timeout = 0] \in Session /\ [s EXCEPT !.timeout = 0].state = s.state
      BY TimesAssumption DEF Session
    <3>3. TimedOut([s EXCEPT !.timeout = 0]).state = "idle"
      BY <2>2, <3>2 DEF TimedOut, Session
    <3> QED BY <2>2, <3>1, <3>3 DEF Checked, Session
  <2>3. CASE ReceiveTimeout
    <3>1. \A i \in Slots : \/ sessions'[i] = sessions[i]
                           \/ sessions'[i] = TimedOut(sessions[i])
      BY <2>3 DEF ReceiveTimeout, TypeOK
    <3>2. UNCHANGED <<jobs, stored>> /\ sent' = {}
      BY <2>3 DEF ReceiveTimeout
    <3>3. PastReceiving'
      BY <2>2, <3>1, <3>2, SlotType DEF StoredInv, PastReceiving, SbState
    <3> QED BY <3>2, <3>3 DEF StoredInv, TrueReports
  <2>4. CASE Scan
    <3>1. \A i \in Slots : sessions'[i] = Checked(sessions[i])
      BY <2>4 DEF Scan
    <3>2. UNCHANGED <<jobs, stored>> /\ sent' = {}
      BY <2>4 DEF Scan
    <3>3. PastReceiving'
      BY <2>2, <3>1, <3>2, SlotType DEF StoredInv, PastReceiving, SbState
    <3> QED BY <3>2, <3>3 DEF StoredInv, TrueReports
  <2>5. CASE Tick
    <3>1. \A i \in Slots : sessions'[i].state = sessions[i].state
      BY <2>5 DEF Tick, TypeOK, Session
    <3>2. UNCHANGED <<jobs, stored>> /\ sent' = {}
      BY <2>5 DEF Tick
    <3> QED BY <3>1, <3>2 DEF StoredInv, PastReceiving, TrueReports
  <2>6. CASE \E j \in jobs : FinishWrite(j)
    BY <2>6 DEF StoredInv, PastReceiving
  <2>7. CASE UNCHANGED vars
    BY <2>7 DEF vars, StoredInv, PastReceiving, TrueReports, Matches, Active
  <2> QED BY <2>1, <2>3, <2>4, <2>5, <2>6, <2>7 DEF Next
<1>3. StoredInv => DoneMeansStored
  BY DEF StoredInv, PastReceiving, TrueReports, DoneMeansStored
<1> QED BY <1>1, <1>2, <1>3, TypeCorrect, PTL DEF Spec

-----------------------------------------------------------------------------
(* Sessions expire in time                                                 *)

\* While the task is prompt, what a receiving session has left and what its
\* initiator has been silent for add up to SB_TIMEOUT, and the blocked task
\* counts the age of every session and wakes up for the first one.
PromptInv ==
  /\ \A i \in Slots : sessions[i].state = "receiving" =>
       /\ silent[i] <= SB_TIMEOUT
       /\ sessions[i].timeout + silent[i] = SB_TIMEOUT + sessions[i].age
  /\ pc = "recv" => \A i \in Slots : Active(i) =>
       sessions[i].age = waited /\ wait <= sessions[i].timeout

\* Frames, which always send the task on to its search.
LEMMA FramePrompt ==
  ASSUME ~StrayFrames, TypeOK, PromptInv, FrameIn
  PROVE  PromptInv'
<1>1. pc' = "scan"
  <2>1. ASSUME NEW src \in Sources, Refuse(src)
        PROVE  pc' = "scan"
    BY <2>1 DEF Refuse, ToScan
  <2>2. ASSUME NEW i, NEW s, Valid(i, s)
        PROVE  pc' = "scan"
    BY <2>2 DEF Valid, ToScan
  <2>3. ASSUME NEW src \in Sources, NEW seq, NEW length, NEW address,
               Request(src, seq, length, address)
        PROVE  pc' = "scan"
    BY <2>2, <2>3 DEF Request, AcceptRequest, RefuseRequest, ToScan
  <2>4. ASSUME NEW src \in Sources, NEW seq, NEW length, NEW payload,
               Transfer(src, seq, length, payload)
        PROVE  pc' = "scan"
    BY <2>1, <2>2, <2>4, Zenon DEF Transfer, StoreBlock
  <2>5. ASSUME NEW src \in Sources, NEW length,
               Abort(src, length) \/ Status(src, length) \/ OtherFrame(src)
        PROVE  pc' = "scan"
    BY <2>1, <2>2, <2>5, Zenon DEF Abort, Status, OtherFrame
  <2> QED BY <2>3, <2>4, <2>5 DEF FrameIn, Mismatch
<1>2. CASE Refused
  <2>1. ASSUME NEW i \in Slots, sessions'[i].state = "receiving"
        PROVE  sessions'[i] = sessions[i] /\ silent'[i] = silent[i]
    <3>1. CASE ~Active(i) /\ \E a : sessions'[i] = [sessions[i] EXCEPT !.address = a]
      BY <2>1, <3>1, SlotType, AddressOnly DEF Active
    <3> QED BY <1>2, <3>1 DEF Refused
  <2> QED BY <1>1, <2>1 DEF PromptInv
<1>3. ASSUME NEW i \in Slots, NEW s \in Session, Served(i, s)
      PROVE  PromptInv'
  <2>1. /\ sessions' = [sessions EXCEPT ![i] = ResetTimeout(s)]
        /\ silent' = [silent EXCEPT ![i] = 0]
    BY <1>3 DEF Served, Valid
  <2>2. sessions'[i] = ResetTimeout(s) /\ silent'[i] = 0
    BY <2>1 DEF TypeOK
  <2>3. s.state = "receiving" => ResetTimeout(s).timeout = SB_TIMEOUT /\ ResetTimeout(s).age = 0
    BY DEF ResetTimeout, Session
  <2>4. \A j \in Slots \ {i} : sessions'[j] = sessions[j] /\ silent'[j] = silent[j]
    BY <2>1 DEF TypeOK
  <2> QED BY <1>1, <2>2, <2>3, <2>4, ResetTimeoutType, TimesAssumption DEF PromptInv
<1> QED BY <1>2, <1>3, FrameShape

\* A search for the next timeout starts all ages at zero and waits no longer than
\* any session has left.
LEMMA ScanPrompt ==
  ASSUME TypeOK, PromptInv, Scan
  PROVE  PromptInv'
<1>1. \A i \in Slots : /\ sessions[i] \in Session /\ sessions'[i] = Checked(sessions[i])
                       /\ silent[i] \in Nat /\ silent'[i] = silent[i]
  BY TimesAssumption DEF Scan, TypeOK
<1>2. ASSUME NEW i \in Slots, sessions'[i].state = "receiving"
      PROVE  /\ silent'[i] <= SB_TIMEOUT
             /\ sessions'[i].timeout + silent'[i] = SB_TIMEOUT + sessions'[i].age
  <2>1. /\ sessions[i].state = "receiving" /\ sessions'[i].timeout = sessions[i].timeout - sessions[i].age
        /\ sessions'[i].age = 0
    BY <1>1, <1>2, CheckedTimers
  <2>2. sessions[i].timeout \in 0..SB_TIMEOUT /\ sessions[i].age \in 0..(SB_TIMEOUT + 1)
    BY <1>1 DEF Session
  <2> QED BY <1>1, <2>1, <2>2, TimesAssumption DEF PromptInv
<1>3. ASSUME NEW i \in Slots, sessions'[i].state # "idle"
      PROVE  sessions'[i].age = waited' /\ wait' <= sessions'[i].timeout
  <2>1. waited' = 0 /\ sessions'[i].age = 0
    BY <1>1, <1>3, CheckedTimers DEF Scan
  <2>2. PICK k \in Slots : IsNextTimeout(k, sessions') /\ wait' = sessions'[k].timeout
    BY <1>3 DEF Scan
  <2>3. \A j \in Slots : sessions'[j].timeout \in Int
    <3>1. \A s \in Session : s.timeout \in Int
      BY TimesAssumption DEF Session
    <3> QED BY <1>1, <3>1, CheckedType
  <2>4. \/ sessions'[k].timeout < sessions'[i].timeout
        \/ sessions'[k].timeout = sessions'[i].timeout
    BY <1>3, <2>2, Zenon DEF IsNextTimeout
  <2>5. wait' <= sessions'[i].timeout
    BY <2>2, <2>3, <2>4
  <2> QED BY <2>1, <2>5
<1> QED BY <1>2, <1>3 DEF PromptInv, Active

\* A prompt task is woken before any session has aged past what it has left.
LEMMA TickPrompt ==
  ASSUME Prompt, TypeOK, PromptInv, Tick
  PROVE  PromptInv'
<1>1. pc = "recv" /\ waited < wait /\ pc' = pc /\ wait' = wait
  BY DEF Tick
<1>2. waited \in Nat /\ waited <= MAX_DELAY /\ wait \in Nat /\ wait <= MAX_DELAY /\ MAX_DELAY \in Nat
  BY TimesAssumption DEF TypeOK
<1>3. waited' = waited + 1
  BY <1>1, <1>2 DEF Tick, Bump
<1>4. ASSUME NEW i \in Slots
      PROVE  /\ sessions'[i].state = sessions[i].state
             /\ sessions'[i].timeout = sessions[i].timeout
             /\ Active(i) => /\ sessions'[i].age = sessions[i].age + 1
                             /\ sessions[i].age < sessions[i].timeout
                             /\ silent'[i] = Bump(silent[i], SB_TIMEOUT + 1)
  <2>1. /\ sessions[i] \in Session /\ sessions[i].timeout \in 0..SB_TIMEOUT
        /\ sessions[i].age \in 0..(SB_TIMEOUT + 1)
    BY DEF TypeOK, Session
  <2>2. Active(i) => sessions[i].age < sessions[i].timeout
    BY <1>1, <1>2, <2>1, TimesAssumption DEF PromptInv
  <2>3. /\ sessions'[i] = IF Active(i)
                          THEN [sessions[i] EXCEPT !.age = Bump(sessions[i].age, SB_TIMEOUT + 1)]
                          ELSE sessions[i]
        /\ silent'[i] = IF Active(i) THEN Bump(silent[i], SB_TIMEOUT + 1) ELSE silent[i]
    BY DEF Tick
  <2>4. Active(i) => Bump(sessions[i].age, SB_TIMEOUT + 1) = sessions[i].age + 1
    BY <2>1, <2>2, TimesAssumption DEF Bump
  <2>5. CASE Active(i)
    BY <2>1, <2>2, <2>3, <2>4, <2>5 DEF Session
  <2>6. CASE ~Active(i)
    BY <2>3, <2>6
  <2> QED BY <2>5, <2>6
<1>5. ASSUME NEW i \in Slots, sessions'[i].state = "receiving"
      PROVE  /\ silent'[i] <= SB_TIMEOUT
             /\ sessions'[i].timeout + silent'[i] = SB_TIMEOUT + sessions'[i].age
  <2>1. Active(i) /\ sessions[i].state = "receiving"
    BY <1>4, <1>5 DEF Active
  <2>2. /\ silent[i] \in Nat /\ sessions[i].timeout \in Nat /\ sessions[i].age \in Nat
        /\ SB_TIMEOUT \in Nat
    BY TimesAssumption DEF TypeOK, Session
  <2>3. silent[i] < SB_TIMEOUT
    BY <1>4, <2>1, <2>2 DEF PromptInv
  <2>4. silent'[i] = silent[i] + 1
    BY <1>4, <2>1, <2>2, <2>3 DEF Bump
  <2> QED BY <1>4, <2>1, <2>2, <2>3, <2>4 DEF PromptInv
<1>6. ASSUME NEW i \in Slots, Active(i)'
      PROVE  sessions'[i].age = waited' /\ wait' <= sessions'[i].timeout
  <2>1. Active(i)
    BY <1>4, <1>6 DEF Active
  <2> QED BY <1>1, <1>3, <1>4, <2>1 DEF PromptInv
<1> QED BY <1>5, <1>6 DEF PromptInv

\* As long as the task runs promptly and no frame restarts its block time, no
\* session outlives SB_TIMEOUT ticks of silence.
THEOREM ExpiresInTime ==
  ASSUME Prompt, ~StrayFrames
  PROVE  Spec => []ExpiredInTime
<1>1. Init => PromptInv
  <2> SUFFICES ASSUME Init PROVE PromptInv
    OBVIOUS
  <2>1. \A i \in Slots : sessions[i].state = "idle"
    BY DEF Init
  <2> QED BY <2>1 DEF PromptInv, Active
<1>2. TypeOK /\ PromptInv /\ [Next]_vars => PromptInv'
  <2> SUFFICES ASSUME TypeOK, PromptInv, [Next]_vars PROVE PromptInv'
    OBVIOUS
  <2>1. CASE ReceiveTimeout
    <3>1. silent' = silent /\ pc' = "scan"
      BY <2>1 DEF ReceiveTimeout, ToScan
    <3>2. \A i \in Slots : /\ sessions[i] \in Session
                           /\ sessions'[i] = sessions[i] \/ sessions'[i] = TimedOut(sessions[i])
      BY <2>1 DEF ReceiveTimeout, TypeOK
    <3> QED BY <3>1, <3>2, TimedOutType DEF PromptInv
  <2>2. ASSUME NEW j \in jobs, FinishWrite(j)
        PROVE  PromptInv'
    <3>1. \A i \in Slots : /\ sessions'[i].state = sessions[i].state
                           /\ sessions'[i].timeout = sessions[i].timeout
                           /\ sessions'[i].age = sessions[i].age
      BY <2>2 DEF FinishWrite, TypeOK, Session
    <3> QED BY <2>2, <3>1 DEF FinishWrite, taskVars, PromptInv, Active
  <2>3. CASE UNCHANGED vars
    BY <2>3 DEF vars, taskVars, PromptInv, Active
  <2> QED BY <2>1, <2>2, <2>3, FramePrompt, ScanPrompt, TickPrompt DEF Next
<1>3. PromptInv => ExpiredInTime
  BY DEF PromptInv, ExpiredInTime
<1> QED BY <1>1, <1>2, <1>3, TypeCorrect, PTL DEF Spec

-----------------------------------------------------------------------------
(* The task implements the service: sessions                               *)

\* What the service needs to know of a session: its blocks are blocks of the
\* transfer, the length of the last one is known once it has come, and a session
\* that is being written has been written.
Sound(s) ==
  /\ s.mask \subseteq FullMask(s)
  /\ s.max_seq \in s.mask => s.last_blk_size > 0
  /\ s.state = "writing" => s.done

AllSound == \A i \in Slots : Active(i) => Sound(sessions[i])

\* Restarting a session's timeout leaves what the service sees of it.
LEMMA ResetSound ==
  ASSUME NEW s \in Session, Sound(s) \/ s.state = "idle"
  PROVE  Sound(ResetTimeout(s)) \/ ResetTimeout(s).state = "idle"
BY DEF ResetTimeout, Sound, FullMask, Session

\* A served frame leaves all sessions sound when its own is.
LEMMA ServedSound ==
  ASSUME TypeOK, AllSound, NEW i \in Slots, NEW s \in Session, Valid(i, s),
         Sound(s) \/ s.state = "idle"
  PROVE  AllSound'
<1>1. sessions' = [sessions EXCEPT ![i] = ResetTimeout(s)]
  BY DEF Valid
<1>2. /\ sessions'[i] = ResetTimeout(s)
      /\ \A j \in Slots \ {i} : sessions'[j] = sessions[j]
  BY <1>1 DEF TypeOK
<1>3. Sound(sessions'[i]) \/ sessions'[i].state = "idle"
  BY <1>2, ResetSound
<1> QED BY <1>2, <1>3 DEF AllSound, Active, Sound, FullMask

\* A block that arrives for a sound session makes another.
LEMMA ReceivedSound ==
  ASSUME NEW s \in Session, Sound(s), NEW seq \in 0..MaxSeq, NEW length \in 0..BlockLen,
         NEW payload \in Payloads, TransferOK(s, seq, length)
  PROVE  /\ Sound(Received(s, seq, length, payload))
         /\ Received(s, seq, length, payload).mask = s.mask \cup {seq}
         /\ Received(s, seq, length, payload).buffer = [s.buffer EXCEPT ![seq] = payload]
         /\ seq \in FullMask(s)
<1> DEFINE r == Received(s, seq, length, payload)
<1>1. /\ r.mask = s.mask \cup {seq} /\ r.max_seq = s.max_seq /\ r.state = s.state
      /\ r.last_blk_size = IF seq = s.max_seq THEN length ELSE s.last_blk_size
      /\ r.buffer = [s.buffer EXCEPT ![seq] = payload]
  BY DEF Received, Session
<1>2. s.max_seq \in Nat /\ seq \in Nat /\ seq <= s.max_seq
      /\ s.state = "receiving" /\ (seq = s.max_seq => length > 0)
  BY SizesAssumption DEF TransferOK, Session
<1>3. seq \in FullMask(s)
  BY <1>2 DEF FullMask
<1> HIDE DEF r
<1>4. Sound(r)
  BY <1>1, <1>2, <1>3 DEF Sound, FullMask
<1> QED BY <1>1, <1>3, <1>4 DEF r

\* With a handler that writes at once, every frame leaves sound sessions.
LEMMA FrameSound ==
  ASSUME ~AsyncWrite, TypeOK, AllSound, FrameIn
  PROVE  AllSound'
<1>1. ASSUME NEW src \in Sources, NEW isRequest \in BOOLEAN, Mismatch(src, isRequest)
      PROVE  AllSound'
  BY <1>1 DEF Mismatch, AllSound, Active, Sound, FullMask
<1>2. ASSUME NEW src \in Sources, Refuse(src)
      PROVE  AllSound'
  BY <1>2 DEF Refuse, AllSound, Active, Sound, FullMask
<1>3. ASSUME NEW src \in Sources, NEW seq \in 0..MaxSeq,
             NEW length \in 0..BlockLen, NEW address \in Addresses,
             Request(src, seq, length, address)
      PROVE  AllSound'
  <2>1. CASE AcceptRequest(src, seq, length, address)
    <3>1. PICK i \in Slots :
            Valid(i, [sessions[i] EXCEPT !.address = address, !.source = src,
                        !.max_seq = seq, !.mask = {}, !.state = "receiving"])
      BY <2>1 DEF AcceptRequest
    <3> DEFINE s == [sessions[i] EXCEPT !.address = address, !.source = src,
                       !.max_seq = seq, !.mask = {}, !.state = "receiving"]
    <3>2. sessions[i] \in Session /\ address \in 0..(ADDRESS_MOD - 1)
      BY SizesAssumption DEF TypeOK
    <3>3. s \in Session /\ s.mask = {} /\ s.state = "receiving"
      BY <3>2, OpenedType DEF Session
    <3>4. Valid(i, s)
      BY <3>1
    <3> HIDE DEF s
    <3> QED BY <3>3, <3>4, ServedSound DEF Sound
  <2>2. CASE RefuseRequest(src, seq, length, address)
    <3>1. CASE UNCHANGED sessions
      BY <3>1 DEF AllSound, Active, Sound, FullMask
    <3>2. CASE \E i \in Slots : /\ IsNewSlot(i)
                               /\ sessions' = [sessions EXCEPT ![i].address = address]
      <4>1. PICK i \in Slots : /\ ~Active(i)
                               /\ sessions' = [sessions EXCEPT ![i].address = address]
        BY <3>2 DEF IsNewSlot
      <4>2. sessions'[i].state = sessions[i].state
        BY <4>1, AddressOnly DEF TypeOK
      <4>3. \A j \in Slots \ {i} : sessions'[j] = sessions[j]
        BY <4>1 DEF TypeOK
      <4> QED BY <4>1, <4>2, <4>3 DEF AllSound, Active, Sound, FullMask
    <3> QED BY <2>2, <3>1, <3>2 DEF RefuseRequest
  <2> QED BY <1>3, <2>1, <2>2 DEF Request
<1>4. ASSUME NEW src \in Sources, NEW seq \in 0..MaxSeq,
             NEW length \in 0..BlockLen, NEW payload \in Payloads,
             Transfer(src, seq, length, payload)
      PROVE  AllSound'
  <2>1. PICK i \in Slots :
          /\ IsSessionOf(i, src)
          /\ IF TransferOK(sessions[i], seq, length)
             THEN StoreBlock(i, Received(sessions[i], seq, length, payload))
             ELSE Refuse(src)
    BY <1>4 DEF Transfer
  <2>2. CASE ~TransferOK(sessions[i], seq, length)
    BY <1>2, <2>1, <2>2
  <2>3. CASE TransferOK(sessions[i], seq, length)
    <3> DEFINE s == Received(sessions[i], seq, length, payload)
               w == [s EXCEPT !.done = ~AsyncWrite, !.state = "writing"]
    <3>1. Sound(sessions[i])
      BY <2>1 DEF AllSound, IsSessionOf, Matches
    <3>2. s \in Session /\ Sound(s)
      BY <2>3, <3>1, SlotType, ReceivedType, ReceivedSound
    <3>3. StoreBlock(i, s)
      BY <2>1, <2>3
    <3> HIDE DEF s
    <3>4. w \in Session /\ Sound(w)
      BY <3>2 DEF Session, SbState, Sound, FullMask
    <3>5. Valid(i, w) \/ Valid(i, s)
      BY <3>3 DEF StoreBlock
    <3> HIDE DEF w
    <3> QED BY <3>2, <3>4, <3>5, ServedSound
  <2> QED BY <2>2, <2>3
<1>5. ASSUME NEW src \in Sources, NEW length \in {0, 1}, Abort(src, length)
      PROVE  AllSound'
  <2>1. CASE length # 0
    BY <1>2, <1>5, <2>1 DEF Abort
  <2>2. CASE length = 0
    <3>1. PICK i \in Slots : Valid(i, [sessions[i] EXCEPT !.state = "idle"])
      BY <1>5, <2>2 DEF Abort
    <3> DEFINE s == [sessions[i] EXCEPT !.state = "idle"]
    <3>2. s \in Session /\ s.state = "idle"
      BY SlotType, AbortedType
    <3> HIDE DEF s
    <3> QED BY <3>1, <3>2, ServedSound DEF s
  <2> QED BY <2>1, <2>2
<1>6. ASSUME NEW src \in Sources, NEW length \in {0, 1}, Status(src, length)
      PROVE  AllSound'
  <2>1. CASE length # 0
    BY <1>2, <1>6, <2>1 DEF Status
  <2>2. CASE length = 0
    <3>1. PICK i \in Slots : IsSessionOf(i, src) /\ Valid(i, sessions[i])
      BY <1>6, <2>2 DEF Status
    <3>2. Sound(sessions[i]) /\ sessions[i] \in Session
      BY <3>1, SlotType DEF AllSound, IsSessionOf, Matches
    <3> QED BY <3>1, <3>2, ServedSound
  <2> QED BY <2>1, <2>2
<1>7. ASSUME NEW src \in Sources, OtherFrame(src)
      PROVE  AllSound'
  BY <1>2, <1>7 DEF OtherFrame
<1> QED BY <1>1, <1>3, <1>4, <1>5, <1>6, <1>7 DEF FrameIn

\* With a handler that writes at once, no frame leaves a write for later.
LEMMA StoredJobs ==
  ASSUME ~AsyncWrite, jobs = {}, FrameIn
  PROVE  jobs' = {}
<1>1. ASSUME NEW src \in Sources, Refuse(src) PROVE jobs' = {}
  BY <1>1 DEF Refuse
<1>2. ASSUME NEW src \in Sources, NEW seq, NEW length, NEW address,
             Request(src, seq, length, address)
      PROVE  jobs' = {}
  BY <1>2 DEF Request, AcceptRequest, RefuseRequest
<1>3. ASSUME NEW src \in Sources, NEW seq, NEW length, NEW payload,
             Transfer(src, seq, length, payload)
      PROVE  jobs' = {}
  <2>1. ASSUME NEW i, NEW s, StoreBlock(i, s) PROVE jobs' = {}
    BY <2>1 DEF StoreBlock, WriteHandler
  <2> QED BY <1>1, <1>3, <2>1, Zenon DEF Transfer
<1>4. ASSUME NEW src \in Sources, NEW length, Abort(src, length) PROVE jobs' = {}
  BY <1>1, <1>4 DEF Abort
<1>5. ASSUME NEW src \in Sources, NEW length, Status(src, length) \/ OtherFrame(src)
      PROVE  jobs' = {}
  BY <1>1, <1>5 DEF Status, OtherFrame
<1> QED BY <1>2, <1>3, <1>4, <1>5 DEF FrameIn, Mismatch

\* What the service sees of a session.
View(s) ==
  [phase |-> IF s.state = "receiving" THEN "receiving" ELSE "stored",
   address |-> s.address, last |-> s.max_seq,
   blocks |-> [q \in s.mask |-> s.buffer[q]]]

\* Two sessions that are the same session of the same node to the service.
SameView(s, t) ==
  \/ s.state = "idle" /\ t.state = "idle"
  \/ s.state # "idle" /\ t.state # "idle" /\ t.source = s.source /\ View(t) = View(s)

\* Neither the clock nor a restarted timeout shows; only a session that is
\* receiving or done can end.
LEMMA TimedOutView ==
  ASSUME NEW s \in Session
  PROVE  /\ TimedOut(s).state = "idle" \/ SameView(s, TimedOut(s))
         /\ s.state = "idle" => TimedOut(s).state = "idle"
         /\ Sound(s) => Sound(TimedOut(s))
<1>1. CASE s.state \in {"idle", "receiving", "done"}
  BY <1>1 DEF TimedOut, SameView, Sound, FullMask, Session
<1>2. CASE s.state = "writing"
  <2> DEFINE d == IF s.done THEN [s EXCEPT !.state = "done"] ELSE s
             r == ResetTimeout(d)
  <2>1. /\ d \in Session /\ d.state \in {"writing", "done"} /\ d.source = s.source
        /\ d.address = s.address /\ d.max_seq = s.max_seq /\ d.mask = s.mask
        /\ d.buffer = s.buffer /\ d.last_blk_size = s.last_blk_size /\ d.done = s.done
    BY <1>2 DEF Session, SbState
  <2> HIDE DEF d
  <2>2. /\ r.state = d.state /\ r.source = d.source
        /\ r.address = d.address /\ r.max_seq = d.max_seq /\ r.mask = d.mask
        /\ r.buffer = d.buffer /\ r.last_blk_size = d.last_blk_size /\ r.done = d.done
    BY <2>1 DEF ResetTimeout, Session
  <2>3. TimedOut(s) = r
    BY <1>2 DEF TimedOut, d
  <2> HIDE DEF r
  <2> QED BY <1>2, <2>1, <2>2, <2>3 DEF SameView, View, Sound, FullMask
<1> QED BY <1>1, <1>2 DEF Session, SbState

LEMMA CheckedView ==
  ASSUME NEW s \in Session
  PROVE  /\ Checked(s).state = "idle" \/ SameView(s, Checked(s))
         /\ s.state = "idle" => Checked(s).state = "idle"
         /\ Sound(s) => Sound(Checked(s))
<1>1. CASE s.state = "idle"
  BY <1>1 DEF Checked
<1>2. CASE s.state # "idle" /\ s.age < s.timeout
  <2> DEFINE t == Checked(s)
  <2>1. t = [s EXCEPT !.timeout = s.timeout - s.age, !.age = 0]
    BY <1>2 DEF Checked
  <2>2. /\ t.state = s.state /\ t.source = s.source
        /\ t.address = s.address /\ t.max_seq = s.max_seq /\ t.mask = s.mask
        /\ t.buffer = s.buffer /\ t.last_blk_size = s.last_blk_size /\ t.done = s.done
    BY <2>1 DEF Session
  <2> HIDE DEF t
  <2> QED BY <1>2, <2>2 DEF SameView, View, Sound, FullMask, t
<1>3. CASE s.state # "idle" /\ ~(s.age < s.timeout)
  <2> DEFINE t == [s EXCEPT !.timeout = 0]
  <2>1. /\ t \in Session /\ t.state = s.state /\ t.source = s.source
        /\ t.address = s.address /\ t.max_seq = s.max_seq /\ t.mask = s.mask
        /\ t.buffer = s.buffer /\ t.last_blk_size = s.last_blk_size /\ t.done = s.done
    BY TimesAssumption DEF Session
  <2>2. Checked(s) = TimedOut(t)
    BY <1>3 DEF Checked
  <2> HIDE DEF t
  <2>3. Sound(s) => Sound(t)
    BY <2>1 DEF Sound, FullMask
  <2>4. TimedOut(t).state = "idle" \/ SameView(t, TimedOut(t))
    BY <2>1, TimedOutView
  <2>5. SameView(t, TimedOut(t)) => SameView(s, TimedOut(t))
    BY <2>1 DEF SameView, View
  <2> QED BY <1>3, <2>1, <2>2, <2>3, <2>4, <2>5, TimedOutView
<1> QED BY <1>1, <1>2, <1>3

\* A step of the task that is not a frame.
QuietStep ==
  /\ UNCHANGED data
  /\ sent' = {}
  /\ \A i \in Slots : /\ sessions[i] \in Session
                      /\ sessions'[i].state = "idle" \/ SameView(sessions[i], sessions'[i])
                      /\ sessions[i].state = "idle" => sessions'[i].state = "idle"
                      /\ Sound(sessions[i]) => Sound(sessions'[i])

LEMMA QuietSteps ==
  ASSUME TypeOK, jobs = {}, ReceiveTimeout \/ Scan \/ Tick \/ \E j \in jobs : FinishWrite(j)
  PROVE  QuietStep
<1>1. \A i \in Slots : sessions[i] \in Session
  BY DEF TypeOK
<1>2. CASE ReceiveTimeout
  <2>1. \A i \in Slots : sessions'[i] = sessions[i] \/ sessions'[i] = TimedOut(sessions[i])
    BY <1>2 DEF ReceiveTimeout, TypeOK
  <2>2. UNCHANGED data /\ sent' = {}
    BY <1>2 DEF ReceiveTimeout
  <2>3. \A s : s.state = "idle" \/ SameView(s, s)
    BY DEF SameView
  <2> QED BY <1>1, <2>1, <2>2, <2>3, TimedOutView DEF QuietStep
<1>3. CASE Scan
  BY <1>1, <1>3, CheckedView DEF Scan, QuietStep
<1>4. CASE Tick
  <2>1. ASSUME NEW i \in Slots
        PROVE  LET t == sessions'[i] s == sessions[i]
               IN  /\ t.state = s.state /\ t.source = s.source
                   /\ t.address = s.address /\ t.max_seq = s.max_seq /\ t.mask = s.mask
                   /\ t.buffer = s.buffer /\ t.last_blk_size = s.last_blk_size /\ t.done = s.done
    BY <1>1, <1>4 DEF Tick, Session
  <2>2. UNCHANGED data /\ sent' = {}
    BY <1>4 DEF Tick
  <2> QED BY <1>1, <2>1, <2>2 DEF QuietStep, SameView, View, Sound, FullMask
<1> QED BY <1>2, <1>3, <1>4

-----------------------------------------------------------------------------
(* The task implements the service: steps                                  *)

\* TransferOf, for any table of sessions.
Owns(table, i, src) == table[i].source = src /\ table[i].state # "idle"
TransferIn(table, src) ==
  IF \E i \in Slots : Owns(table, i, src)
  THEN View(table[CHOOSE i \in Slots : Owns(table, i, src)])
  ELSE [phase |-> "none"]

Unique(table) ==
  \A i, j \in Slots :
    table[i].state # "idle" /\ table[j].state # "idle" /\ table[i].source = table[j].source => i = j

Seen(phase, address, last, blocks) ==
  [phase |-> phase, address |-> address, last |-> last, blocks |-> blocks]

LEMMA ViewPhase == \A s : View(s).phase \in {"receiving", "stored"}
BY DEF View

LEMMA TransferAt ==
  ASSUME NEW src
  PROVE  TransferOf(src) = TransferIn(sessions, src) /\ TransferOf(src)' = TransferIn(sessions', src)
BY DEF TransferOf, TransferIn, HasSession, Matches, Active, View, Owns

LEMMA OwnedView ==
  ASSUME NEW table, Unique(table), NEW i \in Slots, NEW src, Owns(table, i, src)
  PROVE  TransferIn(table, src) = View(table[i])
<1>1. \A j \in Slots : Owns(table, j, src) => j = i
  BY DEF Unique, Owns
<1>2. (CHOOSE j \in Slots : Owns(table, j, src)) = i
  BY <1>1
<1> QED BY <1>2 DEF TransferIn

LEMMA NotOwned ==
  ASSUME NEW table, NEW src, \A i \in Slots : ~Owns(table, i, src)
  PROVE  TransferIn(table, src) = [phase |-> "none"]
BY DEF TransferIn

\* The transfers of the service, before and after a step.
Transfers == [src \in Sources |-> TransferOf(src)]

LEMMA TransfersNext == Transfers' = [src \in Sources |-> TransferIn(sessions', src)]
BY TransferAt DEF Transfers

\* Two tables that differ in what one node owns.
LEMMA OneOwner ==
  ASSUME NEW table, NEW other, Unique(table), Unique(other), NEW i \in Slots, NEW owner,
         \A j \in Slots \ {i} : other[j] = table[j],
         table[i].state # "idle" => table[i].source = owner,
         other[i].state # "idle" => other[i].source = owner,
         NEW src, src # owner
  PROVE  TransferIn(other, src) = TransferIn(table, src)
<1>1. \A j \in Slots : Owns(other, j, src) <=> Owns(table, j, src)
  BY DEF Owns
<1>2. CASE \E j \in Slots : Owns(table, j, src)
  <2>1. PICK j \in Slots : Owns(table, j, src)
    BY <1>2
  <2>2. j # i
    BY <2>1 DEF Owns
  <2> QED BY <1>1, <2>1, <2>2, OwnedView
<1>3. CASE ~\E j \in Slots : Owns(table, j, src)
  BY <1>1, <1>3, NotOwned
<1> QED BY <1>2, <1>3

\* A session that goes on, or is opened, changes the transfer of its node.
LEMMA OwnerChanged ==
  ASSUME TypeOK, OneSessionPerSource, OneSessionPerSource', NEW i \in Slots, NEW src \in Sources,
         NEW t, sessions' = [sessions EXCEPT ![i] = t],
         Matches(i, src) \/ (~HasSession(src) /\ ~Active(i)),
         t.state # "idle" => t.source = src
  PROVE  Transfers' = [Transfers EXCEPT ![src] = IF t.state = "idle" THEN [phase |-> "none"] ELSE View(t)]
<1> DEFINE after == sessions'
<1>1. Unique(sessions) /\ Unique(after)
  BY DEF OneSessionPerSource, Unique, Active
<1>2. after[i] = t /\ \A j \in Slots \ {i} : after[j] = sessions[j]
  BY DEF TypeOK
<1>6. Transfers' = [other \in Sources |-> TransferIn(after, other)]
  BY TransfersNext
<1> HIDE DEF after
<1>3. \A other \in Sources : other # src => TransferIn(after, other) = TransferIn(sessions, other)
  <2>1. sessions[i].state # "idle" => sessions[i].source = src
    BY DEF Matches, Active
  <2>2. after[i].state # "idle" => after[i].source = src
    BY <1>2
  <2> QED BY <1>1, <1>2, <2>1, <2>2, OneOwner
<1>4. \A j \in Slots \ {i} : ~Owns(sessions, j, src)
  BY <1>1 DEF Matches, HasSession, Active, Owns, Unique
<1>5. TransferIn(after, src) = IF t.state = "idle" THEN [phase |-> "none"] ELSE View(t)
  <2>1. CASE t.state = "idle"
    <3>1. \A j \in Slots : ~Owns(after, j, src)
      BY <1>2, <1>4, <2>1 DEF Owns
    <3> QED BY <2>1, <3>1, NotOwned
  <2>2. CASE t.state # "idle"
    <3>1. Owns(after, i, src)
      BY <1>2, <2>2 DEF Owns
    <3> QED BY <1>1, <1>2, <2>2, <3>1, OwnedView
  <2> QED BY <2>1, <2>2
<1> QED BY <1>3, <1>5, <1>6, TransferAt DEF Transfers

\* What a session of a node is to the service.
LEMMA TransferSeen ==
  ASSUME TypeOK, OneSessionPerSource, NEW i \in Slots, NEW src \in Sources, Matches(i, src)
  PROVE  Transfers[src] = View(sessions[i])
<1>1. Unique(sessions) /\ Owns(sessions, i, src)
  BY DEF OneSessionPerSource, Unique, Active, Owns, Matches
<1> QED BY <1>1, OwnedView, TransferAt DEF Transfers

LEMMA NoTransferSeen ==
  ASSUME NEW src \in Sources, ~HasSession(src)
  PROVE  Transfers[src] = [phase |-> "none"]
BY TransferAt, NotOwned DEF Transfers, HasSession, Matches, Active, Owns

\* A quiet step ends the transfers of the sessions that end.
LEMMA QuietExpires ==
  ASSUME TypeOK, OneSessionPerSource, OneSessionPerSource', QuietStep
  PROVE  \E closed \in SUBSET Service!OpenTransfers : Service!Expire(closed)
<1> DEFINE closed == {src \in Sources : HasSession(src) /\ ~HasSession(src)'}
<1>1. Unique(sessions) /\ Unique(sessions')
  BY DEF OneSessionPerSource, Unique, Active
<1>2. \A src \in Sources : HasSession(src) => Transfers[src].phase # "none"
  <2> SUFFICES ASSUME NEW src \in Sources, HasSession(src) PROVE Transfers[src].phase # "none"
    OBVIOUS
  <2>1. PICK i \in Slots : Matches(i, src)
    BY DEF HasSession
  <2> QED BY <2>1, TransferSeen, ViewPhase
<1>3. closed \in SUBSET Service!OpenTransfers
  BY <1>2 DEF Service!OpenTransfers, Service!IsOpen, Transfers
<1>4. ASSUME NEW src \in Sources
      PROVE  TransferIn(sessions', src) = IF src \in closed THEN [phase |-> "none"] ELSE Transfers[src]
  <2>1. HasSession(src) <=> \E i \in Slots : Owns(sessions, i, src)
    BY DEF HasSession, Matches, Active, Owns
  <2>2. HasSession(src)' <=> \E i \in Slots : Owns(sessions', i, src)
    BY DEF HasSession, Matches, Active, Owns
  <2>3. CASE \E i \in Slots : Owns(sessions', i, src)
    <3>1. PICK i \in Slots : Owns(sessions', i, src)
      BY <2>3
    <3>2. sessions[i].state # "idle" /\ SameView(sessions[i], sessions'[i])
      BY <3>1 DEF QuietStep, Owns
    <3>3. Owns(sessions, i, src) /\ View(sessions'[i]) = View(sessions[i])
      BY <3>1, <3>2 DEF SameView, Owns
    <3>4. TransferIn(sessions', src) = TransferIn(sessions, src)
      BY <1>1, <3>1, <3>3, OwnedView
    <3>5. src \notin closed
      BY <2>2, <2>3
    <3> QED BY <3>4, <3>5, TransferAt DEF Transfers
  <2>4. CASE ~\E i \in Slots : Owns(sessions', i, src)
    <3>1. TransferIn(sessions', src) = [phase |-> "none"]
      BY <2>4, NotOwned
    <3>2. src \notin closed => ~HasSession(src)
      BY <2>2, <2>4
    <3> HIDE DEF closed
    <3> QED BY <3>1, <3>2, NoTransferSeen
  <2> QED BY <2>3, <2>4
<1>5. Transfers' = [src \in Sources |-> IF src \in closed THEN [phase |-> "none"] ELSE Transfers[src]]
  BY <1>4, TransfersNext
<1> HIDE DEF closed
<1> QED BY <1>3, <1>5 DEF Service!Expire, Service!NoTransfer, QuietStep, Transfers

\* A frame that is refused changes no transfer.
LEMMA RefusedFrame ==
  ASSUME TypeOK, OneSessionPerSource, OneSessionPerSource', NEW src \in Sources,
         sent' = Nack(src), UNCHANGED data,
         \A i \in Slots : \/ sessions'[i] = sessions[i]
                          \/ sessions[i].state = "idle" /\ sessions'[i].state = "idle"
  PROVE  Service!RefuseFrame(src)
<1>1. Unique(sessions) /\ Unique(sessions')
  BY DEF OneSessionPerSource, Unique, Active
<1>2. ASSUME NEW other \in Sources
      PROVE  TransferIn(sessions', other) = TransferIn(sessions, other)
  <2>1. \A i \in Slots : Owns(sessions, i, other) <=> Owns(sessions', i, other)
    BY DEF Owns
  <2>2. CASE \E i \in Slots : Owns(sessions, i, other)
    <3>1. PICK i \in Slots : Owns(sessions, i, other)
      BY <2>2
    <3>2. sessions'[i] = sessions[i]
      BY <3>1 DEF Owns
    <3> QED BY <1>1, <2>1, <3>1, <3>2, OwnedView
  <2>3. CASE ~\E i \in Slots : Owns(sessions, i, other)
    BY <2>1, <2>3, NotOwned
  <2> QED BY <2>2, <2>3
<1>3. Transfers' = Transfers
  BY <1>2, TransfersNext, TransferAt DEF Transfers
<1> QED BY <1>3 DEF Service!RefuseFrame, Service!Answer, Nack, Transfers

LEMMA SameCardinality == \A S : Service!Cardinality(S) = Cardinality(S)
BY DEF Service!Cardinality, Cardinality

\* No address a request names is so close to the end of ADDRESS_TYPE that
\* adding the longest transfer wraps.
NoWrap == \A a \in Addresses : a + (MaxSeq + 1) * BlockLen < ADDRESS_MOD

\* Without a wrap the validation of a request bounds the transfer.
LEMMA ValidatedFits ==
  ASSUME NoWrap, NEW address \in Addresses, NEW seq \in 0..MaxSeq,
         NEW length, RequestOK(seq, length, address)
  PROVE  address + (seq + 1) * BlockLen <= MEM_SIZE
<1>1. \A m, n, k \in Nat : m <= n => m * k <= n * k /\ m * k \in Nat
  BY Z3
<1>2. seq + 1 \in Nat /\ MaxSeq + 1 \in Nat /\ seq + 1 <= MaxSeq + 1 /\ BlockLen \in Nat
  BY SizesAssumption
<1>3. (seq + 1) * BlockLen <= (MaxSeq + 1) * BlockLen /\ (seq + 1) * BlockLen \in Nat
      /\ (MaxSeq + 1) * BlockLen \in Nat
  BY <1>1, <1>2
<1> DEFINE size == (seq + 1) * BlockLen
           longest == (MaxSeq + 1) * BlockLen
<1>4. address \in Nat /\ address + longest < ADDRESS_MOD
  BY SizesAssumption DEF NoWrap
<1>5. (address + size) % ADDRESS_MOD <= MEM_SIZE
  BY DEF RequestOK, cants_validate_write_address
<1> HIDE DEF size, longest
<1>6. size \in Nat /\ longest \in Nat /\ size <= longest
  BY <1>3 DEF size, longest
<1>7. address + size \in 0..(ADDRESS_MOD - 1)
  BY <1>4, <1>6, SizesAssumption
<1>8. (address + size) % ADDRESS_MOD = address + size
  BY <1>7, SizesAssumption
<1> QED BY <1>5, <1>8 DEF size

\* A request that is accepted opens a transfer.
LEMMA AcceptOpens ==
  ASSUME NoWrap, TypeOK, OneSessionPerSource, OneSessionPerSource',
         NEW src \in Sources, NEW seq \in 0..MaxSeq, NEW length \in 0..BlockLen,
         NEW address \in Addresses, ~HasSession(src), AcceptRequest(src, seq, length, address)
  PROVE  \E a \in 0..(MEM_SIZE - 1), last \in 0..MaxSeq : Service!Open(src, a, last)
<1>1. PICK i \in Slots :
        /\ IsNewSlot(i)
        /\ Valid(i, [sessions[i] EXCEPT !.address = address, !.source = src,
                       !.max_seq = seq, !.mask = {}, !.state = "receiving"])
  BY DEF AcceptRequest
<1> DEFINE s == [sessions[i] EXCEPT !.address = address, !.source = src,
                   !.max_seq = seq, !.mask = {}, !.state = "receiving"]
           t == ResetTimeout(s)
<1>2. sessions[i] \in Session /\ address \in 0..(ADDRESS_MOD - 1)
  BY SizesAssumption DEF TypeOK
<1>3. /\ s \in Session /\ s.state = "receiving" /\ s.source = src /\ s.address = address
      /\ s.max_seq = seq /\ s.mask = {}
  BY <1>2, OpenedType DEF Session
<1>4. sessions' = [sessions EXCEPT ![i] = t]
  BY <1>1 DEF Valid
<1> HIDE DEF s
<1>5. /\ t.state = "receiving" /\ t.source = src /\ t.address = address
      /\ t.max_seq = seq /\ t.mask = {}
  BY <1>3 DEF ResetTimeout, Session
<1> HIDE DEF t
<1>6. View(t) = Service!Opened(address, seq)
  <2>1. [q \in {} |-> t.buffer[q]] = <<>>
    OBVIOUS
  <2> QED BY <1>5, <2>1 DEF View, Service!Opened
<1>7. Transfers' = [Transfers EXCEPT ![src] = View(t)]
  BY <1>1, <1>4, <1>5, OwnerChanged DEF IsNewSlot
<1>8. address + (seq + 1) * BlockLen <= MEM_SIZE
  BY ValidatedFits DEF AcceptRequest
<1>9. address \in 0..(MEM_SIZE - 1)
  <2>1. (seq + 1) * BlockLen >= 1 /\ (seq + 1) * BlockLen \in Int
    <3>1. \A m, n \in Nat \ {0} : m * n >= 1 /\ m * n \in Int
      BY Z3
    <3>2. seq + 1 \in Nat \ {0} /\ BlockLen \in Nat \ {0}
      BY SizesAssumption
    <3> QED BY <3>1, <3>2
  <2> DEFINE size == (seq + 1) * BlockLen
  <2>2. size >= 1 /\ size \in Int /\ address + size <= MEM_SIZE
    BY <1>8, <2>1
  <2> HIDE DEF size
  <2> QED BY <1>2, <2>2, SizesAssumption
<1>10. Cardinality(Service!OpenTransfers) < MAX_SB_SESSIONS
  <2> DEFINE active == {j \in Slots : Active(j)}
             owners == {sessions[j].source : j \in active}
             open == Service!OpenTransfers
  <2>1. IsFiniteSet(Slots) /\ Cardinality(Slots) = MAX_SB_SESSIONS
    <3>1. MAX_SB_SESSIONS \in Nat
      BY SizesAssumption
    <3> QED BY <3>1, FS_Interval DEF Slots
  <2>2. active \subseteq Slots \ {i}
    BY <1>1 DEF IsNewSlot
  <2>3. IsFiniteSet(Slots \ {i}) /\ Cardinality(Slots \ {i}) = MAX_SB_SESSIONS - 1
    BY <2>1, FS_RemoveElement
  <2>4. IsFiniteSet(active) /\ Cardinality(active) <= MAX_SB_SESSIONS - 1
    BY <2>2, <2>3, FS_Subset
  <2>5. open \subseteq owners
    <3> SUFFICES ASSUME NEW other \in open PROVE other \in owners
      OBVIOUS
    <3>1. other \in Sources /\ Transfers[other].phase # "none"
      BY DEF Service!OpenTransfers, Service!IsOpen, Transfers
    <3>2. HasSession(other)
      BY <3>1, NoTransferSeen
    <3> QED BY <3>2 DEF HasSession, Matches
  <2>6. IsFiniteSet(owners) /\ Cardinality(owners) <= Cardinality(active)
    <3> DEFINE f == [j \in active |-> sessions[j].source]
    <3>1. f \in Surjection(active, owners)
      BY DEF Surjection
    <3> HIDE DEF active, owners, f
    <3> QED BY <2>4, <3>1, FS_Surjection
  <2> HIDE DEF open, owners, active
  <2>7. IsFiniteSet(open) /\ Cardinality(open) <= Cardinality(owners)
    BY <2>5, <2>6, FS_Subset
  <2>8. Cardinality(open) \in Nat /\ Cardinality(owners) \in Nat /\ Cardinality(active) \in Nat
    BY <2>4, <2>6, <2>7, FS_CardinalityType
  <2> QED BY <2>4, <2>6, <2>7, <2>8, SizesAssumption DEF open
<1>11. Transfers[src] = [phase |-> "none"]
  BY NoTransferSeen
<1>12. Service!Open(src, address, seq)
  BY <1>6, <1>7, <1>8, <1>10, <1>11, SameCardinality
     DEF Service!Open, Service!IsOpen, Service!Answer, AcceptRequest, Ack, Transfers
<1> QED BY <1>9, <1>12

\* An abort packet cancels a transfer.
LEMMA AbortCancels ==
  ASSUME TypeOK, OneSessionPerSource, OneSessionPerSource', NEW src \in Sources, Abort(src, 0)
  PROVE  Service!Cancel(src)
<1>1. PICK i \in Slots : /\ IsSessionOf(i, src)
                         /\ Valid(i, [sessions[i] EXCEPT !.state = "idle"])
                         /\ sent' = Ack(src) /\ UNCHANGED data
  BY DEF Abort
<1> DEFINE s == [sessions[i] EXCEPT !.state = "idle"]
           t == ResetTimeout(s)
<1>2. s \in Session /\ s.state = "idle"
  BY SlotType, AbortedType
<1>3. sessions' = [sessions EXCEPT ![i] = t]
  BY <1>1 DEF Valid
<1> HIDE DEF s
<1>4. t.state = "idle"
  BY <1>2, ResetTimeoutType
<1> HIDE DEF t
<1>5. Matches(i, src)
  BY <1>1 DEF IsSessionOf
<1>6. Transfers' = [Transfers EXCEPT ![src] = [phase |-> "none"]]
  BY <1>3, <1>4, <1>5, OwnerChanged
<1>7. Transfers[src].phase # "none"
  BY <1>5, TransferSeen, ViewPhase
<1> QED BY <1>1, <1>6, <1>7
        DEF Service!Cancel, Service!IsOpen, Service!NoTransfer, Service!Answer, Ack, Transfers

\* A status packet is answered with what has been received.
LEMMA StatusInforms ==
  ASSUME TypeOK, OneSessionPerSource, OneSessionPerSource', AllSound,
         NEW src \in Sources, Status(src, 0)
  PROVE  Service!Inform(src)
<1>1. PICK i \in Slots : /\ IsSessionOf(i, src)
                         /\ Valid(i, sessions[i])
                         /\ sent' = Report(sessions[i]) /\ UNCHANGED data
  BY DEF Status
<1> DEFINE s == sessions[i]
           t == ResetTimeout(s)
<1>2. s \in Session /\ Matches(i, src) /\ s.source = src /\ Sound(s) /\ s.state # "idle"
  BY <1>1, SlotType DEF IsSessionOf, Matches, AllSound, Active
<1>3. sessions' = [sessions EXCEPT ![i] = t]
  BY <1>1 DEF Valid
<1>4. Transfers[src] = View(s)
  BY <1>2, TransferSeen
<1> HIDE DEF s
<1>6. t.state = s.state /\ t.source = s.source /\ View(t) = View(s)
  BY <1>2 DEF ResetTimeout, Session, View
<1> HIDE DEF t
<1>7. Transfers' = [Transfers EXCEPT ![src] = View(s)]
  <2>1. t.state # "idle" /\ t.source = src
    BY <1>2, <1>6
  <2>2. Transfers' = [Transfers EXCEPT ![src] = IF t.state = "idle" THEN [phase |-> "none"] ELSE View(t)]
    BY <1>2, <1>3, <2>1, OwnerChanged
  <2> QED BY <1>6, <2>1, <2>2
<1>8. Transfers' = Transfers
  BY <1>4, <1>7 DEF Transfers
<1>9. Transfers[src].phase # "none" /\ DOMAIN Transfers[src].blocks = s.mask
  BY <1>4, ViewPhase DEF View
<1>10. (s.state = "done" \/ (s.state = "writing" /\ s.done)) = (Transfers[src].phase = "stored")
  <2>1. s.state \in {"receiving", "writing", "done"} /\ (s.state = "writing" => s.done)
    BY <1>2 DEF Session, SbState, Sound
  <2>2. Transfers[src].phase = IF s.state = "receiving" THEN "receiving" ELSE "stored"
    BY <1>4 DEF View
  <2> QED BY <2>1, <2>2
<1>11. sent' = Service!Answer(src, "report", Transfers[src].phase = "stored", DOMAIN Transfers[src].blocks)
  BY <1>1, <1>2, <1>9, <1>10, Zenon DEF Report, Service!Answer, s
<1> QED BY <1>1, <1>8, <1>9, <1>11 DEF Service!Inform, Service!IsOpen, Transfers

\* A block that arrives for a transfer in progress is kept in it, and the last
\* one that was missing is stored with the others.
LEMMA TransferStores ==
  ASSUME ~AsyncWrite, TypeOK, OneSessionPerSource, OneSessionPerSource', AllSound,
         NEW src \in Sources, NEW seq \in 0..MaxSeq, NEW length \in 0..BlockLen,
         NEW payload \in Payloads, NEW i \in Slots, Matches(i, src),
         TransferOK(sessions[i], seq, length),
         StoreBlock(i, Received(sessions[i], seq, length, payload)), sent' = {}
  PROVE  \/ Service!Collect(src, seq, payload)
         \/ \E tail \in 1..BlockLen : Service!Complete(src, seq, payload, tail)
<1> DEFINE old == sessions[i]
           s == Received(old, seq, length, payload)
           blocks == [q \in s.mask |-> s.buffer[q]]
<1>1. /\ old \in Session /\ old.state = "receiving" /\ old.source = src /\ Sound(old)
      /\ Transfers[src] = View(old)
  BY SlotType, TransferSeen DEF TransferOK, Matches, AllSound
<1>2. /\ s \in Session /\ s.source = src /\ s.state = "receiving"
      /\ s.address = old.address /\ s.max_seq = old.max_seq
      /\ Sound(s) /\ s.mask = old.mask \cup {seq} /\ s.buffer = [old.buffer EXCEPT ![seq] = payload]
  BY <1>1, ReceivedType, ReceivedSound
<1>3. StoreBlock(i, s)
  OBVIOUS
<1> HIDE DEF old, s
<1>4. /\ old.mask \subseteq 0..MaxSeq /\ old.buffer \in [0..MaxSeq -> Payloads \cup {Blank}]
      /\ s.max_seq \in Nat /\ s.last_blk_size \in Nat /\ s.last_blk_size <= BlockLen
      /\ s.address \in Nat /\ BlockLen \in Nat \ {0} /\ s.mask \subseteq 0..s.max_seq
  BY <1>1, <1>2, SizesAssumption DEF Session, Sound, FullMask
<1>5. /\ Transfers[src].phase = "receiving" /\ Transfers[src].address = s.address
      /\ Transfers[src].last = s.max_seq
      /\ Transfers[src].blocks = [q \in old.mask |-> old.buffer[q]]
  BY <1>1, <1>2 DEF View
<1>6. Service!WithBlock(Transfers[src], seq, payload) = blocks
  <2>1. DOMAIN Transfers[src].blocks \cup {seq} = s.mask
    BY <1>2, <1>5
  <2>2. \A q \in s.mask : s.buffer[q] = IF q = seq THEN payload ELSE Transfers[src].blocks[q]
    BY <1>2, <1>4, <1>5
  <2> QED BY <2>1, <2>2 DEF Service!WithBlock
<1>7. DOMAIN blocks = s.mask
  OBVIOUS
<1>8. /\ View(s) = [Transfers[src] EXCEPT !.blocks = blocks]
      /\ \A t \in Session : t.state = "writing" /\ t.address = s.address /\ t.max_seq = s.max_seq
                            /\ t.mask = s.mask /\ t.buffer = s.buffer =>
           View(t) = [Transfers[src] EXCEPT !.blocks = blocks, !.phase = "stored"]
  <2> DEFINE before == [q \in old.mask |-> old.buffer[q]]
  <2>1. Transfers[src] = Seen("receiving", s.address, s.max_seq, before)
    BY <1>1, <1>2 DEF View, Seen
  <2>2. View(s) = Seen("receiving", s.address, s.max_seq, blocks)
    BY <1>2 DEF View, Seen
  <2>3. \A t \in Session : t.state = "writing" /\ t.address = s.address /\ t.max_seq = s.max_seq
                           /\ t.mask = s.mask /\ t.buffer = s.buffer =>
          View(t) = Seen("stored", s.address, s.max_seq, blocks)
    BY DEF View, Seen
  <2> HIDE DEF before, blocks
  <2> DEFINE transfer == Transfers[src]
  <2>4. transfer = Seen("receiving", s.address, s.max_seq, before)
    BY <2>1
  <2> HIDE DEF transfer
  <2>5. /\ [transfer EXCEPT !.blocks = blocks] = Seen("receiving", s.address, s.max_seq, blocks)
        /\ [transfer EXCEPT !.blocks = blocks, !.phase = "stored"]
             = Seen("stored", s.address, s.max_seq, blocks)
    <3> DEFINE updated == [transfer EXCEPT !.blocks = blocks]
    <3>1. updated = Seen("receiving", s.address, s.max_seq, blocks)
      BY <2>4 DEF Seen
    <3>2. [transfer EXCEPT !.blocks = blocks, !.phase = "stored"] = [updated EXCEPT !.phase = "stored"]
      OBVIOUS
    <3> HIDE DEF updated
    <3>3. [updated EXCEPT !.phase = "stored"] = Seen("stored", s.address, s.max_seq, blocks)
      BY <3>1 DEF Seen
    <3> QED BY <3>1, <3>2, <3>3 DEF updated
  <2>6. /\ View(s) = [transfer EXCEPT !.blocks = blocks]
        /\ \A t \in Session : t.state = "writing" /\ t.address = s.address /\ t.max_seq = s.max_seq
                              /\ t.mask = s.mask /\ t.buffer = s.buffer =>
             View(t) = [transfer EXCEPT !.blocks = blocks, !.phase = "stored"]
    BY <2>2, <2>3, <2>5, Zenon
  <2> QED BY <2>6 DEF transfer
<1>9. FullyReceived(s) <=> DOMAIN blocks = 0..s.max_seq
  BY <1>7 DEF FullyReceived, FullMask
<1>10. CASE ~FullyReceived(s)
  <2> DEFINE t == ResetTimeout(s)
  <2>1. sessions' = [sessions EXCEPT ![i] = t] /\ UNCHANGED data
    BY <1>3, <1>10 DEF StoreBlock, Valid
  <2>2. t.state = "receiving" /\ t.source = src /\ View(t) = View(s)
    BY <1>2 DEF ResetTimeout, Session, View
  <2> HIDE DEF t
  <2>3. Transfers' = [Transfers EXCEPT ![src] = View(s)]
    <3>1. t.state # "idle" /\ t.source = src
      BY <2>2
    <3>2. Transfers' = [Transfers EXCEPT ![src] = IF t.state = "idle" THEN [phase |-> "none"] ELSE View(t)]
      BY <2>1, <3>1, OwnerChanged
    <3> QED BY <2>2, <3>1, <3>2
  <2> HIDE DEF blocks
  <2>4. Transfers' = [Transfers EXCEPT ![src].blocks = blocks]
    BY <1>8, <2>3
  <2>5. DOMAIN blocks \subseteq 0..Transfers[src].last /\ DOMAIN blocks # 0..Transfers[src].last
    BY <1>4, <1>5, <1>7, <1>9, <1>10
  <2>6. Service!Collect(src, seq, payload)
    BY <1>5, <1>6, <2>1, <2>4, <2>5 DEF Service!Collect, Transfers
  <2> QED BY <2>6
<1>11. CASE FullyReceived(s)
  <2> DEFINE w == [s EXCEPT !.done = ~AsyncWrite, !.state = "writing"]
             t == ResetTimeout(w)
             tail == s.last_blk_size
             size == s.max_seq * BlockLen + tail
  <2>1. /\ sessions' = [sessions EXCEPT ![i] = t]
        /\ data' = Written(s.address, size, s.buffer)
    BY <1>3, <1>11 DEF StoreBlock, Valid, WriteHandler
  <2>2. /\ w \in Session /\ w.state = "writing" /\ w.source = src /\ w.address = s.address
        /\ w.max_seq = s.max_seq /\ w.mask = s.mask /\ w.buffer = s.buffer
    BY <1>2 DEF Session, SbState
  <2> HIDE DEF w
  <2>3. /\ t \in Session /\ t.state = "writing" /\ t.source = src /\ t.address = s.address
        /\ t.max_seq = s.max_seq /\ t.mask = s.mask /\ t.buffer = s.buffer
    <3>1. t \in Session
      BY <2>2, ResetTimeoutType
    <3> QED BY <2>2, <3>1 DEF ResetTimeout, Session
  <2> HIDE DEF t
  <2>4. Transfers' = [Transfers EXCEPT ![src] = View(t)]
    <3>1. Transfers' = [Transfers EXCEPT ![src] = IF t.state = "idle" THEN [phase |-> "none"] ELSE View(t)]
      BY <2>1, <2>3, OwnerChanged
    <3> QED BY <2>3, <3>1
  <2>5. View(t) = [Transfers[src] EXCEPT !.blocks = blocks, !.phase = "stored"]
    BY <1>8, <2>3
  <2>6. tail \in 1..BlockLen
    <3>1. s.max_seq \in s.mask
      BY <1>4, <1>7, <1>9, <1>11
    <3> QED BY <1>2, <1>4, <3>1 DEF Sound
  <2>7. ASSUME NEW c \in 0..(MEM_SIZE - 1), s.address <= c, c < s.address + size
        PROVE  s.buffer[(c - s.address) \div BlockLen] = blocks[(c - s.address) \div BlockLen]
    <3>1. s.max_seq * BlockLen \in Nat
      <4>1. \A m, n \in Nat : m * n \in Nat
        BY Z3
      <4> QED BY <1>4, <4>1
    <3>2. (s.max_seq + 1) * BlockLen = s.max_seq * BlockLen + BlockLen
      BY <1>4
    <3> DEFINE whole == s.max_seq * BlockLen
    <3>3. c - s.address \in Nat /\ c - s.address < whole + BlockLen
      <4>1. whole \in Nat /\ tail \in Nat /\ tail <= BlockLen /\ c \in Nat /\ size = whole + tail
        BY <1>4, <3>1, SizesAssumption
      <4> HIDE DEF whole, tail, size
      <4> QED BY <1>4, <2>7, <4>1
    <3>4. (c - s.address) \div BlockLen \in 0..s.max_seq
      BY <1>4, <3>2, <3>3, DivBound
    <3> QED BY <1>9, <1>11, <3>4
  <2>8. data' = [c \in 0..(MEM_SIZE - 1) |->
                   IF s.address <= c /\ c < s.address + size
                   THEN blocks[(c - s.address) \div BlockLen] ELSE data[c]]
    BY <2>1, <2>7 DEF Written
  <2>9. Transfers' = [Transfers EXCEPT ![src].blocks = blocks, ![src].phase = "stored"]
    <3> HIDE DEF blocks
    <3> QED BY <2>4, <2>5 DEF Transfers
  <2>10. s.address + size = s.address + s.max_seq * BlockLen + tail
    <3>1. s.max_seq * BlockLen \in Nat
      <4>1. \A m, n \in Nat : m * n \in Nat
        BY Z3
      <4> QED BY <1>4, <4>1
    <3> DEFINE whole == s.max_seq * BlockLen
    <3> HIDE DEF whole
    <3> QED BY <1>4, <3>1 DEF whole
  <2> HIDE DEF blocks, tail, size
  <2>11. Service!Complete(src, seq, payload, tail)
    BY <1>5, <1>6, <1>7, <1>9, <1>11, <2>8, <2>9, <2>10 DEF Service!Complete, Transfers
  <2> QED BY <2>6, <2>11
<1> QED BY <1>10, <1>11

\* Every frame is a step of the service.
LEMMA FrameServes ==
  ASSUME ~AsyncWrite, NoWrap, TypeOK, OneSessionPerSource, OneSessionPerSource', AllSound, FrameIn
  PROVE  Service!Next
<1>1. ASSUME NEW src \in Sources, NEW isRequest \in BOOLEAN, Mismatch(src, isRequest)
      PROVE  Service!RefuseFrame(src)
  BY <1>1, RefusedFrame DEF Mismatch
<1>2. ASSUME NEW src \in Sources, Refuse(src)
      PROVE  Service!RefuseFrame(src)
  BY <1>2, RefusedFrame DEF Refuse
<1>3. ASSUME NEW src \in Sources, NEW seq \in 0..MaxSeq,
             NEW length \in 0..BlockLen, NEW address \in Addresses,
             Request(src, seq, length, address)
      PROVE  \/ \E a \in 0..(MEM_SIZE - 1), last \in 0..MaxSeq : Service!Open(src, a, last)
             \/ Service!RefuseFrame(src)
  <2>1. CASE AcceptRequest(src, seq, length, address)
    BY <1>3, <2>1, AcceptOpens DEF Request
  <2>2. CASE RefuseRequest(src, seq, length, address)
    <3>1. \A i \in Slots : \/ sessions'[i] = sessions[i]
                           \/ sessions[i].state = "idle" /\ sessions'[i].state = "idle"
      <4>1. CASE UNCHANGED sessions
        BY <4>1
      <4>2. CASE \E i \in Slots : /\ IsNewSlot(i)
                                 /\ sessions' = [sessions EXCEPT ![i].address = address]
        <5>1. PICK i \in Slots : /\ ~Active(i)
                                 /\ sessions' = [sessions EXCEPT ![i].address = address]
          BY <4>2 DEF IsNewSlot
        <5>2. sessions'[i].state = sessions[i].state
          BY <5>1, AddressOnly DEF TypeOK
        <5>3. \A j \in Slots \ {i} : sessions'[j] = sessions[j]
          BY <5>1 DEF TypeOK
        <5> QED BY <5>1, <5>2, <5>3 DEF Active
      <4> QED BY <2>2, <4>1, <4>2 DEF RefuseRequest
    <3>2. sent' = Nack(src) /\ UNCHANGED data
      BY <2>2 DEF RefuseRequest
    <3> QED BY <3>1, <3>2, RefusedFrame
  <2> QED BY <1>3, <2>1, <2>2 DEF Request
<1>4. ASSUME NEW src \in Sources, NEW seq \in 0..MaxSeq,
             NEW length \in 0..BlockLen, NEW payload \in Payloads,
             Transfer(src, seq, length, payload)
      PROVE  \/ Service!Collect(src, seq, payload)
             \/ \E tail \in 1..BlockLen : Service!Complete(src, seq, payload, tail)
             \/ Service!RefuseFrame(src)
  <2>1. PICK i \in Slots :
          /\ IsSessionOf(i, src)
          /\ IF TransferOK(sessions[i], seq, length)
             THEN /\ StoreBlock(i, Received(sessions[i], seq, length, payload))
                  /\ sent' = {}
             ELSE Refuse(src)
    BY <1>4 DEF Transfer
  <2>2. CASE ~TransferOK(sessions[i], seq, length)
    BY <1>2, <2>1, <2>2
  <2>3. CASE TransferOK(sessions[i], seq, length)
    BY <2>1, <2>3, TransferStores DEF IsSessionOf
  <2> QED BY <2>2, <2>3
<1>5. ASSUME NEW src \in Sources, NEW length \in {0, 1}, Abort(src, length)
      PROVE  Service!Cancel(src) \/ Service!RefuseFrame(src)
  <2>1. CASE length # 0
    BY <1>2, <1>5, <2>1 DEF Abort
  <2>2. CASE length = 0
    BY <1>5, <2>2, AbortCancels
  <2> QED BY <2>1, <2>2
<1>6. ASSUME NEW src \in Sources, NEW length \in {0, 1}, Status(src, length)
      PROVE  Service!Inform(src) \/ Service!RefuseFrame(src)
  <2>1. CASE length # 0
    BY <1>2, <1>6, <2>1 DEF Status
  <2>2. CASE length = 0
    BY <1>6, <2>2, StatusInforms
  <2> QED BY <2>1, <2>2
<1>7. ASSUME NEW src \in Sources, OtherFrame(src)
      PROVE  Service!RefuseFrame(src)
  BY <1>2, <1>7 DEF OtherFrame
<1> QED BY <1>1, <1>3, <1>4, <1>5, <1>6, <1>7, Zenon DEF FrameIn, Service!Next

\* With the write handler of block_handler.c, and addresses that do not wrap, the
\* task with its slots, buffers and timers is the service of SetBlockService: what
\* an initiator is told is true of its transfer, and memory changes only when a
\* transfer is complete, to what was sent.
THEOREM ServiceImplemented ==
  ASSUME ~AsyncWrite, NoWrap
  PROVE  Spec => ImplementsService
<1> DEFINE AllStored == AllSound /\ jobs = {}
           Inv == TypeOK /\ OneSessionPerSource /\ AllStored
<1>1. Init => AllStored
  BY DEF Init, AllSound, Active
<1>2. TypeOK /\ AllStored /\ [Next]_vars => AllStored'
  <2> SUFFICES ASSUME TypeOK, AllSound, jobs = {}, [Next]_vars PROVE AllSound' /\ jobs' = {}
    OBVIOUS
  <2>1. CASE FrameIn
    <3>1. jobs' = {}
      BY <2>1, StoredJobs
    <3> QED BY <2>1, <3>1, FrameSound
  <2>2. CASE ReceiveTimeout \/ Scan \/ Tick
    <3>1. QuietStep /\ jobs' = {}
      BY <2>2, QuietSteps DEF ReceiveTimeout, Scan, Tick
    <3> QED BY <3>1 DEF QuietStep, AllSound, Active, Sound, FullMask
  <2>3. CASE UNCHANGED vars
    BY <2>3 DEF vars, AllSound, Active, Sound, FullMask
  <2> QED BY <2>1, <2>2, <2>3 DEF Next
<1>3. Init => Service!Init
  <2> SUFFICES ASSUME Init PROVE Service!Init
    OBVIOUS
  <2>1. \A src \in Sources : ~HasSession(src)
    BY DEF Init, HasSession, Matches, Active
  <2>2. Transfers = [src \in Sources |-> [phase |-> "none"]]
    BY <2>1, NoTransferSeen DEF Transfers
  <2> QED BY <2>2 DEF Init, Service!Init, Service!NoTransfer, Transfers
<1>4. Inv /\ OneSessionPerSource' /\ [Next]_vars => [Service!Next]_(Service!serviceVars)
  <2> SUFFICES ASSUME Inv, OneSessionPerSource', [Next]_vars
               PROVE  Service!Next \/ UNCHANGED Service!serviceVars
    OBVIOUS
  <2>1. CASE FrameIn
    BY <2>1, FrameServes
  <2>2. CASE ReceiveTimeout \/ Scan \/ Tick
    <3>1. QuietStep
      BY <2>2, QuietSteps
    <3> QED BY <3>1, QuietExpires DEF Service!Next
  <2>3. CASE UNCHANGED vars
    <3>1. Transfers' = Transfers
      BY <2>3, TransfersNext, TransferAt DEF vars, Transfers
    <3> QED BY <2>3, <3>1 DEF vars, Service!serviceVars, Transfers
  <2> QED BY <2>1, <2>2, <2>3 DEF Next
<1> HIDE DEF AllStored
<1>5. Spec => []Inv
  BY <1>1, <1>2, TypeCorrect, UniqueSessions, PTL DEF Spec
<1>6. Spec => []OneSessionPerSource
  BY UniqueSessions
<1> HIDE DEF Inv
<1> QED BY <1>3, <1>4, <1>5, <1>6, PTL DEF Spec, ImplementsService, Service!Spec
=============================================================================
