------------------------------ MODULE CanFrame ------------------------------
(***************************************************************************)
(* A CAN-TS message on its way through the registers of two controllers    *)
(* (src/can/can.c, src/cants/utils.c): the identifier is packed, written   *)
(* to the transmit buffer, compared with the acceptance filter of the      *)
(* receiver, read from its receive buffer and unpacked.  Also the search   *)
(* for the bit timing.                                                     *)
(*                                                                         *)
(* Shifts and casts are divisions and remainders.  Bits 29 and 30 of a     *)
(* constructed identifier are free choices: cants_construct_id leaves them *)
(* uninitialized.  (Bit 31, which is treated alike, is outside TLC's       *)
(* integers.)                                                              *)
(***************************************************************************)
EXTENDS Integers

CONSTANTS
  Commands, Sources, Destinations,  \* values of the message fields to try
  Types,
  CANTS_NODE_ID, CANTS_KEEPALIVE_ID, CANTS_TIME_ID,
  FilterMask,                       \* what candrv_init_ctrl passes to the filter
  SOC_CLOCK,
  Rates, SamplePoints               \* arguments of can_set_baudrate to try

VARIABLES
  stage,      \* where the message is
  message,    \* the message to send
  wire,       \* bytes of the identifier in the transmit buffer
  parsed,     \* what the receiver's driver passes to the stack
  timing      \* result of can_set_baudrate, and its arguments

frameVars == <<stage, message, wire, parsed, timing>>

Message == [command : Commands, source : Sources, type : Types, destination : Destinations]
NoFields == [command |-> 0, source |-> 0, type |-> 0, destination |-> 0]

Shr(x, n) == x \div (2 ^ n)
Byte(x) == x % 256
Bit(x, n) == Shr(x, n) % 2

\* The fields are what their bits can hold, and the filter looks at no bit that is
\* set in an address the node serves (cants_config.h, candrv_init_ctrl).
ASSUME FrameAssumption ==
  /\ Commands \subseteq 0..1023 /\ Sources \subseteq 0..255
  /\ Types \subseteq 0..7 /\ Destinations \subseteq 0..255
  /\ FilterMask \in Nat /\ FilterMask % 2 ^ 21 = 0
  /\ \A id \in {CANTS_NODE_ID, CANTS_KEEPALIVE_ID, CANTS_TIME_ID} :
       /\ id \in 0..255
       /\ \A n \in 0..7 : Bit(Byte(Shr(FilterMask, 21)), n) = 1 => Bit(id, n) = 0

MaxBitRate == 1000000    \* that of CAN

\* For an earlier sampling point 25 quanta have too many behind it (TSEG2_MAX); at
\* 1000 there would be none.
ASSUME TimingAssumption ==
  SOC_CLOCK \in Nat /\ Rates \subseteq 1..MaxBitRate /\ SamplePoints \subseteq {0} \cup 680..999

-----------------------------------------------------------------------------
(* Identifiers                                                             *)

\* The bit fields of union id_convert, from the least significant bit.
cants_construct_id(in, stale) ==
  (in.command % 1024) + (in.source % 256) * 2 ^ 10 + (in.type % 8) * 2 ^ 18
    + (in.destination % 256) * 2 ^ 21 + stale * 2 ^ 29

cants_parse_id(id) ==
  [command |-> id % 1024, source |-> Shr(id, 10) % 256, type |-> Shr(id, 18) % 8,
   destination |-> Shr(id, 21) % 256]

\* can_send_packet: the four identifier bytes of an extended frame.
SentBytes(id) == <<Byte(Shr(id, 21)), Byte(Shr(id, 13)), Byte(Shr(id, 5)), (id % 32) * 8>>

\* Mutant: the bytes are shifted as they were written, with one bit lost.
ReceivedId_ShortShift(data) ==
  data[1] * 2 ^ 21 + data[2] * 2 ^ 13 + data[3] * 2 ^ 5 + Shr(data[4], 4)

\* can_recv_packet
ReceivedId(data) ==
  data[1] * 2 ^ 21 + data[2] * 2 ^ 13 + data[3] * 2 ^ 5 + Shr(data[4], 3)

-----------------------------------------------------------------------------
(* The acceptance filter                                                   *)

\* can_set_rx_filter for extended frames: code and mask registers.
FilterCode(id) == SentBytes(id)

FilterIgnore(mask) ==
  <<255 - Byte(Shr(mask, 21)), 255 - Byte(Shr(mask, 13)), 255 - Byte(Shr(mask, 5)),
    (31 - (mask % 32)) * 8 + 7>>

\* The controller compares every bit whose mask register bit is 0.
FilterPasses(data) ==
  \A k \in 1..4, n \in 0..7 :
    Bit(FilterIgnore(FilterMask)[k], n) = 0 => Bit(data[k], n) = Bit(FilterCode(0)[k], n)

\* What cants_dispatch_isr demands of the destination when it has to look itself.
Wanted(m) ==
  \/ m.destination = CANTS_NODE_ID
  \/ m.destination = CANTS_TIME_ID /\ m.type = 0
  \/ m.destination = CANTS_KEEPALIVE_ID /\ m.type = 1

-----------------------------------------------------------------------------
(* Bit timing                                                              *)

MaxError == 65535             \* UINT16_MAX, of the sampling point
MaxRateError == 2147483647    \* for UINT32_MAX, which is outside TLC's integers
NoTiming == [rate |-> 0, sp |-> 0, rateError |-> MaxRateError, spError |-> MaxError,
             choice |-> [brp |-> 0, tseg1 |-> 0, tseg2 |-> 0, sample |-> 0]]

Abs(x) == IF x < 0 THEN -x ELSE x
Clamp(x, low, high) == IF x < low THEN low ELSE IF x > high THEN high ELSE x

\* brp is a uint8_t, so the quotient is truncated before its range is checked.
Prescaler(rate, full) == Byte((SOC_CLOCK \div 2) \div (full * rate))
BitRate(brp, full) == IF brp = 0 THEN 0 ELSE (SOC_CLOCK \div 2) \div (brp * full)

\* abs() takes an int, which has 16 bits on this processor: of the difference the low
\* 16 bits count, as a signed number.  The absolute value of the lowest of them is
\* itself, as a uint32_t a number close to the highest.
Int16(x) == LET low == x % 65536 IN IF low < 32768 THEN low ELSE low - 65536
RateError(rate, bitrate) ==
  LET difference == Int16(rate - bitrate)
  IN  IF difference = -32768 THEN MaxRateError - 32767 ELSE Abs(difference)

QuantaError(rate, tseg) == RateError(rate, BitRate(Prescaler(rate, 1 + tseg), 1 + tseg))

\* TSEG2, rounded down and, with i = 1, up.
SplitAt(sp, full, i) == Clamp(Byte(full - (sp * full) \div 1000 - i), 1, 8)

\* The candidate for one number of quanta and one rounding.
Candidate(rate, sp, tseg, i) ==
  LET full  == 1 + tseg
      split == SplitAt(sp, full, i)
      tseg1 == IF tseg - split > 16 THEN 16 ELSE tseg - split
  IN  [brp |-> Prescaler(rate, full), tseg1 |-> tseg1, tseg2 |-> tseg - tseg1,
       sample |-> (1000 * (full - (tseg - tseg1))) \div full]

\* One rounding: taken if its sampling point is closer and not late.
TryRounding(rate, sp, best, tseg, i) ==
  LET c == Candidate(rate, sp, tseg, i)
  IN  IF c.sample <= sp /\ sp - c.sample < best.spError
      THEN [best EXCEPT !.spError = sp - c.sample, !.choice = c,
              !.rateError = QuantaError(rate, tseg)]
      ELSE best

\* Mutant: the sampling point error of a worse bit rate is kept.
TryQuanta_KeepsError(rate, sp, best, tseg) ==
  LET brp       == Prescaler(rate, 1 + tseg)
      rateError == QuantaError(rate, tseg)
  IN  IF brp \notin 1..64 \/ rateError > best.rateError
      THEN best
      ELSE TryRounding(rate, sp, TryRounding(rate, sp, best, tseg, 0), tseg, 1)

\* One pass of the loop: a lower bit rate error comes before the sampling point.
TryQuanta(rate, sp, best, tseg) ==
  LET brp       == Prescaler(rate, 1 + tseg)
      rateError == QuantaError(rate, tseg)
      fresh     == IF rateError < best.rateError THEN [best EXCEPT !.spError = MaxError]
                                                 ELSE best
  IN  IF (best.rateError = 0 /\ best.spError = 0) \/ brp \notin 1..64 \/ rateError > best.rateError
      THEN best
      ELSE TryRounding(rate, sp, TryRounding(rate, sp, fresh, tseg, 0), tseg, 1)

SamplePoint(sp) == IF sp = 0 THEN 875 ELSE sp

\* The best after n passes, from the highest number of quanta (TSEG1_MAX + TSEG2_MAX)
\* to the lowest.
can_set_baudrate(rate, sp) ==
  LET best[n \in 0..23] ==
        IF n = 0 THEN [NoTiming EXCEPT !.rate = rate, !.sp = SamplePoint(sp)]
        ELSE TryQuanta(rate, SamplePoint(sp), best[n - 1], 25 - n)
  IN  best[23]

-----------------------------------------------------------------------------

FrameInit ==
  /\ stage = "idle" /\ message \in Message
  /\ wire = <<0, 0, 0, 0>> /\ parsed = NoFields
  /\ timing = NoTiming

Transmit ==
  /\ stage = "idle" /\ stage' = "sent"
  /\ \E stale \in 0..3 : wire' = SentBytes(cants_construct_id(message, stale))
  /\ UNCHANGED <<message, parsed, timing>>

ReceiveFrame ==
  /\ stage = "sent"
  /\ IF FilterPasses(wire)
     THEN stage' = "received" /\ parsed' = cants_parse_id(ReceivedId(wire))
     ELSE stage' = "filtered" /\ UNCHANGED parsed
  /\ UNCHANGED <<message, wire, timing>>

SetBaudrate ==
  /\ stage = "idle" /\ timing.rate = 0
  /\ \E rate \in Rates, sp \in SamplePoints : timing' = can_set_baudrate(rate, sp)
  /\ UNCHANGED <<stage, message, wire, parsed>>

FrameNext == Transmit \/ ReceiveFrame \/ SetBaudrate

FrameSpec == FrameInit /\ [][FrameNext]_frameVars

-----------------------------------------------------------------------------
(* Properties                                                              *)

\* A message arrives with the fields it was sent with, whatever the stack left
\* in the unused bits of the identifier.
RoundTrip == stage = "received" => parsed = message

\* The acceptance filter lets every message through that cants_dispatch_isr
\* would take if it had to look itself.
FilterKeepsOurs == stage = "filtered" => ~Wanted(message)

\* The filter drops no message of this node, and what it lets through is parsed
\* into the fields it was built from.
MessagesArrive == RoundTrip /\ FilterKeepsOurs

\* The bit rate of the chosen registers.
ChosenRate == BitRate(timing.choice.brp, 1 + timing.choice.tseg1 + timing.choice.tseg2)

\* A number of quanta whose rate is wrong by a multiple of 2^16, which counts as exact.
Misleading(rate, full) ==
  /\ Prescaler(rate, full) \in 1..64
  /\ BitRate(Prescaler(rate, full), full) # rate
  /\ QuantaError(rate, full - 1) = 0

\* If some divider of the clock gives exactly the wanted bit rate, and no number of
\* quanta is misleading, the registers are set for just that rate, with values in
\* range and a sampling point that is not late.
ExactRateFound ==
  /\ timing.rate > 0
  /\ \E brp \in 1..64, full \in 3..25 : brp * full * timing.rate = SOC_CLOCK \div 2
  /\ ~ \E full \in 3..25 : Misleading(timing.rate, full)
  => /\ ChosenRate = timing.rate
     /\ timing.choice.tseg1 \in 1..16 /\ timing.choice.tseg2 \in 1..8
     /\ timing.choice.sample <= timing.sp
=============================================================================
