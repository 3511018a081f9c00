------------------------------ MODULE Telemetry ------------------------------
(***************************************************************************)
(* The telemetry task (src/cants/tctm.c).  It answers the requests in its  *)
(* queue and sends a keep-alive every `period' ticks, carrying the next    *)
(* channel of utm_ch_min..utm_ch_max that the application can read.  The   *)
(* keep-alive has no timer of its own: its period is the block time of the *)
(* task's xQueueReceive, shortened by xTaskCheckForTimeOut after each      *)
(* request.                                                                *)
(***************************************************************************)
EXTENDS Naturals, Sequences

CONSTANTS
  TM_QUEUE_LEN,
  Period,          \* config.period
  ChannelMod,      \* number of values of utm_ch (256)
  UtmMin, UtmMax,  \* config.utm_ch_min, config.utm_ch_max
  Channels         \* channels cants_telemetry_handler can read

\* The last assumption is the caller's duty: with no channel to send, or a wrap
\* of utm_ch below utm_ch_min, cants_send_keepalive leaves the range.
ASSUME TelemetryAssumption ==
  /\ TM_QUEUE_LEN \in Nat \ {0} /\ Period \in Nat \ {0} /\ ChannelMod \in Nat \ {0}
  /\ Channels \subseteq 0..(ChannelMod - 1)
  /\ UtmMin \in Nat /\ UtmMax \in Nat /\ UtmMin <= UtmMax /\ UtmMax < ChannelMod
  /\ Channels \cap (UtmMin..UtmMax) # {}
  /\ UtmMax = ChannelMod - 1 => UtmMin = 0

VARIABLES
  tm_queue,    \* requests: the channel, and whether the frame has no data
  utm_ch,
  tmPc,        \* where the task is in its loop
  wait_time,
  tmBlocked,   \* ticks the task has been blocked in this xQueueReceive
  tmAge,       \* ticks since `timeout' was set
  late,        \* whether time passes while the task is ready to run
  tmSent,      \* the frame of the last step, if any
  lastBeat,    \* history: channel of the last keep-alive
  sinceBeat    \* history: ticks since the last keep-alive, or the start

tmVars == <<tm_queue, utm_ch, tmPc, wait_time, tmBlocked, tmAge, late, tmSent,
            lastBeat, sinceBeat>>

TmRequest == [channel : 0..(ChannelMod - 1), empty : BOOLEAN]
NoChannel == ChannelMod
Nothing == [kind |-> "none"]

TmTypeOK ==
  /\ tm_queue \in Seq(TmRequest) /\ Len(tm_queue) <= TM_QUEUE_LEN
  /\ utm_ch \in UtmMin..UtmMax
  /\ tmPc \in {"recv", "check", "keepalive"}
  /\ wait_time \in 1..Period /\ tmBlocked \in 0..Period
  /\ tmAge \in 0..(Period + 1) /\ sinceBeat \in 0..(Period + 1)
  /\ late \in BOOLEAN
  /\ lastBeat \in Channels \cup {NoChannel}

\* tctm_init, and the start of cants_tm
TmInit ==
  /\ tm_queue = <<>> /\ utm_ch = UtmMin
  /\ tmPc = "recv" /\ wait_time = Period /\ tmBlocked = 0 /\ tmAge = 0
  /\ late \in BOOLEAN
  /\ tmSent = Nothing /\ lastBeat = NoChannel /\ sinceBeat = 0

\* tctm_process queues a request.
TmArrive ==
  /\ Len(tm_queue) < TM_QUEUE_LEN
  /\ \E request \in TmRequest : tm_queue' = Append(tm_queue, request)
  /\ tmSent' = Nothing
  /\ UNCHANGED <<utm_ch, tmPc, wait_time, tmBlocked, tmAge, late, lastBeat, sinceBeat>>

\* Requests with data are ignored, others answered with what the handler says.
TmServe ==
  /\ tmPc = "recv" /\ tm_queue # <<>>
  /\ tm_queue' = Tail(tm_queue)
  /\ tmSent' = IF Head(tm_queue).empty
               THEN [kind |-> "answer", channel |-> Head(tm_queue).channel,
                     ack |-> Head(tm_queue).channel \in Channels]
               ELSE Nothing
  /\ tmPc' = "check"
  /\ UNCHANGED <<utm_ch, wait_time, tmBlocked, tmAge, late, lastBeat, sinceBeat>>

\* xQueueReceive returns without a request.
TmTimeout ==
  /\ tmPc = "recv" /\ tm_queue = <<>> /\ tmBlocked >= wait_time
  /\ tmPc' = "check" /\ tmSent' = Nothing
  /\ UNCHANGED <<tm_queue, utm_ch, wait_time, tmBlocked, tmAge, late, lastBeat, sinceBeat>>

\* Mutant: the block time is not shortened by the time that has passed.
TmRemaining_Full == Period

\* What xTaskCheckForTimeOut leaves of the block time.
TmRemaining == wait_time - tmAge

TmCheck ==
  /\ tmPc = "check" /\ tmSent' = Nothing
  /\ IF tmAge < wait_time
     THEN /\ wait_time' = TmRemaining /\ tmAge' = 0 /\ tmBlocked' = 0
          /\ tmPc' = "recv"
     ELSE tmPc' = "keepalive" /\ UNCHANGED <<wait_time, tmAge, tmBlocked>>
  /\ UNCHANGED <<tm_queue, utm_ch, late, lastBeat, sinceBeat>>

\* ++utm_ch in a uint8_t, and back to utm_ch_min
NextUtm == LET next == (utm_ch + 1) % ChannelMod IN IF next > UtmMax THEN UtmMin ELSE next

\* The channel cannot be read: the loop of cants_send_keepalive goes on.
TmSkip ==
  /\ tmPc = "keepalive" /\ utm_ch \notin Channels
  /\ utm_ch' = NextUtm /\ tmSent' = Nothing
  /\ UNCHANGED <<tm_queue, tmPc, wait_time, tmBlocked, tmAge, late, lastBeat, sinceBeat>>

\* The keep-alive is sent and the period starts again.
TmBeat ==
  /\ tmPc = "keepalive" /\ utm_ch \in Channels
  /\ utm_ch' = NextUtm
  /\ tmSent' = [kind |-> "keepalive", channel |-> utm_ch]
  /\ lastBeat' = utm_ch /\ sinceBeat' = 0
  /\ wait_time' = Period /\ tmAge' = 0 /\ tmBlocked' = 0
  /\ tmPc' = "recv"
  /\ UNCHANGED <<tm_queue, late>>

UpTo(n, bound) == IF n < bound THEN n + 1 ELSE bound

\* A tick; a prompt task has run as far as it can before it.
TmTick ==
  /\ ~late => tmPc = "recv" /\ tm_queue = <<>> /\ tmBlocked < wait_time
  /\ tmBlocked' = IF tmPc = "recv" THEN UpTo(tmBlocked, Period) ELSE tmBlocked
  /\ tmAge' = UpTo(tmAge, Period + 1)
  /\ sinceBeat' = UpTo(sinceBeat, Period + 1)
  /\ tmSent' = Nothing
  /\ UNCHANGED <<tm_queue, utm_ch, tmPc, wait_time, late, lastBeat>>

TmStep == TmServe \/ TmTimeout \/ TmCheck \/ TmSkip \/ TmBeat

TmNext == TmArrive \/ TmStep \/ TmTick

TmSpec == TmInit /\ [][TmNext]_tmVars

-----------------------------------------------------------------------------
(* Properties                                                              *)

\* However many requests shorten the block time, two keep-alives are at least
\* one period apart.
KeepAliveNotEarly == [][TmBeat => sinceBeat >= Period]_tmVars

\* A task that runs promptly sends its keep-alive when the period ends, although
\* every request restarts its xQueueReceive.
KeepAliveOnTime == ~late => sinceBeat <= Period

\* The channel that follows `channel' in turn, among those that can be read.
InTurn(channel) ==
  LET range == Channels \cap (UtmMin..UtmMax)
      above == {c \in range : c > channel}
      from  == IF channel = NoChannel \/ above = {} THEN range ELSE above
  IN  CHOOSE c \in from : \A d \in from : c <= d

\* Keep-alives carry the readable channels of the range one after the other:
\* none is left out, and none comes twice before the others came.
ChannelsInTurn == [][TmBeat => utm_ch = InTurn(lastBeat)]_tmVars

\* A keep-alive comes when a period has passed, neither before nor after, and
\* carries the channel whose turn it is.
KeepAlivesInOrder == [](TmTypeOK /\ KeepAliveOnTime) /\ KeepAliveNotEarly /\ ChannelsInTurn

\* Keep-alives never stop: the loop that looks for a channel ends each time, and
\* requests do not keep the task from its period, however many come.  (Where
\* ticks wait for the task, `~late', requests could hold up time itself.)
KeepAlivesGoOn == late => []<>(tmSent.kind = "keepalive")
=============================================================================
