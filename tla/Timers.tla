------------------------------- MODULE Timers -------------------------------
(***************************************************************************)
(* The software timers of timers.c: commands in a queue, the timer task    *)
(* that owns the timers, and a tick count that wraps.  tm is a record of   *)
(*   clock     ticks since the count was 0, its wraps included             *)
(*   last      xLastTime                                                   *)
(*   current, overflow   the two lists of timers, in the order of value    *)
(*   value, period, active, auto   of each timer; period 0: not created    *)
(*   queue     the commands, each [id, timer, value, at]                   *)
(*   asked     a command whose caller has read the time and not sent it    *)
(*   step      where the timer task is                                     *)
(*   empty, expire, now   its locals xListWasEmpty, xNextExpireTime,       *)
(*             xTimeNow                                                    *)
(*   wake      the clock at which a sleeping timer task wakes              *)
(*   stopped   an assertion of the timer task failed: a full queue         *)
(*   due       when each timer must run next by the commands of the        *)
(*             application, on the clock                                     *)
(*   fired     the due times of the callbacks run in the last step         *)
(*   halted    the timers whose last command of the application was a stop *)
(*   overtaken the timers for which a command of the application was       *)
(*             processed before a restart of the timer task's own, which   *)
(*             was queued behind it                                        *)
(*   lag       ticks since the timer task was last asleep                  *)
(*   sent      how many calls there have been                              *)
(* due, halted, overtaken and the `at` of a command (its value on the      *)
(* clock) are there for the properties only.  Timers are static, as in     *)
(* FreeRTOSConfig.h.                                                       *)
(***************************************************************************)
EXTENDS Naturals, FiniteSets, Lists

CONSTANTS
  Timer,            \* the timers
  NoTimer,          \* no command is asked for
  TickMod,          \* the tick count is taken modulo TickMod
  QueueLength,      \* configTIMER_QUEUE_LENGTH
  Periods,          \* bound: the periods asked for
  StartTick,        \* configINITIAL_TICK_COUNT
  MaxClock,         \* bound: the last tick
  MaxAsked,         \* bound: the number of calls
  MaxLag            \* bound: how long the timer task or a sender is kept waiting

VARIABLE tm

\* A command is processed, and a timer looked at, less than a wrap after its time.
ASSUME TimersAssumption == \A p \in Periods : p > 0 /\ p + MaxLag < TickMod

Never == MaxClock + TickMod
NoCommand == [id |-> "none", timer |-> NoTimer, value |-> 0, at |-> 0]

Wrap(n) == (n + TickMod) % TickMod
TimeNow(x) == x.clock % TickMod

-----------------------------------------------------------------------------
(* Lists and callbacks                                                     *)

ForAll(value) == [t \in Timer |-> value]

\* prvCheckForValidListAndQueue
NoTimers ==
  [clock |-> StartTick, last |-> 0, current |-> <<>>, overflow |-> <<>>,
   value |-> ForAll(0), period |-> ForAll(0), active |-> ForAll(FALSE), auto |-> ForAll(FALSE),
   queue |-> <<>>, asked |-> NoCommand, step |-> "none", empty |-> TRUE, expire |-> 0,
   now |-> 0, wake |-> 0, stopped |-> FALSE, due |-> ForAll(Never), fired |-> {},
   halted |-> {}, overtaken |-> {}, lag |-> 0, sent |-> 0]

\* The callback runs; by the commands the timer is due again a period later.
Callback(x, t) ==
  [x EXCEPT !.fired = IF t \in x.overtaken THEN @ ELSE @ \cup {x.due[t]},
            !.due[t] = IF x.auto[t] THEN @ + x.period[t] ELSE Never]

\* xTimerGenericCommand of the timer task itself, with START_DONT_TRACE: a full queue
\* trips configASSERT.
SendToSelf(x, t, value) ==
  IF Len(x.queue) = QueueLength THEN [x EXCEPT !.stopped = TRUE]
  ELSE [x EXCEPT !.queue = Append(@, [id |-> "restart", timer |-> t, value |-> value, at |-> 0])]

\* What the application asks for with the command, which has left the queue.
Asked(x, c, due, halted) ==
  LET overtakes == \E n \in DOMAIN x.queue : x.queue[n].id = "restart" /\ x.queue[n].timer = c.timer
  IN  IF c.id = "restart" THEN x
      ELSE [x EXCEPT !.due[c.timer] = due, !.halted = halted,
                     !.overtaken = IF overtakes THEN @ \cup {c.timer} ELSE @ \ {c.timer}]

\* Mutant: a count that has wrapped since the command is not looked for.
AlreadyExpired_NoWrap(x, t, next, now, command) ==
  next =< now /\ Wrap(now - command) >= x.period[t]

\* prvInsertTimerInActiveList, when it inserts nothing and returns TRUE.
AlreadyExpired(x, t, next, now, command) ==
  IF next =< now THEN Wrap(now - command) >= x.period[t]
  ELSE now < command /\ next >= command

\* prvInsertTimerInActiveList, when it inserts.
Inserted(x, t, next, now) ==
  LET y == [x EXCEPT !.value[t] = next]
  IN  IF next =< now THEN [y EXCEPT !.overflow = vListInsert(@, t, y.value)]
      ELSE [y EXCEPT !.current = vListInsert(@, t, y.value)]

\* One turn of the loop of prvSwitchTimerLists; what is left in the list is due.
FireHead(x) ==
  LET t == Head(x.current)
      reload == Wrap(x.value[t] + x.period[t])
      y == Callback([x EXCEPT !.current = Tail(@)], t)
  IN  CASE ~ x.auto[t] -> y
        [] x.auto[t] /\ reload > x.value[t] ->
             LET z == [y EXCEPT !.value[t] = reload]
             IN  [z EXCEPT !.current = vListInsert(@, t, z.value)]
        [] x.auto[t] /\ reload =< x.value[t] -> SendToSelf(y, t, x.value[t])

RECURSIVE prvSwitchTimerLists(_)
prvSwitchTimerLists(x) ==
  IF x.stopped THEN x
  ELSE IF x.current = <<>> THEN [x EXCEPT !.current = x.overflow, !.overflow = <<>>]
  ELSE prvSwitchTimerLists(FireHead(x))

Switched(x) == TimeNow(x) < x.last

prvSampleTimeNow(x) ==
  [(IF Switched(x) THEN prvSwitchTimerLists(x) ELSE x) EXCEPT !.last = TimeNow(x)]

-----------------------------------------------------------------------------
(* The timer task                                                          *)

prvGetNextExpireTime(x) ==
  [x EXCEPT !.empty = (x.current = <<>>), !.step = "process",
            !.expire = IF x.current = <<>> THEN 0 ELSE x.value[Head(x.current)]]

\* vQueueWaitForMessageRestricted: a wait of no ticks ends with the next tick.
Waiting(x) ==
  LET ticks == Wrap(x.expire - TimeNow(x))
  IN  IF x.queue # <<>> THEN [x EXCEPT !.step = "commands"]
      ELSE [x EXCEPT !.step = "asleep", !.lag = IF x.asked = NoCommand THEN 0 ELSE @,
                     !.wake = IF x.empty /\ x.overflow = <<>> THEN Never
                              ELSE x.clock + (IF ticks = 0 THEN 1 ELSE ticks)]

\* Under the scheduler's lock, so that the time does not move.
prvProcessTimerOrBlockTask(x) ==
  LET y == prvSampleTimeNow(x)
  IN  CASE Switched(x) -> [y EXCEPT !.step = "commands"]
        [] ~ Switched(x) /\ ~ x.empty /\ x.expire =< TimeNow(x) ->
             [y EXCEPT !.step = "expired", !.now = TimeNow(x)]
        [] ~ Switched(x) /\ (x.empty \/ x.expire > TimeNow(x)) -> Waiting(y)

prvProcessExpiredTimer(x) ==
  LET t == Head(x.current)
      next == Wrap(x.expire + x.period[t])
      y == [x EXCEPT !.current = Tail(@), !.step = "commands"]
      placed ==
        CASE ~ x.auto[t] -> [y EXCEPT !.active[t] = FALSE]
          [] x.auto[t] /\ AlreadyExpired(x, t, next, x.now, x.expire) ->
               SendToSelf(y, t, x.expire)
          [] x.auto[t] /\ ~ AlreadyExpired(x, t, next, x.now, x.expire) ->
               Inserted(y, t, next, x.now)
  IN  IF placed.stopped THEN placed ELSE Callback(placed, t)

\* START, RESET and START_DONT_TRACE; too late for the period already, the timer
\* runs at once.
Started(x, c) ==
  LET t == c.timer
      next == Wrap(c.value + x.period[t])
      y == Asked([x EXCEPT !.active[t] = TRUE, !.value[t] = next], c,
                 c.at + x.period[t], x.halted \ {t})
      run == Callback(y, t)
  IN  IF ~ AlreadyExpired(x, t, next, TimeNow(x), c.value) THEN Inserted(y, t, next, TimeNow(x))
      ELSE IF x.auto[t] THEN SendToSelf(run, t, next) ELSE run

PeriodChanged(x, c) ==
  LET t == c.timer
      y == Asked([x EXCEPT !.active[t] = TRUE, !.period[t] = c.value], c,
                 x.clock + c.value, x.halted \ {t})
  IN  Inserted(y, t, Wrap(TimeNow(x) + c.value), TimeNow(x))

\* STOP and DELETE
Stopped(x, c) ==
  Asked([x EXCEPT !.active[c.timer] = FALSE], c, Never, x.halted \cup {c.timer})

\* One command: its timer leaves its list before the time is read.
prvProcessReceivedCommand(x) ==
  LET c == Head(x.queue)
      y == prvSampleTimeNow([x EXCEPT !.queue = Tail(@), !.current = Remove(@, c.timer),
                                      !.overflow = Remove(@, c.timer)])
  IN  CASE y.stopped -> y
        [] ~ y.stopped /\ c.id \in {"start", "restart"} -> Started(y, c)
        [] ~ y.stopped /\ c.id = "period" -> PeriodChanged(y, c)
        [] ~ y.stopped /\ c.id = "stop" -> Stopped(y, c)

\* A pended function is called without a look at the timers or the time.
prvProcessReceivedCommands(x) ==
  IF x.queue = <<>> THEN [x EXCEPT !.step = "expire"]
  ELSE IF Head(x.queue).id = "call" THEN [x EXCEPT !.queue = Tail(@)]
  ELSE prvProcessReceivedCommand(x)

-----------------------------------------------------------------------------
TimersInit == tm = NoTimers

\* The callbacks of the last step are forgotten.
Clean == [tm EXCEPT !.fired = {}]

At(step) == tm.step = step /\ ~ tm.stopped

\* xTimerCreateStatic and prvInitialiseNewTimer
xTimerCreate(t) ==
  /\ tm.period[t] = 0
  /\ \E p \in Periods, auto \in BOOLEAN :
       tm' = [Clean EXCEPT !.period[t] = p, !.auto[t] = auto]

xTimerCreateTimerTask == tm.step = "none" /\ tm' = [Clean EXCEPT !.step = "expire"]

\* xTimerStart and xTimerReset read the time, then the command waits for its turn.
xTimerAsk(t) ==
  /\ tm.period[t] # 0 /\ tm.asked = NoCommand /\ tm.sent < MaxAsked
  /\ \E c \in {[id |-> "start", timer |-> t, value |-> TimeNow(tm), at |-> tm.clock],
               [id |-> "stop", timer |-> t, value |-> 0, at |-> 0]}
              \cup {[id |-> "period", timer |-> t, value |-> p, at |-> 0] : p \in Periods} :
       tm' = [Clean EXCEPT !.asked = c, !.sent = @ + 1]

xTimerGenericCommand ==
  /\ tm.asked # NoCommand /\ Len(tm.queue) < QueueLength
  /\ tm' = [Clean EXCEPT !.queue = Append(@, tm.asked), !.asked = NoCommand]

\* xTimerPendFunctionCall and its version for interrupts, with room in the queue.
xTimerPendFunctionCall ==
  /\ tm.step # "none" /\ tm.sent < MaxAsked /\ Len(tm.queue) < QueueLength
  /\ tm' = [Clean EXCEPT !.sent = @ + 1,
               !.queue = Append(@, [id |-> "call", timer |-> NoTimer, value |-> 0, at |-> 0])]

vTimerSetReloadMode(t) ==
  /\ tm.period[t] # 0 /\ tm.sent < MaxAsked
  /\ tm' = [Clean EXCEPT !.auto[t] = ~ @, !.sent = @ + 1]

GetNextExpireTime == At("expire") /\ tm' = prvGetNextExpireTime(Clean)
ProcessTimerOrBlock == At("process") /\ tm' = prvProcessTimerOrBlockTask(Clean)
ProcessExpired == At("expired") /\ tm' = prvProcessExpiredTimer(Clean)
ProcessCommands == At("commands") /\ tm' = prvProcessReceivedCommands(Clean)

\* The wait for a message ends: a command, or the time given.
Ready == tm.queue # <<>> \/ tm.clock >= tm.wake
Wake == At("asleep") /\ Ready /\ tm' = [Clean EXCEPT !.step = "commands"]

\* xTaskIncrementTick; neither the task nor a sender is kept waiting too long.
Waits == tm.step # "asleep" \/ Ready \/ tm.asked # NoCommand
TimersTick ==
  /\ tm.step # "none" /\ tm.clock < MaxClock
  /\ Waits => tm.lag < MaxLag
  /\ tm' = [Clean EXCEPT !.clock = @ + 1, !.lag = IF Waits THEN @ + 1 ELSE 0]

TimersNext ==
  \/ \E t \in Timer : xTimerCreate(t) \/ xTimerAsk(t) \/ vTimerSetReloadMode(t)
  \/ xTimerCreateTimerTask \/ xTimerGenericCommand \/ xTimerPendFunctionCall
  \/ GetNextExpireTime \/ ProcessTimerOrBlock \/ ProcessExpired \/ ProcessCommands
  \/ Wake \/ TimersTick

TimersSpec == TimersInit /\ [][TimersNext]_tm

-----------------------------------------------------------------------------
\* No timer runs before the time the application's commands say, across the wrap of
\* the tick count and with commands that are processed late; and when the timer task
\* sleeps, it has run every timer that was due, once for each of its periods, and
\* wakes for the next one (prvProcessTimerOrBlockTask, prvInsertTimerInActiveList).
\* Left out are the timers with an overtaken restart: see StoppedTimersRest.
TimersInTime ==
  /\ \A d \in tm.fired : d =< tm.clock
  /\ At("asleep") => \A t \in Timer \ tm.overtaken : tm.due[t] >= tm.wake

\* "Stopping a timer ensures the timer is not in the active state" (timers.h): once a
\* stop has been processed, the timer is not active until the application starts it
\* again or changes its period.
StoppedTimersRest == \A t \in tm.halted : ~ tm.active[t]
=============================================================================
