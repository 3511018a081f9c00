----------------------------- MODULE TaskCalls -----------------------------
(***************************************************************************)
(* The functions of tasks.c by which tasks act on each other: delays and   *)
(* time-outs, priorities and their inheritance, suspension, deletion,      *)
(* notifications.  Each operator is one critical section, or one section   *)
(* with the scheduler locked; the yield at its end is a predicate.         *)
(***************************************************************************)
EXTENDS Tasks

(* Time-outs.  c holds the locals of a blocking call: `wait' (xTicksToWait) *)
(* and `entry' (xTimeOut).                                                 *)

vTaskInternalSetTimeOutState(k, c) ==
  [c EXCEPT !.entry = [overflows |-> k.overflows, tick |-> k.tick]]

Elapsed(k, c) == (k.tick - c.entry.tick) % TickMod
Aborted(k) == k.tcb[k.cur].aborted

\* Mutant: a wrap of the tick count since the entry is always a time-out.
FullTurn_AnyWrap(k, c) == k.overflows # c.entry.overflows

\* The tick count has wrapped, and passed the time of the entry again.
FullTurn(k, c) == k.overflows # c.entry.overflows /\ k.tick >= c.entry.tick

\* xTaskCheckForTimeOut
TimedOut(k, c) ==
  \/ Aborted(k)
  \/ /\ ~WaitsForEver(k, c.wait)
     /\ FullTurn(k, c) \/ Elapsed(k, c) >= c.wait

AfterCheck(k, c) ==
  IF Aborted(k) \/ WaitsForEver(k, c.wait) \/ FullTurn(k, c) THEN c
  ELSE IF Elapsed(k, c) < c.wait
       THEN vTaskInternalSetTimeOutState(k, [c EXCEPT !.wait = @ - Elapsed(k, c)])
       ELSE [c EXCEPT !.wait = 0]

ClearAborted(k) == [k EXCEPT !.tcb[k.cur].aborted = FALSE]

\* vTaskDelayUntil: whether the next wake-up time lies ahead, when the time of
\* the last one, the next one or both may be on the other side of the wrap.
ShouldDelay(now, previous, wake) ==
  IF now < previous THEN wake < previous /\ wake > now
                    ELSE wake < previous \/ wake > now

vTaskDelay(k, ticks) == prvAddCurrentTaskToDelayedList(k, ticks, FALSE)

vTaskDelayUntil(k, previous, increment) ==
  LET wake == (previous + increment) % TickMod
  IN  IF ShouldDelay(k.tick, previous, wake)
      THEN prvAddCurrentTaskToDelayedList(k, (wake - k.tick) % TickMod, FALSE)
      ELSE k

-----------------------------------------------------------------------------
(* Event lists                                                             *)

vTaskPlaceOnEventList(k, e, ticks) ==
  LET t == k.cur
      value == [u \in DOMAIN k.tcb |-> k.tcb[u].value]
      queued == [k EXCEPT !.waiting[e] = vListInsert(@, t, value)]
  IN  prvAddCurrentTaskToDelayedList(queued, ticks, TRUE)

\* vTaskPlaceOnEventListRestricted, for the timer task: to the end of the list.
vTaskPlaceOnEventListRestricted(k, e, ticks, indefinitely) ==
  prvAddCurrentTaskToDelayedList(
    [k EXCEPT !.waiting[e] = Append(@, k.cur)],
    IF indefinitely THEN MAX_DELAY ELSE ticks, indefinitely)

WakesHigher(k, e) == Prio(k, Head(k.waiting[e])) > CurPrio(k)

\* With the scheduler locked only the event item may move.
Release(k, t) ==
  IF k.locked = 0
  THEN LET r == Readied(k, t)
       IN  IF "tickless" \in k.has THEN prvResetNextTaskUnblockTime(r) ELSE r
  ELSE [OffEventList(k, t) EXCEPT !.pending = Append(@, t)]

\* xTaskRemoveFromEventList returns WakesHigher.
xTaskRemoveFromEventList(k, e) ==
  [Release(k, Head(k.waiting[e])) EXCEPT !.yield = @ \/ WakesHigher(k, e)]

-----------------------------------------------------------------------------
(* States of a task                                                        *)

eTaskGetState(k, t) ==
  IF t = k.cur THEN "running"
  ELSE IF IsDelayed(k, t) THEN "blocked"
  ELSE IF IsSuspended(k, t)
       THEN IF HasEvent(k, t) \/ k.tcb[t].state = "waiting" THEN "blocked" ELSE "suspended"
  ELSE IF Contains(k.ended, t) \/ ~Exists(k, t) THEN "deleted"
  ELSE "ready"

\* With the state its list tells of, where eTaskGetState looks at the task.
vTaskGetInfo(k, t, state) ==
  IF t = k.cur THEN "running"
  ELSE IF state = "suspended" /\ HasEvent(k, t) THEN "blocked"
  ELSE state

\* uxTaskGetSystemState: every task, as its list tells its state.
SystemState(k) ==
  LET In(tasks, state) == {<<t, vTaskGetInfo(k, t, state)>> : t \in ToSet(tasks)}
  IN  In(k.delayed, "blocked") \cup In(k.overflow, "blocked")
        \cup In(k.ended, "deleted") \cup In(k.suspended, "suspended")
        \cup UNION {In(k.ready[p].items, "ready") : p \in Priorities}

\* prvListTasksWithinSingleList walks each list from its index once round, and
\* one item on.
Walked(k) ==
  [k EXCEPT !.ready = [p \in Priorities |->
     IF Length(@[p]) > 0 THEN NextEntry(@[p]) ELSE @[p]]]

\* prvSearchForNameWithinSingleList: the walk of the list that holds the name
\* stops there, that of one which does not goes one item on.
Searched(list, t) ==
  IF Contains(list.items, t)
  THEN [list EXCEPT !.index = CHOOSE i \in DOMAIN list.items : list.items[i] = t]
  ELSE IF Length(list) > 0 THEN NextEntry(list) ELSE list

\* A task has the name of no other.  The lists below the one of the task are not
\* searched; the delayed and suspended lists have no walk.
xTaskGetHandle(k, t) ==
  [k EXCEPT !.ready = [p \in Priorities |->
     IF \E higher \in Priorities : higher > p /\ Contains(k.ready[higher].items, t)
     THEN @[p] ELSE Searched(@[p], t)]]

\* A blocked task of an event list is told that its wait was cut short.
xTaskAbortDelay(k, t) ==
  IF eTaskGetState(k, t) # "blocked" THEN k
  ELSE [Readied(k, t) EXCEPT !.tcb[t].aborted = @ \/ HasEvent(k, t),
                             !.yield = @ \/ Prio(k, t) > CurPrio(k)]

\* vTaskSuspend; prvResetNextTaskUnblockTime follows in a section of its own.
vTaskSuspend(k, t) ==
  [Unlisted(k, t) EXCEPT !.suspended = Append(@, t),
     !.tcb[t].state = IF @ = "waiting" THEN "not waiting" ELSE @]

\* prvTaskIsTaskSuspended: not one that waits for ever, nor one being readied.
prvTaskIsTaskSuspended(k, t) == IsSuspended(k, t) /\ ~HasEvent(k, t)

vTaskResume(k, t) ==
  IF t # k.cur /\ prvTaskIsTaskSuspended(k, t)
  THEN prvAddTaskToReadyList(OffStateList(k, t), t) ELSE k
ResumeYields(k, t) ==
  t # k.cur /\ prvTaskIsTaskSuspended(k, t) /\ Prio(k, t) >= CurPrio(k)

xTaskResumeFromISR(k, t) ==
  IF ~prvTaskIsTaskSuspended(k, t) THEN k
  ELSE IF k.locked = 0 THEN prvAddTaskToReadyList(OffStateList(k, t), t)
  ELSE [k EXCEPT !.pending = Append(@, t)]
ResumeFromISRYields(k, t) ==
  prvTaskIsTaskSuspended(k, t) /\ k.locked = 0 /\ Prio(k, t) >= CurPrio(k)

prvDeleteTCB(k, t) == [k EXCEPT !.tcb[t] = NoTcb]

\* A task that deletes itself is left to the idle task.
vTaskDelete(k, t) ==
  LET off == Unlisted(k, t)
  IN  IF t = k.cur THEN [off EXCEPT !.ended = Append(@, t), !.unclean = @ + 1]
      ELSE prvResetNextTaskUnblockTime(prvDeleteTCB([off EXCEPT !.number = @ - 1], t))

\* One pass of the loop of the idle task.
prvCheckTasksWaitingTermination(k) ==
  LET t == Head(k.ended)
  IN  prvDeleteTCB([OffStateList(k, t) EXCEPT !.number = @ - 1, !.unclean = @ - 1], t)

-----------------------------------------------------------------------------
(* Priorities                                                              *)

\* Mutant: a ready task stays in the list of the priority it had.
Moved_InPlace(k, t, priority) == [k EXCEPT !.tcb[t].priority = priority]

\* A task moves to the ready list of its new priority, if it was in one.
Moved(k, t, priority) ==
  LET set == [OffStateList(k, t) EXCEPT !.tcb[t].priority = priority]
  IN  IF InReadyList(k, t) THEN prvAddTaskToReadyList(set, t)
      ELSE [k EXCEPT !.tcb[t].priority = priority]

\* While a task has inherited a priority, only its base priority changes.
vTaskPrioritySet(k, t, new) ==
  LET tcb == k.tcb[t]
      set == [k EXCEPT !.tcb[t].base = new, !.tcb[t].value = EventValue(new)]
  IN  IF tcb.base = new THEN k
      ELSE Moved(set, t, IF tcb.base = tcb.priority THEN new ELSE tcb.priority)
PrioritySetYields(k, t, new) ==
  \/ new > k.tcb[t].base /\ t # k.cur /\ new >= CurPrio(k)
  \/ new < k.tcb[t].base /\ t = k.cur

\* Mutant: a holder that is not ready keeps the priority it had.
Inherit_OnlyReady(k, holder) ==
  IF InReadyList(k, holder) THEN Moved([k EXCEPT !.tcb[holder].value = EventValue(CurPrio(k))],
                                       holder, CurPrio(k))
  ELSE k

\* The holder of a mutex takes on the priority of the task that waits for it.
Inherit(k, holder) ==
  Moved([k EXCEPT !.tcb[holder].value = EventValue(CurPrio(k))], holder, CurPrio(k))

xTaskPriorityInherit(k, holder) ==
  IF holder # NoTask /\ Prio(k, holder) < CurPrio(k) THEN Inherit(k, holder) ELSE k
Inherited(k, holder) == holder # NoTask /\ k.tcb[holder].base < CurPrio(k)

Disinherits(k, holder) ==
  /\ holder # NoTask
  /\ k.tcb[holder].priority # k.tcb[holder].base /\ k.tcb[holder].held = 1

\* Only with its last mutex a task gives its inherited priority back.
xTaskPriorityDisinherit(k, holder) ==
  LET tcb == k.tcb[holder]
      less == [k EXCEPT !.tcb[holder].held = @ - 1]
  IN  IF holder = NoTask THEN k
      ELSE IF Disinherits(k, holder)
      THEN Moved([less EXCEPT !.tcb[holder].value = EventValue(tcb.base)], holder, tcb.base)
      ELSE less

\* A waiter gave up: the holder keeps what those that still wait give it.
vTaskPriorityDisinheritAfterTimeout(k, holder, highest) ==
  LET use == Max({k.tcb[holder].base, highest})
  IN  IF holder = NoTask \/ k.tcb[holder].priority = use \/ k.tcb[holder].held # 1 THEN k
      ELSE Moved([k EXCEPT !.tcb[holder].value = EventValue(use)], holder, use)

pvTaskIncrementMutexHeldCount(k) == [k EXCEPT !.tcb[k.cur].held = @ + 1]

-----------------------------------------------------------------------------
(* Notifications                                                           *)

\* The first section of ulTaskNotifyTake and xTaskNotifyWait.
Await(k, ticks) ==
  LET set == [k EXCEPT !.tcb[k.cur].state = "waiting"]
  IN  IF ticks = 0 THEN set
      ELSE vTaskSwitchContext(prvAddCurrentTaskToDelayedList(set, ticks, TRUE))

NotifyTakeFirst(k, ticks) == IF k.tcb[k.cur].note = 0 THEN Await(k, ticks) ELSE k
NotifyWaitFirst(k, ticks, clear) ==
  IF k.tcb[k.cur].state = "received" THEN k
  ELSE Await(IF clear THEN [k EXCEPT !.tcb[k.cur].note = 0] ELSE k, ticks)

\* The second section of both.
ulTaskNotifyTake(k, clear) ==
  [k EXCEPT !.tcb[k.cur].state = "not waiting",
            !.tcb[k.cur].note = IF @ = 0 \/ clear THEN 0 ELSE @ - 1]
xTaskNotifyWait(k, clear) ==
  [k EXCEPT !.tcb[k.cur].state = "not waiting",
            !.tcb[k.cur].note = IF clear /\ k.tcb[k.cur].state = "received" THEN 0 ELSE @]

\* eNotifyAction; a set bit is bit 0.
NotedValue(tcb, action, value) ==
  CASE action = "setBits" -> IF tcb.note % 2 = 0 THEN tcb.note + 1 ELSE tcb.note
    [] action = "increment" -> tcb.note + 1
    [] action = "overwrite" -> value
    [] action = "noOverwrite" -> IF tcb.state = "received" THEN tcb.note ELSE value
    [] action = "none" -> tcb.note

Noted(k, t, action, value) ==
  [k EXCEPT !.tcb[t].state = "received", !.tcb[t].note = NotedValue(k.tcb[t], action, value)]

\* The target does not wait on an event list, so that only its delay is ended.
xTaskGenericNotify(k, t, action, value) ==
  LET noted == Noted(k, t, action, value)
      woken == Readied(noted, t)
  IN  IF k.tcb[t].state # "waiting" THEN noted
      ELSE IF "tickless" \in k.has THEN prvResetNextTaskUnblockTime(woken) ELSE woken
NotifyYields(k, t) == k.tcb[t].state = "waiting" /\ Prio(k, t) > CurPrio(k)

\* From an interrupt, with the scheduler locked, the event item is put aside.
xTaskGenericNotifyFromISR(k, t, action, value) ==
  LET noted == Noted(k, t, action, value)
  IN  IF k.tcb[t].state # "waiting" THEN noted
      ELSE [(IF k.locked = 0 THEN Readied(noted, t)
                             ELSE [noted EXCEPT !.pending = Append(@, t)])
            EXCEPT !.yield = @ \/ NotifyYields(k, t)]

vTaskNotifyGiveFromISR(k, t) == xTaskGenericNotifyFromISR(k, t, "increment", 0)

xTaskNotifyStateClear(k, t) ==
  [k EXCEPT !.tcb[t].state = IF @ = "received" THEN "not waiting" ELSE @]

-----------------------------------------------------------------------------
(* Tickless idle                                                           *)

prvGetExpectedIdleTime(k) ==
  IF CurPrio(k) > 0 \/ Length(k.ready[0]) > 1 \/ k.top > 0 THEN 0
  ELSE (k.next - k.tick) % TickMod

eTaskConfirmSleepModeStatus(k) ==
  IF k.pending # <<>> \/ k.yield THEN "abort sleep"
  ELSE IF Len(k.suspended) = k.number - 1 THEN "no tasks waiting timeout"
  ELSE "standard sleep"

vTaskStepTick(k, ticks) == [k EXCEPT !.tick = @ + ticks]
=============================================================================
