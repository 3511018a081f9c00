------------------------------- MODULE Tasks -------------------------------
(***************************************************************************)
(* The scheduler of tasks.c.  Its file-scope variables are one record k,   *)
(* and every function that changes them is an operator from k to k; what a *)
(* caller does with a returned pdTRUE is a predicate next to it.  Kernel   *)
(* takes the operators apart into the steps between which interrupts come. *)
(*                                                                         *)
(*   cur                 pxCurrentTCB                                      *)
(*   tcb                 the control block of every created task           *)
(*   ready, top          pxReadyTasksLists, uxTopReadyPriority             *)
(*   delayed, overflow   the lists both delayed list pointers point at     *)
(*   suspended, ended    xSuspendedTaskList, xTasksWaitingTermination      *)
(*   pending             xPendingReadyList                                 *)
(*   waiting             the event lists of the queues                     *)
(*   tick, overflows     xTickCount, xNumOfOverflows                       *)
(*   next                xNextTaskUnblockTime                              *)
(*   locked, missed      uxSchedulerSuspended, uxPendedTicks               *)
(*   yield               xYieldPending                                     *)
(*   number, unclean     uxCurrentNumberOfTasks,                           *)
(*                       uxDeletedTasksWaitingCleanUp                      *)
(*   has                 the features of FreeRTOSConfig.h that are on      *)
(*                                                                         *)
(* A task is linked into state lists (ready, delayed, overflow, suspended, *)
(* ended) by its xStateListItem and into event lists (pending, waiting) by *)
(* its xEventListItem; a list is the sequence of the tasks linked into it. *)
(***************************************************************************)
EXTENDS Integers, FiniteSets, Lists

CONSTANTS
  Idle,                  \* the idle task
  NoTask,                \* NULL
  configMAX_PRIORITIES,
  TickMod,               \* number of values of TickType_t (2^32)
  PendedMod,             \* number of values of UBaseType_t (256)
  EventLists             \* xTasksWaitingToSend, xTasksWaitingToReceive of each queue

Priorities == 0..(configMAX_PRIORITIES - 1)
MAX_DELAY == TickMod - 1

ASSUME TasksAssumption ==
  /\ configMAX_PRIORITIES \in Nat \ {0}
  /\ TickMod \in Nat \ {0, 1}
  /\ PendedMod \in Nat \ {0, 1}

Prio(k, t) == k.tcb[t].priority
CurPrio(k) == Prio(k, k.cur)

\* The value of xEventListItem: event lists are sorted by falling priority.
EventValue(priority) == configMAX_PRIORITIES - priority

InReadyList(k, t) == Contains(k.ready[Prio(k, t)].items, t)
IsSuspended(k, t) == Contains(k.suspended, t)
IsDelayed(k, t) == Contains(k.delayed, t) \/ Contains(k.overflow, t)
OnEventList(k, t) == \E e \in EventLists : Contains(k.waiting[e], t)
HasEvent(k, t) == Contains(k.pending, t) \/ OnEventList(k, t)

\* uxListRemove on xStateListItem, and on xEventListItem
OffStateList(k, t) ==
  [k EXCEPT !.ready = [p \in Priorities |-> uxListRemove(@[p], t)],
            !.delayed = RemoveFirst(@, t), !.overflow = RemoveFirst(@, t),
            !.suspended = RemoveFirst(@, t), !.ended = RemoveFirst(@, t)]
OffEventList(k, t) ==
  [k EXCEPT !.pending = RemoveFirst(@, t),
            !.waiting = [e \in EventLists |-> RemoveFirst(@[e], t)]]
Unlisted(k, t) == OffEventList(OffStateList(k, t), t)

prvAddTaskToReadyList(k, t) ==
  [k EXCEPT !.top = Max({@, Prio(k, t)}), !.ready[Prio(k, t)] = vListInsertEnd(@, t)]

Readied(k, t) == prvAddTaskToReadyList(Unlisted(k, t), t)

-----------------------------------------------------------------------------
(* Creation                                                                *)

\* prvInitialiseNewTask: a priority that is too high is cut off.
NewTcb(priority) ==
  LET p == Min({priority, configMAX_PRIORITIES - 1})
  IN  [priority |-> p, base |-> p, held |-> 0, wake |-> 0, value |-> EventValue(p),
       note |-> 0, state |-> "not waiting", aborted |-> FALSE]

\* The control blocks of tasks that do not exist keep this place holder.
NoTcb == [priority |-> 0, base |-> 0, held |-> 0, wake |-> 0, value |-> EventValue(0),
          note |-> 0, state |-> "none", aborted |-> FALSE]

\* Before the first task is created: the lists are empty, start is the value of
\* xTickCount.
prvInitialiseTaskLists(tasks, has, start) ==
  [ready |-> [p \in Priorities |-> EmptyList], delayed |-> <<>>, overflow |-> <<>>,
   pending |-> <<>>, ended |-> <<>>, suspended |-> <<>>,
   waiting |-> [e \in EventLists |-> <<>>],
   has |-> has, cur |-> NoTask, tcb |-> [t \in tasks |-> NoTcb], top |-> 0,
   tick |-> start, overflows |-> 0, next |-> 0, locked |-> 0, missed |-> 0,
   yield |-> FALSE, number |-> 0, unclean |-> 0]

Exists(k, t) == k.tcb[t].state # "none"

\* Before the scheduler runs the task created last among the highest is current.
prvAddNewTaskToReadyList(k, t, priority, running) ==
  LET new == [k EXCEPT !.number = @ + 1, !.tcb[t] = NewTcb(priority)]
      first == \/ k.cur = NoTask
               \/ ~running /\ CurPrio(k) <= new.tcb[t].priority
  IN  prvAddTaskToReadyList(IF first THEN [new EXCEPT !.cur = t] ELSE new, t)

\* A task created by a task of lower priority runs at once.
CreationYields(k, t) == CurPrio(k) < Prio(k, t)

\* vTaskStartScheduler, after the tasks of the application were created.
vTaskStartScheduler(k) ==
  [prvAddNewTaskToReadyList(k, Idle, 0, FALSE) EXCEPT !.next = MAX_DELAY]

-----------------------------------------------------------------------------
(* Switching and time                                                      *)

SwitchDelayedLists(k) ==
  [k EXCEPT !.delayed = k.overflow, !.overflow = k.delayed, !.overflows = @ + 1]

prvResetNextTaskUnblockTime(k) ==
  [k EXCEPT !.next = IF k.delayed = <<>> THEN MAX_DELAY ELSE k.tcb[Head(k.delayed)].wake]

\* taskSELECT_HIGHEST_PRIORITY_TASK: from the top downwards, the next of the list.
Selected(k) ==
  LET p == Max({r \in 0..k.top : Length(k.ready[r]) > 0})
      list == NextEntry(k.ready[p])
  IN  [k EXCEPT !.top = p, !.ready[p] = list, !.cur = Current(list)]

vTaskSwitchContext(k) ==
  IF k.locked > 0 THEN [k EXCEPT !.yield = TRUE]
                  ELSE Selected([k EXCEPT !.yield = FALSE])

YieldIf(k, required) == IF required THEN vTaskSwitchContext(k) ELSE k

AddDelayed(k, t, wake) ==
  LET value == [u \in DOMAIN k.tcb |-> IF u = t THEN wake ELSE k.tcb[u].wake]
  IN  IF wake < k.tick
      THEN [k EXCEPT !.tcb[t].wake = wake, !.overflow = vListInsert(@, t, value)]
      ELSE [k EXCEPT !.tcb[t].wake = wake, !.delayed = vListInsert(@, t, value),
                     !.next = Min({@, wake})]

\* Without INCLUDE_vTaskSuspend portMAX_DELAY is a delay like any other.
WaitsForEver(k, ticks) == "suspend" \in k.has /\ ticks = MAX_DELAY

prvAddCurrentTaskToDelayedList(k, ticks, indefinitely) ==
  LET t == k.cur
      off == OffStateList([k EXCEPT !.tcb[t].aborted = FALSE], t)
  IN  IF indefinitely /\ WaitsForEver(k, ticks)
      THEN [off EXCEPT !.suspended = Append(@, t)]
      ELSE AddDelayed(off, t, (k.tick + ticks) % TickMod)

\* The tasks whose time has come lead the delayed list.
Due(k) ==
  LET later == SelectInSeq(k.delayed, LAMBDA t : k.tcb[t].wake > k.tick)
  IN  IF later = 0 THEN k.delayed ELSE SubSeq(k.delayed, 1, later - 1)

WakeDue(k) ==
  LET due == Due(k)
      woken[n \in 0..Len(due)] == IF n = 0 THEN k ELSE Readied(woken[n - 1], due[n])
  IN  prvResetNextTaskUnblockTime(woken[Len(due)])

\* Mutant: the lists change places one tick late.
Counted_Late(k) ==
  LET now == (k.tick + 1) % TickMod
  IN  IF now = 1 THEN prvResetNextTaskUnblockTime(SwitchDelayedLists([k EXCEPT !.tick = now]))
                 ELSE [k EXCEPT !.tick = now]

Counted(k) ==
  LET now == (k.tick + 1) % TickMod
  IN  IF now = 0 THEN prvResetNextTaskUnblockTime(SwitchDelayedLists([k EXCEPT !.tick = now]))
                 ELSE [k EXCEPT !.tick = now]

xTaskIncrementTick(k) ==
  IF k.locked > 0 THEN [k EXCEPT !.missed = (@ + 1) % PendedMod]
  ELSE LET c == Counted(k) IN IF c.tick >= c.next THEN WakeDue(c) ELSE c

\* What it returns: a task as important became ready, or shares the time of the
\* current one, or a yield is pending.
TickSwitches(k) ==
  \/ k.yield
  \/ /\ k.locked = 0
     /\ LET c == Counted(k)
        IN  c.tick >= c.next /\ \E i \in DOMAIN Due(c) : Prio(k, Due(c)[i]) >= CurPrio(k)
  \/ k.locked = 0 /\ Length(xTaskIncrementTick(k).ready[CurPrio(k)]) > 1

vTaskSuspendAll(k) == [k EXCEPT !.locked = @ + 1]

\* Mutant: a task that was readied meanwhile is left to the next tick.
ReadyPending_NoYield(k, t) == Readied(k, t)

ReadyPending(k, t) ==
  LET r == Readied(k, t) IN [r EXCEPT !.yield = @ \/ Prio(k, t) >= CurPrio(k)]

\* The tasks that interrupts readied while the scheduler was locked.
DrainPending(k) ==
  LET drained[n \in 0..Len(k.pending)] ==
        IF n = 0 THEN k ELSE ReadyPending(drained[n - 1], k.pending[n])
  IN  IF k.pending = <<>> THEN k ELSE prvResetNextTaskUnblockTime(drained[Len(k.pending)])

Replay(k) == [xTaskIncrementTick(k) EXCEPT !.yield = k.yield \/ TickSwitches(k)]

ReplayMissed(k) ==
  LET replayed[n \in 0..k.missed] == IF n = 0 THEN k ELSE Replay(replayed[n - 1])
  IN  [replayed[k.missed] EXCEPT !.missed = 0]

\* xTaskResumeAll up to its yield, which follows if one is pending by then.
Unlock(k) ==
  LET open == [k EXCEPT !.locked = @ - 1]
  IN  IF open.locked = 0 /\ k.number > 0 THEN ReplayMissed(DrainPending(open)) ELSE open
AlreadyYielded(k) == LET u == Unlock(k) IN u.locked = 0 /\ u.yield
xTaskResumeAll(k) == YieldIf(Unlock(k), AlreadyYielded(k))
=============================================================================
