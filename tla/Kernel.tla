------------------------------- MODULE Kernel -------------------------------
(***************************************************************************)
(* Tasks that call the kernel, and interrupts that come between any two of *)
(* their steps.  A step is one critical section, or one stretch of code    *)
(* that runs with interrupts enabled and the scheduler locked; only the    *)
(* current task takes steps.  A switch of the context is part of the step  *)
(* that asks for it: portYIELD takes effect at once, also within a         *)
(* critical section, because the interrupt flag belongs to the task.       *)
(*                                                                         *)
(* What the tasks are and call is a scenario, chosen in the first state:   *)
(*   has, start     the configured features, the first value of xTickCount *)
(*   created        the tasks in order of creation, with their priorities  *)
(*   queues         the queue records of Queues                            *)
(*   calls, isr     the calls of each task and of interrupts, as records   *)
(*                  [fn, on, ticks, arg, how]                              *)
(*   ticks          bound: the ticks of a behaviour                        *)
(*                                                                         *)
(* call[t] holds the locals of the call task t is in: the step it is at    *)
(* ("out" between calls), xTicksToWait, xTimeOut, and where it goes once   *)
(* the scheduler is unlocked.  `since' (the time from which it waits),     *)
(* `due' (when the delay it is in ends), `cut' (whether another task ended *)
(* its delay) and `mark' (the time of `last', pxPreviousWakeTime) are for  *)
(* the properties, as is `now', the number of ticks there have been.       *)
(***************************************************************************)
EXTENDS Queues

CONSTANTS
  Tasks,         \* the tasks of the application
  Scenarios,
  Payloads,      \* what is sent; the handle of a queue in a set is its number
  MaxCount       \* bound: what interrupts do to a locked queue, the depth of a
                 \* recursive mutex, the value of a notification

VARIABLES plan, k, q, call, now
vars == <<plan, k, q, call, now>>

s == [k |-> k, q |-> q]
Me == call[k.cur]

\* The time at which the tick that is counted last came.
Clock == now - k.missed

NoCall == [op |-> [fn |-> "none", on |-> NoQueue, ticks |-> 0, arg |-> 0, how |-> "none"],
           at |-> "out", after |-> "none", wait |-> 0,
           entry |-> [overflows |-> 0, tick |-> 0], entered |-> FALSE,
           inherited |-> FALSE, last |-> 0, since |-> 0, due |-> 0, cut |-> FALSE, mark |-> 0]

Create(state, pair) == prvAddNewTaskToReadyList(state, pair[1], pair[2], FALSE)

Application(scenario) ==
  LET before == prvInitialiseTaskLists(Tasks \cup {Idle}, scenario.has, scenario.start)
      created[n \in 0..Len(scenario.created)] ==
        IF n = 0 THEN before ELSE Create(created[n - 1], scenario.created[n])
  IN  created[Len(scenario.created)]

\* main, and vTaskStartScheduler; a tick count other than 0 is that of an
\* application that has run for long.
Init ==
  /\ plan \in Scenarios
  /\ k = vTaskStartScheduler(Application(plan))
  /\ q = plan.queues
  /\ call = [t \in Tasks \cup {Idle} |-> [NoCall EXCEPT !.last = plan.start]]
  /\ now = 0

-----------------------------------------------------------------------------
(* Calls                                                                   *)

Do(nk, nq, c) ==
  /\ k' = nk /\ q' = nq /\ call' = [call EXCEPT ![k.cur] = c]
  /\ UNCHANGED <<plan, now>>
Return(nk, nq) == Do(nk, nq, [NoCall EXCEPT !.last = Me.last, !.mark = Me.mark])
At(step) == Me.at = step
GoTo(nk, nq, step) == Do(nk, nq, [Me EXCEPT !.at = step])

Sends == {"send", "giveRecursive"}
Takes == {"take", "takeRecursive"}
Receives == Takes \cup {"receive", "peek"}
OnTasks == {"suspend", "resume", "prioritySet", "delete", "abort", "notify", "clear"}

\* Only who holds a mutex gives it, nobody takes one twice, and no task refers
\* to one that is gone: what the assertions of the code ask of its callers.
Legal(op) ==
  /\ op.fn = "send" /\ q[op.on].mutex => q[op.on].holder = k.cur
  /\ op.fn = "take" => q[op.on].holder # k.cur
  /\ op.fn \in OnTasks => Exists(k, op.on) /\ ~Contains(k.ended, op.on)
  /\ op.fn = "takeRecursive" => q[op.on].calls < MaxCount
  /\ op.fn = "create" => ~Exists(k, op.on)

\* Calls name tasks and queues that can exist, priorities below the number of
\* priorities and increments above 0, as the assertions of the code demand; the
\* timer task waits for a time that lies ahead.
Actions == {"setBits", "increment", "overwrite", "noOverwrite", "none"}   \* eNotifyAction
QueueCalls == Sends \cup Receives \cup {"give", "waitRestricted", "reset", "addToSet", "removeFromSet"}
Callable(op, actions) ==
  /\ op.ticks \in 0..MAX_DELAY
  /\ op.fn \in {"delayUntil", "waitRestricted"} => op.ticks # 0
  /\ op.fn \in QueueCalls => op.on \in Queues
  /\ op.fn \in OnTasks \cup {"create", "find"} => op.on \in Tasks
  /\ op.fn = "addToSet" => op.arg \in Queues
  /\ op.fn = "prioritySet" => op.arg \in Priorities
  /\ op.fn \in {"create", "notify"} => op.arg \in Nat
  /\ op.fn \in Sends => op.how \in {"back", "front", "overwrite"}
  /\ op.fn = "notify" => op.how \in actions

\* A queue that nobody uses yet.
New(queue) ==
  /\ {"count", "rx", "tx", "holder", "set"} \subseteq DOMAIN queue
  /\ queue.rx = Unlocked /\ queue.tx = Unlocked /\ queue.holder = NoTask
  /\ queue.set \in Queues \cup {NoQueue}

\* The idle task makes no calls, and no task but it exists before it is created.
ASSUME KernelAssumption ==
  /\ IsFiniteSet(Tasks) /\ Idle \notin Tasks /\ NoTask \notin Tasks \cup {Idle}
  /\ NoQueue \notin Queues
  /\ \A scenario \in Scenarios :
       /\ scenario.has \subseteq {"suspend", "tickless"} /\ scenario.start \in 0..MAX_DELAY
       /\ scenario.created \in Seq(Tasks \X Nat)
       /\ \A m, n \in DOMAIN scenario.created :
            m # n => scenario.created[m][1] # scenario.created[n][1]
       /\ DOMAIN scenario.queues = Queues /\ \A x \in Queues : New(scenario.queues[x])
       /\ scenario.calls[Idle] = {}
       /\ \A t \in Tasks : \A op \in scenario.calls[t] : Callable(op, Actions)
       /\ \A op \in scenario.isr : Callable(op, Actions \cup {"give"})

Starts(fn) ==
  IF At("out") THEN {op \in plan.calls[k.cur] : op.fn = fn /\ Legal(op)} ELSE {}
Entered(op, step) ==
  [Me EXCEPT !.op = op, !.at = step, !.wait = op.ticks]

\* A call that is one critical section, with the yield at its end.
Whole(nk, yields) == Return(YieldIf(nk, yields), q)

-----------------------------------------------------------------------------
(* xQueueGenericSend, xQueueReceive, xQueuePeek and xQueueSemaphoreTake: a *)
(* first critical section, and if the call has to wait, the same again     *)
(* after each time it was woken.                                           *)

Tries(fns) == IF At("try") /\ Me.op.fn \in fns THEN {Me.op}
              ELSE UNION {Starts(fn) : fn \in fns \ {"giveRecursive", "takeRecursive"}}

Send ==
  \E op \in Tries(Sends) :
    /\ HasRoom(q[op.on], op.how)
    /\ LET done == xQueueGenericSend(s, op.on, op.arg, op.how)
       IN  Return(YieldIf(done.k, SendYields(s, op.on, op.arg, op.how)), done.q)

Receive ==
  \E op \in Tries({"receive"}) :
    /\ ~prvIsQueueEmpty(q[op.on])
    /\ LET done == xQueueReceive(s, op.on)
       IN  Return(YieldIf(done.k, ReceiveYields(s, op.on)), done.q)

Peek ==
  \E op \in Tries({"peek"}) :
    /\ ~prvIsQueueEmpty(q[op.on])
    /\ Return(YieldIf(xQueuePeek(s, op.on).k, PeekYields(s, op.on)), q)

\* A recursive mutex is counted once it has been taken.
Take ==
  \E op \in Tries(Takes) :
    /\ ~prvIsQueueEmpty(q[op.on])
    /\ LET done == xQueueSemaphoreTake(s, op.on)
           nk == YieldIf(done.k, ReceiveYields(s, op.on))
       IN  IF op.fn = "take" THEN Return(nk, done.q) ELSE GoTo(nk, done.q, "count")

Stuck(op) == IF op.fn \in Sends THEN ~HasRoom(q[op.on], op.how)
                                ELSE prvIsQueueEmpty(q[op.on])

\* No time to wait: errQUEUE_FULL, errQUEUE_EMPTY
Refused ==
  \E op \in Tries(Sends \cup Receives) :
    /\ Stuck(op) /\ (IF At("try") THEN Me.wait ELSE op.ticks) = 0
    /\ Return(k, q)

Waits ==
  \E op \in Tries(Sends \cup Receives) :
    LET c == IF At("try") THEN Me ELSE Entered(op, "try")
        timed == [vTaskInternalSetTimeOutState(k, c) EXCEPT !.entered = TRUE, !.since = Clock]
    IN  /\ Stuck(op) /\ c.wait # 0
        /\ Do(k, q, [(IF c.entered THEN c ELSE timed) EXCEPT !.at = "suspend"])

Suspend == At("suspend") /\ GoTo(vTaskSuspendAll(k), q, "lock")

Lock ==
  /\ At("lock")
  /\ GoTo(k, [q EXCEPT ![Me.op.on] = prvLockQueue(@)],
          IF Me.op.fn = "waitRestricted" THEN "restricted" ELSE "check")

\* xTaskCheckForTimeOut
Check ==
  /\ At("check")
  /\ Do(ClearAborted(k), q,
        IF TimedOut(k, Me)
        THEN [AfterCheck(k, Me) EXCEPT !.at = "unlockSent", !.after = "fail",
                                       !.cut = @ \/ Aborted(k)]
        ELSE [AfterCheck(k, Me) EXCEPT !.at = "test"])

IsMutex(op) == op.fn \in Takes /\ q[op.on].mutex

Test ==
  /\ At("test")
  /\ Do(k, q, IF ~Stuck(Me.op) THEN [Me EXCEPT !.at = "unlockSent", !.after = "retry"]
              ELSE [Me EXCEPT !.at = IF IsMutex(Me.op) THEN "inherit" ELSE "place"])

PriorityInherit ==
  /\ At("inherit")
  /\ LET holder == q[Me.op.on].holder
     IN  Do(xTaskPriorityInherit(k, holder), q,
            [Me EXCEPT !.at = "place", !.inherited = Inherited(k, holder)])

Side(op) == IF op.fn \in Sends THEN <<op.on, "send">> ELSE <<op.on, "receive">>
Waiting(after) ==
  [Me EXCEPT !.at = "unlockSent", !.after = after, !.due = Clock + Me.wait]

Place ==
  /\ At("place")
  /\ Do(vTaskPlaceOnEventList(k, Side(Me.op), Me.wait), q, Waiting("yield"))

\* vQueueWaitForMessageRestricted, which the timer task calls with the scheduler
\* locked to wait for its next timer or command.
WaitRestricted ==
  \E op \in Starts("waitRestricted") : Do(k, q, Entered(op, "suspend"))
PlaceRestricted ==
  /\ At("restricted")
  /\ IF prvIsQueueEmpty(q[Me.op.on])
     THEN Do(vTaskPlaceOnEventListRestricted(k, Side(Me.op), Me.wait, FALSE), q,
             Waiting("delay"))
     ELSE Do(k, q, [Me EXCEPT !.at = "unlockSent", !.after = "delay"])

UnlockSentStep ==
  /\ At("unlockSent")
  /\ LET told == UnlockSent(s, Me.op.on) IN GoTo(told.k, told.q, "unlockReceived")
UnlockReceivedStep ==
  /\ At("unlockReceived")
  /\ LET told == UnlockReceived(s, Me.op.on) IN GoTo(told.k, told.q, "resume")

\* Where a call goes once the scheduler is unlocked.
Onward ==
  CASE Me.after = "yield" -> IF AlreadyYielded(k) THEN "try" ELSE "yield"
    [] Me.after = "delay" -> IF AlreadyYielded(k) THEN "woken" ELSE "yield"
    [] Me.after = "retry" -> "try"
    [] Me.after = "fail" -> "empty"

ResumeAll ==
  /\ At("resume")
  /\ IF Me.after = "return" \/ (Me.after = "fail" /\ Me.op.fn \in Sends)
     THEN Return(xTaskResumeAll(k), q)
     ELSE GoTo(xTaskResumeAll(k), q, Onward)

\* portYIELD_WITHIN_API
Yield ==
  /\ At("yield")
  /\ GoTo(vTaskSwitchContext(k), q,
          IF Me.op.fn \in Sends \cup Receives THEN "try" ELSE "woken")
Woken == At("woken") /\ Return(k, q)

\* The time is over: one more look before the call fails.
LastLook ==
  /\ At("empty")
  /\ IF ~Stuck(Me.op) THEN GoTo(k, q, "try")
     ELSE IF IsMutex(Me.op) /\ Me.inherited THEN GoTo(k, q, "disinherit")
     ELSE Return(k, q)

DisinheritAfterTimeout ==
  /\ At("disinherit")
  /\ Return(vTaskPriorityDisinheritAfterTimeout(
              k, q[Me.op.on].holder, prvGetDisinheritPriorityAfterTimeout(s, Me.op.on)), q)

QueueCall ==
  \/ Send \/ Receive \/ Peek \/ Take \/ Refused \/ Waits \/ Suspend \/ Lock \/ Check \/ Test
  \/ PriorityInherit \/ Place \/ WaitRestricted \/ PlaceRestricted \/ UnlockSentStep
  \/ UnlockReceivedStep \/ ResumeAll \/ Yield \/ Woken \/ LastLook \/ DisinheritAfterTimeout

-----------------------------------------------------------------------------
(* The other calls on queues                                               *)

GiveRecursive ==
  \E op \in Starts("giveRecursive") :
    LET less == [q EXCEPT ![op.on].calls = @ - 1]
    IN  IF q[op.on].holder # k.cur THEN Return(k, q)
        ELSE IF less[op.on].calls = 0 THEN Do(k, less, Entered(op, "try"))
        ELSE Return(k, less)

TakeRecursive ==
  \E op \in Starts("takeRecursive") :
    IF q[op.on].holder = k.cur THEN Return(k, [q EXCEPT ![op.on].calls = @ + 1])
                               ELSE Do(k, q, Entered(op, "try"))
CountTaken == At("count") /\ Return(k, [q EXCEPT ![Me.op.on].calls = @ + 1])

ResetQueue ==
  \E op \in Starts("reset") :
    LET done == xQueueGenericReset(s, op.on)
    IN  Return(YieldIf(done.k, WakeYields(s, <<op.on, "send">>)), done.q)

AddToSet ==
  \E op \in Starts("addToSet") : Return(k, [q EXCEPT ![op.on] = xQueueAddToSet(@, op.arg)])

\* xQueueRemoveFromSet looks twice before its critical section.
RemoveFromSet ==
  \E op \in Starts("removeFromSet") :
    IF q[op.on].set # op.arg THEN Return(k, q) ELSE Do(k, q, Entered(op, "member"))
MemberEmpty ==
  /\ At("member")
  /\ IF prvIsQueueEmpty(q[Me.op.on]) THEN GoTo(k, q, "leave") ELSE Return(k, q)
LeaveSet == At("leave") /\ Return(k, [q EXCEPT ![Me.op.on].set = NoQueue])

OtherQueueCall ==
  \/ GiveRecursive \/ TakeRecursive \/ CountTaken \/ ResetQueue
  \/ AddToSet \/ RemoveFromSet \/ MemberEmpty \/ LeaveSet

-----------------------------------------------------------------------------
(* Calls on tasks                                                          *)

\* Those that lock the scheduler first: where they go on then.
Locking == [delay |-> "delay", delayUntil |-> "delay", abort |-> "abort",
            report |-> "report", find |-> "find", hold |-> "resume"]
SuspendAll ==
  \E fn \in DOMAIN Locking : \E op \in Starts(fn) :
    /\ fn = "delay" => op.ticks # 0
    /\ Do(vTaskSuspendAll(k), q, [Entered(op, Locking[fn]) EXCEPT !.after = "return"])

\* A delay of no time is a yield.
DelayNone == \E op \in Starts("delay") : op.ticks = 0 /\ Do(k, q, Entered(op, "yield"))

Delay ==
  /\ At("delay") /\ Me.op.fn = "delay"
  /\ Do(vTaskDelay(k, Me.wait), q,
        [Me EXCEPT !.at = "resume", !.after = "delay", !.due = Clock + Me.wait])

DelayUntil ==
  /\ At("delay") /\ Me.op.fn = "delayUntil"
  /\ LET due == Me.mark + Me.wait
     IN  Do(vTaskDelayUntil(k, Me.last, Me.wait), q,
            [Me EXCEPT !.at = "resume", !.after = "delay", !.due = due, !.mark = due,
                       !.last = (@ + Me.wait) % TickMod])

\* The call of another task changes with it.
DoWith(nk, c, t, change) ==
  /\ k' = nk /\ call' = [call EXCEPT ![k.cur] = c, ![t] = IF t = k.cur THEN c ELSE change]
  /\ UNCHANGED <<plan, q, now>>
Back == [NoCall EXCEPT !.last = Me.last, !.mark = Me.mark]
Out(t) == [NoCall EXCEPT !.last = k.tick, !.mark = Clock]

AbortDelay ==
  /\ At("abort")
  /\ LET t == Me.op.on
     IN  DoWith(xTaskAbortDelay(k, t), [Me EXCEPT !.at = "resume"],
                t, [call[t] EXCEPT !.cut = @ \/ eTaskGetState(k, t) = "blocked"])

GetSystemState == At("report") /\ GoTo(Walked(k), q, "resume")
GetHandle == At("find") /\ GoTo(xTaskGetHandle(k, Me.op.on), q, "resume")

QueueWait(c) == c.op.fn \in Sends \cup Receives
SuspendTask ==
  \E op \in Starts("suspend") :
    DoWith(vTaskSuspend(k, op.on), Entered(op, "refresh"),
           op.on, [call[op.on] EXCEPT !.cut = @ \/ ~QueueWait(call[op.on])])
Refresh ==
  /\ At("refresh")
  /\ IF Me.op.on = k.cur THEN GoTo(prvResetNextTaskUnblockTime(k), q, "yield")
                         ELSE Return(prvResetNextTaskUnblockTime(k), q)

Resume ==
  \E op \in Starts("resume") : Whole(vTaskResume(k, op.on), ResumeYields(k, op.on))

PrioritySet ==
  \E op \in Starts("prioritySet") :
    Whole(vTaskPrioritySet(k, op.on, op.arg), PrioritySetYields(k, op.on, op.arg))

Delete ==
  \E op \in Starts("delete") :
    IF op.on = k.cur THEN Do(vTaskDelete(k, op.on), q, Entered(op, "yield"))
                     ELSE DoWith(vTaskDelete(k, op.on), Back, op.on, Out(op.on))

\* xTaskCreate
CreateTask ==
  \E op \in Starts("create") :
    DoWith(prvAddNewTaskToReadyList(k, op.on, op.arg, TRUE), Entered(op, "created"),
           op.on, Out(op.on))
Created ==
  /\ At("created")
  /\ Whole(k, Exists(k, Me.op.on) /\ CreationYields(k, Me.op.on))

NotifyTake ==
  \E op \in Starts("notifyTake") :
    Do(NotifyTakeFirst(k, op.ticks), q,
       [Entered(op, "noted") EXCEPT !.due = Clock + op.ticks])
NotifyWait ==
  \E op \in Starts("notifyWait") :
    Do(NotifyWaitFirst(k, op.ticks, op.how = "clear"), q,
       [Entered(op, "noted") EXCEPT !.due = Clock + op.ticks])
Noted_ ==
  /\ At("noted")
  /\ Return(IF Me.op.fn = "notifyTake" THEN ulTaskNotifyTake(k, Me.op.how = "clear")
                                       ELSE xTaskNotifyWait(k, Me.op.how = "clear"), q)

Notify ==
  \E op \in Starts("notify") :
    Whole(xTaskGenericNotify(k, op.on, op.how, op.arg), NotifyYields(k, op.on))
NotifyStateClear ==
  \E op \in Starts("clear") : Whole(xTaskNotifyStateClear(k, op.on), FALSE)

TaskCall ==
  \/ SuspendAll \/ DelayNone \/ Delay \/ DelayUntil \/ AbortDelay \/ GetSystemState \/ GetHandle
  \/ SuspendTask \/ Refresh \/ Resume \/ PrioritySet \/ Delete \/ CreateTask \/ Created \/ NotifyTake
  \/ NotifyWait \/ Noted_ \/ Notify \/ NotifyStateClear

-----------------------------------------------------------------------------
(* The idle task                                                           *)

IdleCleans ==
  /\ k.cur = Idle /\ At("out") /\ k.ended # <<>>
  /\ DoWith(prvCheckTasksWaitingTermination(k), Me, Head(k.ended), Out(Head(k.ended)))

\* configIDLE_SHOULD_YIELD
IdleYields ==
  /\ k.cur = Idle /\ At("out") /\ Length(k.ready[0]) > 1
  /\ Do(vTaskSwitchContext(k), q, Me)

IdleSuspends ==
  /\ k.cur = Idle /\ At("out") /\ "tickless" \in k.has /\ prvGetExpectedIdleTime(k) >= 2
  /\ Do(vTaskSuspendAll(k), q, [Me EXCEPT !.at = "sleep", !.after = "return"])

\* portSUPPRESS_TICKS_AND_SLEEP: asleep for at most one tick less than asked.
Sleep ==
  /\ At("sleep") /\ eTaskConfirmSleepModeStatus(k) # "abort sleep"
  /\ \E n \in 1..(prvGetExpectedIdleTime(k) - 1) :
       /\ now + n =< plan.ticks
       /\ k' = vTaskStepTick(k, n) /\ now' = now + n
       /\ call' = [call EXCEPT ![Idle].at = "resume"] /\ UNCHANGED <<plan, q>>
SleepAborted ==
  /\ At("sleep")
  /\ \/ eTaskConfirmSleepModeStatus(k) = "abort sleep"
     \/ prvGetExpectedIdleTime(k) < 2
     \/ now = plan.ticks
  /\ GoTo(k, q, "resume")

IdleTask == IdleCleans \/ IdleYields \/ IdleSuspends \/ Sleep \/ SleepAborted

-----------------------------------------------------------------------------
(* Interrupts                                                              *)

\* An interrupt that woke a more important task ends with portYIELD_FROM_ISR.
Interrupt(nk, nq, yields) ==
  k' = YieldIf(nk, yields) /\ q' = nq /\ UNCHANGED <<plan, call>>
FromISR(fn) == {op \in plan.isr : op.fn = fn}

Tick ==
  /\ now < plan.ticks /\ now' = now + 1
  /\ Interrupt(xTaskIncrementTick(k), q, TickSwitches(k))

SendFromISR ==
  \E op \in FromISR("send") :
    LET done == xQueueGenericSendFromISR(s, op.on, op.arg, op.how)
        put == prvCopyDataToQueue(s, op.on, op.arg, op.how)
    IN  /\ HasRoom(q[op.on], op.how) /\ q[op.on].tx < MaxCount
        /\ Interrupt(done.k, done.q, AnnounceFromISRYields(put, op.on)) /\ UNCHANGED now

GiveFromISR ==
  \E op \in FromISR("give") :
    LET done == xQueueGiveFromISR(s, op.on)
        put == [s EXCEPT !.q[op.on].count = @ + 1]
    IN  /\ ~prvIsQueueFull(q[op.on]) /\ q[op.on].tx < MaxCount
        /\ Interrupt(done.k, done.q, AnnounceFromISRYields(put, op.on)) /\ UNCHANGED now

ReceiveFromISR ==
  \E op \in FromISR("receive") :
    LET done == xQueueReceiveFromISR(s, op.on)
    IN  /\ ~prvIsQueueEmpty(q[op.on]) /\ q[op.on].rx < MaxCount
        /\ Interrupt(done.k, done.q, ReceiveFromISRYields(s, op.on)) /\ UNCHANGED now

\* configASSERT: a task that waits for a notification is on no event list.
NotifyFromISR ==
  \E op \in FromISR("notify") :
    /\ Exists(k, op.on) /\ k.tcb[op.on].note < MaxCount
    /\ k.tcb[op.on].state = "waiting" => ~HasEvent(k, op.on)
    /\ Interrupt(IF op.how = "give" THEN vTaskNotifyGiveFromISR(k, op.on)
                 ELSE xTaskGenericNotifyFromISR(k, op.on, op.how, op.arg), q,
                 NotifyYields(k, op.on))
    /\ UNCHANGED now

ResumeFromISR ==
  \E op \in FromISR("resume") :
    /\ Exists(k, op.on)
    /\ Interrupt(xTaskResumeFromISR(k, op.on), q, ResumeFromISRYields(k, op.on))
    /\ UNCHANGED now

AnInterrupt ==
  Tick \/ SendFromISR \/ GiveFromISR \/ ReceiveFromISR \/ NotifyFromISR \/ ResumeFromISR

Next == QueueCall \/ OtherQueueCall \/ TaskCall \/ IdleTask \/ AnInterrupt
Spec == Init /\ [][Next]_vars

-----------------------------------------------------------------------------
(* Properties                                                              *)

Running == {t \in Tasks \cup {Idle} : Exists(k, t)}
StateLists == [i \in 1..configMAX_PRIORITIES |-> k.ready[i - 1].items]
                \o <<k.delayed, k.overflow, k.suspended, k.ended>>
Wakes(list) == [i \in DOMAIN list |-> k.tcb[list[i]].wake]
Sorted(values) == \A i, j \in DOMAIN values : i < j => values[i] =< values[j]

\* Every task is in one state list, a ready one in the list of its priority, and
\* in at most one event list; both ways to ask for its state agree, but for a wait
\* without limit for a notification; the delayed lists are in the order of their
\* wake-up times, and the next time at which the tick looks at them is not later
\* than the first (the many places of tasks.c that move items between lists).
ListsSound ==
  /\ \A t \in Running :
       /\ Cardinality({l \in DOMAIN StateLists : Contains(StateLists[l], t)}) = 1
       /\ \A p \in Priorities : Contains(k.ready[p].items, t) => p = Prio(k, t) /\ p =< k.top
       /\ Cardinality({e \in EventLists : Contains(k.waiting[e], t)})
            + (IF Contains(k.pending, t) THEN 1 ELSE 0) =< 1
       /\ \E state \in {eTaskGetState(k, t)}
                          \cup (IF k.tcb[t].state = "waiting" THEN {"suspended"} ELSE {}) :
            {pair \in SystemState(k) : pair[1] = t} = {<<t, state>>}
  /\ Sorted(Wakes(k.delayed)) /\ Sorted(Wakes(k.overflow))
  /\ k.delayed # <<>> => k.next =< k.tcb[Head(k.delayed)].wake

\* No ready task is more important than the current one, except between the
\* step that made it so and the yield that follows.
HighestRuns ==
  k.locked = 0 /\ Me.at \notin {"yield", "created", "refresh"} =>
    \A p \in Priorities : p > CurPrio(k) => Length(k.ready[p]) = 0

\* A delay or a time-out ends with the tick of its time, also when the tick count
\* wraps, when ticks were missed with the scheduler locked, and after sleep.
WakeNotLate ==
  k.locked = 0 => \A t \in Running : IsDelayed(k, t) => now < call[t].due

\* A task that no other cut short waited its time before it went on from a delay,
\* a notification that did not come, or a queue that stayed empty or full.
WaitsItsTime ==
  \A t \in Running :
    /\ (InReadyList(k, t) /\ ~call[t].cut) =>
       /\ (call[t].at = "woken" /\ call[t].op.fn \in {"delay", "delayUntil"}) => Clock >= call[t].due
       /\ (call[t].at = "noted" /\ k.tcb[t].state = "waiting") => Clock >= call[t].due
    /\ (call[t].after = "fail" /\ ~call[t].cut) => Clock >= call[t].since + call[t].op.ticks

\* "A context switch should occur when the last mutex is returned whether a task
\* is waiting on it or not" (xTaskPriorityDisinherit, tasks.c:4091).
SwitchesWithLastMutex ==
  [][\A t \in Running :
       k.tcb[t].held = 1 /\ k'.tcb[t].held = 0 /\ k.tcb[t].priority # k.tcb[t].base =>
         \A p \in Priorities : p > CurPrio(k') => Length(k'.ready[p]) = 0]_vars

\* Tasks that are awake and will look at the queue again.
Looking(x, fns) ==
  {t \in Running : /\ call[t].op.on = x /\ call[t].op.fn \in fns
                   /\ InReadyList(k, t) \/ Contains(k.pending, t)
                   /\ \/ call[t].at \in {"try", "suspend", "lock", "yield", "empty"}
                      \/ call[t].at = "resume" /\ call[t].after # "fail"}

\* Where tasks wait for an item, or for room, and there is one, one of them is on
\* its way: no item came between its look at the queue and the wait.
NoLostWakeup ==
  \A x \in Queues : q[x].rx = Unlocked /\ q[x].tx = Unlocked =>
    /\ k.waiting[<<x, "receive">>] # <<>> /\ q[x].count > 0 => Looking(x, Receives) # {}
    /\ k.waiting[<<x, "send">>] # <<>> /\ q[x].count < q[x].len => Looking(x, Sends) # {}

\* The holder of a mutex is as important as each task that waits for it, also
\* after a time-out changed who waits; a task without mutexes has its own priority.
PriorityInheritance ==
  /\ \A x \in Queues : q[x].holder # NoTask =>
       \A i \in DOMAIN k.waiting[<<x, "receive">>] :
         Prio(k, q[x].holder) >= Prio(k, k.waiting[<<x, "receive">>][i])
  /\ \A t \in Running : k.tcb[t].held = 0 => k.tcb[t].priority = k.tcb[t].base

\* What a queue holds, the next item to be taken first.
Contents(queue) ==
  [i \in 1..queue.count |->
     IF queue.items THEN queue.buf[(queue.read + i) % queue.len] ELSE 0]
=============================================================================
