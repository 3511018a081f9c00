----------------------------- MODULE CoRoutines -----------------------------
(***************************************************************************)
(* The co-routines of croutine.c and their calls of queue.c, with one      *)
(* queue.  Interrupts, which may send, receive and count ticks, come       *)
(* between any two steps.  cr is a record of                               *)
(*   clock       the kernel's ticks since 0, its wraps included            *)
(*   seen        those of xCoRoutineTickCount; passed  xPassedTicks        *)
(*   last        xLastTickCount                                            *)
(*   priority    of each co-routine; NotCreated                            *)
(*   ready       pxReadyCoRoutineLists; top  uxTopCoRoutineReadyPriority   *)
(*   delayed, overflow   in the order of wake, the values of their items   *)
(*   pending     xPendingReadyCoRoutineList                                *)
(*   toSend, toReceive   who waits for the queue, in the order of priority *)
(*   messages    uxMessagesWaiting                                         *)
(*   current     pxCurrentCoRoutine; step  where the scheduler or it is    *)
(*   state       where each co-routine goes on: uxState                    *)
(*   due         when the delay of each ends, on the clock                 *)
(*   timedOut    the due times of those readied by time in the last step   *)
(*   missed      an interrupt sent or received twice and woke once         *)
(* due, timedOut and missed are there for the property only.               *)
(***************************************************************************)
EXTENDS Naturals, FiniteSets, Lists

CONSTANTS
  CoRoutine,        \* the co-routines
  NoCoRoutine,      \* pxCurrentCoRoutine before the first is created
  CrPriorities,     \* configMAX_CO_ROUTINE_PRIORITIES
  CrTickMod,        \* the tick count is taken modulo CrTickMod
  CrLength,         \* uxLength of the queue
  CrWaits,          \* bound: the times asked for, 0 among them
  MaxTicks,         \* bound: the last tick
  MaxBehind         \* bound: the ticks between two calls of the scheduler

VARIABLE cr

ASSUME CoRoutinesAssumption ==
  /\ IsFiniteSet(CoRoutine) /\ NoCoRoutine \notin CoRoutine
  /\ CrPriorities \in Nat \ {0} /\ CrLength \in Nat \ {0}
  /\ CrTickMod \in Nat /\ MaxTicks \in Nat
  /\ MaxBehind \in Nat /\ MaxBehind < CrTickMod  \* the count wraps once between two calls at most
  /\ CrWaits \subseteq Nat /\ 0 \in CrWaits
  /\ \A w \in CrWaits : w < CrTickMod

NotCreated == CrPriorities
Created(c) == {x \in CoRoutine : c.priority[x] # NotCreated}

\* prvInitialiseCoRoutineLists
NoCoRoutines ==
  [clock |-> 0, seen |-> 0, passed |-> 0, last |-> 0,
   priority |-> [x \in CoRoutine |-> NotCreated],
   ready |-> [p \in 0..CrPriorities - 1 |-> EmptyList], top |-> 0,
   delayed |-> <<>>, overflow |-> <<>>, wake |-> [x \in CoRoutine |-> 0],
   pending |-> <<>>, toSend |-> <<>>, toReceive |-> <<>>, messages |-> 0,
   current |-> NoCoRoutine, step |-> "none", state |-> [x \in CoRoutine |-> "start"],
   due |-> [x \in CoRoutine |-> 0], timedOut |-> {}, missed |-> FALSE]

-----------------------------------------------------------------------------
(* The lists                                                               *)

prvAddCoRoutineToReadyQueue(c, x) ==
  LET p == c.priority[x]
  IN  [c EXCEPT !.ready[p] = vListInsertEnd(@, x), !.top = IF p > @ THEN p ELSE @]

CrCreated(c, x, uxPriority) ==
  LET p == IF uxPriority >= CrPriorities THEN CrPriorities - 1 ELSE uxPriority
  IN  prvAddCoRoutineToReadyQueue(
        [c EXCEPT !.priority[x] = p, !.current = IF @ = NoCoRoutine THEN x ELSE @], x)

EventOrder(c) == [x \in CoRoutine |-> CrPriorities - c.priority[x]]

\* vCoRoutineAddToDelayedList; by the co-routines' own count, not the kernel's.
AddDelay(c, ticks) ==
  LET x == c.current
      wakeAt == (c.seen + ticks) % CrTickMod
      d == [c EXCEPT !.ready[c.priority[x]] = uxListRemove(@, x), !.wake[x] = wakeAt,
                     !.due[x] = c.seen + ticks]
  IN  IF wakeAt < c.seen % CrTickMod
      THEN [d EXCEPT !.overflow = vListInsert(@, x, d.wake)]
      ELSE [d EXCEPT !.delayed = vListInsert(@, x, d.wake)]

WaitToSend(c, ticks) ==
  [AddDelay(c, ticks) EXCEPT !.toSend = vListInsert(@, c.current, EventOrder(c))]
WaitToReceive(c, ticks) ==
  [AddDelay(c, ticks) EXCEPT !.toReceive = vListInsert(@, c.current, EventOrder(c))]

\* xCoRoutineRemoveFromEventList: from the queue to the pending list; whether it
\* is at least as important as the one that runs.
WakeReceiver(c) == [c EXCEPT !.toReceive = Tail(@), !.pending = Append(@, Head(c.toReceive))]
WakeSender(c) == [c EXCEPT !.toSend = Tail(@), !.pending = Append(@, Head(c.toSend))]
Yields(c, x) == c.priority[x] >= c.priority[c.current]

\* One turn of prvCheckPendingReadyList
PendingTurn(c) ==
  LET x == Head(c.pending)
  IN  prvAddCoRoutineToReadyQueue(
        [c EXCEPT !.pending = Tail(@), !.delayed = RemoveFirst(@, x), !.overflow = RemoveFirst(@, x)], x)

CountTick(c) ==
  LET wraps == (c.seen + 1) % CrTickMod = 0
  IN  [c EXCEPT !.seen = @ + 1, !.passed = @ - 1,
                !.delayed = IF wraps THEN c.overflow ELSE @,
                !.overflow = IF wraps THEN c.delayed ELSE @]

HeadDue(c) == c.delayed # <<>> /\ c.seen % CrTickMod >= c.wake[Head(c.delayed)]

\* Mutant: a co-routine whose wait has ended stays on the list of the queue.
EndDelay_KeepsEvent(c) ==
  LET x == Head(c.delayed)
  IN  prvAddCoRoutineToReadyQueue([c EXCEPT !.delayed = Tail(@), !.timedOut = {c.due[x]}], x)

\* A wait for a queue ends with the delay: the co-routine leaves that list too.
EndDelay(c) ==
  LET x == Head(c.delayed)
  IN  prvAddCoRoutineToReadyQueue(
        [c EXCEPT !.delayed = Tail(@), !.timedOut = {c.due[x]}, !.pending = RemoveFirst(@, x),
                  !.toSend = RemoveFirst(@, x), !.toReceive = RemoveFirst(@, x)], x)

-----------------------------------------------------------------------------
(* vCoRoutineSchedule                                                      *)

CrInit == cr = NoCoRoutines

Forget == [cr EXCEPT !.timedOut = {}]

\* xCoRoutineCreate, before the scheduler is called
xCoRoutineCreate(x) ==
  /\ cr.step = "none" /\ cr.priority[x] = NotCreated
  /\ \E p \in 0..CrPriorities : cr' = CrCreated(cr, x, p)

FirstCall ==
  /\ cr.step = "none" /\ cr.current # NoCoRoutine
  /\ cr' = [cr EXCEPT !.step = "pending"]

CheckPendingReadyList ==
  /\ cr.step = "pending"
  /\ cr' = IF cr.pending # <<>> THEN PendingTurn(Forget)
           ELSE [Forget EXCEPT !.step = "delayed",
                               !.passed = (cr.clock + CrTickMod - cr.last) % CrTickMod]

\* One turn of the inner or the outer loop of prvCheckDelayedList
CheckDelayedList ==
  /\ cr.step = "delayed"
  /\ cr' = CASE HeadDue(cr) -> EndDelay(Forget)
             [] ~ HeadDue(cr) /\ cr.passed > 0 -> CountTick(Forget)
             [] ~ HeadDue(cr) /\ cr.passed = 0 ->
                  [Forget EXCEPT !.last = cr.seen % CrTickMod, !.step = "select"]

Occupied == {p \in 0..cr.top : cr.ready[p].items # <<>>}
Highest == CHOOSE p \in Occupied : \A o \in Occupied : o =< p

Select ==
  /\ cr.step = "select"
  /\ cr' = IF Occupied = {} THEN [Forget EXCEPT !.top = 0, !.step = "pending"]
           ELSE LET walked == NextEntry(cr.ready[Highest])
                IN  [Forget EXCEPT !.top = Highest, !.ready[Highest] = walked,
                                   !.current = Current(walked), !.step = "run"]

-----------------------------------------------------------------------------
(* The function of a co-routine: it returns to the scheduler when it blocks *)
(* or yields, and goes on from its state when it is called again.          *)

Runs(state) == cr.step = "run" /\ cr.state[cr.current] = state

Returns(c, state) == [c EXCEPT !.step = "pending", !.state[c.current] = state]
GoesOn(c) == [c EXCEPT !.step = "run", !.state[c.current] = "start"]

crDELAY ==
  /\ Runs("start")
  /\ \E ticks \in CrWaits :
       cr' = Returns(IF ticks > 0 THEN AddDelay(Forget, ticks) ELSE Forget, "start")

\* The first critical section of xQueueCRSend, and that of xQueueCRReceive
SendChecks(ticks) ==
  cr' = CASE cr.messages = CrLength /\ ticks > 0 -> Returns(WaitToSend(Forget, ticks), "send")
          [] cr.messages = CrLength /\ ticks = 0 -> GoesOn(Forget)
          [] cr.messages < CrLength -> [Forget EXCEPT !.step = "send"]

ReceiveChecks(ticks) ==
  cr' = CASE cr.messages = 0 /\ ticks > 0 -> Returns(WaitToReceive(Forget, ticks), "receive")
          [] cr.messages = 0 /\ ticks = 0 -> GoesOn(Forget)
          [] cr.messages > 0 -> [Forget EXCEPT !.step = "receive"]

\* crQUEUE_SEND and crQUEUE_RECEIVE: the call, and the second one after the wait
crQUEUE_SEND ==
  \/ Runs("start") /\ \E ticks \in CrWaits : SendChecks(ticks)
  \/ Runs("send") /\ SendChecks(0)

crQUEUE_RECEIVE ==
  \/ Runs("start") /\ \E ticks \in CrWaits : ReceiveChecks(ticks)
  \/ Runs("receive") /\ ReceiveChecks(0)

\* The second critical sections; an interrupt may have come before.
SendCopies ==
  /\ cr.step = "send"
  /\ LET sent == [Forget EXCEPT !.messages = @ + 1]
     IN  cr' = IF cr.messages = CrLength THEN GoesOn(Forget)
               ELSE IF cr.toReceive = <<>> THEN GoesOn(sent)
               ELSE IF Yields(cr, Head(cr.toReceive)) THEN Returns(WakeReceiver(sent), "start")
               ELSE GoesOn(WakeReceiver(sent))

ReceiveCopies ==
  /\ cr.step = "receive"
  /\ LET received == [Forget EXCEPT !.messages = @ - 1]
     IN  cr' = IF cr.messages = 0 THEN GoesOn(Forget)
               ELSE IF cr.toSend = <<>> THEN GoesOn(received)
               ELSE IF Yields(cr, Head(cr.toSend)) THEN Returns(WakeSender(received), "start")
               ELSE GoesOn(WakeSender(received))

-----------------------------------------------------------------------------
(* Interrupts; woken: an earlier call in the same interrupt woke one.      *)

Interrupts == cr.step # "none"

xQueueCRSendFromISR(woken) ==
  /\ Interrupts /\ cr.messages < CrLength
  /\ LET sent == [Forget EXCEPT !.messages = @ + 1]
     IN  cr' = IF cr.toReceive = <<>> THEN sent
               ELSE IF woken THEN [sent EXCEPT !.missed = TRUE] ELSE WakeReceiver(sent)

xQueueCRReceiveFromISR(woken) ==
  /\ Interrupts /\ cr.messages > 0
  /\ LET received == [Forget EXCEPT !.messages = @ - 1]
     IN  cr' = IF cr.toSend = <<>> THEN received
               ELSE IF woken THEN [received EXCEPT !.missed = TRUE] ELSE WakeSender(received)

CrTick ==
  /\ Interrupts /\ cr.clock < MaxTicks /\ cr.clock - cr.seen < MaxBehind
  /\ cr' = [Forget EXCEPT !.clock = @ + 1]

CrNext ==
  \/ \E x \in CoRoutine : xCoRoutineCreate(x)
  \/ FirstCall \/ CheckPendingReadyList \/ CheckDelayedList \/ Select
  \/ crDELAY \/ crQUEUE_SEND \/ crQUEUE_RECEIVE \/ SendCopies \/ ReceiveCopies
  \/ \E woken \in BOOLEAN : xQueueCRSendFromISR(woken) \/ xQueueCRReceiveFromISR(woken)
  \/ CrTick

CrSpec == CrInit /\ [][CrNext]_cr

-----------------------------------------------------------------------------
Sleeping == ToSet(cr.delayed) \cup ToSet(cr.overflow)
InReady(x) == Contains(cr.ready[cr.priority[x]].items, x)
WaitsFor(x) == Contains(cr.toSend, x) \/ Contains(cr.toReceive, x)

\* Those who were woken, or whose wait has ended, and who have not tried again.
Tries(state) == Cardinality({x \in Created(cr) : cr.state[x] = state /\ ~ WaitsFor(x)})

\* Every co-routine is in one list, and only one that is delayed waits for the
\* queue or is pending; a delay ends at its tick, neither before nor after, across
\* the wrap of the tick count; and nobody waits for the queue while it could serve
\* more than those already woken (croutine.c, the co-routine calls of queue.c).
CoRoutinesInTime ==
  /\ \A x \in Created(cr) :
       /\ InReady(x) <=> x \notin Sleeping
       /\ WaitsFor(x) \/ Contains(cr.pending, x) => x \in Sleeping
       /\ ~ (WaitsFor(x) /\ Contains(cr.pending, x))
  /\ \A d \in cr.timedOut : d = cr.seen
  /\ cr.step = "select" => \A x \in Sleeping : cr.due[x] > cr.seen
  /\ ~ cr.missed =>
       /\ cr.toReceive # <<>> => cr.messages =< Tries("receive")
       /\ cr.toSend # <<>> => CrLength - cr.messages =< Tries("send")
=============================================================================
