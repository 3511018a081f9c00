------------------------------ MODULE MCKernel ------------------------------
(***************************************************************************)
(* Scenarios for the kernel: a few tasks each, whose calls meet in every   *)
(* order.  The tick count wraps during most of them.                       *)
(***************************************************************************)
EXTENDS Kernel

CONSTANTS low, mid, high, idle, none

MCQueues == {1, 2, 3}
MCEventLists == MCQueues \X {"send", "receive"}
MCTasks == {low, mid, high}
MCPayloads == 0..3

Op(fn, on, ticks) == [fn |-> fn, on |-> on, ticks |-> ticks, arg |-> 1, how |-> "back"]
With(op, arg, how) == [op EXCEPT !.arg = arg, !.how = how]
Queue(length) == prvInitialiseNewQueue(length, TRUE)
Unused == Queue(1)

Scenario(has, start, ticks, priorities, queues, calls, isr) ==
  [has |-> has, start |-> start, ticks |-> ticks,
   created |-> <<<<low, priorities[1]>>, <<mid, priorities[2]>>, <<high, priorities[3]>>>>,
   queues |-> queues,
   calls |-> (low :> calls[1]) @@ (mid :> calls[2]) @@ (high :> calls[3]) @@ (idle :> {}),
   isr |-> isr]

\* A sender and two receivers of one queue, which interrupts fill too.
Transfer ==
  Scenario({}, 14, 2, <<1, 2, 2>>, <<Queue(2), Unused, Unused>>,
    <<{Op("send", 1, 2)}, {Op("receive", 1, 3)}, {Op("receive", 1, 1)}>>,
    {With(Op("send", 1, 0), 2, "back")})

\* The same with two senders, a task that looks on, and interrupts that take.
Filled ==
  Scenario({}, 14, 3, <<1, 2, 2>>, <<Queue(2), Unused, Unused>>,
    <<{With(Op("send", 1, 2), 2, "front")}, {Op("send", 1, 1), Op("delay", 0, 1)},
      {Op("peek", 1, 1)}>>,
    {Op("receive", 1, 0)})

\* A mutex shared by three priorities.  The lowest does not wait for it: then the
\* switch of SwitchesWithLastMutex would be missed here too.
Inheritance ==
  Scenario({}, 0, 3, <<1, 2, 3>>, <<prvInitialiseMutex, Unused, Unused>>,
    <<{Op("take", 1, 0), Op("send", 1, 0), Op("delay", 0, 1)}, {Op("take", 1, 1), Op("send", 1, 0), Op("delay", 0, 2)},
      {Op("take", 1, 2), Op("send", 1, 0), Op("delay", 1, 1)}>>, {})

\* Two mutexes, given back in any order, and waiters that give up.
TwoMutexes ==
  Scenario({}, 0, 4, <<1, 1, 3>>, <<prvInitialiseMutex, prvInitialiseMutex, Unused>>,
    <<{Op("take", 1, 0), Op("take", 2, 0), Op("send", 1, 0), Op("send", 2, 0)},
      {Op("take", 2, 4), Op("send", 2, 0)},
      {Op("take", 1, 1), Op("send", 1, 0), Op("delay", 0, 1)}>>, {})

\* A recursive mutex, whose waiter may be told to stop waiting.
Recursion ==
  Scenario({}, 14, 2, <<1, 2, 3>>, <<prvInitialiseMutex, Unused, Unused>>,
    <<{Op("takeRecursive", 1, 2), Op("giveRecursive", 1, 0)},
      {Op("abort", high, 0), Op("delay", 0, 1)},
      {Op("takeRecursive", 1, 2), Op("giveRecursive", 1, 0), Op("delay", 0, 1)}>>, {})

\* Delays of every kind, with the scheduler locked at times.
Delays ==
  Scenario({"suspend"}, 13, 7, <<1, 1, 2>>, <<Unused, Unused, Unused>>,
    <<{Op("hold", 0, 0)}, {Op("delay", 0, 2), Op("delay", 0, 3)},
      {Op("delayUntil", 0, 3), Op("delay", 0, 0)}>>, {})

\* All tasks asleep, and the idle task with them.
Tickless ==
  Scenario({"tickless"}, 13, 6, <<1, 1, 2>>, <<Queue(1), Unused, Unused>>,
    <<{Op("receive", 1, 3)}, {Op("delay", 0, 4)}, {Op("delayUntil", 0, 4), Op("report", 0, 0)}>>,
    {})

\* Tasks that suspend, resume, wake and promote each other.
Control ==
  Scenario({"suspend"}, 14, 2, <<1, 2, 2>>, <<Queue(1), Unused, Unused>>,
    <<{Op("resume", mid, 0), Op("abort", mid, 0),
       With(Op("prioritySet", mid, 0), 3, "none"), With(Op("prioritySet", mid, 0), 1, "none")},
      {Op("delay", 0, 2), Op("receive", 1, 15)},
      {Op("suspend", high, 0), Op("suspend", mid, 0)}>>,
    {Op("resume", high, 0), Op("send", 1, 0)})

\* Notifications to a task that waits for them, and to one that does not.
Notifications ==
  Scenario({"suspend"}, 14, 3, <<1, 2, 2>>, <<Unused, Unused, Unused>>,
    <<{With(Op("notify", mid, 0), 2, "overwrite"), With(Op("notify", high, 0), 2, "noOverwrite"),
       With(Op("notify", high, 0), 2, "setBits"), Op("clear", high, 0), Op("hold", 0, 0)},
      {With(Op("notifyTake", 0, 2), 0, "clear")},
      {With(Op("notifyWait", 0, 1), 0, "clear"), With(Op("notifyWait", 0, 15), 0, "keep")}>>,
    {With(Op("notify", mid, 0), 1, "give")})

\* Tasks that end and begin.
Lives ==
  Scenario({}, 14, 2, <<0, 2, 2>>, <<Queue(1), Unused, Unused>>,
    <<{Op("delete", mid, 0), With(Op("create", mid, 0), 2, "none"), Op("delay", 0, 1)},
      {Op("delete", mid, 0), Op("receive", 1, 2)},
      {Op("delay", 0, 1), With(Op("create", mid, 0), 3, "none"), Op("find", mid, 0)}>>, {})

\* A queue and a semaphore in a set, and a task that waits for both and may be late.
\* xQueueOverwrite on the queue would replace an event of the semaphore: the set gets
\* the handle in the position of the item (queue.c:2895).
Sets ==
  Scenario({}, 14, 2, <<1, 2, 2>>,
    <<[Queue(1) EXCEPT !.set = 3], [xQueueCreateCountingSemaphore(2, 0) EXCEPT !.set = 3],
      xQueueCreateSet(3)>>,
    <<{Op("send", 1, 0), With(Op("removeFromSet", 2, 0), 3, "none"), Op("receive", 1, 0)},
      {Op("receive", 3, 1), Op("delay", 0, 1)},
      {Op("receive", 1, 0), Op("take", 2, 0), With(Op("addToSet", 2, 0), 3, "none"),
       Op("delay", 0, 2)}>>,
    {Op("give", 2, 0)})

\* What the timer task does, and a queue that is emptied at once.
Daemon ==
  Scenario({}, 14, 3, <<1, 2, 3>>, <<Queue(2), Queue(1), Unused>>,
    <<{Op("send", 1, 1), With(Op("send", 2, 0), 1, "overwrite")}, {Op("reset", 2, 0), Op("delay", 0, 1)},
      {Op("waitRestricted", 1, 2), Op("receive", 1, 0)}>>, {})

MCScenarios == {Transfer, Filled, Inheritance, Recursion, Delays, Tickless, Control,
                Notifications, Lives, Sets, Daemon}
MCMutexes == {TwoMutexes}

First == INSTANCE MessageQueue WITH contents <- Contents(q[1]), capacity <- q[1].len
Second == INSTANCE MessageQueue WITH contents <- Contents(q[2]), capacity <- q[2].len
Third == INSTANCE MessageQueue WITH contents <- Contents(q[3]), capacity <- q[3].len

\* Each queue is a bounded buffer, read in the order in which it was written: a
\* receiver that was woken, or an interrupt, never takes an item twice or out of
\* order, and no event of a set is lost (xQueueGenericSend, xQueueReceive and
\* prvCopyDataToQueue in queue.c).  Members of the set are sent to at the back.
ImplementsQueue == First!Spec /\ Second!Spec /\ Third!Spec
=============================================================================
