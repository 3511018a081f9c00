------------------------------- MODULE Queues -------------------------------
(***************************************************************************)
(* The queues, semaphores, mutexes and queue sets of queue.c.  The kernel  *)
(* is s = [k, q]: the scheduler of Tasks and a record for each queue:      *)
(*   len, items     uxLength; whether uxItemSize is not 0                  *)
(*   buf            the storage, read and written round the end            *)
(*   read, write    where the last item was read, where the next one goes  *)
(*   count          uxMessagesWaiting                                      *)
(*   rx, tx         cRxLock, cTxLock                                       *)
(*   mutex          uxQueueType = queueQUEUE_IS_MUTEX                      *)
(*   holder, calls  pxMutexHolder, uxRecursiveCallCount                    *)
(*   set            pxQueueSetContainer                                    *)
(* xTasksWaitingToSend and xTasksWaitingToReceive of queue x are the event *)
(* lists <<x, "send">> and <<x, "receive">>.  What a function does in one  *)
(* critical section is one operator.                                       *)
(***************************************************************************)
EXTENDS TaskCalls

CONSTANTS Queues, NoQueue

ASSUME QueuesAssumption == EventLists = Queues \X {"send", "receive"}

Unlocked == -1       \* queueUNLOCKED

Wake(s, e) ==
  IF s.k.waiting[e] = <<>> THEN s ELSE [s EXCEPT !.k = xTaskRemoveFromEventList(@, e)]
WakeYields(s, e) == s.k.waiting[e] # <<>> /\ WakesHigher(s.k, e)

-----------------------------------------------------------------------------
(* Creation                                                                *)

\* xQueueGenericReset with xNewQueue pdTRUE
prvInitialiseNewQueue(length, items) ==
  [len |-> length, items |-> items, buf |-> [i \in 0..(length - 1) |-> 0],
   read |-> length - 1, write |-> 0, count |-> 0, rx |-> Unlocked, tx |-> Unlocked,
   mutex |-> FALSE, holder |-> NoTask, calls |-> 0, set |-> NoQueue]

\* A mutex is given once when it is created.
prvInitialiseMutex ==
  [prvInitialiseNewQueue(1, FALSE) EXCEPT !.mutex = TRUE, !.count = 1]

xQueueCreateCountingSemaphore(max, initial) ==
  [prvInitialiseNewQueue(max, FALSE) EXCEPT !.count = initial]

xQueueCreateSet(length) == prvInitialiseNewQueue(length, TRUE)

\* Of the tasks that wait for room, the first is woken.  The pointers of the storage
\* share a union with the holder of a mutex and its calls, which become 0.
xQueueGenericReset(s, x) ==
  Wake([s EXCEPT !.q[x].count = 0, !.q[x].write = 0, !.q[x].read = s.q[x].len - 1,
                 !.q[x].rx = Unlocked, !.q[x].tx = Unlocked,
                 !.q[x].holder = NoTask, !.q[x].calls = 0], <<x, "send">>)

-----------------------------------------------------------------------------
(* The storage                                                             *)

Successor(queue, i) == (i + 1) % queue.len
Predecessor(queue, i) == (i + queue.len - 1) % queue.len

\* Mutant: the read position is not wrapped where it is put in front.
PutInFront_NoWrap(queue, item) ==
  [queue EXCEPT !.buf[queue.read] = item,
                !.read = IF @ = 0 THEN 0 ELSE @ - 1, !.count = @ + 1]

PutAtBack(queue, item) ==
  [queue EXCEPT !.buf[queue.write] = item, !.write = Successor(queue, @), !.count = @ + 1]
PutInFront(queue, item) ==
  [queue EXCEPT !.buf[queue.read] = item, !.read = Predecessor(queue, @), !.count = @ + 1]

\* An item that is overwritten is not counted twice.
Overwrite(queue, item) ==
  [PutInFront(queue, item) EXCEPT !.count = IF queue.count > 0 THEN queue.count ELSE @]

\* A mutex has no items: to give it is to lay down what its holder inherited.
prvCopyDataToQueue(s, x, item, position) ==
  LET queue == s.q[x]
      given == [s EXCEPT !.k = xTaskPriorityDisinherit(@, queue.holder),
                         !.q[x].holder = NoTask, !.q[x].count = @ + 1]
  IN  IF queue.mutex THEN given
      ELSE IF ~queue.items THEN [s EXCEPT !.q[x].count = @ + 1]
      ELSE [s EXCEPT !.q[x] = CASE position = "back" -> PutAtBack(queue, item)
                                [] position = "front" -> PutInFront(queue, item)
                                [] position = "overwrite" -> Overwrite(queue, item)]
CopyYields(s, x) == s.q[x].mutex /\ Disinherits(s.k, s.q[x].holder)

prvCopyDataFromQueue(queue) ==
  IF queue.items THEN [queue EXCEPT !.read = Successor(queue, @)] ELSE queue

HasRoom(queue, position) == queue.count < queue.len \/ position = "overwrite"
prvIsQueueFull(queue) == queue.count = queue.len
prvIsQueueEmpty(queue) == queue.count = 0

-----------------------------------------------------------------------------
(* Queue sets                                                              *)

SetHasRoom(s, x) == LET set == s.q[s.q[x].set] IN set.count < set.len

\* The handle of the member becomes an item of its set, put where the item was put
\* into the member: an item that overwrites puts it in place of another handle.
prvNotifyQueueSetContainer(s, x, position) ==
  LET set == s.q[x].set
      put == prvCopyDataToQueue(s, set, x, position)
  IN  IF ~SetHasRoom(s, x) THEN s
      ELSE IF put.q[set].tx = Unlocked THEN Wake(put, <<set, "receive">>)
      ELSE [put EXCEPT !.q[set].tx = @ + 1]
NotifySetYields(s, x) ==
  LET set == s.q[x].set
  IN  SetHasRoom(s, x) /\ s.q[set].tx = Unlocked /\ WakeYields(s, <<set, "receive">>)

\* Only a queue that is empty and in no set may enter one.
xQueueAddToSet(queue, set) ==
  IF queue.set # NoQueue \/ queue.count # 0 THEN queue ELSE [queue EXCEPT !.set = set]

-----------------------------------------------------------------------------
(* Sending                                                                 *)

\* Who is told of a new item: the set of the queue, or the first that waits.
Announce(s, x, position) ==
  IF s.q[x].set # NoQueue THEN prvNotifyQueueSetContainer(s, x, position)
                          ELSE Wake(s, <<x, "receive">>)
AnnounceYields(s, x) ==
  IF s.q[x].set # NoQueue THEN NotifySetYields(s, x)
                          ELSE WakeYields(s, <<x, "receive">>)

\* Nothing becomes available when an item in a set's member is overwritten.
OnlyReplaced(queue, position) ==
  queue.set # NoQueue /\ position = "overwrite" /\ queue.count > 0

\* xQueueGenericSend when there is room
xQueueGenericSend(s, x, item, position) ==
  LET put == prvCopyDataToQueue(s, x, item, position)
  IN  IF OnlyReplaced(s.q[x], position) THEN put ELSE Announce(put, x, position)
SendYields(s, x, item, position) ==
  LET put == prvCopyDataToQueue(s, x, item, position)
  IN  /\ ~OnlyReplaced(s.q[x], position)
      /\ \/ AnnounceYields(put, x)
         \/ /\ s.q[x].set = NoQueue
            /\ s.k.waiting[<<x, "receive">>] = <<>>
            /\ CopyYields(s, x)

\* On a locked queue an interrupt counts what the task that locked it will tell.
AnnounceFromISR(s, x, position) ==
  IF s.q[x].tx = Unlocked THEN Announce(s, x, position) ELSE [s EXCEPT !.q[x].tx = @ + 1]
AnnounceFromISRYields(s, x) == s.q[x].tx = Unlocked /\ AnnounceYields(s, x)

xQueueGenericSendFromISR(s, x, item, position) ==
  AnnounceFromISR(prvCopyDataToQueue(s, x, item, position), x, position)

xQueueGiveFromISR(s, x) == AnnounceFromISR([s EXCEPT !.q[x].count = @ + 1], x, "back")

-----------------------------------------------------------------------------
(* Receiving                                                               *)

Got(s, x) ==
  LET copied == prvCopyDataFromQueue(s.q[x])
  IN  [s EXCEPT !.q[x] = [copied EXCEPT !.count = @ - 1]]

\* The first that waits for room is woken.
xQueueReceive(s, x) == Wake(Got(s, x), <<x, "send">>)
ReceiveYields(s, x) == WakeYields(s, <<x, "send">>)

\* The item stays, for the next that waits for one.
xQueuePeek(s, x) == Wake(s, <<x, "receive">>)
PeekYields(s, x) == WakeYields(s, <<x, "receive">>)

xQueueSemaphoreTake(s, x) ==
  LET less == [s EXCEPT !.q[x].count = @ - 1]
      held == [less EXCEPT !.k = pvTaskIncrementMutexHeldCount(@), !.q[x].holder = s.k.cur]
  IN  Wake(IF s.q[x].mutex THEN held ELSE less, <<x, "send">>)

xQueueReceiveFromISR(s, x) ==
  LET got == Got(s, x)
  IN  IF got.q[x].rx = Unlocked THEN Wake(got, <<x, "send">>)
                                ELSE [got EXCEPT !.q[x].rx = @ + 1]
ReceiveFromISRYields(s, x) == s.q[x].rx = Unlocked /\ WakeYields(s, <<x, "send">>)

\* What the holder of a mutex keeps when a task stops waiting for it.
prvGetDisinheritPriorityAfterTimeout(s, x) ==
  LET waiting == s.k.waiting[<<x, "receive">>]
  IN  IF waiting = <<>> THEN 0 ELSE configMAX_PRIORITIES - s.k.tcb[Head(waiting)].value

-----------------------------------------------------------------------------
(* Locks                                                                   *)

prvLockQueue(queue) == [queue EXCEPT !.rx = Max({@, 0}), !.tx = Max({@, 0})]

\* Mutant: what came while the queue was locked is told to one task only.
UnlockSent_Once(s, x) ==
  LET told == IF s.q[x].tx > 0 THEN Announce(s, x, "back") ELSE s
  IN  [told EXCEPT !.q[x].tx = Unlocked]

\* The two critical sections of prvUnlockQueue.
UnlockSent(s, x) ==
  LET times == Max({s.q[x].tx, 0})
      told[n \in 0..times] == IF n = 0 THEN s ELSE Announce(told[n - 1], x, "back")
  IN  [told[times] EXCEPT !.q[x].tx = Unlocked]
UnlockReceived(s, x) ==
  LET times == Max({s.q[x].rx, 0})
      told[n \in 0..times] == IF n = 0 THEN s ELSE Wake(told[n - 1], <<x, "send">>)
  IN  [told[times] EXCEPT !.q[x].rx = Unlocked]
=============================================================================
