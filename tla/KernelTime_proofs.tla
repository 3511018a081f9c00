------------------------- MODULE KernelTime_proofs -------------------------
(***************************************************************************)
(* The theorem about the delays and time-outs of the kernel: nobody waits  *)
(* past its time, across wraps of the tick count, ticks that are missed    *)
(* while the scheduler is locked, and sleep.  For any tasks, queues and    *)
(* priorities, any width of the tick count, and every scenario that        *)
(* KernelAssumption admits, as long as it stays within the reach of the    *)
(* counters (InReach).                                                     *)
(***************************************************************************)
EXTENDS Kernel_proofs

-----------------------------------------------------------------------------
(* The times at which tasks wake                                           *)

\* Equal but for turns of the tick count.
Same(a, b) == \E m \in Int : a = b + m * TickMod

LEMMA Turn == TickMod \in Nat /\ TickMod > 1 /\ MAX_DELAY = TickMod - 1 /\ MAX_DELAY \in Nat
BY TasksAssumption DEF MAX_DELAY

LEMMA Turned ==
  ASSUME NEW a \in Int
  PROVE  a % TickMod \in 0..MAX_DELAY /\ Same(a, a % TickMod)
<1> DEFINE m == a \div TickMod  r == a % TickMod
<1>1. TickMod \in Nat /\ TickMod > 0
  BY Turn
<1>2. m \in Int /\ r \in Int /\ 0 <= r /\ r < TickMod /\ a = m * TickMod + r
  BY <1>1
<1>3. a = r + m * TickMod
  <2>1. m * TickMod \in Int
    BY <1>1, <1>2
  <2> HIDE DEF m, r
  <2> QED
    BY <1>2, <2>1
<1> HIDE DEF m, r
<1>4. r \in 0..MAX_DELAY /\ Same(a, r)
  BY <1>2, <1>3, Turn DEF Same
<1> QED
  BY <1>4 DEF r

LEMMA Multiple ==
  ASSUME NEW m \in Int
  PROVE  /\ m * TickMod \in Int
         /\ m >= 1 => m * TickMod >= TickMod
         /\ m <= -1 => m * TickMod <= -TickMod
         /\ m = 0 => m * TickMod = 0
         /\ m = 1 => m * TickMod = TickMod
         /\ m = -1 => m * TickMod = -TickMod
<1>1. TickMod \in Int /\ TickMod > 0
  BY Turn
<1>2. m * TickMod \in Int
  BY <1>1
<1>3. m >= 1 => m * TickMod >= TickMod
  BY <1>1
<1>4. m <= -1 => m * TickMod <= -TickMod
  BY <1>1
<1> QED
  BY <1>1, <1>2, <1>3, <1>4

LEMMA SameSum ==
  ASSUME NEW a \in Int, NEW b \in Int, NEW c \in Int, NEW d \in Int, Same(a, b), Same(c, d)
  PROVE  Same(b, a) /\ Same(a + c, b + d) /\ Same(a - c, b - d) /\ Same(a, a)
<1>1. PICK m \in Int : a = b + m * TickMod
  BY DEF Same
<1>2. PICK n \in Int : c = d + n * TickMod
  BY DEF Same
<1>3. TickMod \in Int
  BY Turn
<1>4. (m + n) * TickMod = m * TickMod + n * TickMod /\ (m - n) * TickMod = m * TickMod - n * TickMod
      /\ (-m) * TickMod = -(m * TickMod) /\ m * TickMod \in Int /\ n * TickMod \in Int /\ 0 * TickMod = 0
  BY <1>3
<1>5. m + n \in Int /\ m - n \in Int /\ -m \in Int /\ 0 \in Int
  OBVIOUS
<1>6. /\ b = a + (-m) * TickMod /\ a + c = (b + d) + (m + n) * TickMod
      /\ a - c = (b - d) + (m - n) * TickMod /\ a = a + 0 * TickMod
  BY <1>1, <1>2, <1>4
<1> QED
  BY <1>5, <1>6 DEF Same

LEMMA SameSelf ==
  ASSUME NEW a \in Int
  PROVE  Same(a, a)
<1>1. TickMod \in Int /\ a = a + 0 * TickMod
  BY Turn
<1> QED
  BY <1>1 DEF Same

LEMMA SameTwice ==
  ASSUME NEW a \in Int, NEW b \in Int, NEW c \in Int, Same(a, b), Same(b, c)
  PROVE  Same(a, c)
<1>1. PICK m \in Int : a = b + m * TickMod
  BY DEF Same
<1>2. PICK n \in Int : b = c + n * TickMod
  BY DEF Same
<1>3. TickMod \in Int
  BY Turn
<1>4. (m + n) * TickMod = m * TickMod + n * TickMod /\ m * TickMod \in Int /\ n * TickMod \in Int
  BY <1>3
<1>5. m + n \in Int /\ a = c + (m + n) * TickMod
  BY <1>1, <1>2, <1>4
<1> QED
  BY <1>5 DEF Same

\* Values that differ by less than a turn.
LEMMA SameNear ==
  ASSUME NEW a \in Int, NEW b \in Int, Same(a, b)
  PROVE  /\ (a - b < TickMod /\ b - a < TickMod) => a = b
         /\ (0 <= a /\ 0 <= b - a) => b = a \/ b - a >= TickMod
         /\ (0 < b - a /\ b - a < 2 * TickMod) => b = a + TickMod
<1>1. PICK m \in Int : a = b + m * TickMod
  BY DEF Same
<1>2. m >= 1 \/ m = 0 \/ m = -1 \/ m <= -2
  BY <1>1
<1>3. m <= -2 => m * TickMod <= -(2 * TickMod)
  BY Turn
<1> QED
  BY <1>1, <1>2, <1>3, Multiple, Turn

\* Two ticks added, or taken from each other.
LEMMA WrapSum ==
  ASSUME NEW a \in 0..MAX_DELAY, NEW b \in 0..MAX_DELAY
  PROVE  (a + b) % TickMod = IF a + b < TickMod THEN a + b ELSE a + b - TickMod
<1> DEFINE r == (a + b) % TickMod
<1>1. a + b \in Int /\ r \in 0..MAX_DELAY /\ Same(a + b, r)
  BY Turned, Turn
<1>2. PICK m \in Int : a + b = r + m * TickMod
  BY <1>1 DEF Same
<1>3. m >= 2 => m * TickMod >= 2 * TickMod
  BY Turn
<1>4. m >= 2 \/ m = 1 \/ m = 0 \/ m <= -1
  OBVIOUS
<1> HIDE DEF r
<1>5. r = IF a + b < TickMod THEN a + b ELSE a + b - TickMod
  BY <1>1, <1>2, <1>3, <1>4, Multiple, Turn
<1> QED
  BY <1>5 DEF r

\* The tasks that wait for a time: those of one list wake before the tick count
\* wraps, those of the other after; none wakes later than it is due.  clock is the
\* time that c has counted.
Timed(c, clock, due) ==
  /\ c.tick \in 0..MAX_DELAY /\ c.next <= MAX_DELAY
  /\ c.tick < c.next \/ c.next = MAX_DELAY
  /\ \A t \in ToSet(c.delayed) :
       /\ c.tick < c.tcb[t].wake /\ c.tcb[t].wake <= MAX_DELAY
       /\ clock + c.tcb[t].wake - c.tick <= due[t]
  /\ \A t \in ToSet(c.overflow) :
       /\ c.tcb[t].wake <= MAX_DELAY
       /\ clock + c.tcb[t].wake + TickMod - c.tick <= due[t]

\* Who waits in d waited in c, and is due at the same time.
SameDue(d, due, old) == \A t \in ToSet(d.delayed) \cup ToSet(d.overflow) : due[t] = old[t]

LEMMA CalmTimed ==
  ASSUME NEW c, NEW d, NEW clock, NEW old, NEW due, Timed(c, clock, old), Calm(d, c), SameDue(d, due, old)
  PROVE  Timed(d, clock, due)
<1>1. d.tick = c.tick /\ c.tick \in 0..MAX_DELAY
  BY DEF Calm, Timed
<1>2. d.next <= MAX_DELAY /\ (d.tick < d.next \/ d.next = MAX_DELAY)
  <2>1. CASE d.next = c.next
    BY <1>1, <2>1 DEF Timed
  <2>2. CASE d.next = MAX_DELAY
    BY <2>2, Turn
  <2>3. CASE \E t \in ToSet(c.delayed) : d.next = c.tcb[t].wake
    BY <1>1, <2>3 DEF Timed
  <2> QED
    BY <2>1, <2>2, <2>3 DEF Calm
<1>3. ASSUME NEW t \in ToSet(d.delayed)
      PROVE  /\ d.tick < d.tcb[t].wake /\ d.tcb[t].wake <= MAX_DELAY
             /\ clock + d.tcb[t].wake - d.tick <= due[t]
  <2>1. t \in ToSet(c.delayed) /\ d.tcb[t].wake = c.tcb[t].wake /\ due[t] = old[t]
    BY DEF Calm, SameDue
  <2> QED
    BY <1>1, <2>1 DEF Timed
<1>4. ASSUME NEW t \in ToSet(d.overflow)
      PROVE  d.tcb[t].wake <= MAX_DELAY /\ clock + d.tcb[t].wake + TickMod - d.tick <= due[t]
  <2>1. t \in ToSet(c.overflow) /\ d.tcb[t].wake = c.tcb[t].wake /\ due[t] = old[t]
    BY DEF Calm, SameDue
  <2> QED
    BY <1>1, <2>1 DEF Timed
<1> QED
  BY <1>1, <1>2, <1>3, <1>4 DEF Timed

\* At most x starts to wait, for a time of r.
Dozes(d, c, x, r) ==
  /\ d.tick = c.tick /\ d.missed = c.missed /\ (d.locked = 0 => c.locked = 0)
  /\ ToSet(d.delayed) \subseteq ToSet(c.delayed) \cup {x}
  /\ ToSet(d.overflow) \subseteq ToSet(c.overflow) \cup {x}
  /\ \A t \in (ToSet(d.delayed) \cup ToSet(d.overflow)) \ {x} : d.tcb[t].wake = c.tcb[t].wake
  /\ x \in ToSet(d.delayed) => d.tcb[x].wake = c.tick + r /\ c.tick + r <= MAX_DELAY
  /\ x \in ToSet(d.overflow) => d.tcb[x].wake = c.tick + r - TickMod
  /\ \/ d.next = c.next \/ d.next = MAX_DELAY
     \/ \E t \in ToSet(c.delayed) : d.next = c.tcb[t].wake
     \/ d.next = c.tick + r /\ c.tick + r <= MAX_DELAY

LEMMA DozesCalm ==
  ASSUME NEW c, NEW d, NEW x, NEW r, Calm(d, c), x \notin ToSet(c.delayed), x \notin ToSet(c.overflow)
  PROVE  Dozes(d, c, x, r)
BY DEF Dozes, Calm

LEMMA CalmDozes ==
  ASSUME NEW c, NEW m, NEW d, NEW x, NEW r, Calm(m, c), Dozes(d, m, x, r),
         x \notin ToSet(m.delayed), x \notin ToSet(m.overflow)
  PROVE  Dozes(d, c, x, r)
<1>1. /\ m.tick = c.tick /\ m.missed = c.missed /\ (m.locked = 0 => c.locked = 0)
      /\ ToSet(m.delayed) \subseteq ToSet(c.delayed) /\ ToSet(m.overflow) \subseteq ToSet(c.overflow)
      /\ \A t \in ToSet(m.delayed) \cup ToSet(m.overflow) : m.tcb[t].wake = c.tcb[t].wake
      /\ \/ m.next = c.next \/ m.next = MAX_DELAY
         \/ \E t \in ToSet(c.delayed) : m.next = c.tcb[t].wake
  BY DEF Calm
<1>2. \A t \in (ToSet(d.delayed) \cup ToSet(d.overflow)) \ {x} :
        t \in ToSet(m.delayed) \cup ToSet(m.overflow) /\ d.tcb[t].wake = m.tcb[t].wake
  BY DEF Dozes
<1>3. \/ d.next = c.next \/ d.next = MAX_DELAY
      \/ \E t \in ToSet(c.delayed) : d.next = c.tcb[t].wake
      \/ d.next = c.tick + r /\ c.tick + r <= MAX_DELAY
  <2>1. \A t \in ToSet(m.delayed) : t \in ToSet(c.delayed) /\ m.tcb[t].wake = c.tcb[t].wake
    BY <1>1
  <2> QED
    BY <1>1, <2>1 DEF Dozes
<1> QED
  BY <1>1, <1>2, <1>3 DEF Dozes

LEMMA DozesThenCalm ==
  ASSUME NEW c, NEW m, NEW d, NEW x, NEW r, Dozes(m, c, x, r), Calm(d, m)
  PROVE  Dozes(d, c, x, r)
<1>1. \A t \in ToSet(d.delayed) \cup ToSet(d.overflow) :
        d.tcb[t].wake = m.tcb[t].wake /\ (t # x => m.tcb[t].wake = c.tcb[t].wake)
  BY DEF Calm, Dozes
<1>2. \A t \in ToSet(m.delayed) :
        IF t = x THEN m.tcb[t].wake = c.tick + r /\ c.tick + r <= MAX_DELAY
        ELSE t \in ToSet(c.delayed) /\ m.tcb[t].wake = c.tcb[t].wake
  BY DEF Dozes
<1>3. \/ d.next = c.next \/ d.next = MAX_DELAY
      \/ \E t \in ToSet(c.delayed) : d.next = c.tcb[t].wake
      \/ d.next = c.tick + r /\ c.tick + r <= MAX_DELAY
  <2>1. CASE d.next = m.next
    BY <2>1 DEF Dozes
  <2>2. CASE d.next = MAX_DELAY
    BY <2>2
  <2>3. CASE \E t \in ToSet(m.delayed) : d.next = m.tcb[t].wake
    BY <1>2, <2>3
  <2> QED
    BY <2>1, <2>2, <2>3 DEF Calm
<1> QED
  BY <1>1, <1>3 DEF Dozes, Calm

\* The task that starts to wait is due no earlier than its time ends.
LEMMA DozesTimed ==
  ASSUME NEW c, NEW d, NEW clock \in Int, NEW old, NEW due, NEW x, NEW r \in 1..MAX_DELAY,
         Timed(c, clock, old), Dozes(d, c, x, r), due[x] \in Int, clock + r <= due[x],
         \A t \in (ToSet(d.delayed) \cup ToSet(d.overflow)) \ {x} : due[t] = old[t]
  PROVE  Timed(d, clock, due)
<1>1. d.tick = c.tick /\ c.tick \in 0..MAX_DELAY
  BY DEF Dozes, Timed
<1>2. d.next <= MAX_DELAY /\ (d.tick < d.next \/ d.next = MAX_DELAY)
  <2>1. CASE d.next = c.next
    BY <1>1, <2>1 DEF Timed
  <2>2. CASE d.next = MAX_DELAY
    BY <2>2, Turn
  <2>3. CASE \E t \in ToSet(c.delayed) : d.next = c.tcb[t].wake
    BY <1>1, <2>3 DEF Timed
  <2>4. CASE d.next = c.tick + r /\ c.tick + r <= MAX_DELAY
    BY <1>1, <2>4, Turn
  <2> QED
    BY <2>1, <2>2, <2>3, <2>4 DEF Dozes
<1>3. ASSUME NEW t \in ToSet(d.delayed)
      PROVE  /\ d.tick < d.tcb[t].wake /\ d.tcb[t].wake <= MAX_DELAY
             /\ clock + d.tcb[t].wake - d.tick <= due[t]
  <2>1. CASE t = x
    <3>1. d.tcb[t].wake = c.tick + r /\ c.tick + r <= MAX_DELAY
      BY <2>1 DEF Dozes
    <3> QED
      BY <1>1, <2>1, <3>1, Turn
  <2>2. CASE t # x
    <3>1. t \in ToSet(c.delayed) /\ d.tcb[t].wake = c.tcb[t].wake /\ due[t] = old[t]
      BY <2>2 DEF Dozes
    <3> QED
      BY <1>1, <3>1 DEF Timed
  <2> QED
    BY <2>1, <2>2
<1>4. ASSUME NEW t \in ToSet(d.overflow)
      PROVE  d.tcb[t].wake <= MAX_DELAY /\ clock + d.tcb[t].wake + TickMod - d.tick <= due[t]
  <2>1. CASE t = x
    <3>1. d.tcb[t].wake = c.tick + r - TickMod
      BY <2>1 DEF Dozes
    <3> QED
      BY <1>1, <2>1, <3>1, Turn
  <2>2. CASE t # x
    <3>1. t \in ToSet(c.overflow) /\ d.tcb[t].wake = c.tcb[t].wake /\ due[t] = old[t]
      BY <2>2 DEF Dozes
    <3> QED
      BY <1>1, <3>1 DEF Timed
  <2> QED
    BY <2>1, <2>2
<1> QED
  BY <1>1, <1>2, <1>3, <1>4 DEF Timed

LEMMA AddDelayedDozes ==
  ASSUME NEW c \in KernelType, NEW x \in Everyone, x \notin ToSet(c.delayed), x \notin ToSet(c.overflow),
         c.tick \in 0..MAX_DELAY, NEW r \in 1..MAX_DELAY
  PROVE  Dozes(AddDelayed(c, x, (c.tick + r) % TickMod), c, x, r)
<1> DEFINE wake == (c.tick + r) % TickMod  d == AddDelayed(c, x, wake)
           value == [u \in DOMAIN c.tcb |-> IF u = x THEN wake ELSE c.tcb[u].wake]
           tcb == [c.tcb EXCEPT ![x].wake = wake]
           late == vListInsert(c.overflow, x, value)  soon == vListInsert(c.delayed, x, value)
<1>1. wake = IF c.tick + r < TickMod THEN c.tick + r ELSE c.tick + r - TickMod
  BY WrapSum, Turn
<1>2. wake \in Nat /\ c.next \in Nat /\ c.tick \in Nat
  BY <1>1, Turn DEF KernelType
<1> HIDE DEF wake
<1>3. DOMAIN c.tcb = Everyone /\ c.tcb \in [Everyone -> Tcbs] /\ c.tcb[x] \in Tcbs
      /\ \A t \in Everyone : c.tcb[t].wake \in Nat
  BY TcbOf DEF KernelType
<1>4. value \in [Everyone -> Nat]
  BY <1>2, <1>3
<1>5. tcb[x].wake = wake /\ \A t \in Everyone \ {x} : tcb[t] = c.tcb[t]
  <2>1. tcb[x] = [c.tcb[x] EXCEPT !.wake = wake]
    BY <1>3
  <2> QED
    BY <1>3, <2>1 DEF Tcbs
<1>6. c.delayed \in Rows(Everyone) /\ c.overflow \in Rows(Everyone)
  BY DEF KernelType
<1> HIDE DEF value
<1>7. ToSet(late) = ToSet(c.overflow) \cup {x} /\ ToSet(soon) = ToSet(c.delayed) \cup {x}
  BY <1>4, <1>6, ListInsert DEF Inserts
<1>8. ToSet(c.delayed) \subseteq Everyone /\ ToSet(c.overflow) \subseteq Everyone
  BY <1>6, InEveryone
<1>9. CASE wake < c.tick
  <2>1. d = [c EXCEPT !.tcb[x].wake = wake, !.overflow = late]
    BY <1>9 DEF AddDelayed, value
  <2>2. d = [c EXCEPT !.tcb = tcb, !.overflow = late]
    BY <2>1 DEF KernelType
  <2> HIDE DEF d, tcb, late, soon
  <2>3. /\ d.tick = c.tick /\ d.missed = c.missed /\ d.locked = c.locked /\ d.delayed = c.delayed
        /\ d.overflow = late /\ d.next = c.next /\ d.tcb = tcb
    BY <2>2 DEF KernelType
  <2>4. wake = c.tick + r - TickMod
    BY <1>1, <1>2, <1>9, Turn
  <2>5. Dozes(d, c, x, r)
    BY <1>5, <1>7, <1>8, <2>3, <2>4 DEF Dozes
  <2> QED
    BY <2>5 DEF d, wake
<1>10. CASE ~(wake < c.tick)
  <2> DEFINE next == Min({c.next, wake})
  <2>1. d = [c EXCEPT !.tcb[x].wake = wake, !.delayed = soon, !.next = next]
    BY <1>10 DEF AddDelayed, value
  <2>2. d = [c EXCEPT !.tcb = tcb, !.delayed = soon, !.next = next]
    BY <2>1 DEF KernelType
  <2>3. next = c.next \/ next = wake
    BY <1>2, MinOfTwo
  <2> HIDE DEF d, tcb, late, soon, next
  <2>4. /\ d.tick = c.tick /\ d.missed = c.missed /\ d.locked = c.locked /\ d.delayed = soon
        /\ d.overflow = c.overflow /\ d.next = next /\ d.tcb = tcb
    BY <2>2 DEF KernelType
  <2>5. wake = c.tick + r /\ c.tick + r <= MAX_DELAY
    BY <1>1, <1>2, <1>10, Turn
  <2>6. Dozes(d, c, x, r)
    BY <1>5, <1>7, <1>8, <2>3, <2>4, <2>5 DEF Dozes
  <2> QED
    BY <2>6 DEF d, wake
<1> QED
  BY <1>9, <1>10 DEF wake

LEMMA WaitDozes ==
  ASSUME NEW c \in KernelType, c.cur \in Everyone, c.tick \in 0..MAX_DELAY, NEW r \in 1..MAX_DELAY,
         NEW indefinitely
  PROVE  Dozes(prvAddCurrentTaskToDelayedList(c, r, indefinitely), c, c.cur, r)
<1> DEFINE x == c.cur  b == [c.tcb[x] EXCEPT !.aborted = FALSE]
           m == [c EXCEPT !.tcb = [c.tcb EXCEPT ![x] = b]]
           off == OffStateList(m, x)
           d == prvAddCurrentTaskToDelayedList(c, r, indefinitely)
           wake == (c.tick + r) % TickMod
           asleep == [off EXCEPT !.suspended = Append(@, x)]
<1>1. c.tcb[x] \in Tcbs
  BY TcbOf
<1>2. b \in Tcbs /\ b.wake = c.tcb[x].wake
  BY <1>1 DEF Tcbs
<1>3. [c EXCEPT !.tcb[x].aborted = FALSE] = m
  BY <1>1 DEF KernelType
<1> HIDE DEF b
<1>4. /\ m \in KernelType /\ m.tcb[x] = b /\ \A t \in Everyone \ {x} : m.tcb[t] = c.tcb[t]
      /\ SamePlaces(m, c) /\ SameRest(m, c) /\ m.next = c.next
  BY <1>2, TcbChanged
<1>5. d = IF indefinitely /\ WaitsForEver(c, r) THEN asleep ELSE AddDelayed(off, x, wake)
  BY <1>3 DEF prvAddCurrentTaskToDelayedList
<1> HIDE DEF m
<1>6. OffState(off, m, x)
  BY <1>4, OffStateListed
<1> HIDE DEF off
<1>7. /\ off \in KernelType /\ off.tick = c.tick /\ SameRest(off, c) /\ off.next = c.next
      /\ ToSet(off.delayed) = ToSet(c.delayed) \ {x} /\ ToSet(off.overflow) = ToSet(c.overflow) \ {x}
      /\ \A t \in Everyone : off.tcb[t].wake = c.tcb[t].wake
  BY <1>2, <1>4, <1>6 DEF OffState, SamePlaces, SameRest
<1>8. Calm(off, c)
  BY <1>7, CalmSame
<1>9. CASE indefinitely /\ WaitsForEver(c, r)
  <2>1. /\ asleep.delayed = off.delayed /\ asleep.overflow = off.overflow /\ asleep.tcb = off.tcb
        /\ asleep.tick = off.tick /\ asleep.overflows = off.overflows /\ asleep.missed = off.missed
        /\ asleep.locked = off.locked /\ asleep.next = off.next
    BY <1>7 DEF KernelType
  <2> HIDE DEF asleep
  <2>2. Calm(asleep, off)
    BY <2>1 DEF Calm
  <2>3. Dozes(asleep, off, x, r)
    BY <1>7, <2>2, DozesCalm
  <2> QED
    BY <1>5, <1>7, <1>8, <1>9, <2>3, CalmDozes
<1>10. CASE ~(indefinitely /\ WaitsForEver(c, r))
  <2>1. Dozes(AddDelayed(off, x, (off.tick + r) % TickMod), off, x, r)
    BY <1>7, AddDelayedDozes
  <2> QED
    BY <1>5, <1>7, <1>8, <1>10, <2>1, CalmDozes
<1> QED
  BY <1>9, <1>10

-----------------------------------------------------------------------------
(* The invariant of the times                                              *)

Dues == [t \in Everyone |-> call[t].due]

\* A call that is on its way to wait has some time to wait for.
WaitSteps == {"suspend", "lock", "check", "test", "inherit", "place", "restricted", "delay"}
CallTimed(c) ==
  /\ c.wait \in 0..MAX_DELAY /\ (c.at \in WaitSteps => c.wait # 0)
  /\ c.last \in 0..MAX_DELAY /\ Same(plan.start + c.mark, c.last)

TimeInv ==
  /\ Timed(k, Clock, Dues)
  /\ k.locked = 0 => k.missed = 0
  /\ Same(plan.start + Clock, k.tick)
  /\ \A t \in Everyone : CallTimed(call[t])

LEMMA DuesOf ==
  ASSUME KernelInv
  PROVE  \A t \in Everyone : Dues[t] = call[t].due /\ call[t].due \in Int /\ call[t] \in CallType
BY DEF Dues, KernelInv, CallsSound, CallType

LEMMA StartOf ==
  ASSUME KernelInv
  PROVE  plan.start \in 0..MAX_DELAY /\ plan.start \in Int /\ Clock \in Int /\ k.tick \in Int
<1>1. plan.start \in 0..MAX_DELAY
  BY KernelAssumption DEF KernelInv
<1> QED
  BY <1>1, CurrentTask, Turn DEF KernelType

\* A task that is ready, gone or not there waits for no time.
LEMMA NotWaiting ==
  ASSUME KernelInv, NEW t \in Everyone, IsReady(k, t) \/ ~Exists(k, t) \/ t \in ToSet(k.ended)
  PROVE  t \notin ToSet(k.delayed) /\ t \notin ToSet(k.overflow)
<1>1. StateListed(k, t)
  BY DEF KernelInv, Steady, Sound, Listed
<1> QED
  BY <1>1 DEF StateListed

\* A step in which no time passes and nobody starts to wait for a time.
LEMMA CalmTime ==
  ASSUME KernelInv, KernelInv', TimeInv, Calm(k', k), plan' = plan, now' = now,
         \A t \in ToSet(k'.delayed) \cup ToSet(k'.overflow) : call'[t].due = call[t].due,
         \A t \in Everyone : CallTimed(call'[t])
  PROVE  TimeInv'
<1>1. Clock' = Clock /\ k'.tick = k.tick
  BY DEF Clock, Calm
<1>2. (\A t \in Everyone : Dues[t] = call[t].due)' /\ \A t \in Everyone : Dues[t] = call[t].due
  BY DEF Dues
<1>3. ToSet(k'.delayed) \subseteq Everyone /\ ToSet(k'.overflow) \subseteq Everyone
  BY InEveryone DEF KernelInv, Steady, Sound, KernelType
<1>4. SameDue(k', Dues', Dues)
  BY <1>2, <1>3 DEF SameDue
<1>5. Timed(k', Clock, Dues')
  BY <1>4, CalmTimed DEF TimeInv
<1>6. Timed(k, Clock, Dues)'
  BY <1>1, <1>5
<1>7. (k.locked = 0 => k.missed = 0)'
  BY DEF TimeInv, Calm
<1>8. Same(plan.start + Clock, k.tick)'
  BY <1>1 DEF TimeInv, Same
<1>9. (\A t \in Everyone : CallTimed(call[t]))'
  BY DEF CallTimed, Same
<1> QED
  BY <1>6, <1>7, <1>8, <1>9 DEF TimeInv

\* The step changes the call of the current task, which is due when it was or is
\* ready and waits for nothing.
LEMMA DoTime ==
  ASSUME KernelInv, KernelInv', TimeInv, Calm(k', k), NEW nk, NEW nq, NEW c, Do(nk, nq, c),
         CallTimed(c), c.due = Me.due \/ IsReady(k, k.cur)
  PROVE  TimeInv'
<1>1. call' = [call EXCEPT ![k.cur] = c] /\ plan' = plan /\ now' = now
  BY DEF Do
<1>2. k.cur \in Everyone /\ Me = call[k.cur] /\ call \in [Everyone -> CallType]
  BY CurrentTask DEF KernelInv, CallsSound
<1>3. call'[k.cur] = c /\ \A t \in Everyone \ {k.cur} : call'[t] = call[t]
  BY <1>1, <1>2
<1>4. \A t \in Everyone : CallTimed(call'[t])
  BY <1>3 DEF TimeInv
<1>5. ASSUME NEW t \in ToSet(k'.delayed) \cup ToSet(k'.overflow)
      PROVE  call'[t].due = call[t].due
  <2>1. t \in ToSet(k.delayed) \cup ToSet(k.overflow) /\ t \in Everyone
    <3>1. ToSet(k.delayed) \subseteq Everyone /\ ToSet(k.overflow) \subseteq Everyone
      BY InEveryone DEF KernelInv, Steady, Sound, KernelType
    <3> QED
      BY <3>1 DEF Calm
  <2>2. t # k.cur \/ c.due = Me.due
    BY <1>2, <2>1, NotWaiting
  <2> QED
    BY <1>2, <1>3, <2>1, <2>2
<1> QED
  BY <1>1, <1>4, <1>5, CalmTime

\* It changes that of task t too, which is due when it was or waits no more.
LEMMA DoWithTime ==
  ASSUME KernelInv, KernelInv', TimeInv, Calm(k', k), NEW nk, NEW c, NEW t \in Everyone, NEW b,
         DoWith(nk, c, t, b), CallTimed(c), c.due = Me.due \/ IsReady(k, k.cur), CallTimed(b),
         \/ b.due = call[t].due
         \/ t \notin ToSet(k'.delayed) /\ t \notin ToSet(k'.overflow)
  PROVE  TimeInv'
<1> DEFINE f == [call EXCEPT ![k.cur] = c, ![t] = IF t = k.cur THEN c ELSE b]
<1>1. call' = f /\ plan' = plan /\ now' = now
  BY DEF DoWith
<1>2. k.cur \in Everyone /\ Me = call[k.cur] /\ call \in [Everyone -> CallType]
  BY CurrentTask DEF KernelInv, CallsSound
<1>3. /\ f[k.cur] = c /\ (t # k.cur => f[t] = b)
      /\ \A u \in Everyone \ {k.cur, t} : f[u] = call[u]
  BY <1>2
<1> HIDE DEF f
<1>4. \A u \in Everyone : CallTimed(call'[u])
  BY <1>1, <1>3 DEF TimeInv
<1>5. ASSUME NEW u \in ToSet(k'.delayed) \cup ToSet(k'.overflow)
      PROVE  call'[u].due = call[u].due
  <2>1. u \in ToSet(k.delayed) \cup ToSet(k.overflow) /\ u \in Everyone
    <3>1. ToSet(k.delayed) \subseteq Everyone /\ ToSet(k.overflow) \subseteq Everyone
      BY InEveryone DEF KernelInv, Steady, Sound, KernelType
    <3> QED
      BY <3>1 DEF Calm
  <2>2. CASE u = k.cur
    <3>1. c.due = Me.due
      BY <1>2, <2>1, <2>2, NotWaiting
    <3> QED
      BY <1>1, <1>2, <1>3, <2>2, <3>1
  <2>3. CASE u # k.cur /\ u = t
    BY <1>1, <1>3, <2>3
  <2>4. CASE u # k.cur /\ u # t
    BY <1>1, <1>3, <2>1, <2>4
  <2> QED
    BY <2>2, <2>3, <2>4
<1> QED
  BY <1>1, <1>4, <1>5, CalmTime

-----------------------------------------------------------------------------
(* The steps in which no time passes and nobody starts to wait             *)

LEMMA MeTimed ==
  ASSUME KernelInv, TimeInv
  PROVE  CallTimed(Me) /\ Me \in CallType /\ k.cur \in Everyone
BY CurrentTask DEF TimeInv

\* The call with the times it had.
LEMMA TimedStill ==
  ASSUME NEW c, NEW d, CallTimed(c), d.wait = c.wait, d.last = c.last, d.mark = c.mark,
         d.at \notin WaitSteps \/ c.at \in WaitSteps
  PROVE  CallTimed(d)
BY DEF CallTimed

LEMMA TimedAt ==
  ASSUME NEW c \in CallType, NEW step
  PROVE  LET d == [c EXCEPT !.at = step]
         IN  d.wait = c.wait /\ d.last = c.last /\ d.mark = c.mark /\ d.due = c.due /\ d.at = step
BY DEF CallType

LEMMA GoTime ==
  ASSUME KernelInv, KernelInv', TimeInv, Calm(k', k), NEW nk, NEW nq, NEW step, GoTo(nk, nq, step),
         step \notin WaitSteps \/ Me.at \in WaitSteps
  PROVE  TimeInv'
<1> DEFINE c == [Me EXCEPT !.at = step]
<1>1. c.wait = Me.wait /\ c.last = Me.last /\ c.mark = Me.mark /\ c.due = Me.due /\ c.at = step
  BY MeTimed, TimedAt
<1>2. Do(nk, nq, c)
  BY DEF GoTo
<1> HIDE DEF c
<1>3. CallTimed(c)
  BY <1>1, MeTimed, TimedStill
<1> QED
  BY <1>1, <1>2, <1>3, DoTime

LEMMA BackTimed ==
  ASSUME KernelInv, TimeInv
  PROVE  CallTimed([NoCall EXCEPT !.last = Me.last, !.mark = Me.mark])
<1> DEFINE c == [NoCall EXCEPT !.last = Me.last, !.mark = Me.mark]
<1>1. c.wait = 0 /\ c.at = "out" /\ c.last = Me.last /\ c.mark = Me.mark
  BY DEF NoCall
<1>2. CallTimed(Me)
  BY MeTimed
<1> HIDE DEF c
<1>3. CallTimed(c)
  BY <1>1, <1>2, Turn DEF CallTimed, WaitSteps
<1> QED
  BY <1>3 DEF c

LEMMA ReturnTime ==
  ASSUME KernelInv, KernelInv', TimeInv, Calm(k', k), NEW nk, NEW nq, Return(nk, nq), ~Away(Me, k.cur)
  PROVE  TimeInv'
<1>1. IsReady(k, k.cur)
  BY CurrentTask
<1> QED
  BY <1>1, BackTimed, DoTime DEF Return

\* A call in its first step.
LEMMA EnteredTimed ==
  ASSUME KernelInv, TimeInv, NEW op, Callable(op, Actions), NEW step, op.ticks # 0 \/ step \notin WaitSteps
  PROVE  LET c == Entered(op, step)
         IN  CallTimed(c) /\ c.wait = op.ticks /\ c.last = Me.last /\ c.mark = Me.mark /\ c.at = step
             /\ c.due = Me.due
<1> DEFINE c == Entered(op, step)
<1>1. c.wait = op.ticks /\ c.at = step /\ c.last = Me.last /\ c.mark = Me.mark /\ c.due = Me.due
  BY MeTimed DEF Entered, CallType
<1> HIDE DEF c
<1>2. op.ticks \in 0..MAX_DELAY
  BY DEF Callable
<1>3. CallTimed(c)
  BY <1>1, <1>2, MeTimed DEF CallTimed
<1> QED
  BY <1>1, <1>3 DEF c

LEMMA EnterTime ==
  ASSUME KernelInv, KernelInv', TimeInv, Calm(k', k), NEW nk, NEW nq, NEW op, Callable(op, Actions),
         NEW step, op.ticks # 0 \/ step \notin WaitSteps, Do(nk, nq, Entered(op, step))
  PROVE  TimeInv'
<1> DEFINE c == Entered(op, step)
<1>1. CallTimed(c) /\ c.due = Me.due /\ Do(nk, nq, c)
  BY EnteredTimed
<1> HIDE DEF c
<1> QED
  BY <1>1, DoTime

\* An interrupt in which no tick comes.
LEMMA QuietTime ==
  ASSUME KernelInv, KernelInv', TimeInv, Calm(k', k), call' = call, plan' = plan, now' = now
  PROVE  TimeInv'
BY CalmTime DEF TimeInv

LEMMA TriedTime ==
  ASSUME KernelInv, TimeInv, Send \/ Receive \/ Peek \/ Refused
  PROVE  TimeInv'
<1>1. Sends \in SUBSET (Sends \cup Receives) /\ {"receive"} \in SUBSET (Sends \cup Receives)
      /\ {"peek"} \in SUBSET (Sends \cup Receives) /\ Sends \cup Receives \in SUBSET (Sends \cup Receives)
  BY DEF Receives
<1>2. PICK fns \in SUBSET (Sends \cup Receives) : \E op \in Tries(fns) : \E nk, nq : Return(nk, nq)
  <2>1. CASE Send
    <3>1. \E op \in Tries(Sends) : \E nk, nq : Return(nk, nq)
      BY <2>1 DEF Send
    <3> QED
      BY <1>1, <3>1
  <2>2. CASE Receive
    <3>1. \E op \in Tries({"receive"}) : \E nk, nq : Return(nk, nq)
      BY <2>2 DEF Receive
    <3> QED
      BY <1>1, <3>1
  <2>3. CASE Peek
    <3>1. \E op \in Tries({"peek"}) : \E nk, nq : Return(nk, nq)
      BY <2>3 DEF Peek
    <3> QED
      BY <1>1, <3>1
  <2>4. CASE Refused
    <3>1. \E op \in Tries(Sends \cup Receives) : \E nk, nq : Return(nk, nq)
      BY <2>4 DEF Refused
    <3> QED
      BY <1>1, <3>1
  <2> QED
    BY <2>1, <2>2, <2>3, <2>4
<1>3. PICK op \in Tries(fns) : \E nk, nq : Return(nk, nq)
  BY <1>2
<1>4. PICK nk, nq : Return(nk, nq)
  BY <1>3
<1>5. ~Away(Me, k.cur)
  BY TriesOf
<1>6. KernelInv' /\ Calm(k', k)
  BY SendInv, ReceiveInv, PeekInv, RefusedInv
<1> QED
  BY <1>4, <1>5, <1>6, ReturnTime

LEMMA TakeTime ==
  ASSUME KernelInv, TimeInv, Take
  PROVE  TimeInv'
<1>1. PICK op \in Tries(Takes) : \E nk, nq : Return(nk, nq) \/ GoTo(nk, nq, "count")
  BY DEF Take
<1>2. PICK nk, nq : Return(nk, nq) \/ GoTo(nk, nq, "count")
  BY <1>1
<1>3. ~Away(Me, k.cur)
  <2>1. Takes \in SUBSET (Sends \cup Receives)
    BY DEF Receives
  <2> QED
    BY <2>1, TriesOf
<1>4. KernelInv' /\ Calm(k', k) /\ "count" \notin WaitSteps
  BY TakeInv DEF WaitSteps
<1> QED
  BY <1>2, <1>3, <1>4, ReturnTime, GoTime

LEMMA WaitsTime ==
  ASSUME KernelInv, TimeInv, Waits
  PROVE  TimeInv'
<1>1. PICK op \in Tries(Sends \cup Receives) :
        LET c == IF At("try") THEN Me ELSE Entered(op, "try")
            timed == [vTaskInternalSetTimeOutState(k, c) EXCEPT !.entered = TRUE, !.since = Clock]
        IN  /\ c.wait # 0
            /\ Do(k, q, [(IF c.entered THEN c ELSE timed) EXCEPT !.at = "suspend"])
  BY DEF Waits
<1> DEFINE c == IF At("try") THEN Me ELSE Entered(op, "try")
           timed == [vTaskInternalSetTimeOutState(k, c) EXCEPT !.entered = TRUE, !.since = Clock]
           b == IF c.entered THEN c ELSE timed
           d == [b EXCEPT !.at = "suspend"]
<1>2. c \in CallType /\ CallTimed(c) /\ c.due = Me.due /\ c.wait # 0 /\ Do(k, q, d)
  <2>1. CASE At("try")
    BY <1>1, <2>1, MeTimed
  <2>2. CASE ~At("try")
    <3>1. op \in Ops /\ op.ticks \in Int /\ op.fn # "none"
      BY TriesOf DEF QueueCalls, Sends, Receives, Takes
    <3>2. Callable(op, Actions) /\ "try" \notin WaitSteps /\ "try" \in Steps
      BY <3>1, OpOf DEF WaitSteps, Steps, QueueSteps
    <3>3. CallTimed(Entered(op, "try")) /\ Entered(op, "try").due = Me.due
      BY <3>2, EnteredTimed
    <3>4. Entered(op, "try") \in CallType
      BY <3>1, <3>2, EnteredType
    <3> QED
      BY <1>1, <2>2, <3>3, <3>4
  <2> QED
    BY <2>1, <2>2
<1> HIDE DEF c
<1>3. d.wait = c.wait /\ d.last = c.last /\ d.mark = c.mark /\ d.due = c.due
  BY <1>2 DEF CallType, vTaskInternalSetTimeOutState
<1> HIDE DEF d
<1>4. CallTimed(d)
  BY <1>2, <1>3 DEF CallTimed
<1>5. KernelInv' /\ Calm(k', k)
  BY WaitsInv
<1> QED
  BY <1>2, <1>3, <1>4, <1>5, DoTime

LEMMA MovesTime ==
  ASSUME KernelInv, TimeInv, Suspend \/ Lock \/ UnlockSentStep \/ UnlockReceivedStep \/ Yield
  PROVE  TimeInv'
<1>1. PICK nk, nq, step : GoTo(nk, nq, step) /\ (step \notin WaitSteps \/ Me.at \in WaitSteps)
  <2>1. CASE Suspend
    BY <2>1 DEF Suspend, At, WaitSteps
  <2>2. CASE Lock
    BY <2>2 DEF Lock, At, WaitSteps
  <2>3. CASE UnlockSentStep
    <3>1. GoTo(UnlockSent(s, Me.op.on).k, UnlockSent(s, Me.op.on).q, "unlockReceived")
      BY <2>3 DEF UnlockSentStep
    <3> QED
      BY <3>1 DEF WaitSteps
  <2>4. CASE UnlockReceivedStep
    <3>1. GoTo(UnlockReceived(s, Me.op.on).k, UnlockReceived(s, Me.op.on).q, "resume")
      BY <2>4 DEF UnlockReceivedStep
    <3> QED
      BY <3>1 DEF WaitSteps
  <2>5. CASE Yield
    BY <2>5 DEF Yield, WaitSteps
  <2> QED
    BY <2>1, <2>2, <2>3, <2>4, <2>5
<1>2. KernelInv' /\ Calm(k', k)
  BY SuspendInv, LockInv, UnlockInv, YieldInv
<1> QED
  BY <1>1, <1>2, GoTime

LEMMA EndsTime ==
  ASSUME KernelInv, TimeInv, Woken \/ LastLook \/ DisinheritAfterTimeout
  PROVE  TimeInv'
<1>1. Me.at \in {"woken", "empty", "disinherit"}
  BY DEF Woken, LastLook, DisinheritAfterTimeout, At
<1>2. PICK nk, nq : Return(nk, nq) \/ GoTo(nk, nq, "try") \/ GoTo(nk, nq, "disinherit")
  BY DEF Woken, LastLook, DisinheritAfterTimeout
<1>3. ~Away(Me, k.cur) /\ "try" \notin WaitSteps /\ "disinherit" \notin WaitSteps
  BY <1>1 DEF Away, WaitSteps
<1>4. KernelInv' /\ Calm(k', k)
  BY WokenInv, LastLookInv, DisinheritInv
<1> QED
  BY <1>2, <1>3, <1>4, ReturnTime, GoTime

\* The time left is what has not yet passed.
LEMMA CheckedTimed ==
  ASSUME KernelInv, TimeInv, Me.at = "check"
  PROVE  LET c == AfterCheck(k, Me)
         IN  /\ c \in CallType /\ c.wait \in 0..MAX_DELAY /\ (TimedOut(k, Me) \/ c.wait # 0)
             /\ c.last = Me.last /\ c.mark = Me.mark /\ c.due = Me.due
<1> DEFINE left == Me.wait - Elapsed(k, Me)
           c1 == vTaskInternalSetTimeOutState(k, [Me EXCEPT !.wait = @ - Elapsed(k, Me)])
           c2 == [Me EXCEPT !.wait = 0]
           c == AfterCheck(k, Me)
<1>1. Me \in CallType /\ CallTimed(Me) /\ c \in CallType
  BY MeTimed, CheckedType
<1>2. Me.wait \in 0..MAX_DELAY /\ Me.wait # 0
  BY <1>1 DEF CallTimed, WaitSteps
<1>3. Elapsed(k, Me) \in 0..MAX_DELAY
  <2>1. k.tick \in Int /\ Me.entry.tick \in Int
    BY <1>1, CurrentTask DEF CallType, KernelType
  <2> QED
    BY <2>1, Turned DEF Elapsed
<1>4. c1.wait = left /\ c1.last = Me.last /\ c1.mark = Me.mark /\ c1.due = Me.due
  BY <1>1 DEF CallType, vTaskInternalSetTimeOutState
<1>5. c2.wait = 0 /\ c2.last = Me.last /\ c2.mark = Me.mark /\ c2.due = Me.due
  BY <1>1 DEF CallType
<1>6. CASE Aborted(k) \/ WaitsForEver(k, Me.wait) \/ FullTurn(k, Me)
  <2>1. c = Me
    BY <1>6 DEF AfterCheck
  <2> QED
    BY <1>1, <1>2, <2>1
<1>7. CASE ~(Aborted(k) \/ WaitsForEver(k, Me.wait) \/ FullTurn(k, Me)) /\ Elapsed(k, Me) < Me.wait
  <2>1. c = c1
    BY <1>7 DEF AfterCheck
  <2> HIDE DEF c1, c
  <2>2. c.wait \in 0..MAX_DELAY /\ c.wait # 0
    BY <1>2, <1>3, <1>4, <1>7, <2>1, Turn
  <2> QED
    BY <1>1, <1>4, <2>1, <2>2 DEF c
<1>8. CASE ~(Aborted(k) \/ WaitsForEver(k, Me.wait) \/ FullTurn(k, Me)) /\ ~(Elapsed(k, Me) < Me.wait)
  <2>1. c = c2
    BY <1>8 DEF AfterCheck
  <2>2. TimedOut(k, Me)
    BY <1>2, <1>3, <1>8, Turn DEF TimedOut
  <2> QED
    BY <1>1, <1>5, <2>1, <2>2, Turn
<1> QED
  BY <1>6, <1>7, <1>8

LEMMA CheckTime ==
  ASSUME KernelInv, TimeInv, Check
  PROVE  TimeInv'
<1> DEFINE c == AfterCheck(k, Me)
           c1 == [c EXCEPT !.at = "unlockSent", !.after = "fail", !.cut = @ \/ Aborted(k)]
           c2 == [c EXCEPT !.at = "test"]
           d == IF TimedOut(k, Me) THEN c1 ELSE c2
<1>1. Me.at = "check" /\ Do(ClearAborted(k), q, d)
  BY DEF Check, At
<1>2. /\ c \in CallType /\ c.wait \in 0..MAX_DELAY /\ (TimedOut(k, Me) \/ c.wait # 0)
      /\ c.last = Me.last /\ c.mark = Me.mark /\ c.due = Me.due /\ CallTimed(Me)
  BY <1>1, CheckedTimed, MeTimed
<1> HIDE DEF c
<1>3. /\ d.wait = c.wait /\ d.last = c.last /\ d.mark = c.mark /\ d.due = c.due
      /\ d.at = IF TimedOut(k, Me) THEN "unlockSent" ELSE "test"
  BY <1>2 DEF CallType
<1> HIDE DEF d
<1>4. CallTimed(d) /\ d.due = Me.due
  BY <1>2, <1>3 DEF CallTimed, WaitSteps
<1>5. KernelInv' /\ Calm(k', k)
  BY CheckInv
<1> QED
  BY <1>1, <1>4, <1>5, DoTime

LEMMA TestTime ==
  ASSUME KernelInv, TimeInv, Test \/ PriorityInherit
  PROVE  TimeInv'
<1> DEFINE step == IF IsMutex(Me.op) THEN "inherit" ELSE "place"
           c1 == [Me EXCEPT !.at = "unlockSent", !.after = "retry"]
           c2 == [Me EXCEPT !.at = step]
           c3 == [Me EXCEPT !.at = "place", !.inherited = Inherited(k, q[Me.op.on].holder)]
<1>1. Me \in CallType /\ CallTimed(Me)
  BY MeTimed
<1>2. c1.wait = Me.wait /\ c1.last = Me.last /\ c1.mark = Me.mark /\ c1.due = Me.due /\ c1.at = "unlockSent"
  BY <1>1 DEF CallType
<1>3. c2.wait = Me.wait /\ c2.last = Me.last /\ c2.mark = Me.mark /\ c2.due = Me.due
  BY <1>1 DEF CallType
<1>4. c3.wait = Me.wait /\ c3.last = Me.last /\ c3.mark = Me.mark /\ c3.due = Me.due
  BY <1>1 DEF CallType
<1>5. Me.at \in WaitSteps
  BY DEF Test, PriorityInherit, At, WaitSteps
<1>6. Do(k, q, c1) \/ Do(k, q, c2) \/ \E nk : Do(nk, q, c3)
  BY DEF Test, PriorityInherit
<1> HIDE DEF c1, c2, c3
<1>7. CallTimed(c1) /\ CallTimed(c2) /\ CallTimed(c3)
  BY <1>1, <1>2, <1>3, <1>4, <1>5, TimedStill
<1>8. KernelInv' /\ Calm(k', k)
  BY TestInv, PriorityInheritInv
<1> QED
  BY <1>2, <1>3, <1>4, <1>6, <1>7, <1>8, DoTime

LEMMA WaitRestrictedTime ==
  ASSUME KernelInv, TimeInv, WaitRestricted
  PROVE  TimeInv'
<1>1. PICK op \in Starts("waitRestricted") : Do(k, q, Entered(op, "suspend"))
  BY DEF WaitRestricted
<1>2. Callable(op, Actions) /\ op.ticks # 0
  BY StartsOf DEF Callable
<1>3. KernelInv' /\ Calm(k', k)
  BY WaitRestrictedInv
<1> QED
  BY <1>1, <1>2, <1>3, EnterTime

LEMMA GoneWaitsNot ==
  ASSUME NEW c, NEW noting, Steady(c, noting), NEW t \in Everyone, ~Exists(c, t)
  PROVE  t \notin ToSet(c.delayed) /\ t \notin ToSet(c.overflow)
<1>1. StateListed(c, t)
  BY DEF Steady, Sound, Listed
<1> QED
  BY <1>1 DEF StateListed

LEMMA LockingTime ==
  ASSUME KernelInv, TimeInv, SuspendAll \/ DelayNone
  PROVE  TimeInv'
<1>1. CASE DelayNone
  <2>1. PICK op \in Starts("delay") : Do(k, q, Entered(op, "yield"))
    BY <1>1 DEF DelayNone
  <2>2. Callable(op, Actions) /\ "yield" \notin WaitSteps
    BY StartsOf DEF WaitSteps
  <2>3. KernelInv' /\ Calm(k', k)
    BY <1>1, DelayNoneInv
  <2> QED
    BY <2>1, <2>2, <2>3, EnterTime
<1>2. CASE SuspendAll
  <2>1. PICK fn \in DOMAIN Locking : \E op \in Starts(fn) :
          /\ fn = "delay" => op.ticks # 0
          /\ Do(vTaskSuspendAll(k), q, [Entered(op, Locking[fn]) EXCEPT !.after = "return"])
    BY <1>2 DEF SuspendAll
  <2>2. PICK op \in Starts(fn) :
          /\ fn = "delay" => op.ticks # 0
          /\ Do(vTaskSuspendAll(k), q, [Entered(op, Locking[fn]) EXCEPT !.after = "return"])
    BY <2>1
  <2> DEFINE step == Locking[fn]  b == Entered(op, step)  c == [b EXCEPT !.after = "return"]
  <2>3. Callable(op, Actions) /\ op.fn = fn /\ op \in Ops /\ op.ticks \in Int
    BY StartsOf
  <2>4. step \in Steps /\ (op.ticks # 0 \/ step \notin WaitSteps)
    <3>1. /\ DOMAIN Locking = {"delay", "delayUntil", "abort", "report", "find", "hold"}
          /\ step = "delay" => fn \in {"delay", "delayUntil"}
          /\ step \in {"delay", "abort", "report", "find", "resume"}
      BY DEF Locking
    <3> HIDE DEF step
    <3>2. step \in WaitSteps => step = "delay"
      BY <3>1 DEF WaitSteps
    <3>3. step = "delay" => op.ticks # 0
      BY <2>2, <2>3, <3>1 DEF Callable
    <3>4. step \in Steps
      BY <3>1 DEF Steps, LockedSteps
    <3> QED
      BY <3>2, <3>3, <3>4
  <2>5. Do(vTaskSuspendAll(k), q, c)
    BY <2>2
  <2> HIDE DEF step
  <2>6. CallTimed(b) /\ b.due = Me.due /\ b \in CallType
    BY <2>3, <2>4, EnteredTimed, EnteredType
  <2> HIDE DEF b
  <2>7. c.wait = b.wait /\ c.last = b.last /\ c.mark = b.mark /\ c.due = b.due /\ c.at = b.at
    BY <2>6 DEF CallType
  <2> HIDE DEF c
  <2>8. CallTimed(c)
    BY <2>6, <2>7 DEF CallTimed
  <2>9. KernelInv' /\ Calm(k', k)
    BY <1>2, SuspendAllInv
  <2> QED
    BY <2>5, <2>6, <2>7, <2>8, <2>9, DoTime
<1> QED
  BY <1>1, <1>2

LEMMA CutTimed ==
  ASSUME KernelInv, TimeInv, NEW t \in Everyone, NEW b
  PROVE  CallTimed([call[t] EXCEPT !.cut = b]) /\ [call[t] EXCEPT !.cut = b].due = call[t].due
<1> DEFINE c == call[t]  d == [c EXCEPT !.cut = b]
<1>1. c \in CallType /\ CallTimed(c)
  BY DuesOf DEF TimeInv
<1> HIDE DEF c
<1>2. d.wait = c.wait /\ d.last = c.last /\ d.mark = c.mark /\ d.due = c.due /\ d.at = c.at
  BY <1>1 DEF CallType
<1> HIDE DEF d
<1>3. CallTimed(d)
  BY <1>1, <1>2, TimedStill
<1> QED
  BY <1>2, <1>3 DEF c, d

LEMMA AbortTime ==
  ASSUME KernelInv, TimeInv, AbortDelay
  PROVE  TimeInv'
<1> DEFINE t == Me.op.on  c == [Me EXCEPT !.at = "resume"]
           b == [call[t] EXCEPT !.cut = @ \/ eTaskGetState(k, t) = "blocked"]
<1>1. Me.at = "abort" /\ DoWith(xTaskAbortDelay(k, t), c, t, b)
  BY DEF AbortDelay, At
<1>2. t \in Everyone
  <2>1. Me.op \in Ops /\ Me.op.fn = "abort"
    BY <1>1, CurrentTask DEF CallSound, CallType
  <2>2. Callable(Me.op, Actions)
    BY <2>1, OpOf
  <2> QED
    BY <2>1, <2>2 DEF Callable, OnTasks, Everyone
<1>3. CallTimed(b) /\ b.due = call[t].due
  <2>1. b = [call[t] EXCEPT !.cut = call[t].cut \/ eTaskGetState(k, t) = "blocked"]
    BY <1>2, DuesOf DEF CallType
  <2> QED
    BY <1>2, <2>1, CutTimed
<1>4. c.wait = Me.wait /\ c.last = Me.last /\ c.mark = Me.mark /\ c.due = Me.due /\ c.at = "resume"
  BY MeTimed, TimedAt
<1> HIDE DEF b, c, t
<1>5. CallTimed(c)
  BY <1>4, MeTimed, TimedStill DEF WaitSteps
<1>6. KernelInv' /\ Calm(k', k)
  BY AbortDelayInv
<1> QED
  BY <1>1, <1>2, <1>3, <1>4, <1>5, <1>6, DoWithTime

LEMMA SuspendTaskTime ==
  ASSUME KernelInv, TimeInv, SuspendTask
  PROVE  TimeInv'
<1>1. PICK op \in Starts("suspend") :
        DoWith(vTaskSuspend(k, op.on), Entered(op, "refresh"),
               op.on, [call[op.on] EXCEPT !.cut = @ \/ ~QueueWait(call[op.on])])
  BY DEF SuspendTask
<1> DEFINE t == op.on  c == Entered(op, "refresh")
           b == [call[t] EXCEPT !.cut = @ \/ ~QueueWait(call[t])]
<1>2. t \in Everyone /\ Callable(op, Actions) /\ "refresh" \notin WaitSteps
  BY OnTask, StartsOf DEF OnTasks, WaitSteps
<1>3. CallTimed(b) /\ b.due = call[t].due
  <2>1. b = [call[t] EXCEPT !.cut = call[t].cut \/ ~QueueWait(call[t])]
    BY <1>2, DuesOf DEF CallType
  <2> QED
    BY <1>2, <2>1, CutTimed
<1>4. CallTimed(c) /\ c.due = Me.due
  BY <1>2, EnteredTimed
<1>5. DoWith(vTaskSuspend(k, t), c, t, b)
  BY <1>1
<1> HIDE DEF b, c, t
<1>6. KernelInv' /\ Calm(k', k)
  BY SuspendTaskInv
<1> QED
  BY <1>2, <1>3, <1>4, <1>5, <1>6, DoWithTime

LEMMA RefreshTime ==
  ASSUME KernelInv, TimeInv, GetSystemState \/ GetHandle \/ Refresh
  PROVE  TimeInv'
<1>1. KernelInv' /\ Calm(k', k) /\ "yield" \notin WaitSteps /\ "resume" \notin WaitSteps
  BY WalkInv, RefreshInv DEF WaitSteps
<1>2. CASE GetSystemState \/ GetHandle
  BY <1>1, <1>2, GoTime DEF GetSystemState, GetHandle
<1>3. CASE Refresh /\ Me.op.on = k.cur
  BY <1>1, <1>3, GoTime DEF Refresh
<1>4. CASE Refresh /\ Me.op.on # k.cur
  <2>1. ~Away(Me, k.cur)
    BY <1>4 DEF Refresh, At, Away
  <2> QED
    BY <1>1, <1>4, <2>1, ReturnTime DEF Refresh
<1> QED
  BY <1>2, <1>3, <1>4

LEMMA WholeTime ==
  ASSUME KernelInv, TimeInv,
         Resume \/ PrioritySet \/ Notify \/ NotifyStateClear \/ Created \/ Noted_
  PROVE  TimeInv'
<1>1. KernelInv' /\ Calm(k', k)
  BY ResumeInv, PrioritySetInv, NotifyInv, CreatedInv, NotedInv
<1>2. CASE Resume \/ PrioritySet \/ Notify \/ NotifyStateClear
  <2>1. PICK fn : \E op \in Starts(fn) : \E nk : Return(nk, q)
    BY <1>2 DEF Resume, PrioritySet, Notify, NotifyStateClear, Whole
  <2>2. PICK op \in Starts(fn) : \E nk : Return(nk, q)
    BY <2>1
  <2>3. ~Away(Me, k.cur)
    BY StartsOf
  <2> QED
    BY <1>1, <2>2, <2>3, ReturnTime
<1>3. CASE Created \/ Noted_
  <2>1. PICK nk : Return(nk, q)
    BY <1>3 DEF Created, Noted_, Whole
  <2>2. ~Away(Me, k.cur)
    BY <1>3 DEF Created, Noted_, At, Away
  <2> QED
    BY <1>1, <2>1, <2>2, ReturnTime
<1> QED
  BY <1>2, <1>3

\* A task that is new, or gone.
LEMMA OutTimed ==
  ASSUME KernelInv, TimeInv, NEW t
  PROVE  CallTimed(Out(t))
<1>1. Out(t).wait = 0 /\ Out(t).at = "out" /\ Out(t).last = k.tick /\ Out(t).mark = Clock
  BY DEF Out, NoCall
<1> QED
  BY <1>1, Turn DEF CallTimed, WaitSteps, TimeInv, Timed

LEMMA CreateTime ==
  ASSUME KernelInv, TimeInv, CreateTask
  PROVE  TimeInv'
<1>1. PICK op \in Starts("create") : \E nk : DoWith(nk, Entered(op, "created"), op.on, Out(op.on))
  BY DEF CreateTask
<1> DEFINE t == op.on  c == Entered(op, "created")
<1>2. PICK nk : DoWith(nk, c, t, Out(t))
  BY <1>1
<1>3. Callable(op, Actions) /\ t \in Everyone /\ ~Exists(k, t) /\ "created" \notin WaitSteps
  BY StartsOf DEF Callable, Legal, Everyone, WaitSteps
<1>4. CallTimed(c) /\ c.due = Me.due
  BY <1>3, EnteredTimed
<1> HIDE DEF c, t
<1>5. KernelInv' /\ Calm(k', k)
  BY CreateTaskInv
<1>6. t \notin ToSet(k'.delayed) /\ t \notin ToSet(k'.overflow)
  BY <1>3, <1>5, NotWaiting DEF Calm
<1> QED
  BY <1>2, <1>3, <1>4, <1>5, <1>6, OutTimed, DoWithTime

LEMMA DeleteTime ==
  ASSUME KernelInv, TimeInv, Delete
  PROVE  TimeInv'
<1>1. PICK op \in Starts("delete") :
        IF op.on = k.cur THEN Do(vTaskDelete(k, op.on), q, Entered(op, "yield"))
                         ELSE DoWith(vTaskDelete(k, op.on), Back, op.on, Out(op.on))
  BY DEF Delete
<1> DEFINE t == op.on
<1>2. KernelInv' /\ Calm(k', k)
  BY DeleteInv
<1>3. Callable(op, Actions) /\ t \in Everyone /\ "yield" \notin WaitSteps /\ IsReady(k, k.cur)
  BY OnTask, StartsOf DEF OnTasks, WaitSteps
<1>4. CASE t = k.cur
  BY <1>1, <1>2, <1>3, <1>4, EnterTime
<1>5. CASE t # k.cur
  <2> DEFINE m == [Unlisted(k, t) EXCEPT !.number = @ - 1]  d == prvDeleteTCB(m, t)
  <2>1. k' = prvResetNextTaskUnblockTime(d) /\ DoWith(k', Back, t, Out(t))
    BY <1>1, <1>5 DEF DoWith, vTaskDelete
  <2>2. m.tcb = k.tcb
    BY DEF Unlisted, OffEventList, OffStateList
  <2> HIDE DEF m
  <2>3. d.tcb[t] = NoTcb
    <3>1. DOMAIN k.tcb = Everyone
      BY CurrentTask DEF KernelType
    <3> QED
      BY <1>3, <2>2, <3>1 DEF prvDeleteTCB
  <2> HIDE DEF d
  <2>4. ~Exists(k', t)
    BY <2>1, <2>3, NoTcbType DEF Exists, prvResetNextTaskUnblockTime
  <2>5. t \notin ToSet(k'.delayed) /\ t \notin ToSet(k'.overflow)
    <3>1. Steady(k', Noting')
      BY <1>2 DEF KernelInv
    <3> QED
      BY <1>3, <2>4, <3>1, GoneWaitsNot
  <2>6. CallTimed(Back)
    BY BackTimed DEF Back
  <2> HIDE DEF t
  <2> QED
    BY <1>2, <1>3, <2>1, <2>5, <2>6, OutTimed, DoWithTime
<1> QED
  BY <1>4, <1>5

LEMMA OtherQueueTime ==
  ASSUME KernelInv, TimeInv, OtherQueueCall
  PROVE  TimeInv'
<1>1. KernelInv' /\ Calm(k', k)
  BY RecursiveInv, OtherQueueInv, LeavingInv DEF OtherQueueCall
<1>2. CASE CountTaken
  <2>1. PICK nq : Return(k, nq)
    BY <1>2 DEF CountTaken
  <2>2. ~Away(Me, k.cur)
    BY <1>2 DEF CountTaken, At, Away
  <2> QED
    BY <1>1, <2>1, <2>2, ReturnTime
<1>3. CASE GiveRecursive \/ TakeRecursive \/ ResetQueue \/ AddToSet \/ RemoveFromSet
  <2>1. PICK fn \in {"giveRecursive", "takeRecursive", "reset", "addToSet", "removeFromSet"} :
          \E op \in Starts(fn), step \in {"try", "member"} :
            \E nk, nq : Return(nk, nq) \/ Do(nk, nq, Entered(op, step))
    <3>1. CASE GiveRecursive
      BY <3>1 DEF GiveRecursive
    <3>2. CASE TakeRecursive
      BY <3>2 DEF TakeRecursive
    <3>3. CASE ResetQueue
      BY <3>3 DEF ResetQueue
    <3>4. CASE AddToSet \/ RemoveFromSet
      BY <3>4 DEF AddToSet, RemoveFromSet
    <3> QED
      BY <1>3, <3>1, <3>2, <3>3, <3>4
  <2>2. PICK op \in Starts(fn), step \in {"try", "member"} :
          \E nk, nq : Return(nk, nq) \/ Do(nk, nq, Entered(op, step))
    BY <2>1
  <2>3. PICK nk, nq : Return(nk, nq) \/ Do(nk, nq, Entered(op, step))
    BY <2>2
  <2>4. ~Away(Me, k.cur) /\ Callable(op, Actions) /\ step \notin WaitSteps
    BY StartsOf DEF WaitSteps
  <2> QED
    BY <1>1, <2>3, <2>4, ReturnTime, EnterTime
<1>4. CASE MemberEmpty \/ LeaveSet
  <2>1. PICK nk, nq : Return(nk, nq) \/ GoTo(nk, nq, "leave")
    BY <1>4 DEF MemberEmpty, LeaveSet
  <2>2. ~Away(Me, k.cur) /\ "leave" \notin WaitSteps
    BY <1>4 DEF MemberEmpty, LeaveSet, At, Away, WaitSteps
  <2> QED
    BY <1>1, <2>1, <2>2, ReturnTime, GoTime
<1> QED
  BY <1>2, <1>3, <1>4 DEF OtherQueueCall

LEMMA IdleTimed ==
  ASSUME KernelInv, TimeInv, IdleCleans \/ IdleYields \/ IdleSuspends \/ SleepAborted
  PROVE  TimeInv'
<1>1. KernelInv' /\ Calm(k', k)
  BY IdleCleansInv, IdleYieldsInv, IdleSuspendsInv, SleepAbortedInv
<1>2. CallTimed(Me) /\ Me \in CallType
  BY MeTimed
<1>3. CASE IdleCleans
  <2> DEFINE x == Head(k.ended)
  <2>1. DoWith(prvCheckTasksWaitingTermination(k), Me, x, Out(x)) /\ k.ended # <<>>
    BY <1>3 DEF IdleCleans
  <2>2. k.ended \in Rows(Everyone)
    BY CurrentTask DEF KernelType
  <2>3. x \in Everyone /\ x \in ToSet(k.ended)
    BY <2>1, <2>2, TailRemoved
  <2> HIDE DEF x
  <2>4. x \notin ToSet(k'.delayed) /\ x \notin ToSet(k'.overflow)
    BY <1>1, <2>3, NotWaiting DEF Calm
  <2> QED
    BY <1>1, <1>2, <2>1, <2>3, <2>4, OutTimed, DoWithTime
<1>4. CASE IdleYields
  BY <1>1, <1>2, <1>4, DoTime DEF IdleYields
<1>5. CASE IdleSuspends
  <2> DEFINE c == [Me EXCEPT !.at = "sleep", !.after = "return"]
  <2>1. Do(vTaskSuspendAll(k), q, c)
    BY <1>5 DEF IdleSuspends
  <2>2. c.wait = Me.wait /\ c.last = Me.last /\ c.mark = Me.mark /\ c.due = Me.due /\ c.at = "sleep"
    BY <1>2 DEF CallType
  <2> HIDE DEF c
  <2>3. CallTimed(c)
    BY <1>2, <2>2, TimedStill DEF WaitSteps
  <2> QED
    BY <1>1, <2>1, <2>2, <2>3, DoTime
<1>6. CASE SleepAborted
  BY <1>1, <1>6, GoTime DEF SleepAborted, WaitSteps
<1> QED
  BY <1>3, <1>4, <1>5, <1>6

LEMMA QuietInterruptTime ==
  ASSUME KernelInv, TimeInv,
         SendFromISR \/ GiveFromISR \/ ReceiveFromISR \/ NotifyFromISR \/ ResumeFromISR
  PROVE  TimeInv'
<1>1. KernelInv' /\ Calm(k', k)
  BY QueueFromISRInv, NotifyFromISRInv, ResumeFromISRInv
<1>2. call' = call /\ plan' = plan /\ now' = now
  <2>1. CASE SendFromISR
    BY <2>1 DEF SendFromISR, Interrupt
  <2>2. CASE GiveFromISR
    BY <2>2 DEF GiveFromISR, Interrupt
  <2>3. CASE ReceiveFromISR
    BY <2>3 DEF ReceiveFromISR, Interrupt
  <2>4. CASE NotifyFromISR \/ ResumeFromISR
    BY <2>4 DEF NotifyFromISR, ResumeFromISR, Interrupt
  <2> QED
    BY <2>1, <2>2, <2>3, <2>4
<1> QED
  BY <1>1, <1>2, QuietTime

LEMMA StillTime ==
  ASSUME KernelInv, TimeInv, UNCHANGED vars
  PROVE  TimeInv'
<1>1. k' = k /\ call' = call /\ plan' = plan /\ now' = now
  BY DEF vars
<1>2. KernelInv' /\ Calm(k', k)
  BY <1>1, StutterInv, CalmSelf
<1> QED
  BY <1>1, <1>2, QuietTime

-----------------------------------------------------------------------------
(* The steps in which the current task starts to wait                      *)

LEMMA DozeTime ==
  ASSUME KernelInv, KernelInv', TimeInv, NEW nk, NEW nq, NEW c, Do(nk, nq, c), CallTimed(c),
         NEW r \in 1..MAX_DELAY, Dozes(nk, k, k.cur, r), c.due \in Int, Clock + r <= c.due
  PROVE  TimeInv'
<1>1. k' = nk /\ call' = [call EXCEPT ![k.cur] = c] /\ plan' = plan /\ now' = now
  BY DEF Do
<1>2. k.cur \in Everyone /\ call \in [Everyone -> CallType] /\ Clock \in Int
  BY CurrentTask DEF KernelInv, CallsSound
<1>3. call'[k.cur] = c /\ \A t \in Everyone \ {k.cur} : call'[t] = call[t]
  BY <1>1, <1>2
<1>4. Clock' = Clock /\ k'.tick = k.tick
  BY <1>1 DEF Clock, Dozes
<1>5. (\A t \in Everyone : Dues[t] = call[t].due)' /\ \A t \in Everyone : Dues[t] = call[t].due
  BY DEF Dues
<1>6. ToSet(k'.delayed) \subseteq Everyone /\ ToSet(k'.overflow) \subseteq Everyone
  BY InEveryone DEF KernelInv, Steady, Sound, KernelType
<1>7. Dues'[k.cur] = c.due /\ \A t \in Everyone \ {k.cur} : Dues'[t] = Dues[t]
  BY <1>2, <1>3, <1>5
<1>8. Timed(k', Clock, Dues')
  <2>1. Timed(k, Clock, Dues)
    BY DEF TimeInv
  <2> DEFINE old == Dues  new == Dues'
  <2>2. \A t \in (ToSet(k'.delayed) \cup ToSet(k'.overflow)) \ {k.cur} : new[t] = old[t]
    BY <1>6, <1>7
  <2>3. new[k.cur] \in Int /\ Clock + r <= new[k.cur] /\ Timed(k, Clock, old) /\ Dozes(k', k, k.cur, r)
    BY <1>1, <1>7, <2>1
  <2> HIDE DEF old, new
  <2>4. Timed(k', Clock, new)
    BY <1>2, <2>2, <2>3, DozesTimed
  <2> QED
    BY <2>4 DEF new
<1>9. Timed(k, Clock, Dues)'
  BY <1>4, <1>8
<1>10. (k.locked = 0 => k.missed = 0)'
  BY <1>1 DEF TimeInv, Dozes
<1>11. Same(plan.start + Clock, k.tick)'
  BY <1>1, <1>4 DEF TimeInv, Same
<1>12. (\A t \in Everyone : CallTimed(call[t]))'
  BY <1>1, <1>3 DEF TimeInv, CallTimed, Same
<1> QED
  BY <1>9, <1>10, <1>11, <1>12 DEF TimeInv

\* A task that goes into an event list first.
LEMMA PlacedDozes ==
  ASSUME NEW c \in KernelType, c.cur \in Everyone, c.cur \notin ToSet(c.delayed),
         c.cur \notin ToSet(c.overflow), NEW e \in EventLists, NEW list \in Rows(Everyone),
         c.tick \in 0..MAX_DELAY, NEW r \in 1..MAX_DELAY, NEW indefinitely
  PROVE  Dozes(prvAddCurrentTaskToDelayedList([c EXCEPT !.waiting[e] = list], r, indefinitely),
               c, c.cur, r)
<1> DEFINE waiting == [c.waiting EXCEPT ![e] = list]  m == [c EXCEPT !.waiting = waiting]
<1>1. c.waiting \in [EventLists -> Rows(Everyone)]
  BY DEF KernelType
<1>2. [c EXCEPT !.waiting[e] = list] = m
  BY <1>1 DEF KernelType
<1>3. waiting \in [EventLists -> Rows(Everyone)]
  BY <1>1
<1> HIDE DEF waiting
<1>4. m \in KernelType
  BY <1>3, Zenon DEF KernelType
<1>5. /\ m.cur = c.cur /\ m.tick = c.tick /\ m.delayed = c.delayed /\ m.overflow = c.overflow
      /\ m.tcb = c.tcb /\ m.overflows = c.overflows /\ m.missed = c.missed /\ m.locked = c.locked
      /\ m.next = c.next
  BY DEF KernelType
<1> HIDE DEF m
<1>6. Calm(m, c)
  BY <1>5 DEF Calm
<1>7. Dozes(prvAddCurrentTaskToDelayedList(m, r, indefinitely), m, m.cur, r)
  BY <1>4, <1>5, WaitDozes
<1>8. Dozes(prvAddCurrentTaskToDelayedList(m, r, indefinitely), m, c.cur, r)
  BY <1>5, <1>7
<1>9. c.cur \notin ToSet(m.delayed) /\ c.cur \notin ToSet(m.overflow)
  BY <1>5
<1>10. Dozes(prvAddCurrentTaskToDelayedList(m, r, indefinitely), c, c.cur, r)
  BY <1>6, <1>8, <1>9, CalmDozes
<1> QED
  BY <1>2, <1>10

LEMMA PlaceDozes ==
  ASSUME KernelInv, TimeInv, ~Away(Me, k.cur), NEW e \in EventLists, NEW r \in 1..MAX_DELAY
  PROVE  /\ Dozes(vTaskPlaceOnEventList(k, e, r), k, k.cur, r)
         /\ Dozes(vTaskPlaceOnEventListRestricted(k, e, r, FALSE), k, k.cur, r)
<1> DEFINE x == k.cur  value == [u \in DOMAIN k.tcb |-> k.tcb[u].value]
           list == vListInsert(k.waiting[e], x, value)
           last == Append(k.waiting[e], x)
<1>1. /\ k \in KernelType /\ x \in Everyone /\ k.waiting[e] \in Rows(Everyone)
      /\ x \notin ToSet(k.waiting[e]) /\ x \notin ToSet(k.delayed) /\ x \notin ToSet(k.overflow)
      /\ k.tick \in 0..MAX_DELAY
  <2>1. x \in Everyone /\ IsReady(k, x) /\ k \in KernelType
    BY CurrentTask
  <2>2. ~Awaits(k, x)
    BY <2>1 DEF KernelInv, Steady, Sound, Listed
  <2>3. x \notin ToSet(k.delayed) /\ x \notin ToSet(k.overflow)
    BY <2>1, NotWaiting
  <2> QED
    BY <2>1, <2>2, <2>3 DEF KernelType, Awaits, TimeInv, Timed
<1>2. value \in [Everyone -> Nat]
  <2>1. DOMAIN k.tcb = Everyone
    BY <1>1 DEF KernelType
  <2>2. \A t \in Everyone : k.tcb[t].value \in Nat
    BY <1>1, TcbOf, TasksAssumption
  <2> QED
    BY <2>1, <2>2
<1>3. vTaskPlaceOnEventList(k, e, r) = prvAddCurrentTaskToDelayedList([k EXCEPT !.waiting[e] = list], r, TRUE)
  BY <1>1 DEF vTaskPlaceOnEventList, KernelType
<1>4. vTaskPlaceOnEventListRestricted(k, e, r, FALSE)
        = prvAddCurrentTaskToDelayedList([k EXCEPT !.waiting[e] = last], r, FALSE)
  BY <1>1 DEF vTaskPlaceOnEventListRestricted, KernelType
<1> HIDE DEF value
<1>5. list \in Rows(Everyone)
  BY <1>1, <1>2, ListInsert DEF Inserts
<1>6. last \in Rows(Everyone)
  BY <1>1, Appended
<1> HIDE DEF list, last
<1>7. /\ Dozes(prvAddCurrentTaskToDelayedList([k EXCEPT !.waiting[e] = list], r, TRUE), k, k.cur, r)
      /\ Dozes(prvAddCurrentTaskToDelayedList([k EXCEPT !.waiting[e] = last], r, FALSE), k, k.cur, r)
  BY <1>1, <1>5, <1>6, PlacedDozes
<1> QED
  BY <1>3, <1>4, <1>7

LEMMA WaitingTimed ==
  ASSUME KernelInv, TimeInv, NEW after
  PROVE  LET c == Waiting(after)
         IN  CallTimed(c) /\ c.due = Clock + Me.wait
<1> DEFINE c == Waiting(after)
<1>1. c.wait = Me.wait /\ c.last = Me.last /\ c.mark = Me.mark /\ c.at = "unlockSent" /\ c.due = Clock + Me.wait
  BY MeTimed DEF CallType, Waiting
<1> HIDE DEF c
<1>2. CallTimed(c)
  BY <1>1, MeTimed, TimedStill DEF WaitSteps
<1> QED
  BY <1>1, <1>2 DEF c

LEMMA PlaceTime ==
  ASSUME KernelInv, TimeInv, Place \/ PlaceRestricted
  PROVE  TimeInv'
<1>1. Me.at \in {"place", "restricted"} /\ KernelInv'
  BY PlaceInv DEF Place, PlaceRestricted, At
<1>2. ~Away(Me, k.cur) /\ IsReady(k, k.cur) /\ Clock \in Int
  BY <1>1, CurrentTask DEF Away
<1>3. Me.wait \in 1..MAX_DELAY
  BY <1>1, MeTimed, Turn DEF CallTimed, WaitSteps
<1>4. Side(Me.op) \in EventLists
  BY <1>1, OnQueue, SideType DEF QueueSteps
<1>5. /\ Dozes(vTaskPlaceOnEventList(k, Side(Me.op), Me.wait), k, k.cur, Me.wait)
      /\ Dozes(vTaskPlaceOnEventListRestricted(k, Side(Me.op), Me.wait, FALSE), k, k.cur, Me.wait)
  BY <1>2, <1>3, <1>4, PlaceDozes
<1>6. ASSUME NEW nk, NEW after, Do(nk, q, Waiting(after)), Dozes(nk, k, k.cur, Me.wait)
      PROVE  TimeInv'
  <2> DEFINE c == Waiting(after)
  <2>1. CallTimed(c) /\ c.due = Clock + Me.wait /\ Do(nk, q, c)
    BY <1>6, WaitingTimed
  <2> HIDE DEF c
  <2>2. c.due \in Int /\ Clock + Me.wait <= c.due
    BY <1>2, <1>3, <2>1
  <2> QED
    BY <1>1, <1>3, <1>6, <2>1, <2>2, DozeTime
<1>7. CASE Place
  BY <1>5, <1>6, <1>7 DEF Place
<1>8. CASE PlaceRestricted /\ prvIsQueueEmpty(q[Me.op.on])
  BY <1>5, <1>6, <1>8 DEF PlaceRestricted
<1>9. CASE PlaceRestricted /\ ~prvIsQueueEmpty(q[Me.op.on])
  <2> DEFINE c == [Me EXCEPT !.at = "unlockSent", !.after = "delay"]
  <2>1. Do(k, q, c)
    BY <1>9 DEF PlaceRestricted
  <2>2. c.wait = Me.wait /\ c.last = Me.last /\ c.mark = Me.mark /\ c.due = Me.due /\ c.at = "unlockSent"
    BY MeTimed DEF CallType
  <2> HIDE DEF c
  <2>3. CallTimed(c)
    BY <2>2, MeTimed, TimedStill DEF WaitSteps
  <2>4. Calm(k', k)
    BY <2>1, CalmSelf DEF Do
  <2> QED
    BY <1>1, <2>1, <2>2, <2>3, <2>4, DoTime
<1> QED
  BY <1>7, <1>8, <1>9

LEMMA DelayTime ==
  ASSUME KernelInv, TimeInv, Delay
  PROVE  TimeInv'
<1> DEFINE c == [Me EXCEPT !.at = "resume", !.after = "delay", !.due = Clock + Me.wait]
<1>1. Me.at = "delay" /\ Do(vTaskDelay(k, Me.wait), q, c) /\ KernelInv'
  BY DelayInv DEF Delay, At
<1>2. c.wait = Me.wait /\ c.last = Me.last /\ c.mark = Me.mark /\ c.at = "resume" /\ c.due = Clock + Me.wait
  BY MeTimed DEF CallType
<1> HIDE DEF c
<1>3. CallTimed(c)
  BY <1>2, MeTimed, TimedStill DEF WaitSteps
<1>4. Me.wait \in 1..MAX_DELAY /\ Clock \in Int /\ k.tick \in 0..MAX_DELAY
  BY <1>1, CurrentTask, MeTimed, Turn DEF CallTimed, WaitSteps, TimeInv, Timed
<1>5. Dozes(vTaskDelay(k, Me.wait), k, k.cur, Me.wait)
  BY <1>4, CurrentTask, WaitDozes DEF vTaskDelay
<1>6. c.due \in Int /\ Clock + Me.wait <= c.due
  BY <1>2, <1>4
<1> QED
  BY <1>1, <1>3, <1>4, <1>5, <1>6, DozeTime

\* The first section of a call that waits for a notification.
Rests(d, c, ticks) == IF ticks = 0 THEN Calm(d, c) ELSE Dozes(d, c, c.cur, ticks)

LEMMA AwaitRests ==
  ASSUME NEW c, NEW noting, Steady(c, noting), c.cur # Idle, c.cur \in noting, IsReady(c, c.cur),
         c.locked = 0, c.tick \in 0..MAX_DELAY, NEW ticks \in 0..MAX_DELAY
  PROVE  Rests(Await(c, ticks), c, ticks)
<1> DEFINE x == c.cur  r == [c.tcb[x] EXCEPT !.state = "waiting"]  m == TcbSet(c, x, r)
           a == prvAddCurrentTaskToDelayedList(m, ticks, TRUE)  d == vTaskSwitchContext(a)
<1>1. c \in KernelType /\ x \in Everyone /\ Listed(c, noting, x)
  BY DEF Steady, Sound
<1>2. Exists(c, x) /\ x \notin ToSet(c.ended) /\ x \notin ToSet(c.delayed) /\ x \notin ToSet(c.overflow)
  BY <1>1 DEF Listed, StateListed
<1>3. NoteBlock(r, c, x, noting)
  <2>1. c.tcb[x] \in Tcbs
    BY <1>1, TcbOf
  <2>2. r \in Tcbs /\ r.priority = c.tcb[x].priority /\ r.wake = c.tcb[x].wake /\ r.state = "waiting"
    BY <2>1 DEF Tcbs, NoteStates
  <2> HIDE DEF r
  <2> QED
    BY <1>2, <2>2 DEF NoteBlock
<1>4. Await(c, ticks) = IF ticks = 0 THEN m ELSE d
  BY DEF Await, TcbSet
<1> HIDE DEF r
<1>5. NoteChanged(m, c, x, noting)
  BY <1>1, <1>2, <1>3, NotedBlock
<1> HIDE DEF m
<1>6. /\ Steady(m, noting) /\ m.cur = x /\ IsReady(m, m.cur) /\ m.locked = 0 /\ Calm(m, c)
      /\ m \in KernelType /\ m.tick = c.tick
  BY <1>1, <1>5 DEF NoteChanged, Keeps, Holds, KeepsReady, Calm, Steady, Sound
<1>7. CASE ticks = 0
  BY <1>4, <1>6, <1>7 DEF Rests
<1>8. CASE ticks # 0
  <2>1. ticks \in 1..MAX_DELAY /\ ticks \in Int
    BY <1>8, Turn
  <2>2. Leaves(a, m, noting)
    BY <1>6, <2>1, AsleepSteady
  <2>3. Dozes(a, m, m.cur, ticks)
    BY <1>1, <1>6, <2>1, WaitDozes
  <2> HIDE DEF a
  <2>4. Calm(d, a)
    BY <1>6, <2>2, SwitchSteady DEF Leaves
  <2> HIDE DEF d
  <2>5. Dozes(d, m, x, ticks)
    BY <1>6, <2>3, <2>4, DozesThenCalm
  <2>6. x \notin ToSet(m.delayed) /\ x \notin ToSet(m.overflow)
    BY <1>2, <1>6 DEF Calm
  <2>7. Dozes(d, c, x, ticks)
    BY <1>6, <2>5, <2>6, CalmDozes
  <2> QED
    BY <1>4, <1>8, <2>7 DEF Rests
<1> QED
  BY <1>7, <1>8

LEMMA RestsNot ==
  ASSUME NEW c, NEW noting, Steady(c, noting), IsReady(c, c.cur), NEW ticks
  PROVE  Rests(c, c, ticks)
<1>1. c.cur \notin ToSet(c.delayed) /\ c.cur \notin ToSet(c.overflow)
  BY DEF Steady, Sound, Listed, StateListed
<1> QED
  BY <1>1, CalmSelf, DozesCalm DEF Rests

LEMMA FirstRests ==
  ASSUME NEW c, NEW noting, Steady(c, noting), c.cur # Idle, IsReady(c, c.cur), c.locked = 0,
         c.tick \in 0..MAX_DELAY, NEW ticks \in 0..MAX_DELAY, NEW clear \in BOOLEAN
  PROVE  Rests(NotifyTakeFirst(c, ticks), c, ticks) /\ Rests(NotifyWaitFirst(c, ticks, clear), c, ticks)
<1> DEFINE x == c.cur  later == noting \cup {x}  r == [c.tcb[x] EXCEPT !.note = 0]
           m == TcbSet(c, x, r)
<1>1. Steady(c, later) /\ x \in later
  BY MoreNoting
<1> HIDE DEF later
<1>2. c \in KernelType /\ x \in Everyone /\ Listed(c, later, x)
  BY <1>1 DEF Steady, Sound
<1>3. Exists(c, x) /\ x \notin ToSet(c.ended) /\ x \notin ToSet(c.delayed) /\ x \notin ToSet(c.overflow)
  BY <1>2 DEF Listed, StateListed
<1>4. NoteBlock(r, c, x, later)
  <2>1. c.tcb[x] \in Tcbs
    BY <1>2, TcbOf
  <2>2. /\ r \in Tcbs /\ r.priority = c.tcb[x].priority /\ r.wake = c.tcb[x].wake
        /\ r.state = c.tcb[x].state
    BY <2>1 DEF Tcbs
  <2> HIDE DEF r
  <2> QED
    BY <1>1, <1>3, <2>2 DEF NoteBlock, Exists
<1>5. /\ NotifyTakeFirst(c, ticks) = IF c.tcb[x].note = 0 THEN Await(c, ticks) ELSE c
      /\ NotifyWaitFirst(c, ticks, clear) = IF c.tcb[x].state = "received" THEN c
           ELSE Await(IF clear THEN m ELSE c, ticks)
  BY DEF NotifyTakeFirst, NotifyWaitFirst, TcbSet
<1> HIDE DEF r
<1>6. NoteChanged(m, c, x, later)
  BY <1>1, <1>2, <1>3, <1>4, NotedBlock
<1> HIDE DEF m
<1>7. Steady(m, later) /\ m.cur = x /\ IsReady(m, m.cur) /\ m.locked = 0 /\ Calm(m, c) /\ m.tick = c.tick
  BY <1>2, <1>6 DEF NoteChanged, Keeps, Holds, KeepsReady, Calm
<1>8. Rests(Await(m, ticks), m, ticks) /\ Rests(Await(c, ticks), c, ticks) /\ Rests(c, c, ticks)
  BY <1>1, <1>7, AwaitRests, RestsNot
<1>9. Rests(Await(m, ticks), c, ticks)
  <2> DEFINE d == Await(m, ticks)
  <2>1. Rests(d, m, ticks)
    BY <1>8
  <2> HIDE DEF d
  <2>2. x \notin ToSet(m.delayed) /\ x \notin ToSet(m.overflow)
    BY <1>3, <1>7 DEF Calm
  <2>3. Rests(d, c, ticks)
    <3>1. CASE ticks = 0
      BY <1>7, <2>1, <3>1, CalmTwice DEF Rests
    <3>2. CASE ticks # 0
      <4>1. Dozes(d, m, x, ticks)
        BY <1>7, <2>1, <3>2 DEF Rests
      <4> QED
        BY <1>7, <2>2, <3>2, <4>1, CalmDozes DEF Rests
    <3> QED
      BY <3>1, <3>2
  <2> QED
    BY <2>3 DEF d
<1> QED
  BY <1>5, <1>8, <1>9

LEMMA RestTime ==
  ASSUME KernelInv, KernelInv', TimeInv, NEW fn, NEW op \in Starts(fn), NEW d,
         Do(d, q, [Entered(op, "noted") EXCEPT !.due = Clock + op.ticks]), Rests(d, k, op.ticks)
  PROVE  TimeInv'
<1> DEFINE b == Entered(op, "noted")  c == [b EXCEPT !.due = Clock + op.ticks]
<1>1. /\ Callable(op, Actions) /\ op \in Ops /\ op.ticks \in Int /\ IsReady(k, k.cur)
      /\ "noted" \notin WaitSteps /\ "noted" \in Steps /\ Clock \in Int
  BY StartsOf, CurrentTask DEF WaitSteps, Steps
<1>2. CallTimed(b) /\ b \in CallType
  BY <1>1, EnteredTimed, EnteredType
<1>3. Do(d, q, c)
  OBVIOUS
<1> HIDE DEF b
<1>4. c.wait = b.wait /\ c.last = b.last /\ c.mark = b.mark /\ c.at = b.at /\ c.due = Clock + op.ticks
  BY <1>2 DEF CallType
<1> HIDE DEF c
<1>5. CallTimed(c)
  BY <1>2, <1>4 DEF CallTimed
<1>6. CASE op.ticks = 0
  <2>1. Calm(k', k)
    BY <1>3, <1>6 DEF Rests, Do
  <2> QED
    BY <1>1, <1>3, <1>5, <2>1, DoTime
<1>7. CASE op.ticks # 0
  <2>1. op.ticks \in 1..MAX_DELAY
    BY <1>1, <1>7, Turn DEF Callable
  <2>2. Dozes(d, k, k.cur, op.ticks)
    BY <1>7 DEF Rests
  <2>3. c.due \in Int /\ Clock + op.ticks <= c.due
    BY <1>1, <1>4
  <2> QED
    BY <1>3, <1>5, <2>1, <2>2, <2>3, DozeTime
<1> QED
  BY <1>6, <1>7

LEMMA AwaitTime ==
  ASSUME KernelInv, TimeInv, NotifyTake \/ NotifyWait
  PROVE  TimeInv'
<1>1. ASSUME NEW fn, NEW op \in Starts(fn)
      PROVE  /\ Rests(NotifyTakeFirst(k, op.ticks), k, op.ticks)
             /\ Rests(NotifyWaitFirst(k, op.ticks, op.how = "clear"), k, op.ticks)
  <2>1. k.cur # Idle /\ IsReady(k, k.cur) /\ k.locked = 0 /\ op.ticks \in 0..MAX_DELAY /\ Steady(k, Noting)
    BY <1>1, StartsOf, CurrentTask DEF Callable
  <2>2. (op.how = "clear") \in BOOLEAN /\ k.tick \in 0..MAX_DELAY
    BY DEF TimeInv, Timed
  <2> QED
    BY <2>1, <2>2, FirstRests
<1>2. KernelInv'
  BY AwaitInv
<1>3. CASE NotifyTake
  <2>1. PICK op \in Starts("notifyTake") :
          Do(NotifyTakeFirst(k, op.ticks), q, [Entered(op, "noted") EXCEPT !.due = Clock + op.ticks])
    BY <1>3 DEF NotifyTake
  <2> QED
    BY <1>1, <1>2, <2>1, RestTime
<1>4. CASE NotifyWait
  <2>1. PICK op \in Starts("notifyWait") :
          Do(NotifyWaitFirst(k, op.ticks, op.how = "clear"), q,
             [Entered(op, "noted") EXCEPT !.due = Clock + op.ticks])
    BY <1>4 DEF NotifyWait
  <2> QED
    BY <1>1, <1>2, <2>1, RestTime
<1> QED
  BY <1>3, <1>4

\* The run is within the reach of the counters: no tick is lost because too many
\* were pended, and no task asks for a wake-up time a turn of the tick count behind.
InReach ==
  /\ k.missed + 1 < PendedMod
  /\ (At("delay") /\ Me.op.fn = "delayUntil") => Clock - Me.mark < TickMod

\* When vTaskDelayUntil waits, it waits to the time that is due and not beyond it.
LEMMA DelayAhead ==
  ASSUME NEW tick \in 0..MAX_DELAY, NEW last \in 0..MAX_DELAY, NEW wait \in 1..MAX_DELAY,
         NEW start \in Int, NEW clock \in Int, NEW mark \in Int, clock - mark < TickMod,
         Same(start + clock, tick), Same(start + mark, last),
         ShouldDelay(tick, last, (last + wait) % TickMod)
  PROVE  LET r == (((last + wait) % TickMod) - tick) % TickMod
         IN  r \in 1..MAX_DELAY /\ clock + r <= mark + wait
<1> DEFINE wake == (last + wait) % TickMod  r == (wake - tick) % TickMod  ahead == mark + wait - clock
<1>1. /\ tick \in Int /\ last \in Int /\ wait \in Int /\ last + wait \in Int /\ start + clock \in Int
      /\ start + mark \in Int /\ MAX_DELAY \in Int /\ TickMod \in Int /\ MAX_DELAY = TickMod - 1
  BY Turn
<1>2. wake \in 0..MAX_DELAY /\ Same(last + wait, wake)
  BY <1>1, Turned
<1>3. wake = IF last + wait < TickMod THEN last + wait ELSE last + wait - TickMod
  BY <1>1, WrapSum
<1>4. ShouldDelay(tick, last, wake)
  OBVIOUS
<1> HIDE DEF wake
<1>5. wake \in Int /\ wake - tick \in Int /\ ahead \in Int /\ start + mark + wait \in Int
  BY <1>1, <1>2
<1>6. r \in 0..MAX_DELAY /\ Same(wake - tick, r)
  BY <1>5, Turned
<1> HIDE DEF r
<1>7. r \in Int
  BY <1>1, <1>6
<1>8. Same(ahead, wake - tick)
  <2>1. Same(wait, wait)
    BY <1>1, SameSelf
  <2>2. Same(start + mark + wait, last + wait)
    BY <1>1, <2>1, SameSum
  <2>3. Same(start + mark + wait, wake)
    BY <1>1, <1>2, <1>5, <2>2, SameTwice
  <2>4. Same((start + mark + wait) - (start + clock), wake - tick)
    BY <1>1, <1>5, <2>3, SameSum
  <2>5. (start + mark + wait) - (start + clock) = ahead
    OBVIOUS
  <2> QED
    BY <2>4, <2>5
<1>9. Same(ahead, r)
  BY <1>5, <1>6, <1>7, <1>8, SameTwice
<1>10. r # 0
  <2>1. SUFFICES ASSUME r = 0 PROVE FALSE
    OBVIOUS
  <2>2. Same(wake - tick, 0)
    BY <1>6, <2>1
  <2>3. wake - tick = 0
    BY <1>1, <1>2, <1>5, <2>2, SameNear
  <2> QED
    BY <1>1, <1>2, <1>4, <2>3 DEF ShouldDelay
<1>11. 0 <= ahead
  <2>1. SUFFICES ASSUME ahead < 0 PROVE FALSE
    BY <1>5
  <2> DEFINE gone == clock - mark
  <2>2. gone \in Int /\ wait < gone /\ gone < TickMod
    BY <1>1, <2>1
  <2>3. Same(gone, tick - last)
    <3>1. Same((start + clock) - (start + mark), tick - last)
      BY <1>1, SameSum
    <3>2. (start + clock) - (start + mark) = gone
      OBVIOUS
    <3> QED
      BY <3>1, <3>2
  <2> HIDE DEF gone
  <2>4. CASE last <= tick
    <3>1. gone = tick - last
      BY <1>1, <2>2, <2>3, <2>4, SameNear
    <3>2. wake = last + wait /\ last <= wake /\ wake < tick
      BY <1>1, <1>3, <2>2, <3>1
    <3> QED
      BY <1>1, <1>4, <2>4, <3>2 DEF ShouldDelay
  <2>5. CASE tick < last
    <3>1. Same(tick - last, gone) /\ tick - last \in Int
      BY <1>1, <2>2, <2>3, SameSum
    <3>2. gone = tick - last + TickMod
      BY <1>1, <2>2, <2>5, <3>1, SameNear
    <3>3. last <= wake \/ wake < tick
      BY <1>1, <1>3, <2>2, <3>2
    <3> QED
      BY <1>1, <1>2, <1>4, <1>5, <2>5, <3>3 DEF ShouldDelay
  <2> QED
    BY <1>1, <2>4, <2>5
<1>12. r \in 1..MAX_DELAY
  BY <1>1, <1>6, <1>10
<1>13. r <= ahead
  BY <1>1, <1>5, <1>7, <1>9, <1>11, <1>12, SameNear
<1>14. r \in 1..MAX_DELAY /\ clock + r <= mark + wait
  BY <1>7, <1>12, <1>13
<1> QED
  BY <1>14 DEF r, wake

LEMMA DelayUntilTime ==
  ASSUME KernelInv, TimeInv, InReach, DelayUntil
  PROVE  TimeInv'
<1> DEFINE due == Me.mark + Me.wait  d == vTaskDelayUntil(k, Me.last, Me.wait)
           last == (Me.last + Me.wait) % TickMod
           a == [Me EXCEPT !.at = "resume", !.after = "delay", !.due = due, !.mark = due,
                           !.last = (@ + Me.wait) % TickMod]
           wake == (Me.last + Me.wait) % TickMod  r == (wake - k.tick) % TickMod
<1>1. Me.at = "delay" /\ Me.op.fn = "delayUntil" /\ At("delay") /\ Do(d, q, a) /\ KernelInv'
  BY DelayUntilInv DEF DelayUntil, At
<1>2. a.wait = Me.wait /\ a.last = last /\ a.mark = due /\ a.at = "resume" /\ a.due = due
  BY MeTimed DEF CallType
<1> HIDE DEF a
<1>3. /\ Me.wait \in 1..MAX_DELAY /\ Me.last \in 0..MAX_DELAY /\ Me.mark \in Int /\ Clock \in Int
      /\ k.tick \in 0..MAX_DELAY /\ plan.start \in Int /\ Same(plan.start + Me.mark, Me.last)
      /\ Same(plan.start + Clock, k.tick)
  BY <1>1, CurrentTask, MeTimed, StartOf, AtDelay, Turn DEF CallTimed, WaitSteps, TimeInv, Timed
<1>4. Me.wait \in Int /\ Me.last \in Int /\ Me.last + Me.wait \in Int /\ due \in Int
      /\ plan.start + Me.mark \in Int
  BY <1>3, Turn
<1>5. last \in 0..MAX_DELAY /\ Same(Me.last + Me.wait, last)
  BY <1>4, Turned
<1>6. Same(plan.start + due, last)
  <2>1. Same(Me.wait, Me.wait)
    BY <1>4, SameSelf
  <2>2. Same((plan.start + Me.mark) + Me.wait, Me.last + Me.wait)
    BY <1>3, <1>4, <2>1, SameSum
  <2>3. (plan.start + Me.mark) + Me.wait = plan.start + due /\ plan.start + due \in Int /\ last \in Int
    BY <1>3, <1>4, <1>5, Turn
  <2> HIDE DEF due, last
  <2> QED
    BY <1>4, <1>5, <2>2, <2>3, SameTwice
<1>7. CallTimed(a)
  <2> HIDE DEF due, last
  <2> QED
    BY <1>2, <1>3, <1>5, <1>6, Turn DEF CallTimed, WaitSteps
<1>8. CASE ShouldDelay(k.tick, Me.last, wake)
  <2>1. Clock - Me.mark < TickMod
    BY <1>1 DEF InReach
  <2>2. r \in 1..MAX_DELAY /\ Clock + r <= due
    BY <1>3, <1>8, <2>1, DelayAhead
  <2>3. d = prvAddCurrentTaskToDelayedList(k, r, FALSE)
    BY <1>8 DEF vTaskDelayUntil
  <2> HIDE DEF r
  <2>4. Dozes(d, k, k.cur, r)
    BY <1>3, <2>2, <2>3, CurrentTask, WaitDozes
  <2>5. a.due \in Int /\ Clock + r <= a.due
    BY <1>2, <1>4, <2>2
  <2> HIDE DEF d
  <2> QED
    BY <1>1, <1>7, <2>2, <2>4, <2>5, DozeTime
<1>9. CASE ~ShouldDelay(k.tick, Me.last, wake)
  <2>1. d = k
    BY <1>9 DEF vTaskDelayUntil
  <2>2. Calm(k', k) /\ IsReady(k, k.cur)
    BY <1>1, <2>1, AtDelay, CalmSelf DEF Do
  <2> QED
    BY <1>1, <1>7, <2>2, DoTime
<1> QED
  BY <1>8, <1>9

-----------------------------------------------------------------------------
(* Time passes                                                             *)

\* The tick has been counted: the time of some has come, of none has it passed.
Reached(c, clock, due) ==
  /\ c.tick \in 0..MAX_DELAY /\ c.next <= MAX_DELAY
  /\ \A t \in ToSet(c.delayed) :
       /\ c.tick <= c.tcb[t].wake /\ c.tcb[t].wake <= MAX_DELAY
       /\ clock + c.tcb[t].wake - c.tick <= due[t]
  /\ \A t \in ToSet(c.overflow) :
       /\ c.tcb[t].wake <= MAX_DELAY
       /\ clock + c.tcb[t].wake + TickMod - c.tick <= due[t]

LEMMA Wakes_ ==
  ASSUME NEW c \in KernelType
  PROVE  /\ \A t \in ToSet(c.delayed) \cup ToSet(c.overflow) : t \in Everyone /\ c.tcb[t].wake \in Nat
         /\ c.tick \in Nat /\ c.next \in Nat /\ c.missed \in Nat
<1>1. \A t \in Everyone : c.tcb[t].wake \in Nat
  BY TcbOf
<1>2. c.delayed \in Rows(Everyone) /\ c.overflow \in Rows(Everyone)
  BY DEF KernelType
<1> QED
  BY <1>1, <1>2, InEveryone DEF KernelType

LEMMA CountedReached ==
  ASSUME NEW c \in KernelType, NEW clock \in Int, NEW due, \A t \in Everyone : due[t] \in Int,
         Timed(c, clock, due)
  PROVE  LET m == Counted(c)
         IN  /\ Reached(m, clock + 1, due) /\ m.tick = (c.tick + 1) % TickMod
             /\ m.missed = c.missed /\ m.locked = c.locked
<1> DEFINE later == (c.tick + 1) % TickMod  m == [c EXCEPT !.tick = later]
<1>1. later = IF c.tick + 1 < TickMod THEN c.tick + 1 ELSE c.tick + 1 - TickMod
  BY WrapSum, Turn DEF Timed
<1>2. c.tick \in 0..MAX_DELAY /\ later \in 0..MAX_DELAY /\ later \in Nat
      /\ (later = 0 => c.tick = MAX_DELAY) /\ (later # 0 => later = c.tick + 1)
  BY <1>1, Turn DEF Timed
<1>3. m \in KernelType
  BY <1>2, Zenon DEF KernelType
<1>4. /\ m.delayed = c.delayed /\ m.overflow = c.overflow /\ m.tcb = c.tcb /\ m.next = c.next
      /\ m.tick = later /\ m.missed = c.missed /\ m.locked = c.locked
  BY DEF KernelType
<1>5. \A t \in ToSet(c.delayed) \cup ToSet(c.overflow) :
        t \in Everyone /\ c.tcb[t].wake \in Nat /\ due[t] \in Int
  BY Wakes_
<1>6. CASE later = 0
  <2> DEFINE w == SwitchDelayedLists(m)  d == prvResetNextTaskUnblockTime(w)
  <2>1. Counted(c) = d
    BY <1>6 DEF Counted
  <2>2. m.overflow \in Rows(Everyone) /\ m.delayed \in Rows(Everyone) /\ m.overflows + 1 \in Nat
    BY <1>3 DEF KernelType
  <2>3. w = [m EXCEPT !.delayed = m.overflow, !.overflow = m.delayed, !.overflows = m.overflows + 1]
    BY <1>3 DEF KernelType, SwitchDelayedLists
  <2> HIDE DEF m
  <2>4. w \in KernelType
    BY <1>3, <2>2, <2>3, Zenon DEF KernelType
  <2>5. /\ w.delayed = m.overflow /\ w.overflow = m.delayed /\ w.tcb = m.tcb /\ w.tick = m.tick
        /\ w.missed = m.missed /\ w.locked = m.locked
    BY <1>3, <2>3 DEF KernelType
  <2> HIDE DEF w
  <2>6. /\ d.delayed = c.overflow /\ d.overflow = c.delayed /\ d.tcb = c.tcb /\ d.tick = 0
        /\ d.missed = c.missed /\ d.locked = c.locked
        /\ d.next = MAX_DELAY \/ \E t \in ToSet(d.delayed) : d.next = d.tcb[t].wake
    BY <1>4, <1>6, <2>4, <2>5, ResetNext DEF SameRest
  <2> HIDE DEF d, later
  <2>7. \A t \in ToSet(d.overflow) : FALSE
    <3>1. SUFFICES ASSUME NEW t \in ToSet(d.overflow) PROVE FALSE
      OBVIOUS
    <3>2. t \in ToSet(c.delayed) /\ c.tick < c.tcb[t].wake /\ c.tcb[t].wake <= MAX_DELAY
      BY <2>6 DEF Timed
    <3> QED
      BY <1>2, <1>5, <1>6, <3>2, Turn
  <2>8. ASSUME NEW t \in ToSet(d.delayed)
        PROVE  /\ d.tick <= d.tcb[t].wake /\ d.tcb[t].wake <= MAX_DELAY
               /\ clock + 1 + d.tcb[t].wake - d.tick <= due[t]
    <3>1. /\ t \in ToSet(c.overflow) /\ c.tcb[t].wake <= MAX_DELAY
          /\ clock + c.tcb[t].wake + TickMod - c.tick <= due[t]
      BY <2>6 DEF Timed
    <3> QED
      BY <1>2, <1>5, <1>6, <2>6, <3>1, Turn
  <2>9. d.next <= MAX_DELAY
    <3>1. CASE d.next = MAX_DELAY
      BY <3>1, Turn
    <3> QED
      BY <2>6, <2>8, <3>1
  <2>10. Reached(d, clock + 1, due)
    BY <2>6, <2>7, <2>8, <2>9, Turn DEF Reached
  <2> QED
    BY <1>6, <2>1, <2>6, <2>10 DEF later
<1>7. CASE later # 0
  <2>1. Counted(c) = m
    BY <1>7 DEF Counted
  <2> HIDE DEF m
  <2>2. ASSUME NEW t \in ToSet(m.delayed)
        PROVE  /\ m.tick <= m.tcb[t].wake /\ m.tcb[t].wake <= MAX_DELAY
               /\ clock + 1 + m.tcb[t].wake - m.tick <= due[t]
    <3>1. /\ t \in ToSet(c.delayed) /\ c.tick < c.tcb[t].wake /\ c.tcb[t].wake <= MAX_DELAY
          /\ clock + c.tcb[t].wake - c.tick <= due[t]
      BY <1>4 DEF Timed
    <3> HIDE DEF later
    <3> QED
      BY <1>2, <1>4, <1>5, <1>7, <3>1, Turn
  <2>3. ASSUME NEW t \in ToSet(m.overflow)
        PROVE  m.tcb[t].wake <= MAX_DELAY /\ clock + 1 + m.tcb[t].wake + TickMod - m.tick <= due[t]
    <3>1. /\ t \in ToSet(c.overflow) /\ c.tcb[t].wake <= MAX_DELAY
          /\ clock + c.tcb[t].wake + TickMod - c.tick <= due[t]
      BY <1>4 DEF Timed
    <3> HIDE DEF later
    <3> QED
      BY <1>2, <1>4, <1>5, <1>7, <3>1, Turn
  <2>4. m.tick \in 0..MAX_DELAY /\ m.next <= MAX_DELAY
    BY <1>2, <1>4 DEF Timed
  <2> HIDE DEF later
  <2>5. Reached(m, clock + 1, due)
    BY <2>2, <2>3, <2>4 DEF Reached
  <2> QED
    BY <1>4, <2>1, <2>5 DEF later
<1> QED
  BY <1>6, <1>7

\* Everyone whose time has come is among them.
LEMMA DueLead ==
  ASSUME NEW c, NEW noting, Sound(c, noting), NEW t \in ToSet(c.delayed), c.tcb[t].wake <= c.tick
  PROVE  \E n \in 1..Len(Due(c)) : Due(c)[n] = t
<1> DEFINE row == c.delayed  N == Len(Due(c))
<1>1. /\ row \in Seq(Everyone) /\ Len(row) \in Nat /\ DOMAIN row = 1..Len(row)
      /\ N \in 0..Len(row) /\ \A n \in 1..N : Due(c)[n] = row[n]
      /\ N < Len(row) => c.tcb[row[N + 1]].wake > c.tick
  BY DueFirst
<1> HIDE DEF N
<1>2. PICK i \in 1..Len(row) : row[i] = t
  BY <1>1 DEF ToSet
<1>3. \A n \in 1..Len(row) : row[n] \in Everyone /\ c.tcb[row[n]].wake \in Nat /\ c.tick \in Nat
  <2>1. \A x \in Everyone : c.tcb[x].wake \in Nat /\ c.tick \in Nat
    BY TcbOf DEF Sound, KernelType
  <2> QED
    BY <1>1, <2>1
<1>4. i \in 1..N
  <2>1. SUFFICES ASSUME i \notin 1..N PROVE FALSE
    OBVIOUS
  <2>2. N + 1 \in 1..Len(row) /\ N + 1 <= i /\ c.tcb[row[N + 1]].wake > c.tick
    BY <1>1, <1>2, <2>1
  <2>3. N + 1 # i
    BY <1>2, <1>3, <2>2
  <2>4. c.tcb[row[N + 1]].wake <= c.tcb[row[i]].wake
    <3>1. \A m, n \in DOMAIN row : m < n => WakeTimes(c)[row[m]] <= WakeTimes(c)[row[n]]
      BY DEF Sound, Ordered, Rising
    <3>2. N + 1 \in DOMAIN row /\ i \in DOMAIN row /\ N + 1 < i
      BY <1>1, <1>2, <2>2, <2>3
    <3>3. /\ WakeTimes(c)[row[N + 1]] = c.tcb[row[N + 1]].wake
          /\ WakeTimes(c)[row[i]] = c.tcb[row[i]].wake
      BY <1>1, <1>3, <3>2 DEF WakeTimes
    <3>4. WakeTimes(c)[row[N + 1]] <= WakeTimes(c)[row[i]]
      BY <3>1, <3>2, Zenon
    <3> QED
      BY <3>3, <3>4
  <2> QED
    BY <1>2, <1>3, <2>2, <2>4
<1> QED
  BY <1>1, <1>2, <1>4 DEF N

\* The tick wakes everyone whose time has come.
LEMMA WokenTimed ==
  ASSUME NEW c, NEW noting, Steady(c, noting), NEW clock, NEW due, Reached(c, clock, due)
  PROVE  LET d == IF c.tick >= c.next THEN WakeDue(c) ELSE c
         IN  Timed(d, clock, due) /\ d.tick = c.tick /\ d.missed = c.missed /\ d.locked = c.locked
<1>1. c \in KernelType /\ Sound(c, noting) /\ Early(c)
  BY DEF Steady, Sound
<1>2. /\ \A t \in ToSet(c.delayed) \cup ToSet(c.overflow) : t \in Everyone /\ c.tcb[t].wake \in Nat
      /\ c.tick \in Nat /\ c.next \in Nat
  BY <1>1, Wakes_
<1>3. CASE c.tick >= c.next
  <2> DEFINE d == WakeDue(c)
  <2>1. /\ Gains(d, c, noting)
        /\ \A n \in 1..Len(Due(c)) : Due(c)[n] \notin ToSet(d.delayed)
        /\ d.next = MAX_DELAY \/ \E t \in ToSet(d.delayed) : d.next = d.tcb[t].wake
    BY DueWakes
  <2> HIDE DEF d
  <2>2. /\ d.tick = c.tick /\ d.missed = c.missed /\ d.locked = c.locked
        /\ ToSet(d.delayed) \subseteq ToSet(c.delayed) /\ ToSet(d.overflow) \subseteq ToSet(c.overflow)
        /\ \A t \in ToSet(d.delayed) \cup ToSet(d.overflow) : d.tcb[t].wake = c.tcb[t].wake
    BY <2>1 DEF Gains, Passes, Calm
  <2>3. ASSUME NEW t \in ToSet(d.delayed)
        PROVE  /\ d.tick < d.tcb[t].wake /\ d.tcb[t].wake <= MAX_DELAY
               /\ clock + d.tcb[t].wake - d.tick <= due[t]
    <3>1. /\ t \in ToSet(c.delayed) /\ d.tcb[t].wake = c.tcb[t].wake
          /\ c.tcb[t].wake <= MAX_DELAY /\ clock + c.tcb[t].wake - c.tick <= due[t]
      BY <2>2 DEF Reached
    <3>2. ~(c.tcb[t].wake <= c.tick)
      BY <1>1, <2>1, <3>1, DueLead
    <3>3. c.tick < c.tcb[t].wake
      BY <1>2, <3>1, <3>2
    <3> QED
      BY <2>2, <3>1, <3>3
  <2>4. ASSUME NEW t \in ToSet(d.overflow)
        PROVE  d.tcb[t].wake <= MAX_DELAY /\ clock + d.tcb[t].wake + TickMod - d.tick <= due[t]
    <3>1. /\ t \in ToSet(c.overflow) /\ d.tcb[t].wake = c.tcb[t].wake
          /\ c.tcb[t].wake <= MAX_DELAY /\ clock + c.tcb[t].wake + TickMod - c.tick <= due[t]
      BY <2>2 DEF Reached
    <3> QED
      BY <2>2, <3>1
  <2>5. d.next <= MAX_DELAY /\ (d.tick < d.next \/ d.next = MAX_DELAY)
    <3>1. CASE d.next = MAX_DELAY
      BY <3>1, Turn
    <3> QED
      BY <2>1, <2>3, <3>1
  <2>6. d.tick \in 0..MAX_DELAY
    BY <2>2 DEF Reached
  <2>7. Timed(d, clock, due)
    BY <2>3, <2>4, <2>5, <2>6 DEF Timed
  <2> QED
    BY <1>3, <2>2, <2>7 DEF d
<1>4. CASE ~(c.tick >= c.next)
  <2>1. c.tick < c.next
    BY <1>2, <1>4
  <2>2. ASSUME NEW t \in ToSet(c.delayed)
        PROVE  c.tick < c.tcb[t].wake
    <3>1. c.next <= c.tcb[t].wake
      BY <1>1 DEF Early
    <3> QED
      BY <1>2, <2>1, <3>1
  <2>3. Timed(c, clock, due)
    BY <2>1, <2>2 DEF Timed, Reached
  <2> QED
    BY <1>4, <2>3
<1> QED
  BY <1>3, <1>4

\* A tick while the scheduler is not locked.
LEMMA IncrementTimed ==
  ASSUME NEW c, NEW noting, Steady(c, noting), c.locked = 0, NEW clock \in Int, NEW due,
         \A t \in Everyone : due[t] \in Int, Timed(c, clock, due)
  PROVE  LET d == xTaskIncrementTick(c)
         IN  /\ Timed(d, clock + 1, due) /\ d.tick = (c.tick + 1) % TickMod
             /\ d.missed = c.missed /\ d.locked = 0
<1> DEFINE m == Counted(c)  d == IF m.tick >= m.next THEN WakeDue(m) ELSE m
<1>1. xTaskIncrementTick(c) = d
  BY DEF xTaskIncrementTick
<1>2. Reached(m, clock + 1, due) /\ m.tick = (c.tick + 1) % TickMod /\ m.missed = c.missed /\ m.locked = c.locked
  BY CountedReached DEF Steady, Sound
<1>3. Steady(m, noting)
  BY CountedPasses DEF Passes
<1> HIDE DEF m
<1>4. Timed(d, clock + 1, due) /\ d.tick = m.tick /\ d.missed = m.missed /\ d.locked = m.locked
  BY <1>2, <1>3, WokenTimed
<1> HIDE DEF d
<1> QED
  BY <1>1, <1>2, <1>4

\* The step goes through x, whose time is clock, and is calm from there.
LEMMA AfterTime ==
  ASSUME KernelInv, KernelInv', NEW x, NEW clock, Timed(x, clock, Dues), x.locked = 0 => x.missed = 0,
         Same(plan.start + clock, x.tick), Calm(k', x), plan' = plan, Clock' = clock,
         \A t \in ToSet(k'.delayed) \cup ToSet(k'.overflow) : call'[t].due = call[t].due,
         \A t \in Everyone : CallTimed(call'[t])
  PROVE  TimeInv'
<1>1. k'.tick = x.tick
  BY DEF Calm
<1>2. (\A t \in Everyone : Dues[t] = call[t].due)' /\ \A t \in Everyone : Dues[t] = call[t].due
  BY DEF Dues
<1>3. ToSet(k'.delayed) \subseteq Everyone /\ ToSet(k'.overflow) \subseteq Everyone
  BY InEveryone DEF KernelInv, Steady, Sound, KernelType
<1>4. SameDue(k', Dues', Dues)
  BY <1>2, <1>3 DEF SameDue
<1>5. Timed(k', clock, Dues')
  BY <1>4, CalmTimed
<1>6. Timed(k, Clock, Dues)'
  BY <1>5
<1>7. (k.locked = 0 => k.missed = 0)'
  BY DEF Calm
<1>8. Same(plan.start + Clock, k.tick)'
  BY <1>1 DEF Same
<1>9. (\A t \in Everyone : CallTimed(call[t]))'
  BY DEF CallTimed, Same
<1> QED
  BY <1>6, <1>7, <1>8, <1>9 DEF TimeInv

LEMMA SameNext ==
  ASSUME NEW a \in Int, NEW b \in Int, Same(a, b)
  PROVE  Same(a + 1, (b + 1) % TickMod)
<1>1. Same(1, 1)
  BY SameSelf
<1>2. Same(a + 1, b + 1)
  BY <1>1, SameSum
<1>3. (b + 1) % TickMod \in 0..MAX_DELAY /\ Same(b + 1, (b + 1) % TickMod)
  BY Turned
<1> DEFINE r == (b + 1) % TickMod
<1>4. r \in Int /\ b + 1 \in Int /\ a + 1 \in Int
  BY <1>3, Turn
<1> HIDE DEF r
<1>5. Same(a + 1, r)
  BY <1>2, <1>3, <1>4, SameTwice DEF r
<1> QED
  BY <1>5 DEF r

LEMMA TickTime ==
  ASSUME KernelInv, TimeInv, InReach, Tick
  PROVE  TimeInv'
<1> DEFINE x == xTaskIncrementTick(k)
<1>1. /\ now' = now + 1 /\ k' = YieldIf(x, TickSwitches(k)) /\ call' = call /\ plan' = plan
      /\ KernelInv'
  BY TickInv DEF Tick, Interrupt
<1>2. Steady(k, Noting) /\ k \in KernelType /\ k.locked \in {0, 1} /\ now \in Int /\ k.missed \in Nat
      /\ k.tick \in Int /\ plan.start \in Int /\ Clock \in Int
  BY CurrentTask, StartOf DEF Steady, Sound, KernelType
<1>3. Passes(x, k, Noting)
  BY <1>2, TickPasses
<1>4. Calm(k', x)
  BY <1>1, <1>3, YieldIfSteady DEF Passes
<1>5. Timed(k, Clock, Dues) /\ (k.locked = 0 => k.missed = 0) /\ Same(plan.start + Clock, k.tick)
      /\ \A t \in Everyone : CallTimed(call'[t])
  BY <1>1 DEF TimeInv
<1>6. \A t \in Everyone : Dues[t] \in Int
  BY DuesOf
<1>7. \A t \in ToSet(k'.delayed) \cup ToSet(k'.overflow) : call'[t].due = call[t].due
  BY <1>1
<1>8. CASE k.locked = 0
  <2> DEFINE clock == Clock + 1
  <2>1. Timed(x, clock, Dues) /\ x.tick = (k.tick + 1) % TickMod /\ x.missed = k.missed /\ x.locked = 0
    BY <1>2, <1>5, <1>6, <1>8, IncrementTimed
  <2> HIDE DEF x
  <2>2. k'.missed = x.missed
    BY <1>4 DEF Calm
  <2>3. Clock' = clock
    BY <1>1, <1>2, <2>1, <2>2 DEF Clock
  <2>4. Same((plan.start + Clock) + 1, x.tick)
    BY <1>2, <1>5, <2>1, SameNext
  <2>5. Same(plan.start + clock, x.tick)
    <3>1. (plan.start + Clock) + 1 = plan.start + clock
      BY <1>2
    <3> QED
      BY <2>4, <3>1
  <2>6. x.locked = 0 => x.missed = 0
    BY <1>5, <1>8, <2>1
  <2> HIDE DEF clock
  <2> QED
    BY <1>1, <1>4, <1>5, <1>7, <2>1, <2>3, <2>5, <2>6, AfterTime
<1>9. CASE k.locked = 1
  <2>1. (k.missed + 1) % PendedMod = k.missed + 1
    BY <1>2, TasksAssumption DEF InReach
  <2>2. x = [k EXCEPT !.missed = k.missed + 1]
    BY <1>2, <1>9, <2>1 DEF xTaskIncrementTick, KernelType
  <2> HIDE DEF x
  <2>3. /\ x.delayed = k.delayed /\ x.overflow = k.overflow /\ x.tcb = k.tcb /\ x.tick = k.tick
        /\ x.next = k.next /\ x.locked = 1 /\ x.missed = k.missed + 1
    BY <1>2, <1>9, <2>2 DEF KernelType
  <2>4. Timed(x, Clock, Dues)
    BY <1>5, <2>3 DEF Timed
  <2>5. k'.missed = x.missed
    BY <1>4 DEF Calm
  <2>6. Clock' = Clock
    BY <1>1, <1>2, <2>3, <2>5 DEF Clock
  <2>7. Same(plan.start + Clock, x.tick) /\ (x.locked = 0 => x.missed = 0)
    BY <1>5, <2>3
  <2> QED
    BY <1>1, <1>4, <1>5, <1>7, <2>4, <2>6, <2>7, AfterTime
<1> QED
  BY <1>2, <1>8, <1>9

LEMMA ReplayTimed ==
  ASSUME NEW c, NEW noting, Steady(c, noting), c.locked = 0, NEW clock \in Int, NEW due,
         \A t \in Everyone : due[t] \in Int, Timed(c, clock, due)
  PROVE  LET d == Replay(c)
         IN  /\ Timed(d, clock + 1, due) /\ d.tick = (c.tick + 1) % TickMod
             /\ d.missed = c.missed /\ d.locked = 0
<1> DEFINE m == xTaskIncrementTick(c)  b == c.yield \/ TickSwitches(c)
<1>1. /\ Timed(m, clock + 1, due) /\ m.tick = (c.tick + 1) % TickMod
      /\ m.missed = c.missed /\ m.locked = 0
  BY IncrementTimed
<1>2. Steady(m, noting) /\ b \in BOOLEAN
  BY TickPasses DEF Passes, TickSwitches
<1>3. Replay(c) = [m EXCEPT !.yield = b]
  BY DEF Replay
<1> HIDE DEF m, b
<1>4. Calm(Replay(c), m) /\ Replay(c).locked = m.locked
  BY <1>2, <1>3, YieldNoted
<1>5. SameDue(Replay(c), due, due)
  BY DEF SameDue
<1>6. Timed(Replay(c), clock + 1, due)
  BY <1>1, <1>4, <1>5, CalmTimed
<1> QED
  BY <1>1, <1>4, <1>6 DEF Calm

LEMMA ReplayedTimed ==
  ASSUME NEW c, NEW noting, Steady(c, noting), c.locked = 0, NEW clock \in Int, NEW due,
         \A t \in Everyone : due[t] \in Int, Timed(c, clock, due),
         NEW base \in Int, Same(base, c.tick)
  PROVE  LET d == ReplayMissed(c)
         IN  /\ Timed(d, clock + c.missed, due) /\ Same(base + c.missed, d.tick)
             /\ d.missed = 0 /\ d.locked = 0
<1> DEFINE N == c.missed
<1>1. N \in Nat /\ c.tick \in Int
  BY DEF Steady, Sound, KernelType
<1>2. PICK f : /\ f[0] = c
               /\ \A n \in 1..N : f[n] = Replay(f[n - 1])
               /\ \A n \in 0..N : Passes(f[n], c, noting) /\ f[n] \in KernelType
               /\ ReplayMissed(c) = [f[N] EXCEPT !.missed = 0]
  BY ReplayUnfolds
<1> HIDE DEF N
<1> DEFINE T == {n \in 0..N : Timed(f[n], clock + n, due) /\ Same(base + n, f[n].tick)}
<1>3. 0 \in T
  BY <1>1, <1>2
<1>4. ASSUME NEW n \in 0..N, n \in T, n # N
      PROVE  n + 1 \in T
  <2>1. n + 1 \in 1..N /\ n + 1 \in 0..N /\ (n + 1) - 1 = n /\ n \in Int
    BY <1>1, <1>4
  <2>2. f[n + 1] = Replay(f[n])
    BY <1>2, <2>1
  <2>3. Steady(f[n], noting) /\ f[n].locked = 0 /\ f[n].tick \in Int
    BY <1>2 DEF Passes, KernelType
  <2>4. clock + n \in Int /\ base + n \in Int /\ Timed(f[n], clock + n, due) /\ Same(base + n, f[n].tick)
    BY <1>4, <2>1
  <2>5. Timed(f[n + 1], (clock + n) + 1, due) /\ f[n + 1].tick = (f[n].tick + 1) % TickMod
    BY <2>2, <2>3, <2>4, ReplayTimed
  <2>6. Same((base + n) + 1, f[n + 1].tick)
    BY <2>3, <2>4, <2>5, SameNext
  <2>7. (clock + n) + 1 = clock + (n + 1) /\ (base + n) + 1 = base + (n + 1)
    BY <2>1
  <2> QED
    BY <2>1, <2>5, <2>6, <2>7
<1> HIDE DEF T
<1>5. N \in T
  BY <1>1, <1>3, <1>4, BoundedInduction
<1> DEFINE m == f[N]  d == [m EXCEPT !.missed = 0]
<1>6. Timed(m, clock + N, due) /\ Same(base + N, m.tick) /\ m \in KernelType /\ m.locked = 0
  BY <1>1, <1>2, <1>5 DEF T, Passes
<1> HIDE DEF m
<1>7. /\ d.delayed = m.delayed /\ d.overflow = m.overflow /\ d.tcb = m.tcb /\ d.tick = m.tick
      /\ d.next = m.next /\ d.locked = m.locked /\ d.missed = 0
  BY <1>6 DEF KernelType
<1>8. ReplayMissed(c) = d
  BY <1>2 DEF m
<1> HIDE DEF d
<1>9. Timed(d, clock + N, due)
  BY <1>6, <1>7 DEF Timed
<1> QED
  BY <1>6, <1>7, <1>8, <1>9 DEF N

LEMMA UnlockTimed ==
  ASSUME NEW c, NEW noting, Steady(c, noting), c.locked = 1, NEW clock \in Int, NEW due,
         \A t \in Everyone : due[t] \in Int, Timed(c, clock, due),
         NEW base \in Int, Same(base, c.tick)
  PROVE  LET d == Unlock(c)
         IN  /\ Timed(d, clock + c.missed, due) /\ Same(base + c.missed, d.tick)
             /\ d.missed = 0 /\ d.locked = 0
<1> DEFINE open == [c EXCEPT !.locked = 0]  m == DrainPending(open)
<1>1. Unlock(c) = ReplayMissed(m) /\ Steady(m, noting) /\ m.locked = 0 /\ Calm(m, open)
  BY UnlockUnfolds
<1>2. /\ open.delayed = c.delayed /\ open.overflow = c.overflow /\ open.tcb = c.tcb
      /\ open.tick = c.tick /\ open.next = c.next /\ open.missed = c.missed
  BY DEF Steady, Sound, KernelType
<1> HIDE DEF m, open
<1>3. Timed(open, clock, due)
  BY <1>2 DEF Timed
<1>4. SameDue(m, due, due)
  BY DEF SameDue
<1>5. Timed(m, clock, due) /\ m.tick = c.tick /\ m.missed = c.missed
  BY <1>1, <1>2, <1>3, <1>4, CalmTimed DEF Calm
<1>6. /\ Timed(ReplayMissed(m), clock + m.missed, due) /\ Same(base + m.missed, ReplayMissed(m).tick)
      /\ ReplayMissed(m).missed = 0 /\ ReplayMissed(m).locked = 0
  BY <1>1, <1>5, ReplayedTimed
<1> QED
  BY <1>1, <1>5, <1>6

\* xTaskResumeAll with the call that goes on: the ticks that were missed pass now.
LEMMA ResumedTime ==
  ASSUME KernelInv, KernelInv', TimeInv, Me.at = "resume", NEW c, Do(xTaskResumeAll(k), q, c),
         CallTimed(c), c.due = Me.due \/ IsReady(k, k.cur)
  PROVE  TimeInv'
<1> DEFINE x == Unlock(k)  clock == Clock + k.missed
<1>1. /\ k' = YieldIf(x, AlreadyYielded(k)) /\ plan' = plan /\ now' = now
      /\ call' = [call EXCEPT ![k.cur] = c]
  BY DEF Do, xTaskResumeAll
<1>2. Steady(k, Noting) /\ k.locked = 1 /\ now \in Int /\ k.missed \in Nat /\ Clock \in Int
      /\ plan.start \in Int /\ k.tick \in Int
  BY CurrentTask, StartOf DEF LockedSteps, Steady, Sound, KernelType
<1>3. k.cur \in Everyone /\ Me = call[k.cur] /\ call \in [Everyone -> CallType]
  BY CurrentTask DEF KernelInv, CallsSound
<1>4. Timed(k, Clock, Dues) /\ Same(plan.start + Clock, k.tick)
      /\ (\A t \in Everyone : CallTimed(call[t])) /\ \A t \in Everyone : Dues[t] \in Int
  BY DuesOf DEF TimeInv
<1>5. plan.start + Clock \in Int
  BY <1>2
<1>6. /\ Timed(x, clock, Dues) /\ Same((plan.start + Clock) + k.missed, x.tick)
      /\ x.missed = 0 /\ x.locked = 0
  BY <1>2, <1>4, <1>5, UnlockTimed
<1>7. Steady(x, Noting) /\ x.tcb = k.tcb /\ KeepsReady(x, k)
  BY <1>2, UnlockSteady
<1> HIDE DEF x
<1>8. Calm(k', x)
  BY <1>1, <1>7, YieldIfSteady
<1>9. k'.missed = 0
  BY <1>6, <1>8 DEF Calm
<1>10. Clock' = clock
  BY <1>1, <1>2, <1>9 DEF Clock
<1>11. Same(plan.start + clock, x.tick)
  <2>1. (plan.start + Clock) + k.missed = plan.start + clock
    BY <1>2
  <2> QED
    BY <1>6, <2>1
<1>12. call'[k.cur] = c /\ \A t \in Everyone \ {k.cur} : call'[t] = call[t]
  BY <1>1, <1>3
<1>13. \A t \in Everyone : CallTimed(call'[t])
  BY <1>4, <1>12
<1>14. ASSUME NEW t \in ToSet(k'.delayed) \cup ToSet(k'.overflow)
       PROVE  call'[t].due = call[t].due
  <2>1. t \in ToSet(x.delayed) \cup ToSet(x.overflow) /\ t \in Everyone
    <3>1. ToSet(x.delayed) \subseteq Everyone /\ ToSet(x.overflow) \subseteq Everyone
      BY <1>7, InEveryone DEF Steady, Sound, KernelType
    <3> QED
      BY <1>8, <3>1 DEF Calm
  <2>2. StateListed(x, t)
    BY <1>7, <2>1 DEF Steady, Sound, Listed
  <2>3. t # k.cur \/ c.due = Me.due
    BY <1>3, <1>7, <2>1, <2>2 DEF KeepsReady, StateListed
  <2> QED
    BY <1>3, <1>12, <2>1, <2>3
<1> HIDE DEF clock
<1> QED
  BY <1>1, <1>6, <1>8, <1>10, <1>11, <1>13, <1>14, AfterTime

LEMMA ResumeAllTime ==
  ASSUME KernelInv, TimeInv, ResumeAll
  PROVE  TimeInv'
<1>1. Me.at = "resume" /\ KernelInv'
  BY ResumeAllInv DEF ResumeAll, At
<1>2. Me \in CallType /\ CallSound(Me, k.cur)
  BY CurrentTask
<1>3. CASE Me.after = "return" \/ (Me.after = "fail" /\ Me.op.fn \in Sends)
  <2> DEFINE c == [NoCall EXCEPT !.last = Me.last, !.mark = Me.mark]
  <2>1. Do(xTaskResumeAll(k), q, c)
    BY <1>3 DEF ResumeAll, Return
  <2>2. CallTimed(c)
    BY BackTimed
  <2> HIDE DEF c
  <2>3. IsReady(k, k.cur)
    <3>1. Me.after \notin {"yield", "delay"} /\ Me.at = "resume"
      BY <1>1, <1>3
    <3>2. ~Away(Me, k.cur)
      BY <3>1 DEF Away
    <3> QED
      BY <3>2, CurrentTask
  <2> QED
    BY <1>1, <2>1, <2>2, <2>3, ResumedTime
<1>4. CASE ~(Me.after = "return" \/ (Me.after = "fail" /\ Me.op.fn \in Sends))
  <2> DEFINE step == Onward  c == [Me EXCEPT !.at = step]
  <2>1. Do(xTaskResumeAll(k), q, c)
    BY <1>4 DEF ResumeAll, GoTo
  <2>2. Me.after \in {"yield", "delay", "retry", "fail"}
    BY <1>1, <1>2, <1>4 DEF CallType, CallSound
  <2>3. step \in {"try", "yield", "woken", "empty"}
    BY <2>2 DEF Onward
  <2> HIDE DEF step
  <2>4. c.wait = Me.wait /\ c.last = Me.last /\ c.mark = Me.mark /\ c.due = Me.due /\ c.at = step
    BY <1>2, TimedAt
  <2> HIDE DEF c
  <2>5. CallTimed(c)
    BY <2>3, <2>4, MeTimed, TimedStill DEF WaitSteps
  <2> QED
    BY <1>1, <2>1, <2>4, <2>5, ResumedTime
<1> QED
  BY <1>3, <1>4

\* The idle task sleeps through no time at which a task is due.
LEMMA SleepTime ==
  ASSUME KernelInv, TimeInv, Sleep
  PROVE  TimeInv'
<1> DEFINE idle == prvGetExpectedIdleTime(k)
<1>1. KernelInv'
  BY SleepInv
<1>2. Me.at = "sleep" /\ k.cur = Idle
  BY CurrentTask DEF Sleep, At, CallSound
<1>3. PICK n \in 1..(idle - 1) :
        /\ k' = vTaskStepTick(k, n) /\ now' = now + n
        /\ call' = [call EXCEPT ![Idle].at = "resume"] /\ plan' = plan /\ q' = q
  BY DEF Sleep
<1>4. /\ Timed(k, Clock, Dues) /\ k \in KernelType /\ k.tick \in 0..MAX_DELAY /\ k.next <= MAX_DELAY
      /\ (k.tick < k.next \/ k.next = MAX_DELAY) /\ Steady(k, Noting) /\ Early(k)
  BY CurrentTask DEF TimeInv, Timed, Steady, Sound
<1>5. /\ k.tick \in Int /\ k.next \in Nat /\ now \in Int /\ k.missed \in Nat /\ Clock \in Int
      /\ plan.start \in Int /\ k.next - k.tick \in Int /\ MAX_DELAY \in Int
  BY <1>4, CurrentTask, StartOf, Turn DEF KernelType
<1>6. idle \in {0, k.next - k.tick}
  <2> DEFINE r == (k.next - k.tick) % TickMod
  <2>1. idle \in {0, r}
    BY DEF prvGetExpectedIdleTime
  <2>2. r \in 0..MAX_DELAY /\ Same(k.next - k.tick, r)
    BY <1>5, Turned
  <2> HIDE DEF r, idle
  <2>3. k.next - k.tick \in 0..MAX_DELAY
    BY <1>4, <1>5
  <2>4. r = k.next - k.tick
    BY <1>5, <2>2, <2>3, SameNear, Turn
  <2> QED
    BY <2>1, <2>4
<1> HIDE DEF idle
<1>7. n \in Nat /\ n \in Int /\ k.tick + n < k.next
  BY <1>3, <1>5, <1>6
<1> DEFINE x == vTaskStepTick(k, n)  clock == Clock + n
<1>8. /\ x.delayed = k.delayed /\ x.overflow = k.overflow /\ x.tcb = k.tcb /\ x.next = k.next
      /\ x.tick = k.tick + n /\ x.locked = k.locked /\ x.missed = k.missed
  BY <1>4 DEF vTaskStepTick, KernelType
<1>9. k' = x
  BY <1>3
<1> HIDE DEF x
<1>10. /\ \A t \in ToSet(k.delayed) \cup ToSet(k.overflow) :
            t \in Everyone /\ k.tcb[t].wake \in Nat /\ Dues[t] \in Int
  BY <1>4, Wakes_, DuesOf
<1>11. ASSUME NEW t \in ToSet(x.delayed)
       PROVE  /\ x.tick < x.tcb[t].wake /\ x.tcb[t].wake <= MAX_DELAY
              /\ clock + x.tcb[t].wake - x.tick <= Dues[t]
  <2>1. /\ t \in ToSet(k.delayed) /\ k.tcb[t].wake <= MAX_DELAY /\ k.next <= k.tcb[t].wake
        /\ Clock + k.tcb[t].wake - k.tick <= Dues[t]
    BY <1>4, <1>8 DEF Timed, Early
  <2> QED
    BY <1>5, <1>7, <1>8, <1>10, <2>1
<1>12. ASSUME NEW t \in ToSet(x.overflow)
       PROVE  x.tcb[t].wake <= MAX_DELAY /\ clock + x.tcb[t].wake + TickMod - x.tick <= Dues[t]
  <2>1. /\ t \in ToSet(k.overflow) /\ k.tcb[t].wake <= MAX_DELAY
        /\ Clock + k.tcb[t].wake + TickMod - k.tick <= Dues[t]
    BY <1>4, <1>8 DEF Timed
  <2> QED
    BY <1>5, <1>7, <1>8, <1>10, <2>1, Turn
<1>13. Timed(x, clock, Dues)
  <2>1. x.tick \in 0..MAX_DELAY /\ x.next <= MAX_DELAY /\ x.tick < x.next
    BY <1>4, <1>5, <1>7, <1>8
  <2> HIDE DEF clock
  <2> QED
    BY <1>11, <1>12, <2>1 DEF Timed
<1>14. Clock' = clock /\ Calm(k', x)
  BY <1>3, <1>5, <1>8, <1>9, CalmSelf DEF Clock
<1>15. Same(plan.start + clock, x.tick)
  <2>1. Same(plan.start + Clock, k.tick) /\ Same(n, n) /\ plan.start + Clock \in Int
    BY <1>5, <1>7, SameSelf DEF TimeInv
  <2> DEFINE base == plan.start + Clock  tick == k.tick
  <2> HIDE DEF base, tick
  <2>2. Same(base + n, tick + n)
    <3>1. base \in Int /\ tick \in Int /\ Same(base, tick)
      BY <1>5, <2>1 DEF base, tick
    <3> QED
      BY <1>7, <2>1, <3>1, SameSum
  <2>3. (plan.start + Clock) + n = plan.start + clock
    BY <1>5, <1>7
  <2> QED
    BY <1>8, <2>2, <2>3 DEF base, tick
<1>16. x.locked = 0 => x.missed = 0
  BY <1>8 DEF TimeInv
<1> DEFINE c == [call[Idle] EXCEPT !.at = "resume"]
<1>17. call \in [Everyone -> CallType] /\ Idle \in Everyone /\ call[Idle] \in CallType
  BY DEF KernelInv, CallsSound, Everyone
<1>18. /\ c.wait = call[Idle].wait /\ c.last = call[Idle].last /\ c.mark = call[Idle].mark
       /\ c.due = call[Idle].due /\ c.at = "resume"
  BY <1>17, TimedAt
<1>19. call' = [call EXCEPT ![Idle] = c]
  BY <1>3
<1> HIDE DEF c
<1>20. call'[Idle] = c /\ \A t \in Everyone \ {Idle} : call'[t] = call[t]
  BY <1>17, <1>19
<1>21. CallTimed(c)
  BY <1>17, <1>18, TimedStill DEF TimeInv, WaitSteps
<1>22. \A t \in Everyone : CallTimed(call'[t])
  BY <1>20, <1>21 DEF TimeInv
<1>23. \A t \in ToSet(k'.delayed) \cup ToSet(k'.overflow) : call'[t].due = call[t].due
  <2>1. \A t \in ToSet(k'.delayed) \cup ToSet(k'.overflow) : t \in Everyone
    BY <1>8, <1>9, <1>10
  <2> QED
    BY <1>18, <1>20, <2>1
<1> HIDE DEF clock
<1> QED
  BY <1>1, <1>3, <1>13, <1>14, <1>15, <1>16, <1>22, <1>23, AfterTime

LEMMA InitTime == Init => TimeInv
<1> SUFFICES ASSUME Init
             PROVE  TimeInv
  OBVIOUS
<1>1. KernelInv /\ plan \in Scenarios /\ now = 0
  BY InitInv DEF Init
<1>2. /\ k.locked = 0 /\ k.tick = plan.start /\ k.missed = 0 /\ k.next = MAX_DELAY
      /\ ToSet(k.delayed) = {} /\ ToSet(k.overflow) = {}
  <2>1. k = vTaskStartScheduler(Application(plan))
    BY DEF Init
  <2> QED
    BY <1>1, <2>1, StartedSteady
<1>3. plan.start \in 0..MAX_DELAY /\ plan.start \in Int /\ MAX_DELAY <= MAX_DELAY
  BY <1>1, StartOf, Turn
<1>4. Clock = 0 /\ plan.start + Clock = plan.start /\ plan.start + 0 = plan.start
  BY <1>1, <1>2, <1>3 DEF Clock
<1>5. Same(plan.start, plan.start)
  BY <1>3, SameSelf
<1>6. ASSUME NEW t \in Everyone
      PROVE  CallTimed(call[t])
  <2> DEFINE c == [NoCall EXCEPT !.last = plan.start]
  <2>1. c.wait = 0 /\ c.last = plan.start /\ c.mark = 0 /\ c.at = "out"
    BY DEF NoCall
  <2>2. call[t] = c
    BY DEF Init, Everyone
  <2> HIDE DEF c
  <2> QED
    BY <1>3, <1>4, <1>5, <2>1, <2>2, Turn DEF CallTimed, WaitSteps
<1>7. Timed(k, Clock, Dues)
  BY <1>2, <1>3 DEF Timed
<1> QED
  BY <1>2, <1>4, <1>5, <1>6, <1>7 DEF TimeInv

LEMMA NextTime ==
  ASSUME KernelInv, TimeInv, InReach, [Next]_vars
  PROVE  TimeInv'
<1>1. CASE QueueCall
  BY <1>1, TriedTime, TakeTime, WaitsTime, MovesTime, CheckTime, TestTime, PlaceTime,
     WaitRestrictedTime, ResumeAllTime, EndsTime DEF QueueCall
<1>2. CASE TaskCall
  BY <1>2, LockingTime, DelayTime, DelayUntilTime, AbortTime, RefreshTime, SuspendTaskTime,
     WholeTime, DeleteTime, CreateTime, AwaitTime DEF TaskCall
<1>3. CASE IdleTask
  BY <1>3, IdleTimed, SleepTime DEF IdleTask
<1>4. CASE AnInterrupt
  BY <1>4, TickTime, QuietInterruptTime DEF AnInterrupt
<1> QED
  BY <1>1, <1>2, <1>3, <1>4, OtherQueueTime, StillTime DEF Next

LEMMA TimelyWakes == KernelInv /\ TimeInv => WakeNotLate
<1> SUFFICES ASSUME KernelInv, TimeInv, k.locked = 0, NEW t \in Everyone, IsDelayed(k, t)
             PROVE  now < call[t].due
  BY DEF WakeNotLate, Running, Everyone
<1>1. k \in KernelType /\ k.missed = 0 /\ now \in Int /\ k.tick \in 0..MAX_DELAY
  BY CurrentTask DEF TimeInv, Timed
<1>2. Clock = now
  BY <1>1 DEF Clock
<1>3. t \in ToSet(k.delayed) \/ t \in ToSet(k.overflow)
  BY <1>1, InRow DEF IsDelayed, KernelType
<1>4. k.tcb[t].wake \in Nat /\ Dues[t] = call[t].due /\ call[t].due \in Int
  BY <1>1, <1>3, Wakes_, DuesOf
<1>5. CASE t \in ToSet(k.delayed)
  <2>1. k.tick < k.tcb[t].wake /\ Clock + k.tcb[t].wake - k.tick <= Dues[t]
    BY <1>5 DEF TimeInv, Timed
  <2> QED
    BY <1>1, <1>2, <1>4, <2>1, Turn
<1>6. CASE t \in ToSet(k.overflow)
  <2>1. Clock + k.tcb[t].wake + TickMod - k.tick <= Dues[t]
    BY <1>6 DEF TimeInv, Timed
  <2> QED
    BY <1>1, <1>2, <1>4, <2>1, Turn
<1> QED
  BY <1>3, <1>5, <1>6

\* As long as no tick is lost and no task lags a whole turn of the tick count
\* behind with vTaskDelayUntil, every delay and time-out has ended by its time.
THEOREM WakesInTime == Spec /\ []InReach => []WakeNotLate
<1>1. Init => TimeInv
  BY InitTime
<1>2. KernelInv /\ TimeInv /\ InReach /\ [Next]_vars => TimeInv'
  BY NextTime
<1>3. KernelInv /\ TimeInv => WakeNotLate
  BY TimelyWakes
<1> QED
  BY <1>1, <1>2, <1>3, Invariant, PTL DEF Spec
=============================================================================
