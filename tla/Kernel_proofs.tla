--------------------------- MODULE Kernel_proofs ---------------------------
(***************************************************************************)
(* Theorems about the kernel, for any tasks, queues and priorities, any    *)
(* width of the tick count, and every scenario that KernelAssumption       *)
(* admits: its lists are sound, and the steps of the calls fit them.  That *)
(* delays end in time is the subject of KernelTime_proofs.                 *)
(***************************************************************************)
EXTENDS Kernel, Rows

-----------------------------------------------------------------------------
(* The invariant of the lists, of a record c                               *)

Everyone == Tasks \cup {Idle}
NoteStates == {"none", "not waiting", "waiting", "received"}

Tcbs ==
  [priority : Priorities, base : Priorities, held : Int, wake : Nat,
   value : 1..configMAX_PRIORITIES, note : Nat, state : NoteStates, aborted : BOOLEAN]

KernelType ==
  [ready : [Priorities -> ReadyLists(Everyone)], delayed : Rows(Everyone),
   overflow : Rows(Everyone), pending : Rows(Everyone), ended : Rows(Everyone),
   suspended : Rows(Everyone), waiting : [EventLists -> Rows(Everyone)],
   has : SUBSET {"suspend", "tickless"}, cur : Everyone \cup {NoTask}, tcb : [Everyone -> Tcbs],
   top : Priorities, tick : Nat, overflows : Nat, next : Nat, locked : Int, missed : Nat,
   yield : BOOLEAN, number : Int, unclean : Int]

Row(c, p) == ToSet(c.ready[p].items)
IsReady(c, t) == t \in Row(c, Prio(c, t))
Awaits(c, t) == \E e \in EventLists : t \in ToSet(c.waiting[e])

\* A task that exists is in one state list; a ready one waits for nothing, and is
\* put aside only if it has yet to look for the notification it got.
StateListed(c, t) ==
  LET ready == IsReady(c, t)
      delayed == t \in ToSet(c.delayed)
      overflow == t \in ToSet(c.overflow)
      suspended == t \in ToSet(c.suspended)
      ended == t \in ToSet(c.ended)
  IN  /\ Exists(c, t) <=> ready \/ delayed \/ overflow \/ suspended \/ ended
      /\ ready => ~delayed /\ ~overflow /\ ~suspended /\ ~ended
      /\ delayed => ~overflow /\ ~suspended /\ ~ended
      /\ overflow => ~suspended /\ ~ended
      /\ suspended => ~ended
      /\ \A p \in Priorities : t \in Row(c, p) => p = Prio(c, t) /\ p <= c.top

EventListed(c, t) ==
  /\ t \in ToSet(c.pending) \/ Awaits(c, t) => Exists(c, t)
  /\ t \in ToSet(c.pending) => ~Awaits(c, t)
  /\ \A e, f \in EventLists : t \in ToSet(c.waiting[e]) /\ t \in ToSet(c.waiting[f]) => e = f

Eventless(c, t) == t \notin ToSet(c.pending) /\ ~Awaits(c, t)

\* noting is the set of the tasks that are between the sections of a notification
\* call.
Listed(c, noting, t) ==
  /\ StateListed(c, t) /\ EventListed(c, t)
  /\ IsReady(c, t) => ~Awaits(c, t) /\ (t \in ToSet(c.pending) => t \in noting)
  /\ t \in ToSet(c.ended) => Eventless(c, t) /\ c.tcb[t].state # "waiting"
  /\ c.tcb[t].state = "waiting" => t \in noting

WakeTimes(c) == [t \in Everyone |-> c.tcb[t].wake]
Early(c) == \A t \in ToSet(c.delayed) : c.next <= c.tcb[t].wake
Ordered(c) == Rising(c.delayed, WakeTimes(c)) /\ Rising(c.overflow, WakeTimes(c))

\* The invariant but for task x.
Loose(c, noting, x) ==
  /\ c \in KernelType /\ Ordered(c) /\ Early(c)
  /\ \A t \in Everyone \ {x} : Listed(c, noting, t)
Sound(c, noting) ==
  /\ c \in KernelType /\ Ordered(c) /\ Early(c)
  /\ \A t \in Everyone : Listed(c, noting, t)

\* x is in no state list.
Stateless(c, x) ==
  /\ \A p \in Priorities : x \notin Row(c, p)
  /\ x \notin ToSet(c.delayed) /\ x \notin ToSet(c.overflow)
  /\ x \notin ToSet(c.suspended) /\ x \notin ToSet(c.ended)

\* d treats t as c did.
SameFor(d, c, t) ==
  /\ Prio(d, t) = Prio(c, t) /\ d.tcb[t].state = c.tcb[t].state
  /\ \A p \in Priorities : t \in Row(d, p) <=> t \in Row(c, p)
  /\ t \in ToSet(d.delayed) <=> t \in ToSet(c.delayed)
  /\ t \in ToSet(d.overflow) <=> t \in ToSet(c.overflow)
  /\ t \in ToSet(d.suspended) <=> t \in ToSet(c.suspended)
  /\ t \in ToSet(d.ended) <=> t \in ToSet(c.ended)
  /\ t \in ToSet(d.pending) <=> t \in ToSet(c.pending)
  /\ \A e \in EventLists : t \in ToSet(d.waiting[e]) <=> t \in ToSet(c.waiting[e])

LEMMA Levels == Priorities \subseteq Nat /\ 0 \in Priorities
BY TasksAssumption DEF Priorities

LEMMA TcbOf ==
  ASSUME NEW c \in KernelType, NEW t \in Everyone
  PROVE  /\ c.tcb[t] \in Tcbs /\ Prio(c, t) \in Priorities /\ c.tcb[t].base \in Priorities
         /\ c.tcb[t].wake \in Nat /\ c.tcb[t].value \in 1..configMAX_PRIORITIES
         /\ c.tcb[t].state \in NoteStates /\ c.tcb[t].note \in Nat /\ c.tcb[t].held \in Int
BY DEF KernelType, Tcbs, Prio

LEMMA TopOf ==
  ASSUME NEW c \in KernelType
  PROVE  c.top \in Nat /\ c.top <= c.top
<1>1. c.top \in Nat
  BY Levels DEF KernelType
<1> QED
  BY <1>1

LEMMA SameListed ==
  ASSUME NEW c \in KernelType, NEW d \in KernelType, NEW noting, NEW t \in Everyone,
         Listed(c, noting, t), SameFor(d, c, t), c.top <= d.top
  PROVE  Listed(d, noting, t)
<1>1. Prio(c, t) \in Priorities /\ Priorities \subseteq Nat
  BY TcbOf, Levels
<1>2. c.top \in Priorities /\ d.top \in Priorities
  BY DEF KernelType
<1>3. (IsReady(d, t) <=> IsReady(c, t)) /\ (Awaits(d, t) <=> Awaits(c, t)) /\ (Exists(d, t) <=> Exists(c, t))
  BY <1>1 DEF SameFor, IsReady, Awaits, Exists
<1>4. StateListed(d, t)
  <2>1. \A p \in Priorities : t \in Row(d, p) => p = Prio(d, t) /\ p <= d.top
    <3> SUFFICES ASSUME NEW p \in Priorities, t \in Row(d, p)
                 PROVE  p = Prio(d, t) /\ p <= d.top
      OBVIOUS
    <3>1. t \in Row(c, p) /\ Prio(d, t) = Prio(c, t)
      BY DEF SameFor
    <3>2. p = Prio(c, t) /\ p <= c.top
      BY <3>1 DEF Listed, StateListed
    <3>3. p \in Nat /\ c.top \in Nat /\ d.top \in Nat
      BY <1>1, <1>2
    <3> QED
      BY <3>1, <3>2, <3>3
  <2> QED
    BY <1>3, <2>1 DEF Listed, StateListed, SameFor
<1>5. EventListed(d, t)
  BY <1>1, <1>3 DEF Listed, EventListed, SameFor
<1> QED
  BY <1>3, <1>4, <1>5 DEF Listed, SameFor, Eventless

\* Only x may be treated otherwise.
LEMMA LooseSame ==
  ASSUME NEW c, NEW d \in KernelType, NEW noting, NEW x, Loose(c, noting, x), Ordered(d), Early(d),
         c.top <= d.top, \A t \in Everyone \ {x} : SameFor(d, c, t)
  PROVE  Loose(d, noting, x)
BY SameListed DEF Loose

LEMMA LooseFrom ==
  ASSUME NEW c, NEW noting, NEW x, Sound(c, noting)
  PROVE  Loose(c, noting, x)
BY DEF Sound, Loose

LEMMA SoundAgain ==
  ASSUME NEW c, NEW noting, NEW x, Loose(c, noting, x), Listed(c, noting, x)
  PROVE  Sound(c, noting)
BY DEF Sound, Loose

LEMMA SoundSame ==
  ASSUME NEW c, NEW d \in KernelType, NEW noting, Sound(c, noting), Ordered(d), Early(d),
         c.top <= d.top, \A t \in Everyone : SameFor(d, c, t)
  PROVE  Sound(d, noting)
BY SameListed DEF Sound

-----------------------------------------------------------------------------
(* What an operator leaves alone                                           *)

SamePlaces(d, c) ==
  /\ d.ready = c.ready /\ d.delayed = c.delayed /\ d.overflow = c.overflow
  /\ d.suspended = c.suspended /\ d.ended = c.ended
SameEvents(d, c) == d.pending = c.pending /\ d.waiting = c.waiting
SameRest(d, c) ==
  /\ d.has = c.has /\ d.cur = c.cur /\ d.tick = c.tick /\ d.overflows = c.overflows
  /\ d.locked = c.locked /\ d.missed = c.missed /\ d.number = c.number

\* Nobody starts to wait for a time, and the time at which the tick looks at the
\* delayed list may change only to that of one that waits, or to none.
Calm(d, c) ==
  /\ d.tick = c.tick /\ d.overflows = c.overflows /\ d.missed = c.missed
  /\ d.locked = 0 => c.locked = 0
  /\ ToSet(d.delayed) \subseteq ToSet(c.delayed) /\ ToSet(d.overflow) \subseteq ToSet(c.overflow)
  /\ \A t \in ToSet(d.delayed) \cup ToSet(d.overflow) : d.tcb[t].wake = c.tcb[t].wake
  /\ \/ d.next = c.next \/ d.next = MAX_DELAY
     \/ \E t \in ToSet(c.delayed) : d.next = c.tcb[t].wake

LEMMA CalmSelf ==
  ASSUME NEW c
  PROVE  Calm(c, c)
BY DEF Calm

LEMMA CalmTwice ==
  ASSUME NEW c, NEW d, NEW e, Calm(d, c), Calm(e, d)
  PROVE  Calm(e, c)
<1>1. \A t \in ToSet(d.delayed) : t \in ToSet(c.delayed) /\ d.tcb[t].wake = c.tcb[t].wake
  BY DEF Calm
<1>2. \/ e.next = c.next \/ e.next = MAX_DELAY
      \/ \E t \in ToSet(c.delayed) : e.next = c.tcb[t].wake
  BY <1>1 DEF Calm
<1> QED
  BY <1>2 DEF Calm

\* x is taken off its state list, off its event lists.
OffState(d, c, x) ==
  /\ d \in KernelType
  /\ \A p \in Priorities : Row(d, p) = Row(c, p) \ {x}
  /\ ToSet(d.delayed) = ToSet(c.delayed) \ {x} /\ ToSet(d.overflow) = ToSet(c.overflow) \ {x}
  /\ ToSet(d.suspended) = ToSet(c.suspended) \ {x} /\ ToSet(d.ended) = ToSet(c.ended) \ {x}
  /\ \A value : /\ Rising(c.delayed, value) => Rising(d.delayed, value)
                /\ Rising(c.overflow, value) => Rising(d.overflow, value)
  /\ SameEvents(d, c) /\ SameRest(d, c)
  /\ d.tcb = c.tcb /\ d.top = c.top /\ d.next = c.next /\ d.yield = c.yield
OffEvents(d, c, x) ==
  /\ d \in KernelType
  /\ ToSet(d.pending) = ToSet(c.pending) \ {x}
  /\ \A e \in EventLists : ToSet(d.waiting[e]) = ToSet(c.waiting[e]) \ {x}
  /\ SamePlaces(d, c) /\ SameRest(d, c)
  /\ d.tcb = c.tcb /\ d.top = c.top /\ d.next = c.next /\ d.yield = c.yield

LEMMA OffStateListed ==
  ASSUME NEW c \in KernelType, NEW x
  PROVE  OffState(OffStateList(c, x), c, x)
<1> DEFINE d == OffStateList(c, x)
           ready == [p \in Priorities |-> uxListRemove(c.ready[p], x)]
<1>1. /\ c.ready \in [Priorities -> ReadyLists(Everyone)]
      /\ c.delayed \in Rows(Everyone) /\ c.overflow \in Rows(Everyone)
      /\ c.suspended \in Rows(Everyone) /\ c.ended \in Rows(Everyone)
  BY DEF KernelType
<1>2. /\ ready \in [Priorities -> ReadyLists(Everyone)]
      /\ \A p \in Priorities : ToSet(ready[p].items) = ToSet(c.ready[p].items) \ {x}
  BY <1>1, ListRemoved
<1>3. /\ Removes(Everyone, c.delayed, RemoveFirst(c.delayed, x), x)
      /\ Removes(Everyone, c.overflow, RemoveFirst(c.overflow, x), x)
      /\ Removes(Everyone, c.suspended, RemoveFirst(c.suspended, x), x)
      /\ Removes(Everyone, c.ended, RemoveFirst(c.ended, x), x)
  BY <1>1, FirstRemoved
<1>4. /\ d.ready = ready /\ d.delayed = RemoveFirst(c.delayed, x)
      /\ d.overflow = RemoveFirst(c.overflow, x) /\ d.suspended = RemoveFirst(c.suspended, x)
      /\ d.ended = RemoveFirst(c.ended, x)
  BY DEF KernelType, OffStateList
<1>5. /\ SameEvents(d, c) /\ SameRest(d, c)
      /\ d.tcb = c.tcb /\ d.top = c.top /\ d.next = c.next /\ d.yield = c.yield
  BY DEF KernelType, OffStateList, SameEvents, SameRest
<1>6. d \in KernelType
  <2>1. d = [c EXCEPT !.ready = ready, !.delayed = RemoveFirst(@, x), !.overflow = RemoveFirst(@, x),
                      !.suspended = RemoveFirst(@, x), !.ended = RemoveFirst(@, x)]
    BY DEF OffStateList
  <2> HIDE DEF d, ready
  <2> QED
    BY <1>2, <1>3, <2>1, Zenon DEF KernelType, Removes
<1> HIDE DEF d, ready
<1> QED
  BY <1>2, <1>3, <1>4, <1>5, <1>6 DEF OffState, Row, Removes, d

LEMMA OffEventListed ==
  ASSUME NEW c \in KernelType, NEW x
  PROVE  OffEvents(OffEventList(c, x), c, x)
<1> DEFINE d == OffEventList(c, x)
           waiting == [e \in EventLists |-> RemoveFirst(c.waiting[e], x)]
<1>1. c.waiting \in [EventLists -> Rows(Everyone)] /\ c.pending \in Rows(Everyone)
  BY DEF KernelType
<1>2. /\ waiting \in [EventLists -> Rows(Everyone)]
      /\ \A e \in EventLists : ToSet(waiting[e]) = ToSet(c.waiting[e]) \ {x}
  BY <1>1, FirstRemoved DEF Removes
<1>3. Removes(Everyone, c.pending, RemoveFirst(c.pending, x), x)
  BY <1>1, FirstRemoved
<1>4. d.waiting = waiting /\ d.pending = RemoveFirst(c.pending, x)
  BY DEF KernelType, OffEventList
<1>5. /\ SamePlaces(d, c) /\ SameRest(d, c)
      /\ d.tcb = c.tcb /\ d.top = c.top /\ d.next = c.next /\ d.yield = c.yield
  BY DEF KernelType, OffEventList, SamePlaces, SameRest
<1>6. d \in KernelType
  <2>1. d = [c EXCEPT !.pending = RemoveFirst(@, x), !.waiting = waiting]
    BY DEF OffEventList
  <2> HIDE DEF d, waiting
  <2> QED
    BY <1>2, <1>3, <2>1, Zenon DEF KernelType, Removes
<1> HIDE DEF d, waiting
<1> QED
  BY <1>2, <1>3, <1>4, <1>5, <1>6 DEF OffEvents, Removes, d

-----------------------------------------------------------------------------
(* Lists change                                                            *)

LEMMA MaxOfTwo ==
  ASSUME NEW a \in Int, NEW b \in Int
  PROVE  Max({a, b}) = IF a >= b THEN a ELSE b
<1> DEFINE m == IF a >= b THEN a ELSE b
<1>1. m \in {a, b} /\ \A y \in {a, b} : m >= y
  OBVIOUS
<1>2. \A x \in {a, b} : (\A y \in {a, b} : x >= y) => x = m
  OBVIOUS
<1> HIDE DEF m
<1>3. Max({a, b}) = m
  BY <1>1, <1>2 DEF Max
<1> QED
  BY <1>3 DEF m

LEMMA MinOfTwo ==
  ASSUME NEW a \in Int, NEW b \in Int
  PROVE  Min({a, b}) = IF a <= b THEN a ELSE b
<1> DEFINE m == IF a <= b THEN a ELSE b
<1>1. m \in {a, b} /\ \A y \in {a, b} : m <= y
  OBVIOUS
<1>2. \A x \in {a, b} : (\A y \in {a, b} : x <= y) => x = m
  OBVIOUS
<1> HIDE DEF m
<1>3. Min({a, b}) = m
  BY <1>1, <1>2 DEF Min
<1> QED
  BY <1>3 DEF m

LEMMA RisingSame ==
  ASSUME NEW row \in Rows(Everyone), NEW v, NEW w, \A t \in ToSet(row) : v[t] = w[t], Rising(row, v)
  PROVE  Rising(row, w)
<1>1. \A m \in DOMAIN row : row[m] \in ToSet(row)
  BY DEF ToSet, Rows
<1> QED
  BY <1>1 DEF Rising

LEMMA InEveryone ==
  ASSUME NEW row \in Rows(Everyone)
  PROVE  ToSet(row) \subseteq Everyone
BY EmptyRow

\* Where no list of delayed tasks grows.
LEMMA CalmSame ==
  ASSUME NEW c \in KernelType, NEW d, SameRest(d, c), d.next = c.next,
         ToSet(d.delayed) \subseteq ToSet(c.delayed), ToSet(d.overflow) \subseteq ToSet(c.overflow),
         \A t \in Everyone : d.tcb[t].wake = c.tcb[t].wake
  PROVE  Calm(d, c)
<1>1. ToSet(c.delayed) \subseteq Everyone /\ ToSet(c.overflow) \subseteq Everyone
  BY InEveryone DEF KernelType
<1> QED
  BY <1>1 DEF Calm, SameRest

LEMMA OffStateLoose ==
  ASSUME NEW c, NEW d, NEW noting, NEW x, Loose(c, noting, x), OffState(d, c, x)
  PROVE  Loose(d, noting, x) /\ Stateless(d, x)
<1>1. c \in KernelType /\ d \in KernelType /\ d.tcb = c.tcb /\ c.top <= d.top
  <2>1. c.top \in Nat
    BY Levels DEF Loose, KernelType
  <2> QED
    BY <2>1 DEF Loose, OffState
<1>2. \A t \in Everyone \ {x} : SameFor(d, c, t)
  BY <1>1 DEF OffState, SameFor, Prio, SameEvents
<1>3. WakeTimes(d) = WakeTimes(c)
  BY <1>1 DEF WakeTimes
<1>4. Ordered(d) /\ Early(d)
  BY <1>1, <1>3 DEF Loose, OffState, Ordered, Early
<1>5. Stateless(d, x)
  BY DEF OffState, Stateless
<1> QED
  BY <1>1, <1>2, <1>4, <1>5, LooseSame

LEMMA OffEventsLoose ==
  ASSUME NEW c, NEW d, NEW noting, NEW x, Loose(c, noting, x), OffEvents(d, c, x)
  PROVE  Loose(d, noting, x) /\ Eventless(d, x) /\ (Stateless(c, x) => Stateless(d, x))
<1>1. c \in KernelType /\ d \in KernelType /\ d.tcb = c.tcb /\ c.top <= d.top
  <2>1. c.top \in Nat
    BY Levels DEF Loose, KernelType
  <2> QED
    BY <2>1 DEF Loose, OffEvents
<1>2. \A t \in Everyone \ {x} : SameFor(d, c, t)
  BY <1>1 DEF OffEvents, SameFor, Prio, SamePlaces, Row
<1>3. WakeTimes(d) = WakeTimes(c)
  BY <1>1 DEF WakeTimes
<1>4. Ordered(d) /\ Early(d)
  BY <1>1, <1>3 DEF Loose, OffEvents, Ordered, Early, SamePlaces
<1>5. Eventless(d, x) /\ (Stateless(c, x) => Stateless(d, x))
  BY DEF OffEvents, Eventless, Awaits, Stateless, SamePlaces, Row
<1> QED
  BY <1>1, <1>2, <1>4, <1>5, LooseSame

LEMMA OffEventsSound ==
  ASSUME NEW c, NEW d, NEW noting, NEW x \in Everyone, Sound(c, noting), OffEvents(d, c, x)
  PROVE  Sound(d, noting) /\ Eventless(d, x)
<1>1. Loose(d, noting, x) /\ Eventless(d, x)
  BY LooseFrom, OffEventsLoose
<1>2. Listed(c, noting, x)
  BY DEF Sound
<1>3. /\ d.tcb = c.tcb /\ d.top = c.top /\ SamePlaces(d, c)
      /\ x \notin ToSet(d.pending) /\ \A e \in EventLists : x \notin ToSet(d.waiting[e])
  BY <1>1 DEF OffEvents, Eventless, Awaits
<1>4. Prio(d, x) = Prio(c, x) /\ (Exists(d, x) <=> Exists(c, x)) /\ \A p : Row(d, p) = Row(c, p)
  BY <1>3 DEF Prio, Exists, SamePlaces, Row
<1>5. StateListed(d, x)
  BY <1>2, <1>3, <1>4 DEF Listed, StateListed, IsReady, SamePlaces
<1>6. EventListed(d, x)
  BY <1>3 DEF EventListed, Awaits
<1>7. Listed(d, noting, x)
  BY <1>2, <1>3, <1>5, <1>6 DEF Listed, Awaits, Eventless, SamePlaces
<1> QED
  BY <1>1, <1>7, SoundAgain

\* x becomes the last of the walk through the ready tasks of its priority.
Added(d, c, x) ==
  /\ d \in KernelType
  /\ Row(d, Prio(c, x)) = Row(c, Prio(c, x)) \cup {x}
  /\ \A p \in Priorities : p # Prio(c, x) => Row(d, p) = Row(c, p)
  /\ d.delayed = c.delayed /\ d.overflow = c.overflow
  /\ d.suspended = c.suspended /\ d.ended = c.ended
  /\ SameEvents(d, c) /\ SameRest(d, c)
  /\ d.tcb = c.tcb /\ d.next = c.next /\ d.yield = c.yield
  /\ c.top <= d.top /\ Prio(c, x) <= d.top

LEMMA AddedToRow ==
  ASSUME NEW c \in KernelType, NEW x \in Everyone, x \notin Row(c, Prio(c, x))
  PROVE  Added(prvAddTaskToReadyList(c, x), c, x)
<1> DEFINE d == prvAddTaskToReadyList(c, x)
           p == Prio(c, x)
           list == vListInsertEnd(c.ready[p], x)
           top == Max({c.top, p})
<1>1. p \in Priorities /\ p \in Nat /\ c.top \in Priorities /\ c.top \in Nat
  BY TcbOf, Levels DEF KernelType
<1>2. c.ready[p] \in ReadyLists(Everyone) /\ c.ready \in [Priorities -> ReadyLists(Everyone)]
  BY <1>1 DEF KernelType
<1>3. list \in ReadyLists(Everyone) /\ ToSet(list.items) = Row(c, p) \cup {x}
  <2>1. x \notin ToSet(c.ready[p].items)
    BY DEF Row
  <2> QED
    BY <1>2, <2>1, ReadyAdd, Zenon DEF Row
<1>4. top = (IF c.top >= p THEN c.top ELSE p)
  BY <1>1, MaxOfTwo
<1>5. d.ready = [c.ready EXCEPT ![p] = list] /\ d.top = top
  BY DEF KernelType, prvAddTaskToReadyList
<1>6. /\ d.delayed = c.delayed /\ d.overflow = c.overflow
      /\ d.suspended = c.suspended /\ d.ended = c.ended
      /\ SameEvents(d, c) /\ SameRest(d, c)
      /\ d.tcb = c.tcb /\ d.next = c.next /\ d.yield = c.yield
  BY DEF KernelType, prvAddTaskToReadyList, SameEvents, SameRest
<1>7. d = [c EXCEPT !.top = top, !.ready[p] = list]
  BY Zenon DEF prvAddTaskToReadyList
<1> HIDE DEF d, p, list, top
<1>8. top \in Priorities /\ c.top <= top /\ p <= top
  BY <1>1, <1>4
<1>9. d \in KernelType
  <2>1. [c.ready EXCEPT ![p] = list] \in [Priorities -> ReadyLists(Everyone)]
    BY <1>1, <1>2, <1>3
  <2>2. d = [c EXCEPT !.top = top, !.ready = [c.ready EXCEPT ![p] = list]]
    BY <1>7 DEF KernelType
  <2> QED
    BY <1>8, <2>1, <2>2, Zenon DEF KernelType
<1>10. d.ready[p] = list /\ \A r \in Priorities : r # p => d.ready[r] = c.ready[r]
  BY <1>1, <1>2, <1>5
<1>11. Row(d, p) = Row(c, p) \cup {x} /\ \A r \in Priorities : r # p => Row(d, r) = Row(c, r)
  BY <1>3, <1>10 DEF Row
<1> QED
  BY <1>5, <1>6, <1>8, <1>9, <1>11 DEF Added, d, p

LEMMA AddedSound ==
  ASSUME NEW c, NEW d, NEW noting, NEW x \in Everyone, Loose(c, noting, x), Stateless(c, x),
         Exists(c, x), ~Awaits(c, x), x \in ToSet(c.pending) => x \in noting,
         c.tcb[x].state = "waiting" => x \in noting, Added(d, c, x)
  PROVE  Sound(d, noting) /\ IsReady(d, x)
<1>1. c \in KernelType /\ d \in KernelType /\ d.tcb = c.tcb /\ c.top <= d.top
  BY DEF Loose, Added
<1>2. Prio(c, x) \in Priorities /\ \A t : Prio(d, t) = Prio(c, t) /\ (Exists(d, t) <=> Exists(c, t))
  BY <1>1, TcbOf DEF Prio, Exists
<1>3. \A t \in Everyone \ {x} : \A p \in Priorities : t \in Row(d, p) <=> t \in Row(c, p)
  BY <1>2 DEF Added
<1>4. \A t \in Everyone \ {x} : SameFor(d, c, t)
  BY <1>1, <1>2, <1>3 DEF Added, SameFor, SameEvents
<1>5. WakeTimes(d) = WakeTimes(c)
  BY <1>1 DEF WakeTimes
<1>6. Ordered(d) /\ Early(d)
  BY <1>1, <1>5 DEF Loose, Added, Ordered, Early
<1>7. Loose(d, noting, x)
  BY <1>1, <1>4, <1>6, LooseSame
<1>8. IsReady(d, x) /\ \A p \in Priorities : x \in Row(d, p) => p = Prio(c, x)
  BY <1>2 DEF IsReady, Added, Stateless
<1>9. StateListed(d, x)
  <2>1. /\ x \notin ToSet(d.delayed) /\ x \notin ToSet(d.overflow)
        /\ x \notin ToSet(d.suspended) /\ x \notin ToSet(d.ended)
    BY DEF Added, Stateless
  <2>2. \A p \in Priorities : x \in Row(d, p) => p = Prio(d, x) /\ p <= d.top
    BY <1>2, <1>8 DEF Added
  <2> QED
    BY <1>2, <1>8, <2>1, <2>2 DEF StateListed
<1>10. EventListed(d, x) /\ ~Awaits(d, x) /\ (x \in ToSet(d.pending) => x \in noting)
  BY <1>2 DEF EventListed, Awaits, Added, SameEvents
<1>11. Listed(d, noting, x)
  BY <1>1, <1>9, <1>10 DEF Listed, Added, Stateless
<1> QED
  BY <1>7, <1>8, <1>11, SoundAgain

-----------------------------------------------------------------------------
(* The invariant of the kernel                                             *)

\* The scheduler: one in each list, pending tasks only while it is locked, the
\* tasks counted, and the idle task ready.
Steady(c, noting) ==
  /\ Sound(c, noting)
  /\ c.cur \in Everyone /\ c.locked \in {0, 1}
  /\ c.locked = 0 => c.pending = <<>>
  /\ IsReady(c, Idle)
  /\ c.number = Cardinality({t \in Everyone : Exists(c, t)})

\* What a call finds of its queue.
QueueSound(queue) ==
  /\ {"count", "rx", "tx", "holder", "set"} \subseteq DOMAIN queue
  /\ queue.rx \in Int /\ queue.tx \in Int /\ queue.holder \in Everyone \cup {NoTask}
  /\ queue.set \in Queues \cup {NoQueue}
QueuesSound(queues) == DOMAIN queues = Queues /\ \A x \in Queues : QueueSound(queues[x])

QueueSteps == {"try", "suspend", "lock", "check", "test", "inherit", "place", "restricted",
               "unlockSent", "unlockReceived", "empty", "disinherit", "count", "member", "leave"}
LockedSteps == {"lock", "check", "test", "inherit", "place", "restricted", "unlockSent",
                "unlockReceived", "resume", "delay", "abort", "report", "find", "sleep"}
Steps == QueueSteps \cup LockedSteps \cup {"out", "yield", "woken", "noted", "refresh", "created"}

Ops == {NoCall.op} \cup UNION {plan.calls[t] : t \in Tasks}
CallType ==
  [op : Ops, at : Steps, after : {"none", "yield", "delay", "retry", "fail", "return"},
   wait : Int, entry : [overflows : Int, tick : Int], entered : BOOLEAN, inherited : BOOLEAN,
   last : Int, since : Int, due : Int, cut : BOOLEAN, mark : Int]

\* What the step of the call of t says of the call.
CallSound(c, t) ==
  /\ c.at \in QueueSteps => c.op.fn \in QueueCalls
  /\ c.at = "abort" => c.op.fn = "abort"
  /\ c.at \in {"unlockSent", "unlockReceived"} => c.after \in {"yield", "delay", "retry", "fail"}
  /\ c.at = "resume" => /\ c.after # "none"
                        /\ c.after \in {"yield", "retry", "fail"} => c.op.fn \in QueueCalls
  /\ c.at \in {"abort", "report", "find", "sleep"} => c.after = "return"
  /\ c.at = "sleep" => t = Idle
  /\ t = Idle => \/ c.at = "out"
                 \/ c.at \in {"sleep", "resume"} /\ c.after = "return"
CallsSound ==
  /\ call \in [Everyone -> CallType]
  /\ \A t \in Everyone : CallSound(call[t], t)

Noting == {t \in Everyone : call[t].at = "noted"}

\* Only the current task is where the scheduler is locked.
LockedByCurrent ==
  /\ k.locked = 1 <=> Me.at \in LockedSteps
  /\ \A t \in Everyone : call[t].at \in LockedSteps => t = k.cur

\* The current task is ready but where it has put itself into another list and
\* not been switched yet.
Away(c, t) ==
  \/ c.at = "yield"
  \/ c.at = "refresh" /\ c.op.on = t
  \/ c.at \in {"unlockSent", "unlockReceived", "resume"} /\ c.after \in {"yield", "delay"}
CurrentReady == IsReady(k, k.cur) \/ Away(Me, k.cur)

KernelInv ==
  /\ plan \in Scenarios /\ now \in Int
  /\ Steady(k, Noting) /\ QueuesSound(q) /\ CallsSound /\ LockedByCurrent /\ CurrentReady

-----------------------------------------------------------------------------
(* Changes that leave every task in its lists                              *)

SameLists(d, c) ==
  /\ \A p \in Priorities : Row(d, p) = Row(c, p)
  /\ d.delayed = c.delayed /\ d.overflow = c.overflow
  /\ d.suspended = c.suspended /\ d.ended = c.ended
  /\ SameEvents(d, c)
SameTcbs(d, c, noting) ==
  \A t \in Everyone :
    /\ d.tcb[t].priority = c.tcb[t].priority /\ d.tcb[t].wake = c.tcb[t].wake
    /\ Exists(d, t) <=> Exists(c, t)
    /\ d.tcb[t].state = "waiting" => t \in noting /\ t \notin ToSet(c.ended)
SameReady(d, c) == \A t \in Everyone : IsReady(d, t) <=> IsReady(c, t)
KeepsReady(d, c) == \A t \in Everyone : IsReady(c, t) => IsReady(d, t)

LEMMA QuietSound ==
  ASSUME NEW c, NEW d \in KernelType, NEW noting, Sound(c, noting), SameLists(d, c),
         SameTcbs(d, c, noting), d.next <= c.next,
         \A p \in Priorities : Row(c, p) # {} => p <= d.top
  PROVE  Sound(d, noting) /\ SameReady(d, c)
<1>1. c \in KernelType
  BY DEF Sound
<1>2. \A t \in Everyone : Prio(c, t) \in Priorities /\ Prio(d, t) = Prio(c, t)
  BY <1>1, TcbOf DEF SameTcbs, Prio
<1>3. \A t \in Everyone : WakeTimes(c)[t] = WakeTimes(d)[t]
  BY DEF SameTcbs, WakeTimes
<1>4. Ordered(d)
  <2>1. c.delayed \in Rows(Everyone) /\ c.overflow \in Rows(Everyone)
    BY <1>1 DEF KernelType
  <2>2. ToSet(c.delayed) \subseteq Everyone /\ ToSet(c.overflow) \subseteq Everyone
    BY <2>1, InEveryone
  <2>3. Rising(c.delayed, WakeTimes(c)) /\ Rising(c.overflow, WakeTimes(c))
    BY DEF Sound, Ordered
  <2>4. Rising(c.delayed, WakeTimes(d)) /\ Rising(c.overflow, WakeTimes(d))
    BY <1>3, <2>1, <2>2, <2>3, RisingSame
  <2> QED
    BY <2>4 DEF Ordered, SameLists
<1>5. Early(d)
  <2> SUFFICES ASSUME NEW t \in ToSet(d.delayed)
               PROVE  d.next <= d.tcb[t].wake
    BY DEF Early
  <2>1. t \in ToSet(c.delayed) /\ t \in Everyone
    BY <1>1, InEveryone DEF SameLists, KernelType
  <2>2. c.next <= c.tcb[t].wake /\ d.tcb[t].wake = c.tcb[t].wake
    BY <2>1 DEF Sound, Early, SameTcbs
  <2>3. c.next \in Nat /\ d.next \in Nat /\ c.tcb[t].wake \in Nat
    BY <1>1, <2>1, TcbOf DEF KernelType
  <2> QED
    BY <2>2, <2>3
<1>6. \A t \in Everyone : (IsReady(d, t) <=> IsReady(c, t)) /\ (Awaits(d, t) <=> Awaits(c, t))
  BY <1>2 DEF IsReady, Awaits, SameLists, SameEvents
<1>7. ASSUME NEW t \in Everyone
      PROVE  Listed(d, noting, t)
  <2>1. StateListed(c, t) /\ EventListed(c, t)
    BY DEF Sound, Listed
  <2>2. Exists(d, t) <=> Exists(c, t)
    BY DEF SameTcbs
  <2>3. \A p \in Priorities : t \in Row(d, p) => p = Prio(d, t) /\ p <= d.top
    BY <1>2, <2>1 DEF StateListed, SameLists
  <2>4. StateListed(d, t)
    BY <1>6, <2>1, <2>2, <2>3 DEF StateListed, SameLists
  <2>5. EventListed(d, t)
    BY <1>6, <2>1, <2>2 DEF EventListed, SameLists, SameEvents
  <2> QED
    BY <1>6, <2>4, <2>5 DEF Sound, Listed, SameLists, SameEvents, SameTcbs, Eventless
<1> QED
  BY <1>4, <1>5, <1>6, <1>7 DEF Sound, SameReady

\* A task that has looked for its notification is no longer one that will.
LEMMA NotingSound ==
  ASSUME NEW c, NEW noting, NEW later, Sound(c, noting),
         \A t \in Everyone : t \in noting /\ t \notin later =>
           c.tcb[t].state # "waiting" /\ (t \notin ToSet(c.pending) \/ ~IsReady(c, t))
  PROVE  Sound(c, later)
BY DEF Sound, Listed

LEMMA RowsTop ==
  ASSUME NEW c, NEW noting, Sound(c, noting)
  PROVE  \A p \in Priorities : Row(c, p) # {} => p <= c.top
<1> SUFFICES ASSUME NEW p \in Priorities, NEW t \in Row(c, p)
             PROVE  p <= c.top
  OBVIOUS
<1>1. t \in Everyone
  BY InEveryone DEF Sound, KernelType, ReadyLists, Row
<1> QED
  BY <1>1 DEF Sound, Listed, StateListed

\* The walks move on, and nothing else.
LEMMA WalkSound ==
  ASSUME NEW c, NEW noting, Sound(c, noting), NEW ready \in [Priorities -> ReadyLists(Everyone)],
         \A p \in Priorities : ready[p].items = c.ready[p].items
  PROVE  /\ Sound([c EXCEPT !.ready = ready], noting)
         /\ SameReady([c EXCEPT !.ready = ready], c)
<1> DEFINE d == [c EXCEPT !.ready = ready]
<1>1. c \in KernelType
  BY DEF Sound
<1>2. d \in KernelType
  BY <1>1, Zenon DEF KernelType
<1>3. /\ d.ready = ready /\ d.tcb = c.tcb /\ d.next = c.next /\ d.top = c.top /\ SameEvents(d, c)
      /\ d.delayed = c.delayed /\ d.overflow = c.overflow
      /\ d.suspended = c.suspended /\ d.ended = c.ended
  BY <1>1 DEF KernelType, SameEvents
<1>4. SameLists(d, c)
  BY <1>3 DEF SameLists, Row
<1>5. c.next \in Nat /\ c.top \in Nat
  BY <1>1, Levels DEF KernelType
<1>6. SameTcbs(d, c, noting)
  BY <1>3 DEF SameTcbs, Exists, Sound, Listed
<1> HIDE DEF d
<1>7. d.next <= c.next /\ \A p \in Priorities : Row(c, p) # {} => p <= d.top
  BY <1>3, <1>5, RowsTop
<1> QED
  BY <1>2, <1>4, <1>6, <1>7, QuietSound DEF d

-----------------------------------------------------------------------------
(* A task becomes ready                                                    *)

\* What happens to x and to the others where x leaves all its lists.
Off(d, c, x) ==
  /\ \A p \in Priorities : Row(d, p) = Row(c, p) \ {x}
  /\ ToSet(d.delayed) = ToSet(c.delayed) \ {x} /\ ToSet(d.overflow) = ToSet(c.overflow) \ {x}
  /\ ToSet(d.suspended) = ToSet(c.suspended) \ {x} /\ ToSet(d.ended) = ToSet(c.ended) \ {x}
  /\ ToSet(d.pending) = ToSet(c.pending) \ {x}
  /\ SameRest(d, c) /\ d.tcb = c.tcb /\ d.top = c.top /\ d.next = c.next /\ d.yield = c.yield

LEMMA UnlistedLoose ==
  ASSUME NEW c, NEW noting, NEW x, Loose(c, noting, x)
  PROVE  LET d == Unlisted(c, x)
         IN  Loose(d, noting, x) /\ Stateless(d, x) /\ Eventless(d, x) /\ Off(d, c, x)
<1> DEFINE m == OffStateList(c, x)  d == Unlisted(c, x)
<1>1. OffState(m, c, x)
  BY OffStateListed DEF Loose
<1>2. Loose(m, noting, x) /\ Stateless(m, x)
  BY <1>1, OffStateLoose
<1>3. OffEvents(d, m, x)
  <2>1. m \in KernelType
    BY <1>1 DEF OffState
  <2> QED
    BY <2>1, OffEventListed DEF Unlisted
<1> HIDE DEF m, d
<1>4. Loose(d, noting, x) /\ Stateless(d, x) /\ Eventless(d, x)
  BY <1>2, <1>3, OffEventsLoose
<1>5. Off(d, c, x)
  BY <1>1, <1>3 DEF Off, OffState, OffEvents, SamePlaces, SameEvents, SameRest, Row
<1> QED
  BY <1>4, <1>5 DEF d

\* x leaves all its lists and becomes ready.
Readying(d, c, x) ==
  /\ IsReady(d, x) /\ KeepsReady(d, c)
  /\ ToSet(d.delayed) = ToSet(c.delayed) \ {x} /\ ToSet(d.overflow) = ToSet(c.overflow) \ {x}
  /\ ToSet(d.suspended) = ToSet(c.suspended) \ {x} /\ ToSet(d.ended) = ToSet(c.ended) \ {x}
  /\ ToSet(d.pending) = ToSet(c.pending) \ {x}
  /\ SameRest(d, c) /\ d.tcb = c.tcb /\ d.next = c.next /\ d.yield = c.yield

LEMMA ReadiedSound ==
  ASSUME NEW c, NEW noting, NEW x \in Everyone, Sound(c, noting), Exists(c, x)
  PROVE  Sound(Readied(c, x), noting) /\ Readying(Readied(c, x), c, x)
<1> DEFINE m == Unlisted(c, x)  d == Readied(c, x)
<1>1. Loose(m, noting, x) /\ Stateless(m, x) /\ Eventless(m, x) /\ Off(m, c, x)
  BY LooseFrom, UnlistedLoose
<1>2. d = prvAddTaskToReadyList(m, x)
  BY DEF Readied
<1> HIDE DEF m, d
<1>3. m \in KernelType /\ m.tcb = c.tcb
  BY <1>1 DEF Loose, Off
<1>4. Prio(m, x) \in Priorities /\ \A t : Prio(m, t) = Prio(c, t)
  BY <1>3, TcbOf DEF Prio
<1>5. Added(d, m, x)
  BY <1>1, <1>2, <1>3, <1>4, AddedToRow DEF Stateless
<1>6. Exists(m, x) /\ ~Awaits(m, x) /\ x \notin ToSet(m.pending) /\ (m.tcb[x].state = "waiting" => x \in noting)
  BY <1>1, <1>3 DEF Exists, Eventless, Sound, Listed
<1>7. Sound(d, noting) /\ IsReady(d, x)
  BY <1>1, <1>5, <1>6, AddedSound
<1>8. ASSUME NEW t \in Everyone, IsReady(c, t)
      PROVE  IsReady(d, t)
  <2>1. CASE t = x
    BY <1>7, <2>1
  <2>2. CASE t # x
    <3>1. Prio(c, t) \in Priorities /\ Prio(d, t) = Prio(c, t)
      BY <1>3, <1>5, TcbOf DEF Prio, Added, Sound
    <3>2. t \in Row(m, Prio(c, t))
      BY <1>1, <1>8, <2>2, <3>1 DEF Off, IsReady
    <3>3. t \in Row(d, Prio(c, t))
      BY <1>4, <1>5, <3>1, <3>2 DEF Added
    <3> QED
      BY <3>1, <3>3 DEF IsReady
  <2> QED
    BY <2>1, <2>2
<1> QED
  BY <1>1, <1>3, <1>5, <1>7, <1>8 DEF Readying, KeepsReady, Added, Off, SameEvents, SameRest, d

LEMMA ReadyingCalm ==
  ASSUME NEW c \in KernelType, NEW d, NEW x, Readying(d, c, x)
  PROVE  Calm(d, c)
BY CalmSame DEF Readying

\* What no interrupt and no task can do behind the back of the current task: it is
\* ready still, or another one runs, which is.
Onwards(d, c) ==
  /\ d.locked = c.locked
  /\ \/ d.cur = c.cur /\ (IsReady(c, c.cur) => IsReady(d, d.cur))
     \/ c.locked = 0 /\ IsReady(d, d.cur)

LEMMA OnwardsTwice ==
  ASSUME NEW c, NEW d, NEW e, Onwards(d, c), Onwards(e, d)
  PROVE  Onwards(e, c)
BY DEF Onwards

SameNumber(d, c) == d.number = c.number /\ \A t \in Everyone : Exists(d, t) <=> Exists(c, t)

LEMMA SteadyKept ==
  ASSUME NEW c, NEW d, NEW noting, Steady(c, noting), Sound(d, noting), SameNumber(d, c),
         d.locked = c.locked, d.cur = c.cur, KeepsReady(d, c), c.pending = <<>> => d.pending = <<>>
  PROVE  Steady(d, noting) /\ Onwards(d, c)
<1>1. {t \in Everyone : Exists(d, t)} = {t \in Everyone : Exists(c, t)}
  BY DEF SameNumber
<1> QED
  BY <1>1 DEF Steady, Onwards, KeepsReady, SameNumber, Everyone

LEMMA NothingPending ==
  ASSUME NEW c \in KernelType, NEW d \in KernelType, ToSet(d.pending) \subseteq ToSet(c.pending)
  PROVE  c.pending = <<>> => d.pending = <<>>
BY EmptyRow DEF KernelType

LEMMA ReadiedSteady ==
  ASSUME NEW c, NEW noting, NEW x \in Everyone, Steady(c, noting), Exists(c, x)
  PROVE  /\ Steady(Readied(c, x), noting) /\ Onwards(Readied(c, x), c)
         /\ Readying(Readied(c, x), c, x)
<1> DEFINE d == Readied(c, x)
<1>1. Sound(c, noting) /\ Sound(d, noting) /\ Readying(d, c, x)
  BY ReadiedSound DEF Steady
<1> HIDE DEF d
<1>2. c.pending = <<>> => d.pending = <<>>
  <2>1. c \in KernelType /\ d \in KernelType /\ ToSet(d.pending) \subseteq ToSet(c.pending)
    BY <1>1 DEF Sound, Readying
  <2> QED
    BY <2>1, NothingPending
<1>3. SameNumber(d, c) /\ d.locked = c.locked /\ d.cur = c.cur /\ KeepsReady(d, c)
  BY <1>1 DEF Readying, SameRest, SameNumber, Exists
<1> QED
  BY <1>1, <1>2, <1>3, SteadyKept DEF d

-----------------------------------------------------------------------------
(* The next task is selected                                               *)

LEMMA GreatestOf ==
  ASSUME NEW n \in Nat, NEW T, T \subseteq 0..n, T # {}
  PROVE  Max(T) \in T /\ \A m \in T : m <= Max(T)
<1> DEFINE D == {n - m : m \in T}
<1>0. \A m \in T : m \in Int /\ m <= n /\ n - m \in Nat
  <2>1. \A m \in 0..n : m \in Int /\ m <= n /\ n - m \in Nat
    OBVIOUS
  <2> QED
    BY <2>1
<1>1. D \subseteq Nat /\ D # {}
  BY <1>0
<1>2. PICK least \in D : \A d \in D : least <= d
  BY <1>1, LeastElement
<1>3. PICK top \in T : least = n - top
  BY <1>2
<1>4. \A m \in T : m <= top
  <2> SUFFICES ASSUME NEW m \in T
               PROVE  m <= top
    OBVIOUS
  <2>1. n - top <= n - m
    BY <1>2, <1>3
  <2>2. m \in Int /\ top \in Int
    BY <1>0
  <2> QED
    BY <2>1, <2>2
<1>5. \E x \in T : \A y \in T : x >= y
  <2>1. \A m \in T : top >= m
    <3> SUFFICES ASSUME NEW m \in T
                 PROVE  top >= m
      OBVIOUS
    <3>1. m <= top /\ m \in Int /\ top \in Int
      BY <1>0, <1>4
    <3> QED
      BY <3>1
  <2> QED
    BY <2>1
<1>6. Max(T) \in T /\ \A y \in T : Max(T) >= y
  BY <1>5 DEF Max
<1>7. ASSUME NEW m \in T
      PROVE  m <= Max(T)
  <2>1. Max(T) >= m /\ m \in Int /\ Max(T) \in Int
    BY <1>0, <1>6
  <2> QED
    BY <2>1
<1> QED
  BY <1>6, <1>7

LEMMA RowLength ==
  ASSUME NEW c \in KernelType, NEW p \in Priorities
  PROVE  /\ Length(c.ready[p]) > 0 <=> Row(c, p) # {}
         /\ c.ready[p] \in ReadyLists(Everyone) /\ c.ready[p].items \in Rows(Everyone)
         /\ Row(c, p) \subseteq Everyone
<1>1. c.ready[p] \in ReadyLists(Everyone) /\ c.ready[p].items \in Rows(Everyone)
  BY DEF KernelType, ReadyLists
<1>2. c.ready[p].items # <<>> <=> Row(c, p) # {}
  BY <1>1, EmptyRow DEF Row
<1>3. Length(c.ready[p]) > 0 <=> c.ready[p].items # <<>>
  BY <1>1 DEF Rows, Length
<1>4. Row(c, p) \subseteq Everyone
  BY <1>1, InEveryone DEF Row
<1> QED
  BY <1>1, <1>2, <1>3, <1>4

LEMMA SelectedSteady ==
  ASSUME NEW c, NEW noting, Steady(c, noting)
  PROVE  LET d == Selected(c)
         IN  /\ Steady(d, noting) /\ IsReady(d, d.cur) /\ d.locked = c.locked
             /\ SameReady(d, c) /\ d.tcb = c.tcb /\ Calm(d, c)
<1> DEFINE d == Selected(c)
           T == {r \in 0..c.top : Length(c.ready[r]) > 0}
           p == Max(T)
           list == NextEntry(c.ready[p])
           ready == [c.ready EXCEPT ![p] = list]
<1>1. c \in KernelType /\ c.top \in Priorities /\ c.top \in Nat /\ Priorities \subseteq Nat
  BY Levels DEF Steady, Sound, KernelType
<1>2. 0..c.top \subseteq Priorities
  BY <1>1, TasksAssumption DEF Priorities
<1>3. \A r \in Priorities : Row(c, r) # {} => r \in T
  <2> SUFFICES ASSUME NEW r \in Priorities, Row(c, r) # {}
               PROVE  r \in T
    OBVIOUS
  <2>1. r <= c.top /\ Length(c.ready[r]) > 0
    BY <1>1, RowsTop, RowLength DEF Steady
  <2> QED
    BY <1>1, <2>1
<1>4. T # {}
  <2>1. Prio(c, Idle) \in Priorities /\ Idle \in Row(c, Prio(c, Idle))
    BY <1>1, TcbOf DEF Steady, IsReady, Everyone
  <2> QED
    BY <1>3, <2>1
<1>5. p \in T /\ \A r \in T : r <= p
  <2>1. T \subseteq 0..c.top
    OBVIOUS
  <2> HIDE DEF T
  <2> QED
    BY <1>1, <1>4, <2>1, GreatestOf
<1>6. p \in Priorities /\ Length(c.ready[p]) > 0
  BY <1>2, <1>5
<1> HIDE DEF T, p
<1>7. c.ready[p] \in ReadyLists(Everyone) /\ c.ready[p].items # <<>>
  BY <1>1, <1>6, RowLength DEF Length
<1>8. list \in ReadyLists(Everyone) /\ list.items = c.ready[p].items /\ Current(list) \in ToSet(list.items)
  BY <1>7, ReadyWalk, Zenon
<1>9. Current(list) \in Row(c, p) /\ Current(list) \in Everyone
  BY <1>1, <1>6, <1>8, RowLength DEF Row
<1>10. d = [c EXCEPT !.top = p, !.ready[p] = list, !.cur = Current(list)]
  BY Zenon DEF Selected, p, T
<1> HIDE DEF list, d
<1>11. ready \in [Priorities -> ReadyLists(Everyone)] /\ \A r \in Priorities : ready[r].items = c.ready[r].items
  <2>1. c.ready \in [Priorities -> ReadyLists(Everyone)]
    BY <1>1 DEF KernelType
  <2> QED
    BY <1>6, <1>8, <2>1
<1>12. d = [c EXCEPT !.top = p, !.ready = ready, !.cur = Current(list)]
  BY <1>1, <1>10 DEF KernelType
<1> HIDE DEF ready
<1>13. d \in KernelType
  BY <1>1, <1>6, <1>9, <1>11, <1>12, Zenon DEF KernelType
<1>14. /\ d.top = p /\ d.ready = ready /\ d.cur = Current(list)
       /\ d.tcb = c.tcb /\ d.next = c.next /\ SameEvents(d, c)
       /\ d.delayed = c.delayed /\ d.overflow = c.overflow
       /\ d.suspended = c.suspended /\ d.ended = c.ended
       /\ d.locked = c.locked /\ d.number = c.number
       /\ d.tick = c.tick /\ d.overflows = c.overflows /\ d.missed = c.missed
  BY <1>1, <1>12 DEF KernelType, SameEvents
<1>15. SameLists(d, c)
  BY <1>11, <1>14 DEF SameLists, Row
<1>16. SameTcbs(d, c, noting)
  BY <1>14 DEF SameTcbs, Exists, Steady, Sound, Listed
<1>17. d.next <= c.next
  BY <1>1, <1>14 DEF KernelType
<1>18. \A r \in Priorities : Row(c, r) # {} => r <= d.top
  BY <1>3, <1>5, <1>14
<1>19. Sound(d, noting) /\ SameReady(d, c)
  BY <1>13, <1>15, <1>16, <1>17, <1>18, QuietSound DEF Steady
<1>20. IsReady(d, d.cur)
  <2>1. StateListed(c, Current(list))
    BY <1>9 DEF Steady, Sound, Listed
  <2>2. p = Prio(c, Current(list))
    BY <1>6, <1>9, <2>1 DEF StateListed
  <2> QED
    BY <1>9, <1>14, <1>15, <1>6, <2>2 DEF IsReady, Prio, SameLists
<1>21. {t \in Everyone : Exists(d, t)} = {t \in Everyone : Exists(c, t)}
  BY <1>14 DEF Exists
<1>22. Steady(d, noting)
  <2>1. d.cur \in Everyone
    BY <1>9, <1>14
  <2>2. IsReady(d, Idle)
    BY <1>19 DEF Steady, SameReady, Everyone
  <2>3. d.pending = c.pending
    BY <1>14 DEF SameEvents
  <2> QED
    BY <1>14, <1>19, <1>21, <2>1, <2>2, <2>3 DEF Steady
<1>23. Calm(d, c)
  BY <1>14 DEF Calm
<1> QED
  BY <1>14, <1>19, <1>20, <1>22, <1>23 DEF d

\* Nothing that the lists depend on changes.
Quiet(d, c, noting) ==
  /\ d \in KernelType /\ SamePlaces(d, c) /\ SameEvents(d, c) /\ SameTcbs(d, c, noting)
  /\ d.next <= c.next /\ d.top = c.top
  /\ d.cur = c.cur /\ d.locked = c.locked /\ d.number = c.number

LEMMA QuietSteady ==
  ASSUME NEW c, NEW d, NEW noting, Steady(c, noting), Quiet(d, c, noting)
  PROVE  Steady(d, noting) /\ Onwards(d, c) /\ SameReady(d, c)
<1>1. SameLists(d, c)
  BY DEF Quiet, SameLists, SamePlaces, Row
<1>2. \A p \in Priorities : Row(c, p) # {} => p <= d.top
  BY RowsTop DEF Steady, Quiet
<1>3. Sound(d, noting) /\ SameReady(d, c)
  BY <1>1, <1>2, QuietSound DEF Steady, Quiet
<1>4. SameNumber(d, c) /\ KeepsReady(d, c) /\ (c.pending = <<>> => d.pending = <<>>)
  BY <1>3 DEF Quiet, SameNumber, SameTcbs, KeepsReady, SameReady, SameEvents
<1> QED
  BY <1>3, <1>4, SteadyKept DEF Quiet

LEMMA YieldNoted ==
  ASSUME NEW c, NEW noting, Steady(c, noting), NEW b \in BOOLEAN
  PROVE  LET d == [c EXCEPT !.yield = b]
         IN  /\ Steady(d, noting) /\ Onwards(d, c) /\ SameReady(d, c)
             /\ d.tcb = c.tcb /\ d.cur = c.cur /\ d.pending = c.pending /\ d.locked = c.locked
             /\ Calm(d, c)
<1> DEFINE d == [c EXCEPT !.yield = b]
<1>1. c \in KernelType
  BY DEF Steady, Sound
<1>2. d \in KernelType
  BY <1>1, Zenon DEF KernelType
<1>3. /\ SamePlaces(d, c) /\ SameEvents(d, c) /\ d.tcb = c.tcb /\ d.next = c.next /\ d.top = c.top
      /\ SameRest(d, c)
  BY <1>1 DEF KernelType, SamePlaces, SameEvents, SameRest
<1> HIDE DEF d
<1>4. SameTcbs(d, c, noting)
  BY <1>3 DEF SameTcbs, Exists, Steady, Sound, Listed
<1>5. d.next <= c.next
  BY <1>1, <1>3 DEF KernelType
<1>6. Quiet(d, c, noting)
  BY <1>2, <1>3, <1>4, <1>5 DEF Quiet, SameRest
<1>7. Steady(d, noting) /\ Onwards(d, c) /\ SameReady(d, c)
  BY <1>6, QuietSteady
<1>8. Calm(d, c)
  BY <1>3 DEF Calm, SamePlaces, SameRest
<1> QED
  BY <1>3, <1>7, <1>8 DEF d, SameEvents, SameRest

LEMMA SwitchSteady ==
  ASSUME NEW c, NEW noting, Steady(c, noting)
  PROVE  LET d == vTaskSwitchContext(c)
         IN  /\ Steady(d, noting) /\ Onwards(d, c) /\ (c.locked = 0 => IsReady(d, d.cur))
             /\ d.tcb = c.tcb /\ d.locked = c.locked /\ Calm(d, c)
<1> DEFINE d == vTaskSwitchContext(c)
<1>1. c.locked \in {0, 1}
  BY DEF Steady
<1>2. CASE c.locked > 0
  <2>1. d = [c EXCEPT !.yield = TRUE]
    BY <1>2 DEF vTaskSwitchContext
  <2>2. c.locked # 0
    BY <1>2
  <2> HIDE DEF d
  <2>3. Steady(d, noting) /\ Onwards(d, c) /\ d.tcb = c.tcb /\ d.locked = c.locked /\ Calm(d, c)
    BY <2>1, YieldNoted
  <2> QED
    BY <2>2, <2>3 DEF d
<1>3. CASE ~(c.locked > 0)
  <2> DEFINE m == [c EXCEPT !.yield = FALSE]
  <2>1. d = Selected(m)
    BY <1>3 DEF vTaskSwitchContext
  <2>2. Steady(m, noting) /\ m.tcb = c.tcb /\ m.locked = c.locked /\ Calm(m, c)
    BY YieldNoted
  <2> HIDE DEF m, d
  <2>3. Steady(d, noting) /\ IsReady(d, d.cur) /\ d.locked = m.locked /\ d.tcb = m.tcb
        /\ Calm(d, m)
    BY <2>1, <2>2, SelectedSteady
  <2>4. c.locked = 0
    BY <1>1, <1>3
  <2> QED
    BY <2>2, <2>3, <2>4, CalmTwice DEF Onwards, d
<1> QED
  BY <1>2, <1>3

LEMMA YieldIfSteady ==
  ASSUME NEW c, NEW noting, NEW required, Steady(c, noting)
  PROVE  /\ Steady(YieldIf(c, required), noting) /\ Onwards(YieldIf(c, required), c)
         /\ YieldIf(c, required).tcb = c.tcb /\ YieldIf(c, required).locked = c.locked
         /\ Calm(YieldIf(c, required), c)
<1>1. Onwards(c, c)
  BY DEF Onwards
<1>2. CASE required
  BY <1>2, SwitchSteady DEF YieldIf
<1>3. CASE ~required
  BY <1>1, <1>3, CalmSelf DEF YieldIf
<1> QED
  BY <1>2, <1>3

-----------------------------------------------------------------------------
(* The tick                                                                *)

\* The invariant of the lists but for the next time at which a task is due.
Untimed(c, noting) ==
  /\ c \in KernelType /\ Ordered(c)
  /\ \A t \in Everyone : Listed(c, noting, t)

LEMMA HeadLeast ==
  ASSUME NEW row \in Rows(Everyone), NEW v, Rising(row, v), row # <<>>,
         \A t \in Everyone : v[t] \in Nat
  PROVE  Head(row) \in Everyone /\ Head(row) \in ToSet(row) /\ \A t \in ToSet(row) : v[Head(row)] <= v[t]
<1>1. Len(row) \in Nat /\ DOMAIN row = 1..Len(row) /\ row \in Seq(Everyone) /\ Len(row) # 0
  BY DEF Rows
<1>2. Head(row) = row[1] /\ 1 \in DOMAIN row
  BY <1>1
<1>3. \A n \in DOMAIN row : row[n] \in Everyone
  BY <1>1
<1>4. ASSUME NEW n \in DOMAIN row
      PROVE  v[row[1]] <= v[row[n]]
  <2>1. v[row[1]] \in Nat
    BY <1>2, <1>3
  <2>2. CASE n = 1
    BY <2>1, <2>2
  <2>3. CASE n # 1
    BY <1>1, <1>2, <2>3 DEF Rising
  <2> QED
    BY <2>2, <2>3
<1> QED
  BY <1>2, <1>3, <1>4 DEF ToSet

LEMMA ResetSound ==
  ASSUME NEW c, NEW noting, Untimed(c, noting)
  PROVE  LET d == prvResetNextTaskUnblockTime(c)
         IN  /\ Sound(d, noting) /\ SamePlaces(d, c) /\ SameEvents(d, c) /\ SameRest(d, c)
             /\ d.tcb = c.tcb /\ d.top = c.top /\ d.yield = c.yield /\ SameReady(d, c)
<1> DEFINE d == prvResetNextTaskUnblockTime(c)
           next == IF c.delayed = <<>> THEN MAX_DELAY ELSE c.tcb[Head(c.delayed)].wake
<1>1. c \in KernelType /\ c.delayed \in Rows(Everyone)
  BY DEF Untimed, KernelType
<1>2. \A t \in Everyone : WakeTimes(c)[t] = c.tcb[t].wake /\ c.tcb[t].wake \in Nat
  BY <1>1, TcbOf DEF WakeTimes
<1>3. Rising(c.delayed, WakeTimes(c))
  BY DEF Untimed, Ordered
<1>4. ToSet(c.delayed) \subseteq Everyone
  BY <1>1, InEveryone
<1>5. next \in Nat /\ \A t \in ToSet(c.delayed) : next <= c.tcb[t].wake
  <2>1. CASE c.delayed = <<>>
    <3>1. ToSet(c.delayed) = {}
      BY <2>1, EmptyRow
    <3> QED
      BY <2>1, <3>1, TasksAssumption DEF MAX_DELAY
  <2>2. CASE c.delayed # <<>>
    <3>1. Head(c.delayed) \in Everyone /\ \A t \in ToSet(c.delayed) : WakeTimes(c)[Head(c.delayed)] <= WakeTimes(c)[t]
      BY <1>1, <1>2, <1>3, <2>2, HeadLeast
    <3> QED
      BY <1>2, <1>4, <2>2, <3>1
  <2> QED
    BY <2>1, <2>2
<1>6. d = [c EXCEPT !.next = next]
  BY DEF prvResetNextTaskUnblockTime
<1> HIDE DEF d, next
<1>7. d \in KernelType
  BY <1>1, <1>5, <1>6, Zenon DEF KernelType
<1>8. /\ SamePlaces(d, c) /\ SameEvents(d, c) /\ SameRest(d, c)
      /\ d.tcb = c.tcb /\ d.top = c.top /\ d.yield = c.yield /\ d.next = next
  BY <1>1, <1>6 DEF KernelType, SamePlaces, SameEvents, SameRest
<1>9. \A p : Row(d, p) = Row(c, p)
  BY <1>8 DEF Row, SamePlaces
<1>10. \A t \in Everyone : SameFor(d, c, t)
  BY <1>8, <1>9 DEF SameFor, SamePlaces, SameEvents, Prio
<1>11. WakeTimes(d) = WakeTimes(c)
  BY <1>8 DEF WakeTimes
<1>12. Ordered(d) /\ Early(d)
  BY <1>5, <1>8, <1>11 DEF Ordered, Early, SamePlaces, Untimed
<1>13. c.top <= d.top
  <2>1. c.top \in Nat
    BY <1>1, Levels DEF KernelType
  <2> QED
    BY <1>8, <2>1
<1>14. \A t \in Everyone : Listed(d, noting, t)
  BY <1>1, <1>7, <1>10, <1>13, SameListed DEF Untimed
<1>15. SameReady(d, c)
  BY <1>8, <1>9 DEF SameReady, IsReady, Prio
<1> QED
  BY <1>7, <1>8, <1>12, <1>14, <1>15 DEF Sound, d

LEMMA ResetSteady ==
  ASSUME NEW c, NEW noting, Steady(c, noting)
  PROVE  LET d == prvResetNextTaskUnblockTime(c)
         IN  /\ Steady(d, noting) /\ Onwards(d, c) /\ SameReady(d, c)
             /\ SamePlaces(d, c) /\ SameEvents(d, c) /\ SameRest(d, c) /\ d.tcb = c.tcb
<1> DEFINE d == prvResetNextTaskUnblockTime(c)
<1>1. Untimed(c, noting)
  BY DEF Steady, Sound, Untimed
<1>2. /\ Sound(d, noting) /\ SamePlaces(d, c) /\ SameEvents(d, c) /\ SameRest(d, c)
      /\ d.tcb = c.tcb /\ SameReady(d, c)
  BY <1>1, ResetSound
<1> HIDE DEF d
<1>3. SameNumber(d, c) /\ KeepsReady(d, c) /\ (c.pending = <<>> => d.pending = <<>>)
  BY <1>2 DEF SameNumber, SameRest, Exists, KeepsReady, SameReady, SameEvents
<1>4. Steady(d, noting) /\ Onwards(d, c)
  BY <1>2, <1>3, SteadyKept DEF SameRest
<1> QED
  BY <1>2, <1>4 DEF d

\* Tasks become ready and the same task runs, while time may pass, or without.
Passes(d, c, noting) ==
  /\ Steady(d, noting)
  /\ d.cur = c.cur /\ d.locked = c.locked /\ d.tcb = c.tcb /\ KeepsReady(d, c)
Gains(d, c, noting) == Passes(d, c, noting) /\ Calm(d, c)

LEMMA PassesTwice ==
  ASSUME NEW c, NEW d, NEW e, NEW noting, Passes(d, c, noting), Passes(e, d, noting)
  PROVE  Passes(e, c, noting)
BY DEF Passes, KeepsReady

LEMMA GainsTwice ==
  ASSUME NEW c, NEW d, NEW e, NEW noting, Gains(d, c, noting), Gains(e, d, noting)
  PROVE  Gains(e, c, noting)
BY PassesTwice, CalmTwice DEF Gains

LEMMA ReadiedGains ==
  ASSUME NEW c, NEW noting, NEW x \in Everyone, Steady(c, noting), Exists(c, x)
  PROVE  Gains(Readied(c, x), c, noting)
<1>1. Steady(Readied(c, x), noting) /\ Readying(Readied(c, x), c, x)
  BY ReadiedSteady
<1>2. Calm(Readied(c, x), c)
  BY <1>1, ReadyingCalm DEF Steady, Sound
<1> QED
  BY <1>1, <1>2 DEF Gains, Passes, Readying, SameRest

\* The next time is that of the first delayed task.
LEMMA ResetNext ==
  ASSUME NEW c \in KernelType
  PROVE  LET d == prvResetNextTaskUnblockTime(c)
         IN  /\ d.delayed = c.delayed /\ d.overflow = c.overflow /\ d.tcb = c.tcb /\ SameRest(d, c)
             /\ d.next = MAX_DELAY \/ \E t \in ToSet(c.delayed) : d.next = c.tcb[t].wake
<1> DEFINE d == prvResetNextTaskUnblockTime(c)
           next == IF c.delayed = <<>> THEN MAX_DELAY ELSE c.tcb[Head(c.delayed)].wake
<1>1. d = [c EXCEPT !.next = next]
  BY DEF prvResetNextTaskUnblockTime
<1>2. c.delayed # <<>> => Head(c.delayed) \in ToSet(c.delayed)
  BY TailRemoved DEF KernelType
<1>3. next = MAX_DELAY \/ \E t \in ToSet(c.delayed) : next = c.tcb[t].wake
  BY <1>2
<1> HIDE DEF next
<1>4. /\ d.delayed = c.delayed /\ d.overflow = c.overflow /\ d.tcb = c.tcb /\ d.next = next
      /\ SameRest(d, c)
  BY <1>1 DEF KernelType, SameRest
<1> HIDE DEF d
<1>5. d.next = MAX_DELAY \/ \E t \in ToSet(c.delayed) : d.next = c.tcb[t].wake
  BY <1>3, <1>4
<1> QED
  BY <1>4, <1>5 DEF d

LEMMA ResetCalm ==
  ASSUME NEW c \in KernelType
  PROVE  Calm(prvResetNextTaskUnblockTime(c), c)
<1> DEFINE d == prvResetNextTaskUnblockTime(c)
<1>1. /\ d.delayed = c.delayed /\ d.overflow = c.overflow /\ d.tcb = c.tcb /\ SameRest(d, c)
      /\ d.next = MAX_DELAY \/ \E t \in ToSet(c.delayed) : d.next = c.tcb[t].wake
  BY ResetNext
<1> HIDE DEF d
<1>2. Calm(d, c)
  BY <1>1 DEF Calm, SameRest
<1> QED
  BY <1>2 DEF d

LEMMA ResetGains ==
  ASSUME NEW c, NEW noting, Steady(c, noting)
  PROVE  Gains(prvResetNextTaskUnblockTime(c), c, noting)
BY ResetSteady, ResetCalm DEF Gains, Passes, KeepsReady, SameReady, SameRest, Steady, Sound

\* The tasks that the tick wakes are the first of the delayed list, up to the first
\* whose time has not come.
LEMMA DueFirst ==
  ASSUME NEW c, NEW noting, Sound(c, noting)
  PROVE  LET row == c.delayed  N == Len(Due(c))
         IN  /\ row \in Seq(Everyone) /\ Len(row) \in Nat /\ DOMAIN row = 1..Len(row)
             /\ N \in 0..Len(row) /\ \A n \in 1..N : Due(c)[n] = row[n]
             /\ N < Len(row) => c.tcb[row[N + 1]].wake > c.tick
<1> DEFINE row == c.delayed  I == {i \in 1..Len(row) : c.tcb[row[i]].wake > c.tick}
           later == SelectInSeq(row, LAMBDA t : c.tcb[t].wake > c.tick)
<1>1. row \in Seq(Everyone) /\ Len(row) \in Nat /\ DOMAIN row = 1..Len(row)
  BY DEF Sound, KernelType, Rows
<1>2. later = IF I # {} THEN Min(I) ELSE 0
  BY DEF SelectInSeq
<1>3. I # {} => Min(I) \in I
  <2> SUFFICES ASSUME I # {} PROVE Min(I) \in I
    OBVIOUS
  <2>1. I \subseteq Nat
    BY <1>1
  <2> HIDE DEF I
  <2>2. PICK n \in I : \A m \in I : n <= m
    BY <2>1, LeastElement
  <2>3. \E x \in I : \A y \in I : x <= y
    BY <2>2
  <2> QED
    BY <2>3 DEF Min
<1>4. Due(c) = IF later = 0 THEN row ELSE SubSeq(row, 1, later - 1)
  BY Zenon DEF Due
<1>5. CASE later = 0
  BY <1>1, <1>4, <1>5
<1>6. CASE later # 0
  <2>1. later \in 1..Len(row) /\ c.tcb[row[later]].wake > c.tick
    BY <1>2, <1>3, <1>6
  <2> HIDE DEF later, I
  <2> DEFINE N == later - 1
  <2>2. N \in 0..Len(row) /\ N + 1 = later
    BY <1>1, <2>1
  <2>3. Due(c) = SubSeq(row, 1, N)
    BY <1>4, <1>6
  <2> HIDE DEF N
  <2>4. Len(SubSeq(row, 1, N)) = N /\ \A n \in 1..N : SubSeq(row, 1, N)[n] = row[n]
    BY <1>1, <2>2
  <2>5. c.tcb[row[N + 1]].wake > c.tick
    BY <2>1, <2>2
  <2> QED
    BY <1>1, <2>2, <2>3, <2>4, <2>5
<1> QED
  BY <1>5, <1>6

LEMMA DueTasks ==
  ASSUME NEW c, NEW noting, Sound(c, noting)
  PROVE  /\ Len(Due(c)) \in Nat
         /\ \A n \in 1..Len(Due(c)) : Due(c)[n] \in Everyone /\ Exists(c, Due(c)[n])
<1> DEFINE row == c.delayed  N == Len(Due(c))
<1>1. /\ row \in Seq(Everyone) /\ Len(row) \in Nat /\ DOMAIN row = 1..Len(row)
      /\ N \in 0..Len(row) /\ \A n \in 1..N : Due(c)[n] = row[n]
  BY DueFirst
<1> HIDE DEF N
<1>2. ASSUME NEW n \in 1..N
      PROVE  Due(c)[n] \in Everyone /\ Exists(c, Due(c)[n])
  <2>1. n \in DOMAIN row /\ Due(c)[n] = row[n]
    BY <1>1
  <2>2. Due(c)[n] \in ToSet(c.delayed) /\ Due(c)[n] \in Everyone
    BY <1>1, <2>1 DEF ToSet
  <2> QED
    BY <2>2 DEF Sound, Listed, StateListed
<1> QED
  BY <1>1, <1>2 DEF N

LEMMA DueWakes ==
  ASSUME NEW c, NEW noting, Steady(c, noting)
  PROVE  LET d == WakeDue(c)
         IN  /\ Gains(d, c, noting)
             /\ \A n \in 1..Len(Due(c)) : Due(c)[n] \notin ToSet(d.delayed)
             /\ d.next = MAX_DELAY \/ \E t \in ToSet(d.delayed) : d.next = d.tcb[t].wake
<1> DEFINE due == Due(c)  N == Len(due)
           S == {d \in KernelType : Gains(d, c, noting)}
           body(f) == [n \in 0..N |-> IF n = 0 THEN c ELSE Readied(f[n - 1], due[n])]
           woken == CHOOSE f : f = body(f)
           step == [n \in 1..N |-> [d \in S |-> Readied(d, due[n])]]
<1>1. N \in Nat /\ \A n \in 1..N : due[n] \in Everyone /\ Exists(c, due[n])
  BY DueTasks DEF Steady
<1>2. WakeDue(c) = prvResetNextTaskUnblockTime(woken[N])
  BY DEF WakeDue
<1> HIDE DEF due, N
<1>3. c \in S
  BY CalmSelf DEF Steady, Sound, Gains, Passes, KeepsReady
<1>4. ASSUME NEW n \in 1..N, NEW d \in S
      PROVE  LET e == Readied(d, due[n])
             IN  /\ e \in S /\ ToSet(e.delayed) \subseteq ToSet(d.delayed)
                 /\ due[n] \notin ToSet(e.delayed)
  <2>1. Gains(d, c, noting) /\ Exists(d, due[n]) /\ due[n] \in Everyone
    BY <1>1 DEF Gains, Passes, Exists
  <2>2. Gains(Readied(d, due[n]), d, noting)
    BY <2>1, ReadiedGains DEF Gains, Passes
  <2>3. Gains(Readied(d, due[n]), c, noting)
    BY <2>1, <2>2, GainsTwice
  <2>4. ToSet(Readied(d, due[n]).delayed) = ToSet(d.delayed) \ {due[n]}
    <3>1. Sound(d, noting)
      BY <2>1 DEF Gains, Passes, Steady
    <3>2. Readying(Readied(d, due[n]), d, due[n])
      BY <2>1, <3>1, ReadiedSound
    <3> QED
      BY <3>2 DEF Readying
  <2> QED
    BY <2>3, <2>4 DEF Gains, Passes, Steady, Sound
<1>0. \A d \in S : Gains(d, c, noting)
  OBVIOUS
<1> HIDE DEF S
<1>5. \E f : f = body(f)
  <2>1. \A n \in 1..N : \A d \in S : step[n][d] \in S
    BY <1>4
  <2>2. \A n \in 1..N : \A d \in S : step[n][d] = Readied(d, due[n])
    OBVIOUS
  <2> HIDE DEF step
  <2>0. PICK f : Iterates(f, N, S, c, step)
    BY <1>1, <1>3, <2>1, Iterated
  <2>3. f \in [0..N -> S] /\ f[0] = c /\ \A n \in 1..N : f[n] = step[n][f[n - 1]]
    BY <2>0 DEF Iterates
  <2>4. ASSUME NEW n \in 0..N
        PROVE  f[n] = IF n = 0 THEN c ELSE Readied(f[n - 1], due[n])
    <3>1. CASE n = 0
      BY <2>3, <3>1
    <3>2. CASE n # 0
      <4>1. n \in 1..N /\ n - 1 \in 0..N
        BY <1>1, <3>2
      <4> QED
        BY <2>2, <2>3, <3>2, <4>1
    <3> QED
      BY <3>1, <3>2
  <2>5. f = body(f)
    BY <2>3, <2>4
  <2> HIDE DEF body
  <2> QED
    BY <2>5
<1>6. woken = body(woken)
  <2> HIDE DEF body
  <2> QED
    BY <1>5
<1> HIDE DEF woken
<1>7. \A n \in 0..N : woken[n] = IF n = 0 THEN c ELSE Readied(woken[n - 1], due[n])
  BY <1>6
<1> DEFINE T == {n \in 0..N : woken[n] \in S /\ \A m \in 1..n : due[m] \notin ToSet(woken[n].delayed)}
<1>8. 0 \in T
  BY <1>1, <1>3, <1>7
<1>9. ASSUME NEW n \in 0..N, n \in T, n # N
      PROVE  n + 1 \in T
  <2>1. n + 1 \in 1..N /\ (n + 1) - 1 = n /\ n + 1 \in 0..N /\ n + 1 # 0
    BY <1>1, <1>9
  <2>2. woken[n + 1] = Readied(woken[n], due[n + 1])
    BY <1>7, <2>1
  <2>3. /\ woken[n + 1] \in S /\ ToSet(woken[n + 1].delayed) \subseteq ToSet(woken[n].delayed)
        /\ due[n + 1] \notin ToSet(woken[n + 1].delayed)
    BY <1>4, <1>9, <2>1, <2>2
  <2>4. ASSUME NEW m \in 1..(n + 1)
        PROVE  due[m] \notin ToSet(woken[n + 1].delayed)
    <3>1. m = n + 1 \/ m \in 1..n
      BY <1>9
    <3> QED
      BY <1>9, <2>3, <3>1
  <2> QED
    BY <2>1, <2>3, <2>4
<1> HIDE DEF T
<1>10. N \in T
  BY <1>1, <1>8, <1>9, BoundedInduction
<1> DEFINE e == woken[N]  d == prvResetNextTaskUnblockTime(e)
<1>11. Gains(e, c, noting) /\ \A m \in 1..N : due[m] \notin ToSet(e.delayed)
  BY <1>0, <1>10 DEF T
<1> HIDE DEF e
<1>12. e \in KernelType /\ Steady(e, noting)
  BY <1>11 DEF Gains, Passes, Steady, Sound
<1>13. Gains(d, e, noting) /\ d.delayed = e.delayed
       /\ (d.next = MAX_DELAY \/ \E t \in ToSet(d.delayed) : d.next = d.tcb[t].wake)
  BY <1>12, ResetGains, ResetNext
<1>14. WakeDue(c) = d
  BY <1>2 DEF e
<1> HIDE DEF d
<1>15. Gains(d, c, noting)
  BY <1>11, <1>13, GainsTwice
<1>16. \A n \in 1..Len(Due(c)) : Due(c)[n] \notin ToSet(d.delayed)
  BY <1>11, <1>13 DEF due, N
<1> QED
  BY <1>13, <1>14, <1>15, <1>16

\* The delayed lists change places when the tick count wraps.
LEMMA CountedPasses ==
  ASSUME NEW c, NEW noting, Steady(c, noting)
  PROVE  Passes(Counted(c), c, noting)
<1> DEFINE later == (c.tick + 1) % TickMod  m == [c EXCEPT !.tick = later]
<1>1. c \in KernelType /\ later \in Nat
  BY TasksAssumption DEF Steady, Sound, KernelType
<1> HIDE DEF later
<1>2. m \in KernelType
  BY <1>1, Zenon DEF KernelType
<1>3. /\ SamePlaces(m, c) /\ SameEvents(m, c) /\ m.tcb = c.tcb /\ m.next = c.next /\ m.top = c.top
      /\ m.cur = c.cur /\ m.locked = c.locked /\ m.number = c.number
  BY <1>1 DEF KernelType, SamePlaces, SameEvents
<1> HIDE DEF m
<1>4. Quiet(m, c, noting)
  <2>1. SameTcbs(m, c, noting)
    BY <1>3 DEF SameTcbs, Exists, Steady, Sound, Listed
  <2>2. m.next <= c.next
    BY <1>1, <1>3 DEF KernelType
  <2> QED
    BY <1>2, <1>3, <2>1, <2>2 DEF Quiet
<1>5. Passes(m, c, noting)
  BY <1>3, <1>4, QuietSteady DEF Passes, SameReady, KeepsReady
<1>6. CASE later = 0
  <2> DEFINE w == SwitchDelayedLists(m)
             d == prvResetNextTaskUnblockTime(w)
  <2>1. Counted(c) = d
    BY <1>6 DEF Counted, later, m
  <2>2. /\ w.delayed = m.overflow /\ w.overflow = m.delayed /\ w.ready = m.ready
        /\ w.suspended = m.suspended /\ w.ended = m.ended /\ SameEvents(w, m)
        /\ w.tcb = m.tcb /\ w.top = m.top /\ w.cur = m.cur /\ w.locked = m.locked
        /\ w.number = m.number
    BY <1>2 DEF KernelType, SwitchDelayedLists, SameEvents
  <2>3. w \in KernelType
    <3>1. /\ m.overflow \in Rows(Everyone) /\ m.delayed \in Rows(Everyone)
          /\ m.overflows + 1 \in Nat
      BY <1>2 DEF KernelType
    <3>2. w = [m EXCEPT !.delayed = m.overflow, !.overflow = m.delayed, !.overflows = m.overflows + 1]
      BY <1>2 DEF KernelType, SwitchDelayedLists
    <3> QED
      BY <1>2, <3>1, <3>2, Zenon DEF KernelType
  <2> HIDE DEF w, d
  <2>4. /\ \A t : Prio(w, t) = Prio(m, t) /\ (Exists(w, t) <=> Exists(m, t))
        /\ \A t : Awaits(w, t) <=> Awaits(m, t)
        /\ \A p : Row(w, p) = Row(m, p)
        /\ \A t : IsReady(w, t) <=> IsReady(m, t)
    BY <2>2 DEF Prio, Exists, Awaits, Row, IsReady, SameEvents
  <2>5. ASSUME NEW t \in Everyone
        PROVE  Listed(w, noting, t)
    <3>1. Listed(m, noting, t)
      BY <1>5 DEF Passes, Steady, Sound
    <3>2. StateListed(w, t)
      BY <2>2, <2>4, <3>1 DEF Listed, StateListed
    <3>3. EventListed(w, t)
      BY <2>2, <2>4, <3>1 DEF Listed, EventListed, SameEvents
    <3> QED
      BY <2>2, <2>4, <3>1, <3>2, <3>3 DEF Listed, SameEvents, Eventless
  <2>6. Ordered(w)
    BY <1>5, <2>2 DEF Passes, Steady, Sound, Ordered, WakeTimes
  <2>7. Untimed(w, noting)
    BY <2>3, <2>5, <2>6 DEF Untimed
  <2>8. /\ Sound(d, noting) /\ SamePlaces(d, w) /\ SameEvents(d, w) /\ SameRest(d, w)
        /\ d.tcb = w.tcb /\ SameReady(d, w)
    BY <2>7, ResetSound DEF d
  <2>9. SameNumber(d, m) /\ KeepsReady(d, m) /\ (m.pending = <<>> => d.pending = <<>>)
        /\ d.locked = m.locked /\ d.cur = m.cur /\ d.tcb = m.tcb
    BY <2>2, <2>4, <2>8 DEF SameNumber, SameRest, Exists, KeepsReady, SameReady, SameEvents
  <2>10. Steady(d, noting)
    BY <1>5, <2>8, <2>9, SteadyKept DEF Passes
  <2>11. Passes(d, m, noting)
    BY <2>9, <2>10 DEF Passes
  <2> QED
    BY <1>5, <2>1, <2>11, PassesTwice
<1>7. CASE later # 0
  <2>1. Counted(c) = m
    BY <1>7 DEF Counted, later, m
  <2> QED
    BY <1>5, <2>1
<1> QED
  BY <1>6, <1>7

LEMMA TickPasses ==
  ASSUME NEW c, NEW noting, Steady(c, noting)
  PROVE  Passes(xTaskIncrementTick(c), c, noting)
<1>1. CASE c.locked > 0
  <2> DEFINE n == (c.missed + 1) % PendedMod  d == [c EXCEPT !.missed = n]
  <2>1. c \in KernelType /\ n \in Nat
    BY TasksAssumption DEF Steady, Sound, KernelType
  <2>2. xTaskIncrementTick(c) = d
    BY <1>1, <2>1 DEF xTaskIncrementTick, KernelType
  <2> HIDE DEF n
  <2>3. d \in KernelType
    BY <2>1, Zenon DEF KernelType
  <2>4. /\ SamePlaces(d, c) /\ SameEvents(d, c) /\ d.tcb = c.tcb /\ d.next = c.next /\ d.top = c.top
        /\ d.cur = c.cur /\ d.locked = c.locked /\ d.number = c.number
    BY <2>1 DEF KernelType, SamePlaces, SameEvents
  <2> HIDE DEF d
  <2>5. SameTcbs(d, c, noting)
    BY <2>4 DEF SameTcbs, Exists, Steady, Sound, Listed
  <2>6. d.next <= c.next
    BY <2>1, <2>4 DEF KernelType
  <2>7. Quiet(d, c, noting)
    BY <2>3, <2>4, <2>5, <2>6 DEF Quiet
  <2>8. Passes(d, c, noting)
    BY <2>4, <2>7, QuietSteady DEF Passes, SameReady, KeepsReady
  <2> QED
    BY <2>2, <2>8
<1>2. CASE ~(c.locked > 0)
  <2> DEFINE m == Counted(c)
  <2>1. Passes(m, c, noting)
    BY CountedPasses
  <2>2. xTaskIncrementTick(c) = IF m.tick >= m.next THEN WakeDue(m) ELSE m
    BY <1>2 DEF xTaskIncrementTick
  <2> HIDE DEF m
  <2>3. Passes(WakeDue(m), m, noting)
    BY <2>1, DueWakes DEF Gains, Passes
  <2> QED
    BY <2>1, <2>2, <2>3, PassesTwice
<1> QED
  BY <1>1, <1>2

LEMMA YieldGains ==
  ASSUME NEW c, NEW noting, Steady(c, noting), NEW b \in BOOLEAN
  PROVE  Gains([c EXCEPT !.yield = b], c, noting)
BY YieldNoted DEF Gains, Passes, SameReady, KeepsReady

LEMMA ReplayPasses ==
  ASSUME NEW c, NEW noting, Steady(c, noting)
  PROVE  Passes(Replay(c), c, noting)
<1> DEFINE m == xTaskIncrementTick(c)  b == c.yield \/ TickSwitches(c)
<1>1. Passes(m, c, noting)
  BY TickPasses
<1>2. b \in BOOLEAN
  BY DEF TickSwitches
<1>3. Replay(c) = [m EXCEPT !.yield = b]
  BY DEF Replay
<1> HIDE DEF m, b
<1>4. Passes(Replay(c), m, noting)
  BY <1>1, <1>2, <1>3, YieldGains DEF Gains, Passes
<1> QED
  BY <1>1, <1>4, PassesTwice

\* The loop that makes up for the missed ticks.
LEMMA ReplayUnfolds ==
  ASSUME NEW c, NEW noting, Steady(c, noting)
  PROVE  \E f : /\ f[0] = c
                /\ \A n \in 1..c.missed : f[n] = Replay(f[n - 1])
                /\ \A n \in 0..c.missed : Passes(f[n], c, noting) /\ f[n] \in KernelType
                /\ ReplayMissed(c) = [f[c.missed] EXCEPT !.missed = 0]
<1> DEFINE N == c.missed
           S == {d \in KernelType : Passes(d, c, noting)}
           body(f) == [n \in 0..N |-> IF n = 0 THEN c ELSE Replay(f[n - 1])]
           replayed == CHOOSE f : f = body(f)
           step == [n \in 1..N |-> [d \in S |-> Replay(d)]]
<1>1. N \in Nat
  BY DEF Steady, Sound, KernelType
<1>2. ReplayMissed(c) = [replayed[N] EXCEPT !.missed = 0]
  BY DEF ReplayMissed
<1> HIDE DEF N
<1>3. c \in S
  BY DEF Steady, Sound, Passes, KeepsReady
<1>4. ASSUME NEW d \in S
      PROVE  Replay(d) \in S
  <2>1. Passes(d, c, noting)
    OBVIOUS
  <2>2. Passes(Replay(d), d, noting)
    BY <2>1, ReplayPasses DEF Passes
  <2>3. Passes(Replay(d), c, noting)
    BY <2>1, <2>2, PassesTwice
  <2> QED
    BY <2>3 DEF Passes, Steady, Sound
<1> HIDE DEF S
<1>5. \E f : f = body(f)
  <2>1. \A n \in 1..N : \A d \in S : step[n][d] \in S
    BY <1>4
  <2>2. \A n \in 1..N : \A d \in S : step[n][d] = Replay(d)
    OBVIOUS
  <2> HIDE DEF step
  <2>0. PICK f : Iterates(f, N, S, c, step)
    BY <1>1, <1>3, <2>1, Iterated
  <2>3. f \in [0..N -> S] /\ f[0] = c /\ \A n \in 1..N : f[n] = step[n][f[n - 1]]
    BY <2>0 DEF Iterates
  <2>4. ASSUME NEW n \in 0..N
        PROVE  f[n] = IF n = 0 THEN c ELSE Replay(f[n - 1])
    <3>1. CASE n = 0
      BY <2>3, <3>1
    <3>2. CASE n # 0
      <4>1. n \in 1..N /\ n - 1 \in 0..N
        BY <1>1, <3>2
      <4> QED
        BY <2>2, <2>3, <3>2, <4>1
    <3> QED
      BY <3>1, <3>2
  <2>5. f = body(f)
    BY <2>3, <2>4
  <2> HIDE DEF body
  <2> QED
    BY <2>5
<1>6. replayed = body(replayed)
  <2> HIDE DEF body
  <2> QED
    BY <1>5
<1> HIDE DEF replayed
<1>7. \A n \in 0..N : replayed[n] = IF n = 0 THEN c ELSE Replay(replayed[n - 1])
  BY <1>6
<1>8. ASSUME NEW m \in 0..N
      PROVE  replayed[m] \in S
  <2>1. replayed[0] \in S /\ m \in Nat
    BY <1>1, <1>3, <1>7
  <2>2. ASSUME NEW n \in 1..m, replayed[n - 1] \in S
        PROVE  replayed[n] \in S
    <3>1. n \in 0..N /\ n # 0
      BY <1>1
    <3>2. replayed[n] = Replay(replayed[n - 1])
      BY <1>7, <3>1
    <3> QED
      BY <1>4, <2>2, <3>2
  <2> QED
    BY <2>1, <2>2, IteratesStay
<1>9. replayed[0] = c /\ \A n \in 1..N : replayed[n] = Replay(replayed[n - 1])
  <2>1. 0 \in 0..N /\ \A n \in 1..N : n \in 0..N /\ n # 0
    BY <1>1
  <2> QED
    BY <1>7, <2>1
<1>10. \A n \in 0..N : Passes(replayed[n], c, noting) /\ replayed[n] \in KernelType
  BY <1>8 DEF S
<1> QED
  BY <1>2, <1>9, <1>10 DEF N

LEMMA ReplayedPasses ==
  ASSUME NEW c, NEW noting, Steady(c, noting)
  PROVE  Passes(ReplayMissed(c), c, noting)
<1>1. c.missed \in 0..c.missed
  BY DEF Steady, Sound, KernelType
<1>2. PICK f : /\ \A n \in 0..c.missed : Passes(f[n], c, noting) /\ f[n] \in KernelType
               /\ ReplayMissed(c) = [f[c.missed] EXCEPT !.missed = 0]
  BY ReplayUnfolds
<1> DEFINE m == f[c.missed]  d == [m EXCEPT !.missed = 0]
<1>9. Passes(m, c, noting) /\ m \in KernelType
  BY <1>1, <1>2
<1> HIDE DEF m
<1>10. d \in KernelType
  BY <1>9, Zenon DEF KernelType
<1>11. /\ SamePlaces(d, m) /\ SameEvents(d, m) /\ d.tcb = m.tcb /\ d.next = m.next /\ d.top = m.top
       /\ d.cur = m.cur /\ d.locked = m.locked /\ d.number = m.number
  BY <1>9 DEF KernelType, SamePlaces, SameEvents
<1> HIDE DEF d
<1>12. SameTcbs(d, m, noting)
  BY <1>9, <1>11 DEF SameTcbs, Exists, Passes, Steady, Sound, Listed
<1>13. d.next <= m.next
  BY <1>9, <1>11 DEF KernelType
<1>14. Quiet(d, m, noting)
  BY <1>10, <1>11, <1>12, <1>13 DEF Quiet
<1>15. Passes(d, m, noting)
  BY <1>9, <1>11, <1>14, QuietSteady DEF Passes, SameReady, KeepsReady
<1>16. Passes(d, c, noting)
  BY <1>9, <1>15, PassesTwice
<1> QED
  BY <1>2, <1>16 DEF d, m

-----------------------------------------------------------------------------
(* The scheduler is unlocked                                               *)

\* What unlocking has done to c so far.
Opened(d, c, noting) ==
  /\ Sound(d, noting) /\ d.cur = c.cur /\ d.locked = c.locked /\ d.number = c.number
  /\ d.tcb = c.tcb /\ KeepsReady(d, c) /\ ToSet(d.pending) \subseteq ToSet(c.pending)
  /\ Calm(d, c)

LEMMA ReadyPendingOpened ==
  ASSUME NEW c, NEW d, NEW noting, Opened(d, c, noting), NEW x \in Everyone, Exists(c, x)
  PROVE  /\ Opened(ReadyPending(d, x), c, noting)
         /\ ToSet(ReadyPending(d, x).pending) = ToSet(d.pending) \ {x}
<1> DEFINE m == Readied(d, x)  b == m.yield \/ Prio(d, x) >= CurPrio(d)
           e == [m EXCEPT !.yield = b]
<1>1. Sound(m, noting) /\ Readying(m, d, x)
  BY ReadiedSound DEF Opened, Exists
<1>2. ReadyPending(d, x) = e
  BY DEF ReadyPending
<1> HIDE DEF m
<1>3. m \in KernelType /\ b \in BOOLEAN
  BY <1>1 DEF Sound, KernelType
<1> HIDE DEF b
<1>4. e \in KernelType
  BY <1>3, Zenon DEF KernelType
<1>5. /\ SamePlaces(e, m) /\ SameEvents(e, m) /\ e.tcb = m.tcb /\ e.next = m.next /\ e.top = m.top
      /\ SameRest(e, m)
  BY <1>3 DEF KernelType, SamePlaces, SameEvents, SameRest
<1> HIDE DEF e
<1>6. SameLists(e, m) /\ SameTcbs(e, m, noting)
  BY <1>1, <1>5 DEF SameLists, SamePlaces, Row, SameTcbs, Exists, Sound, Listed
<1>7. e.next <= m.next
  BY <1>3, <1>5 DEF KernelType
<1>8. \A p \in Priorities : Row(m, p) # {} => p <= e.top
  BY <1>1, <1>5, RowsTop
<1>9. Sound(e, noting) /\ SameReady(e, m)
  BY <1>1, <1>4, <1>6, <1>7, <1>8, QuietSound
<1>10. e.pending = m.pending /\ ToSet(m.pending) = ToSet(d.pending) \ {x}
  BY <1>1, <1>5 DEF SameEvents, Readying
<1>11. Calm(e, c)
  <2>1. Calm(m, d)
    BY <1>1, ReadyingCalm DEF Opened, Sound
  <2>2. Calm(e, m)
    BY <1>5 DEF Calm, SamePlaces, SameRest
  <2> QED
    BY <2>1, <2>2, CalmTwice DEF Opened
<1> QED
  BY <1>1, <1>2, <1>5, <1>9, <1>10, <1>11 DEF Opened, Readying, SameRest, KeepsReady, SameReady

LEMMA DrainedOpened ==
  ASSUME NEW c, NEW noting, Sound(c, noting)
  PROVE  Opened(DrainPending(c), c, noting) /\ DrainPending(c).pending = <<>>
<1> DEFINE row == c.pending  N == Len(row)
           S == {d \in KernelType : Opened(d, c, noting)}
           body(f) == [n \in 0..N |-> IF n = 0 THEN c ELSE ReadyPending(f[n - 1], row[n])]
           drained == CHOOSE f : f = body(f)
           step == [n \in 1..N |-> [d \in S |-> ReadyPending(d, row[n])]]
<1>1. row \in Rows(Everyone) /\ N \in Nat /\ DOMAIN row = 1..N
  BY DEF Sound, KernelType, Rows
<1>2. DrainPending(c) = IF row = <<>> THEN c ELSE prvResetNextTaskUnblockTime(drained[N])
  BY DEF DrainPending
<1>3. \A n \in 1..N : row[n] \in ToSet(row) /\ row[n] \in Everyone /\ Exists(c, row[n])
  <2> SUFFICES ASSUME NEW n \in 1..N
               PROVE  row[n] \in ToSet(row) /\ row[n] \in Everyone /\ Exists(c, row[n])
    OBVIOUS
  <2>1. row[n] \in ToSet(row) /\ row[n] \in Everyone
    BY <1>1, InEveryone DEF ToSet
  <2> QED
    BY <2>1 DEF Sound, Listed, EventListed
<1>4. ToSet(row) = {row[n] : n \in 1..N}
  BY <1>1 DEF ToSet
<1> HIDE DEF row, N
<1>5. c \in S
  BY CalmSelf DEF Sound, Opened, KeepsReady
<1>6. ASSUME NEW n \in 1..N, NEW d \in S
      PROVE  ReadyPending(d, row[n]) \in S /\ ToSet(ReadyPending(d, row[n]).pending) = ToSet(d.pending) \ {row[n]}
  <2>1. Opened(d, c, noting)
    OBVIOUS
  <2>2. /\ Opened(ReadyPending(d, row[n]), c, noting)
        /\ ToSet(ReadyPending(d, row[n]).pending) = ToSet(d.pending) \ {row[n]}
    BY <1>3, <2>1, ReadyPendingOpened
  <2> QED
    BY <2>2 DEF Opened, Sound
<1>7. S \subseteq KernelType /\ \A d \in S : Opened(d, c, noting)
  OBVIOUS
<1> HIDE DEF S
<1>8. \E f : f = body(f)
  <2>1. \A n \in 1..N : \A d \in S : step[n][d] \in S
    BY <1>6
  <2>2. \A n \in 1..N : \A d \in S : step[n][d] = ReadyPending(d, row[n])
    OBVIOUS
  <2> HIDE DEF step
  <2>0. PICK f : Iterates(f, N, S, c, step)
    BY <1>1, <1>5, <2>1, Iterated
  <2>3. f \in [0..N -> S] /\ f[0] = c /\ \A n \in 1..N : f[n] = step[n][f[n - 1]]
    BY <2>0 DEF Iterates
  <2>4. ASSUME NEW n \in 0..N
        PROVE  f[n] = IF n = 0 THEN c ELSE ReadyPending(f[n - 1], row[n])
    <3>1. CASE n = 0
      BY <2>3, <3>1
    <3>2. CASE n # 0
      <4>1. n \in 1..N /\ n - 1 \in 0..N
        BY <1>1, <3>2
      <4> QED
        BY <2>2, <2>3, <3>2, <4>1
    <3> QED
      BY <3>1, <3>2
  <2>5. f = body(f)
    BY <2>3, <2>4
  <2> HIDE DEF body
  <2> QED
    BY <2>5
<1>9. drained = body(drained)
  <2> HIDE DEF body
  <2> QED
    BY <1>8
<1> HIDE DEF drained
<1>10. \A n \in 0..N : drained[n] = IF n = 0 THEN c ELSE ReadyPending(drained[n - 1], row[n])
  BY <1>9
<1> DEFINE T == {n \in 0..N : drained[n] \in S /\ \A m \in 1..n : row[m] \notin ToSet(drained[n].pending)}
<1>11. 0 \in T
  BY <1>1, <1>5, <1>10
<1>12. ASSUME NEW n \in 0..N, n \in T, n # N
       PROVE  n + 1 \in T
  <2>1. n + 1 \in 1..N /\ (n + 1) - 1 = n /\ n + 1 \in 0..N /\ n + 1 # 0
    BY <1>1, <1>12
  <2>2. drained[n + 1] = ReadyPending(drained[n], row[n + 1])
    BY <1>10, <2>1
  <2>3. /\ drained[n + 1] \in S
        /\ ToSet(drained[n + 1].pending) = ToSet(drained[n].pending) \ {row[n + 1]}
    BY <1>6, <1>12, <2>1, <2>2
  <2>4. ASSUME NEW m \in 1..(n + 1)
        PROVE  row[m] \notin ToSet(drained[n + 1].pending)
    <3>1. CASE m = n + 1
      BY <2>3, <3>1
    <3>2. CASE m # n + 1
      <4>1. m \in 1..n
        BY <1>12, <3>2
      <4> QED
        BY <1>12, <2>3, <4>1
    <3> QED
      BY <3>1, <3>2
  <2> QED
    BY <2>1, <2>3, <2>4
<1> HIDE DEF T
<1>13. N \in T
  BY <1>1, <1>11, <1>12, BoundedInduction
<1> DEFINE e == drained[N]  d == prvResetNextTaskUnblockTime(e)
<1>14. Opened(e, c, noting) /\ ToSet(e.pending) = {}
  <2>1. e \in S /\ \A m \in 1..N : row[m] \notin ToSet(e.pending)
    BY <1>13 DEF T
  <2>2. ToSet(e.pending) \subseteq ToSet(row)
    BY <1>7, <2>1 DEF Opened, row
  <2> QED
    BY <1>4, <1>7, <2>1, <2>2
<1> HIDE DEF e
<1>15. e.pending = <<>>
  <2>1. e.pending \in Rows(Everyone)
    BY <1>14 DEF Opened, Sound, KernelType
  <2> QED
    BY <1>14, <2>1, EmptyRow
<1>16. Opened(d, c, noting) /\ d.pending = <<>>
  <2>1. Untimed(e, noting)
    BY <1>14 DEF Opened, Sound, Untimed
  <2>2. Sound(d, noting) /\ SameEvents(d, e) /\ SameRest(d, e) /\ d.tcb = e.tcb /\ SameReady(d, e)
    BY <2>1, ResetSound
  <2>3. Calm(d, c)
    BY <1>14, ResetCalm, CalmTwice DEF Opened, Sound
  <2> QED
    BY <1>14, <1>15, <2>2, <2>3 DEF Opened, SameEvents, SameRest, KeepsReady, SameReady
<1>17. c \in KernelType /\ Opened(c, c, noting)
  BY <1>5, <1>7
<1> QED
  BY <1>2, <1>16, <1>17 DEF e, row

\* Unlocking first readies whom interrupts readied, then makes up for the ticks.
LEMMA UnlockUnfolds ==
  ASSUME NEW c, NEW noting, Steady(c, noting), c.locked = 1
  PROVE  LET open == [c EXCEPT !.locked = 0]  m == DrainPending(open)
         IN  /\ Unlock(c) = ReplayMissed(m)
             /\ Steady(m, noting) /\ KeepsReady(m, c) /\ m.cur = c.cur /\ m.tcb = c.tcb
             /\ m.locked = 0 /\ Calm(m, open)
<1> DEFINE open == [c EXCEPT !.locked = @ - 1]  m == DrainPending(open)
<1>1. c \in KernelType
  BY DEF Steady, Sound
<1>2. open = [c EXCEPT !.locked = 0]
  BY <1>1 DEF KernelType
<1>3. c.number > 0
  <2> DEFINE T == {t \in Everyone : Exists(c, t)}
  <2>1. IsFiniteSet(T)
    <3>1. IsFiniteSet(Everyone)
      BY KernelAssumption, FS_AddElement DEF Everyone
    <3> QED
      BY <3>1, FS_Subset
  <2>2. Exists(c, Idle)
    BY DEF Steady, Sound, Listed, StateListed, Everyone
  <2>3. Idle \in T
    BY <2>2 DEF Everyone
  <2>4. Cardinality(T) \in Nat /\ Cardinality(T) # 0
    BY <2>1, <2>3, FS_CardinalityType, FS_EmptySet
  <2> QED
    BY <2>4 DEF Steady
<1>4. open.locked = 0
  BY <1>1, <1>2 DEF KernelType
<1>5. Unlock(c) = ReplayMissed(m)
  BY <1>3, <1>4 DEF Unlock
<1> HIDE DEF open
<1>6. open \in KernelType
  <2>1. 0 \in Int
    OBVIOUS
  <2> QED
    BY <1>1, <1>2, <2>1, Zenon DEF KernelType
<1>7. /\ SamePlaces(open, c) /\ SameEvents(open, c) /\ open.tcb = c.tcb /\ open.next = c.next
      /\ open.top = c.top /\ open.cur = c.cur /\ open.number = c.number
  BY <1>1, <1>2 DEF KernelType, SamePlaces, SameEvents
<1>8. Sound(open, noting) /\ SameReady(open, c)
  <2>1. SameLists(open, c) /\ SameTcbs(open, c, noting)
    BY <1>7 DEF SameLists, SamePlaces, Row, SameTcbs, Exists, Steady, Sound, Listed
  <2>2. open.next <= c.next
    BY <1>1, <1>7 DEF KernelType
  <2>3. \A p \in Priorities : Row(c, p) # {} => p <= open.top
    BY <1>7, RowsTop DEF Steady
  <2> QED
    BY <1>6, <2>1, <2>2, <2>3, QuietSound DEF Steady
<1>9. Opened(m, open, noting) /\ m.pending = <<>>
  BY <1>8, DrainedOpened
<1> HIDE DEF m
<1>10. Steady(m, noting) /\ KeepsReady(m, c)
  <2>1. m.cur \in Everyone /\ m.locked = 0
    BY <1>4, <1>7, <1>9 DEF Opened, Steady
  <2>2. KeepsReady(m, c)
    BY <1>8, <1>9 DEF Opened, KeepsReady, SameReady
  <2>3. IsReady(m, Idle)
    BY <2>2 DEF KeepsReady, Steady, Everyone
  <2>4. m.number = Cardinality({t \in Everyone : Exists(m, t)})
    <3>1. {t \in Everyone : Exists(m, t)} = {t \in Everyone : Exists(c, t)}
      BY <1>7, <1>9 DEF Opened, Exists
    <3> QED
      BY <1>7, <1>9, <3>1 DEF Opened, Steady
  <2> QED
    BY <1>9, <2>1, <2>2, <2>3, <2>4 DEF Opened, Steady
<1>11. /\ Unlock(c) = ReplayMissed(m) /\ m.cur = c.cur /\ m.tcb = c.tcb /\ m.locked = 0
       /\ Calm(m, open)
  BY <1>4, <1>5, <1>7, <1>9 DEF Opened
<1>12. m = DrainPending(open)
  BY DEF m
<1> QED
  BY <1>2, <1>10, <1>11, <1>12

LEMMA UnlockSteady ==
  ASSUME NEW c, NEW noting, Steady(c, noting), c.locked = 1
  PROVE  LET d == Unlock(c)
         IN  /\ Steady(d, noting) /\ d.locked = 0 /\ d.cur = c.cur /\ d.tcb = c.tcb
             /\ KeepsReady(d, c)
<1> DEFINE m == DrainPending([c EXCEPT !.locked = 0])  d == ReplayMissed(m)
<1>1. /\ Unlock(c) = d /\ Steady(m, noting) /\ KeepsReady(m, c) /\ m.cur = c.cur /\ m.tcb = c.tcb
      /\ m.locked = 0
  BY UnlockUnfolds
<1> HIDE DEF m
<1>2. Passes(d, m, noting)
  BY <1>1, ReplayedPasses
<1> HIDE DEF d
<1> QED
  BY <1>1, <1>2 DEF Passes, KeepsReady

LEMMA ResumeAllSteady ==
  ASSUME NEW c, NEW noting, Steady(c, noting), c.locked = 1
  PROVE  LET d == xTaskResumeAll(c)
         IN  /\ Steady(d, noting) /\ d.locked = 0 /\ d.tcb = c.tcb
             /\ \/ d.cur = c.cur /\ (IsReady(c, c.cur) => IsReady(d, d.cur))
                \/ IsReady(d, d.cur)
             /\ AlreadyYielded(c) => IsReady(d, d.cur)
             /\ ~AlreadyYielded(c) => d.cur = c.cur
<1> DEFINE m == Unlock(c)  d == xTaskResumeAll(c)
<1>1. Steady(m, noting) /\ m.locked = 0 /\ m.cur = c.cur /\ m.tcb = c.tcb /\ KeepsReady(m, c)
  BY UnlockSteady
<1>2. d = IF AlreadyYielded(c) THEN vTaskSwitchContext(m) ELSE m
  BY DEF xTaskResumeAll, YieldIf
<1> HIDE DEF m, d
<1>3. IsReady(c, c.cur) => IsReady(m, m.cur)
  BY <1>1 DEF Steady, KeepsReady
<1>4. CASE AlreadyYielded(c)
  <2> DEFINE e == vTaskSwitchContext(m)
  <2>1. Steady(e, noting) /\ IsReady(e, e.cur) /\ e.tcb = m.tcb /\ e.locked = m.locked
    BY <1>1, SwitchSteady
  <2> QED
    BY <1>1, <1>2, <1>4, <2>1 DEF d
<1>5. CASE ~AlreadyYielded(c)
  BY <1>1, <1>2, <1>3, <1>5 DEF d
<1> QED
  BY <1>4, <1>5

-----------------------------------------------------------------------------
(* The current task waits                                                  *)

LEMMA TcbChanged ==
  ASSUME NEW c \in KernelType, NEW x \in Everyone, NEW r \in Tcbs
  PROVE  LET d == [c EXCEPT !.tcb = [c.tcb EXCEPT ![x] = r]]
         IN  /\ d \in KernelType /\ d.tcb[x] = r /\ \A t \in Everyone \ {x} : d.tcb[t] = c.tcb[t]
             /\ SamePlaces(d, c) /\ SameEvents(d, c) /\ SameRest(d, c)
             /\ d.top = c.top /\ d.next = c.next /\ d.yield = c.yield /\ d.unclean = c.unclean
<1> DEFINE tcb == [c.tcb EXCEPT ![x] = r]  d == [c EXCEPT !.tcb = tcb]
<1>1. tcb \in [Everyone -> Tcbs] /\ tcb[x] = r /\ \A t \in Everyone \ {x} : tcb[t] = c.tcb[t]
  BY DEF KernelType
<1> HIDE DEF tcb
<1>2. d \in KernelType
  BY <1>1, Zenon DEF KernelType
<1>3. /\ d.tcb = tcb /\ SamePlaces(d, c) /\ SameEvents(d, c) /\ SameRest(d, c)
      /\ d.top = c.top /\ d.next = c.next /\ d.yield = c.yield /\ d.unclean = c.unclean
  BY DEF KernelType, SamePlaces, SameEvents, SameRest
<1> QED
  BY <1>1, <1>2, <1>3 DEF tcb

LEMMA AddDelayedSound ==
  ASSUME NEW c, NEW noting, NEW x \in Everyone, Loose(c, noting, x), Stateless(c, x),
         EventListed(c, x), Exists(c, x), c.tcb[x].state = "waiting" => x \in noting,
         NEW wake \in Nat
  PROVE  LET d == AddDelayed(c, x, wake)
         IN  /\ Sound(d, noting) /\ SameEvents(d, c) /\ SameRest(d, c)
             /\ \A p : Row(d, p) = Row(c, p)
             /\ \A t \in Everyone : Prio(d, t) = Prio(c, t) /\ d.tcb[t].state = c.tcb[t].state
<1> DEFINE value == [u \in DOMAIN c.tcb |-> IF u = x THEN wake ELSE c.tcb[u].wake]
           r == [c.tcb[x] EXCEPT !.wake = wake]
           m == [c EXCEPT !.tcb = [c.tcb EXCEPT ![x] = r]]
           d == AddDelayed(c, x, wake)
<1>1. c \in KernelType /\ c.tcb \in [Everyone -> Tcbs]
  BY DEF Loose, KernelType
<1>2. r \in Tcbs /\ r.wake = wake /\ r.priority = c.tcb[x].priority /\ r.state = c.tcb[x].state
  <2>1. c.tcb[x] \in Tcbs
    BY <1>1, TcbOf
  <2> QED
    BY <2>1 DEF Tcbs
<1> HIDE DEF r
<1>3. /\ m \in KernelType /\ m.tcb[x] = r /\ \A t \in Everyone \ {x} : m.tcb[t] = c.tcb[t]
      /\ SamePlaces(m, c) /\ SameEvents(m, c) /\ SameRest(m, c)
      /\ m.top = c.top /\ m.next = c.next /\ m.yield = c.yield
  BY <1>1, <1>2, TcbChanged
<1> HIDE DEF m
<1>4. /\ \A t \in Everyone : Prio(m, t) = Prio(c, t) /\ m.tcb[t].state = c.tcb[t].state
      /\ \A t \in Everyone : Exists(m, t) <=> Exists(c, t)
  BY <1>2, <1>3 DEF Prio, Exists
<1>5. value \in [Everyone -> Nat] /\ value = WakeTimes(m) /\ value[x] = wake
  <2>1. \A t \in Everyone : c.tcb[t].wake \in Nat
    BY <1>1, TcbOf
  <2>2. \A t \in Everyone : WakeTimes(m)[t] = IF t = x THEN wake ELSE c.tcb[t].wake
    BY <1>2, <1>3 DEF WakeTimes
  <2>3. DOMAIN c.tcb = Everyone
    BY <1>1
  <2>4. value = [u \in Everyone |-> IF u = x THEN wake ELSE c.tcb[u].wake]
    BY <2>3
  <2>5. WakeTimes(m) = [u \in Everyone |-> IF u = x THEN wake ELSE c.tcb[u].wake]
    BY <2>2 DEF WakeTimes
  <2> QED
    BY <2>1, <2>4, <2>5
<1> HIDE DEF value
<1>6. ASSUME NEW row \in Rows(Everyone), x \notin ToSet(row), Rising(row, WakeTimes(c))
      PROVE  /\ Rising(row, value)
             /\ vListInsert(row, x, value) \in Rows(Everyone)
             /\ ToSet(vListInsert(row, x, value)) = ToSet(row) \cup {x}
             /\ Rising(vListInsert(row, x, value), value)
  <2>1. \A t \in ToSet(row) : WakeTimes(c)[t] = value[t]
    <3> SUFFICES ASSUME NEW t \in ToSet(row)
                 PROVE  WakeTimes(c)[t] = value[t]
      OBVIOUS
    <3>1. t \in Everyone /\ t # x
      BY <1>6, InEveryone
    <3> QED
      BY <1>3, <1>5, <3>1 DEF WakeTimes
  <2>2. Rising(row, value)
    BY <1>6, <2>1, RisingSame
  <2>3. Inserts(Everyone, row, vListInsert(row, x, value), x, value)
    BY <1>5, ListInsert
  <2> QED
    BY <1>6, <2>2, <2>3 DEF Inserts
<1>7. /\ c.delayed \in Rows(Everyone) /\ c.overflow \in Rows(Everyone)
      /\ x \notin ToSet(c.delayed) /\ x \notin ToSet(c.overflow)
      /\ Rising(c.delayed, WakeTimes(c)) /\ Rising(c.overflow, WakeTimes(c))
  BY <1>1 DEF KernelType, Stateless, Loose, Ordered
<1>8. c.next \in Nat /\ c.top \in Nat /\ c.top <= c.top
  <2>1. c.next \in Nat /\ c.top \in Nat
    BY <1>1, Levels DEF KernelType
  <2> QED
    BY <2>1
<1>9. \A t \in Everyone \ {x} : WakeTimes(m)[t] = c.tcb[t].wake
  BY <1>3 DEF WakeTimes
<1>11. CASE wake < c.tick
  <2> DEFINE list == vListInsert(c.overflow, x, value)
  <2>1. /\ list \in Rows(Everyone) /\ ToSet(list) = ToSet(c.overflow) \cup {x}
        /\ Rising(list, value) /\ Rising(c.delayed, value)
    BY <1>6, <1>7
  <2>2. d = [m EXCEPT !.overflow = list]
    BY <1>1, <1>11 DEF AddDelayed, m, r, value, KernelType
  <2> HIDE DEF list, d
  <2>3. d \in KernelType
    BY <1>3, <2>1, <2>2, Zenon DEF KernelType
  <2>4. /\ d.ready = m.ready /\ d.delayed = m.delayed /\ d.overflow = list
        /\ d.suspended = m.suspended /\ d.ended = m.ended /\ SameEvents(d, m) /\ SameRest(d, m)
        /\ d.tcb = m.tcb /\ d.top = m.top /\ d.next = m.next
    BY <1>3, <2>2 DEF KernelType, SameEvents, SameRest
  <2>5. \A p : Row(d, p) = Row(c, p)
    BY <1>3, <2>4 DEF Row, SamePlaces
  <2>6. WakeTimes(d) = value
    BY <1>5, <2>4 DEF WakeTimes
  <2>7. Ordered(d)
    BY <1>3, <2>1, <2>4, <2>6 DEF Ordered, SamePlaces
  <2>8. Early(d)
    <3>1. \A t \in ToSet(c.delayed) : t \in Everyone \ {x}
      BY <1>7, InEveryone
    <3> QED
      BY <1>3, <2>4, <3>1 DEF Early, Loose, SamePlaces
  <2>9. \A t \in Everyone : Prio(d, t) = Prio(c, t) /\ d.tcb[t].state = c.tcb[t].state
    BY <1>4, <2>4 DEF Prio
  <2>10. SameEvents(d, c) /\ SameRest(d, c)
    BY <1>3, <2>4 DEF SameEvents, SameRest
  <2>11. ASSUME NEW t \in Everyone \ {x}
         PROVE  SameFor(d, c, t)
    BY <1>3, <2>1, <2>4, <2>5, <2>9, <2>10 DEF SameFor, SamePlaces, SameEvents
  <2>12. c.top <= d.top
    BY <1>3, <1>8, <2>4
  <2>13. Loose(d, noting, x)
    BY <2>3, <2>7, <2>8, <2>11, <2>12, LooseSame
  <2>14. Listed(d, noting, x)
    <3>1. Prio(c, x) \in Priorities /\ Prio(d, x) = Prio(c, x) /\ (Exists(d, x) <=> Exists(c, x))
      BY <1>1, <2>9, TcbOf DEF Exists
    <3>2. ~IsReady(d, x) /\ \A p \in Priorities : x \notin Row(d, p)
      BY <2>5, <3>1 DEF Stateless, IsReady
    <3>3. StateListed(d, x)
      BY <1>3, <2>1, <2>4, <3>1, <3>2 DEF StateListed, Stateless, SamePlaces
    <3>4. EventListed(d, x)
      BY <2>10, <3>1 DEF EventListed, SameEvents, Awaits
    <3> QED
      BY <1>3, <2>4, <2>9, <3>2, <3>3, <3>4 DEF Listed, Stateless, SamePlaces
  <2>15. Sound(d, noting)
    BY <2>13, <2>14, SoundAgain
  <2> QED
    BY <2>5, <2>9, <2>10, <2>15 DEF d
<1>12. CASE ~(wake < c.tick)
  <2> DEFINE list == vListInsert(c.delayed, x, value)  next == Min({c.next, wake})
  <2>1. /\ list \in Rows(Everyone) /\ ToSet(list) = ToSet(c.delayed) \cup {x}
        /\ Rising(list, value) /\ Rising(c.overflow, value)
    BY <1>6, <1>7
  <2>2. d = [m EXCEPT !.delayed = list, !.next = next]
    BY <1>1, <1>12 DEF AddDelayed, m, r, value, KernelType
  <2>0. next = IF c.next <= wake THEN c.next ELSE wake
    BY <1>8, MinOfTwo
  <2> HIDE DEF list, d, next
  <2>20. next \in Nat /\ next <= c.next /\ next <= wake
    BY <1>8, <2>0
  <2>3. d \in KernelType
    BY <1>3, <2>1, <2>2, <2>20, Zenon DEF KernelType
  <2>4. /\ d.ready = m.ready /\ d.delayed = list /\ d.overflow = m.overflow
        /\ d.suspended = m.suspended /\ d.ended = m.ended /\ SameEvents(d, m) /\ SameRest(d, m)
        /\ d.tcb = m.tcb /\ d.top = m.top /\ d.next = next
    BY <1>3, <2>2 DEF KernelType, SameEvents, SameRest
  <2>5. \A p : Row(d, p) = Row(c, p)
    BY <1>3, <2>4 DEF Row, SamePlaces
  <2>6. WakeTimes(d) = value
    BY <1>5, <2>4 DEF WakeTimes
  <2>7. Ordered(d)
    BY <1>3, <2>1, <2>4, <2>6 DEF Ordered, SamePlaces
  <2>8. Early(d)
    <3> SUFFICES ASSUME NEW t \in ToSet(d.delayed)
                 PROVE  d.next <= d.tcb[t].wake
      BY DEF Early
    <3>1. CASE t = x
      BY <1>2, <1>3, <2>20, <2>4, <3>1
    <3>2. CASE t # x
      <4>1. t \in ToSet(c.delayed)
        BY <2>1, <2>4, <3>2
      <4>2. t \in Everyone
        BY <1>7, <4>1, InEveryone
      <4>3. c.next <= c.tcb[t].wake /\ d.tcb[t] = c.tcb[t]
        BY <1>3, <2>4, <3>2, <4>1, <4>2 DEF Loose, Early
      <4>4. c.tcb[t].wake \in Nat
        BY <1>1, <4>2, TcbOf
      <4> QED
        BY <1>8, <2>20, <2>4, <4>3, <4>4
    <3> QED
      BY <3>1, <3>2
  <2>9. \A t \in Everyone : Prio(d, t) = Prio(c, t) /\ d.tcb[t].state = c.tcb[t].state
    BY <1>4, <2>4 DEF Prio
  <2>10. SameEvents(d, c) /\ SameRest(d, c)
    BY <1>3, <2>4 DEF SameEvents, SameRest
  <2>11. ASSUME NEW t \in Everyone \ {x}
         PROVE  SameFor(d, c, t)
    BY <1>3, <2>1, <2>4, <2>5, <2>9, <2>10 DEF SameFor, SamePlaces, SameEvents
  <2>12. c.top <= d.top
    BY <1>3, <1>8, <2>4
  <2>13. Loose(d, noting, x)
    BY <2>3, <2>7, <2>8, <2>11, <2>12, LooseSame
  <2>14. Listed(d, noting, x)
    <3>1. Prio(c, x) \in Priorities /\ Prio(d, x) = Prio(c, x) /\ (Exists(d, x) <=> Exists(c, x))
      BY <1>1, <2>9, TcbOf DEF Exists
    <3>2. ~IsReady(d, x) /\ \A p \in Priorities : x \notin Row(d, p)
      BY <2>5, <3>1 DEF Stateless, IsReady
    <3>3. StateListed(d, x)
      BY <1>3, <2>1, <2>4, <3>1, <3>2 DEF StateListed, Stateless, SamePlaces
    <3>4. EventListed(d, x)
      BY <2>10, <3>1 DEF EventListed, SameEvents, Awaits
    <3> QED
      BY <1>3, <2>4, <2>9, <3>2, <3>3, <3>4 DEF Listed, Stateless, SamePlaces
  <2>15. Sound(d, noting)
    BY <2>13, <2>14, SoundAgain
  <2> QED
    BY <2>5, <2>9, <2>10, <2>15 DEF d
<1> QED
  BY <1>11, <1>12

LEMMA SuspendedSound ==
  ASSUME NEW c, NEW noting, NEW x \in Everyone, Loose(c, noting, x), Stateless(c, x),
         EventListed(c, x), Exists(c, x), c.tcb[x].state = "waiting" => x \in noting
  PROVE  LET d == [c EXCEPT !.suspended = Append(@, x)]
         IN  /\ Sound(d, noting) /\ SameEvents(d, c) /\ SameRest(d, c) /\ d.tcb = c.tcb
             /\ \A p : Row(d, p) = Row(c, p)
             /\ d.yield = c.yield /\ d.unclean = c.unclean
<1> DEFINE list == Append(c.suspended, x)  d == [c EXCEPT !.suspended = list]
<1>1. c \in KernelType
  BY DEF Loose
<1>2. list \in Rows(Everyone) /\ ToSet(list) = ToSet(c.suspended) \cup {x}
  <2>1. c.suspended \in Rows(Everyone) /\ x \notin ToSet(c.suspended)
    BY <1>1 DEF KernelType, Stateless
  <2> QED
    BY <2>1, Appended
<1>0. [c EXCEPT !.suspended = Append(@, x)] = d
  BY <1>1 DEF KernelType
<1> HIDE DEF list
<1>3. d \in KernelType
  BY <1>1, <1>2, Zenon DEF KernelType
<1>4. /\ d.ready = c.ready /\ d.delayed = c.delayed /\ d.overflow = c.overflow
      /\ d.suspended = list /\ d.ended = c.ended /\ SameEvents(d, c) /\ SameRest(d, c)
      /\ d.tcb = c.tcb /\ d.top = c.top /\ d.next = c.next /\ d.yield = c.yield
      /\ d.unclean = c.unclean
  BY <1>1 DEF KernelType, SameEvents, SameRest
<1> HIDE DEF d
<1>5. /\ \A p : Row(d, p) = Row(c, p)
      /\ \A t : Prio(d, t) = Prio(c, t) /\ (Exists(d, t) <=> Exists(c, t)) /\ (Awaits(d, t) <=> Awaits(c, t))
  BY <1>4 DEF Row, Prio, Exists, Awaits, SameEvents
<1>6. Ordered(d) /\ Early(d)
  BY <1>4 DEF Ordered, Early, WakeTimes, Loose
<1>7. \A t \in Everyone \ {x} : SameFor(d, c, t)
  BY <1>2, <1>4, <1>5 DEF SameFor, SameEvents
<1>8. c.top <= d.top
  BY <1>1, <1>4, TopOf
<1>9. Loose(d, noting, x)
  BY <1>3, <1>6, <1>7, <1>8, LooseSame
<1>10. Listed(d, noting, x)
  <2>1. Prio(c, x) \in Priorities
    BY <1>1, TcbOf
  <2>2. ~IsReady(d, x) /\ \A p \in Priorities : x \notin Row(d, p)
    BY <1>5, <2>1 DEF Stateless, IsReady
  <2>3. StateListed(d, x)
    BY <1>2, <1>4, <1>5, <2>2 DEF StateListed, Stateless
  <2>4. EventListed(d, x)
    BY <1>4, <1>5 DEF EventListed, SameEvents
  <2> QED
    BY <1>4, <2>2, <2>3, <2>4 DEF Listed, Stateless
<1>11. Sound(d, noting)
  BY <1>9, <1>10, SoundAgain
<1> QED
  BY <1>0, <1>4, <1>5, <1>11

\* x is taken off its state list and put where it waits; the others stay ready.
Parked(d, c, x, noting) ==
  /\ Sound(d, noting) /\ SameEvents(d, c) /\ SameRest(d, c)
  /\ \A t \in Everyone \ {x} : IsReady(c, t) => IsReady(d, t)
  /\ \A t \in Everyone : Exists(d, t) <=> Exists(c, t)

LEMMA WaitSound ==
  ASSUME NEW c, NEW noting, NEW x \in Everyone, x = c.cur, Loose(c, noting, x), EventListed(c, x),
         Exists(c, x), c.tcb[x].state = "waiting" => x \in noting, NEW ticks \in Int, NEW indefinitely
  PROVE  Parked(prvAddCurrentTaskToDelayedList(c, ticks, indefinitely), c, x, noting)
<1> DEFINE r == [c.tcb[x] EXCEPT !.aborted = FALSE]
           m == [c EXCEPT !.tcb = [c.tcb EXCEPT ![x] = r]]
           off == OffStateList(m, x)
           d == prvAddCurrentTaskToDelayedList(c, ticks, indefinitely)
           wake == (c.tick + ticks) % TickMod
           asleep == [off EXCEPT !.suspended = Append(@, x)]
<1>1. c \in KernelType /\ c.tcb[x] \in Tcbs
  BY TcbOf DEF Loose
<1>2. r \in Tcbs /\ r.wake = c.tcb[x].wake /\ r.priority = c.tcb[x].priority /\ r.state = c.tcb[x].state
  BY <1>1 DEF Tcbs
<1>3. [c EXCEPT !.tcb[x].aborted = FALSE] = m
  BY <1>1 DEF KernelType
<1> HIDE DEF r
<1>4. /\ m \in KernelType /\ m.tcb[x] = r /\ \A t \in Everyone \ {x} : m.tcb[t] = c.tcb[t]
      /\ SamePlaces(m, c) /\ SameEvents(m, c) /\ SameRest(m, c)
      /\ m.top = c.top /\ m.next = c.next
  BY <1>1, <1>2, TcbChanged
<1>5. d = IF indefinitely /\ WaitsForEver(c, ticks) THEN asleep ELSE AddDelayed(off, x, wake)
  BY <1>3 DEF prvAddCurrentTaskToDelayedList
<1> HIDE DEF m
<1>6. /\ \A t \in Everyone : Prio(m, t) = Prio(c, t) /\ m.tcb[t].state = c.tcb[t].state
                              /\ m.tcb[t].wake = c.tcb[t].wake
      /\ \A p : Row(m, p) = Row(c, p)
  BY <1>2, <1>4 DEF Prio, Row, SamePlaces
<1>7. Loose(m, noting, x)
  <2>1. WakeTimes(m) = WakeTimes(c)
    BY <1>6 DEF WakeTimes
  <2>2. Ordered(m)
    BY <1>4, <2>1 DEF Ordered, Loose, SamePlaces
  <2>3. Early(m)
    <3>1. \A t \in ToSet(c.delayed) : t \in Everyone
      BY <1>1, InEveryone DEF KernelType
    <3> QED
      BY <1>4, <1>6, <3>1 DEF Early, Loose, SamePlaces
  <2>4. \A t \in Everyone \ {x} : SameFor(m, c, t)
    BY <1>4, <1>6 DEF SameFor, SamePlaces, SameEvents
  <2>5. c.top <= m.top
    BY <1>1, <1>4, Levels DEF KernelType
  <2> QED
    BY <1>4, <2>2, <2>3, <2>4, <2>5, LooseSame
<1>8. OffState(off, m, x)
  BY <1>4, OffStateListed
<1> HIDE DEF off
<1>9. Loose(off, noting, x) /\ Stateless(off, x)
  BY <1>7, <1>8, OffStateLoose
<1>10. /\ \A t \in Everyone : Prio(off, t) = Prio(c, t) /\ off.tcb[t].state = c.tcb[t].state
       /\ \A t \in Everyone : Exists(off, t) <=> Exists(c, t)
       /\ SameEvents(off, c) /\ SameRest(off, c)
       /\ \A p \in Priorities : Row(off, p) = Row(c, p) \ {x}
  BY <1>4, <1>6, <1>8 DEF OffState, Prio, Exists, SameEvents, SameRest
<1>11. EventListed(off, x) /\ Exists(off, x) /\ (off.tcb[x].state = "waiting" => x \in noting)
  BY <1>10 DEF EventListed, Awaits, SameEvents
<1>12. /\ Sound(d, noting) /\ SameEvents(d, off) /\ SameRest(d, off)
       /\ \A p : Row(d, p) = Row(off, p)
       /\ \A t \in Everyone : Prio(d, t) = Prio(off, t) /\ d.tcb[t].state = off.tcb[t].state
  <2>1. CASE indefinitely /\ WaitsForEver(c, ticks)
    <3>1. d = asleep
      BY <1>5, <2>1
    <3>2. /\ Sound(asleep, noting) /\ SameEvents(asleep, off) /\ SameRest(asleep, off) /\ asleep.tcb = off.tcb
          /\ \A p : Row(asleep, p) = Row(off, p)
      BY <1>9, <1>11, SuspendedSound
    <3> HIDE DEF asleep
    <3> QED
      BY <3>1, <3>2 DEF Prio
  <2>2. CASE ~(indefinitely /\ WaitsForEver(c, ticks))
    <3>1. wake \in Nat
      BY <1>1, TasksAssumption DEF KernelType
    <3> HIDE DEF wake
    <3>2. d = AddDelayed(off, x, wake)
      BY <1>5, <2>2
    <3> QED
      BY <1>9, <1>11, <3>1, <3>2, AddDelayedSound
  <2> QED
    BY <2>1, <2>2
<1> HIDE DEF d
<1>13. ASSUME NEW t \in Everyone \ {x}, IsReady(c, t)
       PROVE  IsReady(d, t)
  <2>1. Prio(c, t) \in Priorities /\ Prio(d, t) = Prio(c, t)
    BY <1>1, <1>10, <1>12, TcbOf
  <2> QED
    BY <1>10, <1>12, <1>13, <2>1 DEF IsReady
<1>14. \A t \in Everyone : Exists(d, t) <=> Exists(c, t)
  BY <1>10, <1>12 DEF Exists
<1>15. SameEvents(d, c) /\ SameRest(d, c)
  BY <1>10, <1>12 DEF SameEvents, SameRest
<1> QED
  BY <1>12, <1>13, <1>14, <1>15 DEF Parked, d

\* Who waits is not the idle task, and nobody else is affected.
Leaves(d, c, noting) == Steady(d, noting) /\ d.cur = c.cur /\ d.locked = c.locked

LEMMA ParkedSteady ==
  ASSUME NEW c, NEW d, NEW m, NEW noting, Steady(c, noting), c.cur # Idle, m.pending = c.pending,
         SameRest(m, c), \A t \in Everyone : Exists(m, t) <=> Exists(c, t),
         \A t \in Everyone : IsReady(m, t) <=> IsReady(c, t), Parked(d, m, c.cur, noting)
  PROVE  Leaves(d, c, noting)
<1>1. {t \in Everyone : Exists(d, t)} = {t \in Everyone : Exists(c, t)}
  BY DEF Parked
<1>2. IsReady(d, Idle)
  BY DEF Steady, Parked, Everyone
<1>3. d.pending = c.pending /\ d.cur = c.cur /\ d.locked = c.locked /\ d.number = c.number
  BY DEF Parked, SameEvents, SameRest
<1> QED
  BY <1>1, <1>2, <1>3 DEF Steady, Leaves, Parked

LEMMA AsleepSteady ==
  ASSUME NEW c, NEW noting, Steady(c, noting), c.cur # Idle, IsReady(c, c.cur),
         NEW ticks \in Int, NEW indefinitely
  PROVE  Leaves(prvAddCurrentTaskToDelayedList(c, ticks, indefinitely), c, noting)
<1> DEFINE x == c.cur  d == prvAddCurrentTaskToDelayedList(c, ticks, indefinitely)
<1>1. x \in Everyone /\ Sound(c, noting)
  BY DEF Steady
<1>2. Listed(c, noting, x) /\ Loose(c, noting, x)
  BY <1>1, LooseFrom DEF Sound
<1>3. EventListed(c, x) /\ Exists(c, x) /\ (c.tcb[x].state = "waiting" => x \in noting)
  BY <1>2 DEF Listed, StateListed
<1>4. Parked(d, c, x, noting)
  BY <1>1, <1>2, <1>3, WaitSound
<1>5. SameRest(c, c)
  BY DEF SameRest
<1> HIDE DEF d
<1>6. Leaves(d, c, noting)
  BY <1>4, <1>5, ParkedSteady
<1> QED
  BY <1>6 DEF d

\* The current task goes into an event list before it goes to sleep.
LEMMA EventAdded ==
  ASSUME NEW c, NEW noting, NEW x \in Everyone, Sound(c, noting), IsReady(c, x),
         x \notin ToSet(c.pending), NEW e \in EventLists, NEW list \in Rows(Everyone),
         ToSet(list) = ToSet(c.waiting[e]) \cup {x}
  PROVE  LET m == [c EXCEPT !.waiting[e] = list]
         IN  /\ Loose(m, noting, x) /\ EventListed(m, x) /\ m.pending = c.pending
             /\ SameRest(m, c) /\ m.tcb = c.tcb
             /\ \A t \in Everyone : Exists(m, t) <=> Exists(c, t)
             /\ \A t \in Everyone : IsReady(m, t) <=> IsReady(c, t)
<1> DEFINE waiting == [c.waiting EXCEPT ![e] = list]  m == [c EXCEPT !.waiting = waiting]
<1>1. c \in KernelType /\ c.waiting \in [EventLists -> Rows(Everyone)]
  BY DEF Sound, KernelType
<1>2. [c EXCEPT !.waiting[e] = list] = m
  BY <1>1 DEF KernelType
<1>3. /\ waiting \in [EventLists -> Rows(Everyone)] /\ waiting[e] = list
      /\ \A f \in EventLists : f # e => waiting[f] = c.waiting[f]
  BY <1>1
<1> HIDE DEF waiting
<1>4. m \in KernelType
  BY <1>1, <1>3, Zenon DEF KernelType
<1>5. /\ SamePlaces(m, c) /\ SameRest(m, c) /\ m.pending = c.pending /\ m.waiting = waiting
      /\ m.tcb = c.tcb /\ m.top = c.top /\ m.next = c.next
  BY <1>1 DEF KernelType, SamePlaces, SameRest
<1> HIDE DEF m
<1>6. /\ \A p : Row(m, p) = Row(c, p)
      /\ \A t : Prio(m, t) = Prio(c, t) /\ (Exists(m, t) <=> Exists(c, t))
      /\ \A t : IsReady(m, t) <=> IsReady(c, t)
  BY <1>5 DEF Row, Prio, Exists, SamePlaces, IsReady
<1>7. Ordered(m) /\ Early(m)
  BY <1>5 DEF Ordered, Early, WakeTimes, Sound, SamePlaces
<1>8. ASSUME NEW t \in Everyone \ {x}
      PROVE  SameFor(m, c, t)
  <2>1. \A f \in EventLists : t \in ToSet(m.waiting[f]) <=> t \in ToSet(c.waiting[f])
    BY <1>3, <1>5
  <2> QED
    BY <1>5, <1>6, <2>1 DEF SameFor, SamePlaces
<1>9. c.top <= m.top
  BY <1>1, <1>5, TopOf
<1>10. Loose(m, noting, x)
  BY <1>4, <1>7, <1>8, <1>9, LooseFrom, LooseSame
<1>11. EventListed(m, x)
  <2>1. Listed(c, noting, x)
    BY DEF Sound
  <2>2. ~Awaits(c, x) /\ Exists(c, x)
    BY <2>1 DEF Listed, StateListed
  <2>3. \A f \in EventLists : x \in ToSet(m.waiting[f]) => f = e
    BY <1>3, <1>5, <2>2 DEF Awaits
  <2>4. x \notin ToSet(m.pending) /\ Exists(m, x)
    BY <1>5, <1>6, <2>2
  <2> QED
    BY <2>3, <2>4 DEF EventListed
<1> QED
  BY <1>2, <1>5, <1>6, <1>10, <1>11

LEMMA PlacedSteady ==
  ASSUME NEW c, NEW noting, Steady(c, noting), c.cur # Idle, IsReady(c, c.cur),
         c.cur \notin noting, NEW e \in EventLists, NEW list \in Rows(Everyone),
         ToSet(list) = ToSet(c.waiting[e]) \cup {c.cur}, NEW ticks \in Int, NEW indefinitely
  PROVE  Leaves(prvAddCurrentTaskToDelayedList([c EXCEPT !.waiting[e] = list], ticks, indefinitely),
                c, noting)
<1> DEFINE x == c.cur  m == [c EXCEPT !.waiting[e] = list]
           d == prvAddCurrentTaskToDelayedList(m, ticks, indefinitely)
<1>1. x \in Everyone /\ Sound(c, noting)
  BY DEF Steady
<1>2. Listed(c, noting, x)
  BY <1>1 DEF Sound
<1>3. x \notin ToSet(c.pending) /\ Exists(c, x) /\ (c.tcb[x].state = "waiting" => x \in noting)
  BY <1>2 DEF Listed, StateListed
<1>4. /\ Loose(m, noting, x) /\ EventListed(m, x) /\ m.pending = c.pending
      /\ SameRest(m, c) /\ m.tcb = c.tcb
      /\ \A t \in Everyone : Exists(m, t) <=> Exists(c, t)
      /\ \A t \in Everyone : IsReady(m, t) <=> IsReady(c, t)
  BY <1>1, <1>3, EventAdded
<1> HIDE DEF m
<1>5. x = m.cur /\ Exists(m, x) /\ (m.tcb[x].state = "waiting" => x \in noting)
  BY <1>1, <1>3, <1>4 DEF SameRest
<1>6. Parked(d, m, x, noting)
  BY <1>1, <1>4, <1>5, WaitSound
<1> HIDE DEF d
<1>7. Leaves(d, c, noting)
  BY <1>4, <1>6, ParkedSteady
<1> QED
  BY <1>7 DEF d, m

LEMMA PlaceSteady ==
  ASSUME NEW c, NEW noting, Steady(c, noting), c.cur # Idle, IsReady(c, c.cur),
         c.cur \notin noting, NEW e \in EventLists, NEW ticks \in Int
  PROVE  /\ Leaves(vTaskPlaceOnEventList(c, e, ticks), c, noting)
         /\ \A indefinitely \in BOOLEAN :
              Leaves(vTaskPlaceOnEventListRestricted(c, e, ticks, indefinitely), c, noting)
<1> DEFINE x == c.cur  value == [u \in DOMAIN c.tcb |-> c.tcb[u].value]
           list == vListInsert(c.waiting[e], x, value)
           last == Append(c.waiting[e], x)
<1>1. /\ c \in KernelType /\ x \in Everyone /\ c.waiting[e] \in Rows(Everyone)
      /\ x \notin ToSet(c.waiting[e])
  <2>1. Listed(c, noting, x)
    BY DEF Steady, Sound
  <2>2. ~Awaits(c, x)
    BY <2>1 DEF Listed
  <2> QED
    BY <2>2 DEF Steady, Sound, KernelType, Awaits
<1>2. value \in [Everyone -> Nat]
  <2>1. DOMAIN c.tcb = Everyone
    BY <1>1 DEF KernelType
  <2>2. \A t \in Everyone : c.tcb[t].value \in Nat
    BY <1>1, TcbOf, TasksAssumption
  <2> QED
    BY <2>1, <2>2
<1>3. vTaskPlaceOnEventList(c, e, ticks) = prvAddCurrentTaskToDelayedList([c EXCEPT !.waiting[e] = list], ticks, TRUE)
  BY <1>1 DEF vTaskPlaceOnEventList, KernelType
<1>4. \A indefinitely : vTaskPlaceOnEventListRestricted(c, e, ticks, indefinitely)
        = prvAddCurrentTaskToDelayedList([c EXCEPT !.waiting[e] = last],
            IF indefinitely THEN MAX_DELAY ELSE ticks, indefinitely)
  BY <1>1 DEF vTaskPlaceOnEventListRestricted, KernelType
<1> HIDE DEF value
<1>5. list \in Rows(Everyone) /\ ToSet(list) = ToSet(c.waiting[e]) \cup {x}
  BY <1>1, <1>2, ListInsert DEF Inserts
<1>6. last \in Rows(Everyone) /\ ToSet(last) = ToSet(c.waiting[e]) \cup {x}
  BY <1>1, Appended
<1> HIDE DEF list, last
<1>7. Leaves(vTaskPlaceOnEventList(c, e, ticks), c, noting)
  BY <1>3, <1>5, PlacedSteady
<1>8. ASSUME NEW indefinitely \in BOOLEAN
      PROVE  Leaves(vTaskPlaceOnEventListRestricted(c, e, ticks, indefinitely), c, noting)
  <2> DEFINE n == IF indefinitely THEN MAX_DELAY ELSE ticks
  <2>1. n \in Int
    BY TasksAssumption DEF MAX_DELAY
  <2> HIDE DEF n
  <2>2. vTaskPlaceOnEventListRestricted(c, e, ticks, indefinitely)
          = prvAddCurrentTaskToDelayedList([c EXCEPT !.waiting[e] = last], n, indefinitely)
    BY <1>4 DEF n
  <2> QED
    BY <1>6, <2>1, <2>2, PlacedSteady
<1> QED
  BY <1>7, <1>8

-----------------------------------------------------------------------------
(* A task that waits is told                                               *)

LEMMA InRow ==
  ASSUME NEW row \in Rows(Everyone), NEW x
  PROVE  Contains(row, x) <=> x \in ToSet(row)
<1>1. DOMAIN row = 1..Len(row)
  BY DEF Rows
<1> QED
  BY <1>1 DEF Contains, ToSet

LEMMA WhereIs ==
  ASSUME NEW c \in KernelType, NEW x \in Everyone
  PROVE  /\ InReadyList(c, x) <=> IsReady(c, x)
         /\ IsSuspended(c, x) <=> x \in ToSet(c.suspended)
         /\ IsDelayed(c, x) <=> x \in ToSet(c.delayed) \/ x \in ToSet(c.overflow)
         /\ HasEvent(c, x) <=> ~Eventless(c, x)
<1>1. /\ c.ready[Prio(c, x)].items \in Rows(Everyone)
      /\ c.delayed \in Rows(Everyone) /\ c.overflow \in Rows(Everyone)
      /\ c.suspended \in Rows(Everyone) /\ c.pending \in Rows(Everyone)
      /\ \A e \in EventLists : c.waiting[e] \in Rows(Everyone)
  BY TcbOf DEF KernelType, ReadyLists
<1>2. InReadyList(c, x) <=> IsReady(c, x)
  BY <1>1, InRow DEF InReadyList, IsReady, Row
<1>3. IsSuspended(c, x) <=> x \in ToSet(c.suspended)
  BY <1>1, InRow DEF IsSuspended
<1>4. IsDelayed(c, x) <=> x \in ToSet(c.delayed) \/ x \in ToSet(c.overflow)
  BY <1>1, InRow DEF IsDelayed
<1>5. HasEvent(c, x) <=> ~Eventless(c, x)
  BY <1>1, InRow DEF HasEvent, OnEventList, Eventless, Awaits
<1> QED
  BY <1>2, <1>3, <1>4, <1>5

LEMMA PendingAdded ==
  ASSUME NEW c, NEW noting, NEW x \in Everyone, Sound(c, noting), Eventless(c, x), Exists(c, x),
         IsReady(c, x) => x \in noting, x \notin ToSet(c.ended)
  PROVE  LET d == [c EXCEPT !.pending = Append(@, x)]
         IN  /\ Sound(d, noting) /\ SameReady(d, c) /\ SameRest(d, c) /\ d.tcb = c.tcb
             /\ Calm(d, c)
<1> DEFINE list == Append(c.pending, x)  d == [c EXCEPT !.pending = list]
<1>1. c \in KernelType
  BY DEF Sound
<1>2. list \in Rows(Everyone) /\ ToSet(list) = ToSet(c.pending) \cup {x}
  <2>1. c.pending \in Rows(Everyone) /\ x \notin ToSet(c.pending)
    BY <1>1 DEF KernelType, Eventless
  <2> QED
    BY <2>1, Appended
<1>0. [c EXCEPT !.pending = Append(@, x)] = d
  BY <1>1 DEF KernelType
<1> HIDE DEF list
<1>3. d \in KernelType
  BY <1>1, <1>2, Zenon DEF KernelType
<1>4. /\ SamePlaces(d, c) /\ SameRest(d, c) /\ d.pending = list /\ d.waiting = c.waiting
      /\ d.tcb = c.tcb /\ d.top = c.top /\ d.next = c.next
  BY <1>1 DEF KernelType, SamePlaces, SameRest
<1> HIDE DEF d
<1>5. /\ \A p : Row(d, p) = Row(c, p)
      /\ \A t : Prio(d, t) = Prio(c, t) /\ (Exists(d, t) <=> Exists(c, t)) /\ (Awaits(d, t) <=> Awaits(c, t))
      /\ \A t : IsReady(d, t) <=> IsReady(c, t)
  BY <1>4 DEF Row, Prio, Exists, Awaits, SamePlaces, IsReady
<1>6. Ordered(d) /\ Early(d)
  BY <1>4 DEF Ordered, Early, WakeTimes, Sound, SamePlaces
<1>7. \A t \in Everyone \ {x} : SameFor(d, c, t)
  BY <1>2, <1>4, <1>5 DEF SameFor, SamePlaces
<1>8. c.top <= d.top
  BY <1>1, <1>4, TopOf
<1>9. Loose(d, noting, x)
  BY <1>3, <1>6, <1>7, <1>8, LooseFrom, LooseSame
<1>10. Listed(d, noting, x)
  <2>1. Listed(c, noting, x) /\ ~Awaits(c, x)
    BY DEF Sound, Eventless
  <2>2. StateListed(d, x)
    BY <1>4, <1>5, <2>1 DEF Listed, StateListed, SamePlaces
  <2>3. EventListed(d, x)
    BY <1>5, <2>1 DEF EventListed, Awaits
  <2> QED
    BY <1>4, <1>5, <2>1, <2>2, <2>3 DEF Listed, SamePlaces
<1>11. Sound(d, noting)
  BY <1>9, <1>10, SoundAgain
<1>12. Calm(d, c)
  BY <1>1, <1>4, CalmSame DEF SamePlaces
<1> QED
  BY <1>0, <1>4, <1>5, <1>11, <1>12 DEF SameReady

\* With the scheduler locked a task is put aside.
LEMMA AsideGains ==
  ASSUME NEW c, NEW d, NEW noting, Steady(c, noting), c.locked = 1, Sound(d, noting),
         SameReady(d, c), SameRest(d, c), d.tcb = c.tcb, Calm(d, c)
  PROVE  Gains(d, c, noting)
<1>1. {t \in Everyone : Exists(d, t)} = {t \in Everyone : Exists(c, t)}
  BY DEF Exists
<1>2. d.cur = c.cur /\ d.locked = c.locked /\ d.number = c.number
  BY DEF SameRest
<1>3. KeepsReady(d, c) /\ IsReady(d, Idle)
  BY DEF SameReady, KeepsReady, Steady, Everyone
<1> QED
  BY <1>1, <1>2, <1>3 DEF Steady, Gains, Passes

LEMMA ReleaseGains ==
  ASSUME NEW c, NEW noting, Steady(c, noting), NEW x \in Everyone, Exists(c, x), ~IsReady(c, x),
         x \notin ToSet(c.ended)
  PROVE  Gains(Release(c, x), c, noting)
<1>1. c.locked \in {0, 1}
  BY DEF Steady
<1>2. CASE c.locked = 0
  <2> DEFINE m == Readied(c, x)
  <2>1. Gains(m, c, noting)
    BY ReadiedGains
  <2>2. Release(c, x) = IF "tickless" \in c.has THEN prvResetNextTaskUnblockTime(m) ELSE m
    BY <1>2 DEF Release
  <2> HIDE DEF m
  <2>3. Gains(prvResetNextTaskUnblockTime(m), m, noting)
    BY <2>1, ResetGains DEF Gains, Passes
  <2> QED
    BY <2>1, <2>2, <2>3, GainsTwice
<1>3. CASE c.locked = 1
  <2> DEFINE m == OffEventList(c, x)  d == [m EXCEPT !.pending = Append(@, x)]
  <2>1. OffEvents(m, c, x)
    BY OffEventListed DEF Steady, Sound
  <2>2. Release(c, x) = d
    BY <1>3 DEF Release
  <2> HIDE DEF m
  <2>3. Sound(m, noting) /\ Eventless(m, x)
    BY <2>1, OffEventsSound DEF Steady
  <2>4. SameReady(m, c) /\ SameRest(m, c) /\ m.tcb = c.tcb
    BY <2>1 DEF OffEvents, SamePlaces, SameReady, IsReady, Row, Prio
  <2>5. Exists(m, x) /\ ~IsReady(m, x) /\ x \notin ToSet(m.ended)
    BY <2>1, <2>4 DEF Exists, SameReady, OffEvents, SamePlaces
  <2>6. Sound(d, noting) /\ SameReady(d, m) /\ SameRest(d, m) /\ d.tcb = m.tcb /\ Calm(d, m)
    BY <2>3, <2>5, PendingAdded
  <2> HIDE DEF d
  <2>7. SameReady(d, c) /\ SameRest(d, c) /\ d.tcb = c.tcb
    BY <2>4, <2>6 DEF SameReady, SameRest
  <2>8. Calm(d, c)
    <3>1. Calm(m, c)
      BY <2>1, CalmSame DEF OffEvents, SamePlaces, Steady, Sound
    <3> QED
      BY <2>6, <3>1, CalmTwice
  <2> QED
    BY <1>3, <2>2, <2>6, <2>7, <2>8, AsideGains
<1> QED
  BY <1>1, <1>2, <1>3

LEMMA RemovedGains ==
  ASSUME NEW c, NEW noting, Steady(c, noting), NEW e \in EventLists, c.waiting[e] # <<>>
  PROVE  Gains(xTaskRemoveFromEventList(c, e), c, noting)
<1> DEFINE x == Head(c.waiting[e])  m == Release(c, x)  b == m.yield \/ WakesHigher(c, e)
<1>1. c.waiting[e] \in Rows(Everyone)
  BY DEF Steady, Sound, KernelType
<1>2. x \in ToSet(c.waiting[e]) /\ x \in Everyone
  BY <1>1, TailRemoved
<1>3. Exists(c, x) /\ ~IsReady(c, x) /\ x \notin ToSet(c.ended)
  BY <1>2 DEF Steady, Sound, Listed, EventListed, Eventless, Awaits
<1>4. xTaskRemoveFromEventList(c, e) = [m EXCEPT !.yield = b]
  BY DEF xTaskRemoveFromEventList
<1>5. Gains(m, c, noting)
  BY <1>2, <1>3, ReleaseGains
<1>6. b \in BOOLEAN
  <2>1. m.yield \in BOOLEAN
    BY <1>5 DEF Gains, Passes, Steady, Sound, KernelType
  <2> QED
    BY <2>1 DEF WakesHigher
<1> HIDE DEF m, b
<1>7. Gains([m EXCEPT !.yield = b], m, noting)
  BY <1>5, <1>6, YieldGains DEF Gains, Passes
<1> QED
  BY <1>4, <1>5, <1>7, GainsTwice

-----------------------------------------------------------------------------
(* Suspension, deletion, creation                                          *)

\* The same task runs, and the tasks that were ready are; and none starts to wait.
Holds(d, c, noting) ==
  Steady(d, noting) /\ d.cur = c.cur /\ d.locked = c.locked /\ KeepsReady(d, c)
Keeps(d, c, noting) == Holds(d, c, noting) /\ Calm(d, c)

LEMMA GainsKeeps ==
  ASSUME NEW c, NEW d, NEW noting, Gains(d, c, noting)
  PROVE  Keeps(d, c, noting)
BY DEF Gains, Passes, Keeps, Holds

LEMMA KeepsTwice ==
  ASSUME NEW c, NEW d, NEW e, NEW noting, Keeps(d, c, noting), Keeps(e, d, noting)
  PROVE  Keeps(e, c, noting)
BY CalmTwice DEF Keeps, Holds, KeepsReady

LEMMA KeepsSelf ==
  ASSUME NEW c, NEW noting, Steady(c, noting)
  PROVE  Keeps(c, c, noting)
BY CalmSelf DEF Keeps, Holds, KeepsReady

LEMMA TcbKeeps ==
  ASSUME NEW c, NEW noting, Steady(c, noting), NEW x \in Everyone, NEW r \in Tcbs,
         r.priority = c.tcb[x].priority, r.wake = c.tcb[x].wake,
         r.state = "none" <=> c.tcb[x].state = "none",
         r.state = "waiting" => x \in noting /\ x \notin ToSet(c.ended)
  PROVE  LET d == [c EXCEPT !.tcb = [c.tcb EXCEPT ![x] = r]]
         IN  /\ Keeps(d, c, noting) /\ SameReady(d, c) /\ SamePlaces(d, c) /\ SameEvents(d, c)
             /\ SameRest(d, c) /\ d.tcb[x] = r /\ \A t \in Everyone \ {x} : d.tcb[t] = c.tcb[t]
<1> DEFINE d == [c EXCEPT !.tcb = [c.tcb EXCEPT ![x] = r]]
<1>1. c \in KernelType
  BY DEF Steady, Sound
<1>2. /\ d \in KernelType /\ d.tcb[x] = r /\ \A t \in Everyone \ {x} : d.tcb[t] = c.tcb[t]
      /\ SamePlaces(d, c) /\ SameEvents(d, c) /\ SameRest(d, c)
      /\ d.top = c.top /\ d.next = c.next
  BY <1>1, TcbChanged
<1> HIDE DEF d
<1>3. SameTcbs(d, c, noting)
  <2> SUFFICES ASSUME NEW t \in Everyone
               PROVE  /\ d.tcb[t].priority = c.tcb[t].priority /\ d.tcb[t].wake = c.tcb[t].wake
                      /\ Exists(d, t) <=> Exists(c, t)
                      /\ d.tcb[t].state = "waiting" => t \in noting /\ t \notin ToSet(c.ended)
    BY DEF SameTcbs
  <2>1. CASE t = x
    BY <1>2, <2>1 DEF Exists
  <2>2. CASE t # x
    BY <1>2, <2>2 DEF Exists, Steady, Sound, Listed
  <2> QED
    BY <2>1, <2>2
<1>4. d.next <= c.next
  <2>1. c.next \in Nat
    BY <1>1 DEF KernelType
  <2> QED
    BY <1>2, <2>1
<1>5. Quiet(d, c, noting)
  BY <1>2, <1>3, <1>4 DEF Quiet, SameRest
<1>6. Steady(d, noting) /\ SameReady(d, c)
  BY <1>5, QuietSteady
<1>7. Calm(d, c)
  BY <1>1, <1>2, <1>3, CalmSame DEF SameTcbs, SamePlaces
<1>8. Keeps(d, c, noting)
  BY <1>2, <1>6, <1>7 DEF Keeps, Holds, SameReady, KeepsReady, SameRest
<1> QED
  BY <1>2, <1>6, <1>8 DEF d

LEMMA AbortKeeps ==
  ASSUME NEW c, NEW noting, Steady(c, noting), NEW x \in Everyone
  PROVE  Keeps(xTaskAbortDelay(c, x), c, noting)
<1> DEFINE m == Readied(c, x)
           b == m.tcb[x].aborted \/ HasEvent(c, x)
           r == [m.tcb[x] EXCEPT !.aborted = b]
           e == [m EXCEPT !.tcb = [m.tcb EXCEPT ![x] = r]]
           y == m.yield \/ Prio(c, x) > CurPrio(c)
<1>1. CASE eTaskGetState(c, x) # "blocked"
  BY <1>1, KeepsSelf DEF xTaskAbortDelay
<1>2. CASE eTaskGetState(c, x) = "blocked"
  <2>1. Exists(c, x) /\ c \in KernelType
    <3>1. c \in KernelType /\ StateListed(c, x)
      BY DEF Steady, Sound, Listed
    <3>2. IsDelayed(c, x) \/ IsSuspended(c, x)
      BY <1>2 DEF eTaskGetState
    <3> QED
      BY <3>1, <3>2, WhereIs DEF StateListed
  <2>2. Gains(m, c, noting)
    BY <2>1, ReadiedGains
  <2>3. xTaskAbortDelay(c, x) = [m EXCEPT !.tcb[x].aborted = b, !.yield = y]
    BY <1>2 DEF xTaskAbortDelay
  <2> HIDE DEF m
  <2>4. m \in KernelType /\ Steady(m, noting)
    BY <2>2 DEF Gains, Passes, Steady, Sound
  <2>5. m.tcb[x] \in Tcbs /\ b \in BOOLEAN /\ y \in BOOLEAN
    <3>1. m.tcb[x] \in Tcbs /\ m.yield \in BOOLEAN
      BY <2>4, TcbOf DEF KernelType
    <3>2. m.tcb[x].aborted \in BOOLEAN
      BY <3>1 DEF Tcbs
    <3>3. HasEvent(c, x) \in BOOLEAN
      BY DEF HasEvent, Contains, OnEventList
    <3> QED
      BY <3>1, <3>2, <3>3
  <2>6. [m EXCEPT !.tcb[x].aborted = b, !.yield = y] = [e EXCEPT !.yield = y]
    BY <2>4 DEF KernelType
  <2> HIDE DEF b, y
  <2>7. /\ r \in Tcbs /\ r.priority = m.tcb[x].priority /\ r.wake = m.tcb[x].wake
        /\ r.state = m.tcb[x].state
    BY <2>5 DEF Tcbs
  <2> HIDE DEF r
  <2>8. r.state = "waiting" => x \in noting /\ x \notin ToSet(m.ended)
    BY <2>4, <2>7 DEF Steady, Sound, Listed
  <2>9. Keeps(e, m, noting)
    BY <2>4, <2>7, <2>8, TcbKeeps
  <2> HIDE DEF e
  <2>10. Gains([e EXCEPT !.yield = y], e, noting)
    BY <2>5, <2>9, YieldGains DEF Keeps, Holds
  <2>11. Keeps([e EXCEPT !.yield = y], m, noting)
    BY <2>9, <2>10, GainsKeeps, KeepsTwice
  <2>12. Keeps([e EXCEPT !.yield = y], c, noting)
    BY <2>2, <2>11, GainsKeeps, KeepsTwice
  <2> QED
    BY <2>3, <2>6, <2>12
<1> QED
  BY <1>1, <1>2

\* Only x may have left the ready tasks.
Drops(d, c, x, noting) ==
  /\ Steady(d, noting) /\ d.cur = c.cur /\ d.locked = c.locked /\ Calm(d, c)
  /\ \A t \in Everyone \ {x} : IsReady(c, t) => IsReady(d, t)

LEMMA DropsSteady ==
  ASSUME NEW c, NEW d, NEW x, NEW noting, Steady(c, noting), Sound(d, noting), x # Idle,
         SameNumber(d, c), d.locked = c.locked, d.cur = c.cur, c.pending = <<>> => d.pending = <<>>,
         \A t \in Everyone \ {x} : IsReady(c, t) => IsReady(d, t), Calm(d, c)
  PROVE  Drops(d, c, x, noting)
<1>1. {t \in Everyone : Exists(d, t)} = {t \in Everyone : Exists(c, t)}
  BY DEF SameNumber
<1>2. IsReady(d, Idle)
  BY DEF Steady, Everyone
<1> QED
  BY <1>1, <1>2 DEF Steady, Drops, SameNumber

LEMMA SuspendDrops ==
  ASSUME NEW c, NEW noting, Steady(c, noting), NEW x \in Everyone, x # Idle, Exists(c, x)
  PROVE  Drops(vTaskSuspend(c, x), c, x, noting)
<1> DEFINE m == Unlisted(c, x)
           e == [m EXCEPT !.suspended = Append(@, x)]
           r == [e.tcb[x] EXCEPT !.state = IF @ = "waiting" THEN "not waiting" ELSE @]
           d == [e EXCEPT !.tcb = [e.tcb EXCEPT ![x] = r]]
<1>1. Loose(m, noting, x) /\ Stateless(m, x) /\ Eventless(m, x) /\ Off(m, c, x)
  BY LooseFrom, UnlistedLoose DEF Steady
<1>2. vTaskSuspend(c, x) = [m EXCEPT !.suspended = Append(@, x),
                                     !.tcb[x].state = IF @ = "waiting" THEN "not waiting" ELSE @]
  BY DEF vTaskSuspend
<1> HIDE DEF m
<1>3. m \in KernelType /\ m.tcb = c.tcb /\ c \in KernelType
  BY <1>1 DEF Loose, Off, Steady, Sound
<1>4. vTaskSuspend(c, x) = d
  BY <1>2, <1>3 DEF KernelType
<1>5. Exists(m, x) /\ EventListed(m, x) /\ (m.tcb[x].state = "waiting" => x \in noting)
  BY <1>1, <1>3 DEF Exists, Eventless, EventListed, Awaits, Steady, Sound, Listed
<1>6. /\ Sound(e, noting) /\ SameEvents(e, m) /\ SameRest(e, m) /\ e.tcb = m.tcb
      /\ \A p : Row(e, p) = Row(m, p)
  BY <1>1, <1>5, SuspendedSound
<1>15. /\ e.delayed = m.delayed /\ e.overflow = m.overflow /\ e.next = m.next
  BY <1>3 DEF KernelType
<1> HIDE DEF e
<1>16. Calm(e, c)
  BY <1>1, <1>3, <1>6, <1>15, CalmSame DEF Off, SameRest
<1>7. c.pending = <<>> => e.pending = <<>>
  <2>1. e \in KernelType /\ ToSet(e.pending) \subseteq ToSet(c.pending)
    BY <1>1, <1>6 DEF Off, SameEvents, Sound
  <2> QED
    BY <1>3, <2>1, NothingPending
<1>8. SameNumber(e, c) /\ e.locked = c.locked /\ e.cur = c.cur
  BY <1>1, <1>6 DEF SameNumber, Off, SameRest, Exists
<1>9. ASSUME NEW t \in Everyone \ {x}, IsReady(c, t)
      PROVE  IsReady(e, t)
  <2>1. Prio(c, t) \in Priorities /\ Prio(e, t) = Prio(c, t)
    BY <1>3, <1>6, TcbOf DEF Prio
  <2> QED
    BY <1>1, <1>6, <1>9, <2>1 DEF IsReady, Off
<1>10. Drops(e, c, x, noting)
  BY <1>6, <1>7, <1>8, <1>9, <1>16, DropsSteady
<1>11. e \in KernelType /\ Steady(e, noting)
  BY <1>10 DEF Drops, Steady, Sound
<1>12. /\ r \in Tcbs /\ r.priority = e.tcb[x].priority /\ r.wake = e.tcb[x].wake
       /\ (r.state = "none" <=> e.tcb[x].state = "none") /\ r.state # "waiting"
  <2>1. e.tcb[x] \in Tcbs
    BY <1>11, TcbOf
  <2> QED
    BY <2>1 DEF Tcbs, NoteStates
<1> HIDE DEF r
<1>13. Keeps(d, e, noting)
  BY <1>11, <1>12, TcbKeeps
<1> HIDE DEF d
<1>14. Drops(d, c, x, noting)
  BY <1>10, <1>13, CalmTwice DEF Drops, Keeps, Holds, KeepsReady
<1> QED
  BY <1>4, <1>14

\* A task that was taken off its state list becomes ready.
LEMMA ReaddedKeeps ==
  ASSUME NEW c, NEW m, NEW noting, NEW x \in Everyone, Steady(c, noting), Loose(m, noting, x),
         Stateless(m, x), Exists(m, x), ~Awaits(m, x), x \in ToSet(m.pending) => x \in noting,
         m.tcb[x].state = "waiting" => x \in noting, SameRest(m, c), Calm(m, c),
         c.pending = <<>> => m.pending = <<>>,
         \A t \in Everyone : Exists(m, t) <=> Exists(c, t),
         \A t \in Everyone \ {x} : IsReady(c, t) => IsReady(m, t)
  PROVE  Keeps(prvAddTaskToReadyList(m, x), c, noting) /\ IsReady(prvAddTaskToReadyList(m, x), x)
<1> DEFINE d == prvAddTaskToReadyList(m, x)
<1>1. m \in KernelType /\ Prio(m, x) \in Priorities
  BY TcbOf DEF Loose
<1>2. Added(d, m, x)
  BY <1>1, AddedToRow DEF Stateless
<1> HIDE DEF d
<1>3. Sound(d, noting) /\ IsReady(d, x)
  BY <1>2, AddedSound
<1>4. ASSUME NEW t \in Everyone \ {x}, IsReady(m, t)
      PROVE  IsReady(d, t)
  <2>1. Prio(m, t) \in Priorities /\ Prio(d, t) = Prio(m, t)
    BY <1>1, <1>2, TcbOf DEF Prio, Added
  <2>2. t \in Row(d, Prio(m, t))
    BY <1>2, <1>4, <2>1 DEF Added, IsReady
  <2> QED
    BY <2>1, <2>2 DEF IsReady
<1>5. KeepsReady(d, c)
  BY <1>3, <1>4 DEF KeepsReady
<1>6. SameNumber(d, c) /\ d.locked = c.locked /\ d.cur = c.cur
  BY <1>2 DEF SameNumber, Added, SameRest, Exists
<1>7. c.pending = <<>> => d.pending = <<>>
  BY <1>2 DEF Added, SameEvents
<1>8. Steady(d, noting)
  BY <1>3, <1>5, <1>6, <1>7, SteadyKept
<1>9. Calm(d, c)
  <2>1. Calm(d, m)
    BY <1>1, <1>2, CalmSame DEF Added
  <2> QED
    BY <2>1, CalmTwice
<1> QED
  BY <1>3, <1>5, <1>6, <1>8, <1>9 DEF Keeps, Holds, d

LEMMA WokenKeeps ==
  ASSUME NEW c, NEW noting, Steady(c, noting), NEW x \in Everyone, prvTaskIsTaskSuspended(c, x)
  PROVE  Keeps(prvAddTaskToReadyList(OffStateList(c, x), x), c, noting)
<1> DEFINE m == OffStateList(c, x)
<1>1. c \in KernelType /\ Listed(c, noting, x)
  BY DEF Steady, Sound
<1>2. x \in ToSet(c.suspended) /\ Eventless(c, x)
  BY <1>1, WhereIs DEF prvTaskIsTaskSuspended
<1>3. OffState(m, c, x)
  BY <1>1, OffStateListed
<1> HIDE DEF m
<1>4. Loose(m, noting, x) /\ Stateless(m, x)
  BY <1>3, LooseFrom, OffStateLoose DEF Steady
<1>5. \A t : Exists(m, t) <=> Exists(c, t)
  BY <1>3 DEF OffState, Exists
<1>6. Exists(m, x) /\ Eventless(m, x) /\ (m.tcb[x].state = "waiting" => x \in noting)
  <2>1. Exists(c, x)
    BY <1>1, <1>2 DEF Listed, StateListed
  <2> QED
    BY <1>1, <1>2, <1>3, <1>5, <2>1 DEF OffState, SameEvents, Eventless, Awaits, Listed
<1>7. ASSUME NEW t \in Everyone \ {x}, IsReady(c, t)
      PROVE  IsReady(m, t)
  <2>1. Prio(c, t) \in Priorities /\ Prio(m, t) = Prio(c, t)
    BY <1>1, <1>3, TcbOf DEF Prio, OffState
  <2> QED
    BY <1>3, <1>7, <2>1 DEF IsReady, OffState
<1>8. SameRest(m, c) /\ Calm(m, c) /\ m.pending = c.pending
  BY <1>1, <1>3, CalmSame DEF OffState, SameEvents
<1>9. /\ ~Awaits(m, x) /\ (x \in ToSet(m.pending) => x \in noting)
      /\ (c.pending = <<>> => m.pending = <<>>)
  BY <1>6, <1>8 DEF Eventless
<1>10. Keeps(prvAddTaskToReadyList(m, x), c, noting)
  BY <1>4, <1>5, <1>6, <1>7, <1>8, <1>9, ReaddedKeeps
<1> QED
  BY <1>10 DEF m

LEMMA ResumeKeeps ==
  ASSUME NEW c, NEW noting, Steady(c, noting), NEW x \in Everyone
  PROVE  Keeps(vTaskResume(c, x), c, noting)
BY WokenKeeps, KeepsSelf DEF vTaskResume

LEMMA ResumeFromISRKeeps ==
  ASSUME NEW c, NEW noting, Steady(c, noting), NEW x \in Everyone
  PROVE  Keeps(xTaskResumeFromISR(c, x), c, noting)
<1>1. CASE ~prvTaskIsTaskSuspended(c, x)
  BY <1>1, KeepsSelf DEF xTaskResumeFromISR
<1>2. CASE prvTaskIsTaskSuspended(c, x) /\ c.locked = 0
  BY <1>2, WokenKeeps DEF xTaskResumeFromISR
<1>3. CASE prvTaskIsTaskSuspended(c, x) /\ c.locked # 0
  <2> DEFINE d == [c EXCEPT !.pending = Append(@, x)]
  <2>1. c \in KernelType /\ StateListed(c, x) /\ Sound(c, noting) /\ c.locked = 1
    BY <1>3 DEF Steady, Sound, Listed
  <2>2. x \in ToSet(c.suspended) /\ Eventless(c, x)
    BY <1>3, <2>1, WhereIs DEF prvTaskIsTaskSuspended
  <2>3. Exists(c, x) /\ ~IsReady(c, x) /\ x \notin ToSet(c.ended)
    BY <2>1, <2>2 DEF StateListed
  <2>4. /\ Sound(d, noting) /\ SameReady(d, c) /\ SameRest(d, c) /\ d.tcb = c.tcb /\ Calm(d, c)
    BY <2>1, <2>2, <2>3, PendingAdded
  <2>5. xTaskResumeFromISR(c, x) = d
    BY <1>3 DEF xTaskResumeFromISR
  <2> HIDE DEF d
  <2>6. Gains(d, c, noting)
    BY <2>1, <2>4, AsideGains
  <2> QED
    BY <2>5, <2>6, GainsKeeps
<1> QED
  BY <1>1, <1>2, <1>3

\* A task that deletes itself is put where the idle task finds it.
LEMMA EndedDrops ==
  ASSUME NEW c, NEW noting, Steady(c, noting), c.cur # Idle, Exists(c, c.cur), c.cur \notin noting
  PROVE  Drops(vTaskDelete(c, c.cur), c, c.cur, noting)
<1> DEFINE x == c.cur  m == Unlisted(c, x)
           list == Append(m.ended, x)  n == m.unclean + 1
           d == [m EXCEPT !.ended = list, !.unclean = n]
<1>1. x \in Everyone /\ c \in KernelType /\ Sound(c, noting)
  BY DEF Steady, Sound
<1>2. Loose(m, noting, x) /\ Stateless(m, x) /\ Eventless(m, x) /\ Off(m, c, x)
  BY <1>1, LooseFrom, UnlistedLoose
<1>3. vTaskDelete(c, x) = [m EXCEPT !.ended = Append(@, x), !.unclean = @ + 1]
  BY DEF vTaskDelete
<1> HIDE DEF m, x
<1>4. m \in KernelType
  BY <1>2 DEF Loose
<1>5. vTaskDelete(c, x) = d
  BY <1>3, <1>4 DEF KernelType
<1>6. list \in Rows(Everyone) /\ ToSet(list) = ToSet(m.ended) \cup {x} /\ n \in Int
  <2>1. m.ended \in Rows(Everyone) /\ x \notin ToSet(m.ended) /\ m.unclean \in Int
    BY <1>2, <1>4 DEF KernelType, Stateless
  <2> QED
    BY <1>1, <2>1, Appended
<1> HIDE DEF list, n
<1>7. d \in KernelType
  BY <1>4, <1>6, Zenon DEF KernelType
<1>8. /\ d.ready = m.ready /\ d.delayed = m.delayed /\ d.overflow = m.overflow
      /\ d.suspended = m.suspended /\ d.ended = list /\ SameEvents(d, m) /\ SameRest(d, m)
      /\ d.tcb = m.tcb /\ d.top = m.top /\ d.next = m.next
  BY <1>4 DEF KernelType, SameEvents, SameRest
<1> HIDE DEF d
<1>9. /\ \A p : Row(d, p) = Row(m, p)
      /\ \A t : Prio(d, t) = Prio(m, t) /\ (Exists(d, t) <=> Exists(m, t)) /\ (Awaits(d, t) <=> Awaits(m, t))
  BY <1>8 DEF Row, Prio, Exists, Awaits, SameEvents
<1>10. Ordered(d) /\ Early(d)
  BY <1>2, <1>8 DEF Ordered, Early, WakeTimes, Loose
<1>11. \A t \in Everyone \ {x} : SameFor(d, m, t)
  BY <1>6, <1>8, <1>9 DEF SameFor, SameEvents
<1>12. m.top <= d.top
  BY <1>4, <1>8, TopOf
<1>13. Loose(d, noting, x)
  BY <1>2, <1>7, <1>10, <1>11, <1>12, LooseSame
<1>14. Exists(d, x) /\ d.tcb[x].state # "waiting"
  BY <1>1, <1>2, <1>8 DEF Exists, Off, Sound, Listed, x
<1>15. Listed(d, noting, x)
  <2>1. Prio(d, x) \in Priorities
    BY <1>1, <1>7, TcbOf
  <2>2. ~IsReady(d, x) /\ \A p \in Priorities : x \notin Row(d, p)
    BY <1>2, <1>9, <2>1 DEF Stateless, IsReady
  <2>3. StateListed(d, x)
    BY <1>2, <1>6, <1>8, <1>14, <2>2 DEF StateListed, Stateless
  <2>4. EventListed(d, x) /\ Eventless(d, x)
    BY <1>2, <1>8, <1>9 DEF EventListed, Eventless, SameEvents, Awaits
  <2> QED
    BY <1>14, <2>2, <2>3, <2>4 DEF Listed
<1>16. Sound(d, noting)
  BY <1>13, <1>15, SoundAgain
<1>17. c.pending = <<>> => d.pending = <<>>
  <2>1. ToSet(d.pending) \subseteq ToSet(c.pending)
    BY <1>2, <1>8 DEF Off, SameEvents
  <2> QED
    BY <1>1, <1>7, <2>1, NothingPending
<1>18. SameNumber(d, c) /\ d.locked = c.locked /\ d.cur = c.cur
  BY <1>2, <1>8 DEF SameNumber, Off, SameRest, Exists
<1>19. ASSUME NEW t \in Everyone \ {x}, IsReady(c, t)
       PROVE  IsReady(d, t)
  <2>1. Prio(c, t) \in Priorities /\ Prio(d, t) = Prio(c, t)
    BY <1>1, <1>2, <1>9, TcbOf DEF Prio, Off
  <2> QED
    BY <1>2, <1>9, <1>19, <2>1 DEF IsReady, Off
<1>21. Calm(d, c)
  BY <1>1, <1>2, <1>8, CalmSame DEF Off, SameRest
<1>20. Drops(d, c, x, noting)
  BY <1>16, <1>17, <1>18, <1>19, <1>21, DropsSteady DEF x
<1> QED
  BY <1>5, <1>20 DEF x

LEMMA FewTasks == IsFiniteSet(Everyone)
BY KernelAssumption, FS_AddElement DEF Everyone

LEMMA NoTcbType == NoTcb \in Tcbs /\ NoTcb.state = "none"
<1>1. EventValue(0) \in 1..configMAX_PRIORITIES /\ 0 \in Priorities
  BY TasksAssumption DEF EventValue, Priorities
<1> QED
  BY <1>1 DEF NoTcb, Tcbs, NoteStates

\* A task that is in no list ceases to exist.
LEMMA GoneSound ==
  ASSUME NEW m, NEW noting, NEW x \in Everyone, Loose(m, noting, x), Stateless(m, x), Eventless(m, x),
         NEW n \in Int, NEW u \in Int
  PROVE  LET d == [m EXCEPT !.number = n, !.unclean = u, !.tcb = [m.tcb EXCEPT ![x] = NoTcb]]
         IN  /\ Sound(d, noting \ {x}) /\ SamePlaces(d, m) /\ SameEvents(d, m)
             /\ d.cur = m.cur /\ d.locked = m.locked /\ d.number = n /\ Calm(d, m)
             /\ \A t \in Everyone : Exists(d, t) <=> t # x /\ Exists(m, t)
             /\ \A t \in Everyone \ {x} : IsReady(d, t) <=> IsReady(m, t)
<1> DEFINE a == [m EXCEPT !.tcb = [m.tcb EXCEPT ![x] = NoTcb]]
           d == [m EXCEPT !.number = n, !.unclean = u, !.tcb = [m.tcb EXCEPT ![x] = NoTcb]]
<1>1. m \in KernelType
  BY DEF Loose
<1>2. /\ a \in KernelType /\ a.tcb[x] = NoTcb /\ \A t \in Everyone \ {x} : a.tcb[t] = m.tcb[t]
      /\ SamePlaces(a, m) /\ SameEvents(a, m) /\ SameRest(a, m)
      /\ a.top = m.top /\ a.next = m.next
  BY <1>1, NoTcbType, TcbChanged
<1>3. d = [a EXCEPT !.number = n, !.unclean = u]
  BY <1>1 DEF KernelType
<1> HIDE DEF a, d
<1>4. d \in KernelType
  BY <1>2, <1>3, Zenon DEF KernelType
<1>5. /\ SamePlaces(d, a) /\ SameEvents(d, a) /\ d.cur = a.cur /\ d.locked = a.locked
      /\ d.number = n /\ d.tcb = a.tcb /\ d.top = a.top /\ d.next = a.next
  BY <1>2, <1>3 DEF KernelType, SamePlaces, SameEvents
<1>17. /\ d.tick = m.tick /\ d.overflows = m.overflows /\ d.missed = m.missed
  BY <1>2, <1>3 DEF KernelType, SameRest
<1>6. /\ SamePlaces(d, m) /\ SameEvents(d, m) /\ d.cur = m.cur /\ d.locked = m.locked
      /\ d.top = m.top /\ d.next = m.next
      /\ d.tcb[x] = NoTcb /\ \A t \in Everyone \ {x} : d.tcb[t] = m.tcb[t]
  BY <1>2, <1>5 DEF SamePlaces, SameEvents, SameRest
<1>7. /\ \A p : Row(d, p) = Row(m, p)
      /\ \A t \in Everyone \ {x} : Prio(d, t) = Prio(m, t) /\ (IsReady(d, t) <=> IsReady(m, t))
      /\ \A t \in Everyone : Exists(d, t) <=> t # x /\ Exists(m, t)
  <2>1. \A p : Row(d, p) = Row(m, p)
    BY <1>6 DEF Row, SamePlaces
  <2>2. \A t \in Everyone \ {x} : Prio(d, t) = Prio(m, t)
    BY <1>6 DEF Prio
  <2>3. \A t \in Everyone : Exists(d, t) <=> t # x /\ Exists(m, t)
    BY <1>6, NoTcbType DEF Exists
  <2> QED
    BY <2>1, <2>2, <2>3 DEF IsReady
<1>8. ToSet(m.delayed) \subseteq Everyone \ {x} /\ ToSet(m.overflow) \subseteq Everyone \ {x}
  BY <1>1, InEveryone DEF KernelType, Stateless
<1>18. Calm(d, m)
  BY <1>6, <1>8, <1>17 DEF Calm, SamePlaces
<1>9. Ordered(d) /\ Early(d)
  <2>1. \A t \in Everyone \ {x} : WakeTimes(m)[t] = WakeTimes(d)[t]
    BY <1>6 DEF WakeTimes
  <2>2. m.delayed \in Rows(Everyone) /\ m.overflow \in Rows(Everyone)
    BY <1>1 DEF KernelType
  <2>3. Rising(m.delayed, WakeTimes(m)) /\ Rising(m.overflow, WakeTimes(m))
    BY DEF Loose, Ordered
  <2>4. Rising(m.delayed, WakeTimes(d)) /\ Rising(m.overflow, WakeTimes(d))
    BY <1>8, <2>1, <2>2, <2>3, RisingSame
  <2>5. Early(d)
    BY <1>6, <1>8 DEF Early, Loose, SamePlaces
  <2> QED
    BY <1>6, <2>4, <2>5 DEF Ordered, SamePlaces
<1>10. \A t \in Everyone \ {x} : SameFor(d, m, t)
  BY <1>6, <1>7 DEF SameFor, SamePlaces, SameEvents
<1>11. m.top <= d.top
  BY <1>1, <1>6, TopOf
<1>12. Loose(d, noting, x)
  BY <1>4, <1>9, <1>10, <1>11, LooseSame
<1>13. Listed(d, noting, x)
  <2>1. Prio(d, x) \in Priorities
    BY <1>4, TcbOf
  <2>2. ~IsReady(d, x) /\ \A p \in Priorities : x \notin Row(d, p)
    BY <1>7, <2>1 DEF Stateless, IsReady
  <2>3. ~Exists(d, x) /\ d.tcb[x].state # "waiting"
    BY <1>6, NoTcbType DEF Exists
  <2>4. StateListed(d, x)
    BY <1>6, <2>2, <2>3 DEF StateListed, Stateless, SamePlaces
  <2>5. EventListed(d, x) /\ Eventless(d, x)
    BY <1>6 DEF EventListed, Eventless, SameEvents, Awaits
  <2> QED
    BY <2>2, <2>3, <2>4, <2>5 DEF Listed
<1>14. Sound(d, noting)
  BY <1>12, <1>13, SoundAgain
<1>15. \A t \in Everyone : t \in noting /\ t \notin noting \ {x} =>
         d.tcb[t].state # "waiting" /\ (t \notin ToSet(d.pending) \/ ~IsReady(d, t))
  BY <1>6, NoTcbType DEF Eventless, SameEvents
<1>16. Sound(d, noting \ {x})
  BY <1>14, <1>15, NotingSound
<1> QED
  BY <1>5, <1>6, <1>7, <1>16, <1>18 DEF d

\* The count of the tasks after one of them is gone.
LEMMA OneLess ==
  ASSUME NEW c, NEW d, NEW noting, Steady(c, noting), NEW x \in Everyone, Exists(c, x),
         \A t \in Everyone : Exists(d, t) <=> t # x /\ Exists(c, t)
  PROVE  Cardinality({t \in Everyone : Exists(d, t)}) = c.number - 1
<1> DEFINE T == {t \in Everyone : Exists(c, t)}
<1>1. IsFiniteSet(T) /\ x \in T /\ c.number = Cardinality(T)
  BY FewTasks, FS_Subset DEF Steady
<1>2. {t \in Everyone : Exists(d, t)} = T \ {x}
  OBVIOUS
<1> HIDE DEF T
<1> QED
  BY <1>1, <1>2, FS_RemoveElement

LEMMA GoneDrops ==
  ASSUME NEW c, NEW m, NEW noting, Steady(c, noting), NEW x \in Everyone, x # Idle, Exists(c, x),
         Loose(m, noting, x), Stateless(m, x), Eventless(m, x), SameRest(m, c), m.tcb = c.tcb, Calm(m, c),
         ToSet(m.pending) \subseteq ToSet(c.pending),
         \A p \in Priorities : Row(m, p) = Row(c, p) \ {x}, NEW u \in Int
  PROVE  LET d == [m EXCEPT !.number = m.number - 1, !.unclean = u, !.tcb = [m.tcb EXCEPT ![x] = NoTcb]]
         IN  Drops(d, c, x, noting \ {x})
<1> DEFINE n == m.number - 1
           d == [m EXCEPT !.number = n, !.unclean = u, !.tcb = [m.tcb EXCEPT ![x] = NoTcb]]
<1>1. m \in KernelType /\ c \in KernelType /\ n \in Int /\ m.number = c.number
  BY DEF Loose, Steady, Sound, SameRest, KernelType
<1> HIDE DEF n
<1>2. /\ Sound(d, noting \ {x}) /\ SamePlaces(d, m) /\ SameEvents(d, m)
      /\ d.cur = m.cur /\ d.locked = m.locked /\ d.number = n /\ Calm(d, m)
      /\ \A t \in Everyone : Exists(d, t) <=> t # x /\ Exists(m, t)
      /\ \A t \in Everyone \ {x} : IsReady(d, t) <=> IsReady(m, t)
  BY <1>1, GoneSound
<1> HIDE DEF d
<1>3. \A t \in Everyone : Exists(d, t) <=> t # x /\ Exists(c, t)
  BY <1>2 DEF Exists
<1>4. d.number = Cardinality({t \in Everyone : Exists(d, t)})
  BY <1>1, <1>2, <1>3, OneLess DEF n
<1>5. ASSUME NEW t \in Everyone \ {x}, IsReady(c, t)
      PROVE  IsReady(d, t)
  <2>1. Prio(c, t) \in Priorities /\ Prio(m, t) = Prio(c, t)
    BY <1>1, TcbOf DEF Prio
  <2> QED
    BY <1>2, <1>5, <2>1 DEF IsReady
<1>6. c.pending = <<>> => d.pending = <<>>
  BY <1>1, <1>2, NothingPending DEF SameEvents
<1>7. d.cur = c.cur /\ d.locked = c.locked
  BY <1>2 DEF SameRest
<1>8. IsReady(d, Idle)
  BY <1>5 DEF Steady, Everyone
<1>9. Steady(d, noting \ {x})
  BY <1>2, <1>4, <1>6, <1>7, <1>8 DEF Steady
<1> QED
  BY <1>2, <1>5, <1>7, <1>9, CalmTwice DEF Drops, d, n

LEMMA DeleteDrops ==
  ASSUME NEW c, NEW noting, Steady(c, noting), NEW x \in Everyone, x # Idle, Exists(c, x), x # c.cur
  PROVE  Drops(vTaskDelete(c, x), c, x, noting \ {x})
<1> DEFINE m == Unlisted(c, x)
           b == [m EXCEPT !.number = m.number - 1, !.unclean = m.unclean, !.tcb = [m.tcb EXCEPT ![x] = NoTcb]]
<1>1. Loose(m, noting, x) /\ Stateless(m, x) /\ Eventless(m, x) /\ Off(m, c, x)
  BY LooseFrom, UnlistedLoose DEF Steady
<1>2. vTaskDelete(c, x) = prvResetNextTaskUnblockTime(prvDeleteTCB([m EXCEPT !.number = @ - 1], x))
  BY DEF vTaskDelete
<1> HIDE DEF m
<1>3. m \in KernelType
  BY <1>1 DEF Loose
<1>4. prvDeleteTCB([m EXCEPT !.number = @ - 1], x) = b
  BY <1>3 DEF KernelType, prvDeleteTCB
<1>5. m.unclean \in Int
  BY <1>3 DEF KernelType
<1>6. Drops(b, c, x, noting \ {x})
  <2>1. Calm(m, c)
    BY <1>1, CalmSame DEF Off, Steady, Sound
  <2> QED
    BY <1>1, <1>5, <2>1, GoneDrops DEF Off
<1> HIDE DEF b
<1>7. Gains(prvResetNextTaskUnblockTime(b), b, noting \ {x})
  BY <1>6, ResetGains DEF Drops
<1> QED
  BY <1>2, <1>4, <1>6, <1>7, CalmTwice DEF Drops, Gains, Passes, KeepsReady

LEMMA CleanedDrops ==
  ASSUME NEW c, NEW noting, Steady(c, noting), c.ended # <<>>
  PROVE  LET x == Head(c.ended)
         IN  /\ x \in Everyone /\ x # Idle
             /\ Drops(prvCheckTasksWaitingTermination(c), c, x, noting \ {x})
<1> DEFINE x == Head(c.ended)  m == OffStateList(c, x)  u == m.unclean - 1
           b == [m EXCEPT !.number = m.number - 1, !.unclean = u, !.tcb = [m.tcb EXCEPT ![x] = NoTcb]]
<1>1. c \in KernelType /\ c.ended \in Rows(Everyone)
  BY DEF Steady, Sound, KernelType
<1>2. x \in ToSet(c.ended) /\ x \in Everyone
  BY <1>1, TailRemoved
<1>3. Listed(c, noting, x) /\ Listed(c, noting, Idle) /\ IsReady(c, Idle)
  BY <1>2 DEF Steady, Sound, Everyone
<1>4. x # Idle /\ Exists(c, x) /\ Eventless(c, x)
  BY <1>2, <1>3 DEF Listed, StateListed
<1>5. prvCheckTasksWaitingTermination(c) = prvDeleteTCB([m EXCEPT !.number = @ - 1, !.unclean = @ - 1], x)
  BY DEF prvCheckTasksWaitingTermination
<1> HIDE DEF x
<1>6. OffState(m, c, x)
  BY <1>1, OffStateListed
<1> HIDE DEF m
<1>7. Loose(m, noting, x) /\ Stateless(m, x)
  BY <1>6, LooseFrom, OffStateLoose DEF Steady
<1>8. m \in KernelType
  BY <1>7 DEF Loose
<1>9. Eventless(m, x) /\ m.pending = c.pending
  BY <1>4, <1>6 DEF Eventless, Awaits, OffState, SameEvents
<1>10. prvCheckTasksWaitingTermination(c) = b
  BY <1>5, <1>8 DEF KernelType, prvDeleteTCB
<1>11. u \in Int
  BY <1>8 DEF KernelType
<1> HIDE DEF u
<1>12. Drops(b, c, x, noting \ {x})
  <2>1. Calm(m, c)
    BY <1>1, <1>6, CalmSame DEF OffState
  <2> QED
    BY <1>2, <1>4, <1>6, <1>7, <1>9, <1>11, <2>1, GoneDrops DEF OffState
<1> HIDE DEF b
<1> QED
  BY <1>2, <1>4, <1>10, <1>12 DEF x

LEMMA FreshTcb ==
  ASSUME NEW p \in Priorities
  PROVE  LET r == [priority |-> p, base |-> p, held |-> 0, wake |-> 0, value |-> EventValue(p),
                   note |-> 0, state |-> "not waiting", aborted |-> FALSE]
         IN  r \in Tcbs /\ r.state = "not waiting"
<1>1. EventValue(p) \in 1..configMAX_PRIORITIES
  BY TasksAssumption DEF Priorities, EventValue
<1>2. "not waiting" \in NoteStates /\ 0 \in Nat /\ 0 \in Int /\ FALSE \in BOOLEAN
  BY DEF NoteStates
<1> QED
  BY <1>1, <1>2 DEF Tcbs

LEMMA NewTcbType ==
  ASSUME NEW priority \in Nat
  PROVE  NewTcb(priority) \in Tcbs /\ NewTcb(priority).state = "not waiting"
<1> DEFINE p == Min({priority, configMAX_PRIORITIES - 1})
<1>1. p = IF priority <= configMAX_PRIORITIES - 1 THEN priority ELSE configMAX_PRIORITIES - 1
  BY TasksAssumption, MinOfTwo
<1>2. p \in Priorities
  BY <1>1, TasksAssumption DEF Priorities
<1>3. NewTcb(priority) = [priority |-> p, base |-> p, held |-> 0, wake |-> 0, value |-> EventValue(p),
        note |-> 0, state |-> "not waiting", aborted |-> FALSE]
  BY DEF NewTcb
<1> HIDE DEF p
<1> QED
  BY <1>2, <1>3, FreshTcb, Zenon

\* A task comes into being; u is the current one then.
LEMMA BornSound ==
  ASSUME NEW c, NEW noting, Sound(c, noting), NEW x \in Everyone, ~Exists(c, x),
         NEW priority \in Nat, NEW u \in Everyone \cup {NoTask}
  PROVE  LET m == [c EXCEPT !.number = c.number + 1, !.cur = u,
                            !.tcb = [c.tcb EXCEPT ![x] = NewTcb(priority)]]
             d == prvAddTaskToReadyList(m, x)
         IN  /\ Sound(d, noting) /\ IsReady(d, x)
             /\ \A t \in Everyone \ {x} : IsReady(c, t) => IsReady(d, t)
             /\ d.cur = u /\ d.locked = c.locked /\ d.pending = c.pending
             /\ d.number = c.number + 1 /\ Calm(d, c)
             /\ \A t \in Everyone : Exists(d, t) <=> t = x \/ Exists(c, t)
<1> DEFINE n == c.number + 1
           a == [c EXCEPT !.tcb = [c.tcb EXCEPT ![x] = NewTcb(priority)]]
           m == [c EXCEPT !.number = n, !.cur = u, !.tcb = [c.tcb EXCEPT ![x] = NewTcb(priority)]]
           d == prvAddTaskToReadyList(m, x)
<1>1. c \in KernelType /\ n \in Int /\ Listed(c, noting, x)
  BY DEF Sound, KernelType
<1> HIDE DEF n
<1>2. /\ a \in KernelType /\ a.tcb[x] = NewTcb(priority) /\ \A t \in Everyone \ {x} : a.tcb[t] = c.tcb[t]
      /\ SamePlaces(a, c) /\ SameEvents(a, c) /\ SameRest(a, c)
      /\ a.top = c.top /\ a.next = c.next
  BY <1>1, NewTcbType, TcbChanged
<1>3. m = [a EXCEPT !.number = n, !.cur = u]
  BY <1>1 DEF KernelType
<1> HIDE DEF a, m
<1>4. m \in KernelType
  BY <1>1, <1>2, <1>3, Zenon DEF KernelType
<1>5. /\ SamePlaces(m, a) /\ SameEvents(m, a) /\ m.locked = a.locked
      /\ m.number = n /\ m.cur = u /\ m.tcb = a.tcb /\ m.top = a.top /\ m.next = a.next
  BY <1>2, <1>3 DEF KernelType, SamePlaces, SameEvents
<1>20. m.tick = c.tick /\ m.overflows = c.overflows /\ m.missed = c.missed
  BY <1>2, <1>3 DEF KernelType, SameRest
<1>6. /\ SamePlaces(m, c) /\ SameEvents(m, c) /\ m.locked = c.locked
      /\ m.top = c.top /\ m.next = c.next
      /\ m.tcb[x] = NewTcb(priority) /\ \A t \in Everyone \ {x} : m.tcb[t] = c.tcb[t]
  BY <1>2, <1>5 DEF SamePlaces, SameEvents, SameRest
<1>7. Stateless(c, x) /\ Eventless(c, x)
  <2>1. Prio(c, x) \in Priorities
    BY <1>1, TcbOf
  <2> QED
    BY <1>1, <2>1 DEF Listed, StateListed, EventListed, Stateless, Eventless, IsReady
<1>8. /\ \A p : Row(m, p) = Row(c, p)
      /\ \A t \in Everyone \ {x} : Prio(m, t) = Prio(c, t) /\ (IsReady(m, t) <=> IsReady(c, t))
      /\ \A t \in Everyone : Exists(m, t) <=> t = x \/ Exists(c, t)
  <2>1. \A p : Row(m, p) = Row(c, p)
    BY <1>6 DEF Row, SamePlaces
  <2>2. \A t \in Everyone \ {x} : Prio(m, t) = Prio(c, t)
    BY <1>6 DEF Prio
  <2>3. \A t \in Everyone : Exists(m, t) <=> t = x \/ Exists(c, t)
    BY <1>6, NewTcbType DEF Exists
  <2> QED
    BY <2>1, <2>2, <2>3 DEF IsReady
<1>9. ToSet(c.delayed) \subseteq Everyone \ {x} /\ ToSet(c.overflow) \subseteq Everyone \ {x}
  BY <1>1, <1>7, InEveryone DEF KernelType, Stateless
<1>10. Ordered(m) /\ Early(m)
  <2>1. \A t \in Everyone \ {x} : WakeTimes(c)[t] = WakeTimes(m)[t]
    BY <1>6 DEF WakeTimes
  <2>2. c.delayed \in Rows(Everyone) /\ c.overflow \in Rows(Everyone)
    BY <1>1 DEF KernelType
  <2>3. Rising(c.delayed, WakeTimes(c)) /\ Rising(c.overflow, WakeTimes(c))
    BY DEF Sound, Ordered
  <2>4. Rising(c.delayed, WakeTimes(m)) /\ Rising(c.overflow, WakeTimes(m))
    BY <1>9, <2>1, <2>2, <2>3, RisingSame
  <2>5. Early(m)
    BY <1>6, <1>9 DEF Early, Sound, SamePlaces
  <2> QED
    BY <1>6, <2>4, <2>5 DEF Ordered, SamePlaces
<1>11. \A t \in Everyone \ {x} : SameFor(m, c, t)
  BY <1>6, <1>8 DEF SameFor, SamePlaces, SameEvents
<1>12. c.top <= m.top
  BY <1>1, <1>6, TopOf
<1>13. Loose(m, noting, x)
  BY <1>4, <1>10, <1>11, <1>12, LooseFrom, LooseSame
<1>14. Stateless(m, x) /\ Eventless(m, x)
  BY <1>6, <1>7, <1>8 DEF Stateless, Eventless, SamePlaces, SameEvents, Awaits
<1>15. Exists(m, x) /\ m.tcb[x].state # "waiting"
  BY <1>6, NewTcbType DEF Exists
<1>16. Added(d, m, x)
  <2>1. Prio(m, x) \in Priorities
    BY <1>4, TcbOf
  <2> QED
    BY <1>4, <1>14, <2>1, AddedToRow DEF Stateless
<1> HIDE DEF d
<1>21. Calm(d, c)
  <2>1. Calm(d, m)
    BY <1>4, <1>16, CalmSame DEF Added
  <2>2. Calm(m, c)
    BY <1>6, <1>9, <1>20 DEF Calm, SamePlaces
  <2> QED
    BY <2>1, <2>2, CalmTwice
<1>17. Sound(d, noting) /\ IsReady(d, x)
  BY <1>13, <1>14, <1>15, <1>16, AddedSound DEF Eventless
<1>18. ASSUME NEW t \in Everyone \ {x}, IsReady(c, t)
       PROVE  IsReady(d, t)
  <2>1. Prio(m, t) \in Priorities /\ Prio(d, t) = Prio(m, t) /\ IsReady(m, t)
    BY <1>4, <1>8, <1>16, <1>18, TcbOf DEF Prio, Added
  <2>2. t \in Row(d, Prio(m, t))
    BY <1>16, <2>1 DEF Added, IsReady
  <2> QED
    BY <2>1, <2>2 DEF IsReady
<1>19. /\ d.cur = u /\ d.locked = c.locked /\ d.pending = c.pending /\ d.number = n
       /\ \A t \in Everyone : Exists(d, t) <=> t = x \/ Exists(c, t)
  BY <1>5, <1>6, <1>8, <1>16 DEF Added, SameEvents, SameRest, Exists
<1> QED
  BY <1>17, <1>18, <1>19, <1>21 DEF d, m, n

\* The count of the tasks with one more.
LEMMA OneMore ==
  ASSUME NEW c, NEW d, c.number = Cardinality({t \in Everyone : Exists(c, t)}),
         NEW x \in Everyone, ~Exists(c, x),
         \A t \in Everyone : Exists(d, t) <=> t = x \/ Exists(c, t)
  PROVE  Cardinality({t \in Everyone : Exists(d, t)}) = c.number + 1
<1> DEFINE T == {t \in Everyone : Exists(c, t)}
<1>1. IsFiniteSet(T) /\ x \notin T /\ c.number = Cardinality(T)
  BY FewTasks, FS_Subset
<1>2. {t \in Everyone : Exists(d, t)} = T \cup {x}
  OBVIOUS
<1> HIDE DEF T
<1> QED
  BY <1>1, <1>2, FS_AddElement

\* A task more; it is the current one if it is the first, or before the scheduler
\* runs.
Grown(d, c, x, noting) ==
  /\ Sound(d, noting) /\ IsReady(d, x)
  /\ \A t \in Everyone : IsReady(c, t) => IsReady(d, t)
  /\ \A t \in Everyone : Exists(d, t) <=> t = x \/ Exists(c, t)
  /\ d.number = Cardinality({t \in Everyone : Exists(d, t)})
  /\ d.locked = c.locked /\ d.pending = c.pending /\ Calm(d, c)
  /\ d.cur = x \/ (c.cur # NoTask /\ d.cur = c.cur)

LEMMA CreatedGrown ==
  ASSUME NEW c, NEW noting, Sound(c, noting), NEW x \in Everyone, ~Exists(c, x),
         c.number = Cardinality({t \in Everyone : Exists(c, t)}),
         NEW priority \in Nat, NEW running \in BOOLEAN
  PROVE  LET d == prvAddNewTaskToReadyList(c, x, priority, running)
         IN  Grown(d, c, x, noting) /\ (running /\ c.cur # NoTask => d.cur = c.cur)
<1> DEFINE new == [c EXCEPT !.number = c.number + 1, !.tcb = [c.tcb EXCEPT ![x] = NewTcb(priority)]]
           first == \/ c.cur = NoTask
                    \/ ~running /\ CurPrio(c) <= new.tcb[x].priority
           u == IF first THEN x ELSE c.cur
           m == [c EXCEPT !.number = c.number + 1, !.cur = u,
                          !.tcb = [c.tcb EXCEPT ![x] = NewTcb(priority)]]
           d == prvAddNewTaskToReadyList(c, x, priority, running)
<1>1. c \in KernelType
  BY DEF Sound
<1>2. d = prvAddTaskToReadyList(IF first THEN [new EXCEPT !.cur = x] ELSE new, x)
  BY <1>1 DEF KernelType, prvAddNewTaskToReadyList
<1>3. (IF first THEN [new EXCEPT !.cur = x] ELSE new) = m
  BY <1>1 DEF KernelType
<1>4. u \in Everyone \cup {NoTask} /\ (u = x \/ (c.cur # NoTask /\ u = c.cur))
      /\ (running /\ c.cur # NoTask => u = c.cur)
  BY <1>1 DEF KernelType
<1>5. d = prvAddTaskToReadyList(m, x)
  BY <1>2, <1>3
<1> HIDE DEF first, new, u, d
<1>6. /\ Sound(d, noting) /\ IsReady(d, x)
      /\ \A t \in Everyone \ {x} : IsReady(c, t) => IsReady(d, t)
      /\ d.cur = u /\ d.locked = c.locked /\ d.pending = c.pending
      /\ d.number = c.number + 1 /\ Calm(d, c)
      /\ \A t \in Everyone : Exists(d, t) <=> t = x \/ Exists(c, t)
  <2> DEFINE e == prvAddTaskToReadyList(m, x)
  <2>1. /\ Sound(e, noting) /\ IsReady(e, x)
        /\ \A t \in Everyone \ {x} : IsReady(c, t) => IsReady(e, t)
        /\ e.cur = u /\ e.locked = c.locked /\ e.pending = c.pending
        /\ e.number = c.number + 1 /\ Calm(e, c)
        /\ \A t \in Everyone : Exists(e, t) <=> t = x \/ Exists(c, t)
    BY <1>4, BornSound
  <2>2. d = e
    BY <1>5
  <2> HIDE DEF e, m
  <2> QED
    BY <2>1, <2>2
<1>7. d.number = Cardinality({t \in Everyone : Exists(d, t)})
  BY <1>6, OneMore
<1>8. Grown(d, c, x, noting)
  BY <1>4, <1>6, <1>7 DEF Grown
<1> QED
  BY <1>4, <1>6, <1>8 DEF d

LEMMA CreateKeeps ==
  ASSUME NEW c, NEW noting, Steady(c, noting), NEW x \in Everyone, ~Exists(c, x), NEW priority \in Nat
  PROVE  Keeps(prvAddNewTaskToReadyList(c, x, priority, TRUE), c, noting)
<1> DEFINE d == prvAddNewTaskToReadyList(c, x, priority, TRUE)
<1>1. c.cur \in Everyone /\ c.cur # NoTask
  BY KernelAssumption DEF Steady, Everyone
<1>2. Grown(d, c, x, noting) /\ d.cur = c.cur
  BY <1>1, CreatedGrown DEF Steady
<1> HIDE DEF d
<1>3. Steady(d, noting)
  BY <1>1, <1>2 DEF Steady, Grown, Everyone
<1>4. Keeps(d, c, noting)
  BY <1>2, <1>3 DEF Keeps, Holds, Grown, KeepsReady
<1> QED
  BY <1>4 DEF d

-----------------------------------------------------------------------------
(* Priorities change                                                       *)

LEMMA TcbLoose ==
  ASSUME NEW c, NEW noting, NEW x \in Everyone, Loose(c, noting, x), NEW r \in Tcbs,
         r.wake = c.tcb[x].wake
  PROVE  LET d == [c EXCEPT !.tcb = [c.tcb EXCEPT ![x] = r]]
         IN  /\ Loose(d, noting, x) /\ SamePlaces(d, c) /\ SameEvents(d, c) /\ SameRest(d, c)
             /\ d.top = c.top /\ d.next = c.next
             /\ d.tcb[x] = r /\ \A t \in Everyone \ {x} : d.tcb[t] = c.tcb[t]
<1> DEFINE d == [c EXCEPT !.tcb = [c.tcb EXCEPT ![x] = r]]
<1>1. c \in KernelType
  BY DEF Loose
<1>2. /\ d \in KernelType /\ d.tcb[x] = r /\ \A t \in Everyone \ {x} : d.tcb[t] = c.tcb[t]
      /\ SamePlaces(d, c) /\ SameEvents(d, c) /\ SameRest(d, c)
      /\ d.top = c.top /\ d.next = c.next
  BY <1>1, TcbChanged
<1> HIDE DEF d
<1>3. \A t \in Everyone : d.tcb[t].wake = c.tcb[t].wake
  BY <1>2
<1>4. WakeTimes(d) = WakeTimes(c)
  BY <1>3 DEF WakeTimes
<1>5. c.delayed \in Rows(Everyone)
  BY <1>1 DEF KernelType
<1>6. ToSet(c.delayed) \subseteq Everyone
  BY <1>5, InEveryone
<1>7. Ordered(d) /\ Early(d)
  BY <1>2, <1>3, <1>4, <1>6 DEF Loose, Ordered, Early, SamePlaces
<1>8. \A t \in Everyone \ {x} : SameFor(d, c, t)
  BY <1>2 DEF SameFor, Prio, SamePlaces, SameEvents, Row
<1>9. c.top <= d.top
  BY <1>1, <1>2, TopOf
<1>10. Loose(d, noting, x)
  BY <1>2, <1>7, <1>8, <1>9, LooseSame
<1> QED
  BY <1>2, <1>10 DEF d

LEMMA MovedKeeps ==
  ASSUME NEW c, NEW noting, Steady(c, noting), NEW x \in Everyone, NEW p \in Priorities
  PROVE  Keeps(Moved(c, x, p), c, noting)
<1> DEFINE r == [c.tcb[x] EXCEPT !.priority = p]
           e == [c EXCEPT !.tcb = [c.tcb EXCEPT ![x] = r]]
           o == OffStateList(c, x)
           m == [o EXCEPT !.tcb = [o.tcb EXCEPT ![x] = r]]
<1>1. c \in KernelType /\ Sound(c, noting) /\ Listed(c, noting, x)
  BY DEF Steady, Sound
<1>2. r \in Tcbs /\ r.wake = c.tcb[x].wake /\ r.state = c.tcb[x].state /\ r.priority = p
  <2>1. c.tcb[x] \in Tcbs
    BY <1>1, TcbOf
  <2> QED
    BY <2>1 DEF Tcbs
<1>3. CASE ~IsReady(c, x)
  <2>1. Moved(c, x, p) = e
    BY <1>1, <1>3, WhereIs DEF Moved, KernelType
  <2>2. Loose(c, noting, x)
    BY <1>1, LooseFrom
  <2> HIDE DEF r
  <2>3. /\ Loose(e, noting, x) /\ SamePlaces(e, c) /\ SameEvents(e, c) /\ SameRest(e, c)
        /\ e.top = c.top /\ e.next = c.next /\ e.tcb[x] = r /\ \A t \in Everyone \ {x} : e.tcb[t] = c.tcb[t]
    BY <1>2, <2>2, TcbLoose
  <2> HIDE DEF e
  <2>4. /\ \A f : Row(e, f) = Row(c, f)
        /\ \A t \in Everyone : (Exists(e, t) <=> Exists(c, t)) /\ (Awaits(e, t) <=> Awaits(c, t))
        /\ e.tcb[x].state = c.tcb[x].state
    BY <1>2, <2>3 DEF Row, SamePlaces, SameEvents, Exists, Awaits
  <2>5. \A f \in Priorities : x \notin Row(c, f)
    BY <1>1, <1>3 DEF Listed, StateListed, IsReady
  <2>6. ~IsReady(e, x)
    BY <1>2, <2>3, <2>4, <2>5 DEF IsReady, Prio
  <2>7. StateListed(e, x)
    BY <1>1, <1>3, <2>3, <2>4, <2>5, <2>6 DEF Listed, StateListed, SamePlaces
  <2>8. EventListed(e, x)
    BY <1>1, <2>3, <2>4 DEF Listed, EventListed, SameEvents
  <2>9. Listed(e, noting, x)
    BY <1>1, <2>3, <2>4, <2>6, <2>7, <2>8 DEF Listed, SamePlaces, SameEvents, Eventless
  <2>10. Sound(e, noting)
    BY <2>3, <2>9, SoundAgain
  <2>11. ASSUME NEW t \in Everyone, IsReady(c, t)
         PROVE  IsReady(e, t)
    <3>1. t # x
      BY <1>3, <2>11
    <3> QED
      BY <2>3, <2>4, <2>11, <3>1 DEF IsReady, Prio
  <2>12. /\ SameNumber(e, c) /\ e.locked = c.locked /\ e.cur = c.cur
         /\ (c.pending = <<>> => e.pending = <<>>) /\ KeepsReady(e, c)
    BY <2>3, <2>4, <2>11 DEF SameNumber, SameRest, SameEvents, KeepsReady
  <2>13. Steady(e, noting)
    BY <2>10, <2>12, SteadyKept
  <2>14. Calm(e, c)
    BY <1>1, <1>2, <2>3, CalmSame DEF SamePlaces
  <2> QED
    BY <2>1, <2>12, <2>13, <2>14 DEF Keeps, Holds
<1>4. CASE IsReady(c, x)
  <2>1. OffState(o, c, x)
    BY <1>1, OffStateListed
  <2>2. Moved(c, x, p) = prvAddTaskToReadyList([o EXCEPT !.tcb[x].priority = p], x)
    BY <1>1, <1>4, WhereIs DEF Moved
  <2>3. Loose(o, noting, x) /\ Stateless(o, x)
    BY <1>1, <2>1, LooseFrom, OffStateLoose
  <2> HIDE DEF o
  <2>4. o \in KernelType /\ o.tcb = c.tcb
    BY <2>1 DEF OffState
  <2>5. [o EXCEPT !.tcb[x].priority = p] = m
    BY <2>4 DEF KernelType
  <2>6. r.wake = o.tcb[x].wake
    BY <1>2, <2>4
  <2> HIDE DEF r
  <2>7. /\ Loose(m, noting, x) /\ SamePlaces(m, o) /\ SameEvents(m, o) /\ SameRest(m, o)
        /\ m.top = o.top /\ m.next = o.next /\ m.tcb[x] = r /\ \A t \in Everyone \ {x} : m.tcb[t] = o.tcb[t]
    BY <1>2, <2>3, <2>6, TcbLoose
  <2> HIDE DEF m
  <2>8. Stateless(m, x)
    BY <2>3, <2>7 DEF Stateless, SamePlaces, Row
  <2>9. /\ \A t \in Everyone : Exists(m, t) <=> Exists(c, t)
        /\ SameEvents(m, c) /\ SameRest(m, c) /\ m.tcb[x].state = c.tcb[x].state
    BY <1>2, <2>1, <2>4, <2>7 DEF Exists, OffState, SameEvents, SameRest
  <2>10. /\ Exists(m, x) /\ ~Awaits(m, x) /\ (x \in ToSet(m.pending) => x \in noting)
         /\ (m.tcb[x].state = "waiting" => x \in noting)
    <3>1. Exists(c, x)
      BY <1>1, <1>4 DEF Listed, StateListed
    <3> QED
      BY <1>1, <1>4, <2>9, <3>1 DEF Listed, Awaits, SameEvents
  <2>11. ASSUME NEW t \in Everyone \ {x}, IsReady(c, t)
         PROVE  IsReady(m, t)
    <3>1. Prio(c, t) \in Priorities /\ Prio(m, t) = Prio(c, t)
      BY <1>1, <2>4, <2>7, TcbOf DEF Prio
    <3>2. t \in Row(o, Prio(c, t))
      BY <2>1, <2>11, <3>1 DEF OffState, IsReady
    <3> QED
      BY <2>7, <3>1, <3>2 DEF IsReady, SamePlaces, Row
  <2>12. c.pending = <<>> => m.pending = <<>>
    BY <2>9 DEF SameEvents
  <2>14. Calm(m, c)
    <3>1. Calm(o, c)
      BY <1>1, <2>1, CalmSame DEF OffState
    <3>2. Calm(m, o)
      BY <2>4, <2>6, <2>7, CalmSame DEF SamePlaces
    <3> QED
      BY <3>1, <3>2, CalmTwice
  <2>13. Keeps(prvAddTaskToReadyList(m, x), c, noting)
    BY <2>7, <2>8, <2>9, <2>10, <2>11, <2>12, <2>14, ReaddedKeeps
  <2> QED
    BY <2>2, <2>5, <2>13
<1> QED
  BY <1>3, <1>4

\* A change of the control block of a task that is of no concern to the lists.
LEMMA BlockKeeps ==
  ASSUME NEW c, NEW noting, Steady(c, noting), NEW x \in Everyone, NEW r \in Tcbs,
         r.priority = c.tcb[x].priority, r.wake = c.tcb[x].wake, r.state = c.tcb[x].state
  PROVE  Keeps([c EXCEPT !.tcb = [c.tcb EXCEPT ![x] = r]], c, noting)
<1>1. Listed(c, noting, x)
  BY DEF Steady, Sound
<1>2. r.state = "waiting" => x \in noting /\ x \notin ToSet(c.ended)
  BY <1>1 DEF Listed
<1> QED
  BY <1>2, TcbKeeps

LEMMA ValueType ==
  ASSUME NEW p \in Priorities
  PROVE  EventValue(p) \in 1..configMAX_PRIORITIES
BY TasksAssumption DEF Priorities, EventValue

\* A task is moved, and the value of its event item changes.
LEMMA ValuedKeeps ==
  ASSUME NEW c, NEW noting, Steady(c, noting), NEW x \in Everyone, NEW p \in Priorities, NEW u \in Priorities
  PROVE  Keeps(Moved([c EXCEPT !.tcb[x].value = EventValue(u)], x, p), c, noting)
<1> DEFINE r == [c.tcb[x] EXCEPT !.value = EventValue(u)]
           m == [c EXCEPT !.tcb = [c.tcb EXCEPT ![x] = r]]
<1>1. c \in KernelType
  BY DEF Steady, Sound
<1>2. /\ r \in Tcbs /\ r.wake = c.tcb[x].wake /\ r.state = c.tcb[x].state
      /\ r.priority = c.tcb[x].priority
  <2>1. c.tcb[x] \in Tcbs
    BY <1>1, TcbOf
  <2> QED
    BY <2>1, ValueType DEF Tcbs
<1>3. [c EXCEPT !.tcb[x].value = EventValue(u)] = m
  BY <1>1 DEF KernelType
<1> HIDE DEF r
<1>4. Keeps(m, c, noting)
  BY <1>2, BlockKeeps
<1> HIDE DEF m
<1>5. Keeps(Moved(m, x, p), m, noting)
  BY <1>4, MovedKeeps DEF Keeps, Holds
<1> QED
  BY <1>3, <1>4, <1>5, KeepsTwice

LEMMA InheritKeeps ==
  ASSUME NEW c, NEW noting, Steady(c, noting), NEW x \in Everyone \cup {NoTask}
  PROVE  Keeps(xTaskPriorityInherit(c, x), c, noting)
<1>1. CASE x # NoTask /\ Prio(c, x) < CurPrio(c)
  <2>1. CurPrio(c) \in Priorities /\ x \in Everyone
    BY <1>1, TcbOf DEF CurPrio, Steady, Sound
  <2>2. Keeps(Moved([c EXCEPT !.tcb[x].value = EventValue(CurPrio(c))], x, CurPrio(c)), c, noting)
    BY <2>1, ValuedKeeps
  <2> QED
    BY <1>1, <2>2 DEF xTaskPriorityInherit, Inherit
<1>2. CASE ~(x # NoTask /\ Prio(c, x) < CurPrio(c))
  BY <1>2, KeepsSelf DEF xTaskPriorityInherit
<1> QED
  BY <1>1, <1>2

LEMMA TimeoutKeeps ==
  ASSUME NEW c, NEW noting, Steady(c, noting), NEW x \in Everyone \cup {NoTask}, NEW p \in Priorities
  PROVE  Keeps(vTaskPriorityDisinheritAfterTimeout(c, x, p), c, noting)
<1> DEFINE use == Max({c.tcb[x].base, p})
<1>1. CASE x = NoTask \/ c.tcb[x].priority = use \/ c.tcb[x].held # 1
  BY <1>1, KeepsSelf DEF vTaskPriorityDisinheritAfterTimeout
<1>2. CASE ~(x = NoTask \/ c.tcb[x].priority = use \/ c.tcb[x].held # 1)
  <2>1. x \in Everyone
    BY <1>2
  <2>2. c.tcb[x].base \in Priorities /\ c.tcb[x].base \in Int /\ p \in Int
    <3>1. c.tcb[x].base \in Priorities
      BY <2>1, TcbOf DEF Steady, Sound
    <3>2. Priorities \subseteq Int
      BY Levels
    <3> HIDE DEF use
    <3> QED
      BY <3>1, <3>2
  <2>3. use \in Priorities
    <3>1. use = IF c.tcb[x].base >= p THEN c.tcb[x].base ELSE p
      BY <2>2, MaxOfTwo
    <3> HIDE DEF use
    <3> QED
      BY <2>2, <3>1
  <2>4. vTaskPriorityDisinheritAfterTimeout(c, x, p)
          = Moved([c EXCEPT !.tcb[x].value = EventValue(use)], x, use)
    BY <1>2 DEF vTaskPriorityDisinheritAfterTimeout
  <2> HIDE DEF use
  <2> QED
    BY <2>1, <2>3, <2>4, ValuedKeeps
<1> QED
  BY <1>1, <1>2

LEMMA HeldKeeps ==
  ASSUME NEW c, NEW noting, Steady(c, noting), NEW x \in Everyone, NEW n \in Int
  PROVE  LET d == [c EXCEPT !.tcb[x].held = n]
         IN  Keeps(d, c, noting) /\ d.tcb[x].base = c.tcb[x].base
<1> DEFINE r == [c.tcb[x] EXCEPT !.held = n]
           m == [c EXCEPT !.tcb = [c.tcb EXCEPT ![x] = r]]
<1>1. c \in KernelType
  BY DEF Steady, Sound
<1>2. /\ r \in Tcbs /\ r.wake = c.tcb[x].wake /\ r.state = c.tcb[x].state
      /\ r.priority = c.tcb[x].priority /\ r.base = c.tcb[x].base
  <2>1. c.tcb[x] \in Tcbs
    BY <1>1, TcbOf
  <2> QED
    BY <2>1 DEF Tcbs
<1>3. [c EXCEPT !.tcb[x].held = n] = m
  BY <1>1 DEF KernelType
<1> HIDE DEF r
<1>4. Keeps(m, c, noting) /\ m.tcb[x] = r
  BY <1>1, <1>2, BlockKeeps, TcbChanged
<1> QED
  BY <1>2, <1>3, <1>4

LEMMA MutexTakenKeeps ==
  ASSUME NEW c, NEW noting, Steady(c, noting)
  PROVE  Keeps(pvTaskIncrementMutexHeldCount(c), c, noting)
<1>1. c.cur \in Everyone /\ c \in KernelType
  BY DEF Steady, Sound
<1>2. c.tcb[c.cur].held + 1 \in Int
  BY <1>1, TcbOf
<1>3. pvTaskIncrementMutexHeldCount(c) = [c EXCEPT !.tcb[c.cur].held = c.tcb[c.cur].held + 1]
  BY <1>1 DEF pvTaskIncrementMutexHeldCount, KernelType
<1> QED
  BY <1>1, <1>2, <1>3, HeldKeeps

LEMMA DisinheritKeeps ==
  ASSUME NEW c, NEW noting, Steady(c, noting), NEW x \in Everyone \cup {NoTask}
  PROVE  Keeps(xTaskPriorityDisinherit(c, x), c, noting)
<1> DEFINE n == c.tcb[x].held - 1  less == [c EXCEPT !.tcb[x].held = n]  b == c.tcb[x].base
<1>1. CASE x = NoTask
  BY <1>1, KeepsSelf DEF xTaskPriorityDisinherit
<1>2. CASE x # NoTask
  <2>1. x \in Everyone /\ c \in KernelType
    BY <1>2 DEF Steady, Sound
  <2>2. n \in Int /\ b \in Priorities
    BY <2>1, TcbOf
  <2>3. [c EXCEPT !.tcb[x].held = @ - 1] = less
    BY <2>1 DEF KernelType
  <2>4. xTaskPriorityDisinherit(c, x) = IF Disinherits(c, x)
          THEN Moved([less EXCEPT !.tcb[x].value = EventValue(b)], x, b) ELSE less
    BY <1>2, <2>3 DEF xTaskPriorityDisinherit
  <2> HIDE DEF n, b
  <2>5. Keeps(less, c, noting)
    BY <2>1, <2>2, HeldKeeps
  <2> HIDE DEF less
  <2>6. Keeps(Moved([less EXCEPT !.tcb[x].value = EventValue(b)], x, b), less, noting)
    BY <2>1, <2>2, <2>5, ValuedKeeps DEF Keeps, Holds
  <2> QED
    BY <2>4, <2>5, <2>6, KeepsTwice
<1> QED
  BY <1>1, <1>2

LEMMA PrioritySetKeeps ==
  ASSUME NEW c, NEW noting, Steady(c, noting), NEW x \in Everyone, NEW p \in Priorities
  PROVE  Keeps(vTaskPrioritySet(c, x, p), c, noting)
<1> DEFINE r == [c.tcb[x] EXCEPT !.base = p, !.value = EventValue(p)]
           m == [c EXCEPT !.tcb = [c.tcb EXCEPT ![x] = r]]
           u == IF c.tcb[x].base = c.tcb[x].priority THEN p ELSE c.tcb[x].priority
<1>1. c \in KernelType
  BY DEF Steady, Sound
<1>2. /\ r \in Tcbs /\ r.wake = c.tcb[x].wake /\ r.state = c.tcb[x].state
      /\ r.priority = c.tcb[x].priority
  <2>1. c.tcb[x] \in Tcbs
    BY <1>1, TcbOf
  <2> QED
    BY <2>1, ValueType DEF Tcbs
<1>3. u \in Priorities
  BY <1>1, TcbOf DEF Prio
<1>4. [c EXCEPT !.tcb[x].base = p, !.tcb[x].value = EventValue(p)] = m
  BY <1>1 DEF KernelType
<1>5. vTaskPrioritySet(c, x, p) = IF c.tcb[x].base = p THEN c ELSE Moved(m, x, u)
  BY <1>4 DEF vTaskPrioritySet
<1> HIDE DEF r, u
<1>6. Keeps(m, c, noting)
  BY <1>2, BlockKeeps
<1> HIDE DEF m
<1>7. Keeps(Moved(m, x, u), m, noting)
  BY <1>3, <1>6, MovedKeeps DEF Keeps, Holds
<1> QED
  BY <1>5, <1>6, <1>7, KeepsTwice, KeepsSelf

-----------------------------------------------------------------------------
(* Walks, time, and the scheduler locked                                   *)

LEMMA WalkKeeps ==
  ASSUME NEW c, NEW noting, Steady(c, noting), NEW ready \in [Priorities -> ReadyLists(Everyone)],
         \A p \in Priorities : ready[p].items = c.ready[p].items
  PROVE  Keeps([c EXCEPT !.ready = ready], c, noting)
<1> DEFINE d == [c EXCEPT !.ready = ready]
<1>1. c \in KernelType
  BY DEF Steady, Sound
<1>2. Sound(d, noting) /\ SameReady(d, c)
  BY WalkSound DEF Steady
<1>3. /\ d.tcb = c.tcb /\ d.number = c.number /\ d.cur = c.cur /\ d.locked = c.locked
      /\ d.pending = c.pending /\ Calm(d, c)
  BY <1>1 DEF KernelType, Calm
<1> HIDE DEF d
<1>4. SameNumber(d, c) /\ KeepsReady(d, c)
  BY <1>2, <1>3 DEF SameNumber, Exists, SameReady, KeepsReady
<1>5. Steady(d, noting)
  BY <1>2, <1>3, <1>4, SteadyKept
<1>6. Keeps(d, c, noting)
  BY <1>3, <1>4, <1>5 DEF Keeps, Holds
<1> QED
  BY <1>6 DEF d

LEMMA WalkedKeeps ==
  ASSUME NEW c, NEW noting, Steady(c, noting)
  PROVE  Keeps(Walked(c), c, noting)
<1> DEFINE ready == [p \in Priorities |-> IF Length(c.ready[p]) > 0 THEN NextEntry(c.ready[p]) ELSE c.ready[p]]
<1>1. c \in KernelType
  BY DEF Steady, Sound
<1>2. Walked(c) = [c EXCEPT !.ready = ready]
  BY <1>1 DEF Walked, KernelType
<1>3. ASSUME NEW p \in Priorities
      PROVE  ready[p] \in ReadyLists(Everyone) /\ ready[p].items = c.ready[p].items
  <2>1. c.ready[p] \in ReadyLists(Everyone)
    BY <1>1 DEF KernelType
  <2>2. Length(c.ready[p]) > 0 => c.ready[p].items # <<>>
    BY DEF Length
  <2> QED
    BY <2>1, <2>2, ReadyWalk
<1>4. ready \in [Priorities -> ReadyLists(Everyone)]
  BY <1>3
<1> HIDE DEF ready
<1> QED
  BY <1>2, <1>3, <1>4, WalkKeeps

LEMMA SearchedList ==
  ASSUME NEW list \in ReadyLists(Everyone), NEW t
  PROVE  Searched(list, t) \in ReadyLists(Everyone) /\ Searched(list, t).items = list.items
<1> DEFINE u == list.items  i == CHOOSE i \in DOMAIN u : u[i] = t
<1>1. u \in Rows(Everyone) /\ DOMAIN u = 1..Len(u) /\ Len(u) \in Nat /\ list = [items |-> u, index |-> list.index]
  BY DEF ReadyLists, Rows
<1>2. CASE Contains(u, t)
  <2>1. \E n \in DOMAIN u : u[n] = t
    BY <1>1, <1>2 DEF Contains
  <2>2. i \in 1..Len(u)
    BY <1>1, <2>1
  <2>3. Searched(list, t) = [items |-> u, index |-> i]
    BY <1>1, <1>2 DEF Searched
  <2> HIDE DEF i
  <2>4. i \in Nat /\ i <= Len(u)
    BY <1>1, <2>2
  <2> QED
    BY <1>1, <2>3, <2>4 DEF ReadyLists
<1>3. CASE ~Contains(u, t)
  <2>1. Length(list) > 0 => u # <<>>
    BY DEF Length
  <2> QED
    BY <1>3, <2>1, ReadyWalk DEF Searched
<1> QED
  BY <1>2, <1>3

LEMMA HandleKeeps ==
  ASSUME NEW c, NEW noting, Steady(c, noting), NEW t
  PROVE  Keeps(xTaskGetHandle(c, t), c, noting)
<1> DEFINE ready == [p \in Priorities |->
             IF \E higher \in Priorities : higher > p /\ Contains(c.ready[higher].items, t)
             THEN c.ready[p] ELSE Searched(c.ready[p], t)]
<1>1. c \in KernelType
  BY DEF Steady, Sound
<1>2. xTaskGetHandle(c, t) = [c EXCEPT !.ready = ready]
  BY <1>1 DEF xTaskGetHandle, KernelType
<1>3. ASSUME NEW p \in Priorities
      PROVE  ready[p] \in ReadyLists(Everyone) /\ ready[p].items = c.ready[p].items
  <2>1. c.ready[p] \in ReadyLists(Everyone)
    BY <1>1 DEF KernelType
  <2> QED
    BY <2>1, SearchedList
<1>4. ready \in [Priorities -> ReadyLists(Everyone)]
  BY <1>3
<1> HIDE DEF ready
<1> QED
  BY <1>2, <1>3, <1>4, WalkKeeps

LEMMA StepHolds ==
  ASSUME NEW c, NEW noting, Steady(c, noting), NEW n \in Nat
  PROVE  Holds(vTaskStepTick(c, n), c, noting)
<1> DEFINE m == c.tick + n  d == [c EXCEPT !.tick = m]
<1>1. c \in KernelType /\ m \in Nat
  BY DEF Steady, Sound, KernelType
<1>2. vTaskStepTick(c, n) = d
  BY DEF vTaskStepTick
<1> HIDE DEF m
<1>3. d \in KernelType
  BY <1>1, Zenon DEF KernelType
<1>4. /\ SamePlaces(d, c) /\ SameEvents(d, c) /\ d.tcb = c.tcb /\ d.next = c.next /\ d.top = c.top
      /\ d.cur = c.cur /\ d.locked = c.locked /\ d.number = c.number
  BY <1>1 DEF KernelType, SamePlaces, SameEvents
<1> HIDE DEF d
<1>5. SameTcbs(d, c, noting)
  BY <1>4 DEF SameTcbs, Exists, Steady, Sound, Listed
<1>6. d.next <= c.next
  BY <1>1, <1>4 DEF KernelType
<1>7. Quiet(d, c, noting)
  BY <1>3, <1>4, <1>5, <1>6 DEF Quiet
<1>8. Steady(d, noting) /\ SameReady(d, c)
  BY <1>7, QuietSteady
<1>9. Holds(d, c, noting)
  BY <1>4, <1>8 DEF Holds, SameReady, KeepsReady
<1> QED
  BY <1>2, <1>9 DEF d, m

LEMMA LockSteady ==
  ASSUME NEW c, NEW noting, Steady(c, noting), c.locked = 0
  PROVE  LET d == vTaskSuspendAll(c)
         IN  /\ Steady(d, noting) /\ d.locked = 1 /\ d.cur = c.cur /\ KeepsReady(d, c)
             /\ Calm(d, c)
<1> DEFINE d == [c EXCEPT !.locked = 1]
<1>1. c \in KernelType
  BY DEF Steady, Sound
<1>2. vTaskSuspendAll(c) = d
  BY <1>1 DEF vTaskSuspendAll, KernelType
<1>3. d \in KernelType
  <2>1. 1 \in Int
    OBVIOUS
  <2> QED
    BY <1>1, <2>1, Zenon DEF KernelType
<1>4. /\ SamePlaces(d, c) /\ SameEvents(d, c) /\ d.tcb = c.tcb /\ d.next = c.next /\ d.top = c.top
      /\ d.cur = c.cur /\ d.locked = 1 /\ d.number = c.number /\ Calm(d, c)
  BY <1>1 DEF KernelType, SamePlaces, SameEvents, Calm
<1> HIDE DEF d
<1>5. SameTcbs(d, c, noting) /\ SameLists(d, c)
  BY <1>4 DEF SameTcbs, Exists, Steady, Sound, Listed, SameLists, SamePlaces, Row
<1>6. d.next <= c.next
  BY <1>1, <1>4 DEF KernelType
<1>7. \A p \in Priorities : Row(c, p) # {} => p <= d.top
  BY <1>4, RowsTop DEF Steady
<1>8. Sound(d, noting) /\ SameReady(d, c)
  BY <1>3, <1>5, <1>6, <1>7, QuietSound DEF Steady
<1>9. {t \in Everyone : Exists(d, t)} = {t \in Everyone : Exists(c, t)}
  BY <1>4 DEF Exists
<1>10. IsReady(d, Idle)
  BY <1>8 DEF Steady, SameReady, Everyone
<1>11. Steady(d, noting)
  <2>1. d.cur \in Everyone /\ d.locked \in {0, 1} /\ d.locked # 0
    BY <1>4 DEF Steady
  <2>2. d.number = Cardinality({t \in Everyone : Exists(d, t)})
    BY <1>4, <1>9 DEF Steady
  <2> QED
    BY <1>8, <1>10, <2>1, <2>2 DEF Steady
<1>12. KeepsReady(d, c)
  BY <1>8 DEF SameReady, KeepsReady
<1> QED
  BY <1>2, <1>4, <1>11, <1>12

LEMMA ClearedKeeps ==
  ASSUME NEW c, NEW noting, Steady(c, noting)
  PROVE  Keeps(ClearAborted(c), c, noting)
<1> DEFINE x == c.cur  r == [c.tcb[x] EXCEPT !.aborted = FALSE]
           m == [c EXCEPT !.tcb = [c.tcb EXCEPT ![x] = r]]
<1>1. c \in KernelType /\ x \in Everyone
  BY DEF Steady, Sound
<1>2. r \in Tcbs /\ r.wake = c.tcb[x].wake /\ r.state = c.tcb[x].state /\ r.priority = c.tcb[x].priority
  <2>1. c.tcb[x] \in Tcbs
    BY <1>1, TcbOf
  <2> QED
    BY <2>1 DEF Tcbs
<1>3. ClearAborted(c) = m
  BY <1>1 DEF KernelType, ClearAborted
<1> HIDE DEF r
<1> QED
  BY <1>1, <1>2, <1>3, BlockKeeps

-----------------------------------------------------------------------------
(* Notifications                                                           *)

LEMMA MoreNoting ==
  ASSUME NEW c, NEW noting, NEW x, Steady(c, noting)
  PROVE  Steady(c, noting \cup {x})
<1>1. Sound(c, noting \cup {x})
  BY NotingSound DEF Steady
<1> QED
  BY <1>1 DEF Steady

LEMMA LessNoting ==
  ASSUME NEW c, NEW noting, NEW x, Steady(c, noting), c.locked = 0, c.tcb[x].state # "waiting"
  PROVE  Steady(c, noting \ {x})
<1>1. c.pending = <<>>
  BY DEF Steady
<1>2. \A t : t \notin ToSet(c.pending)
  BY <1>1 DEF ToSet
<1>3. Sound(c, noting \ {x})
  BY <1>2, NotingSound DEF Steady
<1> QED
  BY <1>3 DEF Steady

\* The control block as a notification call leaves it.
NoteChanged(d, c, x, noting) ==
  Keeps(d, c, noting) /\ SameReady(d, c) /\ SamePlaces(d, c) /\ SameEvents(d, c) /\ d.has = c.has

TcbSet(c, x, r) == [c EXCEPT !.tcb = [c.tcb EXCEPT ![x] = r]]

\* Only the state and the value of the notification change.
NoteBlock(r, c, x, noting) ==
  /\ r \in Tcbs /\ r.priority = c.tcb[x].priority /\ r.wake = c.tcb[x].wake /\ r.state # "none"
  /\ r.state = "waiting" => x \in noting /\ x \notin ToSet(c.ended)

LEMMA NotedBlock ==
  ASSUME NEW c, NEW noting, Steady(c, noting), NEW x \in Everyone, Exists(c, x), NEW r,
         NoteBlock(r, c, x, noting)
  PROVE  LET d == TcbSet(c, x, r)
         IN  NoteChanged(d, c, x, noting) /\ Exists(d, x) /\ d.tcb[x] = r
<1> DEFINE d == [c EXCEPT !.tcb = [c.tcb EXCEPT ![x] = r]]
<1>1. r.state = "none" <=> c.tcb[x].state = "none"
  BY DEF Exists, NoteBlock
<1>2. /\ Keeps(d, c, noting) /\ SameReady(d, c) /\ SamePlaces(d, c) /\ SameEvents(d, c)
      /\ SameRest(d, c) /\ d.tcb[x] = r
  BY <1>1, TcbKeeps DEF NoteBlock
<1>3. TcbSet(c, x, r) = d
  BY DEF TcbSet
<1> HIDE DEF d
<1>4. NoteChanged(d, c, x, noting) /\ Exists(d, x)
  BY <1>2 DEF NoteChanged, SameRest, Exists, NoteBlock
<1> QED
  BY <1>2, <1>3, <1>4

\* The first section of a call that waits: the current task is one that will look
\* for its notification.
Notes(d, c, noting) ==
  Steady(d, noting) /\ IsReady(d, d.cur) /\ d.locked = c.locked

LEMMA AwaitNotes ==
  ASSUME NEW c, NEW noting, Steady(c, noting), c.cur # Idle, c.cur \in noting, IsReady(c, c.cur),
         c.locked = 0, NEW ticks \in Int
  PROVE  Notes(Await(c, ticks), c, noting)
<1> DEFINE x == c.cur  r == [c.tcb[x] EXCEPT !.state = "waiting"]  m == TcbSet(c, x, r)
           a == prvAddCurrentTaskToDelayedList(m, ticks, TRUE)  d == vTaskSwitchContext(a)
<1>1. c \in KernelType /\ x \in Everyone /\ Listed(c, noting, x)
  BY DEF Steady, Sound
<1>2. Exists(c, x) /\ x \notin ToSet(c.ended)
  BY <1>1 DEF Listed, StateListed
<1>3. NoteBlock(r, c, x, noting)
  <2>1. c.tcb[x] \in Tcbs
    BY <1>1, TcbOf
  <2>2. r \in Tcbs /\ r.priority = c.tcb[x].priority /\ r.wake = c.tcb[x].wake /\ r.state = "waiting"
    BY <2>1 DEF Tcbs, NoteStates
  <2> HIDE DEF r
  <2> QED
    BY <1>2, <2>2 DEF NoteBlock
<1>5. Await(c, ticks) = IF ticks = 0 THEN m ELSE d
  BY DEF Await, TcbSet
<1> HIDE DEF r
<1>6. NoteChanged(m, c, x, noting)
  BY <1>1, <1>2, <1>3, NotedBlock
<1> HIDE DEF m
<1>7. Steady(m, noting) /\ m.cur = x /\ IsReady(m, m.cur) /\ m.locked = 0
  BY <1>1, <1>6 DEF NoteChanged, Keeps, Holds, KeepsReady
<1>8. Leaves(a, m, noting)
  BY <1>7, AsleepSteady
<1> HIDE DEF a
<1>9. Steady(d, noting) /\ IsReady(d, d.cur) /\ d.locked = 0
  BY <1>7, <1>8, SwitchSteady DEF Leaves
<1> HIDE DEF d
<1> QED
  BY <1>5, <1>7, <1>9 DEF Notes

LEMMA TakeFirstNotes ==
  ASSUME NEW c, NEW noting, Steady(c, noting), c.cur # Idle, IsReady(c, c.cur), c.locked = 0,
         NEW ticks \in Int
  PROVE  Notes(NotifyTakeFirst(c, ticks), c, noting \cup {c.cur})
<1> DEFINE later == noting \cup {c.cur}
<1>1. Steady(c, later) /\ c.cur \in later
  BY MoreNoting
<1> HIDE DEF later
<1>2. Notes(Await(c, ticks), c, later)
  BY <1>1, AwaitNotes
<1>3. Notes(c, c, later)
  BY <1>1 DEF Notes
<1>4. Notes(NotifyTakeFirst(c, ticks), c, later)
  BY <1>2, <1>3 DEF NotifyTakeFirst
<1> QED
  BY <1>4 DEF later

LEMMA WaitFirstNotes ==
  ASSUME NEW c, NEW noting, Steady(c, noting), c.cur # Idle, IsReady(c, c.cur), c.locked = 0,
         NEW ticks \in Int, NEW clear \in BOOLEAN
  PROVE  Notes(NotifyWaitFirst(c, ticks, clear), c, noting \cup {c.cur})
<1> DEFINE x == c.cur  later == noting \cup {x}  r == [c.tcb[x] EXCEPT !.note = 0]
           m == TcbSet(c, x, r)
<1>1. Steady(c, later) /\ x \in later
  BY MoreNoting
<1> HIDE DEF later
<1>2. c \in KernelType /\ x \in Everyone /\ Listed(c, later, x)
  BY <1>1 DEF Steady, Sound
<1>3. Exists(c, x) /\ x \notin ToSet(c.ended)
  BY <1>2 DEF Listed, StateListed
<1>4. NoteBlock(r, c, x, later)
  <2>1. c.tcb[x] \in Tcbs
    BY <1>2, TcbOf
  <2>2. /\ r \in Tcbs /\ r.priority = c.tcb[x].priority /\ r.wake = c.tcb[x].wake
        /\ r.state = c.tcb[x].state
    BY <2>1 DEF Tcbs
  <2> HIDE DEF r
  <2> QED
    BY <1>1, <1>3, <2>2 DEF NoteBlock, Exists
<1>5. NotifyWaitFirst(c, ticks, clear) = IF c.tcb[x].state = "received" THEN c
        ELSE Await(IF clear THEN m ELSE c, ticks)
  BY DEF NotifyWaitFirst, TcbSet
<1> HIDE DEF r
<1>6. NoteChanged(m, c, x, later)
  BY <1>1, <1>2, <1>3, <1>4, NotedBlock
<1> HIDE DEF m
<1>7. Steady(m, later) /\ m.cur = x /\ IsReady(m, m.cur) /\ m.locked = 0
  BY <1>2, <1>6 DEF NoteChanged, Keeps, Holds, KeepsReady
<1>8. Notes(Await(m, ticks), m, later) /\ Notes(Await(c, ticks), c, later)
  BY <1>1, <1>7, AwaitNotes
<1>9. Notes(Await(m, ticks), c, later) /\ Notes(c, c, later)
  BY <1>1, <1>7, <1>8 DEF Notes
<1>10. Notes(NotifyWaitFirst(c, ticks, clear), c, later)
  BY <1>5, <1>8, <1>9
<1> QED
  BY <1>10 DEF later

\* The second section.
LEMMA LookedSteady ==
  ASSUME NEW c, NEW noting, Steady(c, noting), IsReady(c, c.cur), c.locked = 0, NEW clear \in BOOLEAN
  PROVE  /\ Keeps(ulTaskNotifyTake(c, clear), c, noting \ {c.cur})
         /\ Keeps(xTaskNotifyWait(c, clear), c, noting \ {c.cur})
<1> DEFINE x == c.cur  n == c.tcb[x].note
           taken == IF n = 0 \/ clear THEN 0 ELSE n - 1
           waited == IF clear /\ c.tcb[x].state = "received" THEN 0 ELSE n
           r(m) == [c.tcb[x] EXCEPT !.state = "not waiting", !.note = m]
<1>1. c \in KernelType /\ x \in Everyone /\ Listed(c, noting, x) /\ c.tcb[x] \in Tcbs
  BY TcbOf DEF Steady, Sound
<1>2. Exists(c, x) /\ n \in Nat
  BY <1>1, TcbOf DEF Listed, StateListed
<1>4. taken \in Nat /\ waited \in Nat
  BY <1>2
<1>5. /\ ulTaskNotifyTake(c, clear) = TcbSet(c, x, r(taken))
      /\ xTaskNotifyWait(c, clear) = TcbSet(c, x, r(waited))
  <2>1. c.tcb \in [Everyone -> Tcbs]
    BY <1>1 DEF KernelType
  <2>2. ulTaskNotifyTake(c, clear) = TcbSet(c, x, r(taken))
    BY <1>1, <2>1 DEF ulTaskNotifyTake, KernelType, Tcbs, TcbSet
  <2>3. xTaskNotifyWait(c, clear) = TcbSet(c, x, r(waited))
    BY <1>1, <2>1 DEF xTaskNotifyWait, KernelType, Tcbs, TcbSet
  <2> QED
    BY <2>2, <2>3
<1> HIDE DEF taken, waited
<1>6. ASSUME NEW m \in Nat
      PROVE  Keeps(TcbSet(c, x, r(m)), c, noting \ {x})
  <2> DEFINE b == r(m)  e == TcbSet(c, x, b)
  <2>1. b \in Tcbs /\ b.priority = c.tcb[x].priority /\ b.wake = c.tcb[x].wake /\ b.state = "not waiting"
    <3> DEFINE u == c.tcb[x]
    <3>1. u \in Tcbs
      BY <1>1
    <3> HIDE DEF u
    <3>2. LET v == [u EXCEPT !.state = "not waiting", !.note = m]
          IN  v \in Tcbs /\ v.priority = u.priority /\ v.wake = u.wake /\ v.state = "not waiting"
      BY <3>1 DEF Tcbs, NoteStates
    <3> QED
      BY <3>2 DEF u
  <2> HIDE DEF b
  <2>2. NoteBlock(b, c, x, noting)
    BY <2>1 DEF NoteBlock
  <2>0. NoteChanged(e, c, x, noting) /\ e.tcb[x] = b
    BY <1>1, <1>2, <2>2, NotedBlock
  <2> HIDE DEF e
  <2>3. NoteChanged(e, c, x, noting) /\ e.tcb[x].state = "not waiting"
    BY <2>0, <2>1
  <2>4. Steady(e, noting) /\ e.locked = 0 /\ e.tcb[x].state # "waiting"
    BY <2>3 DEF NoteChanged, Keeps, Holds
  <2>5. Steady(e, noting \ {x})
    BY <2>4, LessNoting
  <2>6. Keeps(e, c, noting \ {x})
    BY <2>3, <2>5 DEF NoteChanged, Keeps, Holds
  <2> QED
    BY <2>6 DEF e, b
<1>7. Keeps(TcbSet(c, x, r(taken)), c, noting \ {x}) /\ Keeps(TcbSet(c, x, r(waited)), c, noting \ {x})
  BY <1>4, <1>6
<1> HIDE DEF r
<1> QED
  BY <1>5, <1>7

LEMMA NotedNat ==
  ASSUME NEW r \in Tcbs, NEW action \in Actions, NEW value \in Nat
  PROVE  NotedValue(r, action, value) \in Nat
<1>1. r.note \in Nat
  BY DEF Tcbs
<1>2. r.note + 1 \in Nat
  BY <1>1
<1>3. (IF r.note % 2 = 0 THEN r.note + 1 ELSE r.note) \in Nat
  BY <1>1, <1>2
<1>4. (IF r.state = "received" THEN r.note ELSE value) \in Nat
  BY <1>1
<1>5. action \in {"setBits", "increment", "overwrite", "noOverwrite", "none"}
  BY DEF Actions
<1> QED
  BY <1>1, <1>2, <1>3, <1>4, <1>5 DEF NotedValue

LEMMA NotedKeeps ==
  ASSUME NEW c, NEW noting, Steady(c, noting), NEW x \in Everyone, Exists(c, x),
         NEW action \in Actions, NEW value \in Nat
  PROVE  LET d == Noted(c, x, action, value)
         IN  NoteChanged(d, c, x, noting) /\ Exists(d, x) /\ d.tcb[x].state = "received"
<1> DEFINE n == NotedValue(c.tcb[x], action, value)
           r == [c.tcb[x] EXCEPT !.state = "received", !.note = n]
           d == TcbSet(c, x, r)
<1>1. c \in KernelType /\ c.tcb \in [Everyone -> Tcbs] /\ c.tcb[x] \in Tcbs
  BY DEF Steady, Sound, KernelType
<1>2. n \in Nat
  BY <1>1, NotedNat
<1>3. Noted(c, x, action, value) = [c EXCEPT !.tcb[x].state = "received", !.tcb[x].note = n]
  BY DEF Noted
<1> HIDE DEF n
<1>4. [c EXCEPT !.tcb[x].state = "received", !.tcb[x].note = n] = d
  BY <1>1 DEF KernelType, Tcbs, TcbSet
<1>5. /\ r \in Tcbs /\ r.priority = c.tcb[x].priority /\ r.wake = c.tcb[x].wake
      /\ r.state = "received"
  <2> DEFINE u == c.tcb[x]
  <2>1. u \in Tcbs
    BY <1>1
  <2> HIDE DEF u
  <2>2. LET v == [u EXCEPT !.state = "received", !.note = n]
        IN  v \in Tcbs /\ v.priority = u.priority /\ v.wake = u.wake /\ v.state = "received"
    BY <1>2, <2>1 DEF Tcbs, NoteStates
  <2> QED
    BY <2>2 DEF u
<1> HIDE DEF r
<1>6. NoteBlock(r, c, x, noting)
  BY <1>5 DEF NoteBlock
<1>7. NoteChanged(d, c, x, noting) /\ Exists(d, x) /\ d.tcb[x] = r
  BY <1>6, NotedBlock
<1> HIDE DEF d
<1> QED
  BY <1>3, <1>4, <1>5, <1>7

LEMMA NotifyKeeps ==
  ASSUME NEW c, NEW noting, Steady(c, noting), NEW x \in Everyone, Exists(c, x),
         NEW action \in Actions, NEW value \in Nat
  PROVE  Keeps(xTaskGenericNotify(c, x, action, value), c, noting)
<1> DEFINE m == Noted(c, x, action, value)  w == Readied(m, x)
<1>1. xTaskGenericNotify(c, x, action, value) =
        IF c.tcb[x].state # "waiting" THEN m
        ELSE IF "tickless" \in c.has THEN prvResetNextTaskUnblockTime(w) ELSE w
  BY DEF xTaskGenericNotify
<1>2. NoteChanged(m, c, x, noting) /\ Exists(m, x)
  BY NotedKeeps
<1> HIDE DEF m
<1>3. Keeps(m, c, noting) /\ Steady(m, noting)
  BY <1>2 DEF NoteChanged, Keeps, Holds
<1>4. Gains(w, m, noting)
  BY <1>2, <1>3, ReadiedGains
<1> HIDE DEF w
<1>5. Gains(prvResetNextTaskUnblockTime(w), w, noting)
  BY <1>4, ResetGains DEF Gains, Passes
<1>6. Keeps(w, c, noting)
  BY <1>3, <1>4, GainsKeeps, KeepsTwice
<1>7. Keeps(prvResetNextTaskUnblockTime(w), c, noting)
  BY <1>5, <1>6, GainsKeeps, KeepsTwice
<1> QED
  BY <1>1, <1>3, <1>6, <1>7

LEMMA NotifyFromISRKeeps ==
  ASSUME NEW c, NEW noting, Steady(c, noting), NEW x \in Everyone, Exists(c, x),
         c.tcb[x].state = "waiting" => ~HasEvent(c, x),
         NEW action \in Actions, NEW value \in Nat
  PROVE  Keeps(xTaskGenericNotifyFromISR(c, x, action, value), c, noting)
<1> DEFINE m == Noted(c, x, action, value)  w == Readied(m, x)  a == [m EXCEPT !.pending = Append(@, x)]
           e == IF c.locked = 0 THEN w ELSE a
           b == e.yield \/ NotifyYields(c, x)
<1>1. xTaskGenericNotifyFromISR(c, x, action, value) =
        IF c.tcb[x].state # "waiting" THEN m ELSE [e EXCEPT !.yield = b]
  BY DEF xTaskGenericNotifyFromISR
<1>2. NoteChanged(m, c, x, noting) /\ Exists(m, x)
  BY NotedKeeps
<1> HIDE DEF m
<1>3. Keeps(m, c, noting) /\ Steady(m, noting)
  BY <1>2 DEF NoteChanged, Keeps, Holds
<1>4. CASE c.tcb[x].state # "waiting"
  BY <1>1, <1>3, <1>4
<1>5. CASE c.tcb[x].state = "waiting"
  <2>1. c \in KernelType /\ Listed(c, noting, x) /\ m.locked = c.locked /\ c.locked \in {0, 1}
    BY <1>3 DEF Steady, Sound, Keeps, Holds
  <2>2. Eventless(c, x) /\ x \notin ToSet(c.ended) /\ x \in noting
    BY <1>5, <2>1, WhereIs DEF Listed
  <2>3. Gains(e, m, noting)
    <3>1. CASE c.locked = 0
      <4>1. Gains(w, m, noting)
        BY <1>2, <1>3, ReadiedGains
      <4> QED
        BY <3>1, <4>1
    <3>2. CASE c.locked = 1
      <4>1. Eventless(m, x) /\ x \notin ToSet(m.ended)
        BY <1>2, <2>2 DEF NoteChanged, SamePlaces, SameEvents, Eventless, Awaits
      <4>2. /\ Sound(a, noting) /\ SameReady(a, m) /\ SameRest(a, m) /\ a.tcb = m.tcb
            /\ Calm(a, m)
        BY <1>2, <1>3, <2>2, <4>1, PendingAdded DEF Steady
      <4>3. e = a
        BY <3>2
      <4> HIDE DEF a, e
      <4>4. Gains(a, m, noting)
        BY <1>3, <2>1, <3>2, <4>2, AsideGains
      <4> QED
        BY <4>3, <4>4
    <3> QED
      BY <2>1, <3>1, <3>2
  <2> HIDE DEF w, a, e
  <2>4. b \in BOOLEAN
    <3>1. e.yield \in BOOLEAN
      BY <2>3 DEF Gains, Passes, Steady, Sound, KernelType
    <3> QED
      BY <3>1 DEF NotifyYields
  <2> HIDE DEF b
  <2>5. Gains([e EXCEPT !.yield = b], e, noting)
    BY <2>3, <2>4, YieldGains DEF Gains, Passes
  <2>6. Keeps(e, c, noting)
    BY <1>3, <2>3, GainsKeeps, KeepsTwice
  <2>7. Keeps([e EXCEPT !.yield = b], c, noting)
    BY <2>5, <2>6, GainsKeeps, KeepsTwice
  <2> QED
    BY <1>1, <1>5, <2>7
<1> QED
  BY <1>4, <1>5

LEMMA StateClearKeeps ==
  ASSUME NEW c, NEW noting, Steady(c, noting), NEW x \in Everyone, Exists(c, x)
  PROVE  Keeps(xTaskNotifyStateClear(c, x), c, noting)
<1> DEFINE state == IF c.tcb[x].state = "received" THEN "not waiting" ELSE c.tcb[x].state
           r == [c.tcb[x] EXCEPT !.state = state]  d == TcbSet(c, x, r)
<1>1. c \in KernelType /\ c.tcb \in [Everyone -> Tcbs] /\ c.tcb[x] \in Tcbs /\ Listed(c, noting, x)
  BY DEF Steady, Sound, KernelType
<1>2. xTaskNotifyStateClear(c, x) = d
  BY <1>1 DEF xTaskNotifyStateClear, TcbSet, KernelType, Tcbs
<1>3. state \in NoteStates \ {"none"} /\ (state = "waiting" => c.tcb[x].state = "waiting")
  BY <1>1 DEF Tcbs, NoteStates, Exists
<1> HIDE DEF state
<1>4. r \in Tcbs /\ r.priority = c.tcb[x].priority /\ r.wake = c.tcb[x].wake /\ r.state = state
  BY <1>1, <1>3 DEF Tcbs
<1> HIDE DEF r
<1>5. NoteBlock(r, c, x, noting)
  BY <1>1, <1>3, <1>4 DEF NoteBlock, Listed
<1>6. NoteChanged(d, c, x, noting)
  BY <1>5, NotedBlock
<1> HIDE DEF d
<1> QED
  BY <1>2, <1>6 DEF NoteChanged

-----------------------------------------------------------------------------
(* Queues                                                                  *)

System(z, noting) ==
  z = [k |-> z.k, q |-> z.q] /\ Steady(z.k, noting) /\ QueuesSound(z.q)
Told(d, c, noting) == System(d, noting) /\ Keeps(d.k, c.k, noting)

LEMMA ToldTwice ==
  ASSUME NEW c, NEW d, NEW e, NEW noting, Told(d, c, noting), Told(e, d, noting)
  PROVE  Told(e, c, noting)
BY KeepsTwice DEF Told

LEMMA ToldSelf ==
  ASSUME NEW c, NEW noting, System(c, noting)
  PROVE  Told(c, c, noting)
BY KeepsSelf DEF Told, System

\* The queue of x, or the scheduler, changes.
LEMMA QueueSet ==
  ASSUME NEW c, NEW noting, System(c, noting), NEW x \in Queues, NEW queue, QueueSound(queue)
  PROVE  LET d == [c EXCEPT !.q[x] = queue]
         IN  /\ Told(d, c, noting) /\ d.k = c.k /\ d.q[x] = queue
             /\ \A y \in Queues \ {x} : d.q[y] = c.q[y]
<1> DEFINE n == [c.q EXCEPT ![x] = queue]  d == [c EXCEPT !.q = n]
<1>1. DOMAIN n = Queues /\ n[x] = queue /\ \A y \in Queues \ {x} : n[y] = c.q[y]
  BY DEF System, QueuesSound
<1>2. QueuesSound(n)
  BY <1>1 DEF System, QueuesSound
<1> HIDE DEF n
<1>3. d.k = c.k /\ d.q = n /\ d = [k |-> d.k, q |-> d.q]
  BY DEF System
<1> HIDE DEF d
<1>4. Told(d, c, noting)
  BY <1>2, <1>3, KeepsSelf DEF Told, System
<1> QED
  BY <1>1, <1>3, <1>4 DEF d, n

LEMMA KernelSet ==
  ASSUME NEW c, NEW noting, System(c, noting), NEW m, Keeps(m, c.k, noting)
  PROVE  LET d == [c EXCEPT !.k = m]
         IN  Told(d, c, noting) /\ d.k = m /\ d.q = c.q
<1> DEFINE d == [c EXCEPT !.k = m]
<1>1. d.k = m /\ d.q = c.q /\ d = [k |-> d.k, q |-> d.q]
  BY DEF System
<1> HIDE DEF d
<1>2. Told(d, c, noting)
  BY <1>1 DEF Told, System, Keeps, Holds
<1> QED
  BY <1>1, <1>2 DEF d

LEMMA FieldSet ==
  ASSUME NEW queue, QueueSound(queue)
  PROVE  /\ \A n : QueueSound([queue EXCEPT !.count = n]) /\ QueueSound([queue EXCEPT !.calls = n])
         /\ \A n \in Int : QueueSound([queue EXCEPT !.rx = n]) /\ QueueSound([queue EXCEPT !.tx = n])
         /\ \A t \in Everyone \cup {NoTask} : QueueSound([queue EXCEPT !.holder = t])
         /\ \A set \in Queues \cup {NoQueue} : QueueSound([queue EXCEPT !.set = set])
<1>1. ASSUME NEW n
      PROVE  QueueSound([queue EXCEPT !.count = n]) /\ QueueSound([queue EXCEPT !.calls = n])
  BY DEF QueueSound
<1>2. ASSUME NEW n \in Int
      PROVE  QueueSound([queue EXCEPT !.rx = n]) /\ QueueSound([queue EXCEPT !.tx = n])
  BY DEF QueueSound
<1>3. ASSUME NEW t \in Everyone \cup {NoTask}
      PROVE  QueueSound([queue EXCEPT !.holder = t])
  BY DEF QueueSound
<1>4. ASSUME NEW set \in Queues \cup {NoQueue}
      PROVE  QueueSound([queue EXCEPT !.set = set])
  BY DEF QueueSound
<1> QED
  BY <1>1, <1>2, <1>3, <1>4

LEMMA PutSound ==
  ASSUME NEW queue, QueueSound(queue), NEW item
  PROVE  /\ QueueSound(PutAtBack(queue, item)) /\ QueueSound(PutInFront(queue, item))
         /\ QueueSound(Overwrite(queue, item)) /\ QueueSound(prvCopyDataFromQueue(queue))
<1>1. QueueSound(PutAtBack(queue, item))
  BY DEF PutAtBack, QueueSound
<1>2. QueueSound(PutInFront(queue, item))
  BY DEF PutInFront, QueueSound
<1> DEFINE m == PutInFront(queue, item)
<1>3. Overwrite(queue, item) = [m EXCEPT !.count = IF queue.count > 0 THEN queue.count ELSE m.count]
  BY DEF Overwrite
<1> HIDE DEF m
<1>4. QueueSound([m EXCEPT !.count = IF queue.count > 0 THEN queue.count ELSE m.count])
  BY <1>2, FieldSet DEF m
<1>5. QueueSound(prvCopyDataFromQueue(queue))
  BY DEF prvCopyDataFromQueue, QueueSound
<1> QED
  BY <1>1, <1>2, <1>3, <1>4, <1>5

LEMMA SideOf ==
  ASSUME NEW x \in Queues
  PROVE  <<x, "send">> \in EventLists /\ <<x, "receive">> \in EventLists
BY QueuesAssumption

LEMMA WakeTold ==
  ASSUME NEW c, NEW noting, System(c, noting), NEW e \in EventLists
  PROVE  Told(Wake(c, e), c, noting) /\ Wake(c, e).q = c.q
<1>1. CASE c.k.waiting[e] = <<>>
  BY <1>1, ToldSelf DEF Wake
<1>2. CASE c.k.waiting[e] # <<>>
  <2> DEFINE m == xTaskRemoveFromEventList(c.k, e)
  <2>1. Keeps(m, c.k, noting)
    BY <1>2, RemovedGains, GainsKeeps DEF System
  <2>2. Wake(c, e) = [c EXCEPT !.k = m]
    BY <1>2 DEF Wake
  <2> HIDE DEF m
  <2> QED
    BY <2>1, <2>2, KernelSet
<1> QED
  BY <1>1, <1>2

LEMMA CopyTold ==
  ASSUME NEW c, NEW noting, System(c, noting), NEW x \in Queues, NEW item,
         NEW position \in {"back", "front", "overwrite"}
  PROVE  LET d == prvCopyDataToQueue(c, x, item, position)
         IN  /\ Told(d, c, noting) /\ d.q[x].set = c.q[x].set /\ d.q[x].tx = c.q[x].tx
             /\ \A y \in Queues \ {x} : d.q[y] = c.q[y]
<1> DEFINE queue == c.q[x]  d == prvCopyDataToQueue(c, x, item, position)
<1>1. QueueSound(queue)
  BY DEF System, QueuesSound
<1>2. CASE queue.mutex
  <2> DEFINE m == xTaskPriorityDisinherit(c.k, queue.holder)
             e == [c EXCEPT !.k = m]
             n == queue.count + 1
             r == [[queue EXCEPT !.holder = NoTask] EXCEPT !.count = n]
             f == [e EXCEPT !.q[x] = r]
  <2>1. Keeps(m, c.k, noting)
    BY <1>1, DisinheritKeeps DEF System, QueueSound
  <2>2. d = [c EXCEPT !.k = m, !.q[x].holder = NoTask, !.q[x].count = @ + 1]
    BY <1>2 DEF prvCopyDataToQueue
  <2>3. QueueSound(r) /\ r.set = queue.set /\ r.tx = queue.tx
    BY <1>1 DEF QueueSound
  <2> HIDE DEF m
  <2>4. d = f
    BY <2>2 DEF System, QueuesSound
  <2> HIDE DEF d
  <2>5. Told(e, c, noting) /\ e.k = m /\ e.q = c.q
    BY <2>1, KernelSet
  <2> HIDE DEF e, r
  <2>6. /\ Told(f, e, noting) /\ f.q[x] = r
        /\ \A y \in Queues \ {x} : f.q[y] = e.q[y]
    BY <2>3, <2>5, QueueSet DEF Told
  <2> HIDE DEF f
  <2>7. Told(f, c, noting)
    BY <2>5, <2>6, ToldTwice
  <2> QED
    BY <2>3, <2>4, <2>5, <2>6, <2>7 DEF d
<1>3. CASE ~queue.mutex
  <2> DEFINE r == IF ~queue.items THEN [queue EXCEPT !.count = queue.count + 1]
                  ELSE CASE position = "back" -> PutAtBack(queue, item)
                         [] position = "front" -> PutInFront(queue, item)
                         [] position = "overwrite" -> Overwrite(queue, item)
             f == [c EXCEPT !.q[x] = r]
  <2>1. d = f
    BY <1>3 DEF prvCopyDataToQueue
  <2>2. QueueSound(r)
    BY <1>1, PutSound, FieldSet
  <2>3. r.set = queue.set /\ r.tx = queue.tx
    BY <1>1 DEF QueueSound, PutAtBack, PutInFront, Overwrite
  <2> HIDE DEF r, d
  <2>4. /\ Told(f, c, noting) /\ f.q[x] = r
        /\ \A y \in Queues \ {x} : f.q[y] = c.q[y]
    BY <2>2, QueueSet
  <2> HIDE DEF f
  <2> QED
    BY <2>1, <2>3, <2>4 DEF d
<1> QED
  BY <1>2, <1>3

\* A field of the record of x changes.
LEMMA FieldTold ==
  ASSUME NEW c, NEW noting, System(c, noting), NEW x \in Queues
  PROVE  /\ Told([c EXCEPT !.q[x].tx = @ + 1], c, noting)
         /\ Told([c EXCEPT !.q[x].rx = @ + 1], c, noting)
         /\ Told([c EXCEPT !.q[x].tx = Unlocked], c, noting)
         /\ Told([c EXCEPT !.q[x].rx = Unlocked], c, noting)
         /\ Told([c EXCEPT !.q[x].count = @ + 1], c, noting)
         /\ Told([c EXCEPT !.q[x].count = @ - 1], c, noting)
<1> DEFINE queue == c.q[x]
<1>1. QueueSound(queue)
  BY DEF System, QueuesSound
<1>2. queue.tx + 1 \in Int /\ queue.rx + 1 \in Int /\ Unlocked \in Int
  BY <1>1 DEF QueueSound, Unlocked
<1> HIDE DEF queue
<1>3. /\ QueueSound([queue EXCEPT !.tx = queue.tx + 1]) /\ QueueSound([queue EXCEPT !.rx = queue.rx + 1])
      /\ QueueSound([queue EXCEPT !.tx = Unlocked]) /\ QueueSound([queue EXCEPT !.rx = Unlocked])
      /\ QueueSound([queue EXCEPT !.count = queue.count + 1])
      /\ QueueSound([queue EXCEPT !.count = queue.count - 1])
  BY <1>1, <1>2, FieldSet
<1>4. /\ Told([c EXCEPT !.q[x] = [queue EXCEPT !.tx = queue.tx + 1]], c, noting)
      /\ Told([c EXCEPT !.q[x] = [queue EXCEPT !.rx = queue.rx + 1]], c, noting)
      /\ Told([c EXCEPT !.q[x] = [queue EXCEPT !.tx = Unlocked]], c, noting)
      /\ Told([c EXCEPT !.q[x] = [queue EXCEPT !.rx = Unlocked]], c, noting)
      /\ Told([c EXCEPT !.q[x] = [queue EXCEPT !.count = queue.count + 1]], c, noting)
      /\ Told([c EXCEPT !.q[x] = [queue EXCEPT !.count = queue.count - 1]], c, noting)
  BY <1>3, QueueSet
<1> QED
  BY <1>4 DEF queue

LEMMA SetTold ==
  ASSUME NEW c, NEW noting, System(c, noting), NEW x \in Queues, c.q[x].set # NoQueue,
         NEW position \in {"back", "front", "overwrite"}
  PROVE  Told(prvNotifyQueueSetContainer(c, x, position), c, noting)
<1> DEFINE set == c.q[x].set
           put == prvCopyDataToQueue(c, set, x, position)
<1>1. set \in Queues
  BY DEF System, QueuesSound, QueueSound
<1>2. Told(put, c, noting)
  BY <1>1, CopyTold
<1>3. System(put, noting)
  BY <1>2 DEF Told
<1>4. Told(c, c, noting)
  BY ToldSelf
<1>5. /\ Told(Wake(put, <<set, "receive">>), put, noting)
      /\ Told([put EXCEPT !.q[set].tx = @ + 1], put, noting)
  BY <1>1, <1>3, SideOf, WakeTold, FieldTold
<1>6. /\ Told(Wake(put, <<set, "receive">>), c, noting)
      /\ Told([put EXCEPT !.q[set].tx = @ + 1], c, noting)
  BY <1>2, <1>5, ToldTwice
<1>7. prvNotifyQueueSetContainer(c, x, position) \in
        {c, Wake(put, <<set, "receive">>), [put EXCEPT !.q[set].tx = @ + 1]}
  BY DEF prvNotifyQueueSetContainer
<1> HIDE DEF put, set
<1> QED
  BY <1>4, <1>6, <1>7

LEMMA AnnounceTold ==
  ASSUME NEW c, NEW noting, System(c, noting), NEW x \in Queues,
         NEW position \in {"back", "front", "overwrite"}
  PROVE  Told(Announce(c, x, position), c, noting) /\ Told(AnnounceFromISR(c, x, position), c, noting)
<1>1. Told(Announce(c, x, position), c, noting)
  BY SetTold, WakeTold, SideOf DEF Announce
<1> QED
  BY <1>1, FieldTold DEF AnnounceFromISR

LEMMA SendTold ==
  ASSUME NEW c, NEW noting, System(c, noting), NEW x \in Queues, NEW item,
         NEW position \in {"back", "front", "overwrite"}
  PROVE  /\ Told(xQueueGenericSend(c, x, item, position), c, noting)
         /\ Told(xQueueGenericSendFromISR(c, x, item, position), c, noting)
<1> DEFINE put == prvCopyDataToQueue(c, x, item, position)
<1>1. Told(put, c, noting)
  BY CopyTold
<1>2. System(put, noting)
  BY <1>1 DEF Told
<1>3. xQueueGenericSend(c, x, item, position) \in {put, Announce(put, x, position)}
  BY DEF xQueueGenericSend
<1>4. xQueueGenericSendFromISR(c, x, item, position) = AnnounceFromISR(put, x, position)
  BY DEF xQueueGenericSendFromISR
<1> HIDE DEF put
<1>5. Told(Announce(put, x, position), put, noting) /\ Told(AnnounceFromISR(put, x, position), put, noting)
  BY <1>2, AnnounceTold
<1>6. Told(Announce(put, x, position), c, noting) /\ Told(AnnounceFromISR(put, x, position), c, noting)
  BY <1>1, <1>5, ToldTwice
<1> QED
  BY <1>1, <1>3, <1>4, <1>6

LEMMA GiveTold ==
  ASSUME NEW c, NEW noting, System(c, noting), NEW x \in Queues
  PROVE  Told(xQueueGiveFromISR(c, x), c, noting)
<1> DEFINE more == [c EXCEPT !.q[x].count = @ + 1]
<1>1. Told(more, c, noting)
  BY FieldTold
<1> HIDE DEF more
<1>2. Told(AnnounceFromISR(more, x, "back"), more, noting)
  BY <1>1, AnnounceTold DEF Told
<1>3. xQueueGiveFromISR(c, x) = AnnounceFromISR(more, x, "back")
  BY DEF xQueueGiveFromISR, more
<1> QED
  BY <1>1, <1>2, <1>3, ToldTwice

LEMMA ReceiveTold ==
  ASSUME NEW c, NEW noting, System(c, noting), NEW x \in Queues
  PROVE  /\ Told(xQueueReceive(c, x), c, noting)
         /\ Told(xQueueReceiveFromISR(c, x), c, noting)
         /\ Told(xQueuePeek(c, x), c, noting) /\ xQueuePeek(c, x).q = c.q
<1> DEFINE copied == prvCopyDataFromQueue(c.q[x])
           got == [c EXCEPT !.q[x] = [copied EXCEPT !.count = copied.count - 1]]
<1>1. QueueSound(copied)
  BY PutSound DEF System, QueuesSound
<1> HIDE DEF copied
<1>2. QueueSound([copied EXCEPT !.count = copied.count - 1])
  BY <1>1, FieldSet
<1>3. Told(got, c, noting)
  BY <1>2, QueueSet
<1>4. xQueueReceive(c, x) = Wake(got, <<x, "send">>)
  BY DEF xQueueReceive, Got, copied
<1>5. xQueueReceiveFromISR(c, x) \in {Wake(got, <<x, "send">>), [got EXCEPT !.q[x].rx = @ + 1]}
  BY DEF xQueueReceiveFromISR, Got, copied
<1> HIDE DEF got
<1>6. System(got, noting)
  BY <1>3 DEF Told
<1>7. /\ Told(Wake(got, <<x, "send">>), got, noting)
      /\ Told([got EXCEPT !.q[x].rx = @ + 1], got, noting)
  BY <1>6, WakeTold, SideOf, FieldTold
<1>8. /\ Told(Wake(got, <<x, "send">>), c, noting)
      /\ Told([got EXCEPT !.q[x].rx = @ + 1], c, noting)
  BY <1>3, <1>7, ToldTwice
<1>9. Told(xQueuePeek(c, x), c, noting) /\ xQueuePeek(c, x).q = c.q
  BY WakeTold, SideOf DEF xQueuePeek
<1> QED
  BY <1>4, <1>5, <1>8, <1>9

LEMMA TakeTold ==
  ASSUME NEW c, NEW noting, System(c, noting), NEW x \in Queues
  PROVE  Told(xQueueSemaphoreTake(c, x), c, noting)
<1> DEFINE less == [c EXCEPT !.q[x].count = @ - 1]
           m == pvTaskIncrementMutexHeldCount(less.k)
           kept == [less EXCEPT !.k = m]
           r == [kept.q[x] EXCEPT !.holder = c.k.cur]
           held == [kept EXCEPT !.q[x] = r]
           taken == IF c.q[x].mutex THEN held ELSE less
<1>12. Told(less, c, noting)
  BY FieldTold
<1>2. xQueueSemaphoreTake(c, x) = Wake(taken, <<x, "send">>)
  BY DEF xQueueSemaphoreTake
<1> HIDE DEF less
<1>1. Told(less, c, noting) /\ System(less, noting) /\ Steady(less.k, noting)
  BY <1>12 DEF Told, System
<1>3. Keeps(m, less.k, noting)
  BY <1>1, MutexTakenKeeps
<1> HIDE DEF m
<1>4. Told(kept, less, noting) /\ System(kept, noting)
  BY <1>1, <1>3, KernelSet DEF Told
<1>5. QueueSound(kept.q[x])
  BY <1>4 DEF System, QueuesSound
<1>6. c.k.cur \in Everyone
  BY DEF System, Steady
<1> HIDE DEF kept
<1>7. QueueSound(r)
  BY <1>5, <1>6, FieldSet
<1> HIDE DEF r
<1>8. Told(held, kept, noting)
  BY <1>4, <1>7, QueueSet
<1> HIDE DEF held
<1>9. Told(held, c, noting)
  BY <1>1, <1>4, <1>8, ToldTwice
<1>10. Told(taken, c, noting)
  BY <1>1, <1>9
<1> HIDE DEF taken
<1>11. Told(Wake(taken, <<x, "send">>), taken, noting)
  BY <1>10, WakeTold, SideOf DEF Told
<1> QED
  BY <1>2, <1>10, <1>11, ToldTwice

LEMMA ResetTold ==
  ASSUME NEW c, NEW noting, System(c, noting), NEW x \in Queues
  PROVE  Told(xQueueGenericReset(c, x), c, noting)
<1> DEFINE r == [c.q[x] EXCEPT !.count = 0, !.write = 0, !.read = c.q[x].len - 1,
                               !.rx = Unlocked, !.tx = Unlocked, !.holder = NoTask, !.calls = 0]
           empty == [c EXCEPT !.q[x] = r]
<1>1. QueueSound(r)
  BY DEF System, QueuesSound, QueueSound, Unlocked
<1>2. xQueueGenericReset(c, x) = Wake(empty, <<x, "send">>)
  <2> DEFINE b == [c EXCEPT !.q[x].count = 0, !.q[x].write = 0, !.q[x].read = c.q[x].len - 1,
                            !.q[x].rx = Unlocked, !.q[x].tx = Unlocked]
             n == [c.q[x] EXCEPT !.count = 0, !.write = 0, !.read = c.q[x].len - 1,
                                 !.rx = Unlocked, !.tx = Unlocked]
             both == [b EXCEPT !.q[x].holder = NoTask, !.q[x].calls = 0]
  <2>1. xQueueGenericReset(c, x) = Wake(both, <<x, "send">>)
    BY DEF xQueueGenericReset
  <2>2. b = [c EXCEPT !.q[x] = n]
    BY DEF System, QueuesSound
  <2>3. r = [n EXCEPT !.holder = NoTask, !.calls = 0]
    OBVIOUS
  <2> HIDE DEF b, n, r
  <2>4. both = empty
    BY <2>2, <2>3 DEF System, QueuesSound
  <2> QED
    BY <2>1, <2>4
<1> HIDE DEF r
<1>3. Told(empty, c, noting)
  BY <1>1, QueueSet
<1> HIDE DEF empty
<1>4. Told(Wake(empty, <<x, "send">>), empty, noting)
  BY <1>3, WakeTold, SideOf DEF Told
<1> QED
  BY <1>2, <1>3, <1>4, ToldTwice

\* What a locked queue missed is told n times.
Tell(z, x, sent) == IF sent THEN Announce(z, x, "back") ELSE Wake(z, <<x, "send">>)
Tells(f, n, z, x, sent) ==
  f = [i \in 0..n |-> IF i = 0 THEN z ELSE Tell(f[i - 1], x, sent)]

LEMMA Tellable ==
  ASSUME NEW N \in Nat, NEW z, NEW x, NEW sent
  PROVE  \E f : Tells(f, N, z, x, sent)
<1> DEFINE T == {n \in 0..N : \E f : Tells(f, n, z, x, sent)}
<1>1. 0 \in T
  <2> DEFINE f == [i \in 0..0 |-> z]
  <2>1. f = [i \in 0..0 |-> IF i = 0 THEN z ELSE Tell(f[i - 1], x, sent)]
    <3>1. \A i \in 0..0 : i = 0
      OBVIOUS
    <3> QED
      BY <3>1
  <2> HIDE DEF f
  <2>2. Tells(f, 0, z, x, sent)
    BY <2>1 DEF Tells
  <2> QED
    BY <2>2
<1>2. ASSUME NEW n \in 0..N, n \in T, n # N
      PROVE  n + 1 \in T
  <2>1. PICK f : Tells(f, n, z, x, sent)
    BY <1>2
  <2>2. f = [i \in 0..n |-> IF i = 0 THEN z ELSE Tell(f[i - 1], x, sent)]
    BY <2>1 DEF Tells
  <2> DEFINE g == [i \in 0..(n + 1) |-> IF i = n + 1 THEN Tell(f[n], x, sent) ELSE f[i]]
             body(i) == IF i = 0 THEN z ELSE Tell(g[i - 1], x, sent)
  <2>3. \A i \in 0..n : g[i] = f[i]
    OBVIOUS
  <2>4. g[n + 1] = Tell(f[n], x, sent)
    OBVIOUS
  <2>5. DOMAIN g = 0..(n + 1) /\ g = [i \in 0..(n + 1) |-> g[i]]
    OBVIOUS
  <2> HIDE DEF g
  <2>6. ASSUME NEW i \in 0..(n + 1)
        PROVE  g[i] = body(i)
    <3>1. CASE i = n + 1
      <4>1. i # 0 /\ i - 1 = n /\ n \in 0..n
        BY <3>1
      <4>2. g[i - 1] = f[n]
        BY <2>3, <4>1
      <4> QED
        BY <2>4, <3>1, <4>1, <4>2
    <3>2. CASE i # n + 1 /\ i # 0
      <4>1. i \in 0..n /\ i - 1 \in 0..n
        BY <3>2
      <4>2. f[i] = Tell(f[i - 1], x, sent)
        BY <2>2, <3>2, <4>1
      <4> QED
        BY <2>3, <3>2, <4>1, <4>2
    <3>3. CASE i = 0
      <4>1. i \in 0..n
        BY <3>3
      <4> QED
        BY <2>2, <2>3, <3>3, <4>1
    <3> QED
      BY <3>1, <3>2, <3>3
  <2>7. g = [i \in 0..(n + 1) |-> body(i)]
    BY <2>5, <2>6
  <2>8. Tells(g, n + 1, z, x, sent)
    BY <2>7 DEF Tells
  <2>9. n + 1 \in 0..N
    BY <1>2
  <2> QED
    BY <2>8, <2>9
<1> HIDE DEF T
<1>3. N \in T
  BY <1>1, <1>2, BoundedInduction
<1> QED
  BY <1>3 DEF T

LEMMA TellTold ==
  ASSUME NEW c, NEW noting, System(c, noting), NEW x \in Queues, NEW sent \in BOOLEAN
  PROVE  Told(Tell(c, x, sent), c, noting)
BY AnnounceTold, WakeTold, SideOf DEF Tell

LEMMA TellsTold ==
  ASSUME NEW f, NEW N \in Nat, NEW c, NEW noting, System(c, noting), NEW x \in Queues,
         NEW sent \in BOOLEAN, Tells(f, N, c, x, sent)
  PROVE  Told(f[N], c, noting)
<1> DEFINE T == {n \in 0..N : Told(f[n], c, noting)}
<1>1. f = [i \in 0..N |-> IF i = 0 THEN c ELSE Tell(f[i - 1], x, sent)]
  BY DEF Tells
<1>2. f[0] = c /\ \A n \in 0..N : n # 0 => f[n] = Tell(f[n - 1], x, sent)
  BY <1>1
<1>3. 0 \in T
  BY <1>2, ToldSelf
<1>4. ASSUME NEW n \in 0..N, n \in T, n # N
      PROVE  n + 1 \in T
  <2>1. n + 1 \in 0..N /\ n + 1 # 0 /\ (n + 1) - 1 = n
    BY <1>4
  <2>2. f[n + 1] = Tell(f[n], x, sent)
    BY <1>2, <2>1
  <2>3. Told(f[n], c, noting) /\ System(f[n], noting)
    BY <1>4 DEF Told
  <2>4. Told(Tell(f[n], x, sent), f[n], noting)
    BY <2>3, TellTold
  <2>5. Told(f[n + 1], c, noting)
    BY <2>2, <2>3, <2>4, ToldTwice
  <2> QED
    BY <2>1, <2>5
<1> HIDE DEF T
<1>5. N \in T
  BY <1>3, <1>4, BoundedInduction
<1> QED
  BY <1>5 DEF T

LEMMA UnlockSentTold ==
  ASSUME NEW c, NEW noting, System(c, noting), NEW x \in Queues
  PROVE  Told(UnlockSent(c, x), c, noting)
<1> DEFINE times == Max({c.q[x].tx, 0})
           body(f) == [n \in 0..times |-> IF n = 0 THEN c ELSE Announce(f[n - 1], x, "back")]
           told == CHOOSE f : f = body(f)
           d == [told[times] EXCEPT !.q[x].tx = Unlocked]
<1>1. UnlockSent(c, x) = d
  BY DEF UnlockSent
<1>2. c.q[x].tx \in Int
  BY DEF System, QueuesSound, QueueSound
<1>3. times \in Nat
  <2> HIDE DEF times
  <2>1. times = IF c.q[x].tx >= 0 THEN c.q[x].tx ELSE 0
    BY <1>2, MaxOfTwo DEF times
  <2> QED
    BY <1>2, <2>1
<1> HIDE DEF times
<1>4. \A f : f = body(f) <=> Tells(f, times, c, x, TRUE)
  BY DEF Tells, Tell
<1>5. PICK g : Tells(g, times, c, x, TRUE)
  BY <1>3, Tellable
<1>6. g = body(g)
  BY <1>4, <1>5
<1> HIDE DEF body
<1>7. told = body(told)
  BY <1>6
<1> HIDE DEF told
<1>8. Tells(told, times, c, x, TRUE)
  BY <1>4, <1>7
<1>9. Told(told[times], c, noting)
  BY <1>3, <1>8, TellsTold
<1>10. Told(d, told[times], noting)
  BY <1>9, FieldTold DEF Told
<1> HIDE DEF d
<1> QED
  BY <1>1, <1>9, <1>10, ToldTwice

LEMMA UnlockReceivedTold ==
  ASSUME NEW c, NEW noting, System(c, noting), NEW x \in Queues
  PROVE  Told(UnlockReceived(c, x), c, noting)
<1> DEFINE times == Max({c.q[x].rx, 0})
           body(f) == [n \in 0..times |-> IF n = 0 THEN c ELSE Wake(f[n - 1], <<x, "send">>)]
           told == CHOOSE f : f = body(f)
           d == [told[times] EXCEPT !.q[x].rx = Unlocked]
<1>1. UnlockReceived(c, x) = d
  BY DEF UnlockReceived
<1>2. c.q[x].rx \in Int
  BY DEF System, QueuesSound, QueueSound
<1>3. times \in Nat
  <2> HIDE DEF times
  <2>1. times = IF c.q[x].rx >= 0 THEN c.q[x].rx ELSE 0
    BY <1>2, MaxOfTwo DEF times
  <2> QED
    BY <1>2, <2>1
<1> HIDE DEF times
<1>4. \A f : f = body(f) <=> Tells(f, times, c, x, FALSE)
  BY DEF Tells, Tell
<1>5. PICK g : Tells(g, times, c, x, FALSE)
  BY <1>3, Tellable
<1>6. g = body(g)
  BY <1>4, <1>5
<1> HIDE DEF body
<1>7. told = body(told)
  BY <1>6
<1> HIDE DEF told
<1>8. Tells(told, times, c, x, FALSE)
  BY <1>4, <1>7
<1>9. Told(told[times], c, noting)
  BY <1>3, <1>8, TellsTold
<1>10. Told(d, told[times], noting)
  BY <1>9, FieldTold DEF Told
<1> HIDE DEF d
<1> QED
  BY <1>1, <1>9, <1>10, ToldTwice

\* What changes a queue alone.
LEMMA QueueKept ==
  ASSUME NEW queue, QueueSound(queue)
  PROVE  /\ QueueSound(prvLockQueue(queue))
         /\ \A set \in Queues : QueueSound(xQueueAddToSet(queue, set))
<1>1. queue.rx \in Int /\ queue.tx \in Int
  BY DEF QueueSound
<1> DEFINE rx == Max({queue.rx, 0})  tx == Max({queue.tx, 0})
<1>2. rx \in Int /\ tx \in Int
  BY <1>1, MaxOfTwo
<1>3. prvLockQueue(queue) = [queue EXCEPT !.rx = rx, !.tx = tx]
  BY DEF prvLockQueue
<1> HIDE DEF rx, tx
<1>4. QueueSound(prvLockQueue(queue))
  BY <1>2, <1>3 DEF QueueSound
<1>5. ASSUME NEW set \in Queues
      PROVE  QueueSound(xQueueAddToSet(queue, set))
  BY FieldSet DEF xQueueAddToSet
<1> QED
  BY <1>4, <1>5

LEMMA QueuesChanged ==
  ASSUME NEW queues, QueuesSound(queues), NEW x \in Queues, NEW queue, QueueSound(queue)
  PROVE  QueuesSound([queues EXCEPT ![x] = queue])
BY DEF QueuesSound

LEMMA LeftPriority ==
  ASSUME NEW c, NEW noting, System(c, noting), NEW x \in Queues
  PROVE  prvGetDisinheritPriorityAfterTimeout(c, x) \in Priorities
<1> DEFINE row == c.k.waiting[<<x, "receive">>]
<1>1. c.k \in KernelType
  BY DEF System, Steady, Sound
<1>2. row \in Rows(Everyone)
  BY <1>1, SideOf DEF KernelType
<1>3. CASE row = <<>>
  BY <1>3, Levels DEF prvGetDisinheritPriorityAfterTimeout
<1>4. CASE row # <<>>
  <2>1. Head(row) \in Everyone
    <3> HIDE DEF row
    <3>1. Len(row) \in Nat /\ DOMAIN row = 1..Len(row) /\ row \in Seq(Everyone) /\ Len(row) # 0
      BY <1>2, <1>4 DEF Rows
    <3>2. Head(row) = row[1] /\ 1 \in DOMAIN row
      BY <3>1
    <3> QED
      BY <3>1, <3>2
  <2>2. c.k.tcb[Head(row)].value \in 1..configMAX_PRIORITIES
    BY <1>1, <2>1, TcbOf
  <2> DEFINE v == c.k.tcb[Head(row)].value
  <2>3. prvGetDisinheritPriorityAfterTimeout(c, x) = configMAX_PRIORITIES - v
    BY <1>4 DEF prvGetDisinheritPriorityAfterTimeout
  <2> HIDE DEF v, row
  <2>4. v \in 1..configMAX_PRIORITIES
    BY <2>2 DEF v
  <2> QED
    BY <2>3, <2>4, TasksAssumption DEF Priorities
<1> QED
  BY <1>3, <1>4

-----------------------------------------------------------------------------
(* The first state                                                         *)

Before(scenario) == prvInitialiseTaskLists(Tasks \cup {Idle}, scenario.has, scenario.start)
Creates(f, n, scenario) ==
  f = [i \in 0..n |-> IF i = 0 THEN Before(scenario) ELSE Create(f[i - 1], scenario.created[i])]

LEMMA Creatable ==
  ASSUME NEW N \in Nat, NEW scenario
  PROVE  \E f : Creates(f, N, scenario)
<1> DEFINE T == {n \in 0..N : \E f : Creates(f, n, scenario)}
<1>1. 0 \in T
  <2> DEFINE f == [i \in 0..0 |-> Before(scenario)]
  <2>1. f = [i \in 0..0 |-> IF i = 0 THEN Before(scenario) ELSE Create(f[i - 1], scenario.created[i])]
    <3>1. \A i \in 0..0 : i = 0
      OBVIOUS
    <3> QED
      BY <3>1
  <2> HIDE DEF f
  <2>2. Creates(f, 0, scenario)
    BY <2>1 DEF Creates
  <2> QED
    BY <2>2
<1>2. ASSUME NEW n \in 0..N, n \in T, n # N
      PROVE  n + 1 \in T
  <2>1. PICK f : Creates(f, n, scenario)
    BY <1>2
  <2>2. f = [i \in 0..n |-> IF i = 0 THEN Before(scenario) ELSE Create(f[i - 1], scenario.created[i])]
    BY <2>1 DEF Creates
  <2> DEFINE g == [i \in 0..(n + 1) |-> IF i = n + 1 THEN Create(f[n], scenario.created[n + 1]) ELSE f[i]]
             body(i) == IF i = 0 THEN Before(scenario) ELSE Create(g[i - 1], scenario.created[i])
  <2>3. \A i \in 0..n : g[i] = f[i]
    OBVIOUS
  <2>4. g[n + 1] = Create(f[n], scenario.created[n + 1])
    OBVIOUS
  <2>5. DOMAIN g = 0..(n + 1) /\ g = [i \in 0..(n + 1) |-> g[i]]
    OBVIOUS
  <2> HIDE DEF g
  <2>6. ASSUME NEW i \in 0..(n + 1)
        PROVE  g[i] = body(i)
    <3>1. CASE i = n + 1
      <4>1. i # 0 /\ i - 1 = n /\ n \in 0..n
        BY <3>1
      <4>2. g[i - 1] = f[n]
        BY <2>3, <4>1
      <4> QED
        BY <2>4, <3>1, <4>1, <4>2
    <3>2. CASE i # n + 1 /\ i # 0
      <4>1. i \in 0..n /\ i - 1 \in 0..n
        BY <3>2
      <4>2. f[i] = Create(f[i - 1], scenario.created[i])
        BY <2>2, <3>2, <4>1
      <4> QED
        BY <2>3, <3>2, <4>1, <4>2
    <3>3. CASE i = 0
      <4>1. i \in 0..n
        BY <3>3
      <4> QED
        BY <2>2, <2>3, <3>3, <4>1
    <3> QED
      BY <3>1, <3>2, <3>3
  <2>7. g = [i \in 0..(n + 1) |-> body(i)]
    BY <2>5, <2>6
  <2>8. Creates(g, n + 1, scenario)
    BY <2>7 DEF Creates
  <2>9. n + 1 \in 0..N
    BY <1>2
  <2> QED
    BY <2>8, <2>9
<1> HIDE DEF T
<1>3. N \in T
  BY <1>1, <1>2, BoundedInduction
<1> QED
  BY <1>3 DEF T

\* After the first n tasks of the scenario were created, all of them are ready.
Founded(c, n, scenario) ==
  /\ Sound(c, {}) /\ c.locked = 0 /\ c.pending = <<>>
  /\ c.tick = scenario.start /\ c.missed = 0
  /\ c.number = Cardinality({t \in Everyone : Exists(c, t)})
  /\ \A t \in Everyone : Exists(c, t) => IsReady(c, t)
  /\ c.cur = NoTask \/ (c.cur \in Everyone /\ Exists(c, c.cur))
  /\ \A t \in Everyone : Exists(c, t) <=> \E m \in 1..n : scenario.created[m][1] = t

LEMMA BeforeSound ==
  ASSUME NEW scenario, scenario.has \subseteq {"suspend", "tickless"}, scenario.start \in 0..MAX_DELAY
  PROVE  Founded(Before(scenario), 0, scenario)
<1> DEFINE c == Before(scenario)
<1>1. /\ c.ready = [p \in Priorities |-> EmptyList] /\ c.delayed = <<>> /\ c.overflow = <<>>
      /\ c.pending = <<>> /\ c.ended = <<>> /\ c.suspended = <<>>
      /\ c.waiting = [e \in EventLists |-> <<>>] /\ c.cur = NoTask
      /\ c.tcb = [t \in Everyone |-> NoTcb] /\ c.locked = 0 /\ c.number = 0 /\ c.top = 0
      /\ c.tick = scenario.start /\ c.missed = 0
  BY DEF Before, prvInitialiseTaskLists, Everyone
<1>2. EmptyList \in ReadyLists(Everyone) /\ EmptyList.items = <<>>
  BY EmptyRow DEF EmptyList, ReadyLists
<1>3. scenario.start \in Nat
  BY TasksAssumption DEF MAX_DELAY
<1>4. c \in KernelType
  <2>1. [p \in Priorities |-> EmptyList] \in [Priorities -> ReadyLists(Everyone)]
    BY <1>2
  <2>2. [e \in EventLists |-> <<>>] \in [EventLists -> Rows(Everyone)] /\ <<>> \in Rows(Everyone)
    BY EmptyRow
  <2>3. [t \in Tasks \cup {Idle} |-> NoTcb] \in [Everyone -> Tcbs]
    BY NoTcbType DEF Everyone
  <2> QED
    BY <1>3, <2>1, <2>2, <2>3, Levels DEF Before, prvInitialiseTaskLists, KernelType
<1> HIDE DEF c
<1>5. \A t \in Everyone : ~Exists(c, t) /\ c.tcb[t].state = "none"
  BY <1>1, NoTcbType DEF Exists
<1>6. ToSet(<<>>) = {}
  BY EmptyRow
<1>7. /\ \A p \in Priorities : Row(c, p) = {}
      /\ \A e \in EventLists : ToSet(c.waiting[e]) = {}
  BY <1>1, <1>2, <1>6 DEF Row
<1>8. \A t \in Everyone : ~IsReady(c, t)
  BY <1>4, <1>7, TcbOf DEF IsReady
<1>9. ASSUME NEW t \in Everyone
      PROVE  Listed(c, {}, t)
  <2>1. StateListed(c, t)
    BY <1>1, <1>5, <1>6, <1>7, <1>8 DEF StateListed
  <2>2. EventListed(c, t)
    BY <1>1, <1>6, <1>7 DEF EventListed, Awaits
  <2> QED
    BY <1>1, <1>5, <1>6, <1>8, <2>1, <2>2 DEF Listed
<1>10. Ordered(c) /\ Early(c)
  <2>1. DOMAIN <<>> = {}
    OBVIOUS
  <2> QED
    BY <1>1, <1>6, <2>1 DEF Ordered, Early, Rising
<1>11. Sound(c, {})
  BY <1>4, <1>9, <1>10 DEF Sound
<1>12. {t \in Everyone : Exists(c, t)} = {}
  BY <1>5
<1>13. c.number = Cardinality({t \in Everyone : Exists(c, t)})
  BY <1>1, <1>12, FS_EmptySet
<1>14. \A t \in Everyone : Exists(c, t) <=> \E m \in 1..0 : scenario.created[m][1] = t
  BY <1>5
<1>15. Founded(c, 0, scenario)
  BY <1>1, <1>5, <1>11, <1>13, <1>14 DEF Founded
<1> QED
  BY <1>15 DEF c

LEMMA FoundedNext ==
  ASSUME NEW scenario \in Scenarios, NEW n \in Nat, n + 1 \in 1..Len(scenario.created),
         NEW c, Founded(c, n, scenario)
  PROVE  Founded(Create(c, scenario.created[n + 1]), n + 1, scenario)
<1> DEFINE created == scenario.created  x == created[n + 1][1]  priority == created[n + 1][2]
           d == prvAddNewTaskToReadyList(c, x, priority, FALSE)
<1>1. /\ created \in Seq(Tasks \X Nat)
      /\ \A i, j \in DOMAIN created : i # j => created[i][1] # created[j][1]
  BY KernelAssumption
<1>2. DOMAIN created = 1..Len(created) /\ Len(created) \in Nat
      /\ \A i \in DOMAIN created : created[i] \in Tasks \X Nat
  BY <1>1
<1>3. x \in Everyone /\ priority \in Nat
  BY <1>2 DEF Everyone
<1>4. \A m \in 1..n : m \in DOMAIN created /\ n + 1 \in DOMAIN created /\ m # n + 1
  BY <1>2
<1>5. ~Exists(c, x)
  BY <1>1, <1>3, <1>4 DEF Founded
<1>6. Create(c, created[n + 1]) = d
  BY DEF Create
<1> HIDE DEF x, priority, d
<1>7. Grown(d, c, x, {})
  <2>1. Sound(c, {}) /\ c.number = Cardinality({t \in Everyone : Exists(c, t)})
    BY DEF Founded
  <2> QED
    BY <1>3, <1>5, <2>1, CreatedGrown DEF d
<1>8. \A t \in Everyone : Exists(d, t) <=> \E m \in 1..(n + 1) : created[m][1] = t
  <2> SUFFICES ASSUME NEW t \in Everyone
               PROVE  Exists(d, t) <=> \E m \in 1..(n + 1) : created[m][1] = t
    OBVIOUS
  <2>1. Exists(d, t) <=> t = x \/ \E m \in 1..n : created[m][1] = t
    BY <1>7 DEF Grown, Founded
  <2>2. 1..(n + 1) = 1..n \cup {n + 1}
    OBVIOUS
  <2> HIDE DEF created
  <2>3. x = created[n + 1][1]
    BY DEF x
  <2> QED
    BY <2>1, <2>2, <2>3
<1>9. d.cur \in Everyone /\ Exists(d, d.cur)
  BY <1>3, <1>7 DEF Grown, Founded
<1>10. /\ Sound(d, {}) /\ d.locked = 0 /\ d.pending = <<>>
       /\ d.number = Cardinality({t \in Everyone : Exists(d, t)})
       /\ \A t \in Everyone : Exists(d, t) => IsReady(d, t)
       /\ d.tick = scenario.start /\ d.missed = 0
  BY <1>7 DEF Grown, Founded, Calm
<1> QED
  BY <1>6, <1>8, <1>9, <1>10 DEF Founded

LEMMA ApplicationFounded ==
  ASSUME NEW scenario \in Scenarios
  PROVE  Founded(Application(scenario), Len(scenario.created), scenario)
<1> DEFINE N == Len(scenario.created)
           before == prvInitialiseTaskLists(Tasks \cup {Idle}, scenario.has, scenario.start)
           body(f) == [n \in 0..N |-> IF n = 0 THEN before ELSE Create(f[n - 1], scenario.created[n])]
           created == CHOOSE f : f = body(f)
           T == {n \in 0..N : Founded(created[n], n, scenario)}
<1>1. Application(scenario) = created[N]
  BY DEF Application
<1>2. /\ scenario.created \in Seq(Tasks \X Nat)
      /\ scenario.has \subseteq {"suspend", "tickless"} /\ scenario.start \in 0..MAX_DELAY
  BY KernelAssumption
<1>3. N \in Nat
  BY <1>2
<1>4. Founded(Before(scenario), 0, scenario)
  BY <1>2, BeforeSound
<1>5. before = Before(scenario)
  BY DEF Before
<1> HIDE DEF N, before
<1>6. \A f : f = body(f) <=> Creates(f, N, scenario)
  BY <1>5 DEF Creates
<1>7. PICK g : Creates(g, N, scenario)
  BY <1>3, Creatable
<1>8. g = body(g)
  BY <1>6, <1>7
<1>9. created = body(created)
  <2> HIDE DEF body
  <2> QED
    BY <1>8
<1> HIDE DEF created
<1>10. created[0] = before /\ \A n \in 0..N : n # 0 => created[n] = Create(created[n - 1], scenario.created[n])
  BY <1>3, <1>9
<1>11. 0 \in T
  BY <1>3, <1>4, <1>5, <1>10
<1>12. ASSUME NEW n \in 0..N, n \in T, n # N
       PROVE  n + 1 \in T
  <2>1. n + 1 \in 0..N /\ n + 1 # 0 /\ (n + 1) - 1 = n /\ n \in Nat /\ n + 1 \in 1..N
    BY <1>3, <1>12
  <2>2. created[n + 1] = Create(created[n], scenario.created[n + 1])
    BY <1>10, <2>1
  <2>3. Founded(created[n], n, scenario)
    BY <1>12
  <2>4. Founded(Create(created[n], scenario.created[n + 1]), n + 1, scenario)
    BY <2>1, <2>3, FoundedNext DEF N
  <2> QED
    BY <2>1, <2>2, <2>4
<1> HIDE DEF T
<1>13. N \in T
  BY <1>3, <1>11, <1>12, BoundedInduction
<1> QED
  BY <1>1, <1>13 DEF T, N

LEMMA StartedSteady ==
  ASSUME NEW scenario \in Scenarios
  PROVE  LET c == vTaskStartScheduler(Application(scenario))
         IN  /\ Steady(c, {}) /\ c.locked = 0 /\ IsReady(c, c.cur)
             /\ c.tick = scenario.start /\ c.missed = 0 /\ c.next = MAX_DELAY
             /\ ToSet(c.delayed) = {} /\ ToSet(c.overflow) = {}
<1> DEFINE b == Application(scenario)
           m == prvAddNewTaskToReadyList(b, Idle, 0, FALSE)
           c == [m EXCEPT !.next = MAX_DELAY]
<1>1. Founded(b, Len(scenario.created), scenario)
  BY ApplicationFounded
<1>2. /\ scenario.created \in Seq(Tasks \X Nat) /\ Idle \notin Tasks
  BY KernelAssumption
<1>3. Idle \in Everyone /\ ~Exists(b, Idle)
  <2>1. \A i \in 1..Len(scenario.created) : scenario.created[i][1] \in Tasks
    BY <1>2
  <2>2. Idle \in Everyone
    BY DEF Everyone
  <2> HIDE DEF b
  <2> QED
    BY <1>1, <1>2, <2>1, <2>2 DEF Founded
<1> HIDE DEF b
<1>4. Grown(m, b, Idle, {})
  <2>1. Sound(b, {}) /\ b.number = Cardinality({t \in Everyone : Exists(b, t)})
    BY <1>1 DEF Founded
  <2> QED
    BY <1>3, <2>1, CreatedGrown
<1>5. vTaskStartScheduler(Application(scenario)) = c
  BY DEF vTaskStartScheduler, b
<1> HIDE DEF m
<1>6. Sound(m, {}) /\ m \in KernelType
  BY <1>4 DEF Grown, Sound
<1>7. \A t \in Everyone : Exists(m, t) => IsReady(m, t)
  BY <1>1, <1>4 DEF Grown, Founded
<1>8. \A t \in Everyone : t \notin ToSet(m.delayed) /\ t \notin ToSet(m.overflow)
  BY <1>6, <1>7 DEF Sound, Listed, StateListed
<1>9. ToSet(m.delayed) = {} /\ ToSet(m.overflow) = {}
  BY <1>6, <1>8, InEveryone DEF KernelType
<1>10. MAX_DELAY \in Nat
  BY TasksAssumption DEF MAX_DELAY
<1>11. /\ c \in KernelType
       /\ c.ready = m.ready /\ c.delayed = m.delayed /\ c.overflow = m.overflow
       /\ c.suspended = m.suspended /\ c.ended = m.ended /\ SameEvents(c, m) /\ c.tcb = m.tcb
       /\ c.top = m.top /\ c.cur = m.cur /\ c.locked = m.locked /\ c.number = m.number
       /\ c.tick = m.tick /\ c.missed = m.missed /\ c.next = MAX_DELAY
  BY <1>6, <1>10 DEF KernelType, SameEvents
<1> HIDE DEF c
<1>12. /\ \A t \in Everyone : SameFor(c, m, t)
       /\ WakeTimes(c) = WakeTimes(m) /\ c.top <= c.top
  BY <1>11, TopOf DEF SameFor, Prio, Row, SameEvents, WakeTimes
<1>13. Ordered(c) /\ Early(c) /\ m.top <= c.top
  BY <1>6, <1>9, <1>11, <1>12 DEF Sound, Ordered, Early
<1>14. Sound(c, {})
  BY <1>6, <1>11, <1>12, <1>13, SoundSame
<1>15. \A t \in Everyone : (IsReady(c, t) <=> IsReady(m, t)) /\ (Exists(c, t) <=> Exists(m, t))
  BY <1>11 DEF IsReady, Row, Prio, Exists
<1>16. c.cur \in Everyone /\ Exists(m, c.cur)
  BY <1>1, <1>3, <1>4, <1>11 DEF Grown, Founded
<1>17. IsReady(c, c.cur) /\ IsReady(c, Idle)
  BY <1>3, <1>4, <1>7, <1>15, <1>16 DEF Grown
<1>18. c.number = Cardinality({t \in Everyone : Exists(c, t)})
  <2>1. {t \in Everyone : Exists(c, t)} = {t \in Everyone : Exists(m, t)}
    BY <1>15
  <2> QED
    BY <1>4, <1>11, <2>1 DEF Grown
<1>19. c.locked = 0 /\ c.pending = <<>>
  BY <1>1, <1>4, <1>11 DEF Grown, Founded, SameEvents
<1>20. Steady(c, {}) /\ c.locked = 0 /\ IsReady(c, c.cur)
  BY <1>14, <1>16, <1>17, <1>18, <1>19 DEF Steady
<1>21. /\ c.tick = scenario.start /\ c.missed = 0 /\ c.next = MAX_DELAY
       /\ ToSet(c.delayed) = {} /\ ToSet(c.overflow) = {}
  BY <1>1, <1>4, <1>9, <1>11 DEF Grown, Founded, Calm
<1> QED
  BY <1>5, <1>20, <1>21

LEMMA NothingCalled ==
  NoCall \in CallType /\ NoCall.at = "out" /\ NoCall.after = "none"
<1> DEFINE nothing == [fn |-> "none", on |-> NoQueue, ticks |-> 0, arg |-> 0, how |-> "none"]
           entry == [overflows |-> 0, tick |-> 0]
           r == [op |-> nothing, at |-> "out", after |-> "none", wait |-> 0, entry |-> entry,
                 entered |-> FALSE, inherited |-> FALSE, last |-> 0, since |-> 0, due |-> 0,
                 cut |-> FALSE, mark |-> 0]
<1>1. NoCall = r
  BY DEF NoCall
<1>2. entry \in [overflows : Int, tick : Int]
  OBVIOUS
<1> HIDE DEF nothing, entry
<1>3. r.op = nothing /\ r.at = "out" /\ r.after = "none"
  OBVIOUS
<1>4. nothing \in Ops
  BY <1>1, <1>3 DEF Ops
<1>5. r \in CallType
  BY <1>2, <1>4 DEF CallType, Steps
<1> HIDE DEF r
<1> QED
  BY <1>1, <1>3, <1>5

LEMMA NoCallType ==
  ASSUME NEW last \in Int
  PROVE  LET c == [NoCall EXCEPT !.last = last]
         IN  c \in CallType /\ c.at = "out" /\ c.op = NoCall.op /\ c.after = "none"
<1> DEFINE r == NoCall
<1>1. r \in CallType /\ r.at = "out" /\ r.after = "none"
  BY NothingCalled
<1> HIDE DEF r
<1>2. [r EXCEPT !.last = last] \in CallType
  BY <1>1 DEF CallType
<1>3. LET c == [r EXCEPT !.last = last]
      IN  c.at = r.at /\ c.op = r.op /\ c.after = r.after
  BY <1>1 DEF CallType
<1> QED
  BY <1>1, <1>2, <1>3 DEF r

LEMMA InitInv == Init => KernelInv
<1> SUFFICES ASSUME Init
             PROVE  KernelInv
  OBVIOUS
<1>1. plan \in Scenarios /\ now \in Int
  BY DEF Init
<1>2. Steady(k, {}) /\ k.locked = 0 /\ IsReady(k, k.cur) /\ k.cur \in Everyone
  <2>1. k = vTaskStartScheduler(Application(plan))
    BY DEF Init
  <2> QED
    BY <1>1, <2>1, StartedSteady DEF Steady
<1>3. plan.start \in Int
  <2>1. plan.start \in 0..MAX_DELAY
    BY <1>1, KernelAssumption
  <2> QED
    BY <2>1, TasksAssumption DEF MAX_DELAY
<1>4. /\ call = [t \in Everyone |-> [NoCall EXCEPT !.last = plan.start]]
      /\ \A t \in Everyone : /\ call[t] \in CallType /\ call[t].at = "out"
                             /\ call[t].op = NoCall.op /\ call[t].after = "none"
  BY <1>3, NoCallType DEF Init, Everyone
<1>5. Noting = {}
  BY <1>4 DEF Noting
<1>6. QueuesSound(q)
  <2>1. /\ DOMAIN plan.queues = Queues /\ \A x \in Queues : New(plan.queues[x])
    BY <1>1, KernelAssumption
  <2> QED
    BY <2>1 DEF Init, QueuesSound, QueueSound, New, Unlocked
<1>7. CallsSound
  <2>1. \A t \in Everyone : CallSound(call[t], t)
    BY <1>4 DEF CallSound, QueueSteps
  <2> QED
    BY <1>4, <2>1 DEF CallsSound
<1>8. LockedByCurrent
  <2>1. \A t \in Everyone : call[t].at \notin LockedSteps
    BY <1>4 DEF LockedSteps
  <2> QED
    BY <1>2, <2>1 DEF LockedByCurrent, Me
<1> QED
  BY <1>1, <1>2, <1>5, <1>6, <1>7, <1>8 DEF KernelInv, CurrentReady

-----------------------------------------------------------------------------
(* What a step has to keep                                                 *)

\* What the invariant says of the current task.
LEMMA CurrentTask ==
  ASSUME KernelInv
  PROVE  /\ k.cur \in Everyone /\ Me = call[k.cur] /\ Me \in CallType /\ CallSound(Me, k.cur)
         /\ k \in KernelType /\ Clock \in Int /\ now \in Int
         /\ k.locked \in {0, 1} /\ (k.locked = 1 <=> Me.at \in LockedSteps)
         /\ IsReady(k, k.cur) \/ Away(Me, k.cur)
         /\ Steady(k, Noting) /\ System(s, Noting) /\ s.k = k /\ s.q = q /\ QueuesSound(q)
<1>1. k \in KernelType /\ k.cur \in Everyone
  BY DEF KernelInv, Steady, Sound
<1>2. Clock \in Int
  BY <1>1 DEF Clock, KernelInv, KernelType
<1>3. System(s, Noting) /\ s.k = k /\ s.q = q
  BY DEF s, System, KernelInv
<1>4. Me = call[k.cur] /\ Me \in CallType /\ CallSound(Me, k.cur)
  BY <1>1 DEF KernelInv, CallsSound, Me
<1> QED
  BY <1>1, <1>2, <1>3, <1>4 DEF KernelInv, Steady, LockedByCurrent, CurrentReady

LEMMA StepInv ==
  ASSUME KernelInv, plan' = plan, now' \in Int, QueuesSound(q'), Steady(k', Noting'),
         call' \in [Everyone -> CallType],
         \A t \in Everyone : CallSound(call'[t], t),
         \A t \in Everyone \ {k.cur} : call'[t].at \notin LockedSteps,
         k'.locked = 1 <=> call'[k.cur].at \in LockedSteps,
         k'.locked = 1 => k'.cur = k.cur,
         IsReady(k', k'.cur) \/ (k'.cur = k.cur /\ Away(call'[k.cur], k.cur))
  PROVE  KernelInv'
<1>1. CallType' = CallType
  BY DEF CallType, Ops
<1>2. CallsSound'
  BY <1>1 DEF CallsSound
<1>3. k.cur \in Everyone /\ k'.cur \in Everyone
  BY CurrentTask DEF Steady
<1>4. Me' = call'[k'.cur]
  BY DEF Me
<1>5. CurrentReady'
  BY <1>4 DEF CurrentReady
<1>6. LockedByCurrent'
  <2>1. CASE k'.locked = 1
    BY <1>3, <1>4, <2>1 DEF LockedByCurrent
  <2>2. CASE k'.locked # 1
    <3>1. \A t \in Everyone : call'[t].at \notin LockedSteps
      BY <2>2
    <3> QED
      BY <1>3, <1>4, <2>2, <3>1 DEF LockedByCurrent
  <2> QED
    BY <2>1, <2>2
<1>7. (plan \in Scenarios)'
  BY DEF KernelInv
<1> QED
  BY <1>2, <1>5, <1>6, <1>7 DEF KernelInv

\* No other task is where the scheduler is locked.
LEMMA Others ==
  ASSUME KernelInv
  PROVE  \A t \in Everyone \ {k.cur} : call[t].at \notin LockedSteps
BY DEF KernelInv, LockedByCurrent

\* A step of the current task that changes its own call.
LEMMA DoInv ==
  ASSUME KernelInv, NEW nk, NEW nq, NEW c \in CallType, Do(nk, nq, c), CallSound(c, k.cur),
         Steady(nk, (Noting \ {k.cur}) \cup (IF c.at = "noted" THEN {k.cur} ELSE {})),
         QueuesSound(nq),
         nk.locked = 1 <=> c.at \in LockedSteps, nk.locked = 1 => nk.cur = k.cur,
         IsReady(nk, nk.cur) \/ (nk.cur = k.cur /\ Away(c, k.cur))
  PROVE  KernelInv' /\ (Calm(nk, k) => Calm(k', k))
<1>1. k' = nk /\ q' = nq /\ call' = [call EXCEPT ![k.cur] = c] /\ plan' = plan /\ now' = now
  BY DEF Do
<1>2. k.cur \in Everyone /\ call \in [Everyone -> CallType] /\ now \in Int
  BY CurrentTask DEF KernelInv, CallsSound
<1>3. /\ call' \in [Everyone -> CallType] /\ call'[k.cur] = c
      /\ \A t \in Everyone \ {k.cur} : call'[t] = call[t]
  BY <1>1, <1>2
<1>4. Noting' = (Noting \ {k.cur}) \cup (IF c.at = "noted" THEN {k.cur} ELSE {})
  BY <1>2, <1>3 DEF Noting
<1>5. \A t \in Everyone : CallSound(call'[t], t)
  BY <1>3 DEF KernelInv, CallsSound
<1>6. \A t \in Everyone \ {k.cur} : call'[t].at \notin LockedSteps
  BY <1>3, Others
<1>7. Steady(k', Noting')
  BY <1>1, <1>4
<1>8. IsReady(k', k'.cur) \/ (k'.cur = k.cur /\ Away(call'[k.cur], k.cur))
  BY <1>1, <1>3
<1>9. (k'.locked = 1 <=> call'[k.cur].at \in LockedSteps) /\ (k'.locked = 1 => k'.cur = k.cur)
  BY <1>1, <1>3
<1>10. plan' = plan /\ now' \in Int /\ QueuesSound(q')
  BY <1>1, <1>2
<1> QED
  BY <1>1, <1>3, <1>5, <1>6, <1>7, <1>8, <1>9, <1>10, StepInv

\* The same between steps that are no notification calls.
LEMMA GoInv ==
  ASSUME KernelInv, NEW nk, NEW nq, NEW c \in CallType, Do(nk, nq, c), CallSound(c, k.cur),
         Me.at # "noted", c.at # "noted", Steady(nk, Noting), QueuesSound(nq),
         nk.locked = 1 <=> c.at \in LockedSteps, nk.locked = 1 => nk.cur = k.cur,
         IsReady(nk, nk.cur) \/ (nk.cur = k.cur /\ Away(c, k.cur))
  PROVE  KernelInv' /\ (Calm(nk, k) => Calm(k', k))
<1>1. Noting \ {k.cur} = Noting
  BY CurrentTask DEF Noting
<1>2. (Noting \ {k.cur}) \cup (IF c.at = "noted" THEN {k.cur} ELSE {}) = Noting
  BY <1>1
<1>3. Steady(nk, (Noting \ {k.cur}) \cup (IF c.at = "noted" THEN {k.cur} ELSE {}))
  BY <1>2
<1> QED
  BY <1>3, DoInv

\* A step with the scheduler unlocked, and one with it locked.
LEMMA FreeInv ==
  ASSUME KernelInv, NEW nk, NEW nq, NEW c \in CallType, Do(nk, nq, c), CallSound(c, k.cur),
         Me.at # "noted", c.at # "noted", ~Away(Me, k.cur), Me.at \notin LockedSteps,
         c.at \notin LockedSteps, Steady(nk, Noting), Onwards(nk, k), QueuesSound(nq)
  PROVE  KernelInv' /\ (Calm(nk, k) => Calm(k', k))
<1>1. k.locked # 1 /\ IsReady(k, k.cur)
  BY CurrentTask
<1>2. nk.locked # 1 /\ IsReady(nk, nk.cur)
  BY <1>1 DEF Onwards
<1> QED
  BY <1>2, GoInv

LEMMA HeldInv ==
  ASSUME KernelInv, NEW nk, NEW nq, NEW c \in CallType, Do(nk, nq, c), CallSound(c, k.cur),
         Me.at \in LockedSteps, c.at \in LockedSteps, Away(Me, k.cur) => Away(c, k.cur),
         Keeps(nk, k, Noting), QueuesSound(nq)
  PROVE  KernelInv' /\ Calm(k', k)
<1>1. k.locked = 1 /\ (IsReady(k, k.cur) \/ Away(Me, k.cur)) /\ k.cur \in Everyone
  BY CurrentTask
<1>2. nk.locked = 1 /\ nk.cur = k.cur /\ (IsReady(nk, nk.cur) \/ Away(c, k.cur)) /\ Steady(nk, Noting)
      /\ Calm(nk, k)
  BY <1>1 DEF Keeps, Holds, KeepsReady
<1>3. Me.at # "noted" /\ c.at # "noted"
  BY DEF LockedSteps
<1> QED
  BY <1>2, <1>3, GoInv

\* A step that changes the call of another task too.
LEMMA DoWithInv ==
  ASSUME KernelInv, NEW nk, NEW c \in CallType, NEW t \in Everyone, NEW b \in CallType,
         DoWith(nk, c, t, b), CallSound(c, k.cur), CallSound(b, t),
         Me.at # "noted", c.at # "noted", b.at \notin LockedSteps,
         Steady(nk, IF b.at = "noted" THEN Noting \cup {t} ELSE Noting \ {t}),
         t = k.cur => b.at # "noted",
         nk.locked = 1 <=> c.at \in LockedSteps, nk.locked = 1 => nk.cur = k.cur,
         IsReady(nk, nk.cur) \/ (nk.cur = k.cur /\ Away(c, k.cur))
  PROVE  KernelInv' /\ (Calm(nk, k) => Calm(k', k))
<1> DEFINE f == [call EXCEPT ![k.cur] = c, ![t] = IF t = k.cur THEN c ELSE b]
<1>1. k' = nk /\ q' = q /\ call' = f /\ plan' = plan /\ now' = now
  BY DEF DoWith
<1>2. k.cur \in Everyone /\ call \in [Everyone -> CallType] /\ now \in Int /\ QueuesSound(q)
  BY CurrentTask DEF KernelInv, CallsSound
<1>3. /\ f \in [Everyone -> CallType] /\ f[k.cur] = c /\ (t # k.cur => f[t] = b)
      /\ \A u \in Everyone \ {k.cur, t} : f[u] = call[u]
  BY <1>2
<1> HIDE DEF f
<1>4. Noting' = IF b.at = "noted" THEN Noting \cup {t} ELSE Noting \ {t}
  <2>1. \A u \in Everyone : call'[u].at = "noted" <=> u # k.cur /\ (IF u = t THEN b.at = "noted" ELSE call[u].at = "noted")
    BY <1>1, <1>3
  <2>2. call[k.cur].at # "noted"
    BY DEF Me
  <2> QED
    BY <2>1, <2>2 DEF Noting
<1>5. \A u \in Everyone : CallSound(call'[u], u)
  BY <1>1, <1>3 DEF KernelInv, CallsSound
<1>6. \A u \in Everyone \ {k.cur} : call'[u].at \notin LockedSteps
  BY <1>1, <1>3, Others
<1>7. Steady(k', Noting')
  BY <1>1, <1>4
<1>8. IsReady(k', k'.cur) \/ (k'.cur = k.cur /\ Away(call'[k.cur], k.cur))
  BY <1>1, <1>3
<1>9. (k'.locked = 1 <=> call'[k.cur].at \in LockedSteps) /\ (k'.locked = 1 => k'.cur = k.cur)
  BY <1>1, <1>3
<1>10. plan' = plan /\ now' \in Int /\ QueuesSound(q') /\ call' \in [Everyone -> CallType]
  BY <1>1, <1>2, <1>3
<1> QED
  BY <1>1, <1>5, <1>6, <1>7, <1>8, <1>9, <1>10, StepInv

LEMMA InterruptInv ==
  ASSUME KernelInv, NEW nk, NEW nq, NEW yields, Interrupt(nk, nq, yields), now' \in Int,
         Holds(nk, k, Noting), QueuesSound(nq)
  PROVE  KernelInv' /\ (Calm(nk, k) => Calm(k', k))
<1> DEFINE d == YieldIf(nk, yields)
<1>1. k' = d /\ q' = nq /\ plan' = plan /\ call' = call
  BY DEF Interrupt
<1>2. Steady(d, Noting) /\ Onwards(d, nk) /\ Calm(d, nk)
  BY YieldIfSteady DEF Holds
<1> HIDE DEF d
<1>3. k.cur \in Everyone /\ Me = call[k.cur] /\ (k.locked = 1 <=> Me.at \in LockedSteps)
      /\ (IsReady(k, k.cur) \/ Away(Me, k.cur))
  BY CurrentTask
<1>4. nk.cur = k.cur /\ nk.locked = k.locked /\ (IsReady(k, k.cur) => IsReady(nk, nk.cur))
  BY <1>3 DEF Holds, KeepsReady
<1>5. d.locked = k.locked /\ (d.locked = 1 => d.cur = k.cur)
      /\ (IsReady(d, d.cur) \/ (d.cur = k.cur /\ Away(Me, k.cur)))
  BY <1>2, <1>3, <1>4 DEF Onwards
<1>6. Noting' = Noting
  BY <1>1 DEF Noting
<1>7. call' \in [Everyone -> CallType] /\ \A t \in Everyone : CallSound(call'[t], t)
  BY <1>1 DEF KernelInv, CallsSound
<1>8. \A t \in Everyone \ {k.cur} : call'[t].at \notin LockedSteps
  BY <1>1, Others
<1>9. Steady(k', Noting')
  BY <1>1, <1>2, <1>6
<1>10. /\ k'.locked = 1 <=> call'[k.cur].at \in LockedSteps
       /\ k'.locked = 1 => k'.cur = k.cur
       /\ IsReady(k', k'.cur) \/ (k'.cur = k.cur /\ Away(call'[k.cur], k.cur))
  BY <1>1, <1>3, <1>5
<1>11. KernelInv'
  BY <1>1, <1>7, <1>8, <1>9, <1>10, StepInv
<1>12. Calm(nk, k) => Calm(k', k)
  BY <1>1, <1>2, CalmTwice
<1> QED
  BY <1>11, <1>12

-----------------------------------------------------------------------------
(* Calls                                                                   *)

\* The call at another step.
LEMMA AtStep ==
  ASSUME NEW c \in CallType, NEW step \in Steps
  PROVE  LET d == [c EXCEPT !.at = step]
         IN  d \in CallType /\ d.at = step /\ d.op = c.op /\ d.after = c.after
<1> DEFINE d == [c EXCEPT !.at = step]
<1>1. d \in CallType
  BY Zenon DEF CallType
<1>2. d.at = step /\ d.op = c.op /\ d.after = c.after
  BY DEF CallType
<1> QED
  BY <1>1, <1>2

LEMMA AfterStep ==
  ASSUME NEW c \in CallType, NEW after \in {"none", "yield", "delay", "retry", "fail", "return"}
  PROVE  LET d == [c EXCEPT !.after = after]
         IN  d \in CallType /\ d.at = c.at /\ d.op = c.op /\ d.after = after
<1> DEFINE d == [c EXCEPT !.after = after]
<1>1. d \in CallType
  BY Zenon DEF CallType
<1>2. d.at = c.at /\ d.op = c.op /\ d.after = after
  BY DEF CallType
<1> QED
  BY <1>1, <1>2

LEMMA OpSet ==
  ASSUME NEW c \in CallType, NEW op \in Ops, NEW wait \in Int
  PROVE  LET d == [c EXCEPT !.op = op, !.wait = wait]
         IN  d \in CallType /\ d.at = c.at /\ d.op = op /\ d.after = c.after
<1> DEFINE d == [c EXCEPT !.op = op, !.wait = wait]
<1>1. d \in CallType
  BY Zenon DEF CallType
<1>2. d.at = c.at /\ d.op = op /\ d.after = c.after
  BY DEF CallType
<1> QED
  BY <1>1, <1>2

\* Times and flags are of no concern here.
LEMMA TimeSet ==
  ASSUME NEW c \in CallType, NEW n \in Int
  PROVE  /\ LET d == [c EXCEPT !.due = n] IN d \in CallType /\ d.at = c.at /\ d.op = c.op /\ d.after = c.after
         /\ LET d == [c EXCEPT !.since = n] IN d \in CallType /\ d.at = c.at /\ d.op = c.op /\ d.after = c.after
         /\ LET d == [c EXCEPT !.wait = n] IN d \in CallType /\ d.at = c.at /\ d.op = c.op /\ d.after = c.after
         /\ LET d == [c EXCEPT !.mark = n] IN d \in CallType /\ d.at = c.at /\ d.op = c.op /\ d.after = c.after
         /\ LET d == [c EXCEPT !.last = n] IN d \in CallType /\ d.at = c.at /\ d.op = c.op /\ d.after = c.after
BY DEF CallType

LEMMA FlagSet ==
  ASSUME NEW c \in CallType, NEW b \in BOOLEAN
  PROVE  /\ LET d == [c EXCEPT !.cut = b] IN d \in CallType /\ d.at = c.at /\ d.op = c.op /\ d.after = c.after
         /\ LET d == [c EXCEPT !.entered = b] IN d \in CallType /\ d.at = c.at /\ d.op = c.op /\ d.after = c.after
         /\ LET d == [c EXCEPT !.inherited = b] IN d \in CallType /\ d.at = c.at /\ d.op = c.op /\ d.after = c.after
BY DEF CallType

LEMMA EntrySet ==
  ASSUME NEW c \in CallType, NEW entry \in [overflows : Int, tick : Int]
  PROVE  LET d == [c EXCEPT !.entry = entry] IN d \in CallType /\ d.at = c.at /\ d.op = c.op /\ d.after = c.after
BY DEF CallType

LEMMA Returned ==
  ASSUME NEW last \in Int, NEW mark \in Int
  PROVE  LET c == [NoCall EXCEPT !.last = last, !.mark = mark]
         IN  c \in CallType /\ c.at = "out"
<1> DEFINE b == [NoCall EXCEPT !.last = last]  c == [b EXCEPT !.mark = mark]
<1>1. b \in CallType /\ b.at = "out"
  BY NoCallType
<1>2. [NoCall EXCEPT !.last = last, !.mark = mark] = c
  OBVIOUS
<1> HIDE DEF b
<1>3. c \in CallType /\ c.at = "out"
  BY <1>1 DEF CallType
<1> QED
  BY <1>2, <1>3

\* A call that is out is sound, whoever's it is.
LEMMA OutSound ==
  ASSUME NEW c, c.at = "out", NEW t
  PROVE  CallSound(c, t) /\ ~Away(c, t) /\ c.at \notin LockedSteps /\ c.at # "noted"
BY DEF CallSound, Away, LockedSteps, QueueSteps

\* An operation that is not nothing is one of the scenario.
LEMMA OpOf ==
  ASSUME KernelInv, NEW op \in Ops, op.fn # "none"
  PROVE  Callable(op, Actions)
<1>1. NoCall.op.fn = "none"
  BY DEF NoCall
<1>2. PICK t \in Tasks : op \in plan.calls[t]
  BY <1>1 DEF Ops
<1> QED
  BY <1>2, KernelAssumption DEF KernelInv

LEMMA StartsOf ==
  ASSUME KernelInv, NEW fn, NEW op \in Starts(fn)
  PROVE  /\ op \in Ops /\ op.fn = fn /\ k.cur \in Tasks /\ k.cur # Idle /\ k.cur \in Everyone
         /\ Callable(op, Actions) /\ Legal(op) /\ Me.at = "out" /\ ~Away(Me, k.cur)
         /\ Me.at \notin LockedSteps /\ k.locked = 0 /\ IsReady(k, k.cur) /\ op.ticks \in Int
<1>1. op \in plan.calls[k.cur] /\ op.fn = fn /\ Legal(op) /\ Me.at = "out"
  BY DEF Starts, At
<1>2. plan.calls[Idle] = {} /\ k.cur \in Everyone /\ plan \in Scenarios
  BY CurrentTask, KernelAssumption DEF KernelInv
<1>3. k.cur \in Tasks /\ k.cur # Idle
  BY <1>1, <1>2 DEF Everyone
<1>4. op \in Ops /\ Callable(op, Actions)
  BY <1>1, <1>2, <1>3, KernelAssumption DEF Ops
<1>5. ~Away(Me, k.cur) /\ Me.at \notin LockedSteps
  BY <1>1, OutSound
<1>6. k.locked = 0 /\ IsReady(k, k.cur)
  BY <1>5, CurrentTask
<1>7. op.ticks \in Int
  <2>1. op.ticks \in 0..MAX_DELAY
    BY <1>4 DEF Callable
  <2> QED
    BY <2>1
<1> QED
  BY <1>1, <1>2, <1>3, <1>4, <1>5, <1>6, <1>7

LEMMA TriesOf ==
  ASSUME KernelInv, NEW fns \in SUBSET (Sends \cup Receives), NEW op \in Tries(fns)
  PROVE  /\ op \in Ops /\ op.fn \in fns /\ k.cur # Idle /\ k.cur \in Everyone
         /\ op.fn \in QueueCalls /\ op.on \in Queues
         /\ op.fn \in Sends => op.how \in {"back", "front", "overwrite"}
         /\ Me.at \in {"try", "out"} /\ (Me.at = "try" => op = Me.op) /\ ~Away(Me, k.cur)
         /\ Me.at # "noted" /\ Me.at \notin LockedSteps /\ k.locked = 0 /\ IsReady(k, k.cur)
         /\ op.ticks \in Int
<1>1. CASE At("try") /\ Me.op.fn \in fns
  <2>1. op = Me.op /\ Me.at = "try"
    BY <1>1 DEF Tries, At
  <2>2. Me \in CallType /\ CallSound(Me, k.cur) /\ k.cur \in Everyone
    BY CurrentTask
  <2>3. op \in Ops /\ op.fn # "none"
    BY <1>1, <2>1, <2>2 DEF CallType, Sends, Receives, Takes
  <2>4. k.cur # Idle
    BY <2>1, <2>2 DEF CallSound
  <2>5. ~Away(Me, k.cur) /\ Me.at \notin LockedSteps
    BY <2>1 DEF Away, LockedSteps
  <2>6. k.locked = 0 /\ IsReady(k, k.cur)
    BY <2>5, CurrentTask
  <2>7. op.fn \in QueueCalls /\ op.on \in Queues /\ op.ticks \in 0..MAX_DELAY
        /\ (op.fn \in Sends => op.how \in {"back", "front", "overwrite"})
    BY <1>1, <2>1, <2>3, OpOf DEF Callable, QueueCalls
  <2>8. op.ticks \in Int
    BY <2>7
  <2> QED
    BY <1>1, <2>1, <2>2, <2>3, <2>4, <2>5, <2>6, <2>7, <2>8
<1>2. CASE ~(At("try") /\ Me.op.fn \in fns)
  <2>1. PICK fn \in fns : op \in Starts(fn)
    BY <1>2 DEF Tries
  <2>2. op.fn \in fns /\ op.fn \in QueueCalls
    BY <2>1, StartsOf DEF QueueCalls
  <2>3. op.on \in Queues /\ (op.fn \in Sends => op.how \in {"back", "front", "overwrite"})
    BY <2>1, <2>2, StartsOf DEF Callable
  <2>4. Me.at = "out"
    BY <2>1, StartsOf
  <2> QED
    BY <2>1, <2>2, <2>3, <2>4, StartsOf
<1> QED
  BY <1>1, <1>2

\* A call enters its first step.
LEMMA EnteredType ==
  ASSUME KernelInv, NEW op \in Ops, op.ticks \in Int, NEW step \in Steps
  PROVE  LET d == Entered(op, step)
         IN  d \in CallType /\ d.at = step /\ d.op = op /\ d.after = Me.after
<1> DEFINE c == [Me EXCEPT !.op = op, !.wait = op.ticks]  d == [c EXCEPT !.at = step]
<1>1. Me \in CallType
  BY CurrentTask
<1>2. c \in CallType /\ c.op = op /\ c.after = Me.after
  BY <1>1, OpSet
<1>3. Entered(op, step) = d
  BY <1>1 DEF CallType, Entered
<1> HIDE DEF c
<1>4. d \in CallType /\ d.at = step /\ d.op = op /\ d.after = Me.after
  BY <1>2, AtStep
<1> QED
  BY <1>3, <1>4

LEMMA BackType ==
  ASSUME KernelInv
  PROVE  [NoCall EXCEPT !.last = Me.last, !.mark = Me.mark] \in CallType
         /\ [NoCall EXCEPT !.last = Me.last, !.mark = Me.mark].at = "out"
<1>1. Me.last \in Int /\ Me.mark \in Int
  BY CurrentTask DEF CallType
<1> QED
  BY <1>1, Returned

\* The call is over.
LEMMA ReturnInv ==
  ASSUME KernelInv, NEW nk, NEW nq, Return(nk, nq), Me.at # "noted", ~Away(Me, k.cur),
         Me.at \notin LockedSteps, Steady(nk, Noting), Onwards(nk, k), QueuesSound(nq)
  PROVE  KernelInv' /\ (Calm(nk, k) => Calm(k', k))
<1> DEFINE c == [NoCall EXCEPT !.last = Me.last, !.mark = Me.mark]
<1>1. c \in CallType /\ c.at = "out" /\ Do(nk, nq, c)
  BY BackType DEF Return
<1> HIDE DEF c
<1>2. CallSound(c, k.cur) /\ c.at # "noted" /\ c.at \notin LockedSteps
  BY <1>1, OutSound
<1> QED
  BY <1>1, <1>2, FreeInv

\* The same with the yield at its end.
LEMMA YieldOnwards ==
  ASSUME KernelInv, NEW m, NEW yields, Keeps(m, k, Noting)
  PROVE  Steady(YieldIf(m, yields), Noting) /\ Onwards(YieldIf(m, yields), k)
         /\ Calm(YieldIf(m, yields), k)
<1> DEFINE d == YieldIf(m, yields)
<1>1. Steady(d, Noting) /\ Onwards(d, m) /\ Calm(d, m)
  BY YieldIfSteady DEF Keeps, Holds
<1>2. Onwards(m, k) /\ Calm(m, k)
  BY CurrentTask DEF Keeps, Holds, KeepsReady, Onwards
<1> HIDE DEF d
<1>3. Onwards(d, k) /\ Calm(d, k)
  BY <1>1, <1>2, OnwardsTwice, CalmTwice
<1> QED
  BY <1>1, <1>3 DEF d

LEMMA WholeInv ==
  ASSUME KernelInv, NEW m, NEW nq, NEW yields, Return(YieldIf(m, yields), nq), Me.at # "noted",
         ~Away(Me, k.cur), Me.at \notin LockedSteps, Keeps(m, k, Noting), QueuesSound(nq)
  PROVE  KernelInv' /\ Calm(k', k)
<1>1. Steady(YieldIf(m, yields), Noting) /\ Onwards(YieldIf(m, yields), k)
      /\ Calm(YieldIf(m, yields), k)
  BY YieldOnwards
<1> QED
  BY <1>1, ReturnInv

LEMMA SameInv ==
  ASSUME KernelInv
  PROVE  Keeps(k, k, Noting) /\ Onwards(k, k) /\ QueuesSound(q) /\ Calm(k, k)
<1>1. Keeps(k, k, Noting)
  BY CurrentTask, KeepsSelf
<1> QED
  BY <1>1, CalmSelf, CurrentTask DEF Onwards

-----------------------------------------------------------------------------
(* The steps of the calls on queues                                        *)

LEMMA ToldParts ==
  ASSUME KernelInv, NEW d, Told(d, s, Noting)
  PROVE  Keeps(d.k, k, Noting) /\ QueuesSound(d.q)
BY CurrentTask DEF Told, System

LEMMA SendInv ==
  ASSUME KernelInv, Send
  PROVE  KernelInv' /\ Calm(k', k)
<1>1. PICK op \in Tries(Sends) :
        LET done == xQueueGenericSend(s, op.on, op.arg, op.how)
        IN  Return(YieldIf(done.k, SendYields(s, op.on, op.arg, op.how)), done.q)
  BY DEF Send
<1> DEFINE done == xQueueGenericSend(s, op.on, op.arg, op.how)
<1>2. /\ op.on \in Queues /\ op.how \in {"back", "front", "overwrite"}
      /\ ~Away(Me, k.cur) /\ Me.at # "noted" /\ Me.at \notin LockedSteps
  BY TriesOf
<1>3. Told(done, s, Noting)
  BY <1>2, CurrentTask, SendTold
<1>4. Return(YieldIf(done.k, SendYields(s, op.on, op.arg, op.how)), done.q)
  BY <1>1
<1> HIDE DEF done
<1> QED
  BY <1>2, <1>3, <1>4, ToldParts, WholeInv

LEMMA ReceiveInv ==
  ASSUME KernelInv, Receive
  PROVE  KernelInv' /\ Calm(k', k)
<1>1. PICK op \in Tries({"receive"}) :
        LET done == xQueueReceive(s, op.on)
        IN  Return(YieldIf(done.k, ReceiveYields(s, op.on)), done.q)
  BY DEF Receive
<1> DEFINE done == xQueueReceive(s, op.on)
<1>2. op.on \in Queues /\ ~Away(Me, k.cur) /\ Me.at # "noted" /\ Me.at \notin LockedSteps
  <2>1. {"receive"} \in SUBSET (Sends \cup Receives)
    BY DEF Receives
  <2> QED
    BY <2>1, TriesOf
<1>3. Told(done, s, Noting)
  BY <1>2, CurrentTask, ReceiveTold
<1>4. Return(YieldIf(done.k, ReceiveYields(s, op.on)), done.q)
  BY <1>1
<1> HIDE DEF done
<1> QED
  BY <1>2, <1>3, <1>4, ToldParts, WholeInv

LEMMA PeekInv ==
  ASSUME KernelInv, Peek
  PROVE  KernelInv' /\ Calm(k', k)
<1>1. PICK op \in Tries({"peek"}) :
        Return(YieldIf(xQueuePeek(s, op.on).k, PeekYields(s, op.on)), q)
  BY DEF Peek
<1> DEFINE done == xQueuePeek(s, op.on)
<1>2. op.on \in Queues /\ ~Away(Me, k.cur) /\ Me.at # "noted" /\ Me.at \notin LockedSteps
  <2>1. {"peek"} \in SUBSET (Sends \cup Receives)
    BY DEF Receives
  <2> QED
    BY <2>1, TriesOf
<1>3. Told(done, s, Noting)
  BY <1>2, CurrentTask, ReceiveTold
<1>4. Return(YieldIf(done.k, PeekYields(s, op.on)), q)
  BY <1>1
<1>5. QueuesSound(q)
  BY CurrentTask
<1> HIDE DEF done
<1> QED
  BY <1>2, <1>3, <1>4, <1>5, ToldParts, WholeInv

LEMMA TakeInv ==
  ASSUME KernelInv, Take
  PROVE  KernelInv' /\ Calm(k', k)
<1>1. PICK op \in Tries(Takes) :
        LET done == xQueueSemaphoreTake(s, op.on)
            nk == YieldIf(done.k, ReceiveYields(s, op.on))
        IN  IF op.fn = "take" THEN Return(nk, done.q) ELSE GoTo(nk, done.q, "count")
  BY DEF Take
<1> DEFINE done == xQueueSemaphoreTake(s, op.on)
           nk == YieldIf(done.k, ReceiveYields(s, op.on))
           c == [Me EXCEPT !.at = "count"]
<1>2. /\ op.on \in Queues /\ op.fn \in Takes /\ ~Away(Me, k.cur) /\ Me.at # "noted"
      /\ Me.at \notin LockedSteps /\ k.cur # Idle /\ Me.at \in {"try", "out"}
      /\ (Me.at = "try" => op = Me.op)
  <2>1. Takes \in SUBSET (Sends \cup Receives)
    BY DEF Receives
  <2> QED
    BY <2>1, TriesOf
<1>3. Told(done, s, Noting)
  BY <1>2, CurrentTask, TakeTold
<1>4. IF op.fn = "take" THEN Return(nk, done.q) ELSE GoTo(nk, done.q, "count")
  BY <1>1
<1> HIDE DEF done
<1>5. Keeps(done.k, k, Noting) /\ QueuesSound(done.q)
  BY <1>3, ToldParts
<1>6. CASE op.fn = "take"
  BY <1>2, <1>4, <1>5, <1>6, WholeInv
<1>7. CASE op.fn # "take"
  <2>1. op.fn = "takeRecursive"
    BY <1>2, <1>7 DEF Takes
  <2>2. Me.at = "try" /\ Me.op = op
    <3>1. CASE At("try") /\ Me.op.fn \in Takes
      BY <1>2, <3>1 DEF At
    <3>2. CASE ~(At("try") /\ Me.op.fn \in Takes)
      <4>1. PICK fn \in Takes \ {"giveRecursive", "takeRecursive"} : op \in Starts(fn)
        BY <3>2 DEF Tries
      <4> QED
        BY <2>1, <4>1, StartsOf
    <3> QED
      BY <3>1, <3>2
  <2>3. c \in CallType /\ c.at = "count" /\ c.op = op /\ Do(nk, done.q, c)
    BY <1>4, <1>7, <2>2, CurrentTask, AtStep DEF GoTo, Steps, QueueSteps
  <2>4. Steady(nk, Noting) /\ Onwards(nk, k) /\ Calm(nk, k)
    BY <1>5, YieldOnwards
  <2> HIDE DEF nk, c
  <2>5. CallSound(c, k.cur) /\ c.at # "noted" /\ c.at \notin LockedSteps
    BY <1>2, <2>1, <2>3 DEF CallSound, LockedSteps, QueueSteps, QueueCalls, Receives, Takes
  <2> QED
    BY <1>2, <1>5, <2>3, <2>4, <2>5, FreeInv
<1> QED
  BY <1>6, <1>7

LEMMA RefusedInv ==
  ASSUME KernelInv, Refused
  PROVE  KernelInv' /\ Calm(k', k)
<1>1. PICK op \in Tries(Sends \cup Receives) : Return(k, q)
  BY DEF Refused
<1>2. ~Away(Me, k.cur) /\ Me.at # "noted" /\ Me.at \notin LockedSteps
  BY TriesOf
<1> QED
  BY <1>1, <1>2, SameInv, ReturnInv, CurrentTask

LEMMA WaitsInv ==
  ASSUME KernelInv, Waits
  PROVE  KernelInv' /\ Calm(k', k)
<1>1. PICK op \in Tries(Sends \cup Receives) :
        LET c == IF At("try") THEN Me ELSE Entered(op, "try")
            timed == [vTaskInternalSetTimeOutState(k, c) EXCEPT !.entered = TRUE, !.since = Clock]
        IN  Do(k, q, [(IF c.entered THEN c ELSE timed) EXCEPT !.at = "suspend"])
  BY DEF Waits
<1> DEFINE c == IF At("try") THEN Me ELSE Entered(op, "try")
           entry == [overflows |-> k.overflows, tick |-> k.tick]
           c1 == [c EXCEPT !.entry = entry]
           c2 == [c1 EXCEPT !.entered = TRUE]
           c3 == [c2 EXCEPT !.since = Clock]
           b == IF c.entered THEN c ELSE c3
           d == [b EXCEPT !.at = "suspend"]
<1>2. /\ op \in Ops /\ op.fn \in QueueCalls /\ ~Away(Me, k.cur) /\ Me.at # "noted"
      /\ Me.at \notin LockedSteps /\ k.cur # Idle /\ (Me.at = "try" => op = Me.op) /\ op.ticks \in Int
  BY TriesOf
<1>3. c \in CallType /\ c.op = op
  <2>1. "try" \in Steps
    BY DEF Steps, QueueSteps
  <2> QED
    BY <1>2, <2>1, CurrentTask, EnteredType DEF At
<1>4. Do(k, q, d)
  BY <1>1 DEF vTaskInternalSetTimeOutState
<1> HIDE DEF c
<1>5. entry \in [overflows : Int, tick : Int] /\ Clock \in Int
  BY CurrentTask DEF KernelType
<1> HIDE DEF entry
<1>6. c1 \in CallType /\ c1.op = op
  BY <1>3, <1>5, EntrySet
<1> HIDE DEF c1
<1>7. c2 \in CallType /\ c2.op = op
  BY <1>6, FlagSet
<1> HIDE DEF c2
<1>8. c3 \in CallType /\ c3.op = op
  BY <1>5, <1>7, TimeSet
<1> HIDE DEF c3
<1>9. b \in CallType /\ b.op = op
  BY <1>3, <1>8
<1> HIDE DEF b
<1>10. d \in CallType /\ d.at = "suspend" /\ d.op = op
  BY <1>9, AtStep DEF Steps, QueueSteps
<1> HIDE DEF d
<1>11. CallSound(d, k.cur) /\ d.at # "noted" /\ d.at \notin LockedSteps
  BY <1>2, <1>10 DEF CallSound, LockedSteps
<1> QED
  BY <1>2, <1>4, <1>10, <1>11, SameInv, FreeInv, CurrentTask

\* The steps between which the call only moves on.
LEMMA SuspendInv ==
  ASSUME KernelInv, Suspend
  PROVE  KernelInv' /\ Calm(k', k)
<1> DEFINE d == vTaskSuspendAll(k)  c == [Me EXCEPT !.at = "lock"]
<1>1. Me.at = "suspend" /\ Do(d, q, c)
  BY DEF Suspend, At, GoTo
<1>2. c \in CallType /\ c.at = "lock" /\ c.op = Me.op
  BY CurrentTask, AtStep DEF Steps, QueueSteps
<1>3. Me.at \notin LockedSteps /\ ~Away(Me, k.cur) /\ Me.at \in QueueSteps /\ Me.at # "noted" /\ Me.at # "out"
  BY <1>1 DEF LockedSteps, Away, QueueSteps
<1>4. k.locked = 0 /\ IsReady(k, k.cur) /\ k.cur # Idle /\ Me.op.fn \in QueueCalls /\ k.cur \in Everyone
  BY <1>1, <1>3, CurrentTask DEF CallSound
<1>5. Steady(d, Noting) /\ d.locked = 1 /\ d.cur = k.cur /\ KeepsReady(d, k) /\ Calm(d, k)
  BY <1>4, CurrentTask, LockSteady
<1> HIDE DEF c, d
<1>6. CallSound(c, k.cur) /\ c.at # "noted" /\ c.at \in LockedSteps
  BY <1>2, <1>4 DEF CallSound, LockedSteps
<1>7. IsReady(d, d.cur)
  BY <1>4, <1>5 DEF KeepsReady
<1> QED
  BY <1>1, <1>2, <1>3, <1>5, <1>6, <1>7, GoInv, CurrentTask

LEMMA LockInv ==
  ASSUME KernelInv, Lock
  PROVE  KernelInv' /\ Calm(k', k)
<1> DEFINE x == Me.op.on
           nq == [q EXCEPT ![x] = prvLockQueue(q[x])]
           step == IF Me.op.fn = "waitRestricted" THEN "restricted" ELSE "check"
           c == [Me EXCEPT !.at = step]
<1>1. Me.at = "lock" /\ Do(k, nq, c)
  BY DEF Lock, At, GoTo
<1>2. c \in CallType /\ c.at = step /\ c.op = Me.op
  BY CurrentTask, AtStep DEF Steps, QueueSteps
<1>3. Me.op.fn \in QueueCalls /\ k.cur # Idle
  BY <1>1, CurrentTask DEF CallSound, QueueSteps
<1>4. x \in Queues
  <2>1. Me.op \in Ops /\ Me.op.fn # "none"
    BY <1>3, CurrentTask DEF CallType, QueueCalls, Sends, Receives, Takes
  <2> QED
    BY <1>3, <2>1, OpOf DEF Callable
<1>5. QueuesSound(nq)
  BY <1>4, CurrentTask, QueueKept, QueuesChanged DEF QueuesSound
<1> HIDE DEF c, nq
<1>6. Me.at \in LockedSteps /\ c.at \in LockedSteps /\ ~Away(Me, k.cur) /\ CallSound(c, k.cur)
  BY <1>1, <1>2, <1>3 DEF LockedSteps, Away, CallSound
<1> QED
  BY <1>1, <1>2, <1>5, <1>6, HeldInv, SameInv

LEMMA OnQueue ==
  ASSUME KernelInv, Me.at \in QueueSteps
  PROVE  Me.op.on \in Queues /\ Me.op.fn \in QueueCalls /\ k.cur # Idle /\ Me.op \in Ops
<1>1. Me.op.fn \in QueueCalls /\ k.cur # Idle
  BY CurrentTask DEF CallSound, QueueSteps
<1>2. Me.op \in Ops /\ Me.op.fn # "none"
  BY <1>1, CurrentTask DEF CallType, QueueCalls, Sends, Receives, Takes
<1> QED
  BY <1>1, <1>2, OpOf DEF Callable

LEMMA CheckedType ==
  ASSUME KernelInv
  PROVE  LET c == AfterCheck(k, Me) IN c \in CallType /\ c.op = Me.op /\ c.at = Me.at
<1>1. Me \in CallType /\ Me.wait \in Int /\ Me.entry \in [overflows : Int, tick : Int] /\ k.tick \in Nat
      /\ k.overflows \in Nat
  BY CurrentTask DEF CallType, KernelType
<1>2. Elapsed(k, Me) \in Int
  <2>1. Me.entry.tick \in Int
    BY <1>1
  <2> QED
    BY <1>1, <2>1, TasksAssumption DEF Elapsed
<1> DEFINE n == Me.wait - Elapsed(k, Me)
           entry == [overflows |-> k.overflows, tick |-> k.tick]
           c1 == [Me EXCEPT !.wait = n]
           c2 == [c1 EXCEPT !.entry = entry]
           c3 == [Me EXCEPT !.wait = 0]
<1>3. n \in Int /\ entry \in [overflows : Int, tick : Int]
  BY <1>1, <1>2
<1>4. AfterCheck(k, Me) \in {Me, c2, c3}
  BY DEF AfterCheck, vTaskInternalSetTimeOutState
<1> HIDE DEF n, entry
<1>5. c1 \in CallType /\ c1.op = Me.op /\ c1.at = Me.at
  BY <1>1, <1>3, TimeSet
<1>6. c3 \in CallType /\ c3.op = Me.op /\ c3.at = Me.at
  BY <1>1 DEF CallType
<1> HIDE DEF c1, c3
<1>7. c2 \in CallType /\ c2.op = Me.op /\ c2.at = Me.at
  BY <1>3, <1>5, EntrySet
<1> HIDE DEF c2
<1> QED
  BY <1>1, <1>4, <1>5, <1>6, <1>7

LEMMA CheckInv ==
  ASSUME KernelInv, Check
  PROVE  KernelInv' /\ Calm(k', k)
<1> DEFINE nk == ClearAborted(k)
           c == AfterCheck(k, Me)
           b == c.cut \/ Aborted(k)
           c1 == [c EXCEPT !.at = "unlockSent"]
           c2 == [c1 EXCEPT !.after = "fail"]
           c3 == [c2 EXCEPT !.cut = b]
           c4 == [c EXCEPT !.at = "test"]
           d == IF TimedOut(k, Me) THEN c3 ELSE c4
<1>1. c \in CallType /\ c.op = Me.op
  BY CheckedType
<1>2. b \in BOOLEAN
  BY <1>1 DEF CallType
<1>3. Me.at = "check"
  BY DEF Check, At
<1>4. Do(nk, q, d)
  <2> HIDE DEF c
  <2>1. [c EXCEPT !.at = "unlockSent", !.after = "fail", !.cut = @ \/ Aborted(k)] = c3
    BY <1>1 DEF CallType
  <2> HIDE DEF c3
  <2> QED
    BY <2>1 DEF Check, c
<1> HIDE DEF c
<1>5. c1 \in CallType /\ c1.op = Me.op /\ c1.at = "unlockSent"
  BY <1>1, AtStep DEF Steps, QueueSteps
<1>6. c4 \in CallType /\ c4.op = Me.op /\ c4.at = "test"
  BY <1>1, AtStep DEF Steps, QueueSteps
<1> HIDE DEF c1, c4
<1>7. c2 \in CallType /\ c2.op = Me.op /\ c2.at = "unlockSent" /\ c2.after = "fail"
  BY <1>5, AfterStep
<1> HIDE DEF c2, b
<1>8. c3 \in CallType /\ c3.op = Me.op /\ c3.at = "unlockSent" /\ c3.after = "fail"
  BY <1>2, <1>7, FlagSet
<1> HIDE DEF c3
<1>9. d \in CallType /\ d.op = Me.op /\ (d.at = "test" \/ (d.at = "unlockSent" /\ d.after = "fail"))
  BY <1>6, <1>8
<1> HIDE DEF d, nk
<1>10. Me.op.fn \in QueueCalls /\ k.cur # Idle
  BY <1>3, OnQueue DEF QueueSteps
<1>11. Me.at \in LockedSteps /\ d.at \in LockedSteps /\ ~Away(Me, k.cur) /\ CallSound(d, k.cur)
  BY <1>3, <1>9, <1>10 DEF LockedSteps, Away, CallSound
<1>12. Keeps(nk, k, Noting) /\ QueuesSound(q)
  BY CurrentTask, ClearedKeeps DEF nk
<1> QED
  BY <1>4, <1>9, <1>11, <1>12, HeldInv

LEMMA TestInv ==
  ASSUME KernelInv, Test
  PROVE  KernelInv' /\ Calm(k', k)
<1> DEFINE c1 == [Me EXCEPT !.at = "unlockSent"]
           c2 == [c1 EXCEPT !.after = "retry"]
           step == IF IsMutex(Me.op) THEN "inherit" ELSE "place"
           c4 == [Me EXCEPT !.at = step]
           d == IF ~Stuck(Me.op) THEN c2 ELSE c4
<1>1. Me \in CallType
  BY CurrentTask
<1>2. Me.at = "test" /\ Do(k, q, d)
  BY DEF Test, At
<1>3. c1 \in CallType /\ c1.op = Me.op /\ c1.at = "unlockSent"
  BY <1>1, AtStep DEF Steps, QueueSteps
<1>4. c4 \in CallType /\ c4.op = Me.op /\ c4.at \in {"inherit", "place"}
  BY <1>1, AtStep DEF Steps, QueueSteps
<1> HIDE DEF c1, c4
<1>5. c2 \in CallType /\ c2.op = Me.op /\ c2.at = "unlockSent" /\ c2.after = "retry"
  BY <1>3, AfterStep
<1> HIDE DEF c2
<1>6. d \in CallType /\ d.op = Me.op
      /\ (d.at \in {"inherit", "place"} \/ (d.at = "unlockSent" /\ d.after = "retry"))
  BY <1>4, <1>5
<1> HIDE DEF d
<1>7. Me.op.fn \in QueueCalls /\ k.cur # Idle
  BY <1>2, OnQueue DEF QueueSteps
<1>8. Me.at \in LockedSteps /\ d.at \in LockedSteps /\ ~Away(Me, k.cur) /\ CallSound(d, k.cur)
  BY <1>2, <1>6, <1>7 DEF LockedSteps, Away, CallSound
<1> QED
  BY <1>2, <1>6, <1>8, SameInv, HeldInv

LEMMA PriorityInheritInv ==
  ASSUME KernelInv, PriorityInherit
  PROVE  KernelInv' /\ Calm(k', k)
<1> DEFINE holder == q[Me.op.on].holder
           nk == xTaskPriorityInherit(k, holder)
           b == Inherited(k, holder)
           c == [Me EXCEPT !.at = "place"]
           d == [c EXCEPT !.inherited = b]
<1>1. Me \in CallType /\ QueuesSound(q) /\ Steady(k, Noting)
  BY CurrentTask
<1>2. Me.at = "inherit" /\ Do(nk, q, d)
  BY DEF PriorityInherit, At
<1>3. b \in BOOLEAN
  BY DEF Inherited
<1>4. Me.op.on \in Queues /\ Me.op.fn \in QueueCalls /\ k.cur # Idle
  BY <1>2, OnQueue DEF QueueSteps
<1>5. holder \in Everyone \cup {NoTask}
  BY <1>1, <1>4 DEF QueuesSound, QueueSound
<1>6. Keeps(nk, k, Noting)
  BY <1>1, <1>5, InheritKeeps
<1> HIDE DEF nk, b
<1>7. c \in CallType /\ c.op = Me.op /\ c.at = "place"
  BY <1>1, AtStep DEF Steps, QueueSteps
<1> HIDE DEF c
<1>8. d \in CallType /\ d.op = Me.op /\ d.at = "place"
  BY <1>3, <1>7, FlagSet
<1> HIDE DEF d
<1>9. Me.at \in LockedSteps /\ d.at \in LockedSteps /\ ~Away(Me, k.cur) /\ CallSound(d, k.cur)
  BY <1>2, <1>4, <1>8 DEF LockedSteps, Away, CallSound
<1> QED
  BY <1>1, <1>2, <1>6, <1>8, <1>9, HeldInv

\* The call of a task that has put itself to sleep.
LEMMA WaitingType ==
  ASSUME KernelInv, NEW after \in {"yield", "delay"}
  PROVE  LET d == Waiting(after)
         IN  d \in CallType /\ d.op = Me.op /\ d.at = "unlockSent" /\ d.after = after
<1> DEFINE due == Clock + Me.wait
           c1 == [Me EXCEPT !.at = "unlockSent"]
           c2 == [c1 EXCEPT !.after = after]
           c3 == [c2 EXCEPT !.due = due]
<1>1. Me \in CallType /\ due \in Int
  BY CurrentTask DEF CallType
<1>2. Waiting(after) = c3
  BY <1>1 DEF Waiting, CallType
<1> HIDE DEF due
<1>3. c1 \in CallType /\ c1.op = Me.op /\ c1.at = "unlockSent"
  BY <1>1, AtStep DEF Steps, QueueSteps
<1> HIDE DEF c1
<1>6. after \in {"none", "yield", "delay", "retry", "fail", "return"}
  OBVIOUS
<1>4. c2 \in CallType /\ c2.op = Me.op /\ c2.at = "unlockSent" /\ c2.after = after
  BY <1>3, <1>6, AfterStep
<1> HIDE DEF c2
<1>5. c3 \in CallType /\ c3.op = Me.op /\ c3.at = "unlockSent" /\ c3.after = after
  BY <1>1, <1>4, TimeSet
<1> QED
  BY <1>2, <1>5

\* The current task leaves the ready tasks while the scheduler is locked.
LEMMA AwayInv ==
  ASSUME KernelInv, NEW nk, NEW c \in CallType, Do(nk, q, c), CallSound(c, k.cur),
         Me.at \in LockedSteps, c.at \in LockedSteps, Away(c, k.cur), Leaves(nk, k, Noting)
  PROVE  KernelInv'
<1>1. k.locked = 1 /\ QueuesSound(q)
  BY CurrentTask
<1>2. nk.locked = 1 /\ nk.cur = k.cur /\ Steady(nk, Noting)
  BY <1>1 DEF Leaves
<1>3. Me.at # "noted" /\ c.at # "noted"
  BY DEF LockedSteps
<1> QED
  BY <1>1, <1>2, <1>3, GoInv

LEMMA SideType ==
  ASSUME NEW op, op.on \in Queues
  PROVE  Side(op) \in EventLists
BY SideOf DEF Side

LEMMA PlaceInv ==
  ASSUME KernelInv, Place \/ PlaceRestricted
  PROVE  KernelInv'
<1>1. Me.at \in {"place", "restricted"}
  BY DEF Place, PlaceRestricted, At
<1>2. Me.op.on \in Queues /\ Me.op.fn \in QueueCalls /\ k.cur # Idle
  BY <1>1, OnQueue DEF QueueSteps
<1>3. /\ Me \in CallType /\ Me.wait \in Int /\ Steady(k, Noting) /\ k.cur \notin Noting
      /\ ~Away(Me, k.cur) /\ IsReady(k, k.cur) /\ Me.at \in LockedSteps
  <2>1. ~Away(Me, k.cur) /\ Me.at \in LockedSteps
    BY <1>1 DEF Away, LockedSteps
  <2>2. Me \in CallType /\ Me.wait \in Int
    BY CurrentTask DEF CallType
  <2>3. k.cur \notin Noting
    BY <1>1 DEF Noting, Me
  <2> QED
    BY <2>1, <2>2, <2>3, CurrentTask
<1>4. Side(Me.op) \in EventLists
  BY <1>2, SideType
<1>5. /\ Leaves(vTaskPlaceOnEventList(k, Side(Me.op), Me.wait), k, Noting)
      /\ Leaves(vTaskPlaceOnEventListRestricted(k, Side(Me.op), Me.wait, FALSE), k, Noting)
  BY <1>2, <1>3, <1>4, PlaceSteady
<1>6. ASSUME NEW nk, NEW after \in {"yield", "delay"}, Do(nk, q, Waiting(after)), Leaves(nk, k, Noting)
      PROVE  KernelInv'
  <2> DEFINE d == Waiting(after)
  <2>1. d \in CallType /\ d.op = Me.op /\ d.at = "unlockSent" /\ d.after = after
    BY WaitingType
  <2>2. Do(nk, q, d)
    BY <1>6
  <2> HIDE DEF d
  <2>3. d.at \in LockedSteps /\ Away(d, k.cur) /\ CallSound(d, k.cur)
    BY <1>2, <2>1 DEF LockedSteps, Away, CallSound
  <2> QED
    BY <1>3, <1>6, <2>1, <2>2, <2>3, AwayInv
<1>7. CASE Place
  BY <1>5, <1>6, <1>7 DEF Place
<1>8. CASE PlaceRestricted /\ prvIsQueueEmpty(q[Me.op.on])
  BY <1>5, <1>6, <1>8 DEF PlaceRestricted
<1>9. CASE PlaceRestricted /\ ~prvIsQueueEmpty(q[Me.op.on])
  <2> DEFINE c == [Me EXCEPT !.at = "unlockSent"]
             d == [c EXCEPT !.after = "delay"]
  <2>1. Do(k, q, d)
    BY <1>9 DEF PlaceRestricted
  <2>2. c \in CallType /\ c.op = Me.op /\ c.at = "unlockSent"
    BY <1>3, AtStep DEF Steps, QueueSteps
  <2> HIDE DEF c
  <2>3. d \in CallType /\ d.op = Me.op /\ d.at = "unlockSent" /\ d.after = "delay"
    BY <2>2, AfterStep
  <2> HIDE DEF d
  <2>4. d.at \in LockedSteps /\ CallSound(d, k.cur)
    BY <1>2, <2>3 DEF LockedSteps, CallSound
  <2> QED
    BY <1>3, <2>1, <2>3, <2>4, SameInv, HeldInv
<1> QED
  BY <1>7, <1>8, <1>9

LEMMA WaitRestrictedInv ==
  ASSUME KernelInv, WaitRestricted
  PROVE  KernelInv' /\ Calm(k', k)
<1>1. PICK op \in Starts("waitRestricted") : Do(k, q, Entered(op, "suspend"))
  BY DEF WaitRestricted
<1>2. /\ op \in Ops /\ op.fn = "waitRestricted" /\ op.ticks \in Int /\ k.cur # Idle /\ Me.at = "out"
      /\ ~Away(Me, k.cur) /\ Me.at \notin LockedSteps
  BY StartsOf
<1> DEFINE d == Entered(op, "suspend")
<1>3. d \in CallType /\ d.at = "suspend" /\ d.op = op /\ Do(k, q, d)
  BY <1>1, <1>2, EnteredType DEF Steps, QueueSteps
<1> HIDE DEF d
<1>4. CallSound(d, k.cur) /\ d.at # "noted" /\ d.at \notin LockedSteps
  BY <1>2, <1>3 DEF CallSound, QueueCalls, LockedSteps
<1> QED
  BY <1>2, <1>3, <1>4, SameInv, FreeInv, CurrentTask

LEMMA UnlockInv ==
  ASSUME KernelInv, UnlockSentStep \/ UnlockReceivedStep
  PROVE  KernelInv' /\ Calm(k', k)
<1>1. Me.at \in {"unlockSent", "unlockReceived"}
  BY DEF UnlockSentStep, UnlockReceivedStep, At
<1>2. Me.op.on \in Queues /\ Me.op.fn \in QueueCalls /\ k.cur # Idle
  BY <1>1, OnQueue DEF QueueSteps
<1>3. /\ Told(UnlockSent(s, Me.op.on), s, Noting) /\ Told(UnlockReceived(s, Me.op.on), s, Noting)
  BY <1>2, CurrentTask, UnlockSentTold, UnlockReceivedTold
<1>4. Me \in CallType /\ Me.after \in {"yield", "delay", "retry", "fail"}
  BY <1>1, CurrentTask DEF CallSound
<1>5. ASSUME NEW told, NEW step \in {"unlockReceived", "resume"}, Told(told, s, Noting),
             GoTo(told.k, told.q, step)
      PROVE  KernelInv' /\ Calm(k', k)
  <2> DEFINE d == [Me EXCEPT !.at = step]
  <2>1. d \in CallType /\ d.op = Me.op /\ d.at = step /\ d.after = Me.after
    BY <1>4, AtStep DEF Steps, QueueSteps, LockedSteps
  <2>2. Do(told.k, told.q, d)
    BY <1>5 DEF GoTo
  <2> HIDE DEF d
  <2>3. CallSound(d, k.cur)
    BY <1>2, <1>4, <2>1 DEF CallSound
  <2>4. d.at \in LockedSteps /\ Me.at \in LockedSteps /\ (Away(Me, k.cur) => Away(d, k.cur))
    BY <1>1, <2>1 DEF LockedSteps, Away
  <2> QED
    BY <1>5, <2>1, <2>2, <2>3, <2>4, ToldParts, HeldInv
<1>6. CASE UnlockSentStep
  BY <1>3, <1>5, <1>6 DEF UnlockSentStep
<1>7. CASE UnlockReceivedStep
  BY <1>3, <1>5, <1>7 DEF UnlockReceivedStep
<1> QED
  BY <1>6, <1>7

\* The scheduler is unlocked; the call goes on, or is over.
LEMMA ResumedInv ==
  ASSUME KernelInv, Me.at = "resume", NEW c \in CallType, Do(xTaskResumeAll(k), q, c),
         CallSound(c, k.cur), c.at # "noted", c.at \notin LockedSteps,
         Me.after \in {"yield", "delay"} => AlreadyYielded(k) \/ c.at = "yield"
  PROVE  KernelInv'
<1> DEFINE d == xTaskResumeAll(k)
<1>1. k.locked = 1 /\ QueuesSound(q)
  BY CurrentTask DEF LockedSteps
<1>2. /\ Steady(d, Noting) /\ d.locked = 0
      /\ \/ d.cur = k.cur /\ (IsReady(k, k.cur) => IsReady(d, d.cur))
         \/ IsReady(d, d.cur)
      /\ AlreadyYielded(k) => IsReady(d, d.cur)
      /\ ~AlreadyYielded(k) => d.cur = k.cur
  BY <1>1, CurrentTask, ResumeAllSteady
<1>3. Do(d, q, c)
  OBVIOUS
<1> HIDE DEF d
<1>4. IsReady(d, d.cur) \/ (d.cur = k.cur /\ Away(c, k.cur))
  <2>1. CASE Me.after \in {"yield", "delay"}
    BY <1>2, <2>1 DEF Away
  <2>2. CASE Me.after \notin {"yield", "delay"}
    <3>1. ~Away(Me, k.cur)
      BY <2>2 DEF Away
    <3> QED
      BY <1>2, <3>1, CurrentTask
  <2> QED
    BY <2>1, <2>2
<1> QED
  BY <1>1, <1>2, <1>3, <1>4, GoInv

LEMMA ResumeAllInv ==
  ASSUME KernelInv, ResumeAll
  PROVE  KernelInv'
<1>1. Me.at = "resume"
  BY DEF ResumeAll, At
<1>2. Me \in CallType /\ CallSound(Me, k.cur)
  BY CurrentTask
<1>3. CASE Me.after = "return" \/ (Me.after = "fail" /\ Me.op.fn \in Sends)
  <2> DEFINE c == [NoCall EXCEPT !.last = Me.last, !.mark = Me.mark]
  <2>1. Do(xTaskResumeAll(k), q, c)
    BY <1>3 DEF ResumeAll, Return
  <2>2. c \in CallType /\ c.at = "out"
    BY BackType
  <2> HIDE DEF c
  <2>3. CallSound(c, k.cur) /\ c.at # "noted" /\ c.at \notin LockedSteps
    BY <2>2, OutSound
  <2> QED
    BY <1>1, <1>3, <2>1, <2>2, <2>3, ResumedInv
<1>4. CASE ~(Me.after = "return" \/ (Me.after = "fail" /\ Me.op.fn \in Sends))
  <2> DEFINE step == Onward  c == [Me EXCEPT !.at = step]
  <2>1. Do(xTaskResumeAll(k), q, c)
    BY <1>4 DEF ResumeAll, GoTo
  <2>2. Me.after \in {"yield", "delay", "retry", "fail"}
    BY <1>1, <1>2, <1>4 DEF CallType, CallSound
  <2>3. /\ Me.after = "yield" => step = IF AlreadyYielded(k) THEN "try" ELSE "yield"
        /\ Me.after = "delay" => step = IF AlreadyYielded(k) THEN "woken" ELSE "yield"
        /\ Me.after = "retry" => step = "try"
        /\ Me.after = "fail" => step = "empty"
    BY DEF Onward
  <2> HIDE DEF step
  <2>4. step \in {"try", "yield", "woken", "empty"}
    BY <2>2, <2>3
  <2>5. step \in Steps
    BY <2>4 DEF Steps, QueueSteps
  <2>6. c \in CallType /\ c.at = step /\ c.op = Me.op
    BY <1>2, <2>5, AtStep
  <2> HIDE DEF c
  <2>7. k.cur # Idle
    BY <1>1, <1>2, <1>4 DEF CallSound
  <2>8. step \in {"try", "empty"} => Me.op.fn \in QueueCalls
    BY <1>1, <1>2, <2>2, <2>3 DEF CallSound
  <2>9. CallSound(c, k.cur) /\ c.at # "noted" /\ c.at \notin LockedSteps
    BY <2>4, <2>6, <2>7, <2>8 DEF CallSound, LockedSteps, QueueSteps
  <2>10. Me.after \in {"yield", "delay"} => AlreadyYielded(k) \/ c.at = "yield"
    BY <2>3, <2>6
  <2> QED
    BY <1>1, <2>1, <2>6, <2>9, <2>10, ResumedInv
<1> QED
  BY <1>3, <1>4

LEMMA YieldInv ==
  ASSUME KernelInv, Yield
  PROVE  KernelInv' /\ Calm(k', k)
<1> DEFINE d == vTaskSwitchContext(k)
           step == IF Me.op.fn \in Sends \cup Receives THEN "try" ELSE "woken"
           c == [Me EXCEPT !.at = step]
<1>1. Me.at = "yield" /\ Do(d, q, c)
  BY DEF Yield, At, GoTo
<1>2. k.locked = 0 /\ k.cur # Idle /\ Me \in CallType /\ QueuesSound(q) /\ Me.at # "noted"
  BY <1>1, CurrentTask DEF LockedSteps, CallSound
<1>3. Steady(d, Noting) /\ IsReady(d, d.cur) /\ d.locked = 0 /\ Calm(d, k)
  BY <1>2, CurrentTask, SwitchSteady
<1>4. c \in CallType /\ c.at = step /\ c.op = Me.op
  BY <1>2, AtStep DEF Steps, QueueSteps
<1>5. step = "woken" \/ (step = "try" /\ Me.op.fn \in QueueCalls)
  BY DEF QueueCalls
<1> HIDE DEF c, d, step
<1>6. CallSound(c, k.cur) /\ c.at # "noted" /\ c.at \notin LockedSteps
  BY <1>2, <1>4, <1>5 DEF CallSound, LockedSteps, QueueSteps
<1> QED
  BY <1>1, <1>2, <1>3, <1>4, <1>6, GoInv

LEMMA WokenInv ==
  ASSUME KernelInv, Woken
  PROVE  KernelInv' /\ Calm(k', k)
<1>1. Me.at = "woken" /\ Return(k, q)
  BY DEF Woken, At
<1>2. ~Away(Me, k.cur) /\ Me.at # "noted" /\ Me.at \notin LockedSteps
  BY <1>1 DEF Away, LockedSteps
<1> QED
  BY <1>1, <1>2, SameInv, ReturnInv, CurrentTask

LEMMA LastLookInv ==
  ASSUME KernelInv, LastLook
  PROVE  KernelInv' /\ Calm(k', k)
<1>1. Me.at = "empty"
  BY DEF LastLook, At
<1>2. ~Away(Me, k.cur) /\ Me.at # "noted" /\ Me.at \notin LockedSteps
  BY <1>1 DEF Away, LockedSteps
<1>3. Me.op.fn \in QueueCalls /\ k.cur # Idle
  BY <1>1, OnQueue DEF QueueSteps
<1>4. ASSUME NEW step \in {"try", "disinherit"}, GoTo(k, q, step)
      PROVE  KernelInv' /\ Calm(k', k)
  <2> DEFINE c == [Me EXCEPT !.at = step]
  <2>1. c \in CallType /\ c.at = step /\ c.op = Me.op
    BY CurrentTask, AtStep DEF Steps, QueueSteps
  <2>2. Do(k, q, c)
    BY <1>4 DEF GoTo
  <2> HIDE DEF c
  <2>3. CallSound(c, k.cur) /\ c.at # "noted" /\ c.at \notin LockedSteps
    BY <1>3, <2>1 DEF CallSound, LockedSteps
  <2> QED
    BY <1>2, <2>1, <2>2, <2>3, SameInv, FreeInv, CurrentTask
<1>5. GoTo(k, q, "try") \/ GoTo(k, q, "disinherit") \/ Return(k, q)
  BY DEF LastLook
<1>6. CASE Return(k, q)
  BY <1>2, <1>6, SameInv, ReturnInv, CurrentTask
<1> QED
  BY <1>4, <1>5, <1>6

LEMMA DisinheritInv ==
  ASSUME KernelInv, DisinheritAfterTimeout
  PROVE  KernelInv' /\ Calm(k', k)
<1> DEFINE holder == q[Me.op.on].holder
           p == prvGetDisinheritPriorityAfterTimeout(s, Me.op.on)
           d == vTaskPriorityDisinheritAfterTimeout(k, holder, p)
<1>1. Me.at = "disinherit" /\ Return(d, q)
  BY DEF DisinheritAfterTimeout, At
<1>2. Me.op.on \in Queues
  BY <1>1, OnQueue DEF QueueSteps
<1>3. holder \in Everyone \cup {NoTask} /\ p \in Priorities
  BY <1>2, CurrentTask, LeftPriority DEF QueuesSound, QueueSound
<1> HIDE DEF holder, p
<1>4. Keeps(d, k, Noting)
  BY <1>3, CurrentTask, TimeoutKeeps
<1> HIDE DEF d
<1>5. Steady(d, Noting) /\ Onwards(d, k) /\ QueuesSound(q) /\ Calm(d, k)
  BY <1>4, CurrentTask DEF Keeps, Holds, KeepsReady, Onwards
<1>6. ~Away(Me, k.cur) /\ Me.at # "noted" /\ Me.at \notin LockedSteps
  BY <1>1 DEF Away, LockedSteps
<1> QED
  BY <1>1, <1>5, <1>6, ReturnInv

-----------------------------------------------------------------------------
(* The other calls on queues                                               *)

LEMMA CallsSet ==
  ASSUME KernelInv, NEW x \in Queues, NEW n
  PROVE  QueuesSound([q EXCEPT ![x].calls = n])
<1> DEFINE r == [q[x] EXCEPT !.calls = n]
<1>1. QueueSound(r)
  BY CurrentTask, FieldSet DEF QueuesSound
<1>2. [q EXCEPT ![x].calls = n] = [q EXCEPT ![x] = r]
  OBVIOUS
<1> HIDE DEF r
<1> QED
  BY <1>1, <1>2, CurrentTask, QueuesChanged

LEMMA RecursiveInv ==
  ASSUME KernelInv, GiveRecursive \/ TakeRecursive
  PROVE  KernelInv' /\ Calm(k', k)
<1>1. PICK fn \in {"giveRecursive", "takeRecursive"} : \E op \in Starts(fn) :
        \E n : \/ Return(k, q) \/ Return(k, [q EXCEPT ![op.on].calls = n])
               \/ Do(k, q, Entered(op, "try"))
               \/ Do(k, [q EXCEPT ![op.on].calls = n], Entered(op, "try"))
  BY DEF GiveRecursive, TakeRecursive
<1>2. PICK op \in Starts(fn) :
        \E n : \/ Return(k, q) \/ Return(k, [q EXCEPT ![op.on].calls = n])
               \/ Do(k, q, Entered(op, "try"))
               \/ Do(k, [q EXCEPT ![op.on].calls = n], Entered(op, "try"))
  BY <1>1
<1>3. PICK n : \/ Return(k, q) \/ Return(k, [q EXCEPT ![op.on].calls = n])
               \/ Do(k, q, Entered(op, "try"))
               \/ Do(k, [q EXCEPT ![op.on].calls = n], Entered(op, "try"))
  BY <1>2
<1>4. /\ op \in Ops /\ op.fn \in {"giveRecursive", "takeRecursive"} /\ op.ticks \in Int
      /\ k.cur # Idle /\ Me.at = "out" /\ ~Away(Me, k.cur) /\ Me.at \notin LockedSteps /\ Me.at # "noted"
      /\ Callable(op, Actions)
  BY StartsOf
<1>5. op.fn \in QueueCalls /\ op.on \in Queues
  BY <1>4 DEF Callable, QueueCalls, Sends, Receives, Takes
<1> DEFINE nq == [q EXCEPT ![op.on].calls = n]  c == Entered(op, "try")
<1>6. QueuesSound(nq) /\ QueuesSound(q)
  BY <1>5, CallsSet, CurrentTask
<1>7. c \in CallType /\ c.at = "try" /\ c.op = op
  BY <1>4, EnteredType DEF Steps, QueueSteps
<1>8. Return(k, q) \/ Return(k, nq) \/ Do(k, q, c) \/ Do(k, nq, c)
  BY <1>3
<1> HIDE DEF nq, c
<1>9. CallSound(c, k.cur) /\ c.at # "noted" /\ c.at \notin LockedSteps
  BY <1>4, <1>5, <1>7 DEF CallSound, LockedSteps
<1>10. ASSUME NEW m, QueuesSound(m), Return(k, m)
       PROVE  KernelInv' /\ Calm(k', k)
  BY <1>4, <1>10, SameInv, ReturnInv, CurrentTask
<1>11. ASSUME NEW m, QueuesSound(m), Do(k, m, c)
       PROVE  KernelInv' /\ Calm(k', k)
  BY <1>4, <1>7, <1>9, <1>11, SameInv, FreeInv, CurrentTask
<1> QED
  BY <1>6, <1>8, <1>10, <1>11

LEMMA OtherQueueInv ==
  ASSUME KernelInv, CountTaken \/ ResetQueue \/ AddToSet
  PROVE  KernelInv' /\ Calm(k', k)
<1>1. CASE CountTaken
  <2> DEFINE nq == [q EXCEPT ![Me.op.on].calls = @ + 1]
  <2>1. Me.at = "count" /\ Return(k, nq)
    BY <1>1 DEF CountTaken, At
  <2>2. Me.op.on \in Queues
    BY <2>1, OnQueue DEF QueueSteps
  <2>3. QueuesSound(nq)
    BY <2>2, CallsSet
  <2> HIDE DEF nq
  <2>4. ~Away(Me, k.cur) /\ Me.at # "noted" /\ Me.at \notin LockedSteps
    BY <2>1 DEF Away, LockedSteps
  <2> QED
    BY <2>1, <2>3, <2>4, SameInv, ReturnInv, CurrentTask
<1>2. CASE ResetQueue
  <2>1. PICK op \in Starts("reset") :
          LET done == xQueueGenericReset(s, op.on)
          IN  Return(YieldIf(done.k, WakeYields(s, <<op.on, "send">>)), done.q)
    BY <1>2 DEF ResetQueue
  <2> DEFINE done == xQueueGenericReset(s, op.on)
  <2>2. op.on \in Queues /\ ~Away(Me, k.cur) /\ Me.at # "noted" /\ Me.at \notin LockedSteps
    BY StartsOf DEF Callable, QueueCalls
  <2>3. Told(done, s, Noting)
    BY <2>2, CurrentTask, ResetTold
  <2>4. Return(YieldIf(done.k, WakeYields(s, <<op.on, "send">>)), done.q)
    BY <2>1
  <2> HIDE DEF done
  <2> QED
    BY <2>2, <2>3, <2>4, ToldParts, WholeInv
<1>3. CASE AddToSet
  <2>1. PICK op \in Starts("addToSet") : Return(k, [q EXCEPT ![op.on] = xQueueAddToSet(@, op.arg)])
    BY <1>3 DEF AddToSet
  <2> DEFINE queue == xQueueAddToSet(q[op.on], op.arg)
  <2>2. /\ op.on \in Queues /\ op.arg \in Queues
        /\ ~Away(Me, k.cur) /\ Me.at # "noted" /\ Me.at \notin LockedSteps
    BY StartsOf DEF Callable, QueueCalls
  <2>3. QueueSound(queue)
    BY <2>2, CurrentTask, QueueKept DEF QueuesSound
  <2>4. Return(k, [q EXCEPT ![op.on] = queue])
    BY <2>1
  <2> HIDE DEF queue
  <2>5. QueuesSound([q EXCEPT ![op.on] = queue])
    BY <2>2, <2>3, CurrentTask, QueuesChanged
  <2> QED
    BY <2>2, <2>4, <2>5, SameInv, ReturnInv, CurrentTask
<1> QED
  BY <1>1, <1>2, <1>3

\* The looks at the queue before it leaves its set.
LEMMA LeavingInv ==
  ASSUME KernelInv, RemoveFromSet \/ MemberEmpty \/ LeaveSet
  PROVE  KernelInv' /\ Calm(k', k)
<1>1. CASE RemoveFromSet
  <2>1. PICK op \in Starts("removeFromSet") : Return(k, q) \/ Do(k, q, Entered(op, "member"))
    BY <1>1 DEF RemoveFromSet
  <2> DEFINE c == Entered(op, "member")
  <2>2. /\ op \in Ops /\ op.fn \in QueueCalls /\ op.ticks \in Int /\ k.cur # Idle
        /\ ~Away(Me, k.cur) /\ Me.at # "noted" /\ Me.at \notin LockedSteps
    BY StartsOf DEF QueueCalls
  <2>3. c \in CallType /\ c.at = "member" /\ c.op = op
    BY <2>2, EnteredType DEF Steps, QueueSteps
  <2>4. Return(k, q) \/ Do(k, q, c)
    BY <2>1
  <2> HIDE DEF c
  <2>5. CallSound(c, k.cur) /\ c.at # "noted" /\ c.at \notin LockedSteps
    BY <2>2, <2>3 DEF CallSound, LockedSteps
  <2> QED
    BY <2>2, <2>3, <2>4, <2>5, SameInv, ReturnInv, FreeInv, CurrentTask
<1>2. CASE MemberEmpty
  <2> DEFINE c == [Me EXCEPT !.at = "leave"]
  <2>1. Me.at = "member" /\ (Return(k, q) \/ Do(k, q, c))
    BY <1>2 DEF MemberEmpty, At, GoTo
  <2>2. c \in CallType /\ c.at = "leave" /\ c.op = Me.op
    BY CurrentTask, AtStep DEF Steps, QueueSteps
  <2>3. ~Away(Me, k.cur) /\ Me.at # "noted" /\ Me.at \notin LockedSteps
    BY <2>1 DEF Away, LockedSteps
  <2>4. Me.op.fn \in QueueCalls /\ k.cur # Idle
    BY <2>1, OnQueue DEF QueueSteps
  <2> HIDE DEF c
  <2>5. CallSound(c, k.cur) /\ c.at # "noted" /\ c.at \notin LockedSteps
    BY <2>2, <2>4 DEF CallSound, LockedSteps
  <2> QED
    BY <2>1, <2>2, <2>3, <2>5, SameInv, ReturnInv, FreeInv, CurrentTask
<1>3. CASE LeaveSet
  <2> DEFINE r == [q[Me.op.on] EXCEPT !.set = NoQueue]
             nq == [q EXCEPT ![Me.op.on] = r]
  <2>1. Me.at = "leave" /\ Return(k, nq)
    BY <1>3 DEF LeaveSet, At
  <2>2. Me.op.on \in Queues
    BY <2>1, OnQueue DEF QueueSteps
  <2>3. QueueSound(r)
    BY <2>2, FieldSet, CurrentTask DEF QueuesSound
  <2> HIDE DEF r
  <2>4. QueuesSound(nq)
    BY <2>2, <2>3, CurrentTask, QueuesChanged
  <2> HIDE DEF nq
  <2>5. ~Away(Me, k.cur) /\ Me.at # "noted" /\ Me.at \notin LockedSteps
    BY <2>1 DEF Away, LockedSteps
  <2> QED
    BY <2>1, <2>4, <2>5, SameInv, ReturnInv, CurrentTask
<1> QED
  BY <1>1, <1>2, <1>3

-----------------------------------------------------------------------------
(* The steps of the calls on tasks                                         *)

\* The task that a call names.
LEMMA OnTask ==
  ASSUME KernelInv, NEW fn \in OnTasks, NEW op \in Starts(fn)
  PROVE  op.on \in Tasks /\ op.on \in Everyone /\ op.on # Idle /\ Exists(k, op.on)
<1>1. op.fn = fn /\ Callable(op, Actions) /\ Legal(op)
  BY StartsOf
<1>2. op.on \in Tasks /\ Exists(k, op.on)
  BY <1>1 DEF Callable, Legal
<1> QED
  BY <1>2, KernelAssumption DEF Everyone

LEMMA FirstLocked ==
  \A fn \in DOMAIN Locking : /\ Locking[fn] \in {"delay", "abort", "report", "find", "resume"}
                             /\ (Locking[fn] = "abort" => fn = "abort")
BY DEF Locking

LEMMA DelayNoneInv ==
  ASSUME KernelInv, DelayNone
  PROVE  KernelInv' /\ Calm(k', k)
<1>1. PICK op \in Starts("delay") : Do(k, q, Entered(op, "yield"))
  BY DEF DelayNone
<1> DEFINE c == Entered(op, "yield")
<1>2. op \in Ops /\ op.fn = "delay" /\ k.cur # Idle /\ op.ticks \in Int
  BY StartsOf
<1>3. c \in CallType /\ c.at = "yield" /\ c.op = op /\ Do(k, q, c)
  BY <1>1, <1>2, EnteredType DEF Steps
<1> HIDE DEF c
<1>4. CallSound(c, k.cur) /\ c.at # "noted" /\ c.at \notin LockedSteps
  BY <1>2, <1>3 DEF CallSound, LockedSteps, QueueSteps
<1>5. Me.at # "noted" /\ ~Away(Me, k.cur) /\ Me.at \notin LockedSteps
  BY StartsOf
<1> QED
  BY <1>3, <1>4, <1>5, SameInv, FreeInv, CurrentTask

LEMMA SuspendAllInv ==
  ASSUME KernelInv, SuspendAll
  PROVE  KernelInv' /\ Calm(k', k)
<1>0. PICK fn \in DOMAIN Locking :
        \E op \in Starts(fn) :
          Do(vTaskSuspendAll(k), q, [Entered(op, Locking[fn]) EXCEPT !.after = "return"])
  BY DEF SuspendAll
<1>1. PICK op \in Starts(fn) :
        Do(vTaskSuspendAll(k), q, [Entered(op, Locking[fn]) EXCEPT !.after = "return"])
  BY <1>0
<1> DEFINE step == Locking[fn]  d == vTaskSuspendAll(k)  b == Entered(op, step)
           c == [b EXCEPT !.after = "return"]
<1>2. /\ op \in Ops /\ op.fn = fn /\ k.cur # Idle /\ k.cur \in Everyone /\ Me.at = "out"
      /\ k.locked = 0 /\ IsReady(k, k.cur) /\ op.ticks \in Int
  BY StartsOf
<1>3. step \in {"delay", "abort", "report", "find", "resume"} /\ (step = "abort" => op.fn = "abort")
  BY <1>2, FirstLocked
<1> HIDE DEF step
<1>4. step \in Steps /\ step \in LockedSteps /\ step # "noted" /\ step \notin QueueSteps
  BY <1>3 DEF Steps, LockedSteps, QueueSteps
<1>5. b \in CallType /\ b.at = step /\ b.op = op
  BY <1>2, <1>4, EnteredType
<1> HIDE DEF b
<1>6. c \in CallType /\ c.at = step /\ c.op = op /\ c.after = "return"
  BY <1>5, AfterStep
<1>7. Do(d, q, c)
  BY <1>1 DEF b, step
<1> HIDE DEF c
<1>8. CallSound(c, k.cur)
  BY <1>2, <1>3, <1>4, <1>6 DEF CallSound
<1>9. Steady(d, Noting) /\ d.locked = 1 /\ d.cur = k.cur /\ IsReady(d, d.cur) /\ QueuesSound(q)
      /\ Calm(d, k)
  BY <1>2, CurrentTask, LockSteady DEF KeepsReady
<1> HIDE DEF d
<1> QED
  BY <1>2, <1>4, <1>6, <1>7, <1>8, <1>9, GoInv

\* The call that has asked for a delay.
LEMMA DelayedType ==
  ASSUME KernelInv, k.cur # Idle, NEW due \in Int
  PROVE  LET d == [Me EXCEPT !.at = "resume", !.after = "delay", !.due = due]
         IN  d \in CallType /\ d.at = "resume" /\ CallSound(d, k.cur) /\ Away(d, k.cur)
<1> DEFINE c1 == [Me EXCEPT !.at = "resume"]
           c2 == [c1 EXCEPT !.after = "delay"]
           c3 == [c2 EXCEPT !.due = due]
<1>1. Me \in CallType
  BY CurrentTask
<1>2. [Me EXCEPT !.at = "resume", !.after = "delay", !.due = due] = c3
  BY <1>1 DEF CallType
<1>3. c1 \in CallType /\ c1.at = "resume"
  BY <1>1, AtStep DEF Steps, LockedSteps
<1> HIDE DEF c1
<1>4. c2 \in CallType /\ c2.at = "resume" /\ c2.after = "delay"
  BY <1>3, AfterStep
<1> HIDE DEF c2
<1>5. c3 \in CallType /\ c3.at = "resume" /\ c3.after = "delay"
  BY <1>4, TimeSet
<1> HIDE DEF c3
<1>6. CallSound(c3, k.cur) /\ Away(c3, k.cur)
  BY <1>5 DEF CallSound, Away, QueueSteps
<1> QED
  BY <1>2, <1>5, <1>6

LEMMA AtDelay ==
  ASSUME KernelInv, Me.at = "delay"
  PROVE  /\ Me \in CallType /\ Me.at \in LockedSteps /\ ~Away(Me, k.cur) /\ IsReady(k, k.cur)
         /\ k.cur # Idle /\ Steady(k, Noting) /\ QueuesSound(q) /\ Clock \in Int
         /\ Me.wait \in Int /\ Me.mark \in Int /\ Me.last \in Int
         /\ "resume" \in LockedSteps
<1>1. Me.at \in LockedSteps /\ ~Away(Me, k.cur) /\ "resume" \in LockedSteps
  BY DEF LockedSteps, Away
<1>2. Me \in CallType /\ k.cur # Idle
  BY CurrentTask DEF CallSound
<1> QED
  BY <1>1, <1>2, CurrentTask DEF CallType

LEMMA DelayInv ==
  ASSUME KernelInv, Delay
  PROVE  KernelInv'
<1> DEFINE due == Clock + Me.wait  d == vTaskDelay(k, Me.wait)
           c == [Me EXCEPT !.at = "resume", !.after = "delay", !.due = due]
<1>1. Me.at = "delay" /\ Do(d, q, c)
  BY DEF Delay, At
<1>2. due \in Int
  BY <1>1, AtDelay
<1> HIDE DEF due
<1>3. c \in CallType /\ c.at = "resume" /\ CallSound(c, k.cur) /\ Away(c, k.cur)
  BY <1>1, <1>2, AtDelay, DelayedType
<1>4. Leaves(d, k, Noting)
  BY <1>1, AtDelay, AsleepSteady DEF vTaskDelay
<1> HIDE DEF c, d
<1> QED
  BY <1>1, <1>3, <1>4, AtDelay, AwayInv

LEMMA DelayUntilInv ==
  ASSUME KernelInv, DelayUntil
  PROVE  KernelInv'
<1> DEFINE due == Me.mark + Me.wait  d == vTaskDelayUntil(k, Me.last, Me.wait)
           last == (Me.last + Me.wait) % TickMod
           c == [Me EXCEPT !.at = "resume", !.after = "delay", !.due = due]
           b == [c EXCEPT !.mark = due]
           a == [b EXCEPT !.last = last]
<1>1. Me.at = "delay"
      /\ Do(d, q, [Me EXCEPT !.at = "resume", !.after = "delay", !.due = due, !.mark = due,
                             !.last = (@ + Me.wait) % TickMod])
  BY DEF DelayUntil, At
<1>2. due \in Int /\ Me \in CallType /\ Me.last + Me.wait \in Int
  BY <1>1, AtDelay
<1>3. last \in Int
  BY <1>2, TasksAssumption
<1>4. [Me EXCEPT !.at = "resume", !.after = "delay", !.due = due, !.mark = due,
                 !.last = (@ + Me.wait) % TickMod] = a
  BY <1>2 DEF CallType
<1> HIDE DEF due, last
<1>5. c \in CallType /\ c.at = "resume" /\ CallSound(c, k.cur) /\ Away(c, k.cur)
  BY <1>1, <1>2, AtDelay, DelayedType
<1> HIDE DEF c
<1>6. b \in CallType /\ b.at = c.at /\ b.op = c.op /\ b.after = c.after
  BY <1>2, <1>5, TimeSet
<1> HIDE DEF b
<1>7. a \in CallType /\ a.at = c.at /\ a.op = c.op /\ a.after = c.after
  BY <1>3, <1>6, TimeSet
<1> HIDE DEF a
<1>8. CallSound(a, k.cur) /\ Away(a, k.cur) /\ a.at \in LockedSteps
  BY <1>5, <1>7, <1>1, AtDelay DEF CallSound, Away
<1>9. Do(d, q, a)
  BY <1>1, <1>4
<1> DEFINE wake == (Me.last + Me.wait) % TickMod
<1>10. (wake - k.tick) % TickMod \in Int
  <2>1. k.tick \in Nat
    BY CurrentTask DEF KernelType
  <2>2. wake \in Int
    BY <1>3 DEF last
  <2> HIDE DEF wake
  <2>3. wake - k.tick \in Int
    BY <2>1, <2>2
  <2> QED
    BY <2>3, TasksAssumption
<1>11. CASE d = k
  <2>1. Keeps(d, k, Noting)
    BY <1>11, SameInv
  <2> QED
    BY <1>1, <1>7, <1>8, <1>9, <2>1, AtDelay, HeldInv
<1>12. CASE d = prvAddCurrentTaskToDelayedList(k, (wake - k.tick) % TickMod, FALSE)
  <2>1. Leaves(d, k, Noting)
    BY <1>1, <1>10, <1>12, AtDelay, AsleepSteady
  <2> HIDE DEF d
  <2> QED
    BY <1>1, <1>7, <1>8, <1>9, <2>1, AtDelay, AwayInv
<1> QED
  BY <1>11, <1>12 DEF vTaskDelayUntil

\* The call goes on to unlock the scheduler.
LEMMA OnToResume ==
  ASSUME KernelInv, Me.after = "return"
  PROVE  LET c == [Me EXCEPT !.at = "resume"]
         IN  /\ c \in CallType /\ c.at = "resume" /\ c.after = "return" /\ CallSound(c, k.cur)
             /\ c.at \in LockedSteps /\ c.at # "noted"
<1> DEFINE c == [Me EXCEPT !.at = "resume"]
<1>1. c \in CallType /\ c.at = "resume" /\ c.after = "return"
  BY CurrentTask, AtStep DEF Steps, LockedSteps
<1> HIDE DEF c
<1>2. CallSound(c, k.cur) /\ c.at \in LockedSteps
  BY <1>1 DEF CallSound, QueueSteps, LockedSteps
<1> QED
  BY <1>1, <1>2 DEF c

LEMMA ToResumeInv ==
  ASSUME KernelInv, Me.at \in {"abort", "report", "find", "sleep"}, NEW nk,
         Do(nk, q, [Me EXCEPT !.at = "resume"]), Keeps(nk, k, Noting)
  PROVE  KernelInv' /\ Calm(k', k)
<1> DEFINE c == [Me EXCEPT !.at = "resume"]
<1>1. Me.after = "return" /\ Me.at \in LockedSteps /\ ~Away(Me, k.cur) /\ QueuesSound(q)
  BY CurrentTask DEF CallSound, LockedSteps, Away
<1>2. c \in CallType /\ CallSound(c, k.cur) /\ c.at \in LockedSteps
  BY <1>1, OnToResume
<1> HIDE DEF c
<1>3. Do(nk, q, c)
  BY DEF c
<1> QED
  BY <1>1, <1>2, <1>3, HeldInv

LEMMA WalkInv ==
  ASSUME KernelInv, GetSystemState \/ GetHandle
  PROVE  KernelInv' /\ Calm(k', k)
<1>1. CASE GetSystemState
  <2>1. Me.at = "report" /\ Do(Walked(k), q, [Me EXCEPT !.at = "resume"])
    BY <1>1 DEF GetSystemState, At, GoTo
  <2> QED
    BY <2>1, ToResumeInv, WalkedKeeps, CurrentTask
<1>2. CASE GetHandle
  <2>1. Me.at = "find" /\ Do(xTaskGetHandle(k, Me.op.on), q, [Me EXCEPT !.at = "resume"])
    BY <1>2 DEF GetHandle, At, GoTo
  <2> QED
    BY <2>1, ToResumeInv, HandleKeeps, CurrentTask
<1> QED
  BY <1>1, <1>2

LEMMA DoWithSelf ==
  ASSUME KernelInv, NEW nk, NEW c, NEW b, DoWith(nk, c, k.cur, b)
  PROVE  Do(nk, q, c)
<1>1. [call EXCEPT ![k.cur] = c, ![k.cur] = IF k.cur = k.cur THEN c ELSE b] = [call EXCEPT ![k.cur] = c]
  BY CurrentTask DEF KernelInv, CallsSound
<1> QED
  BY <1>1 DEF DoWith, Do

\* The call of another task of which only `cut' changes.
LEMMA CutCall ==
  ASSUME KernelInv, NEW t \in Everyone, NEW b \in BOOLEAN
  PROVE  LET d == [call[t] EXCEPT !.cut = b]
         IN  /\ d \in CallType /\ d.at = call[t].at /\ CallSound(d, t)
             /\ Noting = IF d.at = "noted" THEN Noting \cup {t} ELSE Noting \ {t}
             /\ t # k.cur => d.at \notin LockedSteps
<1> DEFINE d == [call[t] EXCEPT !.cut = b]
<1>1. call[t] \in CallType /\ CallSound(call[t], t)
  BY DEF KernelInv, CallsSound
<1>2. d \in CallType /\ d.at = call[t].at /\ d.op = call[t].op /\ d.after = call[t].after
  BY <1>1, FlagSet
<1> HIDE DEF d
<1>3. CallSound(d, t)
  BY <1>1, <1>2 DEF CallSound
<1>4. Noting = IF d.at = "noted" THEN Noting \cup {t} ELSE Noting \ {t}
  BY <1>2 DEF Noting
<1>5. t # k.cur => d.at \notin LockedSteps
  BY <1>2, Others
<1> QED
  BY <1>2, <1>3, <1>4, <1>5 DEF d

LEMMA AbortDelayInv ==
  ASSUME KernelInv, AbortDelay
  PROVE  KernelInv' /\ Calm(k', k)
<1> DEFINE t == Me.op.on  d == xTaskAbortDelay(k, t)  c == [Me EXCEPT !.at = "resume"]
           cut == call[t].cut \/ eTaskGetState(k, t) = "blocked"
           b == [call[t] EXCEPT !.cut = cut]
<1>1. Me.at = "abort" /\ DoWith(d, c, t, [call[t] EXCEPT !.cut = @ \/ eTaskGetState(k, t) = "blocked"])
  BY DEF AbortDelay, At
<1>2. Me.op \in Ops /\ Me.op.fn = "abort" /\ Me.after = "return"
  BY <1>1, CurrentTask DEF CallSound, CallType
<1>3. t \in Everyone
  <2>1. Callable(Me.op, Actions)
    BY <1>2, OpOf
  <2> QED
    BY <1>2, <2>1 DEF Callable, OnTasks, Everyone
<1>4. Keeps(d, k, Noting)
  BY <1>3, AbortKeeps, CurrentTask
<1>5. c \in CallType /\ CallSound(c, k.cur) /\ c.at \in LockedSteps /\ c.at # "noted"
  BY <1>2, OnToResume
<1>6. DoWith(d, c, t, b)
  <2>1. call[t] \in CallType
    BY <1>3 DEF KernelInv, CallsSound
  <2>2. [call[t] EXCEPT !.cut = @ \/ eTaskGetState(k, t) = "blocked"] = b
    BY <2>1 DEF CallType
  <2> QED
    BY <1>1, <2>2
<1>7. cut \in BOOLEAN
  OBVIOUS
<1> HIDE DEF t, cut, d
<1>8. CASE t = k.cur
  <2>1. Do(d, q, c)
    BY <1>6, <1>8, DoWithSelf
  <2> QED
    BY <1>1, <1>4, <2>1, ToResumeInv
<1>9. CASE t # k.cur
  <2>1. /\ b \in CallType /\ CallSound(b, t) /\ b.at \notin LockedSteps
        /\ Noting = IF b.at = "noted" THEN Noting \cup {t} ELSE Noting \ {t}
    BY <1>3, <1>7, <1>9, CutCall
  <2> HIDE DEF b, c
  <2>2. k.locked = 1 /\ IsReady(k, k.cur) /\ k.cur \in Everyone /\ Me.at # "noted"
    BY <1>1, CurrentTask DEF LockedSteps, Away
  <2>3. d.locked = 1 /\ d.cur = k.cur /\ IsReady(d, d.cur) /\ Steady(d, Noting)
        /\ Calm(d, k)
    BY <1>4, <2>2 DEF Keeps, Holds, KeepsReady
  <2>4. Steady(d, IF b.at = "noted" THEN Noting \cup {t} ELSE Noting \ {t})
    BY <2>1, <2>3
  <2> QED
    BY <1>3, <1>5, <1>6, <1>9, <2>1, <2>2, <2>3, <2>4, DoWithInv
<1> QED
  BY <1>8, <1>9

LEMMA SuspendTaskInv ==
  ASSUME KernelInv, SuspendTask
  PROVE  KernelInv' /\ Calm(k', k)
<1>1. PICK op \in Starts("suspend") :
        DoWith(vTaskSuspend(k, op.on), Entered(op, "refresh"),
               op.on, [call[op.on] EXCEPT !.cut = @ \/ ~QueueWait(call[op.on])])
  BY DEF SuspendTask
<1> DEFINE t == op.on  d == vTaskSuspend(k, t)  c == Entered(op, "refresh")
           cut == call[t].cut \/ ~QueueWait(call[t])
           b == [call[t] EXCEPT !.cut = cut]
<1>2. /\ op \in Ops /\ k.cur # Idle /\ k.cur \in Everyone /\ Me.at = "out"
      /\ k.locked = 0 /\ IsReady(k, k.cur) /\ op.ticks \in Int
  BY StartsOf
<1>3. t \in Everyone /\ t # Idle /\ Exists(k, t)
  BY OnTask DEF OnTasks
<1>4. Drops(d, k, t, Noting)
  BY <1>3, SuspendDrops, CurrentTask
<1>5. c \in CallType /\ c.at = "refresh" /\ c.op = op
  BY <1>2, EnteredType DEF Steps
<1>6. DoWith(d, c, t, b)
  <2>1. call[t] \in CallType
    BY <1>3 DEF KernelInv, CallsSound
  <2>2. [call[t] EXCEPT !.cut = @ \/ ~QueueWait(call[t])] = b
    BY <2>1 DEF CallType
  <2> QED
    BY <1>1, <2>2
<1>7. cut \in BOOLEAN
  OBVIOUS
<1> HIDE DEF cut, d, c
<1>8. /\ b \in CallType /\ CallSound(b, t) /\ (t # k.cur => b.at \notin LockedSteps)
      /\ b.at = call[t].at
      /\ Noting = IF b.at = "noted" THEN Noting \cup {t} ELSE Noting \ {t}
  BY <1>3, <1>7, CutCall
<1> HIDE DEF b
<1>9. CallSound(c, k.cur) /\ c.at # "noted" /\ c.at \notin LockedSteps
  BY <1>2, <1>5 DEF CallSound, QueueSteps, LockedSteps
<1>10. t = k.cur => b.at = "out"
  BY <1>2, <1>8 DEF Me
<1>11. (t = k.cur => b.at # "noted") /\ b.at \notin LockedSteps
  BY <1>8, <1>10 DEF LockedSteps
<1>12. d.locked = 0 /\ d.cur = k.cur /\ Steady(d, Noting) /\ Calm(d, k)
  BY <1>2, <1>4 DEF Drops
<1>13. IsReady(d, d.cur) \/ (d.cur = k.cur /\ Away(c, k.cur))
  BY <1>2, <1>4, <1>5, <1>12 DEF Drops, Away
<1>14. Steady(d, IF b.at = "noted" THEN Noting \cup {t} ELSE Noting \ {t})
  BY <1>8, <1>12
<1> HIDE DEF t
<1>15. Me.at # "noted" /\ (d.locked = 1 <=> c.at \in LockedSteps) /\ (d.locked = 1 => d.cur = k.cur)
      /\ Calm(d, k)
  BY <1>2, <1>9, <1>12
<1> QED
  BY <1>3, <1>5, <1>6, <1>8, <1>9, <1>11, <1>13, <1>14, <1>15, DoWithInv

LEMMA RefreshInv ==
  ASSUME KernelInv, Refresh
  PROVE  KernelInv' /\ Calm(k', k)
<1> DEFINE d == prvResetNextTaskUnblockTime(k)  c == [Me EXCEPT !.at = "yield"]
<1>1. Me.at = "refresh" /\ (IF Me.op.on = k.cur THEN Do(d, q, c) ELSE Return(d, q))
  BY DEF Refresh, At, GoTo
<1>2. Me.at # "noted" /\ Me.at \notin LockedSteps /\ QueuesSound(q) /\ Me \in CallType /\ k.locked = 0
  BY <1>1, CurrentTask DEF LockedSteps
<1>3. k.cur # Idle
  BY <1>1, CurrentTask DEF CallSound
<1>4. Steady(d, Noting) /\ Onwards(d, k) /\ d.cur = k.cur /\ d.locked = 0
      /\ Calm(d, k)
  BY <1>2, CurrentTask, ResetSteady, ResetCalm DEF SameRest
<1>5. c \in CallType /\ c.at = "yield"
  BY <1>2, AtStep DEF Steps
<1> HIDE DEF c, d
<1>6. CASE Me.op.on = k.cur
  <2>1. CallSound(c, k.cur) /\ c.at # "noted" /\ c.at \notin LockedSteps /\ Away(c, k.cur)
    BY <1>3, <1>5 DEF CallSound, QueueSteps, LockedSteps, Away
  <2> QED
    BY <1>1, <1>2, <1>4, <1>5, <1>6, <2>1, GoInv
<1>7. CASE Me.op.on # k.cur
  <2>1. ~Away(Me, k.cur)
    BY <1>1, <1>7 DEF Away
  <2> QED
    BY <1>1, <1>2, <1>4, <1>7, <2>1, ReturnInv
<1> QED
  BY <1>6, <1>7

\* A call that is one section.
LEMMA WholeOf ==
  ASSUME KernelInv, NEW fn, NEW op \in Starts(fn), NEW m, NEW yields, Whole(m, yields),
         Keeps(m, k, Noting)
  PROVE  KernelInv' /\ Calm(k', k)
<1>1. Return(YieldIf(m, yields), q)
  BY DEF Whole
<1>2. Me.at # "noted" /\ ~Away(Me, k.cur) /\ Me.at \notin LockedSteps /\ QueuesSound(q)
  BY StartsOf, CurrentTask
<1> QED
  BY <1>1, <1>2, WholeInv

LEMMA ResumeInv ==
  ASSUME KernelInv, Resume
  PROVE  KernelInv' /\ Calm(k', k)
<1>1. PICK op \in Starts("resume") : Whole(vTaskResume(k, op.on), ResumeYields(k, op.on))
  BY DEF Resume
<1>2. op.on \in Everyone
  BY OnTask DEF OnTasks
<1>3. Keeps(vTaskResume(k, op.on), k, Noting)
  BY <1>2, ResumeKeeps, CurrentTask
<1> QED
  BY <1>1, <1>3, WholeOf

LEMMA PrioritySetInv ==
  ASSUME KernelInv, PrioritySet
  PROVE  KernelInv' /\ Calm(k', k)
<1>1. PICK op \in Starts("prioritySet") :
        Whole(vTaskPrioritySet(k, op.on, op.arg), PrioritySetYields(k, op.on, op.arg))
  BY DEF PrioritySet
<1>2. op.on \in Everyone /\ op.arg \in Priorities
  BY OnTask, StartsOf DEF OnTasks, Callable
<1>3. Keeps(vTaskPrioritySet(k, op.on, op.arg), k, Noting)
  BY <1>2, PrioritySetKeeps, CurrentTask
<1> QED
  BY <1>1, <1>3, WholeOf

LEMMA NotifyInv ==
  ASSUME KernelInv, Notify \/ NotifyStateClear
  PROVE  KernelInv' /\ Calm(k', k)
<1>1. CASE Notify
  <2>1. PICK op \in Starts("notify") :
          Whole(xTaskGenericNotify(k, op.on, op.how, op.arg), NotifyYields(k, op.on))
    BY <1>1 DEF Notify
  <2>2. op.on \in Everyone /\ Exists(k, op.on)
    BY OnTask DEF OnTasks
  <2>3. op.how \in Actions /\ op.arg \in Nat
    BY StartsOf DEF Callable
  <2>4. Keeps(xTaskGenericNotify(k, op.on, op.how, op.arg), k, Noting)
    BY <2>2, <2>3, NotifyKeeps, CurrentTask
  <2> QED
    BY <2>1, <2>4, WholeOf
<1>2. CASE NotifyStateClear
  <2>1. PICK op \in Starts("clear") : Whole(xTaskNotifyStateClear(k, op.on), FALSE)
    BY <1>2 DEF NotifyStateClear
  <2>2. op.on \in Everyone /\ Exists(k, op.on)
    BY OnTask DEF OnTasks
  <2>3. Keeps(xTaskNotifyStateClear(k, op.on), k, Noting)
    BY <2>2, StateClearKeeps, CurrentTask
  <2> QED
    BY <2>1, <2>3, WholeOf
<1> QED
  BY <1>1, <1>2

LEMMA CreatedInv ==
  ASSUME KernelInv, Created
  PROVE  KernelInv' /\ Calm(k', k)
<1> DEFINE yields == Exists(k, Me.op.on) /\ CreationYields(k, Me.op.on)
<1>1. Me.at = "created" /\ Return(YieldIf(k, yields), q)
  BY DEF Created, At, Whole
<1> HIDE DEF yields
<1>2. Me.at # "noted" /\ ~Away(Me, k.cur) /\ Me.at \notin LockedSteps
  BY <1>1 DEF Away, LockedSteps
<1> QED
  BY <1>1, <1>2, SameInv, WholeInv

\* A task that is gone, or new, has no call.
LEMMA OutCall ==
  ASSUME KernelInv, NEW t
  PROVE  /\ Out(t) \in CallType /\ Out(t).at = "out" /\ CallSound(Out(t), t)
         /\ Back \in CallType /\ Back.at = "out" /\ CallSound(Back, k.cur)
<1>1. k.tick \in Int /\ Clock \in Int
  BY CurrentTask DEF KernelType
<1>2. Out(t) \in CallType /\ Out(t).at = "out"
  BY <1>1, Returned DEF Out
<1>3. Back \in CallType /\ Back.at = "out"
  BY BackType DEF Back
<1> QED
  BY <1>2, <1>3, OutSound

LEMMA DeleteInv ==
  ASSUME KernelInv, Delete
  PROVE  KernelInv' /\ Calm(k', k)
<1>1. PICK op \in Starts("delete") :
        IF op.on = k.cur THEN Do(vTaskDelete(k, op.on), q, Entered(op, "yield"))
                         ELSE DoWith(vTaskDelete(k, op.on), Back, op.on, Out(op.on))
  BY DEF Delete
<1> DEFINE t == op.on  d == vTaskDelete(k, t)
<1>2. /\ op \in Ops /\ k.cur # Idle /\ k.cur \in Everyone /\ Me.at = "out"
      /\ k.locked = 0 /\ IsReady(k, k.cur) /\ op.ticks \in Int
  BY StartsOf
<1>3. t \in Everyone /\ t # Idle /\ Exists(k, t)
  BY OnTask DEF OnTasks
<1>4. CASE t = k.cur
  <2> DEFINE c == Entered(op, "yield")
  <2>1. k.cur \notin Noting
    BY <1>2 DEF Noting, Me
  <2>2. Drops(d, k, k.cur, Noting)
    BY <1>2, <1>3, <1>4, <2>1, EndedDrops, CurrentTask
  <2>3. c \in CallType /\ c.at = "yield"
    BY <1>2, EnteredType DEF Steps
  <2>4. Do(d, q, c)
    BY <1>1, <1>4
  <2> HIDE DEF c, d
  <2>5. CallSound(c, k.cur) /\ c.at # "noted" /\ c.at \notin LockedSteps /\ Away(c, k.cur)
    BY <1>2, <2>3 DEF CallSound, QueueSteps, LockedSteps, Away
  <2>6. Steady(d, Noting) /\ d.locked = 0 /\ d.cur = k.cur /\ Calm(d, k)
    BY <1>2, <2>2 DEF Drops
  <2>7. Me.at # "noted" /\ QueuesSound(q)
    BY <1>2, CurrentTask
  <2> QED
    BY <2>3, <2>4, <2>5, <2>6, <2>7, GoInv
<1>5. CASE t # k.cur
  <2> DEFINE b == Out(t)
  <2>1. Drops(d, k, t, Noting \ {t})
    BY <1>3, <1>5, DeleteDrops, CurrentTask
  <2>2. b \in CallType /\ b.at = "out" /\ CallSound(b, t)
        /\ Back \in CallType /\ Back.at = "out" /\ CallSound(Back, k.cur)
    BY OutCall
  <2>3. DoWith(d, Back, t, b)
    BY <1>1, <1>5
  <2> HIDE DEF b, d, t
  <2>4. Back.at # "noted" /\ Back.at \notin LockedSteps /\ b.at # "noted" /\ b.at \notin LockedSteps
    BY <2>2 DEF LockedSteps
  <2>5. Steady(d, IF b.at = "noted" THEN Noting \cup {t} ELSE Noting \ {t})
    BY <2>1, <2>4 DEF Drops
  <2>6. d.locked = 0 /\ d.cur = k.cur /\ IsReady(d, d.cur) /\ Calm(d, k)
    BY <1>2, <1>5, <2>1 DEF Drops
  <2>7. Me.at # "noted" /\ (d.locked = 1 <=> Back.at \in LockedSteps) /\ (d.locked = 1 => d.cur = k.cur)
    BY <1>2, <2>4, <2>6
  <2> QED
    BY <1>3, <2>2, <2>3, <2>4, <2>5, <2>6, <2>7, DoWithInv
<1> QED
  BY <1>4, <1>5

LEMMA CreateTaskInv ==
  ASSUME KernelInv, CreateTask
  PROVE  KernelInv' /\ Calm(k', k)
<1>1. PICK op \in Starts("create") :
        DoWith(prvAddNewTaskToReadyList(k, op.on, op.arg, TRUE), Entered(op, "created"),
               op.on, Out(op.on))
  BY DEF CreateTask
<1> DEFINE t == op.on  d == prvAddNewTaskToReadyList(k, t, op.arg, TRUE)
           c == Entered(op, "created")  b == Out(t)
<1>2. /\ op \in Ops /\ op.fn = "create" /\ k.cur # Idle /\ k.cur \in Everyone /\ Me.at = "out"
      /\ k.locked = 0 /\ IsReady(k, k.cur) /\ op.ticks \in Int
      /\ Callable(op, Actions) /\ Legal(op)
  BY StartsOf
<1>3. t \in Everyone /\ op.arg \in Nat /\ ~Exists(k, t)
  BY <1>2 DEF Callable, Legal, Everyone
<1>4. Steady(k, Noting \ {t})
  <2>1. k.tcb[t].state = "none"
    BY <1>3 DEF Exists
  <2> QED
    BY <1>2, <2>1, LessNoting, CurrentTask
<1>5. Keeps(d, k, Noting \ {t})
  BY <1>3, <1>4, CreateKeeps
<1>6. c \in CallType /\ c.at = "created"
  BY <1>2, EnteredType DEF Steps
<1>7. b \in CallType /\ b.at = "out" /\ CallSound(b, t)
  BY OutCall
<1>8. DoWith(d, c, t, b)
  BY <1>1
<1> HIDE DEF t, d, c, b
<1>9. /\ CallSound(c, k.cur) /\ c.at # "noted" /\ c.at \notin LockedSteps
      /\ b.at # "noted" /\ b.at \notin LockedSteps
  BY <1>2, <1>6, <1>7 DEF CallSound, QueueSteps, LockedSteps
<1>10. d.locked = 0 /\ d.cur = k.cur /\ IsReady(d, d.cur) /\ Calm(d, k)
  BY <1>2, <1>5 DEF Keeps, Holds, KeepsReady
<1>11. Steady(d, IF b.at = "noted" THEN Noting \cup {t} ELSE Noting \ {t})
  BY <1>5, <1>9 DEF Keeps, Holds
<1>12. Me.at # "noted" /\ (d.locked = 1 <=> c.at \in LockedSteps) /\ (d.locked = 1 => d.cur = k.cur)
  BY <1>2, <1>9, <1>10
<1> QED
  BY <1>3, <1>6, <1>7, <1>8, <1>9, <1>10, <1>11, <1>12, DoWithInv

\* The first section of a call that waits for a notification.
LEMMA NotesInv ==
  ASSUME KernelInv, NEW fn, NEW op \in Starts(fn), NEW d,
         Do(d, q, [Entered(op, "noted") EXCEPT !.due = Clock + op.ticks]),
         Notes(d, k, Noting \cup {k.cur})
  PROVE  KernelInv'
<1> DEFINE b == Entered(op, "noted")  due == Clock + op.ticks  c == [b EXCEPT !.due = due]
<1>1. /\ op \in Ops /\ k.cur # Idle /\ k.cur \in Everyone /\ Me.at = "out"
      /\ k.locked = 0 /\ op.ticks \in Int
  BY StartsOf
<1>2. due \in Int /\ QueuesSound(q)
  BY <1>1, CurrentTask
<1>3. b \in CallType /\ b.at = "noted"
  BY <1>1, EnteredType DEF Steps
<1> HIDE DEF b, due
<1>4. c \in CallType /\ c.at = "noted"
  BY <1>2, <1>3, TimeSet
<1>5. Do(d, q, c)
  BY DEF b, due
<1> HIDE DEF c
<1>6. CallSound(c, k.cur) /\ c.at \notin LockedSteps
  BY <1>1, <1>4 DEF CallSound, QueueSteps, LockedSteps
<1>7. Steady(d, (Noting \ {k.cur}) \cup (IF c.at = "noted" THEN {k.cur} ELSE {}))
  <2>1. (Noting \ {k.cur}) \cup (IF c.at = "noted" THEN {k.cur} ELSE {}) = Noting \cup {k.cur}
    BY <1>4
  <2> QED
    BY <2>1 DEF Notes
<1>8. d.locked = 0 /\ IsReady(d, d.cur)
  BY <1>1 DEF Notes
<1>9. (d.locked = 1 <=> c.at \in LockedSteps) /\ (d.locked = 1 => d.cur = k.cur)
  BY <1>6, <1>8
<1> QED
  BY <1>2, <1>4, <1>5, <1>6, <1>7, <1>8, <1>9, DoInv

LEMMA AwaitInv ==
  ASSUME KernelInv, NotifyTake \/ NotifyWait
  PROVE  KernelInv'
<1>1. ASSUME NEW fn, NEW op \in Starts(fn)
      PROVE  /\ Notes(NotifyTakeFirst(k, op.ticks), k, Noting \cup {k.cur})
             /\ Notes(NotifyWaitFirst(k, op.ticks, op.how = "clear"), k, Noting \cup {k.cur})
  <2>1. k.cur # Idle /\ IsReady(k, k.cur) /\ k.locked = 0 /\ op.ticks \in Int /\ Steady(k, Noting)
    BY <1>1, StartsOf, CurrentTask
  <2>2. (op.how = "clear") \in BOOLEAN
    OBVIOUS
  <2> QED
    BY <2>1, <2>2, TakeFirstNotes, WaitFirstNotes
<1>2. CASE NotifyTake
  <2>1. PICK op \in Starts("notifyTake") :
          Do(NotifyTakeFirst(k, op.ticks), q, [Entered(op, "noted") EXCEPT !.due = Clock + op.ticks])
    BY <1>2 DEF NotifyTake
  <2> QED
    BY <1>1, <2>1, NotesInv
<1>3. CASE NotifyWait
  <2>1. PICK op \in Starts("notifyWait") :
          Do(NotifyWaitFirst(k, op.ticks, op.how = "clear"), q,
             [Entered(op, "noted") EXCEPT !.due = Clock + op.ticks])
    BY <1>3 DEF NotifyWait
  <2> QED
    BY <1>1, <2>1, NotesInv
<1> QED
  BY <1>2, <1>3

LEMMA NotedInv ==
  ASSUME KernelInv, Noted_
  PROVE  KernelInv' /\ Calm(k', k)
<1> DEFINE clear == Me.op.how = "clear"
           d == IF Me.op.fn = "notifyTake" THEN ulTaskNotifyTake(k, clear) ELSE xTaskNotifyWait(k, clear)
<1>1. Me.at = "noted" /\ Do(d, q, Back)
  BY DEF Noted_, At, Return, Back
<1>2. ~Away(Me, k.cur) /\ Me.at \notin LockedSteps
  BY <1>1 DEF Away, LockedSteps
<1>3. k.locked = 0 /\ IsReady(k, k.cur) /\ k.cur \in Everyone /\ QueuesSound(q)
  BY <1>2, CurrentTask
<1>4. clear \in BOOLEAN
  OBVIOUS
<1> HIDE DEF clear
<1>5. Keeps(d, k, Noting \ {k.cur})
  BY <1>3, <1>4, CurrentTask, LookedSteady
<1> HIDE DEF d
<1>6. Back \in CallType /\ Back.at = "out" /\ CallSound(Back, k.cur)
  BY OutCall
<1>7. Back.at \notin LockedSteps
  BY <1>6 DEF LockedSteps
<1>8. Steady(d, (Noting \ {k.cur}) \cup (IF Back.at = "noted" THEN {k.cur} ELSE {}))
  <2>1. (Noting \ {k.cur}) \cup (IF Back.at = "noted" THEN {k.cur} ELSE {}) = Noting \ {k.cur}
    BY <1>6
  <2> QED
    BY <1>5, <2>1 DEF Keeps, Holds
<1>9. d.locked = 0 /\ IsReady(d, d.cur) /\ Calm(d, k)
  BY <1>3, <1>5 DEF Keeps, Holds, KeepsReady
<1>10. (d.locked = 1 <=> Back.at \in LockedSteps) /\ (d.locked = 1 => d.cur = k.cur)
  BY <1>7, <1>9
<1> QED
  BY <1>1, <1>3, <1>6, <1>8, <1>9, <1>10, DoInv

LEMMA TaskCallInv ==
  ASSUME KernelInv, TaskCall
  PROVE  KernelInv'
BY SuspendAllInv, DelayNoneInv, DelayInv, DelayUntilInv, AbortDelayInv, WalkInv, SuspendTaskInv,
   RefreshInv, ResumeInv, PrioritySetInv, DeleteInv, CreateTaskInv, CreatedInv, AwaitInv, NotedInv,
   NotifyInv
   DEF TaskCall

-----------------------------------------------------------------------------
(* The steps of the idle task, and interrupts                              *)

\* The idle task between two passes of its loop.
LEMMA IdleOut ==
  ASSUME KernelInv, k.cur = Idle, Me.at = "out"
  PROVE  /\ Me \in CallType /\ ~Away(Me, k.cur) /\ Me.at \notin LockedSteps /\ Me.at # "noted"
         /\ k.locked = 0 /\ IsReady(k, k.cur) /\ Steady(k, Noting) /\ QueuesSound(q)
         /\ CallSound(Me, k.cur) /\ k.cur \in Everyone
<1>1. ~Away(Me, k.cur) /\ Me.at \notin LockedSteps
  BY DEF Away, LockedSteps
<1> QED
  BY <1>1, CurrentTask

LEMMA IdleCleansInv ==
  ASSUME KernelInv, IdleCleans
  PROVE  KernelInv' /\ Calm(k', k)
<1> DEFINE d == prvCheckTasksWaitingTermination(k)  x == Head(k.ended)  b == Out(x)
<1>1. k.cur = Idle /\ Me.at = "out" /\ k.ended # <<>> /\ DoWith(d, Me, x, b)
  BY DEF IdleCleans, At
<1>2. x \in Everyone /\ x # Idle /\ Drops(d, k, x, Noting \ {x})
  BY <1>1, IdleOut, CleanedDrops
<1> HIDE DEF d, x
<1>3. /\ b \in CallType /\ b.at # "noted" /\ b.at \notin LockedSteps
      /\ CallSound(b, x)
  BY OutCall, OutSound
<1> HIDE DEF b
<1>4. Steady(d, IF b.at = "noted" THEN Noting \cup {x} ELSE Noting \ {x})
  BY <1>2, <1>3 DEF Drops
<1>5. d.locked = 0 /\ d.cur = k.cur /\ IsReady(d, d.cur) /\ Calm(d, k)
  BY <1>1, <1>2, IdleOut DEF Drops
<1>6. (d.locked = 1 <=> Me.at \in LockedSteps) /\ (d.locked = 1 => d.cur = k.cur)
  BY <1>1, <1>5, IdleOut
<1> QED
  BY <1>1, <1>2, <1>3, <1>4, <1>5, <1>6, IdleOut, DoWithInv

LEMMA IdleYieldsInv ==
  ASSUME KernelInv, IdleYields
  PROVE  KernelInv' /\ Calm(k', k)
<1> DEFINE d == vTaskSwitchContext(k)
<1>1. k.cur = Idle /\ Me.at = "out" /\ Do(d, q, Me)
  BY DEF IdleYields, At
<1>2. Steady(d, Noting) /\ IsReady(d, d.cur) /\ d.locked = 0 /\ Calm(d, k)
  BY <1>1, IdleOut, SwitchSteady
<1> HIDE DEF d
<1> QED
  BY <1>1, <1>2, IdleOut, GoInv

LEMMA IdleSuspendsInv ==
  ASSUME KernelInv, IdleSuspends
  PROVE  KernelInv' /\ Calm(k', k)
<1> DEFINE d == vTaskSuspendAll(k)  b == [Me EXCEPT !.at = "sleep"]
           c == [b EXCEPT !.after = "return"]
<1>1. k.cur = Idle /\ Me.at = "out" /\ Do(d, q, [Me EXCEPT !.at = "sleep", !.after = "return"])
  BY DEF IdleSuspends, At
<1>2. Me \in CallType
  BY <1>1, IdleOut
<1>3. Do(d, q, c)
  <2>1. [Me EXCEPT !.at = "sleep", !.after = "return"] = c
    BY <1>2 DEF CallType
  <2> QED
    BY <1>1, <2>1
<1>4. b \in CallType /\ b.at = "sleep"
  BY <1>2, AtStep DEF Steps, LockedSteps
<1> HIDE DEF b
<1>5. c \in CallType /\ c.at = "sleep" /\ c.after = "return"
  BY <1>4, AfterStep
<1>6. Steady(d, Noting) /\ d.locked = 1 /\ d.cur = k.cur /\ IsReady(d, d.cur) /\ Calm(d, k)
  BY <1>1, IdleOut, LockSteady DEF KeepsReady
<1> HIDE DEF c, d
<1>7. CallSound(c, k.cur) /\ c.at # "noted" /\ c.at \in LockedSteps
  BY <1>1, <1>5 DEF CallSound, QueueSteps, LockedSteps
<1> QED
  BY <1>1, <1>3, <1>5, <1>6, <1>7, IdleOut, GoInv

LEMMA IdleTime ==
  ASSUME KernelInv
  PROVE  prvGetExpectedIdleTime(k) \in Int
<1>1. k.next \in Int /\ k.tick \in Int
  BY CurrentTask DEF KernelType
<1>2. k.next - k.tick \in Int
  BY <1>1
<1>3. (k.next - k.tick) % TickMod \in Int
  BY <1>2, TasksAssumption
<1> QED
  BY <1>3 DEF prvGetExpectedIdleTime

LEMMA SleepInv ==
  ASSUME KernelInv, Sleep
  PROVE  KernelInv'
<1>1. Me.at = "sleep" /\ k.cur = Idle /\ Me.after = "return"
  BY CurrentTask DEF Sleep, At, CallSound
<1> DEFINE idle == prvGetExpectedIdleTime(k)
<1>2. PICK n \in 1..(idle - 1) :
        /\ k' = vTaskStepTick(k, n) /\ now' = now + n
        /\ call' = [call EXCEPT ![Idle].at = "resume"] /\ plan' = plan /\ q' = q
  BY DEF Sleep
<1>3. idle \in Int
  BY IdleTime
<1> HIDE DEF idle
<1>4. n \in Nat /\ now' \in Int
  BY <1>2, <1>3, CurrentTask
<1> DEFINE d == vTaskStepTick(k, n)  c == [Me EXCEPT !.at = "resume"]
<1>5. Holds(d, k, Noting)
  BY <1>4, StepHolds, CurrentTask
<1>6. /\ c \in CallType /\ c.at = "resume" /\ c.after = "return" /\ CallSound(c, k.cur)
      /\ c.at \in LockedSteps /\ c.at # "noted"
  BY <1>1, OnToResume
<1>7. call' = [call EXCEPT ![k.cur] = c]
  BY <1>1, <1>2, CurrentTask
<1> HIDE DEF c, d
<1>8. call \in [Everyone -> CallType] /\ k.cur \in Everyone /\ \A t \in Everyone : CallSound(call[t], t)
  BY CurrentTask DEF KernelInv, CallsSound
<1>9. /\ call' \in [Everyone -> CallType] /\ call'[k.cur] = c
      /\ \A t \in Everyone \ {k.cur} : call'[t] = call[t]
  BY <1>6, <1>7, <1>8
<1>10. \A t \in Everyone : CallSound(call'[t], t)
  BY <1>6, <1>8, <1>9
<1>11. \A t \in Everyone \ {k.cur} : call'[t].at \notin LockedSteps
  BY <1>9, Others
<1>12. Noting' = Noting
  <2>1. call[k.cur].at # "noted"
    BY <1>1 DEF Me
  <2> QED
    BY <1>6, <1>8, <1>9, <2>1 DEF Noting
<1>13. k.locked = 1 /\ IsReady(k, k.cur)
  BY <1>1, CurrentTask DEF LockedSteps, Away
<1>14. d.locked = 1 /\ d.cur = k.cur /\ IsReady(d, d.cur) /\ Steady(d, Noting)
  BY <1>5, <1>8, <1>13 DEF Holds, KeepsReady
<1>15. k' = d
  BY <1>2 DEF d
<1>16. /\ Steady(k', Noting') /\ QueuesSound(q')
       /\ k'.locked = 1 <=> call'[k.cur].at \in LockedSteps
       /\ k'.locked = 1 => k'.cur = k.cur
       /\ IsReady(k', k'.cur) \/ (k'.cur = k.cur /\ Away(call'[k.cur], k.cur))
  BY <1>2, <1>6, <1>9, <1>12, <1>14, <1>15, CurrentTask
<1> QED
  BY <1>2, <1>4, <1>9, <1>10, <1>11, <1>16, StepInv

LEMMA SleepAbortedInv ==
  ASSUME KernelInv, SleepAborted
  PROVE  KernelInv' /\ Calm(k', k)
<1>1. Me.at = "sleep" /\ Do(k, q, [Me EXCEPT !.at = "resume"])
  BY DEF SleepAborted, At, GoTo
<1> QED
  BY <1>1, SameInv, ToResumeInv

LEMMA IdleTaskInv ==
  ASSUME KernelInv, IdleTask
  PROVE  KernelInv'
BY IdleCleansInv, IdleYieldsInv, IdleSuspendsInv, SleepInv, SleepAbortedInv DEF IdleTask

LEMMA TickInv ==
  ASSUME KernelInv, Tick
  PROVE  KernelInv'
<1> DEFINE d == xTaskIncrementTick(k)
<1>1. now' = now + 1 /\ Interrupt(d, q, TickSwitches(k))
  BY DEF Tick
<1>2. Holds(d, k, Noting)
  BY CurrentTask, TickPasses DEF Passes, Holds
<1> HIDE DEF d
<1>3. now' \in Int /\ QueuesSound(q)
  BY <1>1, CurrentTask
<1> QED
  BY <1>1, <1>2, <1>3, InterruptInv

LEMMA FromISROf ==
  ASSUME KernelInv, NEW fn, NEW op \in FromISR(fn)
  PROVE  Callable(op, Actions \cup {"give"}) /\ op.fn = fn
BY KernelAssumption DEF FromISR, KernelInv

\* Of interrupts that use a queue.
LEMMA ToldInv ==
  ASSUME KernelInv, NEW d, Told(d, s, Noting), NEW yields, Interrupt(d.k, d.q, yields), now' = now
  PROVE  KernelInv' /\ Calm(k', k)
<1>1. Keeps(d.k, k, Noting) /\ QueuesSound(d.q)
  BY ToldParts
<1>2. now' \in Int
  BY CurrentTask
<1> QED
  BY <1>1, <1>2, InterruptInv DEF Keeps

LEMMA QueueFromISRInv ==
  ASSUME KernelInv, SendFromISR \/ GiveFromISR \/ ReceiveFromISR
  PROVE  KernelInv' /\ Calm(k', k)
<1>1. CASE SendFromISR
  <2>1. PICK op \in FromISR("send") :
          LET done == xQueueGenericSendFromISR(s, op.on, op.arg, op.how)
              put == prvCopyDataToQueue(s, op.on, op.arg, op.how)
          IN  Interrupt(done.k, done.q, AnnounceFromISRYields(put, op.on)) /\ UNCHANGED now
    BY <1>1 DEF SendFromISR
  <2> DEFINE done == xQueueGenericSendFromISR(s, op.on, op.arg, op.how)
             yields == AnnounceFromISRYields(prvCopyDataToQueue(s, op.on, op.arg, op.how), op.on)
  <2>2. Interrupt(done.k, done.q, yields) /\ now' = now
    BY <2>1
  <2>3. op.on \in Queues /\ op.how \in {"back", "front", "overwrite"}
    BY FromISROf DEF Callable, QueueCalls, Sends
  <2>4. Told(done, s, Noting)
    BY <2>3, SendTold, CurrentTask
  <2> HIDE DEF done, yields
  <2> QED
    BY <2>2, <2>4, ToldInv
<1>2. CASE GiveFromISR
  <2>1. PICK op \in FromISR("give") :
          LET done == xQueueGiveFromISR(s, op.on)
              put == [s EXCEPT !.q[op.on].count = @ + 1]
          IN  Interrupt(done.k, done.q, AnnounceFromISRYields(put, op.on)) /\ UNCHANGED now
    BY <1>2 DEF GiveFromISR
  <2> DEFINE done == xQueueGiveFromISR(s, op.on)
             yields == AnnounceFromISRYields([s EXCEPT !.q[op.on].count = @ + 1], op.on)
  <2>2. Interrupt(done.k, done.q, yields) /\ now' = now
    BY <2>1
  <2>3. op.on \in Queues
    BY FromISROf DEF Callable, QueueCalls
  <2>4. Told(done, s, Noting)
    BY <2>3, GiveTold, CurrentTask
  <2> HIDE DEF done, yields
  <2> QED
    BY <2>2, <2>4, ToldInv
<1>3. CASE ReceiveFromISR
  <2>1. PICK op \in FromISR("receive") :
          LET done == xQueueReceiveFromISR(s, op.on)
          IN  Interrupt(done.k, done.q, ReceiveFromISRYields(s, op.on)) /\ UNCHANGED now
    BY <1>3 DEF ReceiveFromISR
  <2> DEFINE done == xQueueReceiveFromISR(s, op.on)  yields == ReceiveFromISRYields(s, op.on)
  <2>2. Interrupt(done.k, done.q, yields) /\ now' = now
    BY <2>1
  <2>3. op.on \in Queues
    BY FromISROf DEF Callable, QueueCalls, Receives
  <2>4. Told(done, s, Noting)
    BY <2>3, ReceiveTold, CurrentTask
  <2> HIDE DEF done, yields
  <2> QED
    BY <2>2, <2>4, ToldInv
<1> QED
  BY <1>1, <1>2, <1>3

LEMMA NotifyFromISRInv ==
  ASSUME KernelInv, NotifyFromISR
  PROVE  KernelInv' /\ Calm(k', k)
<1>1. PICK op \in FromISR("notify") :
        /\ Exists(k, op.on)
        /\ k.tcb[op.on].state = "waiting" => ~HasEvent(k, op.on)
        /\ Interrupt(IF op.how = "give" THEN vTaskNotifyGiveFromISR(k, op.on)
                     ELSE xTaskGenericNotifyFromISR(k, op.on, op.how, op.arg), q,
                     NotifyYields(k, op.on))
        /\ now' = now
  BY DEF NotifyFromISR
<1> DEFINE d == IF op.how = "give" THEN vTaskNotifyGiveFromISR(k, op.on)
                ELSE xTaskGenericNotifyFromISR(k, op.on, op.how, op.arg)
<1>2. op.on \in Everyone /\ op.arg \in Nat /\ op.how \in Actions \cup {"give"}
  BY FromISROf DEF Callable, OnTasks, Everyone
<1>3. Keeps(d, k, Noting)
  <2>1. CASE op.how = "give"
    <3> DEFINE zero == 0
    <3>1. d = xTaskGenericNotifyFromISR(k, op.on, "increment", zero)
      BY <2>1 DEF vTaskNotifyGiveFromISR
    <3>2. zero \in Nat /\ "increment" \in Actions
      BY DEF Actions
    <3> HIDE DEF zero, d
    <3>3. Keeps(xTaskGenericNotifyFromISR(k, op.on, "increment", zero), k, Noting)
      BY <1>1, <1>2, <3>2, NotifyFromISRKeeps, CurrentTask
    <3> QED
      BY <3>1, <3>3
  <2>2. CASE op.how # "give"
    <3>1. op.how \in Actions
      BY <1>2, <2>2
    <3> QED
      BY <1>1, <1>2, <2>2, <3>1, NotifyFromISRKeeps, CurrentTask
  <2> QED
    BY <2>1, <2>2
<1>4. Interrupt(d, q, NotifyYields(k, op.on)) /\ now' \in Int /\ QueuesSound(q)
  BY <1>1, CurrentTask
<1> HIDE DEF d
<1> QED
  BY <1>3, <1>4, InterruptInv DEF Keeps

LEMMA ResumeFromISRInv ==
  ASSUME KernelInv, ResumeFromISR
  PROVE  KernelInv' /\ Calm(k', k)
<1>1. PICK op \in FromISR("resume") :
        /\ Interrupt(xTaskResumeFromISR(k, op.on), q, ResumeFromISRYields(k, op.on))
        /\ now' = now
  BY DEF ResumeFromISR
<1>2. op.on \in Everyone
  BY FromISROf DEF Callable, OnTasks, Everyone
<1>3. Keeps(xTaskResumeFromISR(k, op.on), k, Noting)
  BY <1>2, ResumeFromISRKeeps, CurrentTask
<1>4. now' \in Int /\ QueuesSound(q)
  BY <1>1, CurrentTask
<1> QED
  BY <1>1, <1>3, <1>4, InterruptInv DEF Keeps

LEMMA AnInterruptInv ==
  ASSUME KernelInv, AnInterrupt
  PROVE  KernelInv'
BY TickInv, QueueFromISRInv, NotifyFromISRInv, ResumeFromISRInv DEF AnInterrupt

-----------------------------------------------------------------------------
(* Every step                                                              *)

LEMMA QueueCallInv ==
  ASSUME KernelInv, QueueCall
  PROVE  KernelInv'
BY SendInv, ReceiveInv, PeekInv, TakeInv, RefusedInv, WaitsInv, SuspendInv, LockInv, CheckInv,
   TestInv, PriorityInheritInv, PlaceInv, WaitRestrictedInv, UnlockInv, ResumeAllInv, YieldInv,
   WokenInv, LastLookInv, DisinheritInv DEF QueueCall

LEMMA StutterInv ==
  ASSUME KernelInv, UNCHANGED vars
  PROVE  KernelInv'
<1>1. plan' = plan /\ k' = k /\ q' = q /\ call' = call /\ now' = now
  BY DEF vars
<1>2. Noting' = Noting /\ Me' = Me /\ CallType' = CallType
  BY <1>1 DEF Noting, Me, CallType, Ops
<1>3. CallsSound' /\ LockedByCurrent' /\ CurrentReady'
  BY <1>1, <1>2 DEF KernelInv, CallsSound, LockedByCurrent, CurrentReady
<1> QED
  BY <1>1, <1>2, <1>3 DEF KernelInv

\* Tasks, lists, queues and the steps the calls are at fit together in every
\* state (tasks.c, queue.c).
THEOREM Invariant == Spec => []KernelInv
<1>1. Init => KernelInv
  BY InitInv
<1>2. KernelInv /\ [Next]_vars => KernelInv'
  <2>1. OtherQueueCall /\ KernelInv => KernelInv'
    BY RecursiveInv, OtherQueueInv, LeavingInv DEF OtherQueueCall
  <2> QED
    BY <2>1, QueueCallInv, TaskCallInv, IdleTaskInv, AnInterruptInv, StutterInv DEF Next
<1> QED
  BY <1>1, <1>2, PTL DEF Spec

-----------------------------------------------------------------------------
(* What the invariant says of the lists                                    *)

\* The lists of the ready tasks, and the four others after them.
LEMMA StateListNo ==
  ASSUME k \in KernelType
  PROVE  LET N == configMAX_PRIORITIES
         IN  /\ N \in Nat /\ DOMAIN StateLists = 1..(N + 4)
             /\ \A i \in 1..N : StateLists[i] = k.ready[i - 1].items
             /\ StateLists[N + 1] = k.delayed /\ StateLists[N + 2] = k.overflow
             /\ StateLists[N + 3] = k.suspended /\ StateLists[N + 4] = k.ended
<1> DEFINE N == configMAX_PRIORITIES
           a == [i \in 1..configMAX_PRIORITIES |-> k.ready[i - 1].items]
           b == <<k.delayed, k.overflow, k.suspended, k.ended>>
           E == {a[i] : i \in 1..N} \cup {k.delayed, k.overflow, k.suspended, k.ended}
<1>1. N \in Nat
  BY TasksAssumption
<1>2. a \in Seq(E) /\ Len(a) = N /\ \A i \in 1..N : a[i] = k.ready[i - 1].items
  <2>1. \A i \in 1..N : a[i] = k.ready[i - 1].items
    OBVIOUS
  <2> HIDE DEF N
  <2>2. a \in [1..N -> E] /\ DOMAIN a = 1..N
    BY DEF N
  <2> HIDE DEF a, E
  <2> QED
    BY <1>1, <2>1, <2>2
<1>3. /\ b \in Seq(E) /\ Len(b) = 4 /\ b[1] = k.delayed /\ b[2] = k.overflow
      /\ b[3] = k.suspended /\ b[4] = k.ended
  OBVIOUS
<1>4. StateLists = a \o b
  BY DEF StateLists
<1> HIDE DEF a, b, E
<1>5. Joins(E, StateLists, a, b)
  BY <1>2, <1>3, <1>4, ConcatJoins
<1> HIDE DEF N
<1>6. StateLists \in Seq(E) /\ Len(StateLists) = N + 4
  BY <1>2, <1>3, <1>5 DEF Joins
<1>7. DOMAIN StateLists = 1..(N + 4)
  BY <1>6
<1>8. \A i \in 1..N : StateLists[i] = k.ready[i - 1].items
  BY <1>2, <1>5 DEF Joins
<1>9. \A n \in 1..4 : StateLists[N + n] = b[n]
  BY <1>2, <1>3, <1>5 DEF Joins
<1>10. /\ StateLists[N + 1] = k.delayed /\ StateLists[N + 2] = k.overflow
       /\ StateLists[N + 3] = k.suspended /\ StateLists[N + 4] = k.ended
  BY <1>3, <1>9
<1> QED
  BY <1>1, <1>7, <1>8, <1>10 DEF N

LEMMA InState ==
  ASSUME k \in KernelType, NEW t \in Everyone
  PROVE  LET N == configMAX_PRIORITIES
         IN  /\ \A l \in 1..N : Contains(StateLists[l], t) <=> t \in Row(k, l - 1)
             /\ Contains(StateLists[N + 1], t) <=> t \in ToSet(k.delayed)
             /\ Contains(StateLists[N + 2], t) <=> t \in ToSet(k.overflow)
             /\ Contains(StateLists[N + 3], t) <=> t \in ToSet(k.suspended)
             /\ Contains(StateLists[N + 4], t) <=> t \in ToSet(k.ended)
<1> DEFINE N == configMAX_PRIORITIES
<1>1. \A l \in 1..N : l - 1 \in Priorities
  BY TasksAssumption DEF Priorities
<1>2. /\ \A p \in Priorities : k.ready[p].items \in Rows(Everyone)
      /\ k.delayed \in Rows(Everyone) /\ k.overflow \in Rows(Everyone)
      /\ k.suspended \in Rows(Everyone) /\ k.ended \in Rows(Everyone)
  BY DEF KernelType, ReadyLists
<1>3. \A row \in Rows(Everyone) : Contains(row, t) <=> t \in ToSet(row)
  BY InRow
<1>4. \A l \in 1..N : Contains(StateLists[l], t) <=> t \in Row(k, l - 1)
  BY <1>1, <1>2, <1>3, StateListNo DEF Row
<1> QED
  BY <1>2, <1>3, <1>4, StateListNo

LEMMA InOneStateList ==
  ASSUME KernelInv, NEW t \in Everyone, Exists(k, t)
  PROVE  Cardinality({l \in DOMAIN StateLists : Contains(StateLists[l], t)}) = 1
<1> DEFINE N == configMAX_PRIORITIES  L == {l \in DOMAIN StateLists : Contains(StateLists[l], t)}
           p == Prio(k, t)
<1>1. k \in KernelType /\ StateListed(k, t)
  BY CurrentTask DEF Steady, Sound, Listed
<1>2. p \in Priorities /\ N \in Nat
  BY <1>1, TcbOf, TasksAssumption
<1>3. \A l \in L : \/ l \in 1..N /\ t \in Row(k, l - 1)
                   \/ l = N + 1 /\ t \in ToSet(k.delayed)
                   \/ l = N + 2 /\ t \in ToSet(k.overflow)
                   \/ l = N + 3 /\ t \in ToSet(k.suspended)
                   \/ l = N + 4 /\ t \in ToSet(k.ended)
  <2>1. DOMAIN StateLists = 1..(N + 4)
    BY <1>1, StateListNo
  <2>2. \A l \in 1..(N + 4) : l \in 1..N \/ l = N + 1 \/ l = N + 2 \/ l = N + 3 \/ l = N + 4
    BY <1>2
  <2> QED
    BY <1>1, <2>1, <2>2, InState
<1>4. /\ \A l \in 1..N : t \in Row(k, l - 1) => l \in L
      /\ t \in ToSet(k.delayed) => N + 1 \in L
      /\ t \in ToSet(k.overflow) => N + 2 \in L
      /\ t \in ToSet(k.suspended) => N + 3 \in L
      /\ t \in ToSet(k.ended) => N + 4 \in L
  <2>1. DOMAIN StateLists = 1..(N + 4)
    BY <1>1, StateListNo
  <2>2. /\ \A l \in 1..N : l \in 1..(N + 4)
        /\ N + 1 \in 1..(N + 4) /\ N + 2 \in 1..(N + 4) /\ N + 3 \in 1..(N + 4) /\ N + 4 \in 1..(N + 4)
    BY <1>2
  <2> QED
    BY <1>1, <2>1, <2>2, InState
<1> HIDE DEF L
<1>5. \A l \in 1..N : t \in Row(k, l - 1) => l = p + 1 /\ IsReady(k, t)
  <2> SUFFICES ASSUME NEW l \in 1..N, t \in Row(k, l - 1)
               PROVE  l = p + 1 /\ IsReady(k, t)
    OBVIOUS
  <2>1. l - 1 \in Priorities
    BY <1>2 DEF Priorities
  <2>2. l - 1 = p
    BY <1>1, <2>1 DEF StateListed
  <2> QED
    BY <2>2 DEF IsReady
<1>6. IsReady(k, t) => p + 1 \in L
  <2> DEFINE l == p + 1
  <2>1. l \in 1..N /\ l - 1 = p
    BY <1>2 DEF Priorities
  <2> HIDE DEF l
  <2>2. t \in Row(k, l - 1) => l \in L
    BY <1>4, <2>1
  <2>3. t \in Row(k, p) => l \in L
    BY <2>1, <2>2
  <2> QED
    BY <2>3 DEF IsReady, l
<1>7. \E l : L = {l}
  <2>1. ASSUME IsReady(k, t) PROVE L = {p + 1}
    BY <1>1, <1>3, <1>5, <1>6, <2>1 DEF StateListed
  <2>2. ASSUME t \in ToSet(k.delayed) PROVE L = {N + 1}
    BY <1>1, <1>3, <1>4, <1>5, <2>2 DEF StateListed
  <2>3. ASSUME t \in ToSet(k.overflow) PROVE L = {N + 2}
    BY <1>1, <1>3, <1>4, <1>5, <2>3 DEF StateListed
  <2>4. ASSUME t \in ToSet(k.suspended) PROVE L = {N + 3}
    BY <1>1, <1>3, <1>4, <1>5, <2>4 DEF StateListed
  <2>5. ASSUME t \in ToSet(k.ended) PROVE L = {N + 4}
    BY <1>1, <1>3, <1>4, <1>5, <2>5 DEF StateListed
  <2> QED
    BY <1>1, <2>1, <2>2, <2>3, <2>4, <2>5 DEF StateListed
<1>8. Cardinality(L) = 1
  BY <1>7, FS_Singleton
<1> QED
  BY <1>8 DEF L

LEMMA InItsReadyList ==
  ASSUME KernelInv, NEW t \in Everyone, NEW p \in Priorities, Contains(k.ready[p].items, t)
  PROVE  p = Prio(k, t) /\ p =< k.top
<1>1. k \in KernelType /\ StateListed(k, t)
  BY CurrentTask DEF Steady, Sound, Listed
<1>2. t \in Row(k, p)
  BY <1>1, InRow DEF KernelType, ReadyLists, Row
<1> QED
  BY <1>1, <1>2 DEF StateListed

LEMMA InOneEventList ==
  ASSUME KernelInv, NEW t \in Everyone
  PROVE  Cardinality({e \in EventLists : Contains(k.waiting[e], t)})
           + (IF Contains(k.pending, t) THEN 1 ELSE 0) =< 1
<1> DEFINE W == {e \in EventLists : Contains(k.waiting[e], t)}
<1>1. k \in KernelType /\ EventListed(k, t)
  BY CurrentTask DEF Steady, Sound, Listed
<1>2. Contains(k.pending, t) <=> t \in ToSet(k.pending)
  BY <1>1, InRow DEF KernelType
<1>3. \A e \in EventLists : Contains(k.waiting[e], t) <=> t \in ToSet(k.waiting[e])
  BY <1>1, InRow DEF KernelType
<1>4. (W = {} /\ Cardinality(W) = 0) \/ (Cardinality(W) = 1 /\ W # {})
  <2>1. \A e, f \in W : e = f
    BY <1>1, <1>3 DEF EventListed
  <2> HIDE DEF W
  <2>2. W = {} \/ \E e : W = {e}
    BY <2>1
  <2> QED
    BY <2>2, FS_EmptySet, FS_Singleton
<1>5. Contains(k.pending, t) => W = {}
  BY <1>1, <1>2, <1>3 DEF EventListed, Awaits
<1> HIDE DEF W
<1>6. Cardinality(W) + (IF Contains(k.pending, t) THEN 1 ELSE 0) =< 1
  BY <1>4, <1>5
<1> QED
  BY <1>6 DEF W

\* A task is found once, in the state of its list.
LEMMA ReportedOnce ==
  ASSUME k \in KernelType, NEW t \in Everyone, StateListed(k, t), Exists(k, t)
  PROVE  \E state \in {"ready", "blocked", "deleted", "suspended"} :
           /\ {pair \in SystemState(k) : pair[1] = t} = {<<t, vTaskGetInfo(k, t, state)>>}
           /\ state = "ready" <=> IsReady(k, t)
           /\ state = "blocked" <=> t \in ToSet(k.delayed) \/ t \in ToSet(k.overflow)
           /\ state = "deleted" <=> t \in ToSet(k.ended)
           /\ state = "suspended" <=> t \in ToSet(k.suspended)
<1> DEFINE Pairs == {pair \in SystemState(k) : pair[1] = t}
           In(tasks, state) == {<<u, vTaskGetInfo(k, u, state)>> : u \in ToSet(tasks)}
           Info(state) == <<t, vTaskGetInfo(k, t, state)>>
<1>1. \A tasks, state : {pair \in In(tasks, state) : pair[1] = t}
                          = IF t \in ToSet(tasks) THEN {Info(state)} ELSE {}
  OBVIOUS
<1>2. SystemState(k) = In(k.delayed, "blocked") \cup In(k.overflow, "blocked")
                         \cup In(k.ended, "deleted") \cup In(k.suspended, "suspended")
                         \cup UNION {In(k.ready[p].items, "ready") : p \in Priorities}
  BY DEF SystemState
<1> HIDE DEF In, Info
<1>3. \A x : x \in Pairs <=> \/ (\E p \in Priorities : t \in Row(k, p)) /\ x = Info("ready")
                             \/ t \in ToSet(k.delayed) /\ x = Info("blocked")
                             \/ t \in ToSet(k.overflow) /\ x = Info("blocked")
                             \/ t \in ToSet(k.ended) /\ x = Info("deleted")
                             \/ t \in ToSet(k.suspended) /\ x = Info("suspended")
  <2> SUFFICES ASSUME NEW x
               PROVE  x \in Pairs <=>
                        \/ (\E p \in Priorities : t \in Row(k, p)) /\ x = Info("ready")
                        \/ t \in ToSet(k.delayed) /\ x = Info("blocked")
                        \/ t \in ToSet(k.overflow) /\ x = Info("blocked")
                        \/ t \in ToSet(k.ended) /\ x = Info("deleted")
                        \/ t \in ToSet(k.suspended) /\ x = Info("suspended")
    OBVIOUS
  <2>1. \A tasks, state : x \in In(tasks, state) /\ x[1] = t <=> t \in ToSet(tasks) /\ x = Info(state)
    <3> TAKE tasks, state
    <3>1. x \in In(tasks, state) /\ x[1] = t <=> x \in {pair \in In(tasks, state) : pair[1] = t}
      OBVIOUS
    <3> QED
      BY <1>1, <3>1
  <2>2. x \in Pairs <=> \/ \E p \in Priorities : x \in In(k.ready[p].items, "ready") /\ x[1] = t
                        \/ x \in In(k.delayed, "blocked") /\ x[1] = t
                        \/ x \in In(k.overflow, "blocked") /\ x[1] = t
                        \/ x \in In(k.ended, "deleted") /\ x[1] = t
                        \/ x \in In(k.suspended, "suspended") /\ x[1] = t
    BY <1>2
  <2> HIDE DEF Pairs
  <2> QED
    BY <2>1, <2>2 DEF Row
<1> HIDE DEF Pairs
<1>4. (\E p \in Priorities : t \in Row(k, p)) <=> IsReady(k, t)
  BY TcbOf DEF StateListed, IsReady
<1>5. \A state : (\A x : x \in Pairs <=> x = Info(state)) => Pairs = {Info(state)}
  OBVIOUS
<1> DEFINE States == {"ready", "blocked", "deleted", "suspended"}
           Is(state) == /\ state = "ready" <=> IsReady(k, t)
                        /\ state = "blocked" <=> t \in ToSet(k.delayed) \/ t \in ToSet(k.overflow)
                        /\ state = "deleted" <=> t \in ToSet(k.ended)
                        /\ state = "suspended" <=> t \in ToSet(k.suspended)
<1>6. \A state \in States : Is(state) => \A x : x \in Pairs <=> x = Info(state)
  BY <1>3, <1>4
<1>7. \E state \in States : Is(state)
  BY DEF StateListed
<1> HIDE DEF States
<1>8. \E state \in States : Is(state) /\ Pairs = {Info(state)}
  BY <1>5, <1>6, <1>7
<1> QED
  BY <1>8 DEF Pairs, Info, States

LEMMA ReportsAgree ==
  ASSUME KernelInv, NEW t \in Everyone, Exists(k, t)
  PROVE  \E state \in {eTaskGetState(k, t)}
                          \cup (IF k.tcb[t].state = "waiting" THEN {"suspended"} ELSE {}) :
           {pair \in SystemState(k) : pair[1] = t} = {<<t, state>>}
<1>1. k \in KernelType /\ StateListed(k, t)
  BY CurrentTask DEF Steady, Sound, Listed
<1>2. PICK state \in {"ready", "blocked", "deleted", "suspended"} :
        /\ {pair \in SystemState(k) : pair[1] = t} = {<<t, vTaskGetInfo(k, t, state)>>}
        /\ state = "ready" <=> IsReady(k, t)
        /\ state = "blocked" <=> t \in ToSet(k.delayed) \/ t \in ToSet(k.overflow)
        /\ state = "deleted" <=> t \in ToSet(k.ended)
        /\ state = "suspended" <=> t \in ToSet(k.suspended)
  BY <1>1, ReportedOnce
<1>3. /\ IsSuspended(k, t) <=> t \in ToSet(k.suspended)
      /\ IsDelayed(k, t) <=> t \in ToSet(k.delayed) \/ t \in ToSet(k.overflow)
      /\ Contains(k.ended, t) <=> t \in ToSet(k.ended)
  BY <1>1, WhereIs, InRow DEF KernelType
<1>4. \/ vTaskGetInfo(k, t, state) = eTaskGetState(k, t)
      \/ vTaskGetInfo(k, t, state) = "suspended" /\ k.tcb[t].state = "waiting"
  BY <1>2, <1>3 DEF vTaskGetInfo, eTaskGetState
<1> QED
  BY <1>2, <1>4

LEMMA WakesSorted ==
  ASSUME KernelInv
  PROVE  /\ Sorted(Wakes(k.delayed)) /\ Sorted(Wakes(k.overflow))
         /\ k.delayed # <<>> => k.next =< k.tcb[Head(k.delayed)].wake
<1>1. k \in KernelType /\ Ordered(k) /\ Early(k)
  BY CurrentTask DEF Steady, Sound
<1>2. ASSUME NEW row \in Rows(Everyone), Rising(row, WakeTimes(k))
      PROVE  Sorted(Wakes(row))
  <2>1. DOMAIN Wakes(row) = DOMAIN row /\ \A i \in DOMAIN row : row[i] \in Everyone
    BY <1>2 DEF Wakes, Rows
  <2>2. \A i \in DOMAIN row : Wakes(row)[i] = WakeTimes(k)[row[i]]
    BY <2>1 DEF Wakes, WakeTimes
  <2> QED
    BY <1>2, <2>1, <2>2 DEF Sorted, Rising
<1>3. ASSUME k.delayed # <<>>
      PROVE  k.next =< k.tcb[Head(k.delayed)].wake
  <2>1. k.delayed \in Seq(Everyone)
    BY <1>1 DEF KernelType, Rows
  <2>2. Head(k.delayed) \in ToSet(k.delayed)
    BY <1>3, <2>1 DEF ToSet
  <2> QED
    BY <1>1, <2>2 DEF Early
<1> QED
  BY <1>1, <1>2, <1>3 DEF Ordered, KernelType

LEMMA SoundLists == KernelInv => ListsSound
<1> SUFFICES ASSUME KernelInv
             PROVE  ListsSound
  OBVIOUS
<1>1. \A t \in Running : t \in Everyone /\ Exists(k, t)
  BY DEF Running, Everyone
<1>2. \A t \in Running :
        Cardinality({l \in DOMAIN StateLists : Contains(StateLists[l], t)}) = 1
  BY <1>1, InOneStateList
<1>3. \A t \in Running : \A p \in Priorities :
        Contains(k.ready[p].items, t) => p = Prio(k, t) /\ p =< k.top
  BY <1>1, InItsReadyList
<1>4. \A t \in Running :
        Cardinality({e \in EventLists : Contains(k.waiting[e], t)})
          + (IF Contains(k.pending, t) THEN 1 ELSE 0) =< 1
  BY <1>1, InOneEventList
<1>5. \A t \in Running :
        \E state \in {eTaskGetState(k, t)}
                        \cup (IF k.tcb[t].state = "waiting" THEN {"suspended"} ELSE {}) :
          {pair \in SystemState(k) : pair[1] = t} = {<<t, state>>}
  BY <1>1, ReportsAgree
<1> QED
  BY <1>2, <1>3, <1>4, <1>5, WakesSorted DEF ListsSound

\* Every task is in one state list, a ready one in the list of its priority, and in
\* at most one event list; both ways to ask for its state agree; the delayed lists
\* are sorted, and the tick looks at them in time (tasks.c).
THEOREM ListsAreSound == Spec => []ListsSound
BY Invariant, SoundLists, PTL
=============================================================================
