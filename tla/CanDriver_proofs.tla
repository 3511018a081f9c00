-------------------------- MODULE CanDriver_proofs --------------------------
(***************************************************************************)
(* Theorems about the CAN driver, for any number of controllers, senders   *)
(* and frames and queues of any length: no frame is lost or doubled, none  *)
(* is stranded on a calm bus, which then is the channel of TxChannel, and  *)
(* frames are received in order.                                           *)
(***************************************************************************)
EXTENDS CanDriver, TLAPS, NaturalsInduction, WellFoundedInduction, SequenceTheorems,
        FiniteSetTheorems

-----------------------------------------------------------------------------
(* Induction over a set and sequences                                      *)

\* A nonempty set of natural numbers has a least element.
LEMMA LeastElement ==
  ASSUME NEW T, T \subseteq Nat, T # {}
  PROVE  \E n \in T : \A m \in T : n <= m
<1>1. \E n \in T : \A m \in T : ~(<<m, n>> \in OpToRel(<, Nat))
  BY NatLessThanWellFounded, WFMin
<1>2. PICK n \in T : \A m \in T : ~(<<m, n>> \in OpToRel(<, Nat))
  BY <1>1
<1>3. ASSUME NEW m \in T
      PROVE  n <= m
  <2>1. m \in Nat /\ n \in Nat
    OBVIOUS
  <2>2. ~(m < n)
    BY <1>2, <2>1 DEF OpToRel
  <2> QED
    BY <2>1, <2>2
<1> QED
  BY <1>3

\* Induction up to a bound, stated with a set in the place of a predicate.
LEMMA BoundedInduction ==
  ASSUME NEW N \in Nat, NEW T, 0 \in T,
         \A n \in 0..N : n \in T /\ n # N => n + 1 \in T
  PROVE  0..N \subseteq T
<1> SUFFICES ASSUME ~(0..N \subseteq T)
             PROVE  FALSE
  OBVIOUS
<1>1. PICK n \in (0..N) \ T : \A m \in (0..N) \ T : n <= m
  <2>1. (0..N) \ T \subseteq Nat /\ (0..N) \ T # {}
    OBVIOUS
  <2> QED
    BY <2>1, LeastElement
<1>2. n \in Nat /\ n # 0 /\ n - 1 \in 0..N /\ n - 1 # N /\ ~(n <= n - 1) /\ (n - 1) + 1 = n
  BY <1>1
<1>3. n - 1 \in T
  BY <1>1, <1>2
<1> QED
  BY <1>1, <1>2, <1>3

In(s, x) == \E n \in DOMAIN s : s[n] = x

\* No element occurs twice.
Once(s) == \A m, n \in DOMAIN s : s[m] = s[n] => m = n

\* The numbers in a sequence grow.
Grows(s) == \A m, n \in DOMAIN s : m < n => s[m] < s[n]

LEMMA AppendIn ==
  ASSUME NEW S, NEW s \in Seq(S), NEW e \in S
  PROVE  /\ Append(s, e) \in Seq(S) /\ Len(Append(s, e)) = Len(s) + 1
         /\ \A x : In(Append(s, e), x) <=> In(s, x) \/ x = e
         /\ Once(s) /\ ~In(s, e) => Once(Append(s, e))
<1> DEFINE t == Append(s, e)
<1>1. /\ t \in Seq(S) /\ Len(s) \in Nat /\ Len(t) = Len(s) + 1
      /\ DOMAIN s = 1..Len(s) /\ DOMAIN t = 1..(Len(s) + 1)
      /\ \A n \in 1..Len(s) : t[n] = s[n]
      /\ t[Len(s) + 1] = e
  OBVIOUS
<1> HIDE DEF t
<1>2. \A n \in DOMAIN t : n \in DOMAIN s \/ n = Len(s) + 1
  BY <1>1
<1>3. ASSUME NEW x PROVE In(t, x) <=> In(s, x) \/ x = e
  BY <1>1, <1>2 DEF In
<1>4. ASSUME Once(s), ~In(s, e) PROVE Once(t)
  BY <1>1, <1>2, <1>4 DEF Once, In
<1> QED
  BY <1>1, <1>3, <1>4 DEF t

LEMMA TailIn ==
  ASSUME NEW S, NEW s \in Seq(S), s # <<>>
  PROVE  /\ Tail(s) \in Seq(S) /\ Len(Tail(s)) + 1 = Len(s) /\ Head(s) \in S
         /\ In(s, Head(s))
         /\ \A x : In(s, x) <=> In(Tail(s), x) \/ x = Head(s)
         /\ Once(s) => Once(Tail(s)) /\ ~In(Tail(s), Head(s))
<1> DEFINE t == Tail(s)
<1>1. /\ t \in Seq(S) /\ Len(t) \in Nat /\ Len(t) + 1 = Len(s) /\ Head(s) \in S
      /\ DOMAIN t = 1..Len(t) /\ DOMAIN s = 1..(Len(t) + 1)
      /\ \A n \in 1..Len(t) : t[n] = s[n + 1]
      /\ s[1] = Head(s)
  BY HeadTailProperties
<1> HIDE DEF t
<1>2. /\ 1 \in DOMAIN s
      /\ \A n \in DOMAIN t : n + 1 \in DOMAIN s /\ n + 1 # 1
      /\ \A n \in DOMAIN s : n # 1 => n - 1 \in DOMAIN t /\ s[n] = t[n - 1]
  BY <1>1
<1>3. In(s, Head(s))
  BY <1>1, <1>2 DEF In
<1>4. ASSUME NEW x PROVE In(s, x) <=> In(t, x) \/ x = Head(s)
  BY <1>1, <1>2 DEF In
<1>5. ASSUME Once(s) PROVE Once(t) /\ ~In(t, Head(s))
  <2>1. ASSUME NEW m \in DOMAIN t, NEW n \in DOMAIN t, t[m] = t[n]
        PROVE  m = n
    <3>1. m + 1 = n + 1
      BY <1>1, <1>2, <1>5, <2>1 DEF Once
    <3> QED
      BY <3>1, <1>1
  <2>2. ASSUME NEW n \in DOMAIN t, t[n] = Head(s)
        PROVE  FALSE
    BY <1>1, <1>2, <1>5, <2>2 DEF Once
  <2> QED
    BY <2>1, <2>2 DEF Once, In
<1> QED
  BY <1>1, <1>3, <1>4, <1>5 DEF t

-----------------------------------------------------------------------------
(* What the handler reads from a receive FIFO                              *)

NumbersGrow(frames) == \A m, n \in DOMAIN frames : m < n => frames[m].number < frames[n].number

\* The loop over the receive FIFO hands on numbers of the frames it read, in
\* their order.
LEMMA ValidNumbersRead ==
  ASSUME NEW frames \in Seq(Arrival)
  PROVE  /\ ValidNumbers(frames) \in Seq(1..MaxArrivals)
         /\ \A k \in DOMAIN ValidNumbers(frames) :
              \E m \in DOMAIN frames : ValidNumbers(frames)[k] = frames[m].number
         /\ NumbersGrow(frames) => Grows(ValidNumbers(frames))
<1> DEFINE N == Len(frames)
           body(g) == [n \in 0..N |->
                         IF n = 0 THEN <<>>
                         ELSE IF frames[n].valid THEN Append(g[n - 1], frames[n].number)
                         ELSE g[n - 1]]
           read == CHOOSE g : g = body(g)
<1>1. ValidNumbers(frames) = read[N]
  BY DEF ValidNumbers
<1>2. /\ N \in Nat /\ DOMAIN frames = 1..N
      /\ \A n \in 1..N : /\ frames[n] \in Arrival /\ frames[n].number \in 1..MaxArrivals
                         /\ n \in Nat /\ n # 0 /\ n - 1 \in 0..N
  <2>1. N \in Nat /\ DOMAIN frames = 1..N
    OBVIOUS
  <2>2. ASSUME NEW n \in 1..N
        PROVE  /\ frames[n] \in Arrival /\ frames[n].number \in 1..MaxArrivals
               /\ n \in Nat /\ n # 0 /\ n - 1 \in 0..N
    <3>1. frames[n] \in Arrival
      BY ElementOfSeq
    <3> HIDE DEF N
    <3> QED
      BY <2>1, <3>1 DEF Arrival
  <2> HIDE DEF N
  <2> QED
    BY <2>1, <2>2
<1> HIDE DEF N
<1>3. read = body(read)
  <2> DEFINE Upto(k, g) == \A n \in 0..k :
                 g[n] = IF n = 0 THEN <<>>
                        ELSE IF frames[n].valid THEN Append(g[n - 1], frames[n].number)
                        ELSE g[n - 1]
             T == {k \in 0..N : \E g : Upto(k, g)}
  <2>1. 0 \in T
    <3>1. Upto(0, [n \in {0} |-> <<>>]) /\ 0 \in 0..N
      BY <1>2
    <3> QED
      BY <3>1, Zenon
  <2>2. ASSUME NEW k \in 0..N, k \in T, k # N
        PROVE  k + 1 \in T
    <3>1. PICK g : Upto(k, g)
      BY <2>2
    <3> DEFINE h == [n \in 0..(k + 1) |->
                       IF n <= k THEN g[n]
                       ELSE IF frames[n].valid THEN Append(g[n - 1], frames[n].number)
                       ELSE g[n - 1]]
    <3>2. ASSUME NEW n \in 0..(k + 1)
          PROVE  h[n] = IF n = 0 THEN <<>>
                        ELSE IF frames[n].valid THEN Append(h[n - 1], frames[n].number)
                        ELSE h[n - 1]
      <4>1. CASE n <= k
        <5>1. n \in 0..k /\ h[n] = g[n] /\ (n # 0 => n - 1 \in 0..(k + 1) /\ n - 1 <= k)
          BY <4>1, <1>2
        <5>2. n # 0 => h[n - 1] = g[n - 1]
          BY <5>1
        <5> QED
          BY <3>1, <5>1, <5>2
      <4>2. CASE n = k + 1
        <5>1. n # 0 /\ ~(n <= k) /\ n - 1 \in 0..(k + 1) /\ n - 1 <= k
          BY <4>2, <1>2
        <5>2. h[n - 1] = g[n - 1]
          BY <5>1
        <5>3. h[n] = IF frames[n].valid THEN Append(g[n - 1], frames[n].number) ELSE g[n - 1]
          BY <5>1
        <5> QED
          BY <5>1, <5>2, <5>3
      <4> QED
        BY <4>1, <4>2, <1>2
    <3> HIDE DEF h
    <3>3. Upto(k + 1, h)
      BY <3>2
    <3> QED
      BY <2>2, <3>3, <1>2
  <2>3. N \in T
    <3> HIDE DEF T
    <3>1. 0..N \subseteq T
      BY <2>1, <2>2, <1>2, BoundedInduction
    <3> QED
      BY <3>1, <1>2
  <2>4. PICK g : Upto(N, g)
    BY <2>3
  <2> DEFINE h == [n \in 0..N |-> g[n]]
  <2>5. ASSUME NEW n \in 0..N
        PROVE  h[n] = IF n = 0 THEN <<>>
                      ELSE IF frames[n].valid THEN Append(h[n - 1], frames[n].number)
                      ELSE h[n - 1]
    <3>1. n # 0 => n - 1 \in 0..N
      BY <1>2
    <3> QED
      BY <2>4, <3>1
  <2>6. h = body(h)
    <3>1. h = [n \in 0..N |-> h[n]]
      OBVIOUS
    <3> HIDE DEF h
    <3> QED
      BY <3>1, <2>5
  <2> HIDE DEF h, body
  <2> QED
    BY <2>6
<1>4. /\ read[0] = <<>>
      /\ \A n \in 1..N : read[n] = IF frames[n].valid
                                   THEN Append(read[n - 1], frames[n].number)
                                   ELSE read[n - 1]
  <2> HIDE DEF read
  <2>1. \A n \in 0..N : read[n] = body(read)[n]
    BY <1>3
  <2>2. 0 \in 0..N /\ body(read)[0] = <<>>
    BY <1>2
  <2>3. ASSUME NEW n \in 1..N
        PROVE  body(read)[n] = IF frames[n].valid
                               THEN Append(read[n - 1], frames[n].number)
                               ELSE read[n - 1]
    <3>1. n \in 0..N /\ n # 0
      BY <1>2
    <3> QED
      BY <3>1
  <2>4. \A n \in 1..N : n \in 0..N
    BY <1>2
  <2> HIDE DEF body
  <2> QED
    BY <2>1, <2>2, <2>3, <2>4
<1> HIDE DEF read
<1> DEFINE From(n) == \A k \in DOMAIN read[n] : \E m \in 1..n : read[n][k] = frames[m].number
           T == {n \in 0..N : /\ read[n] \in Seq(1..MaxArrivals)
                              /\ From(n)
                              /\ NumbersGrow(frames) => Grows(read[n])}
<1>5. 0 \in T
  <2>1. <<>> \in Seq(1..MaxArrivals) /\ DOMAIN <<>> = {}
    OBVIOUS
  <2>2. 0 \in 0..N /\ read[0] \in Seq(1..MaxArrivals)
    BY <1>2, <1>4, <2>1
  <2>3. From(0) /\ Grows(read[0])
    BY <1>4, <2>1 DEF Grows
  <2> HIDE DEF From
  <2> QED
    BY <2>2, <2>3
<1>6. ASSUME NEW k \in 0..N, k \in T, k # N
      PROVE  k + 1 \in T
  <2>1. /\ k + 1 \in 1..N /\ (k + 1) - 1 = k /\ k \in Nat
        /\ \A m \in 1..k : m \in 1..(k + 1) /\ m < k + 1 /\ m \in DOMAIN frames
    BY <1>2, <1>6
  <2> DEFINE f == frames[k + 1]  s == read[k]
  <2>2. /\ s \in Seq(1..MaxArrivals) /\ From(k) /\ (NumbersGrow(frames) => Grows(s))
        /\ f.number \in 1..MaxArrivals /\ k + 1 \in DOMAIN frames
    BY <1>2, <1>6, <2>1
  <2>3. CASE ~f.valid
    <3>1. read[k + 1] = s
      BY <1>4, <2>1, <2>3
    <3> QED
      BY <2>1, <2>2, <3>1
  <2>4. CASE f.valid
    <3>1. read[k + 1] = Append(s, f.number)
      BY <1>4, <2>1, <2>4
    <3>2. /\ DOMAIN s = 1..Len(s) /\ Len(s) \in Nat
          /\ read[k + 1] \in Seq(1..MaxArrivals) /\ DOMAIN read[k + 1] = 1..(Len(s) + 1)
          /\ \A n \in 1..Len(s) : read[k + 1][n] = s[n]
          /\ read[k + 1][Len(s) + 1] = f.number
      BY <2>2, <3>1
    <3>3. From(k + 1)
      <4> SUFFICES ASSUME NEW n \in 1..(Len(s) + 1)
                   PROVE  \E m \in 1..(k + 1) : read[k + 1][n] = frames[m].number
        BY <3>2
      <4>1. CASE n \in 1..Len(s)
        BY <2>1, <2>2, <3>2, <4>1
      <4>2. CASE n = Len(s) + 1
        BY <2>1, <3>2, <4>2
      <4> QED
        BY <4>1, <4>2, <3>2
    <3>4. ASSUME NumbersGrow(frames) PROVE Grows(read[k + 1])
      <4> SUFFICES ASSUME NEW m \in 1..(Len(s) + 1), NEW n \in 1..(Len(s) + 1), m < n
                   PROVE  read[k + 1][m] < read[k + 1][n]
        BY <3>2 DEF Grows
      <4>1. m \in 1..Len(s)
        BY <3>2
      <4>2. CASE n \in 1..Len(s)
        BY <2>2, <3>2, <3>4, <4>1, <4>2 DEF Grows
      <4>3. CASE n = Len(s) + 1
        <5>1. PICK j \in 1..k : s[m] = frames[j].number
          BY <2>2, <3>2, <4>1
        <5>2. frames[j].number < frames[k + 1].number
          BY <2>1, <2>2, <3>4 DEF NumbersGrow
        <5> QED
          BY <3>2, <4>1, <4>3, <5>1, <5>2
      <4> QED
        BY <4>2, <4>3, <3>2
    <3>5. k + 1 \in 0..N /\ read[k + 1] \in Seq(1..MaxArrivals)
      BY <1>2, <2>1, <3>2
    <3> HIDE DEF From
    <3> QED
      BY <3>3, <3>4, <3>5
  <2> QED
    BY <2>3, <2>4
<1>7. N \in T
  <2> HIDE DEF T
  <2>1. 0..N \subseteq T
    BY <1>5, <1>6, <1>2, BoundedInduction
  <2> QED
    BY <2>1, <1>2
<1> QED
  BY <1>1, <1>2, <1>7

-----------------------------------------------------------------------------
(* Types                                                                   *)

\* A task that is inside cants_send_msg has counted the call.
CallsCounted == \A t \in Senders : task[t] # "idle" => calls[t] # 0

TypeInv == TypeOK /\ CallsCounted

LEMMA FrameOfType ==
  ASSUME TypeInv, NEW t \in Senders, task[t] # "idle"
  PROVE  FrameOf(t) \in Frames
<1>1. calls[t] \in 1..MaxFrames
  BY DriverAssumption DEF TypeInv, TypeOK, CallsCounted
<1> QED
  BY <1>1 DEF FrameOf, Frames

LEMMA DispatchedType ==
  ASSUME TypeInv, NEW c \in Controllers
  PROVE  /\ fifo[c] \in Seq(Arrival)
         /\ Dispatched(c) \in Seq(1..MaxArrivals)
<1>1. fifo[c] \in Seq(Arrival)
  BY DEF TypeInv, TypeOK
<1>2. ValidNumbers(fifo[c]) \in Seq(1..MaxArrivals)
  BY <1>1, ValidNumbersRead
<1>3. <<>> \in Seq(1..MaxArrivals)
  OBVIOUS
<1> QED
  BY <1>1, <1>2, <1>3 DEF Dispatched

\* A queue of length L takes what fits of a sequence.
Fitting(s, t, L) == IF Len(s \o t) <= L THEN s \o t ELSE SubSeq(s \o t, 1, L)

\* Each element of after is one of before or one of added, at its place.
Extends(before, added, after) ==
  \A n \in DOMAIN after :
    \/ n \in DOMAIN before /\ after[n] = before[n]
    \/ /\ n \notin DOMAIN before /\ n - Len(before) \in DOMAIN added
       /\ after[n] = added[n - Len(before)]

LEMMA WhatFits ==
  ASSUME NEW S, NEW s \in Seq(S), NEW t \in Seq(S), NEW L \in Nat, Len(s) <= L
  PROVE  /\ Fitting(s, t, L) \in Seq(S) /\ Len(Fitting(s, t, L)) <= L
         /\ Extends(s, t, Fitting(s, t, L))
<1> DEFINE all == s \o t  u == Fitting(s, t, L)
<1>0. u = IF Len(all) <= L THEN all ELSE SubSeq(all, 1, L)
  BY DEF Fitting
<1> SUFFICES u \in Seq(S) /\ Len(u) <= L /\ Extends(s, t, u)
  OBVIOUS
<1> HIDE DEF u
<1>1. /\ all \in Seq(S) /\ Len(all) = Len(s) + Len(t)
      /\ Len(s) \in Nat /\ Len(t) \in Nat
      /\ DOMAIN all = 1..Len(all) /\ DOMAIN s = 1..Len(s) /\ DOMAIN t = 1..Len(t)
  OBVIOUS
<1>2. ASSUME NEW n \in DOMAIN all
      PROVE  \/ n \in DOMAIN s /\ all[n] = s[n]
             \/ n \notin DOMAIN s /\ n - Len(s) \in DOMAIN t /\ all[n] = t[n - Len(s)]
  BY <1>1, ConcatProperties
<1> HIDE DEF all
<1>3. CASE Len(all) <= L
  BY <1>0, <1>1, <1>2, <1>3 DEF Extends
<1>4. CASE ~(Len(all) <= L)
  <2>1. u = SubSeq(all, 1, L)
    BY <1>0, <1>4
  <2>2. \A n \in 1..L : n \in DOMAIN all /\ all[n] \in S /\ 1 + n - 1 = n
    BY <1>1, <1>4, ElementOfSeq
  <2>3. L - 1 + 1 = L /\ (1 <= L \/ L = 0)
    OBVIOUS
  <2>4. u \in Seq(S) /\ Len(u) = L /\ \A n \in 1..L : u[n] = all[n]
    BY <2>1, <2>2, <2>3, SubSeqProperties
  <2>5. DOMAIN u = 1..L
    BY <2>4
  <2> QED
    BY <1>2, <2>2, <2>4, <2>5 DEF Extends
<1> QED
  BY <1>3, <1>4

\* What the interrupt handler leaves in the queue of the dispatcher.
LEMMA DeliverResult ==
  ASSUME TypeInv, NEW frames \in Seq(1..MaxArrivals), Deliver(frames)
  PROVE  /\ inbox' \in Seq(1..MaxArrivals) /\ Len(inbox') <= DISPATCHER_QUEUE_LEN
         /\ stopped' \in BOOLEAN
         /\ Extends(inbox, frames, inbox')
<1>1. /\ inbox \in Seq(1..MaxArrivals) /\ Len(inbox) <= DISPATCHER_QUEUE_LEN
      /\ DISPATCHER_QUEUE_LEN \in Nat
  BY DriverAssumption DEF TypeInv, TypeOK
<1>2. inbox' = Fitting(inbox, frames, DISPATCHER_QUEUE_LEN)
  BY DEF Deliver, Fitting
<1>3. stopped' \in BOOLEAN
  BY DriverAssumption DEF Deliver
<1> QED
  BY <1>1, <1>2, <1>3, WhatFits

LEMMA Bounds ==
  /\ MaxFrames \in Nat /\ MaxArrivals \in Nat /\ MaxErrors \in Nat /\ MaxSwitches \in Nat
  /\ CAN_SEND_QUEUE_LEN \in Nat \ {0} /\ DISPATCHER_QUEUE_LEN \in Nat \ {0}
  /\ Empty \notin Frames /\ AssertStops \in BOOLEAN /\ Primary \in Controllers
BY DriverAssumption

LEMMA TypeInit == Init => TypeInv
<1> SUFFICES ASSUME Init PROVE TypeInv
  OBVIOUS
<1>1. /\ calm \in BOOLEAN /\ current \in Controllers
      /\ buffer \in [Controllers -> Frames \cup {Empty}]
      /\ ti \in [Controllers -> BOOLEAN] /\ ei \in [Controllers -> BOOLEAN]
  BY Bounds DEF Init
<1>2. <<>> \in Seq(Arrival) /\ <<>> \in Seq(Frames) /\ <<>> \in Seq(1..MaxArrivals) /\ Len(<<>>) = 0
  OBVIOUS
<1>3. /\ fifo \in [Controllers -> Seq(Arrival)] /\ queue \in Seq(Frames)
      /\ inbox \in Seq(1..MaxArrivals) /\ onBus \in Seq(Frames)
  BY <1>2 DEF Init
<1>4. Len(queue) <= CAN_SEND_QUEUE_LEN /\ Len(inbox) <= DISPATCHER_QUEUE_LEN
  BY <1>2, Bounds DEF Init
<1>5. /\ task \in [Senders -> {"idle", "critical", "blocked", "woken", "expired"}]
      /\ CallsCounted
  BY DEF Init, CallsCounted
<1>6. calls \in [Senders -> 0..MaxFrames]
  BY Bounds DEF Init
<1>7. arrivals \in 0..MaxArrivals /\ errors \in 0..MaxErrors /\ switches \in 0..MaxSwitches
  BY Bounds DEF Init
<1>8. stopped \in BOOLEAN /\ accepted \subseteq Frames /\ lost \subseteq Frames
  BY DEF Init
<1> QED
  BY <1>1, <1>3, <1>4, <1>5, <1>6, <1>7, <1>8 DEF TypeInv, TypeOK

\* What the handler may have written into the buffer, and destroyed.
LEMMA WrittenType ==
  ASSUME TypeInv, NEW c \in Controllers, NEW written \in AfterTransmitPart(c)
  PROVE  /\ written.holds \in Frames \cup {Empty} /\ written.gone \subseteq Frames
         /\ ~TakesNext(c) => written.holds = buffer[c] /\ written.gone = {}
         /\ TakesNext(c) /\ buffer[c] = Empty => written.holds = Head(queue) /\ written.gone = {}
         /\ TakesNext(c) /\ buffer[c] # Empty =>
              \/ written.holds = Head(queue) /\ written.gone = {buffer[c]}
              \/ written.holds = buffer[c] /\ written.gone = {Head(queue)}
<1>1. buffer[c] \in Frames \cup {Empty} /\ queue \in Seq(Frames)
  BY DEF TypeInv, TypeOK
<1>2. CASE ~TakesNext(c)
  BY <1>1, <1>2 DEF AfterTransmitPart
<1>3. CASE TakesNext(c)
  <2>1. Head(queue) \in Frames
    BY <1>1, <1>3, TailIn DEF TakesNext
  <2>2. written \in AfterWrite(c, Head(queue))
    BY <1>3 DEF AfterTransmitPart
  <2>3. CASE buffer[c] = Empty
    BY <1>1, <1>3, <2>1, <2>2, <2>3 DEF AfterWrite
  <2>4. CASE buffer[c] # Empty
    BY <1>1, <1>3, <2>1, <2>2, <2>4 DEF AfterWrite
  <2> QED
    BY <2>3, <2>4
<1> QED
  BY <1>2, <1>3

LEMMA QueueAfterType ==
  ASSUME TypeInv, NEW c \in Controllers
  PROVE  /\ QueueAfter(c) \in Seq(Frames)
         /\ TakesNext(c) => Len(QueueAfter(c)) + 1 = Len(queue)
         /\ ~TakesNext(c) => QueueAfter(c) = queue
         /\ Len(QueueAfter(c)) <= CAN_SEND_QUEUE_LEN
<1>1. queue \in Seq(Frames) /\ Len(queue) <= CAN_SEND_QUEUE_LEN /\ Len(queue) \in Nat
      /\ CAN_SEND_QUEUE_LEN \in Nat
  BY Bounds DEF TypeInv, TypeOK
<1>2. CASE ~TakesNext(c)
  BY <1>1, <1>2 DEF QueueAfter
<1>3. CASE TakesNext(c)
  <2>1. Tail(queue) \in Seq(Frames) /\ Len(Tail(queue)) + 1 = Len(queue) /\ Len(Tail(queue)) \in Nat
    BY <1>1, <1>3, TailIn DEF TakesNext
  <2> QED
    BY <1>1, <1>3, <2>1 DEF QueueAfter
<1> QED
  BY <1>2, <1>3

LEMMA EnqueueType ==
  ASSUME TypeInv, NEW t \in Senders, task[t] # "idle", Enqueue(t)
  PROVE  /\ queue' = Append(queue, FrameOf(t)) /\ FrameOf(t) \in Frames
         /\ queue' \in Seq(Frames) /\ Len(queue') = Len(queue) + 1
         /\ Len(queue') <= CAN_SEND_QUEUE_LEN
         /\ buffer' = buffer
<1>1. /\ queue \in Seq(Frames) /\ Len(queue) \in Nat /\ CAN_SEND_QUEUE_LEN \in Nat
      /\ Len(queue) < CAN_SEND_QUEUE_LEN
  BY Bounds DEF TypeInv, TypeOK, Enqueue, QueueHasRoom
<1>2. queue' = Append(queue, FrameOf(t)) /\ buffer' = buffer
  BY DEF Enqueue
<1>3. FrameOf(t) \in Frames
  BY FrameOfType
<1>4. queue' \in Seq(Frames) /\ Len(queue') = Len(queue) + 1
  BY <1>1, <1>2, <1>3, AppendIn
<1> QED
  BY <1>1, <1>2, <1>3, <1>4

\* Who runs and what a step does to the tasks.
LEMMA TasksStep ==
  ASSUME TypeInv, Next
  PROVE  /\ task' \in [Senders -> {"idle", "critical", "blocked", "woken", "expired"}]
         /\ calls' \in [Senders -> 0..MaxFrames]
         /\ CallsCounted'
<1>1. /\ task \in [Senders -> {"idle", "critical", "blocked", "woken", "expired"}]
      /\ calls \in [Senders -> 0..MaxFrames] /\ CallsCounted /\ MaxFrames \in Nat
  BY Bounds DEF TypeInv, TypeOK
<1>2. ASSUME NEW t \in Senders, EnterCritical(t)
      PROVE  /\ task' = [task EXCEPT ![t] = "critical"] /\ calls' = [calls EXCEPT ![t] = calls[t] + 1]
             /\ calls[t] + 1 \in 0..MaxFrames /\ calls[t] + 1 # 0
  BY <1>1, <1>2 DEF EnterCritical
<1>3. ASSUME NEW t \in Senders,
             NEW s \in {"idle", "critical", "blocked", "woken", "expired"},
             task' = [task EXCEPT ![t] = s], s # "idle" => task[t] # "idle", calls' = calls
      PROVE  /\ task' \in [Senders -> {"idle", "critical", "blocked", "woken", "expired"}]
             /\ CallsCounted'
  BY <1>1, <1>3 DEF CallsCounted
<1>4. ASSUME NEW t \in Senders, Send(t) \/ SendTimeout(t), ~EnterCritical(t)
      PROVE  /\ calls' = calls
             /\ \E s \in {"idle", "blocked", "expired"} :
                  task' = [task EXCEPT ![t] = s] /\ (s # "idle" => task[t] # "idle")
  <2>1. CASE SendTimeout(t)
    BY <2>1 DEF SendTimeout
  <2>2. CASE Retry(t)
    BY <2>2 DEF Retry, Enqueue, Accepted, Rejected
  <2>3. CASE \E waitAllowed \in BOOLEAN : Submit(t, waitAllowed)
    BY <2>3 DEF Submit, SendDirectly, Enqueue, Accepted, Rejected
  <2> QED
    BY <1>4, <2>1, <2>2, <2>3 DEF Send
<1>5. ASSUME NEW c \in Controllers, Interrupt(c)
      PROVE  /\ calls' = calls
             /\ \/ task' = task
                \/ \E t \in Senders : task[t] = "blocked" /\ task' = [task EXCEPT ![t] = "woken"]
  BY <1>5 DEF Interrupt, WakeSender
<1>6. CASE \E t \in Senders : EnterCritical(t)
  BY <1>1, <1>2, <1>6 DEF CallsCounted
<1>7. CASE \E t \in Senders : (Send(t) \/ SendTimeout(t)) /\ ~EnterCritical(t)
  BY <1>1, <1>3, <1>4, <1>7
<1>8. CASE \E c \in Controllers : Interrupt(c)
  <2>1. CASE task' = task
    BY <1>1, <1>5, <1>8, <2>1 DEF CallsCounted
  <2>2. CASE task' # task
    BY <1>1, <1>3, <1>5, <1>8, <2>2
  <2> QED
    BY <2>1, <2>2
<1>9. CASE \/ \E c \in Controllers : TransmitDone(c) \/ Arrive(c) \/ BusError(c) \/ SetBus(c)
           \/ Receive
  <2>1. task' = task /\ calls' = calls
    BY <1>9 DEF TransmitDone, Arrive, BusError, SetBus, Receive
  <2> QED
    BY <1>1, <2>1 DEF CallsCounted
<1> QED
  BY <1>6, <1>7, <1>8, <1>9 DEF Next, Send

\* A step of a task leaves the interrupt flags, the receive FIFOs and the inbox
\* alone, and writes at most the transmit buffer of the selected controller or
\* the queue.
LEMMA SendStep ==
  ASSUME TypeInv, NEW t \in Senders, Send(t) \/ SendTimeout(t)
  PROVE  /\ UNCHANGED <<calm, current, ti, ei, fifo, inbox, bounds, onBus, lost>>
         /\ \/ UNCHANGED <<buffer, queue, accepted>> /\ stopped' \in BOOLEAN
            \/ /\ task[t] = "critical" /\ SendDirectly(t) /\ FrameOf(t) \in Frames
               /\ buffer[current] = Empty
               /\ buffer' = [buffer EXCEPT ![current] = FrameOf(t)]
               /\ UNCHANGED <<queue, stopped>> /\ accepted' = accepted \cup {FrameOf(t)}
            \/ /\ Enqueue(t) /\ FrameOf(t) \in Frames
               /\ (task[t] = "critical" /\ buffer[current] # Empty) \/ task[t] \in {"woken", "expired"}
               /\ queue' = Append(queue, FrameOf(t)) /\ queue' \in Seq(Frames)
               /\ Len(queue') = Len(queue) + 1 /\ Len(queue') <= CAN_SEND_QUEUE_LEN
               /\ UNCHANGED <<buffer, stopped>> /\ accepted' = accepted \cup {FrameOf(t)}
<1>1. CASE EnterCritical(t)
  BY <1>1 DEF EnterCritical, hardware, history, bounds, TypeInv, TypeOK
<1>2. CASE SendTimeout(t)
  BY <1>2 DEF SendTimeout, hardware, history, bounds, TypeInv, TypeOK
<1>3. ASSUME Rejected(t) PROVE UNCHANGED <<buffer, queue, accepted, onBus, lost>> /\ stopped' \in BOOLEAN
  BY <1>3, Bounds DEF Rejected, history
<1>4. stopped \in BOOLEAN
  BY DEF TypeInv, TypeOK
<1>5. ASSUME task[t] # "idle", Enqueue(t)
      PROVE  /\ FrameOf(t) \in Frames /\ queue' = Append(queue, FrameOf(t)) /\ queue' \in Seq(Frames)
             /\ Len(queue') = Len(queue) + 1 /\ Len(queue') <= CAN_SEND_QUEUE_LEN
             /\ UNCHANGED <<buffer, stopped, onBus, lost>> /\ accepted' = accepted \cup {FrameOf(t)}
  BY <1>5, EnqueueType DEF Enqueue, Accepted
<1>6. CASE Retry(t)
  <2>1. /\ task[t] \in {"woken", "expired"} /\ task[t] # "idle"
        /\ UNCHANGED <<calm, current, ti, ei, fifo, inbox, bounds>>
        /\ \/ Enqueue(t)
           \/ Rejected(t)
           \/ UNCHANGED <<buffer, queue, stopped, accepted, onBus, lost>>
    BY <1>6 DEF Retry, history
  <2> QED
    BY <2>1, <1>3, <1>4, <1>5
<1>7. CASE \E waitAllowed \in BOOLEAN : Submit(t, waitAllowed)
  <2>1. /\ task[t] = "critical" /\ task[t] # "idle"
        /\ UNCHANGED <<calm, current, ti, ei, fifo, inbox, bounds>>
        /\ \/ SendDirectly(t)
           \/ buffer[current] # Empty /\ Enqueue(t)
           \/ Rejected(t)
           \/ UNCHANGED <<buffer, queue, stopped, accepted, onBus, lost>>
    BY <1>7 DEF Submit, history
  <2>2. CASE SendDirectly(t)
    <3>1. FrameOf(t) \in Frames
      BY <2>1, FrameOfType
    <3>2. /\ buffer[current] = Empty /\ buffer' = [buffer EXCEPT ![current] = FrameOf(t)]
          /\ UNCHANGED <<queue, stopped, onBus, lost>> /\ accepted' = accepted \cup {FrameOf(t)}
      BY <2>2 DEF SendDirectly, Accepted
    <3> QED
      BY <2>1, <2>2, <3>1, <3>2
  <2> QED
    BY <2>1, <2>2, <1>3, <1>4, <1>5
<1> QED
  BY <1>1, <1>2, <1>6, <1>7 DEF Send

LEMMA TypeStep ==
  ASSUME TypeInv, [Next]_vars
  PROVE  TypeInv'
<1>1. CASE UNCHANGED vars
  BY <1>1 DEF vars, hardware, bounds, history, TypeInv, TypeOK, CallsCounted
<1> SUFFICES ASSUME Next PROVE TypeOK'
  BY <1>1, TasksStep DEF TypeInv
<1>2. /\ calm \in BOOLEAN /\ current \in Controllers
      /\ buffer \in [Controllers -> Frames \cup {Empty}]
      /\ ti \in [Controllers -> BOOLEAN] /\ ei \in [Controllers -> BOOLEAN]
      /\ fifo \in [Controllers -> Seq(Arrival)]
  BY DEF TypeInv, TypeOK
<1>3. /\ queue \in Seq(Frames) /\ Len(queue) <= CAN_SEND_QUEUE_LEN
      /\ inbox \in Seq(1..MaxArrivals) /\ Len(inbox) <= DISPATCHER_QUEUE_LEN
      /\ accepted \subseteq Frames /\ lost \subseteq Frames /\ onBus \in Seq(Frames)
      /\ stopped \in BOOLEAN
  BY DEF TypeInv, TypeOK
<1>4. arrivals \in 0..MaxArrivals /\ errors \in 0..MaxErrors /\ switches \in 0..MaxSwitches
  BY DEF TypeInv, TypeOK
<1>5. /\ task' \in [Senders -> {"idle", "critical", "blocked", "woken", "expired"}]
      /\ calls' \in [Senders -> 0..MaxFrames]
  BY TasksStep
<1>6. CASE \E t \in Senders : Send(t) \/ SendTimeout(t)
  <2>1. PICK t \in Senders : Send(t) \/ SendTimeout(t)
    BY <1>6
  <2>2. UNCHANGED <<calm, current, ti, ei, fifo, inbox, bounds, onBus, lost>>
    BY <2>1, SendStep
  <2>3. /\ buffer' \in [Controllers -> Frames \cup {Empty}]
        /\ queue' \in Seq(Frames) /\ Len(queue') <= CAN_SEND_QUEUE_LEN
        /\ accepted' \subseteq Frames /\ stopped' \in BOOLEAN
    BY <1>2, <1>3, <2>1, SendStep
  <2> QED
    BY <1>2, <1>3, <1>4, <1>5, <2>2, <2>3 DEF TypeOK, bounds
<1>7. CASE \E c \in Controllers : Interrupt(c)
  <2>1. PICK c \in Controllers : Interrupt(c)
    BY <1>7
  <2>2. PICK written \in AfterTransmitPart(c) :
          /\ buffer' = [buffer EXCEPT ![c] = IF ei[c] THEN Empty ELSE written.holds]
          /\ lost' = lost \cup written.gone \cup IF ei[c] THEN {written.holds} \ {Empty} ELSE {}
    BY <2>1 DEF Interrupt
  <2>3. /\ buffer' \in [Controllers -> Frames \cup {Empty}] /\ lost' \subseteq Frames
    BY <1>2, <1>3, <2>2, WrittenType
  <2>4. queue' \in Seq(Frames) /\ Len(queue') <= CAN_SEND_QUEUE_LEN
    BY <2>1, QueueAfterType DEF Interrupt
  <2>5. /\ inbox' \in Seq(1..MaxArrivals) /\ Len(inbox') <= DISPATCHER_QUEUE_LEN
        /\ stopped' \in BOOLEAN
    BY <2>1, DispatchedType, DeliverResult DEF Interrupt
  <2>6. <<>> \in Seq(Arrival)
    OBVIOUS
  <2>7. /\ ti' \in [Controllers -> BOOLEAN] /\ ei' \in [Controllers -> BOOLEAN]
        /\ fifo' \in [Controllers -> Seq(Arrival)]
        /\ UNCHANGED <<calm, current, accepted, onBus, bounds>>
    BY <1>2, <2>1, <2>6 DEF Interrupt
  <2> QED
    BY <1>2, <1>3, <1>4, <1>5, <2>3, <2>4, <2>5, <2>7 DEF TypeOK, bounds
<1>8. CASE \E c \in Controllers : TransmitDone(c)
  <2>1. PICK c \in Controllers : TransmitDone(c)
    BY <1>8
  <2>2. buffer[c] \in Frames
    BY <1>2, <2>1 DEF TransmitDone
  <2>3. onBus' \in Seq(Frames)
    BY <1>3, <2>1, <2>2, AppendIn DEF TransmitDone
  <2>4. /\ buffer' \in [Controllers -> Frames \cup {Empty}] /\ ti' \in [Controllers -> BOOLEAN]
        /\ UNCHANGED <<calm, current, ei, fifo, queue, inbox, bounds, stopped, accepted, lost>>
    BY <1>2, <2>1 DEF TransmitDone
  <2> QED
    BY <1>2, <1>3, <1>4, <1>5, <2>3, <2>4 DEF TypeOK, bounds
<1>9. CASE \E c \in Controllers : Arrive(c)
  <2>1. PICK c \in Controllers : Arrive(c)
    BY <1>9
  <2>2. arrivals' \in 0..MaxArrivals /\ arrivals' \in 1..MaxArrivals
    BY <1>4, <2>1, Bounds DEF Arrive
  <2>3. PICK valid \in BOOLEAN :
          fifo' = [fifo EXCEPT ![c] = Append(@, [number |-> arrivals', valid |-> valid])]
    BY <2>1 DEF Arrive
  <2>4. [number |-> arrivals', valid |-> valid] \in Arrival
    BY <2>2 DEF Arrival
  <2>5. Append(fifo[c], [number |-> arrivals', valid |-> valid]) \in Seq(Arrival)
    BY <1>2, <2>4, AppendIn
  <2>6. /\ fifo' \in [Controllers -> Seq(Arrival)]
        /\ UNCHANGED <<calm, current, buffer, ti, ei, queue, inbox, errors, switches, stopped,
                       accepted, onBus, lost>>
    BY <1>2, <2>1, <2>3, <2>5 DEF Arrive, history
  <2> QED
    BY <1>2, <1>3, <1>4, <1>5, <2>2, <2>6 DEF TypeOK
<1>10. CASE \E c \in Controllers : BusError(c)
  <2>1. PICK c \in Controllers : BusError(c)
    BY <1>10
  <2>2. errors' \in 0..MaxErrors
    BY <1>4, <2>1, Bounds DEF BusError
  <2>3. /\ ei' \in [Controllers -> BOOLEAN]
        /\ UNCHANGED <<calm, current, buffer, ti, fifo, queue, inbox, arrivals, switches, stopped,
                       accepted, onBus, lost>>
    BY <1>2, <2>1 DEF BusError, history
  <2> QED
    BY <1>2, <1>3, <1>4, <1>5, <2>2, <2>3 DEF TypeOK
<1>11. CASE \E c \in Controllers : SetBus(c)
  <2>1. PICK c \in Controllers : SetBus(c)
    BY <1>11
  <2>2. switches' \in 0..MaxSwitches
    BY <1>4, <2>1, Bounds DEF SetBus
  <2>3. /\ current' \in Controllers
        /\ UNCHANGED <<calm, buffer, ti, ei, fifo, queue, inbox, arrivals, errors, stopped,
                       accepted, onBus, lost>>
    BY <1>2, <2>1 DEF SetBus, history, hardware
  <2> QED
    BY <1>2, <1>3, <1>4, <1>5, <2>2, <2>3 DEF TypeOK
<1>12. CASE Receive
  <2>1. /\ inbox # <<>> /\ inbox' = Tail(inbox)
        /\ UNCHANGED <<calm, current, buffer, ti, ei, fifo, queue, bounds, stopped,
                       accepted, onBus, lost>>
    BY <1>12 DEF Receive, history, hardware
  <2>2. inbox' \in Seq(1..MaxArrivals) /\ Len(inbox') + 1 = Len(inbox) /\ Len(inbox') \in Nat
    BY <1>3, <2>1, TailIn
  <2>3. Len(inbox') <= DISPATCHER_QUEUE_LEN
    BY <1>3, <2>2, Bounds
  <2> QED
    BY <1>2, <1>3, <1>4, <1>5, <2>1, <2>2, <2>3 DEF TypeOK, bounds
<1> QED
  BY <1>6, <1>7, <1>8, <1>9, <1>10, <1>11, <1>12 DEF Next

-----------------------------------------------------------------------------
(* Every accepted frame is in exactly one place                            *)

Held(frame) == \E c \in Controllers : buffer[c] = frame

\* The four places a frame can be in exclude each other.
Apart ==
  \A frame \in Frames :
    /\ In(onBus, frame) => ~In(queue, frame) /\ ~Held(frame) /\ frame \notin lost
    /\ In(queue, frame) => ~Held(frame) /\ frame \notin lost
    /\ Held(frame) => frame \notin lost

\* No place holds a frame twice.
NoneTwice ==
  /\ Once(onBus) /\ Once(queue)
  /\ \A c, d \in Controllers : c # d /\ buffer[c] = buffer[d] => buffer[c] = Empty

\* Accepted frames are those that are somewhere.
Accounted ==
  \A frame \in Frames :
    frame \in accepted <=> In(onBus, frame) \/ In(queue, frame) \/ Held(frame) \/ frame \in lost

\* The frame of a call that has not returned is not accepted yet.
AcceptedBefore ==
  \A frame \in accepted :
    /\ frame.seq <= calls[frame.from]
    /\ task[frame.from] # "idle" => frame.seq # calls[frame.from]

Ledger == Apart /\ NoneTwice /\ Accounted /\ AcceptedBefore

LEMMA FreshFrame ==
  ASSUME TypeInv, Ledger, NEW t \in Senders, task[t] # "idle"
  PROVE  /\ FrameOf(t) \in Frames /\ FrameOf(t) \notin accepted
         /\ ~In(onBus, FrameOf(t)) /\ ~In(queue, FrameOf(t)) /\ ~Held(FrameOf(t))
         /\ FrameOf(t) \notin lost
<1>1. FrameOf(t) \in Frames
  BY FrameOfType
<1>2. FrameOf(t).from = t /\ FrameOf(t).seq = calls[t]
  BY DEF FrameOf
<1>3. FrameOf(t) \notin accepted
  BY <1>2 DEF Ledger, AcceptedBefore
<1> QED
  BY <1>1, <1>3 DEF Ledger, Accounted

LEMMA LedgerInit == Init => Ledger
<1> SUFFICES ASSUME Init PROVE Ledger
  OBVIOUS
<1>1. /\ DOMAIN onBus = {} /\ DOMAIN queue = {} /\ lost = {} /\ accepted = {}
      /\ \A c \in Controllers : buffer[c] = Empty
  BY DEF Init
<1>2. \A frame \in Frames : ~In(onBus, frame) /\ ~In(queue, frame) /\ ~Held(frame)
  BY <1>1, Bounds DEF In, Held
<1> QED
  BY <1>1, <1>2 DEF Ledger, Apart, NoneTwice, Accounted, AcceptedBefore, Once

\* AcceptedBefore survives the step of a task that does not return from
\* cants_send_msg, and of one that returns with its frame accepted.
LEMMA AcceptedBeforeStep ==
  ASSUME TypeInv, AcceptedBefore, Next
  PROVE  AcceptedBefore'
<1>1. /\ task \in [Senders -> {"idle", "critical", "blocked", "woken", "expired"}]
      /\ calls \in [Senders -> 0..MaxFrames]
      /\ \A frame \in accepted : frame \in Frames /\ frame.from \in Senders /\ frame.seq \in Nat
  BY DEF TypeInv, TypeOK, Frames
<1>2. CASE \E t \in Senders : EnterCritical(t)
  <2>1. PICK t \in Senders : EnterCritical(t)
    BY <1>2
  <2>2. /\ task' = [task EXCEPT ![t] = "critical"] /\ calls' = [calls EXCEPT ![t] = calls[t] + 1]
        /\ accepted' = accepted
    BY <2>1 DEF EnterCritical, history
  <2>3. ASSUME NEW frame \in accepted
        PROVE  /\ frame.seq <= calls'[frame.from]
               /\ task'[frame.from] # "idle" => frame.seq # calls'[frame.from]
    <3>1. calls[frame.from] \in Nat /\ frame.seq \in Nat /\ frame.seq <= calls[frame.from]
      BY <1>1 DEF AcceptedBefore
    <3>2. CASE frame.from = t
      <4>1. calls'[frame.from] = calls[frame.from] + 1
        BY <1>1, <2>2, <3>2
      <4> QED
        BY <3>1, <4>1
    <3>3. CASE frame.from # t
      <4>1. calls'[frame.from] = calls[frame.from] /\ task'[frame.from] = task[frame.from]
        BY <1>1, <2>2, <3>3
      <4> QED
        BY <4>1 DEF AcceptedBefore
    <3> QED
      BY <3>2, <3>3
  <2> QED
    BY <2>2, <2>3 DEF AcceptedBefore
<1>3. ASSUME calls' = calls, accepted' = accepted,
             \A t \in Senders : task'[t] # "idle" => task[t] # "idle"
      PROVE  AcceptedBefore'
  BY <1>1, <1>3 DEF AcceptedBefore
<1>4. CASE \E t \in Senders : (Send(t) \/ SendTimeout(t)) /\ ~EnterCritical(t)
  <2>1. PICK t \in Senders : (Send(t) \/ SendTimeout(t)) /\ ~EnterCritical(t)
    BY <1>4
  <2>2. CASE accepted' = accepted
    <3>1. /\ calls' = calls
          /\ \/ task' = [task EXCEPT ![t] = "idle"]
             \/ task[t] # "idle" /\ task' = [task EXCEPT ![t] = "blocked"]
             \/ task[t] # "idle" /\ task' = [task EXCEPT ![t] = "expired"]
      BY <2>1 DEF Send, SendTimeout, Retry, Submit, SendDirectly, Enqueue, Accepted, Rejected
    <3> QED
      BY <1>1, <1>3, <2>2, <3>1
  <2>3. CASE accepted' # accepted
    <3>1. Accepted(t)
      BY <2>1, <2>3 DEF Send, SendTimeout, Retry, Submit, SendDirectly, Enqueue, Rejected, history
    <3>2. /\ calls' = calls /\ task' = [task EXCEPT ![t] = "idle"]
          /\ accepted' = accepted \cup {FrameOf(t)}
      BY <3>1 DEF Accepted
    <3>3. /\ FrameOf(t).from = t /\ FrameOf(t).seq = calls[t] /\ calls[t] \in Nat
          /\ task'[t] = "idle"
      BY <1>1, <3>2 DEF FrameOf
    <3>4. \A u \in Senders : task'[u] # "idle" => task[u] # "idle"
      BY <1>1, <3>2
    <3> QED
      BY <1>1, <3>2, <3>3, <3>4 DEF AcceptedBefore
  <2> QED
    BY <2>2, <2>3
<1>5. CASE \E c \in Controllers : Interrupt(c)
  <2>1. PICK c \in Controllers : Interrupt(c)
    BY <1>5
  <2>2. /\ calls' = calls /\ accepted' = accepted
        /\ \/ task' = task
           \/ \E t \in Senders : task[t] = "blocked" /\ task' = [task EXCEPT ![t] = "woken"]
    BY <2>1 DEF Interrupt, WakeSender
  <2> QED
    BY <1>1, <1>3, <2>2
<1>6. CASE \/ \E c \in Controllers : TransmitDone(c) \/ Arrive(c) \/ BusError(c) \/ SetBus(c)
           \/ Receive
  BY <1>3, <1>6 DEF TransmitDone, Arrive, BusError, SetBus, Receive, history
<1> QED
  BY <1>2, <1>4, <1>5, <1>6 DEF Next, Send

\* The handler moves at most the head of the queue into the buffer of its
\* controller; what is in neither of them afterwards is destroyed.
LEMMA InterruptMoves ==
  ASSUME TypeInv, Ledger, NEW c \in Controllers, Interrupt(c)
  PROVE  \E x \in Frames \cup {Empty}, gone \in SUBSET Frames :
           /\ buffer' = [buffer EXCEPT ![c] = x]
           /\ lost' = lost \cup gone /\ x \notin gone
           /\ \A frame \in Frames :
                /\ In(queue', frame) => In(queue, frame)
                /\ frame = x \/ frame \in gone <=>
                     buffer[c] = frame \/ (In(queue, frame) /\ ~In(queue', frame))
           /\ Once(queue')
<1>1. PICK written \in AfterTransmitPart(c) :
        /\ buffer' = [buffer EXCEPT ![c] = IF ei[c] THEN Empty ELSE written.holds]
        /\ lost' = lost \cup written.gone \cup IF ei[c] THEN {written.holds} \ {Empty} ELSE {}
  BY DEF Interrupt
<1> DEFINE x == IF ei[c] THEN Empty ELSE written.holds
           gone == written.gone \cup IF ei[c] THEN {written.holds} \ {Empty} ELSE {}
<1>2. /\ written.holds \in Frames \cup {Empty} /\ written.gone \subseteq Frames
      /\ Empty \notin Frames /\ buffer[c] \in Frames \cup {Empty}
      /\ queue \in Seq(Frames) /\ Once(queue) /\ queue' = QueueAfter(c)
  BY WrittenType, Bounds DEF TypeInv, TypeOK, Ledger, NoneTwice, Interrupt
<1>3. /\ x \in Frames \cup {Empty} /\ gone \in SUBSET Frames
      /\ buffer' = [buffer EXCEPT ![c] = x] /\ lost' = lost \cup gone
  BY <1>1, <1>2
<1>4. CASE ~TakesNext(c)
  <2>1. written.holds = buffer[c] /\ written.gone = {} /\ queue' = queue
    BY <1>2, <1>4, WrittenType, QueueAfterType
  <2>2. x \notin gone /\ \A frame \in Frames : frame = x \/ frame \in gone <=> buffer[c] = frame
    BY <1>2, <2>1
  <2> HIDE DEF x, gone
  <2>3. /\ \A frame \in Frames : In(queue', frame) <=> In(queue, frame)
        /\ Once(queue')
    BY <1>2, <2>1
  <2> QED
    BY <1>3, <2>2, <2>3
<1>5. CASE TakesNext(c)
  <2> DEFINE h == Head(queue)
  <2>1. /\ queue' = Tail(queue) /\ h \in Frames /\ In(queue, h)
        /\ \A f : In(queue, f) <=> In(queue', f) \/ f = h
        /\ Once(queue') /\ ~In(queue', h)
    BY <1>2, <1>5, TailIn DEF QueueAfter, TakesNext
  <2>2. buffer[c] # h
    BY <2>1 DEF Ledger, Apart, Held
  <2>3. /\ buffer[c] = Empty => written.holds = h /\ written.gone = {}
        /\ buffer[c] # Empty => \/ written.holds = h /\ written.gone = {buffer[c]}
                                \/ written.holds = buffer[c] /\ written.gone = {h}
    BY <1>5, WrittenType
  <2> HIDE DEF h
  <2>4. /\ x \notin gone
        /\ \A frame \in Frames : frame = x \/ frame \in gone <=> buffer[c] = frame \/ frame = h
    BY <1>2, <2>1, <2>2, <2>3
  <2> HIDE DEF x, gone
  <2>5. \A frame \in Frames : /\ In(queue', frame) => In(queue, frame)
                              /\ In(queue, frame) /\ ~In(queue', frame) <=> frame = h
    BY <2>1
  <2>6. \A frame \in Frames : frame = x \/ frame \in gone <=>
                     buffer[c] = frame \/ (In(queue, frame) /\ ~In(queue', frame))
    BY <2>4, <2>5
  <2> QED
    BY <1>3, <2>1, <2>4, <2>5, <2>6
<1> QED
  BY <1>4, <1>5

LEMMA LedgerStep ==
  ASSUME TypeInv, Ledger, [Next]_vars
  PROVE  Ledger'
<1>1. CASE UNCHANGED vars
  BY <1>1 DEF vars, hardware, bounds, history, Ledger, Apart, NoneTwice, Accounted,
              AcceptedBefore, In, Once, Held
<1> SUFFICES ASSUME Next PROVE Apart' /\ NoneTwice' /\ Accounted'
  BY <1>1, AcceptedBeforeStep DEF Ledger
<1>2. /\ Empty \notin Frames /\ buffer \in [Controllers -> Frames \cup {Empty}]
      /\ current \in Controllers /\ queue \in Seq(Frames) /\ onBus \in Seq(Frames)
      /\ lost \subseteq Frames /\ accepted \subseteq Frames
  BY Bounds DEF TypeInv, TypeOK
<1>3. Apart /\ NoneTwice /\ Accounted
  BY DEF Ledger
<1>4. ASSUME UNCHANGED <<buffer, queue, accepted, onBus, lost>>
      PROVE  Apart' /\ NoneTwice' /\ Accounted'
  BY <1>3, <1>4 DEF Apart, NoneTwice, Accounted, In, Once, Held
<1>5. CASE \E t \in Senders : Send(t) \/ SendTimeout(t)
  <2>1. PICK t \in Senders : Send(t) \/ SendTimeout(t)
    BY <1>5
  <2> DEFINE new == FrameOf(t)
  <2>2. UNCHANGED <<onBus, lost>>
    BY <2>1, SendStep
  <2>3. ASSUME task[t] # "idle"
        PROVE  /\ new \in Frames /\ new \notin accepted /\ ~In(onBus, new) /\ ~In(queue, new)
               /\ ~Held(new) /\ new \notin lost
    BY <2>3, FreshFrame
  <2> HIDE DEF new
  <2>4. CASE UNCHANGED <<buffer, queue, accepted>>
    BY <1>4, <2>2, <2>4
  <2>5. CASE /\ task[t] # "idle" /\ buffer[current] = Empty
             /\ buffer' = [buffer EXCEPT ![current] = new]
             /\ queue' = queue /\ accepted' = accepted \cup {new}
    <3>1. \A frame \in Frames : Held(frame)' <=> Held(frame) \/ frame = new
      BY <1>2, <2>3, <2>5 DEF Held
    <3>2. \A frame \in Frames : /\ In(onBus', frame) <=> In(onBus, frame)
                                /\ In(queue', frame) <=> In(queue, frame)
      BY <2>2, <2>5
    <3>3. NoneTwice'
      BY <1>2, <1>3, <2>2, <2>3, <2>5 DEF NoneTwice, Once, Held
    <3>4. Apart' /\ Accounted'
      BY <1>2, <1>3, <2>2, <2>3, <2>5, <3>1, <3>2 DEF Apart, Accounted
    <3> QED
      BY <3>3, <3>4
  <2>6. CASE /\ task[t] # "idle" /\ queue' = Append(queue, new)
             /\ buffer' = buffer /\ accepted' = accepted \cup {new}
    <3>1. \A frame \in Frames : Held(frame)' <=> Held(frame)
      BY <2>6 DEF Held
    <3>2. /\ \A frame \in Frames : /\ In(onBus', frame) <=> In(onBus, frame)
                                   /\ In(queue', frame) <=> In(queue, frame) \/ frame = new
          /\ Once(queue')
      BY <1>2, <1>3, <2>2, <2>3, <2>6, AppendIn DEF NoneTwice
    <3>3. NoneTwice'
      BY <1>3, <2>2, <2>6, <3>2 DEF NoneTwice, Once
    <3>4. Apart' /\ Accounted'
      BY <1>2, <1>3, <2>2, <2>3, <2>6, <3>1, <3>2 DEF Apart, Accounted
    <3> QED
      BY <3>3, <3>4
  <2> QED
    BY <2>1, <2>4, <2>5, <2>6, SendStep DEF new
<1>6. CASE \E c \in Controllers : Interrupt(c)
  <2>1. PICK c \in Controllers : Interrupt(c)
    BY <1>6
  <2>2. PICK x \in Frames \cup {Empty}, gone \in SUBSET Frames :
           /\ buffer' = [buffer EXCEPT ![c] = x]
           /\ lost' = lost \cup gone /\ x \notin gone
           /\ \A frame \in Frames :
                /\ In(queue', frame) => In(queue, frame)
                /\ frame = x \/ frame \in gone <=>
                     buffer[c] = frame \/ (In(queue, frame) /\ ~In(queue', frame))
           /\ Once(queue')
    BY <2>1, InterruptMoves
  <2>3. accepted' = accepted /\ onBus' = onBus
    BY <2>1 DEF Interrupt
  <2>4. ASSUME NEW frame \in Frames
        PROVE  Held(frame)' <=> frame = x \/ \E d \in Controllers \ {c} : buffer[d] = frame
    BY <1>2, <2>2 DEF Held
  <2>5. ASSUME NEW frame \in Frames
        PROVE  Held(frame) <=> buffer[c] = frame \/ \E d \in Controllers \ {c} : buffer[d] = frame
    BY DEF Held
  <2>6. ASSUME NEW frame \in Frames, buffer[c] = frame
        PROVE  ~\E d \in Controllers \ {c} : buffer[d] = frame
    BY <1>2, <1>3, <2>6 DEF NoneTwice
  <2>7. NoneTwice'
    <3>1. ASSUME NEW d \in Controllers \ {c}, x \in Frames PROVE buffer[d] # x
      <4>1. buffer[c] = x \/ In(queue, x)
        BY <2>2, <3>1
      <4> QED
        BY <4>1, <1>3, <2>5, <2>6, <3>1 DEF Apart
    <3>2. \A d, e \in Controllers : d # e /\ buffer'[d] = buffer'[e] => buffer'[d] = Empty
      BY <1>2, <1>3, <2>2, <3>1 DEF NoneTwice
    <3> QED
      BY <1>3, <2>2, <2>3, <3>2 DEF NoneTwice, Once
  <2>8. ASSUME NEW frame \in Frames
        PROVE  /\ In(onBus', frame) => ~In(queue', frame) /\ ~Held(frame)' /\ frame \notin lost'
               /\ In(queue', frame) => ~Held(frame)' /\ frame \notin lost'
               /\ Held(frame)' => frame \notin lost'
               /\ frame \in accepted' <=>
                    In(onBus', frame) \/ In(queue', frame) \/ Held(frame)' \/ frame \in lost'
    <3>1. /\ In(onBus, frame) => ~In(queue, frame) /\ ~Held(frame) /\ frame \notin lost
          /\ In(queue, frame) => ~Held(frame) /\ frame \notin lost
          /\ Held(frame) => frame \notin lost
          /\ frame \in accepted <=>
               In(onBus, frame) \/ In(queue, frame) \/ Held(frame) \/ frame \in lost
      BY <1>3 DEF Apart, Accounted
    <3>2. In(onBus', frame) <=> In(onBus, frame)
      BY <2>3
    <3>3. frame \in lost' <=> frame \in lost \/ frame \in gone
      BY <2>2
    <3>4. frame \in accepted' <=> frame \in accepted
      BY <2>3
    <3>5. ~(frame = x /\ frame \in gone)
      BY <2>2
    <3>6. /\ In(queue', frame) => In(queue, frame)
          /\ frame = x \/ frame \in gone <=>
                     buffer[c] = frame \/ (In(queue, frame) /\ ~In(queue', frame))
      BY <2>2
    <3> QED
      BY <2>4, <2>5, <2>6, <3>1, <3>2, <3>3, <3>4, <3>5, <3>6
  <2> QED
    BY <2>7, <2>8 DEF Apart, Accounted
<1>7. CASE \E c \in Controllers : TransmitDone(c)
  <2>1. PICK c \in Controllers : TransmitDone(c)
    BY <1>7
  <2> DEFINE b == buffer[c]
  <2>2. /\ b \in Frames /\ buffer' = [buffer EXCEPT ![c] = Empty] /\ onBus' = Append(onBus, b)
        /\ UNCHANGED <<queue, accepted, lost>>
    BY <1>2, <2>1 DEF TransmitDone
  <2>3. Held(b) /\ ~In(onBus, b)
    BY <1>3, <2>2 DEF Held, Apart
  <2>4. ASSUME NEW frame \in Frames
        PROVE  Held(frame)' <=> Held(frame) /\ frame # b
    BY <1>2, <1>3, <2>2 DEF Held, NoneTwice
  <2> HIDE DEF b
  <2>5. /\ \A frame \in Frames : /\ In(onBus', frame) <=> In(onBus, frame) \/ frame = b
                                 /\ In(queue', frame) <=> In(queue, frame)
        /\ Once(onBus')
    BY <1>2, <1>3, <2>2, <2>3, AppendIn DEF NoneTwice
  <2>6. NoneTwice'
    <3>1. \A d, e \in Controllers : d # e /\ buffer'[d] = buffer'[e] => buffer'[d] = Empty
      BY <1>2, <1>3, <2>2 DEF NoneTwice
    <3> QED
      BY <1>3, <2>2, <2>5, <3>1 DEF NoneTwice, Once
  <2>7. Apart' /\ Accounted'
    BY <1>2, <1>3, <2>2, <2>3, <2>4, <2>5 DEF Apart, Accounted
  <2> QED
    BY <2>6, <2>7
<1>8. CASE \/ \E c \in Controllers : Arrive(c) \/ BusError(c) \/ SetBus(c)
           \/ Receive
  BY <1>4, <1>8 DEF Arrive, BusError, SetBus, Receive, history, hardware
<1> QED
  BY <1>5, <1>6, <1>7, <1>8 DEF Next

\* A set with at most one member, counted.
LEMMA CountOne ==
  ASSUME NEW S, \A x, y \in S : x = y
  PROVE  Cardinality(S) = IF S = {} THEN 0 ELSE 1
<1>1. CASE S = {}
  BY <1>1, FS_EmptySet
<1>2. CASE S # {}
  <2>1. PICK x \in S : S = {x}
    BY <1>2
  <2> QED
    BY <1>2, <2>1, FS_Singleton
<1> QED
  BY <1>1, <1>2

LEMMA LedgerConserves == TypeInv /\ Ledger => FramesConserved
<1> SUFFICES ASSUME TypeInv, Ledger, NEW frame \in Frames
             PROVE  Copies(frame) = IF frame \in accepted THEN 1 ELSE 0
  BY DEF FramesConserved, Conserved, TypeInv
<1> DEFINE A == {n \in DOMAIN onBus : onBus[n] = frame}
           B == {n \in DOMAIN queue : queue[n] = frame}
           C == {c \in Controllers : buffer[c] = frame}
<1>1. Cardinality(A) = IF In(onBus, frame) THEN 1 ELSE 0
  <2>1. (\A m, n \in A : m = n) /\ (A = {} <=> ~In(onBus, frame))
    BY DEF Ledger, NoneTwice, Once, In
  <2> HIDE DEF A
  <2> QED
    BY <2>1, CountOne
<1>2. Cardinality(B) = IF In(queue, frame) THEN 1 ELSE 0
  <2>1. (\A m, n \in B : m = n) /\ (B = {} <=> ~In(queue, frame))
    BY DEF Ledger, NoneTwice, Once, In
  <2> HIDE DEF B
  <2> QED
    BY <2>1, CountOne
<1>3. Cardinality(C) = IF Held(frame) THEN 1 ELSE 0
  <2>1. (\A m, n \in C : m = n) /\ (C = {} <=> ~Held(frame))
    BY Bounds DEF Ledger, NoneTwice, Held
  <2> HIDE DEF C
  <2> QED
    BY <2>1, CountOne
<1>4. Copies(frame) = Cardinality(A) + Cardinality(B) + Cardinality(C)
                        + IF frame \in lost THEN 1 ELSE 0
  BY DEF Copies
<1> HIDE DEF A, B, C
<1>5. /\ In(onBus, frame) => ~In(queue, frame) /\ ~Held(frame) /\ frame \notin lost
      /\ In(queue, frame) => ~Held(frame) /\ frame \notin lost
      /\ Held(frame) => frame \notin lost
      /\ frame \in accepted <=>
           In(onBus, frame) \/ In(queue, frame) \/ Held(frame) \/ frame \in lost
  BY DEF Ledger, Apart, Accounted
<1> QED
  BY <1>1, <1>2, <1>3, <1>4, <1>5

\* A frame for which cants_send_msg returned 1 is in exactly one place - on the
\* bus, in the queue, in a transmit buffer or among the destroyed ones - and one
\* it did not accept is nowhere, for every interleaving of senders, interrupts,
\* resets and bus switches.
THEOREM DriverConserves == Spec => []FramesConserved
<1>1. Init => TypeInv /\ Ledger
  BY TypeInit, LedgerInit
<1>2. TypeInv /\ Ledger /\ [Next]_vars => (TypeInv /\ Ledger)'
  BY TypeStep, LedgerStep
<1>3. TypeInv /\ Ledger => FramesConserved
  BY LedgerConserves
<1> QED
  BY <1>1, <1>2, <1>3, PTL DEF Spec

-----------------------------------------------------------------------------
(* The calm bus                                                            *)

\* A sender that waited in xQueueSendToBack and may run.
Ready == \E t \in Senders : task[t] \in {"woken", "expired"}

\* Only the controller selected at the start ever transmits.
OneBus ==
  /\ \A c \in Controllers : ~ei[c]
  /\ \A c \in Controllers \ {current} : buffer[c] = Empty /\ ~ti[c]

\* The transmit interrupt comes with a free buffer, in no critical section, and
\* with the queue full if a sender is ready to put a frame into it.
InterruptDue ==
  ti[current] => /\ buffer[current] = Empty /\ ~Masked
                 /\ Ready => Len(queue) = CAN_SEND_QUEUE_LEN

\* Senders block on a full queue; where a frame has left it, one of them is ready.
BlockedOnFull ==
  (\E t \in Senders : task[t] = "blocked") =>
    \/ Len(queue) = CAN_SEND_QUEUE_LEN
    \/ Len(queue) + 1 = CAN_SEND_QUEUE_LEN /\ Ready

CalmInv == calm => OneBus /\ InterruptDue /\ BlockedOnFull /\ QueueNotStranded

LEMMA CalmInit == Init => CalmInv
<1> SUFFICES ASSUME Init PROVE OneBus /\ InterruptDue /\ BlockedOnFull /\ QueueNotStranded
  BY DEF CalmInv
<1>1. /\ \A c \in Controllers : ~ei[c] /\ ~ti[c] /\ buffer[c] = Empty
      /\ queue = <<>> /\ \A t \in Senders : task[t] = "idle"
      /\ current \in Controllers
  BY Bounds DEF Init
<1> QED
  BY <1>1 DEF OneBus, InterruptDue, BlockedOnFull, QueueNotStranded, Waits

\* Steps of a sender, on a calm bus.
LEMMA CalmSend ==
  ASSUME TypeInv, CalmInv, calm, NEW t \in Senders, Send(t) \/ SendTimeout(t)
  PROVE  OneBus' /\ InterruptDue' /\ BlockedOnFull' /\ QueueNotStranded'
<1> DEFINE L == CAN_SEND_QUEUE_LEN
<1>1. /\ task \in [Senders -> {"idle", "critical", "blocked", "woken", "expired"}]
      /\ current \in Controllers /\ buffer \in [Controllers -> Frames \cup {Empty}]
      /\ Len(queue) \in Nat /\ Len(queue) <= L /\ L \in Nat /\ L # 0
      /\ (queue = <<>> <=> Len(queue) = 0) /\ Empty \notin Frames
  <2>1. queue \in Seq(Frames)
    BY DEF TypeInv, TypeOK
  <2>2. Len(queue) \in Nat /\ (queue = <<>> <=> Len(queue) = 0)
    BY <2>1
  <2> QED
    BY <2>2, Bounds DEF TypeInv, TypeOK
<1>2. /\ OneBus /\ InterruptDue /\ BlockedOnFull
      /\ (queue # <<>> \/ \E u \in Senders : Waits(u)) => buffer[current] # Empty \/ ti[current]
  BY DEF CalmInv, QueueNotStranded
<1>3. UNCHANGED <<calm, current, ti, ei>>
  BY SendStep
<1>4. QueueHasRoom <=> Len(queue) # L
  BY <1>1 DEF QueueHasRoom
<1> HIDE DEF L
<1>5. CASE EnterCritical(t)
  <2>1. /\ \A c \in Controllers : ~ti[c]
        /\ task[t] = "idle" /\ task' = [task EXCEPT ![t] = "critical"]
        /\ UNCHANGED <<buffer, queue>>
    BY <1>5 DEF EnterCritical, TaskRuns, Pending, hardware
  <2>2. Ready' <=> Ready
    BY <1>1, <2>1 DEF Ready
  <2>3. \A u \in Senders : (Waits(u)' <=> Waits(u)) /\ (task'[u] = "blocked" <=> task[u] = "blocked")
    BY <1>1, <2>1 DEF Waits
  <2> QED
    BY <1>1, <1>2, <1>3, <2>1, <2>2, <2>3
       DEF OneBus, InterruptDue, BlockedOnFull, QueueNotStranded
<1>6. CASE SendTimeout(t)
  <2>1. /\ task[t] = "blocked" /\ task' = [task EXCEPT ![t] = "expired"] /\ ~Masked
        /\ UNCHANGED <<buffer, queue>>
    BY <1>6 DEF SendTimeout, hardware
  <2>2. Ready' /\ ~Masked'
    BY <1>1, <2>1 DEF Ready, Masked
  <2>3. Waits(t) /\ \A u \in Senders : Waits(u)' <=> Waits(u)
    BY <1>1, <2>1 DEF Waits
  <2>4. /\ \E u \in Senders : task[u] = "blocked"
        /\ Len(queue) = L \/ (Len(queue) + 1 = L /\ Ready)
    BY <1>2, <2>1 DEF BlockedOnFull, L
  <2>5. ti[current] => Len(queue) = L
    BY <1>1, <1>2, <2>4 DEF InterruptDue, L
  <2> QED
    BY <1>1, <1>2, <1>3, <2>1, <2>2, <2>3, <2>4, <2>5
       DEF OneBus, InterruptDue, BlockedOnFull, QueueNotStranded, L
<1>7. ASSUME task[t] = "critical", ~ti[current], task' = [task EXCEPT ![t] = "idle"]
      PROVE  /\ Ready' <=> Ready
             /\ \A u \in Senders : /\ Waits(u)' <=> Waits(u)
                                   /\ task'[u] = "blocked" <=> task[u] = "blocked"
  BY <1>1, <1>7 DEF Ready, Waits
<1>8. ASSUME task[t] = "critical" PROVE ~ti[current]
  BY <1>2, <1>8 DEF InterruptDue, Masked
<1>9. CASE \E waitAllowed \in BOOLEAN : Submit(t, waitAllowed)
  <2>1. task[t] = "critical" /\ ~ti[current]
    BY <1>8, <1>9 DEF Submit
  <2>2. CASE SendDirectly(t)
    <3>1. /\ buffer[current] = Empty /\ buffer' = [buffer EXCEPT ![current] = FrameOf(t)]
          /\ task' = [task EXCEPT ![t] = "idle"] /\ queue' = queue
      BY <2>2 DEF SendDirectly, Accepted
    <3>2. FrameOf(t) # Empty
      BY <2>1, <1>1, FrameOfType
    <3> QED
      BY <1>1, <1>2, <1>3, <1>7, <2>1, <3>1, <3>2
         DEF OneBus, InterruptDue, BlockedOnFull, QueueNotStranded
  <2>3. CASE buffer[current] # Empty /\ Enqueue(t)
    <3>1. /\ Len(queue') = Len(queue) + 1 /\ Len(queue') <= L /\ buffer' = buffer
          /\ task' = [task EXCEPT ![t] = "idle"]
      BY <2>1, <2>3, EnqueueType DEF Enqueue, Accepted, L
    <3>2. (\E u \in Senders : task[u] = "blocked") => Len(queue') = L
      BY <1>1, <1>2, <3>1 DEF BlockedOnFull, L
    <3> QED
      BY <1>1, <1>2, <1>3, <1>7, <2>1, <2>3, <3>1, <3>2
         DEF OneBus, InterruptDue, BlockedOnFull, QueueNotStranded, L
  <2>4. CASE buffer[current] # Empty /\ ~QueueHasRoom /\ Rejected(t)
    <3>1. task' = [task EXCEPT ![t] = "idle"] /\ UNCHANGED <<buffer, queue>>
      BY <2>4 DEF Rejected
    <3> QED
      BY <1>1, <1>2, <1>3, <1>7, <2>1, <3>1
         DEF OneBus, InterruptDue, BlockedOnFull, QueueNotStranded
  <2>5. CASE /\ buffer[current] # Empty /\ ~QueueHasRoom
             /\ task' = [task EXCEPT ![t] = "blocked"] /\ UNCHANGED <<buffer, queue>>
    <3>1. Len(queue') = L
      BY <1>4, <2>5
    <3> QED
      BY <1>1, <1>2, <1>3, <2>1, <2>5, <3>1
         DEF OneBus, InterruptDue, BlockedOnFull, QueueNotStranded, L
  <2> QED
    BY <1>9, <2>2, <2>3, <2>4, <2>5 DEF Submit
<1>10. CASE Retry(t)
  <2>1. Ready /\ Waits(t) /\ ~Masked /\ task[t] \in {"woken", "expired"} /\ task[t] # "idle"
    BY <1>10 DEF Retry, Ready, Waits
  <2>2. buffer[current] # Empty \/ ti[current]
    BY <1>2, <2>1
  <2>3. CASE Enqueue(t)
    <3>1. /\ Len(queue') = Len(queue) + 1 /\ Len(queue') <= L /\ buffer' = buffer
          /\ task' = [task EXCEPT ![t] = "idle"]
      BY <2>1, <2>3, EnqueueType DEF Enqueue, Accepted, L
    <3>2. ~ti[current]
      BY <1>1, <1>2, <2>1, <3>1 DEF InterruptDue, L
    <3>3. \A u \in Senders : task'[u] = "blocked" => task[u] = "blocked"
      BY <1>1, <3>1
    <3>4. (\E u \in Senders : task[u] = "blocked") => Len(queue') = L
      BY <1>1, <1>2, <3>1 DEF BlockedOnFull, L
    <3> QED
      BY <1>1, <1>2, <1>3, <2>2, <3>1, <3>2, <3>3, <3>4
         DEF OneBus, InterruptDue, BlockedOnFull, QueueNotStranded, L
  <2>4. CASE ~QueueHasRoom /\ UNCHANGED <<buffer, queue>>
             /\ \E s \in {"idle", "blocked"} : task' = [task EXCEPT ![t] = s]
    <3>1. Len(queue') = L /\ Len(queue) = L
      BY <1>4, <2>4
    <3>2. ~Masked'
      BY <1>1, <2>1, <2>4 DEF Masked
    <3> QED
      BY <1>1, <1>2, <1>3, <2>2, <2>4, <3>1, <3>2
         DEF OneBus, InterruptDue, BlockedOnFull, QueueNotStranded, L
  <2> QED
    BY <1>10, <2>3, <2>4 DEF Retry, Rejected
<1> QED
  BY <1>5, <1>6, <1>9, <1>10 DEF Send

LEMMA CalmStep ==
  ASSUME TypeInv, CalmInv, [Next]_vars
  PROVE  CalmInv'
<1>1. CASE UNCHANGED vars
  BY <1>1 DEF vars, hardware, bounds, history, CalmInv, OneBus, InterruptDue, BlockedOnFull,
              QueueNotStranded, Ready, Masked, Waits
<1> SUFFICES ASSUME Next, calm'
             PROVE  OneBus' /\ InterruptDue' /\ BlockedOnFull' /\ QueueNotStranded'
  BY <1>1 DEF CalmInv
<1>2. calm
  BY DEF Next, Send, EnterCritical, Submit, Retry, SendTimeout, Interrupt, TransmitDone, Arrive,
         BusError, SetBus, Receive
<1>3. /\ OneBus /\ InterruptDue /\ BlockedOnFull
      /\ (queue # <<>> \/ \E u \in Senders : Waits(u)) => buffer[current] # Empty \/ ti[current]
  BY <1>2 DEF CalmInv, QueueNotStranded
<1>4. /\ task \in [Senders -> {"idle", "critical", "blocked", "woken", "expired"}]
      /\ current \in Controllers /\ buffer \in [Controllers -> Frames \cup {Empty}]
      /\ ti \in [Controllers -> BOOLEAN] /\ ei \in [Controllers -> BOOLEAN]
      /\ queue \in Seq(Frames)
  BY DEF TypeInv, TypeOK
<1>5. CASE \E t \in Senders : Send(t) \/ SendTimeout(t)
  BY <1>2, <1>5, CalmSend
<1>6. CASE \E c \in Controllers : Interrupt(c)
  <2>1. PICK c \in Controllers : Interrupt(c)
    BY <1>6
  <2>2. PICK written \in AfterTransmitPart(c) : buffer' = [buffer EXCEPT ![c] = written.holds]
    BY <1>3, <2>1 DEF Interrupt, OneBus
  <2>3. /\ ti' = [ti EXCEPT ![c] = FALSE] /\ ei' = [ei EXCEPT ![c] = FALSE]
        /\ queue' = QueueAfter(c) /\ current' = current /\ WakeSender(c)
    BY <2>1 DEF Interrupt
  <2>4. CASE ~TakesNext(c)
    <3>1. buffer' = buffer /\ queue' = queue /\ task' = task
      BY <1>4, <2>2, <2>3, <2>4, WrittenType, QueueAfterType DEF WakeSender
    <3>2. QueueNotStranded'
      <4>1. CASE c = current /\ ti[current]
        <5>1. queue = <<>> /\ Len(queue) = 0 /\ CAN_SEND_QUEUE_LEN # 0 /\ CAN_SEND_QUEUE_LEN \in Nat
          BY <2>4, <4>1, Bounds DEF TakesNext
        <5>2. ~Ready
          BY <1>3, <4>1, <5>1 DEF InterruptDue
        <5>3. \A u \in Senders : task[u] # "blocked"
          BY <1>3, <5>1, <5>2 DEF BlockedOnFull
        <5>4. \A u \in Senders : ~Waits(u)
          BY <5>2, <5>3 DEF Ready, Waits
        <5> QED
          BY <3>1, <5>1, <5>4 DEF QueueNotStranded, Waits
      <4>2. CASE ~(c = current /\ ti[current])
        BY <1>3, <1>4, <2>3, <3>1, <4>2 DEF QueueNotStranded, Waits
      <4> QED
        BY <4>1, <4>2
    <3> QED
      BY <1>3, <1>4, <2>3, <3>1, <3>2
         DEF OneBus, InterruptDue, BlockedOnFull, Ready, Masked
  <2>5. CASE TakesNext(c)
    <3>1. /\ c = current /\ ti[current] /\ queue # <<>> /\ buffer[c] = Empty
          /\ Ready => Len(queue) = CAN_SEND_QUEUE_LEN
      BY <1>3, <2>5 DEF TakesNext, InterruptDue
    <3>2. written.holds = Head(queue) /\ Head(queue) \in Frames
      BY <1>4, <2>5, <3>1, WrittenType, TailIn
    <3>3. buffer'[current'] # Empty /\ ~ti'[current'] /\ OneBus'
      BY <1>3, <1>4, <2>2, <2>3, <3>1, <3>2, Bounds DEF OneBus
    <3>4. Len(queue') + 1 = Len(queue)
      BY <2>3, <2>5, QueueAfterType
    <3>5. BlockedOnFull'
      <4>1. CASE \E t \in Senders : task[t] = "blocked"
        <5>1. Len(queue) = CAN_SEND_QUEUE_LEN
          BY <1>3, <3>1, <4>1 DEF BlockedOnFull
        <5>2. Ready'
          BY <1>4, <2>3, <2>5, <4>1 DEF WakeSender, Ready
        <5> QED
          BY <3>4, <5>1, <5>2 DEF BlockedOnFull
      <4>2. CASE ~\E t \in Senders : task[t] = "blocked"
        <5>1. task' = task
          BY <2>3, <4>2 DEF WakeSender
        <5> QED
          BY <4>2, <5>1 DEF BlockedOnFull
      <4> QED
        BY <4>1, <4>2
    <3> QED
      BY <3>3, <3>5 DEF InterruptDue, QueueNotStranded
  <2> QED
    BY <2>4, <2>5
<1>7. CASE \E c \in Controllers : TransmitDone(c)
  <2>1. PICK c \in Controllers : TransmitDone(c)
    BY <1>7
  <2>2. /\ c = current /\ ~Masked /\ ~Ready
        /\ ti' = [ti EXCEPT ![c] = TRUE] /\ buffer' = [buffer EXCEPT ![c] = Empty]
        /\ UNCHANGED <<current, ei, queue, task>>
    BY <1>2, <1>3, <2>1 DEF TransmitDone, OneBus, Ready
  <2> QED
    BY <1>3, <1>4, <2>2 DEF OneBus, InterruptDue, BlockedOnFull, QueueNotStranded, Ready, Masked
<1>8. CASE Receive \/ \E c \in Controllers : Arrive(c)
  <2>1. UNCHANGED <<current, buffer, ti, ei, queue, task>>
    BY <1>8 DEF Receive, Arrive, hardware
  <2> QED
    BY <1>3, <2>1
       DEF OneBus, InterruptDue, BlockedOnFull, QueueNotStranded, Ready, Masked, Waits
<1>9. CASE \E c \in Controllers : BusError(c) \/ SetBus(c)
  BY <1>2, <1>9 DEF BusError, SetBus
<1> QED
  BY <1>5, <1>6, <1>7, <1>8, <1>9 DEF Next

\* On a calm bus, while frames wait in the send queue or senders wait for room in
\* it, a transmit interrupt of the selected controller is due: nothing is left
\* behind in the queue.
THEOREM QueueFed == Spec => []QueueNotStranded
<1>1. Init => TypeInv /\ CalmInv
  BY TypeInit, CalmInit
<1>2. TypeInv /\ CalmInv /\ [Next]_vars => (TypeInv /\ CalmInv)'
  BY TypeStep, CalmStep
<1>3. CalmInv => QueueNotStranded
  BY DEF CalmInv, QueueNotStranded
<1> QED
  BY <1>1, <1>2, <1>3, PTL DEF Spec

-----------------------------------------------------------------------------
(* The driver on a calm bus implements TxChannel                           *)

\* The frame in the transmit buffer, if there is one, before those in the queue.
Outgoing == IF buffer[current] = Empty THEN <<>> ELSE <<buffer[current]>>

Pipeline == IF calm THEN Outgoing \o queue ELSE <<>>

Sequence == IF calm THEN onBus ELSE <<>>

LEMMA PipelineType ==
  ASSUME TypeInv
  PROVE  /\ Outgoing \in Seq(Frames) /\ queue \in Seq(Frames)
         /\ Outgoing \o queue \in Seq(Frames)
         /\ \A frame : In(Outgoing \o queue, frame) => In(Outgoing, frame) \/ In(queue, frame)
         /\ \A frame : In(Outgoing, frame) => Held(frame)
<1>1. queue \in Seq(Frames) /\ current \in Controllers /\ buffer[current] \in Frames \cup {Empty}
  BY DEF TypeInv, TypeOK
<1>2. /\ buffer[current] = Empty => Outgoing = <<>>
      /\ buffer[current] # Empty => Outgoing = <<buffer[current]>> /\ buffer[current] \in Frames
  BY <1>1 DEF Outgoing
<1>3. Outgoing \in Seq(Frames) /\ DOMAIN Outgoing = 1..Len(Outgoing) /\ Len(Outgoing) \in Nat
  <2>1. <<>> \in Seq(Frames) /\ \A frame \in Frames : <<frame>> \in Seq(Frames)
    OBVIOUS
  <2>2. Outgoing \in Seq(Frames)
    BY <1>2, <2>1
  <2> QED
    BY <2>2
<1>4. ASSUME NEW frame, In(Outgoing \o queue, frame)
      PROVE  In(Outgoing, frame) \/ In(queue, frame)
  <2> DEFINE all == Outgoing \o queue
  <2>1. /\ Len(all) = Len(Outgoing) + Len(queue) /\ DOMAIN all = 1..Len(all)
        /\ Len(queue) \in Nat /\ DOMAIN queue = 1..Len(queue)
    BY <1>1, <1>3
  <2>2. \A n \in DOMAIN all : \/ n \in DOMAIN Outgoing /\ all[n] = Outgoing[n]
                              \/ n - Len(Outgoing) \in DOMAIN queue /\ all[n] = queue[n - Len(Outgoing)]
    BY <1>1, <1>3, <2>1, ConcatProperties
  <2> HIDE DEF all
  <2> QED
    BY <1>4, <2>2 DEF In, all
<1>5. ASSUME NEW frame, In(Outgoing, frame) PROVE Held(frame)
  <2>1. buffer[current] # Empty /\ Outgoing = <<buffer[current]>>
    BY <1>2, <1>5 DEF In
  <2>2. frame = buffer[current]
    BY <1>5, <2>1 DEF In
  <2> QED
    BY <1>1, <2>2 DEF Held
<1> QED
  BY <1>1, <1>3, <1>4, <1>5, ConcatProperties

LEMMA AppendAfter ==
  ASSUME NEW S, NEW s \in Seq(S), NEW t \in Seq(S), NEW e \in S
  PROVE  s \o Append(t, e) = Append(s \o t, e)
OBVIOUS

LEMMA ChannelAccepts ==
  ASSUME TypeInv, Ledger, calm, calm', onBus' = onBus, NEW t \in Senders, task[t] # "idle",
         Pipeline' = Append(Pipeline, FrameOf(t))
  PROVE  CalmChannel!Next
<1>1. FrameOf(t) \in Frames /\ ~In(onBus, FrameOf(t)) /\ ~In(Pipeline, FrameOf(t))
  BY FreshFrame, PipelineType DEF Pipeline
<1>2. CalmChannel!Accept(FrameOf(t))
  BY <1>1 DEF CalmChannel!Accept, CalmChannel!Fresh, Pipeline, Outgoing, In
<1> QED
  BY <1>1, <1>2 DEF CalmChannel!Next

LEMMA ChannelStep ==
  ASSUME TypeInv, Ledger, CalmInv, [Next]_vars
  PROVE  [CalmChannel!Next]_(CalmChannel!channelVars)
<1>1. ASSUME Pipeline' = Pipeline, Sequence' = Sequence
      PROVE  UNCHANGED CalmChannel!channelVars
  BY <1>1 DEF CalmChannel!channelVars, Pipeline, Sequence, Outgoing
<1>2. ASSUME UNCHANGED <<calm, current, buffer, queue, onBus>>
      PROVE  UNCHANGED CalmChannel!channelVars
  BY <1>1, <1>2 DEF Pipeline, Sequence, Outgoing
<1>3. CASE UNCHANGED vars
  BY <1>2, <1>3 DEF vars, hardware, history
<1>4. CASE Next /\ ~calm
  <2>1. ~calm'
    BY <1>4 DEF Next, Send, EnterCritical, Submit, Retry, SendTimeout, Interrupt, TransmitDone,
                Arrive, BusError, SetBus, Receive
  <2> QED
    BY <1>1, <1>4, <2>1 DEF Pipeline, Sequence
<1> SUFFICES ASSUME Next, calm
             PROVE  [CalmChannel!Next]_(CalmChannel!channelVars)
  BY <1>3, <1>4
<1>5. /\ OneBus /\ InterruptDue /\ BlockedOnFull
      /\ (queue # <<>> \/ \E u \in Senders : Waits(u)) => buffer[current] # Empty \/ ti[current]
  BY DEF CalmInv, QueueNotStranded
<1>6. /\ current \in Controllers /\ buffer \in [Controllers -> Frames \cup {Empty}]
      /\ queue \in Seq(Frames) /\ onBus \in Seq(Frames) /\ Empty \notin Frames
  BY Bounds DEF TypeInv, TypeOK
<1>7. CASE \E t \in Senders : Send(t) \/ SendTimeout(t)
  <2>1. PICK t \in Senders : Send(t) \/ SendTimeout(t)
    BY <1>7
  <2>2. UNCHANGED <<calm, current, onBus>>
    BY <2>1, SendStep
  <2>3. CASE UNCHANGED <<buffer, queue>>
    BY <1>2, <2>2, <2>3
  <2>4. CASE /\ task[t] = "critical" /\ buffer[current] = Empty /\ FrameOf(t) \in Frames
             /\ buffer' = [buffer EXCEPT ![current] = FrameOf(t)] /\ queue' = queue
    <3>1. queue = <<>>
      BY <1>5, <2>4 DEF InterruptDue, Masked
    <3>2. Pipeline = <<>> \o <<>> /\ Pipeline' = <<FrameOf(t)>> \o <<>>
      BY <1>6, <2>2, <2>4, <3>1 DEF Pipeline, Outgoing
    <3>3. Pipeline' = Append(Pipeline, FrameOf(t))
      BY <2>4, <3>2
    <3> QED
      BY <2>2, <2>4, <3>3, ChannelAccepts
  <2>5. CASE /\ task[t] # "idle" /\ queue' = Append(queue, FrameOf(t)) /\ FrameOf(t) \in Frames
             /\ buffer' = buffer
    <3>1. Outgoing' = Outgoing /\ Outgoing \in Seq(Frames)
      BY <2>2, <2>5, PipelineType DEF Outgoing
    <3>2. Pipeline' = Append(Pipeline, FrameOf(t))
      BY <1>6, <2>2, <2>5, <3>1, AppendAfter DEF Pipeline
    <3> QED
      BY <2>2, <2>5, <3>2, ChannelAccepts
  <2> QED
    BY <2>1, <2>3, <2>4, <2>5, SendStep
<1>8. CASE \E c \in Controllers : Interrupt(c)
  <2>1. PICK c \in Controllers : Interrupt(c)
    BY <1>8
  <2>2. PICK written \in AfterTransmitPart(c) : buffer' = [buffer EXCEPT ![c] = written.holds]
    BY <1>5, <2>1 DEF Interrupt, OneBus
  <2>3. queue' = QueueAfter(c) /\ UNCHANGED <<calm, current, onBus>>
    BY <2>1 DEF Interrupt
  <2>4. CASE ~TakesNext(c)
    <3>1. buffer' = buffer /\ queue' = queue
      BY <1>6, <2>2, <2>3, <2>4, WrittenType, QueueAfterType
    <3> QED
      BY <1>2, <2>3, <3>1
  <2>5. CASE TakesNext(c)
    <3>1. c = current /\ queue # <<>> /\ buffer[current] = Empty /\ queue' = Tail(queue)
      BY <1>5, <2>3, <2>5 DEF TakesNext, InterruptDue, QueueAfter
    <3>2. written.holds = Head(queue) /\ Head(queue) \in Frames
      BY <1>6, <2>5, <3>1, WrittenType, TailIn
    <3>3. Pipeline = <<>> \o queue /\ Pipeline' = <<Head(queue)>> \o Tail(queue)
      BY <1>6, <2>2, <2>3, <3>1, <3>2 DEF Pipeline, Outgoing
    <3>4. <<>> \o queue = <<Head(queue)>> \o Tail(queue)
      BY <1>6, <3>1
    <3> QED
      BY <1>1, <2>3, <3>3, <3>4 DEF Sequence
  <2> QED
    BY <2>4, <2>5
<1>9. CASE \E c \in Controllers : TransmitDone(c)
  <2>1. PICK c \in Controllers : TransmitDone(c)
    BY <1>9
  <2>2. /\ c = current /\ buffer[current] # Empty /\ buffer[current] \in Frames
        /\ buffer' = [buffer EXCEPT ![current] = Empty] /\ onBus' = Append(onBus, buffer[current])
        /\ UNCHANGED <<calm, current, queue>>
    BY <1>5, <1>6, <2>1 DEF TransmitDone, OneBus
  <2>3. Pipeline = <<buffer[current]>> \o queue /\ Pipeline' = <<>> \o queue
    BY <1>6, <2>2 DEF Pipeline, Outgoing
  <2>4. Pipeline # <<>> /\ Head(Pipeline) = buffer[current] /\ Tail(Pipeline) = <<>> \o queue
    BY <1>6, <2>2, <2>3
  <2>5. CalmChannel!Transmit
    BY <2>2, <2>3, <2>4 DEF CalmChannel!Transmit, Pipeline, Outgoing
  <2> QED
    BY <2>5 DEF CalmChannel!Next
<1>10. CASE \/ \E c \in Controllers : Arrive(c) \/ BusError(c) \/ SetBus(c)
            \/ Receive
  <2>1. UNCHANGED <<calm, current, buffer, queue, onBus>>
    BY <1>10 DEF Arrive, BusError, SetBus, Receive, hardware, history
  <2> QED
    BY <1>2, <2>1
<1> QED
  BY <1>7, <1>8, <1>9, <1>10 DEF Next

\* On a calm bus senders and interrupt handler together are the FIFO channel
\* TxChannel: frames leave in the order in which cants_send_msg accepted them,
\* each of them once, and none is lost on the way.
THEOREM DriverIsFifo == Spec => ImplementsFifo
<1>1. Init => TypeInv /\ Ledger /\ CalmInv
  BY TypeInit, LedgerInit, CalmInit
<1>2. TypeInv /\ Ledger /\ CalmInv /\ [Next]_vars => (TypeInv /\ Ledger /\ CalmInv)'
  BY TypeStep, LedgerStep, CalmStep
<1>3. Init => CalmChannel!Init
  <2> SUFFICES ASSUME Init PROVE CalmChannel!Init
    OBVIOUS
  <2>1. buffer[current] = Empty /\ queue = <<>> /\ onBus = <<>>
    BY Bounds DEF Init
  <2> QED
    BY <2>1 DEF CalmChannel!Init
<1>4. TypeInv /\ Ledger /\ CalmInv /\ [Next]_vars => [CalmChannel!Next]_(CalmChannel!channelVars)
  BY ChannelStep
<1> QED
  BY <1>1, <1>2, <1>3, <1>4, PTL DEF Spec, ImplementsFifo, CalmChannel!Spec

-----------------------------------------------------------------------------
(* Received frames stay in order                                           *)

Arrived(frames) == \A n \in DOMAIN frames : frames[n].number <= arrivals

\* What the dispatcher still has to take came before what the selected
\* controller holds.
ArrivalsInOrder ==
  /\ Grows(inbox)
  /\ \A n \in DOMAIN inbox : inbox[n] <= arrivals
  /\ \A c \in Controllers : NumbersGrow(fifo[c]) /\ Arrived(fifo[c])
  /\ \A m \in DOMAIN inbox, n \in DOMAIN fifo[current] : inbox[m] < fifo[current][n].number

LEMMA ArrivalsInit == Init => ArrivalsInOrder
<1> SUFFICES ASSUME Init PROVE ArrivalsInOrder
  OBVIOUS
<1>1. DOMAIN inbox = {} /\ \A c \in Controllers : DOMAIN fifo[c] = {}
  BY DEF Init
<1> QED
  BY <1>1 DEF ArrivalsInOrder, Grows, NumbersGrow, Arrived

LEMMA ArrivalsStep ==
  ASSUME TypeInv, ArrivalsInOrder, [Next]_vars
  PROVE  ArrivalsInOrder'
<1>1. ASSUME UNCHANGED <<current, fifo, inbox, arrivals>>
      PROVE  ArrivalsInOrder'
  BY <1>1 DEF ArrivalsInOrder, Grows, NumbersGrow, Arrived
<1>2. /\ fifo \in [Controllers -> Seq(Arrival)] /\ current \in Controllers
      /\ inbox \in Seq(1..MaxArrivals) /\ arrivals \in Nat
  BY DEF TypeInv, TypeOK
<1>3. /\ Grows(inbox) /\ \A n \in DOMAIN inbox : inbox[n] <= arrivals
      /\ \A c \in Controllers : NumbersGrow(fifo[c]) /\ Arrived(fifo[c])
      /\ \A m \in DOMAIN inbox, n \in DOMAIN fifo[current] : inbox[m] < fifo[current][n].number
  BY DEF ArrivalsInOrder
<1>4. CASE \E t \in Senders : Send(t) \/ SendTimeout(t)
  BY <1>1, <1>4, SendStep DEF bounds
<1>5. CASE \E c \in Controllers : Interrupt(c)
  <2>1. PICK c \in Controllers : Interrupt(c)
    BY <1>5
  <2> DEFINE read == Dispatched(c)
  <2>2. /\ fifo' = [fifo EXCEPT ![c] = <<>>] /\ UNCHANGED <<current, arrivals>>
        /\ Deliver(read) /\ read \in Seq(1..MaxArrivals)
    BY <2>1, DispatchedType DEF Interrupt, bounds
  <2>3. /\ Grows(read) /\ DOMAIN read = 1..Len(read) /\ Len(read) \in Nat
        /\ \A k \in DOMAIN read : /\ read[k] <= arrivals
                                  /\ \A m \in DOMAIN inbox : inbox[m] < read[k]
    <3>1. CASE current = c
      <4>1. /\ Grows(read)
            /\ \A k \in DOMAIN read : \E m \in DOMAIN fifo[current] : read[k] = fifo[current][m].number
        BY <1>2, <1>3, <3>1, ValidNumbersRead DEF Dispatched
      <4> HIDE DEF read
      <4>2. DOMAIN read = 1..Len(read) /\ Len(read) \in Nat
        BY <2>2
      <4>3. ASSUME NEW k \in DOMAIN read
            PROVE  read[k] <= arrivals /\ \A m \in DOMAIN inbox : inbox[m] < read[k]
        <5>1. PICK n \in DOMAIN fifo[current] : read[k] = fifo[current][n].number
          BY <4>1
        <5> QED
          BY <1>2, <1>3, <5>1 DEF Arrived
      <4> QED
        BY <4>1, <4>2, <4>3
    <3>2. CASE current # c
      <4>1. read = <<>>
        BY <3>2 DEF Dispatched
      <4>2. DOMAIN read = {} /\ Len(read) = 0
        BY <4>1
      <4> HIDE DEF read
      <4> QED
        BY <2>2, <4>2 DEF Grows
    <3> QED
      BY <3>1, <3>2
  <2> HIDE DEF read
  <2>4. /\ inbox' \in Seq(1..MaxArrivals) /\ Extends(inbox, read, inbox')
    BY <2>2, DeliverResult
  <2>5. /\ DOMAIN inbox = 1..Len(inbox) /\ Len(inbox) \in Nat
        /\ DOMAIN inbox' = 1..Len(inbox') /\ Len(inbox') \in Nat
    BY <1>2, <2>4
  <2>6. ASSUME NEW m \in DOMAIN inbox', NEW n \in DOMAIN inbox', m < n
        PROVE  inbox'[m] < inbox'[n]
    <3>1. CASE n \in DOMAIN inbox
      <4>1. m \in DOMAIN inbox
        BY <2>5, <2>6, <3>1
      <4>2. inbox'[m] = inbox[m] /\ inbox'[n] = inbox[n]
        BY <2>4, <3>1, <4>1 DEF Extends
      <4> QED
        BY <1>3, <2>6, <3>1, <4>1, <4>2 DEF Grows
    <3>2. CASE n \notin DOMAIN inbox
      <4>1. n - Len(inbox) \in DOMAIN read /\ inbox'[n] = read[n - Len(inbox)]
        BY <2>4, <3>2 DEF Extends
      <4>2. CASE m \in DOMAIN inbox
        BY <2>3, <2>4, <4>1, <4>2 DEF Extends
      <4>3. CASE m \notin DOMAIN inbox
        <5>1. m - Len(inbox) \in DOMAIN read /\ inbox'[m] = read[m - Len(inbox)]
          BY <2>4, <4>3 DEF Extends
        <5>2. m - Len(inbox) < n - Len(inbox)
          BY <2>5, <2>6
        <5> QED
          BY <2>3, <4>1, <5>1, <5>2 DEF Grows
      <4> QED
        BY <4>2, <4>3
    <3> QED
      BY <3>1, <3>2
  <2>7. ASSUME NEW n \in DOMAIN inbox'
        PROVE  \/ n \in DOMAIN inbox /\ inbox'[n] = inbox[n]
               \/ \E k \in DOMAIN read : inbox'[n] = read[k]
    BY <2>4 DEF Extends
  <2>8. DOMAIN <<>> = {}
    OBVIOUS
  <2>9. \A d \in Controllers : \/ d = c /\ DOMAIN fifo'[d] = {}
                               \/ d # c /\ fifo'[d] = fifo[d]
    BY <1>2, <2>2, <2>8
  <2>10. \A d \in Controllers : NumbersGrow(fifo'[d]) /\ Arrived(fifo[d])'
    BY <1>3, <2>2, <2>9 DEF NumbersGrow, Arrived
  <2>11. \A n \in DOMAIN inbox' : inbox'[n] <= arrivals'
    BY <1>3, <2>2, <2>3, <2>7
  <2>12. \A m \in DOMAIN inbox', n \in DOMAIN fifo'[current'] :
            inbox'[m] < fifo'[current'][n].number
    <3>1. CASE current = c
      BY <1>2, <2>2, <2>9, <3>1
    <3>2. CASE current # c
      <4>1. DOMAIN read = {}
        BY <2>8, <3>2 DEF read, Dispatched
      <4> QED
        BY <1>2, <1>3, <2>2, <2>7, <2>9, <3>2, <4>1
    <3> QED
      BY <3>1, <3>2
  <2> QED
    BY <2>6, <2>10, <2>11, <2>12 DEF ArrivalsInOrder, Grows
<1>6. CASE \E c \in Controllers : Arrive(c)
  <2>1. PICK c \in Controllers : Arrive(c)
    BY <1>6
  <2>2. PICK valid \in BOOLEAN :
          fifo' = [fifo EXCEPT ![c] = Append(@, [number |-> arrivals', valid |-> valid])]
    BY <2>1 DEF Arrive
  <2> DEFINE new == [number |-> arrivals', valid |-> valid]
  <2>3. /\ arrivals' = arrivals + 1 /\ new.number = arrivals + 1
        /\ UNCHANGED <<current, inbox>>
    BY <2>1 DEF Arrive
  <2>4. arrivals' \in 1..MaxArrivals
    BY <1>2, <2>1, <2>3, Bounds DEF Arrive
  <2>5. new \in Arrival
    BY <2>4 DEF Arrival
  <2>6. fifo' = [fifo EXCEPT ![c] = Append(fifo[c], new)]
    BY <2>2
  <2> HIDE DEF new
  <2>7. /\ DOMAIN fifo[c] = 1..Len(fifo[c]) /\ Len(fifo[c]) \in Nat
        /\ DOMAIN fifo'[c] = 1..(Len(fifo[c]) + 1)
        /\ \A n \in 1..Len(fifo[c]) : fifo'[c][n] = fifo[c][n] /\ fifo[c][n].number \in Nat
        /\ fifo'[c][Len(fifo[c]) + 1] = new
    <3>1. fifo[c] \in Seq(Arrival) /\ fifo'[c] = Append(fifo[c], new)
      BY <1>2, <2>6
    <3>2. \A n \in 1..Len(fifo[c]) : fifo[c][n] \in Arrival
      BY <3>1, ElementOfSeq
    <3>3. \A n \in 1..Len(fifo[c]) : fifo[c][n].number \in Nat
      BY <3>2 DEF Arrival
    <3> QED
      BY <2>5, <3>1, <3>3
  <2>8. \A d \in Controllers : d # c => fifo'[d] = fifo[d]
    BY <1>2, <2>6
  <2>9. ASSUME NEW n \in DOMAIN fifo'[c]
        PROVE  \/ n \in DOMAIN fifo[c] /\ n <= Len(fifo[c]) /\ fifo'[c][n] = fifo[c][n]
               \/ n = Len(fifo[c]) + 1 /\ fifo'[c][n] = new
    BY <2>7
  <2>10. NumbersGrow(fifo'[c]) /\ Arrived(fifo[c])'
    <3>1. \A n \in DOMAIN fifo[c] : fifo[c][n].number <= arrivals /\ fifo[c][n].number \in Nat
      BY <1>3, <2>7 DEF Arrived
    <3>2. Arrived(fifo[c])'
      <4>1. \A k \in Nat : k <= arrivals => k <= arrivals + 1
        BY <1>2
      <4>2. arrivals + 1 <= arrivals + 1
        BY <1>2
      <4>3. \A n \in DOMAIN fifo'[c] : fifo'[c][n].number <= arrivals + 1
        BY <2>3, <2>9, <3>1, <4>1, <4>2
      <4> QED
        BY <2>3, <4>3 DEF Arrived
    <3>3. NumbersGrow(fifo'[c])
      <4> SUFFICES ASSUME NEW m \in DOMAIN fifo'[c], NEW n \in DOMAIN fifo'[c], m < n
                   PROVE  fifo'[c][m].number < fifo'[c][n].number
        BY DEF NumbersGrow
      <4>1. m \in DOMAIN fifo[c] /\ fifo'[c][m] = fifo[c][m]
        BY <2>7, <2>9
      <4>2. CASE n \in DOMAIN fifo[c]
        BY <1>3, <2>7, <4>1, <4>2 DEF NumbersGrow
      <4>3. CASE n \notin DOMAIN fifo[c]
        BY <1>2, <2>3, <2>9, <3>1, <4>1, <4>3
      <4> QED
        BY <4>2, <4>3
    <3> QED
      BY <3>2, <3>3
  <2>11. \A d \in Controllers : NumbersGrow(fifo'[d]) /\ Arrived(fifo[d])'
    <3>1. ASSUME NEW d \in Controllers, d # c
          PROVE  NumbersGrow(fifo'[d]) /\ Arrived(fifo[d])'
      <4>1. fifo[d] \in Seq(Arrival)
        BY <1>2
      <4>2. \A n \in DOMAIN fifo[d] : fifo[d][n] \in Arrival
        BY <4>1, ElementOfSeq
      <4>3. \A n \in DOMAIN fifo[d] : fifo[d][n].number \in Nat /\ fifo[d][n].number <= arrivals
        BY <1>3, <4>2 DEF Arrival, Arrived
      <4> QED
        BY <1>2, <1>3, <2>3, <2>8, <3>1, <4>3 DEF Arrived
    <3> QED
      BY <2>10, <3>1
  <2>12. \A m \in DOMAIN inbox : inbox[m] \in Nat /\ inbox[m] <= arrivals
    <3>1. \A m \in 1..Len(inbox) : inbox[m] \in 1..MaxArrivals
      BY <1>2, ElementOfSeq
    <3>2. DOMAIN inbox = 1..Len(inbox) /\ \A k \in 1..MaxArrivals : k \in Nat
      BY <1>2
    <3> QED
      BY <1>3, <3>1, <3>2
  <2>13. \A m \in DOMAIN inbox, n \in DOMAIN fifo'[current] :
            inbox[m] < fifo'[current][n].number
    <3>1. \A k \in Nat : k <= arrivals => k < arrivals + 1
      BY <1>2
    <3>2. CASE current # c
      BY <1>2, <1>3, <2>8, <3>2
    <3>3. CASE current = c
      BY <1>3, <2>3, <2>9, <2>12, <3>1, <3>3
    <3> QED
      BY <3>2, <3>3
  <2>14. \A m \in DOMAIN inbox : inbox[m] <= arrivals'
    BY <1>2, <2>3, <2>12
  <2> QED
    BY <1>3, <2>3, <2>11, <2>13, <2>14 DEF ArrivalsInOrder
<1>7. CASE \E c \in Controllers : SetBus(c)
  <2>1. PICK c \in Controllers : SetBus(c)
    BY <1>7
  <2>2. /\ fifo[c] = <<>> /\ current' = c /\ UNCHANGED <<fifo, inbox, arrivals>>
    BY <2>1 DEF SetBus, TaskRuns, Pending, hardware
  <2>3. DOMAIN fifo'[current'] = {}
    BY <2>2
  <2> QED
    BY <1>3, <2>2, <2>3 DEF ArrivalsInOrder, Arrived
<1>8. CASE Receive
  <2>1. /\ inbox # <<>> /\ inbox' = Tail(inbox) /\ UNCHANGED <<current, fifo, arrivals>>
    BY <1>8 DEF Receive, hardware, bounds
  <2>2. /\ DOMAIN inbox' = 1..Len(inbox') /\ Len(inbox') \in Nat /\ DOMAIN inbox = 1..(Len(inbox') + 1)
        /\ \A n \in DOMAIN inbox' : n + 1 \in DOMAIN inbox /\ inbox'[n] = inbox[n + 1]
    BY <1>2, <2>1, HeadTailProperties
  <2>3. \A m, n \in DOMAIN inbox' : m < n => m + 1 < n + 1
    BY <2>2
  <2> QED
    BY <1>3, <2>1, <2>2, <2>3 DEF ArrivalsInOrder, Grows, Arrived
<1>9. CASE \/ \E c \in Controllers : TransmitDone(c) \/ BusError(c)
           \/ UNCHANGED vars
  BY <1>1, <1>9 DEF TransmitDone, BusError, vars, hardware, bounds
<1> QED
  BY <1>4, <1>5, <1>6, <1>7, <1>8, <1>9 DEF Next

\* The dispatcher gets the frames of the selected bus in the order in which they
\* arrived, across bus switches and resets.
THEOREM ReceivesInOrder == Spec => []InboxInOrder
<1>1. Init => TypeInv /\ ArrivalsInOrder
  BY TypeInit, ArrivalsInit
<1>2. TypeInv /\ ArrivalsInOrder /\ [Next]_vars => (TypeInv /\ ArrivalsInOrder)'
  BY TypeStep, ArrivalsStep
<1>3. ArrivalsInOrder => InboxInOrder
  BY DEF ArrivalsInOrder, Grows, InboxInOrder
<1> QED
  BY <1>1, <1>2, <1>3, PTL DEF Spec
=============================================================================
