-------------------------- MODULE GetBlock_proofs --------------------------
(***************************************************************************)
(* Theorems about the Get Block task, for every number of nodes, slots and *)
(* blocks, every size of a mask and every length of the timers: what its   *)
(* bursts send and when, how long a session lasts, and the refinement of   *)
(* GetBlockService.                                                        *)
(***************************************************************************)
EXTENDS GetBlock, TLAPS, FiniteSetTheorems, WellFoundedInduction

-----------------------------------------------------------------------------
(* Finite sets of numbers                                                  *)

\* A nonempty set of natural numbers has a least element, which Min chooses.
LEMMA MinIsLeast ==
  ASSUME NEW S, S \subseteq Nat, S # {}
  PROVE  Min(S) \in S /\ \A m \in S : Min(S) <= m
<1>1. \E n \in S : \A m \in S : ~(<<m, n>> \in OpToRel(<, Nat))
  BY NatLessThanWellFounded, WFMin
<1>2. PICK n \in S : \A m \in S : ~(<<m, n>> \in OpToRel(<, Nat))
  BY <1>1
<1>3. ASSUME NEW m \in S
      PROVE  n <= m
  <2>1. m \in Nat /\ n \in Nat
    OBVIOUS
  <2>2. ~(m < n)
    BY <1>2, <2>1 DEF OpToRel
  <2> QED BY <2>1, <2>2
<1>4. \E k \in S : \A m \in S : k <= m
  BY <1>3
<1> QED BY <1>4 DEF Min

\* A nonempty bounded set of natural numbers has a greatest element, which Max
\* chooses.
LEMMA MaxIsGreatest ==
  ASSUME NEW N \in Nat, NEW S, S \subseteq 0..N, S # {}
  PROVE  Max(S) \in S /\ \A m \in S : m <= Max(S)
<1> DEFINE T == {N - x : x \in S}
<1>1. T \subseteq Nat /\ T # {}
  <2>1. \A x \in S : N - x \in Nat
    OBVIOUS
  <2> QED BY <2>1
<1>2. PICK x \in S : Min(T) = N - x
  BY <1>1, MinIsLeast
<1>3. \A m \in S : N - x <= N - m
  BY <1>1, <1>2, MinIsLeast
<1>4. \A m \in S : m <= x
  BY <1>3
<1>5. \E k \in S : \A m \in S : k >= m
  BY <1>4
<1> QED BY <1>5 DEF Max

\* FirstOf takes the smallest elements, and as many as there is room for when
\* there are more.
LEMMA FirstOfSplits ==
  ASSUME NEW N \in Nat, NEW D, D \subseteq 0..N, NEW room \in Nat
  PROVE  LET F == FirstOf(D, room)
         IN  /\ F \subseteq D
             /\ \A q \in F, r \in D \ F : q < r
             /\ D \ F # {} => Cardinality(F) = room
<1> DEFINE F == FirstOf(D, room)
           Below(q) == {r \in D : r < q}
<1>1. /\ IsFiniteSet(D)
      /\ \A S : S \subseteq D => IsFiniteSet(S) /\ Cardinality(S) \in Nat
  <2>1. IsFiniteSet(0..N)
    BY FS_Interval
  <2> QED BY <2>1, FS_Subset, FS_CardinalityType
<1>2. F = {q \in D : Cardinality(Below(q)) < room} /\ D \subseteq Nat
  BY DEF FirstOf
<1>3. \A q \in D : Below(q) \subseteq D /\ Cardinality(Below(q)) \in Nat
  BY <1>1
<1> HIDE DEF F
<1>4. ASSUME NEW q \in F, NEW r \in D \ F
      PROVE  q < r
  <2>1. q \in Nat /\ r \in Nat /\ q \in D /\ r \in D /\ \A x \in D : x \in Nat
    BY <1>2
  <2>2. CASE r <= q
    <3>1. Below(r) \subseteq Below(q)
      <4>1. \A x \in D : x < r => x < q
        BY <2>1, <2>2
      <4> QED BY <4>1
    <3>2. Cardinality(Below(r)) <= Cardinality(Below(q))
      BY <1>1, <1>3, <2>1, <3>1, FS_Subset
    <3>3. Cardinality(Below(q)) < room /\ ~(Cardinality(Below(r)) < room)
      BY <1>2
    <3> HIDE DEF Below
    <3> QED BY <1>3, <2>1, <3>2, <3>3
  <2> QED BY <2>1, <2>2
<1>5. ASSUME D \ F # {}
      PROVE  Cardinality(F) = room
  <2> DEFINE r == Min(D \ F)
  <2>1. r \in D /\ r \notin F /\ \A m \in D \ F : r <= m
    <3>1. D \ F \subseteq Nat
      BY <1>2
    <3> QED BY <1>5, <3>1, MinIsLeast
  <2> HIDE DEF r
  <2>2. Below(r) = F
    <3>1. ASSUME NEW q \in D, q < r
          PROVE  q \in F
      <4>1. q \in Nat /\ r \in Nat
        BY <1>2, <2>1
      <4> QED BY <2>1, <3>1, <4>1
    <3>2. \A q \in F : q < r /\ q \in D
      BY <1>2, <1>4, <2>1
    <3> QED BY <3>1, <3>2
  <2>3. Cardinality(F) \in Nat /\ Cardinality(F) >= room
    <3>1. ~(Cardinality(Below(r)) < room) /\ Cardinality(Below(r)) \in Nat
      BY <1>2, <1>3, <2>1
    <3> HIDE DEF Below
    <3> QED BY <2>2, <3>1
  <2>4. CASE F = {}
    BY <2>3, <2>4, FS_EmptySet
  <2>5. CASE F # {}
    <3> DEFINE m == Max(F)
    <3>1. m \in F /\ \A q \in F : q <= m
      BY <1>2, <2>5, MaxIsGreatest
    <3> HIDE DEF m
    <3>2. Below(m) = F \ {m}
      <4>1. m \in D /\ \A q \in D : q \in Nat
        BY <1>2, <3>1
      <4>2. ASSUME NEW q \in D, q < m
            PROVE  q \in F /\ q # m
        BY <1>4, <3>1, <4>1, <4>2
      <4>3. \A q \in F \ {m} : q \in D /\ q < m
        BY <1>2, <3>1, <4>1
      <4> QED BY <4>2, <4>3
    <3>3. Cardinality(F \ {m}) = Cardinality(F) - 1
      BY <1>1, <1>2, <3>1, FS_RemoveElement
    <3>4. Cardinality(F \ {m}) < room
      BY <1>2, <3>1, <3>2
    <3> QED BY <2>3, <3>3, <3>4
  <2> QED BY <2>4, <2>5
<1> QED BY <1>2, <1>4, <1>5 DEF F


-----------------------------------------------------------------------------
(* Bursts                                                                  *)

\* What a session is made of.
LEMMA SessionParts ==
  ASSUME NEW s \in Session
  PROVE  /\ s.state \in GbState /\ s.source \in Sources \cup {NoSource}
         /\ s.max_seq \in Nat /\ s.max_seq <= MaxSeq
         /\ s.cur_seq \in Nat /\ s.cur_seq <= MaxSeq + 1
         /\ s.mask \subseteq 0..MaxSeq /\ s.buffer \in Read
         /\ s.timeout \in Nat /\ s.timeout <= GB_TIMEOUT
         /\ s.age \in Nat /\ s.age <= GB_TIMEOUT + 1
BY GetSizesAssumption, GetTimesAssumption DEF Session

\* The position after a burst divides the blocks that were due into those sent and
\* those left; the position is past the last block when none is left.
LEMMA BurstSplits ==
  ASSUME NEW s \in Session, NEW room \in 0..GB_BURST_SIZE
  PROVE  /\ Burst(s, room) \subseteq Due(s)
         /\ NextSeq(s, room) \in 0..(s.max_seq + 1)
         /\ \A q \in Due(s) : q \in Burst(s, room) <=> q < NextSeq(s, room)
         /\ s.cur_seq <= s.max_seq => s.cur_seq <= NextSeq(s, room)
         /\ room = GB_BURST_SIZE /\ NextSeq(s, room) <= s.max_seq =>
              Cardinality(Burst(s, room)) = GB_BURST_SIZE
<1> DEFINE D == Due(s)
           F == Burst(s, room)
           left == D \ F
           n == NextSeq(s, room)
<1>1. /\ s.max_seq \in Nat /\ s.cur_seq \in Nat /\ room \in Nat /\ GB_BURST_SIZE \in Nat
      /\ GB_BURST_SIZE > 0 /\ room <= GB_BURST_SIZE
  BY SessionParts, GetSizesAssumption
<1>2. D \subseteq 0..s.max_seq /\ \A q \in D : q \in Nat /\ s.cur_seq <= q /\ q <= s.max_seq
  BY SessionParts, GetSizesAssumption DEF Due
<1>3. F = FirstOf(D, room)
  BY DEF Burst
<1>4. /\ F \subseteq D /\ \A q \in F, r \in left : q < r
      /\ left # {} => Cardinality(F) = room
  BY <1>1, <1>2, <1>3, FirstOfSplits
<1>5. n = IF room < GB_BURST_SIZE /\ left # {} THEN Min(left)
          ELSE IF Cardinality(F) = GB_BURST_SIZE THEN Max(F) + 1
          ELSE s.max_seq + 1
  BY DEF NextSeq
<1> HIDE DEF D, F, left, n
<1>6. left = D \ F
  BY DEF left
<1>7. CASE room < GB_BURST_SIZE /\ left # {}
  <2>1. left \subseteq Nat
    BY <1>2, <1>6
  <2>2. n \in left /\ \A q \in left : n <= q
    BY <1>5, <1>7, <2>1, MinIsLeast
  <2>3. \A q \in D : q \in F <=> q < n
    <3>1. ASSUME NEW q \in D \ F PROVE ~(q < n)
      <4>1. n <= q /\ n \in Nat /\ q \in Nat
        BY <1>2, <1>6, <2>1, <2>2
      <4> QED BY <4>1
    <3>2. \A q \in F : q < n
      BY <1>4, <2>2
    <3> QED BY <3>1, <3>2
  <2> QED BY <1>1, <1>2, <1>4, <1>6, <1>7, <2>2, <2>3 DEF D, F, n
<1>8. CASE ~(room < GB_BURST_SIZE /\ left # {}) /\ Cardinality(F) = GB_BURST_SIZE
  <2>1. F # {}
    BY <1>1, <1>8, FS_EmptySet
  <2>2. F \subseteq 0..s.max_seq
    BY <1>2, <1>4
  <2>3. Max(F) \in F /\ \A q \in F : q <= Max(F)
    BY <1>1, <2>1, <2>2, MaxIsGreatest
  <2>4. n = Max(F) + 1 /\ Max(F) \in Nat /\ Max(F) <= s.max_seq /\ s.cur_seq <= Max(F)
    BY <1>2, <1>4, <1>5, <1>8, <2>3
  <2>5. \A q \in D : q \in F <=> q < n
    <3>1. ASSUME NEW q \in D \ F PROVE ~(q < n)
      <4>1. Max(F) < q /\ q \in Nat
        BY <1>2, <1>4, <1>6, <2>3
      <4> QED BY <2>4, <4>1
    <3>2. ASSUME NEW q \in F PROVE q < n
      <4>1. q <= Max(F) /\ q \in Nat
        BY <1>2, <1>4, <2>3
      <4> QED BY <2>4, <4>1
    <3> QED BY <3>1, <3>2
  <2> QED BY <1>1, <1>4, <1>8, <2>4, <2>5 DEF D, F, n
<1>9. CASE ~(room < GB_BURST_SIZE /\ left # {}) /\ Cardinality(F) # GB_BURST_SIZE
  <2>1. n = s.max_seq + 1 /\ left = {}
    BY <1>1, <1>4, <1>5, <1>9
  <2>2. \A q \in D : q \in F /\ q < n
    BY <1>1, <1>2, <1>6, <2>1
  <2> QED BY <1>1, <1>4, <2>1, <2>2 DEF D, F, n
<1> QED BY <1>7, <1>8, <1>9

\* A full burst moves the position by at least its size.
LEMMA FullBurst ==
  ASSUME NEW s \in Session, NextSeq(s, GB_BURST_SIZE) <= s.max_seq, s.cur_seq <= s.max_seq
  PROVE  s.cur_seq + GB_BURST_SIZE <= NextSeq(s, GB_BURST_SIZE)
<1> DEFINE n == NextSeq(s, GB_BURST_SIZE)
           F == Burst(s, GB_BURST_SIZE)
<1>1. GB_BURST_SIZE \in 0..GB_BURST_SIZE /\ GB_BURST_SIZE \in Nat
  BY GetSizesAssumption
<1>2. s.cur_seq \in Nat /\ s.max_seq \in Nat
  BY SessionParts
<1>3. /\ n \in Nat /\ s.cur_seq <= n /\ Cardinality(F) = GB_BURST_SIZE
      /\ F \subseteq Due(s) /\ \A q \in F : q < n
  BY <1>1, <1>2, BurstSplits
<1>4. \A q \in F : q \in Nat /\ s.cur_seq <= q
  BY <1>3, SessionParts, GetSizesAssumption DEF Due
<1> HIDE DEF n, F
<1>5. F \subseteq s.cur_seq..(n - 1)
  BY <1>2, <1>3, <1>4
<1>6. /\ IsFiniteSet(s.cur_seq..(n - 1))
      /\ Cardinality(s.cur_seq..(n - 1)) = n - s.cur_seq
  <2>1. CASE s.cur_seq = n
    <3>1. s.cur_seq..(n - 1) = {}
      BY <1>2, <1>3, <2>1
    <3> QED BY <1>2, <1>3, <2>1, <3>1, FS_EmptySet
  <2>2. CASE s.cur_seq < n
    <3> DEFINE low == s.cur_seq
               top == n - 1
    <3>1. top \in Int /\ low \in Int /\ ~(low > top)
      BY <1>2, <1>3, <2>2
    <3> HIDE DEF low, top
    <3>2. IsFiniteSet(low..top) /\ Cardinality(low..top) = top - low + 1
      BY <3>1, FS_Interval
    <3>3. top - low + 1 = n - s.cur_seq
      BY <1>2, <1>3 DEF low, top
    <3>4. low..top = s.cur_seq..(n - 1)
      BY DEF low, top
    <3> QED BY <3>2, <3>3, <3>4
  <2> QED BY <1>2, <1>3, <2>1, <2>2
<1>7. Cardinality(F) <= n - s.cur_seq
  BY <1>5, <1>6, FS_Subset
<1> QED BY <1>1, <1>2, <1>3, <1>7 DEF n

\* Restarting a session's timeout keeps the rest of the session.
LEMMA ResetParts ==
  ASSUME NEW s \in Session
  PROVE  LET t == ResetTimeout(s)
         IN  /\ t \in Session /\ t.state = s.state /\ t.source = s.source
             /\ t.max_seq = s.max_seq /\ t.cur_seq = s.cur_seq /\ t.mask = s.mask
             /\ t.buffer = s.buffer /\ t.age = 0
             /\ t.timeout = IF s.state = "transmitting" THEN GB_BURST_INTERVAL ELSE GB_TIMEOUT
<1> DEFINE time == IF s.state = "transmitting" THEN GB_BURST_INTERVAL ELSE GB_TIMEOUT
<1>1. time \in 0..GB_TIMEOUT /\ 0 \in 0..(GB_TIMEOUT + 1)
  BY GetTimesAssumption
<1>2. ResetTimeout(s) = [s EXCEPT !.timeout = time, !.age = 0]
  BY DEF ResetTimeout
<1>3. time = IF s.state = "transmitting" THEN GB_BURST_INTERVAL ELSE GB_TIMEOUT
  OBVIOUS
<1> HIDE DEF time
<1> QED BY <1>1, <1>2, <1>3 DEF Session

\* A burst changes the position and, when no block is left, the state.
LEMMA AfterBurstParts ==
  ASSUME NEW s \in Session, NEW room \in 0..GB_BURST_SIZE
  PROVE  LET t == AfterBurst(s, room)
         IN  /\ t \in Session /\ t.source = s.source /\ t.max_seq = s.max_seq
             /\ t.mask = s.mask /\ t.buffer = s.buffer /\ t.cur_seq = NextSeq(s, room)
             /\ t.state = IF NextSeq(s, room) > s.max_seq THEN "wait_on_start" ELSE s.state
<1> DEFINE n == NextSeq(s, room)
           state == IF n > s.max_seq THEN "wait_on_start" ELSE s.state
<1>1. n \in 0..(MaxSeq + 1)
  <2>1. n \in 0..(s.max_seq + 1)
    BY BurstSplits
  <2> HIDE DEF n
  <2> QED BY <2>1, SessionParts, GetSizesAssumption
<1>2. state \in GbState
  BY SessionParts DEF GbState
<1>3. AfterBurst(s, room) = [s EXCEPT !.cur_seq = n, !.state = state]
  BY DEF AfterBurst, Session
<1>4. state = IF n > s.max_seq THEN "wait_on_start" ELSE s.state
  OBVIOUS
<1> HIDE DEF n, state
<1>5. LET t == AfterBurst(s, room)
      IN  /\ t \in Session /\ t.source = s.source /\ t.max_seq = s.max_seq
          /\ t.mask = s.mask /\ t.buffer = s.buffer /\ t.cur_seq = n /\ t.state = state
  BY <1>1, <1>2, <1>3 DEF Session
<1> QED BY <1>4, <1>5 DEF n

\* Changing the state alone.
LEMMA IdleParts ==
  ASSUME NEW s \in Session
  PROVE  LET t == [s EXCEPT !.state = "idle"]
         IN  t \in Session /\ t.state = "idle" /\ t.source = s.source
BY DEF Session, GbState

-----------------------------------------------------------------------------
(* What a step does to one session                                         *)

\* t is s but for its timer.
Kept(s, t) ==
  /\ t.state = s.state /\ t.source = s.source /\ t.max_seq = s.max_seq
  /\ t.cur_seq = s.cur_seq /\ t.mask = s.mask /\ t.buffer = s.buffer

\* t is s after a burst, with its timer restarted.
Bursted(s, t, room) ==
  /\ t.source = s.source /\ t.max_seq = s.max_seq /\ t.mask = s.mask /\ t.buffer = s.buffer
  /\ t.cur_seq = NextSeq(s, room)
  /\ t.state = IF NextSeq(s, room) > s.max_seq THEN "wait_on_start" ELSE "transmitting"
  /\ t.timeout = IF NextSeq(s, room) > s.max_seq THEN GB_TIMEOUT ELSE GB_BURST_INTERVAL
  /\ t.age = 0

\* t is s after its time was up.
Expired(s, t, room) ==
  IF s.state = "transmitting" THEN Bursted(s, t, room) ELSE t.state = "idle"

LEMMA BurstedReset ==
  ASSUME NEW s \in Session, NEW room \in 0..GB_BURST_SIZE, s.state = "transmitting"
  PROVE  /\ ResetTimeout(AfterBurst(s, room)) \in Session
         /\ Bursted(s, ResetTimeout(AfterBurst(s, room)), room)
<1> DEFINE r == AfterBurst(s, room)
           t == ResetTimeout(r)
<1>1. /\ r \in Session /\ r.source = s.source /\ r.max_seq = s.max_seq
      /\ r.mask = s.mask /\ r.buffer = s.buffer /\ r.cur_seq = NextSeq(s, room)
      /\ r.state = IF NextSeq(s, room) > s.max_seq THEN "wait_on_start" ELSE "transmitting"
  BY AfterBurstParts
<1> HIDE DEF r
<1>2. /\ t \in Session /\ t.state = r.state /\ t.source = r.source
      /\ t.max_seq = r.max_seq /\ t.cur_seq = r.cur_seq /\ t.mask = r.mask
      /\ t.buffer = r.buffer /\ t.age = 0
      /\ t.timeout = IF r.state = "transmitting" THEN GB_BURST_INTERVAL ELSE GB_TIMEOUT
  BY <1>1, ResetParts
<1> HIDE DEF t
<1>3. t.timeout = IF NextSeq(s, room) > s.max_seq THEN GB_TIMEOUT ELSE GB_BURST_INTERVAL
  BY <1>1, <1>2
<1>4. t \in Session /\ Bursted(s, t, room)
  BY <1>1, <1>2, <1>3 DEF Bursted
<1> QED BY <1>4 DEF r, t

LEMMA TimedOutParts ==
  ASSUME NEW s \in Session, NEW room, s.state = "transmitting" => room \in 0..GB_BURST_SIZE
  PROVE  /\ TimedOut(s, room) \in Session /\ TimedOut(s, room).source = s.source
         /\ Expired(s, TimedOut(s, room), room)
<1>1. CASE s.state = "transmitting"
  <2>1. TimedOut(s, room) = ResetTimeout(AfterBurst(s, room))
    BY <1>1 DEF TimedOut
  <2>2. TimedOut(s, room) \in Session /\ Bursted(s, TimedOut(s, room), room)
    BY <1>1, <2>1, BurstedReset
  <2> QED BY <1>1, <2>2 DEF Expired, Bursted
<1>2. CASE s.state # "transmitting"
  BY <1>2, IdleParts DEF TimedOut, Expired
<1> QED BY <1>1, <1>2

\* The timeout of a session has no part in its bursts.
LEMMA BurstNotTimed ==
  ASSUME NEW s, NEW t, Kept(s, t), NEW room
  PROVE  Due(t) = Due(s) /\ Burst(t, room) = Burst(s, room) /\ NextSeq(t, room) = NextSeq(s, room)
<1>1. Due(t) = Due(s)
  BY DEF Kept, Due
<1>2. Burst(t, room) = Burst(s, room)
  BY <1>1 DEF Burst
<1>3. t.max_seq = s.max_seq
  BY DEF Kept
<1> QED BY <1>1, <1>2, <1>3 DEF NextSeq

LEMMA CheckedParts ==
  ASSUME NEW s \in Session, NEW room, s.state = "transmitting" => room \in 0..GB_BURST_SIZE
  PROVE  LET t == Checked(s, room)
         IN  /\ t \in Session /\ t.source = s.source
             /\ s.state = "idle" => t = s
             /\ TimeIsUp(s) => Expired(s, t, room)
             /\ ~TimeIsUp(s) => Kept(s, t)
             /\ ~TimeIsUp(s) /\ s.state # "idle" =>
                  s.age < s.timeout /\ t.timeout = s.timeout - s.age /\ t.age = 0
<1>1. CASE s.state = "idle"
  BY <1>1 DEF Checked, Kept, TimeIsUp
<1>2. CASE s.state # "idle" /\ ~TimeIsUp(s)
  <2> DEFINE left == s.timeout - s.age
  <2>1. s.age < s.timeout /\ left \in 0..GB_TIMEOUT /\ 0 \in 0..(GB_TIMEOUT + 1)
    BY <1>2, SessionParts, GetTimesAssumption DEF TimeIsUp
  <2>2. Checked(s, room) = [s EXCEPT !.timeout = left, !.age = 0]
    BY <1>2 DEF Checked
  <2>3. left = s.timeout - s.age
    OBVIOUS
  <2> HIDE DEF left
  <2>4. LET t == Checked(s, room)
        IN  t \in Session /\ Kept(s, t) /\ t.timeout = left /\ t.age = 0
    BY <2>1, <2>2 DEF Session, Kept
  <2>5. Checked(s, room).source = s.source
    BY <2>4 DEF Kept
  <2> QED BY <1>2, <2>1, <2>3, <2>4, <2>5
<1>3. CASE TimeIsUp(s)
  <2> DEFINE r == [s EXCEPT !.timeout = 0]
             t == TimedOut(r, room)
  <2>1. r \in Session /\ Kept(s, r)
    BY GetTimesAssumption DEF Session, Kept
  <2>2. Checked(s, room) = t /\ s.state # "idle"
    BY <1>3 DEF Checked, TimeIsUp
  <2> HIDE DEF r
  <2>3. t \in Session /\ t.source = r.source /\ Expired(r, t, room)
    BY <2>1, TimedOutParts DEF Kept
  <2>4. NextSeq(r, room) = NextSeq(s, room)
    BY <2>1, BurstNotTimed
  <2> HIDE DEF t
  <2>5. t.source = s.source /\ Expired(s, t, room)
    BY <2>1, <2>3, <2>4 DEF Kept, Expired, Bursted
  <2> QED BY <1>3, <2>2, <2>3, <2>5
<1> QED BY <1>1, <1>2, <1>3

-----------------------------------------------------------------------------
(* What a frame does                                                       *)

\* Slot i holds t from now on, as after every valid packet.
Takes(i, t) ==
  /\ t \in Session /\ t.age = 0
  /\ sessions' = [sessions EXCEPT ![i] = t]
  /\ silent' = [silent EXCEPT ![i] = 0]
  /\ ToScan

\* The frame was refused.
Refused(src) ==
  /\ sent' = Nack(src)
  /\ UNCHANGED <<sessions, memory, history>>
  /\ ToScan \/ (Continue /\ pc = "recv" /\ (orderly => \A i \in Slots : ~Active(i)))

\* A free slot was taken for a node without a session.
Opening(src, i, t, last, address) ==
  /\ ~HasSession(src) /\ ~Active(i)
  /\ InMemory(address, (last + 1) * BlockLen)
  /\ t.source = src /\ t.max_seq = last /\ t.state = "wait_on_start"
  /\ t.buffer = [version |-> memory, address |-> address]
  /\ t.timeout = GB_TIMEOUT
  /\ Takes(i, t)
  /\ marked' = [marked EXCEPT ![i] = {}]
  /\ copies' = [copies EXCEPT ![i] = [q \in 0..MaxSeq |-> 0]]
  /\ sent' = Ack(src)
  /\ UNCHANGED <<memory, quiet>>

\* The session of a node was aborted.
Closing(src, i, t) ==
  /\ Matches(i, src)
  /\ t.source = src /\ t.state = "idle"
  /\ Takes(i, t)
  /\ sent' = Ack(src)
  /\ UNCHANGED <<memory, quiet, marked, copies>>

\* A start frame marked blocks, which s has still to send; t is s after the first
\* burst of them.
Starting(src, i, s, t, blocks, room) ==
  /\ Matches(i, src)
  /\ s.source = src /\ s.max_seq = sessions[i].max_seq /\ s.buffer = sessions[i].buffer
  /\ s.state = "transmitting" /\ s.cur_seq = 0 /\ s.mask \cap 0..s.max_seq = blocks
  /\ Bursted(s, t, room)
  /\ Takes(i, t)
  /\ sent' = Transfers(s, room)
  /\ quiet' = [quiet EXCEPT ![i] = 0]
  /\ marked' = [marked EXCEPT ![i] = blocks]
  /\ copies' = [copies EXCEPT ![i] = Counted([q \in 0..MaxSeq |-> 0], Burst(s, room))]
  /\ UNCHANGED memory

\* Every slot holds a session.
LEMMA SlotType ==
  ASSUME TypeOK, NEW i \in Slots
  PROVE  sessions[i] \in Session
BY DEF TypeOK

\* A mask of at least as many bytes as the blocks need has a bit for each block.
LEMMA MaskCovers ==
  ASSUME NEW length \in Nat, NEW bytes \in Nat \ {0}, NEW count \in Nat,
         length >= (count + bytes - 1) \div bytes
  PROVE  count <= length * bytes
BY Z3

\* A mask has no bits but those of blocks.
LEMMA MaskFits ==
  ASSUME NEW length \in 0..MaxLength
  PROVE  length * BYTE \in Nat /\ length * BYTE <= MaxSeq + 1
<1>1. \A m, n, k \in Nat : m <= n => m * k \in Nat /\ m * k <= n * k
  BY Z3
<1>2. length \in Nat /\ length <= MaskBytes /\ MaskBytes \in Nat /\ BYTE \in Nat
  BY GetSizesAssumption
<1>3. length * BYTE \in Nat /\ length * BYTE <= MaskBytes * BYTE
  BY <1>1, <1>2
<1>4. MaskBytes * BYTE = MaxSeq + 1
  BY <1>2, GetSizesAssumption
<1> QED BY <1>3, <1>4

\* What a start frame makes of a session.
LEMMA StartedParts ==
  ASSUME NEW s \in Session, NEW length \in 0..MaxLength,
         NEW bits \in SUBSET (0..(length * BYTE - 1)), s.max_seq < length * BYTE
  PROVE  LET t == Started(s, bits, length)
         IN  /\ t \in Session /\ t.source = s.source /\ t.max_seq = s.max_seq
             /\ t.buffer = s.buffer /\ t.state = "transmitting" /\ t.cur_seq = 0
             /\ t.mask \cap 0..s.max_seq = bits \cap 0..s.max_seq
             /\ bits \subseteq 0..MaxSeq
<1> DEFINE mask == bits \cup {b \in s.mask : b >= length * BYTE}
<1>1. bits \subseteq 0..MaxSeq
  <2> DEFINE size == length * BYTE
  <2>1. size \in Nat /\ size <= MaxSeq + 1 /\ bits \subseteq 0..(size - 1)
    BY MaskFits
  <2> HIDE DEF size
  <2> QED BY <2>1, GetSizesAssumption
<1>2. mask \subseteq 0..MaxSeq
  BY <1>1, SessionParts
<1>3. mask \cap 0..s.max_seq = bits \cap 0..s.max_seq
  <2> DEFINE size == length * BYTE
  <2>1. /\ size \in Nat /\ s.max_seq < size /\ s.max_seq \in Nat
        /\ mask = bits \cup {b \in s.mask : b >= size}
    BY MaskFits, SessionParts
  <2>2. \A b \in s.mask : b \in Nat
    BY SessionParts, GetSizesAssumption
  <2> HIDE DEF size, mask
  <2> QED BY <2>1, <2>2
<1>4. Started(s, bits, length) = [s EXCEPT !.mask = mask, !.cur_seq = 0, !.state = "transmitting"]
  BY DEF Started, Session
<1>5. 0 \in 0..(MaxSeq + 1) /\ "transmitting" \in GbState
  BY GetSizesAssumption DEF GbState
<1> HIDE DEF mask
<1> QED BY <1>1, <1>2, <1>3, <1>4, <1>5 DEF Session

\* A frame is refused, or it opens, closes or starts a transfer.
LEMMA FrameShape ==
  ASSUME TypeOK, FrameIn
  PROVE  \E src \in Sources :
           \/ Refused(src)
           \/ \E i \in Slots, t \in Session, last \in 0..MaxSeq, address \in Addresses :
                Opening(src, i, t, last, address)
           \/ \E i \in Slots, t \in Session : Closing(src, i, t)
           \/ \E i \in Slots, s \in Session, t \in Session, blocks \in SUBSET (0..MaxSeq),
                 room \in Rooms :
                Starting(src, i, s, t, blocks, room)
<1>1. ASSUME NEW src \in Sources, NEW isRequest \in BOOLEAN, Mismatch(src, isRequest)
      PROVE  Refused(src)
  BY <1>1 DEF Mismatch, Refused
<1>2. ASSUME NEW src \in Sources, Refuse(src)
      PROVE  Refused(src)
  BY <1>2 DEF Refuse, Refused
<1>3. ASSUME NEW src \in Sources, NEW seq \in 0..MaxSeq, NEW length, NEW address \in Addresses,
             Request(src, seq, length, address)
      PROVE  \/ Refused(src)
             \/ \E i \in Slots, t \in Session : Opening(src, i, t, seq, address)
  <2>1. CASE RefuseRequest(src, seq, length, address)
    BY <1>2, <2>1 DEF RefuseRequest
  <2>2. CASE AcceptRequest(src, seq, length, address)
    <3> DEFINE read == [version |-> memory, address |-> address]
    <3>1. PICK i \in Slots :
            /\ IsNewSlot(i)
            /\ Valid(i, [sessions[i] EXCEPT !.buffer = read, !.source = src,
                           !.max_seq = seq, !.state = "wait_on_start"])
            /\ marked' = [marked EXCEPT ![i] = {}]
            /\ copies' = [copies EXCEPT ![i] = [q \in 0..MaxSeq |-> 0]]
      BY <2>2 DEF AcceptRequest
    <3> DEFINE s == [sessions[i] EXCEPT !.buffer = read, !.source = src,
                       !.max_seq = seq, !.state = "wait_on_start"]
               t == ResetTimeout(s)
    <3>2. read \in Read
      BY GetSizesAssumption DEF TypeOK, Read
    <3>3. s \in Session /\ s.source = src /\ s.max_seq = seq /\ s.buffer = read
          /\ s.state = "wait_on_start"
      <4> DEFINE u == [sessions[i] EXCEPT !.buffer = read, !.source = src, !.max_seq = seq]
      <4> HIDE DEF read
      <4>1. sessions[i] \in Session
        BY SlotType
      <4>2. u \in Session /\ u.source = src /\ u.max_seq = seq /\ u.buffer = read
        BY <3>2, <4>1 DEF Session
      <4>3. s = [u EXCEPT !.state = "wait_on_start"]
        BY <4>1 DEF Session
      <4> HIDE DEF u, s
      <4> QED BY <4>2, <4>3 DEF Session, GbState
    <3>4. Valid(i, s)
      BY <3>1
    <3> HIDE DEF s
    <3>5. /\ t \in Session /\ t.age = 0 /\ t.timeout = GB_TIMEOUT /\ t.source = src
          /\ t.max_seq = seq /\ t.buffer = read /\ t.state = "wait_on_start"
      BY <3>3, ResetParts
    <3>6. Takes(i, t)
      BY <3>4, <3>5 DEF Valid, Takes
    <3> HIDE DEF t
    <3>7. Opening(src, i, t, seq, address)
      BY <1>3, <2>2, <3>1, <3>5, <3>6
         DEF Opening, Request, AcceptRequest, RequestOK, IsNewSlot
    <3> QED BY <3>5, <3>7
  <2> QED BY <1>3, <2>1, <2>2 DEF Request
<1>4. ASSUME NEW src \in Sources, NEW length, Abort(src, length)
      PROVE  Refused(src) \/ \E i \in Slots, t \in Session : Closing(src, i, t)
  <2>1. PICK i \in Slots :
          /\ IsSessionOf(i, src)
          /\ IF length = 0
             THEN /\ Valid(i, [sessions[i] EXCEPT !.state = "idle"])
                  /\ sent' = Ack(src)
                  /\ UNCHANGED <<memory, quiet, marked, copies>>
             ELSE Refuse(src)
    BY <1>4 DEF Abort
  <2>2. CASE length # 0
    BY <1>2, <2>1, <2>2
  <2>3. CASE length = 0
    <3> DEFINE s == [sessions[i] EXCEPT !.state = "idle"]
               t == ResetTimeout(s)
    <3>1. Matches(i, src) /\ sessions[i].source = src
      BY <2>1 DEF IsSessionOf, Matches
    <3>2. s \in Session /\ s.state = "idle" /\ s.source = src
      BY <3>1, SlotType, IdleParts
    <3>3. Valid(i, s)
      BY <2>1, <2>3
    <3> HIDE DEF s
    <3>4. t \in Session /\ t.state = "idle" /\ t.source = src /\ t.age = 0
      BY <3>2, ResetParts
    <3>5. Takes(i, t)
      BY <3>3, <3>4 DEF Valid, Takes
    <3> HIDE DEF t
    <3> QED BY <2>1, <2>3, <3>1, <3>4, <3>5 DEF Closing
  <2> QED BY <2>2, <2>3
<1>5. ASSUME NEW src \in Sources, NEW length \in 0..MaxLength,
             NEW bits \in SUBSET (0..(length * BYTE - 1)), NEW stale, NEW room \in Rooms,
             Start(src, bits, length, stale, room)
      PROVE  \/ Refused(src)
             \/ \E i \in Slots, s \in Session, t \in Session, blocks \in SUBSET (0..MaxSeq) :
                  Starting(src, i, s, t, blocks, room)
  <2>1. PICK i \in Slots :
          /\ IsSessionOf(i, src)
          /\ IF block_validate_mask(bits, length, stale, sessions[i].max_seq + 1)
             THEN LET s == Started(sessions[i], bits, length)
                  IN  /\ Valid(i, AfterBurst(s, room))
                      /\ sent' = Transfers(s, room)
                      /\ quiet' = [quiet EXCEPT ![i] = 0]
                      /\ marked' = [marked EXCEPT ![i] = bits \cap 0..s.max_seq]
                      /\ copies' = [copies EXCEPT ![i] =
                           Counted([q \in 0..MaxSeq |-> 0], Burst(s, room))]
                      /\ UNCHANGED memory
             ELSE Refuse(src)
    BY <1>5, Zenon DEF Start
  <2>2. CASE ~block_validate_mask(bits, length, stale, sessions[i].max_seq + 1)
    BY <1>2, <2>1, <2>2
  <2>3. CASE block_validate_mask(bits, length, stale, sessions[i].max_seq + 1)
    <3> DEFINE old == sessions[i]
               s == Started(old, bits, length)
               t == ResetTimeout(AfterBurst(s, room))
               blocks == bits \cap 0..s.max_seq
    <3>1. old \in Session /\ Matches(i, src) /\ old.source = src /\ old.max_seq \in Nat
      BY <2>1, SlotType, SessionParts DEF IsSessionOf, Matches
    <3>2. /\ Valid(i, AfterBurst(s, room))
          /\ sent' = Transfers(s, room)
          /\ quiet' = [quiet EXCEPT ![i] = 0]
          /\ marked' = [marked EXCEPT ![i] = blocks]
          /\ copies' = [copies EXCEPT ![i] = Counted([q \in 0..MaxSeq |-> 0], Burst(s, room))]
          /\ UNCHANGED memory
      BY <2>1, <2>3
    <3> HIDE DEF old
    <3>3. old.max_seq < length * BYTE
      <4>1. length >= ((old.max_seq + 1) + BYTE - 1) \div BYTE
        BY <2>3 DEF block_validate_mask, BytesFor, old
      <4>2. old.max_seq + 1 <= length * BYTE
        BY <3>1, <4>1, MaskCovers, GetSizesAssumption
      <4> DEFINE size == length * BYTE
      <4>3. size \in Nat
        BY MaskFits
      <4> HIDE DEF size
      <4>4. old.max_seq + 1 <= size
        BY <4>2 DEF size
      <4>5. old.max_seq < size
        BY <3>1, <4>3, <4>4
      <4> QED BY <4>5 DEF size
    <3>4. /\ s \in Session /\ s.source = old.source /\ s.max_seq = old.max_seq
          /\ s.buffer = old.buffer /\ s.state = "transmitting" /\ s.cur_seq = 0
          /\ s.mask \cap 0..old.max_seq = bits \cap 0..old.max_seq
          /\ bits \subseteq 0..MaxSeq
      BY <3>1, <3>3, StartedParts
    <3>5. room \in 0..GB_BURST_SIZE
      BY GetSizesAssumption DEF Rooms
    <3> HIDE DEF s
    <3>6. t \in Session /\ Bursted(s, t, room)
      BY <3>4, <3>5, BurstedReset
    <3>7. t.age = 0
      BY <3>6 DEF Bursted
    <3>8. Takes(i, t)
      BY <3>2, <3>6, <3>7 DEF Valid, Takes
    <3>9. blocks \in SUBSET (0..MaxSeq) /\ s.mask \cap 0..s.max_seq = blocks
      BY <3>4
    <3> HIDE DEF t, blocks
    <3>10. Starting(src, i, s, t, blocks, room)
      BY <3>1, <3>2, <3>4, <3>6, <3>8, <3>9 DEF Starting, old
    <3> QED BY <3>4, <3>6, <3>9, <3>10
  <2> QED BY <2>2, <2>3
<1>6. ASSUME NEW src \in Sources, OtherFrame(src)
      PROVE  Refused(src)
  BY <1>2, <1>6 DEF OtherFrame
<1>7. 0..MaxLast \subseteq 0..MaxSeq
  BY GetSizesAssumption
<1>8. PICK src \in Sources :
        \/ \E isRequest \in BOOLEAN : Mismatch(src, isRequest)
        \/ \E seq \in 0..MaxSeq, length \in 0..BlockLen, address \in Addresses :
             Request(src, seq, length, address)
        \/ \E length \in {0, 1} : Abort(src, length)
        \/ \E length \in 0..MaskBytes :
             /\ length \in 0..MaxLength
             /\ \E bits \in SUBSET (0..(length * BYTE - 1)), stale \in BOOLEAN, room \in Rooms :
                  Start(src, bits, length, stale, room)
        \/ OtherFrame(src)
  <2>1. 0..MaxLength \subseteq 0..MaskBytes
    BY GetSizesAssumption
  <2> QED BY <1>7, <2>1, Zenon DEF FrameIn
<1> QED BY <1>1, <1>3, <1>4, <1>5, <1>6, <1>8, Zenon

-----------------------------------------------------------------------------
(* What the timers do                                                      *)

\* What a step of the timers does to each session: those in `expired' have run
\* out of time, the others only have their timers moved.
Timed(expired, room) ==
  /\ HandleTimeouts(expired, room)
  /\ \A i \in Slots :
       /\ sessions'[i] \in Session /\ sessions'[i].source = sessions[i].source
       /\ i \in expired => Expired(sessions[i], sessions'[i], room[i])
       /\ i \notin expired => Kept(sessions[i], sessions'[i])
  /\ sessions' \in [Slots -> Session]
  /\ UNCHANGED <<memory, silent, marked>>

LEMMA RoomType ==
  ASSUME NEW room \in [Transmitting -> Rooms], NEW i \in Slots,
         sessions[i].state = "transmitting"
  PROVE  room[i] \in 0..GB_BURST_SIZE
<1>1. Rooms \subseteq 0..GB_BURST_SIZE
  BY GetSizesAssumption DEF Rooms
<1>2. i \in Transmitting
  BY DEF Transmitting
<1> QED BY <1>1, <1>2

LEMMA ReceiveTimeoutShape ==
  ASSUME TypeOK, NEW room \in [Transmitting -> Rooms], ReceiveTimeout(room)
  PROVE  Timed({tindex} \ {NoSlot}, room) /\ {tindex} \ {NoSlot} \subseteq Slots
<1>1. \A s : Kept(s, s)
  BY DEF Kept
<1>2. CASE tindex = NoSlot
  <2>1. sessions' = sessions /\ HandleTimeouts({tindex} \ {NoSlot}, room)
        /\ UNCHANGED <<memory, silent, marked>>
    BY <1>2 DEF ReceiveTimeout
  <2> QED BY <1>1, <1>2, <2>1 DEF Timed, TypeOK
<1>3. CASE tindex # NoSlot
  <2> DEFINE k == tindex
             t == TimedOut(sessions[k], room[k])
  <2>1. k \in Slots /\ {tindex} \ {NoSlot} = {k} /\ sessions[k] \in Session
    BY <1>3 DEF TypeOK
  <2>2. sessions' = [sessions EXCEPT ![k] = t] /\ HandleTimeouts({k}, room)
        /\ UNCHANGED <<memory, silent, marked>>
    BY <1>3, <2>1 DEF ReceiveTimeout
  <2>3. t \in Session /\ t.source = sessions[k].source /\ Expired(sessions[k], t, room[k])
    BY <2>1, RoomType, TimedOutParts
  <2> HIDE DEF k, t
  <2>4. sessions'[k] = t /\ \A i \in Slots \ {k} : sessions'[i] = sessions[i]
    BY <2>1, <2>2 DEF TypeOK
  <2>5. sessions' \in [Slots -> Session]
    BY <2>2, <2>3 DEF TypeOK
  <2> QED BY <1>1, <2>1, <2>2, <2>3, <2>4, <2>5, SlotType DEF Timed
<1> QED BY <1>2, <1>3

LEMMA ScanShape ==
  ASSUME TypeOK, NEW room \in [Transmitting -> Rooms], Scan(room)
  PROVE  Timed({i \in Slots : TimeIsUp(sessions[i])}, room)
<1>1. sessions' = [i \in Slots |-> Checked(sessions[i], room[i])]
  BY DEF Scan
<1>2. ASSUME NEW i \in Slots
      PROVE  /\ sessions'[i] \in Session /\ sessions'[i].source = sessions[i].source
             /\ TimeIsUp(sessions[i]) => Expired(sessions[i], sessions'[i], room[i])
             /\ ~TimeIsUp(sessions[i]) => Kept(sessions[i], sessions'[i])
  <2>1. sessions'[i] = Checked(sessions[i], room[i]) /\ sessions[i] \in Session
    BY <1>1, SlotType
  <2> QED BY <2>1, RoomType, CheckedParts
<1>3. sessions' \in [Slots -> Session]
  BY <1>1, <1>2
<1> QED BY <1>2, <1>3 DEF Timed, Scan

\* A step of the timers times some slots out.
LEMMA TimerShape ==
  ASSUME TypeOK, Timer
  PROVE  \E expired \in SUBSET Slots, room \in [Transmitting -> Rooms] : Timed(expired, room)
<1>1. PICK room \in [Transmitting -> Rooms] : ReceiveTimeout(room) \/ Scan(room)
  BY DEF Timer
<1>2. {i \in Slots : TimeIsUp(sessions[i])} \subseteq Slots
  OBVIOUS
<1> QED BY <1>1, <1>2, ReceiveTimeoutShape, ScanShape

-----------------------------------------------------------------------------
(* Types                                                                   *)

\* What TypeOK needs to be inductive: frames go to nodes.
Owned == \A i \in Slots : Active(i) => sessions[i].source \in Sources

Typed == TypeOK /\ Owned

\* The frames of a burst are frames.
LEMMA TransfersType ==
  ASSUME NEW s \in Session, NEW room \in 0..GB_BURST_SIZE, s.source \in Sources
  PROVE  Transfers(s, room) \in SUBSET Frame
<1>1. ASSUME NEW q \in Burst(s, room)
      PROVE  [to |-> s.source, kind |-> "transfer", seq |-> q, data |-> s.buffer] \in Frame
  <2>1. q \in 0..MaxSeq /\ s.buffer \in Read
    BY <1>1, BurstSplits, SessionParts DEF Due
  <2> QED BY <2>1 DEF Frame
<1> QED BY <1>1 DEF Transfers

LEMMA CountedType ==
  ASSUME NEW count \in [0..MaxSeq -> 0..2], NEW blocks
  PROVE  Counted(count, blocks) \in [0..MaxSeq -> 0..2]
BY DEF Counted, Bump

\* A slot that takes a session keeps the types of sessions.
LEMMA TakesType ==
  ASSUME TypeOK, NEW i \in Slots, NEW t \in Session, Takes(i, t)
  PROVE  /\ sessions' \in [Slots -> Session]
         /\ silent' \in [Slots -> 0..MaxSilence]
         /\ pc' = "scan" /\ UNCHANGED <<wait, tindex, waited>>
         /\ sessions'[i] = t /\ silent'[i] = 0
         /\ \A j \in Slots \ {i} : sessions'[j] = sessions[j] /\ silent'[j] = silent[j]
BY GetTimesAssumption DEF TypeOK, Takes, ToScan

\* Frames keep the types.
LEMMA FrameType ==
  ASSUME Typed, FrameIn, UNCHANGED orderly
  PROVE  Typed'
<1>1. ASSUME NEW src \in Sources, Refused(src)
      PROVE  Typed'
  <2>1. sent' \in SUBSET Frame
    BY <1>1 DEF Refused, Nack, Frame
  <2>2. pc' \in {"recv", "scan"} /\ waited' \in 0..MAX_DELAY /\ UNCHANGED <<wait, tindex>>
    BY <1>1, GetTimesAssumption DEF Refused, ToScan, Continue, Typed, TypeOK
  <2> QED BY <1>1, <2>1, <2>2 DEF Refused, history, Typed, TypeOK, Owned, Active
<1>2. ASSUME NEW i \in Slots, NEW t \in Session, Takes(i, t), t.source \in Sources
      PROVE  Owned'
  BY <1>2, TakesType DEF Typed, Owned, Active
<1>3. ASSUME NEW src \in Sources, NEW i \in Slots, NEW t \in Session, NEW last, NEW address,
             Opening(src, i, t, last, address)
      PROVE  Typed'
  <2>1. sent' \in SUBSET Frame
    BY <1>3 DEF Opening, Ack, Frame
  <2>2. [q \in 0..MaxSeq |-> 0] \in [0..MaxSeq -> 0..2]
    OBVIOUS
  <2>3. copies' \in [Slots -> [0..MaxSeq -> 0..2]] /\ marked' \in [Slots -> SUBSET (0..MaxSeq)]
    BY <1>3, <2>2 DEF Opening, Typed, TypeOK
  <2> QED BY <1>2, <1>3, <2>1, <2>3, TakesType DEF Opening, Typed, TypeOK
<1>4. ASSUME NEW src \in Sources, NEW i \in Slots, NEW t \in Session, Closing(src, i, t)
      PROVE  Typed'
  <2>1. sent' \in SUBSET Frame
    BY <1>4 DEF Closing, Ack, Frame
  <2> QED BY <1>2, <1>4, <2>1, TakesType DEF Closing, Typed, TypeOK
<1>5. ASSUME NEW src \in Sources, NEW i \in Slots, NEW s \in Session, NEW t \in Session,
             NEW blocks \in SUBSET (0..MaxSeq), NEW room \in Rooms,
             Starting(src, i, s, t, blocks, room)
      PROVE  Typed'
  <2>1. room \in 0..GB_BURST_SIZE
    BY GetSizesAssumption DEF Rooms
  <2>2. s.source \in Sources /\ t.source \in Sources
    BY <1>5 DEF Starting, Bursted
  <2>3. sent' \in SUBSET Frame
    BY <1>5, <2>1, <2>2, TransfersType DEF Starting
  <2> DEFINE counted == Counted([q \in 0..MaxSeq |-> 0], Burst(s, room))
  <2>4. counted \in [0..MaxSeq -> 0..2]
    <3>1. [q \in 0..MaxSeq |-> 0] \in [0..MaxSeq -> 0..2]
      OBVIOUS
    <3> QED BY <3>1, CountedType
  <2>5. copies' = [copies EXCEPT ![i] = counted]
    BY <1>5 DEF Starting
  <2> HIDE DEF counted
  <2>6. /\ copies' \in [Slots -> [0..MaxSeq -> 0..2]]
        /\ marked' \in [Slots -> SUBSET (0..MaxSeq)]
        /\ quiet' \in [Slots -> 0..MaxQuiet]
    <3>1. copies' \in [Slots -> [0..MaxSeq -> 0..2]]
      BY <2>4, <2>5 DEF Typed, TypeOK
    <3>2. marked' = [marked EXCEPT ![i] = blocks] /\ quiet' = [quiet EXCEPT ![i] = 0]
      BY <1>5 DEF Starting
    <3>3. quiet' \in [Slots -> 0..MaxQuiet]
      BY <3>2, GetTimesAssumption DEF Typed, TypeOK
    <3>4. marked' \in [Slots -> SUBSET (0..MaxSeq)]
      BY <3>2 DEF Typed, TypeOK
    <3> QED BY <3>1, <3>3, <3>4
  <2> QED BY <1>2, <1>5, <2>2, <2>3, <2>6, TakesType DEF Starting, Typed, TypeOK
<1>6. TypeOK
  BY DEF Typed
<1> QED BY <1>1, <1>3, <1>4, <1>5, <1>6, FrameShape

\* Expired sessions keep their nodes.
LEMMA TimedOwners ==
  ASSUME TypeOK, NEW expired, NEW room, Timed(expired, room), NEW i \in Slots, Active(i)'
  PROVE  Active(i) /\ sessions'[i].source = sessions[i].source
BY DEF Timed, Expired, Kept, Active

\* Steps of the timers keep the types.
LEMMA TimerType ==
  ASSUME Typed, Timer, UNCHANGED orderly
  PROVE  Typed'
<1>1. TypeOK
  BY DEF Typed
<1>2. PICK expired \in SUBSET Slots, room \in [Transmitting -> Rooms] : Timed(expired, room)
  BY <1>1, TimerShape
<1>3. pc' \in {"recv", "scan"} /\ wait' \in 0..MAX_DELAY /\ waited' \in 0..MAX_DELAY
      /\ tindex' \in Slots \cup {NoSlot}
  <2>1. PICK r \in [Transmitting -> Rooms] : ReceiveTimeout(r) \/ Scan(r)
    BY DEF Timer
  <2>2. CASE ReceiveTimeout(r)
    BY <1>1, <2>2 DEF ReceiveTimeout, ToScan, TypeOK
  <2>3. CASE Scan(r)
    <3>1. pc' = "recv" /\ waited' = 0
      BY <2>3 DEF Scan
    <3>2. \/ \E i \in Slots : tindex' = i /\ wait' = sessions'[i].timeout
          \/ tindex' = NoSlot /\ wait' = MAX_DELAY
      BY <2>3 DEF Scan
    <3>3. \A i \in Slots : sessions'[i].timeout \in 0..MAX_DELAY
      <4>1. \A s \in Session : s.timeout \in 0..MAX_DELAY
        BY SessionParts, GetTimesAssumption
      <4> QED BY <1>2, <4>1 DEF Timed
    <3> QED BY <3>1, <3>2, <3>3, GetTimesAssumption
  <2> QED BY <2>1, <2>2, <2>3
<1>4. Owned'
  BY <1>1, <1>2, TimedOwners DEF Typed, Owned
<1>5. sent' \in SUBSET Frame
  <2>1. \A i \in Transmitting :
          sessions[i] \in Session /\ sessions[i].source \in Sources /\ room[i] \in 0..GB_BURST_SIZE
    BY <1>1, SlotType, RoomType DEF Transmitting, Typed, Owned, Active
  <2>2. \A i \in Transmitting : Transfers(sessions[i], room[i]) \in SUBSET Frame
    BY <2>1, TransfersType
  <2>3. sent' = UNION {Transfers(sessions[i], room[i]) : i \in expired \cap Transmitting}
    BY <1>2 DEF Timed, HandleTimeouts
  <2> QED BY <2>2, <2>3
<1>6. quiet' \in [Slots -> 0..MaxQuiet]
  BY <1>1, <1>2, GetTimesAssumption DEF Timed, HandleTimeouts, TypeOK
<1>7. copies' \in [Slots -> [0..MaxSeq -> 0..2]]
  <2>1. \A i \in Slots : Counted(copies[i], Burst(sessions[i], room[i])) \in [0..MaxSeq -> 0..2]
    BY <1>1, CountedType DEF TypeOK
  <2>2. copies' = [i \in Slots |->
           IF i \in expired \cap Transmitting
           THEN Counted(copies[i], Burst(sessions[i], room[i])) ELSE copies[i]]
    BY <1>2 DEF Timed, HandleTimeouts
  <2> QED BY <1>1, <2>1, <2>2 DEF TypeOK
<1> QED BY <1>1, <1>2, <1>3, <1>4, <1>5, <1>6, <1>7 DEF Timed, Typed, TypeOK

\* A tick ages the sessions and leaves the rest of them alone.
LEMMA TickParts ==
  ASSUME TypeOK, Tick
  PROVE  /\ sessions' \in [Slots -> Session]
         /\ \A i \in Slots :
              /\ Kept(sessions[i], sessions'[i]) /\ sessions'[i].timeout = sessions[i].timeout
              /\ Active(i) => sessions'[i].age = Bump(sessions[i].age, GB_TIMEOUT + 1)
<1>1. ASSUME NEW i \in Slots
      PROVE  /\ sessions'[i] \in Session
             /\ Kept(sessions[i], sessions'[i]) /\ sessions'[i].timeout = sessions[i].timeout
             /\ Active(i) => sessions'[i].age = Bump(sessions[i].age, GB_TIMEOUT + 1)
  <2> DEFINE s == sessions[i]
             age == Bump(s.age, GB_TIMEOUT + 1)
  <2>1. s \in Session /\ age \in 0..(GB_TIMEOUT + 1)
    BY SlotType, SessionParts, GetTimesAssumption DEF Bump
  <2>2. sessions'[i] = IF Active(i) THEN [s EXCEPT !.age = age] ELSE s
    BY DEF Tick
  <2> HIDE DEF s, age
  <2>3. [s EXCEPT !.age = age] \in Session /\ Kept(s, [s EXCEPT !.age = age])
        /\ [s EXCEPT !.age = age].timeout = s.timeout /\ [s EXCEPT !.age = age].age = age
        /\ Kept(s, s)
    BY <2>1 DEF Session, Kept
  <2>4. CASE Active(i)
    BY <2>1, <2>2, <2>3, <2>4 DEF s, age
  <2>5. CASE ~Active(i)
    BY <2>1, <2>2, <2>3, <2>5 DEF s, age
  <2> QED BY <2>4, <2>5
<1>2. DOMAIN sessions' = Slots /\ sessions' = [i \in Slots |-> sessions'[i]]
  BY DEF Tick
<1> QED BY <1>1, <1>2

\* The clock and the memory keep the types.
LEMMA OtherType ==
  ASSUME Typed, Tick \/ MemoryWrite \/ UNCHANGED vars, UNCHANGED orderly
  PROVE  Typed'
<1>1. CASE Tick
  <2>1. TypeOK
    BY DEF Typed
  <2>2. sessions' \in [Slots -> Session] /\ Owned'
    BY <1>1, <2>1, TickParts DEF Typed, Owned, Active, Kept
  <2>3. /\ silent' \in [Slots -> 0..MaxSilence] /\ quiet' \in [Slots -> 0..MaxQuiet]
        /\ waited' \in 0..MAX_DELAY
    BY <1>1, <2>1, GetTimesAssumption DEF Tick, TypeOK, Bump
  <2>4. marked' \in [Slots -> SUBSET (0..MaxSeq)] /\ copies' \in [Slots -> [0..MaxSeq -> 0..2]]
    <3>1. [q \in 0..MaxSeq |-> 0] \in [0..MaxSeq -> 0..2]
      OBVIOUS
    <3> QED BY <1>1, <2>1, <3>1 DEF Tick, TypeOK
  <2> QED BY <1>1, <2>1, <2>2, <2>3, <2>4 DEF Tick, Typed, TypeOK
<1>2. CASE MemoryWrite
  BY <1>2, GetSizesAssumption DEF MemoryWrite, taskVars, history, Typed, TypeOK, Owned, Active
<1>3. CASE UNCHANGED vars
  BY <1>3 DEF vars, taskVars, history, Typed, TypeOK, Owned, Active
<1> QED BY <1>1, <1>2, <1>3

LEMMA TypedStep ==
  ASSUME Typed, [Next]_vars
  PROVE  Typed'
<1>1. UNCHANGED orderly
  BY DEF Next, vars
<1> QED BY <1>1, FrameType, TimerType, OtherType DEF Next

LEMMA AllTyped == Spec => []Typed
<1>1. Init => Typed
  <2> SUFFICES ASSUME Init PROVE Typed
    OBVIOUS
  <2> DEFINE first == [state |-> "idle", source |-> NoSource, max_seq |-> 0, cur_seq |-> 0,
                       mask |-> {}, buffer |-> [version |-> 0, address |-> 0],
                       timeout |-> 0, age |-> 0]
  <2>1. [version |-> 0, address |-> 0] \in Read
    BY GetSizesAssumption DEF Read
  <2>2. first \in Session /\ first.state = "idle"
    BY <2>1, GetSizesAssumption, GetTimesAssumption DEF Session, GbState
  <2>3. sessions = [i \in Slots |-> first]
    BY DEF Init
  <2> HIDE DEF first
  <2>4. sessions \in [Slots -> Session] /\ Owned
    BY <2>2, <2>3 DEF Owned, Active
  <2>5. copies \in [Slots -> [0..MaxSeq -> 0..2]]
    <3>1. [q \in 0..MaxSeq |-> 0] \in [0..MaxSeq -> 0..2]
      OBVIOUS
    <3> QED BY <3>1 DEF Init
  <2>6. /\ marked \in [Slots -> SUBSET (0..MaxSeq)] /\ silent \in [Slots -> 0..MaxSilence]
        /\ quiet \in [Slots -> 0..MaxQuiet] /\ wait \in 0..MAX_DELAY /\ waited \in 0..MAX_DELAY
        /\ memory \in 0..MaxWrites
    BY GetSizesAssumption, GetTimesAssumption DEF Init
  <2> QED BY <2>4, <2>5, <2>6 DEF Init, Typed, TypeOK, NoSlot
<1> QED BY <1>1, TypedStep, PTL DEF Spec

\* Types hold from the start, for every value of the constants.
THEOREM TypeCorrect == Spec => []TypeOK
<1>1. Typed => TypeOK
  BY DEF Typed
<1> QED BY <1>1, AllTyped, PTL

-----------------------------------------------------------------------------
(* One session per node                                                    *)

\* Every step but a new request keeps the owners of the active slots.
KeepsOwners ==
  \A i \in Slots : Active(i)' => Active(i) /\ sessions'[i].source = sessions[i].source

LEMMA OwnersKept ==
  ASSUME OneSessionPerSource, KeepsOwners
  PROVE  OneSessionPerSource'
BY DEF OneSessionPerSource, KeepsOwners

LEMMA OneSession == Spec => []OneSessionPerSource
<1>1. Init => OneSessionPerSource
  BY DEF Init, OneSessionPerSource, Active
<1>2. Typed /\ OneSessionPerSource /\ [Next]_vars => OneSessionPerSource'
  <2> SUFFICES ASSUME Typed, OneSessionPerSource, [Next]_vars
               PROVE  OneSessionPerSource'
    OBVIOUS
  <2>1. TypeOK
    BY DEF Typed
  <2>2. CASE FrameIn
    <3>1. ASSUME NEW src \in Sources, Refused(src)
          PROVE  KeepsOwners
      BY <3>1 DEF Refused, KeepsOwners, Active
    <3>2. ASSUME NEW src \in Sources, NEW i \in Slots, NEW t \in Session, NEW last, NEW address,
                 Opening(src, i, t, last, address)
          PROVE  OneSessionPerSource'
      <4>1. t.source = src /\ ~HasSession(src) /\ Takes(i, t)
        BY <3>2 DEF Opening
      <4>2. sessions'[i].source = src /\ \A j \in Slots \ {i} : sessions'[j] = sessions[j]
        BY <2>1, <4>1, TakesType
      <4> QED BY <4>1, <4>2 DEF OneSessionPerSource, Active, HasSession, Matches
    <3>3. ASSUME NEW src \in Sources, NEW i \in Slots, NEW t \in Session,
                 Takes(i, t), t.source = src, Matches(i, src)
          PROVE  KeepsOwners
      <4>1. sessions'[i] = t /\ \A j \in Slots \ {i} : sessions'[j] = sessions[j]
        BY <2>1, <3>3, TakesType
      <4> QED BY <3>3, <4>1 DEF KeepsOwners, Matches, Active
    <3>4. ASSUME NEW src \in Sources, NEW i \in Slots, NEW t \in Session, Closing(src, i, t)
          PROVE  KeepsOwners
      BY <3>3, <3>4 DEF Closing
    <3>5. ASSUME NEW src \in Sources, NEW i \in Slots, NEW s, NEW t \in Session, NEW blocks,
                 NEW room, Starting(src, i, s, t, blocks, room)
          PROVE  KeepsOwners
      BY <3>3, <3>5 DEF Starting, Bursted
    <3> QED BY <2>1, <2>2, <3>1, <3>2, <3>4, <3>5, FrameShape, OwnersKept
  <2>3. CASE Timer
    BY <2>1, <2>3, TimerShape, TimedOwners, OwnersKept DEF KeepsOwners
  <2>4. CASE Tick
    <3>1. KeepsOwners
      BY <2>1, <2>4, TickParts DEF KeepsOwners, Active, Kept
    <3> QED BY <3>1, OwnersKept
  <2>5. CASE MemoryWrite \/ UNCHANGED vars
    BY <2>5 DEF MemoryWrite, vars, OneSessionPerSource, Active
  <2> QED BY <2>2, <2>3, <2>4, <2>5 DEF Next
<1> QED BY <1>1, <1>2, AllTyped, PTL DEF Spec

-----------------------------------------------------------------------------
(* What a session has sent                                                 *)

\* SentExactly for one session, and what makes it inductive: a session that
\* transmits has a block left, and its mask still has the bits of its last start
\* frame.
Exact(s, marks, count) ==
  s.state # "idle" =>
    /\ s.state = "transmitting" => s.cur_seq <= s.max_seq /\ s.mask \cap 0..s.max_seq = marks
    /\ \A q \in 0..MaxSeq :
         count[q] = IF q \in marks /\ (s.state = "wait_on_start" \/ q < s.cur_seq)
                    THEN 1 ELSE 0

AllExact == \A i \in Slots : Exact(sessions[i], marked[i], copies[i])

LEMMA KeptExact ==
  ASSUME NEW s, NEW t, Kept(s, t), NEW marks, NEW count, Exact(s, marks, count)
  PROVE  Exact(t, marks, count)
BY DEF Kept, Exact

\* A burst sends the marked blocks between the position before and after it.
LEMMA BurstExact ==
  ASSUME NEW s \in Session, NEW room \in 0..GB_BURST_SIZE, NEW t \in Session,
         s.state = "transmitting", Bursted(s, t, room), NEW count,
         s.cur_seq <= s.max_seq,
         \A q \in 0..MaxSeq :
           count[q] = IF q \in s.mask \cap 0..s.max_seq /\ q < s.cur_seq THEN 1 ELSE 0
  PROVE  Exact(t, s.mask \cap 0..s.max_seq, Counted(count, Burst(s, room)))
<1> DEFINE n == NextSeq(s, room)
           sentNow == Burst(s, room)
           marks == s.mask \cap 0..s.max_seq
           after == Counted(count, sentNow)
<1>1. /\ n \in 0..(s.max_seq + 1) /\ s.cur_seq <= n
      /\ sentNow \subseteq Due(s) /\ \A q \in Due(s) : q \in sentNow <=> q < n
  BY BurstSplits
<1>2. /\ s.max_seq \in Nat /\ s.cur_seq \in Nat /\ s.mask \subseteq 0..MaxSeq /\ MaxSeq \in Nat
  BY SessionParts, GetSizesAssumption
<1>3. \A q \in 0..MaxSeq : q \in Due(s) <=> q \in marks /\ s.cur_seq <= q
  BY <1>2 DEF Due
<1>4. \A q \in 0..MaxSeq : after[q] = IF q \in sentNow THEN Bump(count[q], 2) ELSE count[q]
  BY DEF Counted
<1>5. /\ t.cur_seq = n /\ t.max_seq = s.max_seq /\ t.mask = s.mask
      /\ t.state = IF n > s.max_seq THEN "wait_on_start" ELSE "transmitting"
  BY DEF Bursted
<1>6. \A q \in 0..MaxSeq : count[q] = IF q \in marks /\ q < s.cur_seq THEN 1 ELSE 0
  OBVIOUS
<1>7. \A q \in marks : q \in Nat /\ q <= s.max_seq
  BY <1>2
<1>8. t.mask \cap 0..t.max_seq = marks
  BY <1>5
<1> HIDE DEF n, sentNow, marks, after
<1>9. ASSUME NEW q \in 0..MaxSeq
      PROVE  after[q] = IF q \in marks /\ q < n THEN 1 ELSE 0
  <2>1. q \in Nat /\ n \in Nat
    BY <1>1, <1>2
  <2>2. CASE q \in sentNow
    <3>1. q \in marks /\ s.cur_seq <= q /\ q < n
      BY <1>1, <1>3, <2>2
    <3>2. count[q] = 0
      BY <1>2, <1>6, <2>1, <3>1
    <3> QED BY <1>4, <2>2, <3>1, <3>2 DEF Bump
  <2>3. CASE q \notin sentNow
    <3>1. after[q] = count[q]
      BY <1>4, <2>3
    <3>2. q \in marks => (q < n <=> q < s.cur_seq)
      BY <1>1, <1>2, <1>3, <2>1, <2>3
    <3> QED BY <1>6, <3>1, <3>2
  <2> QED BY <2>2, <2>3
<1>10. \A q \in marks : n > s.max_seq => q < n
  BY <1>1, <1>2, <1>7
<1>11. n > s.max_seq \/ n <= s.max_seq
  BY <1>1, <1>2
<1>12. Exact(t, marks, after)
  BY <1>5, <1>8, <1>9, <1>10, <1>11 DEF Exact
<1> QED BY <1>12 DEF marks, after, sentNow

\* A session whose time is up has sent what it should.
LEMMA ExpiredExact ==
  ASSUME NEW s \in Session, NEW t \in Session, NEW room,
         s.state = "transmitting" => room \in 0..GB_BURST_SIZE,
         Expired(s, t, room), NEW marks, NEW count, Exact(s, marks, count)
  PROVE  Exact(t, marks, IF s.state = "transmitting" THEN Counted(count, Burst(s, room))
                                                     ELSE count)
<1>1. CASE s.state = "transmitting"
  <2>1. /\ Bursted(s, t, room) /\ s.cur_seq <= s.max_seq
        /\ marks = s.mask \cap 0..s.max_seq
        /\ \A q \in 0..MaxSeq : count[q] = IF q \in marks /\ q < s.cur_seq THEN 1 ELSE 0
    BY <1>1 DEF Expired, Exact
  <2> QED BY <1>1, <2>1, BurstExact
<1>2. CASE s.state # "transmitting"
  BY <1>2 DEF Expired, Exact
<1> QED BY <1>1, <1>2

LEMMA FrameExact ==
  ASSUME Typed, AllExact, FrameIn
  PROVE  AllExact'
<1>1. TypeOK
  BY DEF Typed
<1>2. ASSUME NEW src \in Sources, Refused(src)
      PROVE  AllExact'
  BY <1>2 DEF Refused, history, AllExact, Exact
<1>3. ASSUME NEW i \in Slots, NEW t \in Session, Takes(i, t),
             Exact(t, marked'[i], copies'[i]),
             \A j \in Slots \ {i} : marked'[j] = marked[j] /\ copies'[j] = copies[j]
      PROVE  AllExact'
  BY <1>1, <1>3, TakesType, Zenon DEF AllExact
<1>4. ASSUME NEW src \in Sources, NEW i \in Slots, NEW t \in Session, NEW last, NEW address,
             Opening(src, i, t, last, address)
      PROVE  AllExact'
  <2>1. /\ Takes(i, t) /\ t.state = "wait_on_start"
        /\ marked' = [marked EXCEPT ![i] = {}]
        /\ copies' = [copies EXCEPT ![i] = [q \in 0..MaxSeq |-> 0]]
    BY <1>4 DEF Opening
  <2>2. /\ marked'[i] = {} /\ copies'[i] = [q \in 0..MaxSeq |-> 0]
        /\ \A j \in Slots \ {i} : marked'[j] = marked[j] /\ copies'[j] = copies[j]
    BY <1>1, <2>1 DEF TypeOK
  <2>3. Exact(t, marked'[i], copies'[i])
    BY <2>1, <2>2 DEF Exact
  <2> QED BY <1>3, <2>1, <2>2, <2>3
<1>5. ASSUME NEW src \in Sources, NEW i \in Slots, NEW t \in Session, Closing(src, i, t)
      PROVE  AllExact'
  BY <1>3, <1>5 DEF Closing, Exact
<1>6. ASSUME NEW src \in Sources, NEW i \in Slots, NEW s \in Session, NEW t \in Session,
             NEW blocks \in SUBSET (0..MaxSeq), NEW room \in Rooms,
             Starting(src, i, s, t, blocks, room)
      PROVE  AllExact'
  <2> DEFINE none == [q \in 0..MaxSeq |-> 0]
             counted == Counted(none, Burst(s, room))
  <2>1. /\ Takes(i, t) /\ s.state = "transmitting" /\ s.cur_seq = 0
        /\ blocks = s.mask \cap 0..s.max_seq /\ Bursted(s, t, room)
        /\ marked' = [marked EXCEPT ![i] = blocks] /\ copies' = [copies EXCEPT ![i] = counted]
    BY <1>6 DEF Starting
  <2>2. room \in 0..GB_BURST_SIZE
    BY GetSizesAssumption DEF Rooms
  <2>3. \A q \in 0..MaxSeq :
          none[q] = IF q \in s.mask \cap 0..s.max_seq /\ q < s.cur_seq THEN 1 ELSE 0
    <3>1. \A q \in 0..MaxSeq : ~(q < 0)
      BY GetSizesAssumption
    <3> QED BY <2>1, <3>1
  <2>4. s.cur_seq <= s.max_seq
    BY <2>1, SessionParts
  <2> HIDE DEF none
  <2>5. Exact(t, blocks, counted)
    BY <2>1, <2>2, <2>3, <2>4, BurstExact
  <2> HIDE DEF counted
  <2>6. /\ marked'[i] = blocks /\ copies'[i] = counted
        /\ \A j \in Slots \ {i} : marked'[j] = marked[j] /\ copies'[j] = copies[j]
    BY <1>1, <2>1 DEF TypeOK
  <2> QED BY <1>3, <2>1, <2>5, <2>6
<1> QED BY <1>1, <1>2, <1>4, <1>5, <1>6, FrameShape

LEMMA TimerExact ==
  ASSUME Typed, AllExact, Timer
  PROVE  AllExact'
<1>1. TypeOK
  BY DEF Typed
<1>2. PICK expired \in SUBSET Slots, room \in [Transmitting -> Rooms] : Timed(expired, room)
  BY <1>1, TimerShape
<1>3. ASSUME NEW i \in Slots
      PROVE  Exact(sessions'[i], marked'[i], copies'[i])
  <2> DEFINE s == sessions[i]
             t == sessions'[i]
  <2>1. s \in Session /\ t \in Session /\ marked'[i] = marked[i] /\ Exact(s, marked[i], copies[i])
    BY <1>1, <1>2, SlotType DEF Timed, AllExact
  <2>2. copies'[i] = IF i \in expired /\ s.state = "transmitting"
                     THEN Counted(copies[i], Burst(s, room[i])) ELSE copies[i]
    BY <1>2 DEF Timed, HandleTimeouts, Transmitting
  <2>3. /\ i \in expired => Expired(s, t, room[i])
        /\ i \notin expired => Kept(s, t)
        /\ s.state = "transmitting" => room[i] \in 0..GB_BURST_SIZE
    BY <1>2, RoomType DEF Timed
  <2> HIDE DEF s, t
  <2>4. CASE i \in expired
    <3>1. Exact(t, marked[i], copies'[i])
      BY <2>1, <2>2, <2>3, <2>4, ExpiredExact
    <3> QED BY <2>1, <3>1 DEF t
  <2>5. CASE i \notin expired
    <3>1. Exact(t, marked[i], copies'[i])
      BY <2>1, <2>2, <2>3, <2>5, KeptExact
    <3> QED BY <2>1, <3>1 DEF t
  <2> QED BY <2>4, <2>5
<1> QED BY <1>3 DEF AllExact

LEMMA BurstsExact == Spec => []AllExact
<1>1. Init => AllExact
  BY DEF Init, AllExact, Exact
<1>2. Typed /\ AllExact /\ [Next]_vars => AllExact'
  <2> SUFFICES ASSUME Typed, AllExact, [Next]_vars PROVE AllExact'
    OBVIOUS
  <2>1. TypeOK
    BY DEF Typed
  <2>2. CASE Tick
    <3>1. \A i \in Slots : /\ Kept(sessions[i], sessions'[i])
                           /\ Active(i) => marked'[i] = marked[i] /\ copies'[i] = copies[i]
      BY <2>1, <2>2, TickParts DEF Tick
    <3>2. ASSUME NEW i \in Slots
          PROVE  Exact(sessions'[i], marked'[i], copies'[i])
      <4>1. Exact(sessions'[i], marked[i], copies[i])
        BY <3>1, KeptExact DEF AllExact
      <4>2. CASE Active(i)
        BY <3>1, <4>1, <4>2
      <4>3. CASE ~Active(i)
        BY <3>1, <4>3 DEF Active, Kept, Exact
      <4> QED BY <4>2, <4>3
    <3> QED BY <3>2 DEF AllExact
  <2>3. CASE MemoryWrite \/ UNCHANGED vars
    BY <2>3 DEF MemoryWrite, vars, history, AllExact, Exact
  <2> QED BY <2>2, <2>3, FrameExact, TimerExact DEF Next
<1> QED BY <1>1, <1>2, AllTyped, PTL DEF Spec

\* A session sends each block its start frame marked once, whatever the driver
\* refuses, and no node has two sessions, for every number of nodes, slots and
\* blocks and every size of a burst.
THEOREM BlocksSentOnce == Spec => []MarkedSentOnce
<1>1. AllExact => SentExactly
  BY DEF AllExact, Exact, SentExactly, Active
<1>2. Typed /\ OneSessionPerSource /\ AllExact => MarkedSentOnce
  BY <1>1 DEF Typed, MarkedSentOnce
<1> QED BY <1>2, AllTyped, OneSession, BurstsExact, PTL

-----------------------------------------------------------------------------
(* The clock of a session                                                  *)

\* What a step does to the timer and the histories of a slot whose session goes
\* on: s becomes t.
Measured(s, t) ==
  Kept(s, t) /\ s.age < s.timeout /\ t.timeout = s.timeout - s.age /\ t.age = 0

SlotSame(i) ==
  /\ Active(i) /\ sessions'[i] = sessions[i]
  /\ silent'[i] = silent[i] /\ quiet'[i] = quiet[i]

SlotAged(i) ==
  /\ Active(i) /\ Kept(sessions[i], sessions'[i]) /\ sessions'[i].timeout = sessions[i].timeout
  /\ sessions'[i].age = Bump(sessions[i].age, GB_TIMEOUT + 1)
  /\ silent'[i] = Bump(silent[i], MaxSilence)
  /\ sessions[i].state = "transmitting" => quiet'[i] = Bump(quiet[i], MaxQuiet)
  /\ orderly => pc = "recv" /\ waited < wait

SlotMeasured(i) ==
  /\ Active(i) /\ Measured(sessions[i], sessions'[i])
  /\ silent'[i] = silent[i] /\ quiet'[i] = quiet[i]

SlotTimedOut(i) ==
  /\ sessions[i].state = "transmitting" /\ TimeIsUp(sessions[i])
  /\ \E room \in Rooms : Bursted(sessions[i], sessions'[i], room)
  /\ silent'[i] = silent[i] /\ quiet'[i] = 0

SlotOpened(i) ==
  /\ sessions'[i].state = "wait_on_start"
  /\ sessions'[i].timeout = GB_TIMEOUT /\ sessions'[i].age = 0 /\ silent'[i] = 0

SlotStarted(i) ==
  /\ \E s \in Session, room \in Rooms :
       s.state = "transmitting" /\ s.cur_seq = 0 /\ Bursted(s, sessions'[i], room)
  /\ silent'[i] = 0 /\ quiet'[i] = 0

\* The task blocks for the remaining time of an active session, and not longer than
\* the session is old: frames that `continue' let it wait again from the start.
WaitOfTask ==
  pc = "recv" /\ tindex # NoSlot =>
    /\ Active(tindex) /\ wait = sessions[tindex].timeout
    /\ waited <= sessions[tindex].age \/ sessions[tindex].age >= sessions[tindex].timeout

\* The timers expire nothing but sessions whose time is up.
LEMMA TimerClock ==
  ASSUME TypeOK, WaitOfTask, NEW room \in [Transmitting -> Rooms],
         ReceiveTimeout(room) \/ Scan(room)
  PROVE  \E expired \in SUBSET Slots :
           /\ Timed(expired, room)
           /\ \A i \in expired : TimeIsUp(sessions[i])
           /\ \A i \in Slots \ expired : Active(i) =>
                sessions'[i] = sessions[i] \/ Measured(sessions[i], sessions'[i])
<1>1. CASE ReceiveTimeout(room)
  <2>1. Timed({tindex} \ {NoSlot}, room) /\ {tindex} \ {NoSlot} \subseteq Slots
    BY <1>1, ReceiveTimeoutShape
  <2>2. ASSUME tindex # NoSlot
        PROVE  TimeIsUp(sessions[tindex])
    <3>1. /\ Active(tindex) /\ waited >= sessions[tindex].timeout
          /\ waited <= sessions[tindex].age \/ sessions[tindex].age >= sessions[tindex].timeout
      BY <1>1, <2>2 DEF ReceiveTimeout, WaitOfTask
    <3>2. tindex \in Slots /\ sessions[tindex] \in Session /\ waited \in Nat
      BY <2>2, GetTimesAssumption, SlotType DEF TypeOK
    <3>3. sessions[tindex].timeout \in Nat /\ sessions[tindex].age \in Nat
      BY <3>2, SessionParts
    <3> QED BY <3>1, <3>2, <3>3 DEF TimeIsUp, Active
  <2>3. \A i \in Slots \ ({tindex} \ {NoSlot}) : sessions'[i] = sessions[i]
    <3>1. CASE tindex = NoSlot
      BY <1>1, <3>1 DEF ReceiveTimeout
    <3>2. CASE tindex # NoSlot
      <4>1. \A i \in Slots \ {tindex} : sessions'[i] = sessions[i]
        BY <1>1, <3>2 DEF ReceiveTimeout, TypeOK
      <4> QED BY <3>2, <4>1
    <3> QED BY <3>1, <3>2
  <2> QED BY <2>1, <2>2, <2>3
<1>2. CASE Scan(room)
  <2> DEFINE up == {i \in Slots : TimeIsUp(sessions[i])}
  <2>1. Timed(up, room)
    BY <1>2, ScanShape
  <2>2. ASSUME NEW i \in Slots \ up, Active(i)
        PROVE  Measured(sessions[i], sessions'[i])
    <3>1. sessions'[i] = Checked(sessions[i], room[i]) /\ sessions[i] \in Session
      BY <1>2, SlotType DEF Scan
    <3>2. ~TimeIsUp(sessions[i]) /\ sessions[i].state # "idle"
      BY <2>2 DEF Active
    <3>3. sessions[i].state = "transmitting" => room[i] \in 0..GB_BURST_SIZE
      BY RoomType
    <3> QED BY <3>1, <3>2, <3>3, CheckedParts DEF Measured
  <2> QED BY <2>1, <2>2
<1> QED BY <1>1, <1>2

\* What a step does to the clock of a slot whose session goes on.
LEMMA SlotStep ==
  ASSUME TypeOK, WaitOfTask, [Next]_vars, NEW i \in Slots, Active(i)'
  PROVE  \/ SlotSame(i) \/ SlotAged(i) \/ SlotMeasured(i)
         \/ SlotTimedOut(i) \/ SlotOpened(i) \/ SlotStarted(i)
<1>1. ASSUME UNCHANGED <<sessions, silent, quiet>>
      PROVE  SlotSame(i)
  BY <1>1 DEF SlotSame, Active
<1>2. CASE UNCHANGED vars
  BY <1>1, <1>2 DEF vars, history
<1>3. CASE MemoryWrite
  BY <1>1, <1>3 DEF MemoryWrite, history
<1>4. CASE Tick
  <2>1. Kept(sessions[i], sessions'[i])
    BY <1>4, TickParts
  <2>2. Active(i)
    BY <2>1 DEF Kept, Active
  <2> QED BY <1>4, <2>1, <2>2, TickParts DEF Tick, SlotAged
<1>5. CASE Timer
  <2>1. PICK room \in [Transmitting -> Rooms] : ReceiveTimeout(room) \/ Scan(room)
    BY <1>5 DEF Timer
  <2>2. PICK expired \in SUBSET Slots :
          /\ Timed(expired, room)
          /\ \A j \in expired : TimeIsUp(sessions[j])
          /\ \A j \in Slots \ expired : Active(j) =>
               sessions'[j] = sessions[j] \/ Measured(sessions[j], sessions'[j])
    BY <2>1, TimerClock
  <2>3. Active(i) /\ silent'[i] = silent[i]
    BY <2>2, TimedOwners DEF Timed
  <2>4. quiet'[i] = IF i \in expired \cap Transmitting THEN 0 ELSE quiet[i]
    BY <2>2 DEF Timed, HandleTimeouts
  <2>5. CASE i \in expired
    <3>1. Expired(sessions[i], sessions'[i], room[i])
      BY <2>2, <2>5 DEF Timed
    <3>2. sessions[i].state = "transmitting"
      BY <3>1 DEF Expired, Active
    <3>3. i \in Transmitting /\ room[i] \in Rooms
      BY <3>2 DEF Transmitting
    <3> QED BY <2>2, <2>3, <2>4, <2>5, <3>1, <3>2, <3>3 DEF Expired, SlotTimedOut
  <2>6. CASE i \notin expired
    BY <2>2, <2>3, <2>4, <2>6 DEF SlotSame, SlotMeasured
  <2> QED BY <2>5, <2>6
<1>6. CASE FrameIn
  <2>1. ASSUME NEW src \in Sources, Refused(src)
        PROVE  SlotSame(i)
    BY <1>1, <2>1 DEF Refused, history
  <2>2. ASSUME NEW j \in Slots, NEW t \in Session, Takes(j, t), j # i,
               quiet'[i] = quiet[i]
        PROVE  SlotSame(i)
    <3>1. sessions'[i] = sessions[i] /\ silent'[i] = silent[i]
      BY <2>2, TakesType
    <3> QED BY <2>2, <3>1 DEF SlotSame, Active
  <2>3. ASSUME NEW src \in Sources, NEW j \in Slots, NEW t \in Session, NEW last, NEW address,
               Opening(src, j, t, last, address)
        PROVE  SlotSame(i) \/ SlotOpened(i)
    <3>1. /\ Takes(j, t) /\ quiet' = quiet
          /\ t.state = "wait_on_start" /\ t.timeout = GB_TIMEOUT /\ t.age = 0
      BY <2>3 DEF Opening, Takes
    <3>2. sessions'[j] = t /\ silent'[j] = 0
      BY <3>1, TakesType
    <3> QED BY <2>2, <3>1, <3>2 DEF SlotOpened
  <2>4. ASSUME NEW src \in Sources, NEW j \in Slots, NEW t \in Session, Closing(src, j, t)
        PROVE  SlotSame(i)
    <3>1. Takes(j, t) /\ quiet' = quiet /\ t.state = "idle"
      BY <2>4 DEF Closing
    <3>2. sessions'[j] = t
      BY <3>1, TakesType
    <3> QED BY <2>2, <3>1, <3>2 DEF Active
  <2>5. ASSUME NEW src \in Sources, NEW j \in Slots, NEW s \in Session, NEW t \in Session,
               NEW blocks, NEW room \in Rooms, Starting(src, j, s, t, blocks, room)
        PROVE  SlotSame(i) \/ SlotStarted(i)
    <3>1. /\ Takes(j, t) /\ quiet' = [quiet EXCEPT ![j] = 0]
          /\ s.state = "transmitting" /\ s.cur_seq = 0 /\ Bursted(s, t, room)
      BY <2>5 DEF Starting
    <3>2. sessions'[j] = t /\ silent'[j] = 0
      BY <3>1, TakesType
    <3>3. quiet'[i] = IF i = j THEN 0 ELSE quiet[i]
      BY <3>1 DEF TypeOK
    <3> QED BY <2>2, <3>1, <3>2, <3>3 DEF SlotStarted
  <2> QED BY <1>6, <2>1, <2>3, <2>4, <2>5, FrameShape
<1> QED BY <1>2, <1>3, <1>4, <1>5, <1>6 DEF Next

\* Frames that are not answered with `continue' lead to the search, and the search
\* finds what to wait for.
LEMMA WaitStep ==
  ASSUME TypeOK, WaitOfTask, [Next]_vars
  PROVE  WaitOfTask'
<1>1. CASE UNCHANGED vars
  BY <1>1 DEF vars, taskVars, WaitOfTask, Active
<1>2. CASE MemoryWrite
  BY <1>2 DEF MemoryWrite, taskVars, WaitOfTask, Active
<1>3. CASE Tick
  <2> SUFFICES ASSUME pc = "recv", tindex # NoSlot PROVE WaitOfTask'
    BY <1>3 DEF Tick, WaitOfTask
  <2> DEFINE s == sessions[tindex]
             t == sessions'[tindex]
  <2>1. tindex \in Slots /\ s \in Session
    BY SlotType DEF TypeOK
  <2>2. Kept(s, t) /\ t.timeout = s.timeout /\ Active(tindex)
        /\ wait = s.timeout /\ (waited <= s.age \/ s.age >= s.timeout)
    BY <1>3, <2>1, TickParts DEF WaitOfTask
  <2>3. /\ s.age \in Nat /\ s.timeout \in Nat /\ s.timeout <= GB_TIMEOUT /\ s.age <= GB_TIMEOUT + 1
        /\ waited \in Nat /\ MAX_DELAY \in Nat /\ GB_TIMEOUT \in Nat
    BY <2>1, SessionParts, GetTimesAssumption DEF TypeOK
  <2>4. /\ waited' = Bump(waited, MAX_DELAY) /\ wait' = wait /\ tindex' = tindex
        /\ t.age = Bump(s.age, GB_TIMEOUT + 1) /\ t.state # "idle"
    BY <1>3, <2>1, <2>2, TickParts DEF Tick, Active, Kept
  <2> HIDE DEF s, t
  <2>5. waited' <= t.age \/ t.age >= t.timeout
    BY <2>2, <2>3, <2>4 DEF Bump
  <2> QED BY <2>2, <2>4, <2>5 DEF WaitOfTask, Active, t
<1>4. CASE Timer
  <2>1. PICK room \in [Transmitting -> Rooms] : ReceiveTimeout(room) \/ Scan(room)
    BY <1>4 DEF Timer
  <2>2. CASE ReceiveTimeout(room)
    BY <2>2 DEF ReceiveTimeout, ToScan, WaitOfTask
  <2>3. CASE Scan(room)
    <3>1. \/ \E i \in Slots : /\ sessions'[i].state # "idle"
                              /\ tindex' = i /\ wait' = sessions'[i].timeout
          \/ tindex' = NoSlot
      BY <2>3 DEF Scan, IsNextTimeout
    <3>2. waited' = 0 /\ sessions' \in [Slots -> Session]
      BY <2>3, ScanShape DEF Scan, Timed
    <3>3. \A i \in Slots : 0 <= sessions'[i].age
      BY <3>2, SessionParts
    <3> QED BY <3>1, <3>2, <3>3 DEF WaitOfTask, Active
  <2> QED BY <2>1, <2>2, <2>3
<1>5. CASE FrameIn
  <2>1. ASSUME NEW src \in Sources, Refused(src)
        PROVE  WaitOfTask'
    <3>1. pc' = "scan" \/ (waited' = 0 /\ pc' = pc /\ wait' = wait /\ tindex' = tindex)
      BY <2>1 DEF Refused, ToScan, Continue
    <3>2. \A i \in Slots : 0 <= sessions[i].age
      BY SlotType, SessionParts
    <3>3. tindex # NoSlot => tindex \in Slots
      BY DEF TypeOK
    <3> QED BY <2>1, <3>1, <3>2, <3>3 DEF Refused, WaitOfTask, Active
  <2>2. ASSUME NEW i \in Slots, NEW t \in Session, Takes(i, t)
        PROVE  WaitOfTask'
    BY <2>2, TakesType DEF WaitOfTask
  <2>3. ASSUME NEW src, NEW i \in Slots, NEW t \in Session, NEW last, NEW address,
               Opening(src, i, t, last, address)
        PROVE  WaitOfTask'
    BY <2>2, <2>3 DEF Opening
  <2>4. ASSUME NEW src, NEW i \in Slots, NEW t \in Session, Closing(src, i, t)
        PROVE  WaitOfTask'
    BY <2>2, <2>4 DEF Closing
  <2>5. ASSUME NEW src, NEW i \in Slots, NEW s, NEW t \in Session, NEW blocks, NEW room,
               Starting(src, i, s, t, blocks, room)
        PROVE  WaitOfTask'
    BY <2>2, <2>5 DEF Starting
  <2> QED BY <1>5, <2>1, <2>3, <2>4, <2>5, FrameShape
<1> QED BY <1>1, <1>2, <1>3, <1>4, <1>5 DEF Next

LEMMA WaitsForASession == Spec => []WaitOfTask
<1>1. Init => WaitOfTask
  BY DEF Init, WaitOfTask
<1> QED BY <1>1, WaitStep, TypeCorrect, PTL DEF Spec

-----------------------------------------------------------------------------
(* Bursts do not come early                                                *)

\* The last burst of a session is as old as its timer says, or older.
Paced(i) ==
  sessions[i].state = "transmitting" =>
    \/ quiet[i] >= GB_BURST_INTERVAL
    \/ quiet[i] + sessions[i].timeout >= GB_BURST_INTERVAL + sessions[i].age

\* The numbers of a slot.
LEMMA SlotNumbers ==
  ASSUME TypeOK, NEW i \in Slots
  PROVE  /\ sessions[i].timeout \in Nat /\ sessions[i].timeout <= GB_TIMEOUT
         /\ sessions[i].age \in Nat /\ sessions[i].age <= GB_TIMEOUT + 1
         /\ quiet[i] \in Nat /\ quiet[i] <= MaxQuiet
         /\ silent[i] \in Nat /\ silent[i] <= MaxSilence
         /\ waited \in Nat /\ wait \in Nat /\ wait <= MAX_DELAY
<1>1. sessions[i] \in Session
  BY SlotType
<1>2. /\ quiet[i] \in Nat /\ quiet[i] <= MaxQuiet /\ silent[i] \in Nat /\ silent[i] <= MaxSilence
      /\ waited \in Nat /\ wait \in Nat /\ wait <= MAX_DELAY
  BY GetTimesAssumption DEF TypeOK
<1> QED BY <1>1, <1>2, SessionParts

LEMMA PacedStep ==
  ASSUME MaxQuiet >= GB_BURST_INTERVAL, TypeOK, WaitOfTask, [Next]_vars,
         NEW i \in Slots, Paced(i)
  PROVE  Paced(i)'
<1> SUFFICES ASSUME sessions'[i].state = "transmitting" PROVE Paced(i)'
  BY DEF Paced
<1>1. \/ SlotSame(i) \/ SlotAged(i) \/ SlotMeasured(i)
      \/ SlotTimedOut(i) \/ SlotOpened(i) \/ SlotStarted(i)
  BY SlotStep DEF Active
<1>2. /\ GB_BURST_INTERVAL \in Nat /\ GB_TIMEOUT \in Nat /\ MaxQuiet \in Nat
  BY GetTimesAssumption
<1>3. CASE SlotSame(i)
  BY <1>3 DEF SlotSame, Paced
<1>4. CASE SlotAged(i)
  <2>1. /\ sessions[i].state = "transmitting" /\ sessions'[i].timeout = sessions[i].timeout
        /\ sessions'[i].age = Bump(sessions[i].age, GB_TIMEOUT + 1)
        /\ quiet'[i] = Bump(quiet[i], MaxQuiet)
    BY <1>4 DEF SlotAged, Kept
  <2> QED BY <1>2, <2>1, SlotNumbers DEF Paced, Bump
<1>5. CASE SlotMeasured(i)
  <2>1. /\ sessions[i].state = "transmitting" /\ sessions[i].age < sessions[i].timeout
        /\ sessions'[i].timeout = sessions[i].timeout - sessions[i].age
        /\ sessions'[i].age = 0 /\ quiet'[i] = quiet[i]
    BY <1>5 DEF SlotMeasured, Measured, Kept
  <2> QED BY <1>2, <2>1, SlotNumbers DEF Paced
<1>6. CASE SlotTimedOut(i) \/ SlotStarted(i)
  <2>1. sessions'[i].timeout = GB_BURST_INTERVAL /\ sessions'[i].age = 0 /\ quiet'[i] = 0
    BY <1>6 DEF SlotTimedOut, SlotStarted, Bursted
  <2> QED BY <1>2, <2>1 DEF Paced
<1>7. CASE SlotOpened(i)
  BY <1>7 DEF SlotOpened
<1> QED BY <1>1, <1>3, <1>4, <1>5, <1>6, <1>7

\* No burst comes early, for every number of sessions that share the block time.
\* The history of bursts has to count as far as GB_BURST_INTERVAL.
THEOREM BurstsNotEarly ==
  ASSUME MaxQuiet >= GB_BURST_INTERVAL
  PROVE  Spec => BurstPacing
<1> DEFINE AllPaced == \A i \in Slots : Paced(i)
<1>1. Init => AllPaced
  BY DEF Init, Paced
<1>2. TypeOK /\ WaitOfTask /\ AllPaced /\ [Next]_vars => AllPaced'
  BY PacedStep
<1>3. TypeOK /\ WaitOfTask /\ OneSessionPerSource /\ AllPaced /\ [Next]_vars => [BurstPaced]_vars
  <2> SUFFICES ASSUME TypeOK, WaitOfTask, OneSessionPerSource, AllPaced, Timer, NEW i \in Slots,
                      sessions[i].state = "transmitting", quiet[i] < GB_BURST_INTERVAL,
                      NEW f \in sent', f.to = sessions[i].source
               PROVE  FALSE
    BY DEF BurstPaced
  <2>1. PICK room \in [Transmitting -> Rooms] : ReceiveTimeout(room) \/ Scan(room)
    BY DEF Timer
  <2>2. PICK expired \in SUBSET Slots :
          Timed(expired, room) /\ \A j \in expired : TimeIsUp(sessions[j])
    BY <2>1, TimerClock
  <2>3. sent' = UNION {Transfers(sessions[j], room[j]) : j \in expired \cap Transmitting}
    BY <2>2 DEF Timed, HandleTimeouts
  <2>4. PICK j \in expired \cap Transmitting : f \in Transfers(sessions[j], room[j])
    BY <2>3
  <2>5. f.to = sessions[j].source
    BY <2>4 DEF Transfers
  <2>6. i = j
    BY <2>4, <2>5 DEF OneSessionPerSource, Active, Transmitting
  <2>7. sessions[i].age >= sessions[i].timeout
    BY <2>2, <2>4, <2>6 DEF TimeIsUp
  <2> QED BY <2>7, SlotNumbers, GetTimesAssumption DEF Paced
<1> HIDE DEF AllPaced
<1> QED BY <1>1, <1>2, <1>3, TypeCorrect, OneSession, WaitsForASession, PTL DEF Spec, BurstPacing

-----------------------------------------------------------------------------
(* Bursts do not come late                                                 *)

\* While the task runs promptly, no timer is overdue, and the last burst is not
\* older than the timer says.
InTime(i) ==
  Active(i) =>
    /\ sessions[i].age <= sessions[i].timeout
    /\ sessions[i].state = "transmitting" =>
         quiet[i] + sessions[i].timeout <= GB_BURST_INTERVAL + sessions[i].age

\* The task has waited as long as every session has aged, and its block time is the
\* shortest of all.
WaitsForFirst ==
  pc = "recv" => \A i \in Slots : Active(i) =>
    sessions[i].age = waited /\ wait <= sessions[i].timeout

Prompt == orderly => WaitsForFirst /\ \A i \in Slots : InTime(i)

LEMMA InTimeStep ==
  ASSUME TypeOK, WaitOfTask, [Next]_vars, orderly, WaitsForFirst, NEW i \in Slots, InTime(i)
  PROVE  InTime(i)'
<1> SUFFICES ASSUME Active(i)' PROVE InTime(i)'
  BY DEF InTime
<1>1. \/ SlotSame(i) \/ SlotAged(i) \/ SlotMeasured(i)
      \/ SlotTimedOut(i) \/ SlotOpened(i) \/ SlotStarted(i)
  BY SlotStep
<1>2. /\ GB_BURST_INTERVAL \in Nat /\ GB_TIMEOUT \in Nat /\ MaxQuiet \in Nat
  BY GetTimesAssumption
<1>3. CASE SlotSame(i)
  BY <1>3 DEF SlotSame, InTime, Active
<1>4. CASE SlotAged(i)
  <2>1. /\ Active(i) /\ sessions'[i].state = sessions[i].state
        /\ sessions'[i].timeout = sessions[i].timeout
        /\ sessions'[i].age = Bump(sessions[i].age, GB_TIMEOUT + 1)
        /\ sessions[i].state = "transmitting" => quiet'[i] = Bump(quiet[i], MaxQuiet)
        /\ pc = "recv" /\ waited < wait
    BY <1>4 DEF SlotAged, Kept
  <2>2. sessions[i].age = waited /\ wait <= sessions[i].timeout
    BY <2>1 DEF WaitsForFirst
  <2>3. sessions[i].age < sessions[i].timeout /\ sessions'[i].age = sessions[i].age + 1
    BY <1>2, <2>1, <2>2, SlotNumbers DEF Bump
  <2>4. sessions[i].state = "transmitting" => quiet'[i] \in Nat /\ quiet'[i] <= quiet[i] + 1
    BY <1>2, <2>1, SlotNumbers DEF Bump
  <2> QED BY <1>2, <2>1, <2>3, <2>4, SlotNumbers DEF InTime
<1>5. CASE SlotMeasured(i)
  <2>1. /\ Active(i) /\ sessions'[i].state = sessions[i].state
        /\ sessions[i].age < sessions[i].timeout
        /\ sessions'[i].timeout = sessions[i].timeout - sessions[i].age
        /\ sessions'[i].age = 0 /\ quiet'[i] = quiet[i]
    BY <1>5 DEF SlotMeasured, Measured, Kept
  <2> QED BY <1>2, <2>1, SlotNumbers DEF InTime
<1>6. CASE SlotTimedOut(i) \/ SlotStarted(i)
  <2>1. /\ sessions'[i].age = 0 /\ quiet'[i] = 0
        /\ sessions'[i].state = "transmitting" => sessions'[i].timeout = GB_BURST_INTERVAL
        /\ sessions'[i].timeout \in Nat
    BY <1>2, <1>6 DEF SlotTimedOut, SlotStarted, Bursted
  <2> QED BY <1>2, <2>1 DEF InTime
<1>7. CASE SlotOpened(i)
  BY <1>2, <1>7 DEF SlotOpened, InTime
<1> QED BY <1>1, <1>3, <1>4, <1>5, <1>6, <1>7

LEMMA WaitsForFirstStep ==
  ASSUME TypeOK, WaitOfTask, [Next]_vars, orderly, WaitsForFirst
  PROVE  WaitsForFirst'
<1>1. CASE UNCHANGED vars
  BY <1>1 DEF vars, taskVars, WaitsForFirst, Active
<1>2. CASE MemoryWrite
  BY <1>2 DEF MemoryWrite, taskVars, WaitsForFirst, Active
<1>3. CASE Tick
  <2>1. pc = "recv" /\ pc' = "recv" /\ waited < wait /\ wait' = wait
        /\ waited' = Bump(waited, MAX_DELAY)
    BY <1>3 DEF Tick
  <2>2. ASSUME NEW i \in Slots, Active(i)'
        PROVE  sessions'[i].age = waited' /\ wait' <= sessions'[i].timeout
    <3>1. Active(i) /\ sessions'[i].timeout = sessions[i].timeout
      BY <1>3, <2>2, TickParts DEF Active, Kept
    <3>2. sessions'[i].age = Bump(sessions[i].age, GB_TIMEOUT + 1)
      BY <1>3, <3>1, TickParts
    <3>3. sessions[i].age = waited /\ wait <= sessions[i].timeout
      BY <2>1, <3>1 DEF WaitsForFirst
    <3> QED BY <2>1, <3>1, <3>2, <3>3, SlotNumbers, GetTimesAssumption DEF Bump
  <2> QED BY <2>2 DEF WaitsForFirst
<1>4. CASE Timer
  <2>1. PICK room \in [Transmitting -> Rooms] : ReceiveTimeout(room) \/ Scan(room)
    BY <1>4 DEF Timer
  <2>2. CASE ReceiveTimeout(room)
    BY <2>2 DEF ReceiveTimeout, ToScan, WaitsForFirst
  <2>3. CASE Scan(room)
    <3>1. \A i \in Slots : sessions'[i].state # "idle" => sessions'[i].age = 0
      <4>1. ASSUME NEW i \in Slots, sessions'[i].state # "idle"
            PROVE  sessions'[i].age = 0
        <5>1. sessions'[i] = Checked(sessions[i], room[i]) /\ sessions[i] \in Session
          BY <2>3, SlotType DEF Scan
        <5>2. sessions[i].state = "transmitting" => room[i] \in 0..GB_BURST_SIZE
          BY RoomType
        <5>3. /\ sessions[i].state = "idle" => sessions'[i] = sessions[i]
              /\ TimeIsUp(sessions[i]) => Expired(sessions[i], sessions'[i], room[i])
              /\ ~TimeIsUp(sessions[i]) /\ sessions[i].state # "idle" => sessions'[i].age = 0
          BY <5>1, <5>2, CheckedParts
        <5> QED BY <4>1, <5>3 DEF Expired, Bursted
      <4> QED BY <4>1
    <3>2. \A i \in Slots : sessions'[i].state # "idle" => wait' <= sessions'[i].timeout
      <4>1. CASE \A i \in Slots : sessions'[i].state = "idle"
        BY <4>1
      <4>2. CASE ~\A i \in Slots : sessions'[i].state = "idle"
        <5>1. PICK k \in Slots : IsNextTimeout(k, sessions') /\ wait' = sessions'[k].timeout
          BY <2>3, <4>2 DEF Scan
        <5>2. sessions' \in [Slots -> Session]
          BY <2>3, ScanShape DEF Timed
        <5>3. \A i \in Slots : sessions'[i].timeout \in Nat
          BY <5>2, SessionParts
        <5> QED BY <5>1, <5>3 DEF IsNextTimeout
      <4> QED BY <4>1, <4>2
    <3> QED BY <2>3, <3>1, <3>2 DEF Scan, WaitsForFirst, Active
  <2> QED BY <2>1, <2>2, <2>3
<1>5. CASE FrameIn
  <2>1. ASSUME NEW src \in Sources, Refused(src)
        PROVE  WaitsForFirst'
    BY <2>1 DEF Refused, ToScan, WaitsForFirst, Active
  <2>2. ASSUME NEW i \in Slots, NEW t \in Session, Takes(i, t)
        PROVE  WaitsForFirst'
    BY <2>2, TakesType DEF WaitsForFirst
  <2>3. ASSUME NEW src, NEW i \in Slots, NEW t \in Session, NEW last, NEW address,
               Opening(src, i, t, last, address)
        PROVE  WaitsForFirst'
    BY <2>2, <2>3 DEF Opening
  <2>4. ASSUME NEW src, NEW i \in Slots, NEW t \in Session, Closing(src, i, t)
        PROVE  WaitsForFirst'
    BY <2>2, <2>4 DEF Closing
  <2>5. ASSUME NEW src, NEW i \in Slots, NEW s, NEW t \in Session, NEW blocks, NEW room,
               Starting(src, i, s, t, blocks, room)
        PROVE  WaitsForFirst'
    BY <2>2, <2>5 DEF Starting
  <2> QED BY <1>5, <2>1, <2>3, <2>4, <2>5, FrameShape
<1> QED BY <1>1, <1>2, <1>3, <1>4, <1>5 DEF Next

LEMMA RunsPromptly == Spec => []Prompt
<1>1. Init => Prompt
  BY DEF Init, Prompt, WaitsForFirst, InTime, Active
<1>2. TypeOK /\ WaitOfTask /\ Prompt /\ [Next]_vars => Prompt'
  <2> SUFFICES ASSUME TypeOK, WaitOfTask, Prompt, [Next]_vars, orderly' PROVE Prompt'
    BY DEF Prompt
  <2>1. orderly
    BY DEF Next, vars
  <2> QED BY <2>1, InTimeStep, WaitsForFirstStep DEF Prompt
<1> QED BY <1>1, <1>2, TypeCorrect, WaitsForASession, PTL DEF Spec

\* While the task runs promptly no burst comes late, for every number of sessions
\* that share the block time.
THEOREM BurstsNotLate == Spec => []BurstsOnTime
<1>1. TypeOK /\ Prompt => BurstsOnTime
  <2> SUFFICES ASSUME TypeOK, Prompt, orderly, NEW i \in Slots,
                      sessions[i].state = "transmitting"
               PROVE  quiet[i] <= GB_BURST_INTERVAL
    BY DEF BurstsOnTime
  <2>1. /\ sessions[i].age <= sessions[i].timeout
        /\ quiet[i] + sessions[i].timeout <= GB_BURST_INTERVAL + sessions[i].age
    BY DEF Prompt, InTime, Active
  <2> QED BY <2>1, SlotNumbers, GetTimesAssumption
<1> QED BY <1>1, TypeCorrect, RunsPromptly, PTL

-----------------------------------------------------------------------------
(* The service                                                             *)

\* No requested range of memory wraps in ADDRESS_TYPE.
NoWrap == \A a \in Addresses : a + (MaxSeq + 1) * BlockLen < ADDRESS_MOD

\* What a session is to the service, and the transfer of a node in a table.
View(s) ==
  [phase |-> "open", last |-> s.max_seq, data |-> s.buffer,
   due |-> IF s.state = "transmitting" THEN Due(s) ELSE {}]

Owns(table, i, src) == table[i].source = src /\ table[i].state # "idle"

TransferIn(table, src) ==
  IF \E i \in Slots : Owns(table, i, src)
  THEN View(table[CHOOSE i \in Slots : Owns(table, i, src)])
  ELSE [phase |-> "none"]

Unique(table) ==
  \A i, j \in Slots :
    table[i].state # "idle" /\ table[j].state # "idle" /\ table[i].source = table[j].source => i = j

\* The transfers of the service, before and after a step.
AllTransfers == [src \in Sources |-> TransferOf(src)]

LEMMA TransferAt ==
  ASSUME NEW src
  PROVE  TransferOf(src) = TransferIn(sessions, src) /\ TransferOf(src)' = TransferIn(sessions', src)
BY DEF TransferOf, TransferIn, HasSession, Matches, Active, View, Owns, Due

LEMMA TransfersNow ==
  /\ AllTransfers = [src \in Sources |-> TransferIn(sessions, src)]
  /\ AllTransfers' = [src \in Sources |-> TransferIn(sessions', src)]
BY TransferAt DEF AllTransfers

LEMMA OwnedView ==
  ASSUME NEW table, Unique(table), NEW i \in Slots, NEW src, Owns(table, i, src)
  PROVE  TransferIn(table, src) = View(table[i])
<1>1. \A j \in Slots : Owns(table, j, src) => j = i
  BY DEF Unique, Owns
<1>2. (CHOOSE j \in Slots : Owns(table, j, src)) = i
  BY <1>1
<1> QED BY <1>2 DEF TransferIn

LEMMA NotOwned ==
  ASSUME NEW table, NEW src, \A i \in Slots : ~Owns(table, i, src)
  PROVE  TransferIn(table, src) = [phase |-> "none"]
BY DEF TransferIn

LEMMA UniqueTables ==
  ASSUME OneSessionPerSource, OneSessionPerSource'
  PROVE  Unique(sessions) /\ Unique(sessions')
BY DEF OneSessionPerSource, Unique, Active

\* What a session of a node is to the service.
LEMMA TransferSeen ==
  ASSUME OneSessionPerSource, NEW i \in Slots, NEW src \in Sources, Matches(i, src)
  PROVE  AllTransfers[src] = View(sessions[i])
<1>1. Unique(sessions) /\ Owns(sessions, i, src)
  BY DEF OneSessionPerSource, Unique, Active, Owns, Matches
<1> QED BY <1>1, OwnedView, TransfersNow

LEMMA NoTransferSeen ==
  ASSUME NEW src \in Sources, ~HasSession(src)
  PROVE  AllTransfers[src] = [phase |-> "none"]
BY TransfersNow, NotOwned DEF HasSession, Matches, Active, Owns

\* A session that goes on, or is opened, changes the transfer of its node.
LEMMA OwnerChanged ==
  ASSUME TypeOK, OneSessionPerSource, OneSessionPerSource', NEW i \in Slots, NEW src \in Sources,
         NEW t, sessions' = [sessions EXCEPT ![i] = t],
         Matches(i, src) \/ (~HasSession(src) /\ ~Active(i)),
         t.source = src
  PROVE  AllTransfers' = [AllTransfers EXCEPT ![src] =
                            IF t.state = "idle" THEN [phase |-> "none"] ELSE View(t)]
<1> DEFINE after == sessions'
<1>1. Unique(sessions) /\ Unique(after)
  BY UniqueTables
<1>2. after[i] = t /\ \A j \in Slots \ {i} : after[j] = sessions[j]
  BY DEF TypeOK
<1>3. AllTransfers' = [other \in Sources |-> TransferIn(after, other)]
  BY TransfersNow
<1> HIDE DEF after
<1>4. \A j \in Slots \ {i} : ~Owns(sessions, j, src)
  BY <1>1 DEF Matches, HasSession, Active, Owns, Unique
<1>5. ASSUME NEW other \in Sources, other # src
      PROVE  TransferIn(after, other) = TransferIn(sessions, other)
  <2>1. ~Owns(sessions, i, other) /\ ~Owns(after, i, other)
    BY <1>2, <1>5 DEF Matches, Active, Owns
  <2>2. \A j \in Slots : Owns(after, j, other) <=> Owns(sessions, j, other)
    BY <1>2, <2>1 DEF Owns
  <2>3. CASE \E j \in Slots : Owns(sessions, j, other)
    <3>1. PICK j \in Slots : Owns(sessions, j, other)
      BY <2>3
    <3>2. j # i
      BY <2>1, <3>1
    <3> QED BY <1>1, <1>2, <2>2, <3>1, <3>2, OwnedView
  <2>4. CASE ~\E j \in Slots : Owns(sessions, j, other)
    BY <2>2, <2>4, NotOwned
  <2> QED BY <2>3, <2>4
<1>6. TransferIn(after, src) = IF t.state = "idle" THEN [phase |-> "none"] ELSE View(t)
  <2>1. CASE t.state = "idle"
    <3>1. \A j \in Slots : ~Owns(after, j, src)
      BY <1>2, <1>4, <2>1 DEF Owns
    <3> QED BY <2>1, <3>1, NotOwned
  <2>2. CASE t.state # "idle"
    <3>1. Owns(after, i, src)
      BY <1>2, <2>2 DEF Owns
    <3> QED BY <1>1, <1>2, <2>2, <3>1, OwnedView
  <2> QED BY <2>1, <2>2
<1> QED BY <1>3, <1>5, <1>6, TransfersNow

LEMMA OwnerGoesOn ==
  ASSUME TypeOK, OneSessionPerSource, OneSessionPerSource', NEW i \in Slots, NEW src \in Sources,
         NEW t, sessions' = [sessions EXCEPT ![i] = t],
         Matches(i, src) \/ (~HasSession(src) /\ ~Active(i)),
         t.source = src, t.state # "idle"
  PROVE  AllTransfers' = [AllTransfers EXCEPT ![src] = View(t)]
<1>1. AllTransfers' = [AllTransfers EXCEPT ![src] =
                         IF t.state = "idle" THEN [phase |-> "none"] ELSE View(t)]
  BY OwnerChanged
<1>2. (IF t.state = "idle" THEN [phase |-> "none"] ELSE View(t)) = View(t)
  OBVIOUS
<1> QED BY <1>1, <1>2, Zenon

LEMMA SameCardinality == \A S : Service!Cardinality(S) = Cardinality(S)
BY DEF Service!Cardinality, Cardinality

\* A frame that is refused changes no transfer.
LEMMA RefusedServes ==
  ASSUME NEW src \in Sources, Refused(src)
  PROVE  Service!RefuseFrame(src)
<1>1. AllTransfers' = AllTransfers
  BY TransfersNow DEF Refused
<1> QED BY <1>1 DEF Refused, Nack, Service!RefuseFrame, Service!Answer, AllTransfers

\* Without a wrap the check of a request bounds the transfer.
LEMMA ReadFits ==
  ASSUME NoWrap, NEW address \in Addresses, NEW last \in 0..MaxSeq,
         InMemory(address, (last + 1) * BlockLen)
  PROVE  /\ address + (last + 1) * BlockLen <= MEM_SIZE
         /\ address \in 0..(MEM_SIZE - 1)
<1>1. \A m, n, k \in Nat : m <= n => m * k <= n * k /\ m * k \in Nat
  BY Z3
<1>2. \A m, k \in Nat \ {0} : m * k >= 1
  BY Z3
<1> DEFINE size == (last + 1) * BlockLen
           longest == (MaxSeq + 1) * BlockLen
<1>3. /\ last + 1 \in Nat \ {0} /\ MaxSeq + 1 \in Nat /\ last + 1 <= MaxSeq + 1
      /\ BlockLen \in Nat \ {0}
  BY GetSizesAssumption
<1>4. size \in Nat /\ longest \in Nat /\ size <= longest /\ size >= 1
  BY <1>1, <1>2, <1>3
<1>5. address \in Nat /\ address + longest < ADDRESS_MOD
  BY GetSizesAssumption DEF NoWrap
<1>6. (address + size) % ADDRESS_MOD <= MEM_SIZE
  BY DEF InMemory
<1> HIDE DEF size, longest
<1>7. address + size \in 0..(ADDRESS_MOD - 1)
  BY <1>4, <1>5, GetSizesAssumption
<1>8. (address + size) % ADDRESS_MOD = address + size
  BY <1>7, GetSizesAssumption
<1>9. address + size <= MEM_SIZE
  BY <1>6, <1>8
<1>10. address \in 0..(MEM_SIZE - 1)
  BY <1>4, <1>5, <1>9, GetSizesAssumption
<1> QED BY <1>9, <1>10 DEF size

\* While a slot is free fewer transfers are open than there are slots.
LEMMA RoomForOne ==
  ASSUME NEW i \in Slots, ~Active(i)
  PROVE  Cardinality(Service!OpenTransfers) < MAX_GB_SESSIONS
<1> DEFINE active == {j \in Slots : Active(j)}
           owners == {sessions[j].source : j \in active}
           open == Service!OpenTransfers
<1>1. IsFiniteSet(Slots) /\ Cardinality(Slots) = MAX_GB_SESSIONS
  <2>1. MAX_GB_SESSIONS \in Nat
    BY GetSizesAssumption
  <2> QED BY <2>1, FS_Interval DEF Slots
<1>2. active \subseteq Slots \ {i}
  OBVIOUS
<1>3. IsFiniteSet(Slots \ {i}) /\ Cardinality(Slots \ {i}) = MAX_GB_SESSIONS - 1
  BY <1>1, FS_RemoveElement
<1>4. IsFiniteSet(active) /\ Cardinality(active) <= MAX_GB_SESSIONS - 1
  BY <1>2, <1>3, FS_Subset
<1>5. open \subseteq owners
  <2> SUFFICES ASSUME NEW other \in open PROVE other \in owners
    OBVIOUS
  <2>1. other \in Sources /\ AllTransfers[other].phase = "open"
    BY DEF Service!OpenTransfers, Service!IsOpen, AllTransfers
  <2>2. HasSession(other)
    BY <2>1, NoTransferSeen
  <2> QED BY <2>2 DEF HasSession, Matches
<1>6. IsFiniteSet(owners) /\ Cardinality(owners) <= Cardinality(active)
  <2> DEFINE f == [j \in active |-> sessions[j].source]
  <2>1. f \in Surjection(active, owners)
    BY DEF Surjection
  <2> HIDE DEF active, owners, f
  <2> QED BY <1>4, <2>1, FS_Surjection
<1> HIDE DEF open, owners, active
<1>7. IsFiniteSet(open) /\ Cardinality(open) <= Cardinality(owners)
  BY <1>5, <1>6, FS_Subset
<1>8. Cardinality(open) \in Nat /\ Cardinality(owners) \in Nat /\ Cardinality(active) \in Nat
  BY <1>4, <1>6, <1>7, FS_CardinalityType
<1> QED BY <1>4, <1>6, <1>7, <1>8, GetSizesAssumption DEF open

\* A request that is accepted opens a transfer.
LEMMA OpeningServes ==
  ASSUME NoWrap, TypeOK, OneSessionPerSource, OneSessionPerSource',
         NEW src \in Sources, NEW i \in Slots, NEW t \in Session,
         NEW last \in 0..MaxSeq, NEW address \in Addresses, Opening(src, i, t, last, address)
  PROVE  \E a \in 0..(MEM_SIZE - 1), l \in 0..MaxSeq : Service!Open(src, a, l)
<1>1. /\ ~HasSession(src) /\ ~Active(i) /\ InMemory(address, (last + 1) * BlockLen)
      /\ t.source = src /\ t.max_seq = last /\ t.state = "wait_on_start"
      /\ t.buffer = [version |-> memory, address |-> address]
      /\ sessions' = [sessions EXCEPT ![i] = t]
      /\ sent' = Ack(src) /\ memory' = memory
  BY DEF Opening, Takes
<1>2. View(t) = Service!Opened(address, last)
  BY <1>1 DEF View, Service!Opened
<1>3. AllTransfers' = [AllTransfers EXCEPT ![src] = Service!Opened(address, last)]
  <2>1. AllTransfers' = [AllTransfers EXCEPT ![src] = View(t)]
    <3>1. t.state # "idle" /\ t.source = src
      BY <1>1
    <3> QED BY <1>1, <3>1, OwnerGoesOn
  <2> QED BY <1>2, <2>1
<1>4. AllTransfers[src].phase # "open"
  BY <1>1, NoTransferSeen
<1>5. Cardinality(Service!OpenTransfers) < MAX_GB_SESSIONS
  BY <1>1, RoomForOne
<1>6. address + (last + 1) * BlockLen <= MEM_SIZE /\ address \in 0..(MEM_SIZE - 1)
  BY <1>1, ReadFits
<1>7. Service!Open(src, address, last)
  BY <1>1, <1>3, <1>4, <1>5, <1>6, SameCardinality
     DEF Service!Open, Service!IsOpen, Service!Answer, Ack, AllTransfers
<1> QED BY <1>6, <1>7

\* An abort cancels the transfer.
LEMMA ClosingServes ==
  ASSUME TypeOK, OneSessionPerSource, OneSessionPerSource',
         NEW src \in Sources, NEW i \in Slots, NEW t \in Session, Closing(src, i, t)
  PROVE  Service!Cancel(src)
<1>1. /\ Matches(i, src) /\ t.source = src /\ t.state = "idle"
      /\ sessions' = [sessions EXCEPT ![i] = t]
      /\ sent' = Ack(src) /\ memory' = memory
  BY DEF Closing, Takes
<1>2. AllTransfers' = [AllTransfers EXCEPT ![src] = Service!NoTransfer]
  BY <1>1, OwnerChanged DEF Service!NoTransfer
<1>3. AllTransfers[src].phase = "open"
  <2>1. AllTransfers[src] = View(sessions[i])
    BY <1>1, TransferSeen
  <2> QED BY <2>1 DEF View
<1> QED BY <1>1, <1>2, <1>3 DEF Service!Cancel, Service!IsOpen, Service!Answer, Ack, AllTransfers

\* What a burst changes of a session, as the service sees it.
LEMMA BurstedView ==
  ASSUME NEW s \in Session, NEW t, NEW room \in 0..GB_BURST_SIZE, s.state = "transmitting",
         s.cur_seq <= s.max_seq, Bursted(s, t, room)
  PROVE  /\ View(t) = [View(s) EXCEPT !.due = @ \ Burst(s, room)]
         /\ View(t).due = Due(s) \ Burst(s, room)
         /\ \A q \in Burst(s, room), r \in Due(s) \ Burst(s, room) : q < r
         /\ Burst(s, room) \subseteq Due(s) /\ Due(s) \subseteq 0..s.max_seq
         /\ t.state # "idle"
<1> DEFINE n == NextSeq(s, room)
           blocks == Burst(s, room)
           all == Due(s)
<1>1. s.max_seq \in Nat /\ s.cur_seq \in Nat /\ s.mask \subseteq 0..MaxSeq
  BY SessionParts
<1>2. /\ all \subseteq 0..s.max_seq
      /\ \A q \in s.mask : q \in all <=> s.cur_seq <= q /\ q <= s.max_seq
      /\ all \subseteq s.mask
  BY <1>1, GetSizesAssumption DEF Due
<1>3. /\ blocks \subseteq all /\ n \in 0..(s.max_seq + 1)
      /\ \A q \in all : q \in blocks <=> q < n
      /\ s.cur_seq <= n
  BY BurstSplits
<1>4. /\ t.max_seq = s.max_seq /\ t.mask = s.mask /\ t.buffer = s.buffer /\ t.cur_seq = n
      /\ t.state = IF n > s.max_seq THEN "wait_on_start" ELSE "transmitting"
  BY DEF Bursted
<1>5. View(s) = [phase |-> "open", last |-> s.max_seq, data |-> s.buffer, due |-> all]
  BY DEF View
<1>6. View(t) = [phase |-> "open", last |-> s.max_seq, data |-> s.buffer,
                 due |-> IF n > s.max_seq THEN {} ELSE {q \in s.mask : n <= q /\ q <= s.max_seq}]
  BY <1>4 DEF View, Due
<1> HIDE DEF n, blocks, all
<1>7. \A q \in blocks, r \in all \ blocks : q < r
  <2> SUFFICES ASSUME NEW q \in blocks, NEW r \in all \ blocks PROVE q < r
    OBVIOUS
  <2>1. q < n /\ ~(r < n) /\ q \in Nat /\ r \in Nat /\ n \in Nat
    BY <1>1, <1>2, <1>3
  <2> QED BY <2>1
<1>8. (IF n > s.max_seq THEN {} ELSE {q \in s.mask : n <= q /\ q <= s.max_seq}) = all \ blocks
  <2>1. \A q \in s.mask : q \in Nat
    BY <1>1, GetSizesAssumption
  <2>2. CASE n > s.max_seq
    <3>1. \A q \in all : q < n
      BY <1>1, <1>2, <1>3, <2>2
    <3> QED BY <1>3, <2>2, <3>1
  <2>3. CASE ~(n > s.max_seq)
    <3>1. \A q \in s.mask : q \in all \ blocks <=> n <= q /\ q <= s.max_seq
      BY <1>1, <1>2, <1>3, <2>1, <2>3
    <3> QED BY <1>2, <2>3, <3>1
  <2> QED BY <2>2, <2>3
<1>9. View(t) = [View(s) EXCEPT !.due = @ \ blocks] /\ View(t).due = all \ blocks
  BY <1>5, <1>6, <1>8
<1>10. t.state # "idle"
  BY <1>4
<1> QED BY <1>2, <1>3, <1>7, <1>9, <1>10 DEF blocks, all

\* A start frame names the blocks that are due, and the first burst of them goes
\* out at once.
LEMMA StartingServes ==
  ASSUME TypeOK, OneSessionPerSource, OneSessionPerSource',
         NEW src \in Sources, NEW i \in Slots, NEW s \in Session, NEW t \in Session,
         NEW blocks, NEW room \in Rooms, Starting(src, i, s, t, blocks, room)
  PROVE  \E node \in Service!OpenTransfers :
           \E part, left \in SUBSET (0..AllTransfers[node].last) : Service!Start(node, part, left)
<1> DEFINE part == Burst(s, room)
           left == Due(s) \ part
           old == sessions[i]
<1>1. /\ Matches(i, src) /\ s.source = src /\ s.max_seq = old.max_seq /\ s.buffer = old.buffer
      /\ s.state = "transmitting" /\ s.cur_seq = 0 /\ Bursted(s, t, room)
      /\ sessions' = [sessions EXCEPT ![i] = t]
      /\ sent' = Transfers(s, room) /\ memory' = memory
  BY DEF Starting, Takes
<1>2. room \in 0..GB_BURST_SIZE /\ s.cur_seq <= s.max_seq
  BY <1>1, SessionParts, GetSizesAssumption DEF Rooms
<1>3. /\ View(t) = [View(s) EXCEPT !.due = @ \ part] /\ View(t).due = left
      /\ \A q \in part, r \in left : q < r
      /\ part \subseteq Due(s) /\ Due(s) \subseteq 0..s.max_seq /\ t.state # "idle"
  BY <1>1, <1>2, BurstedView
<1>4. AllTransfers[src] = View(old)
  BY <1>1, TransferSeen
<1>5. View(t) = [View(old) EXCEPT !.due = left]
  BY <1>1, <1>3 DEF View
<1>6. AllTransfers' = [AllTransfers EXCEPT ![src] = View(t)]
  <2>1. t.source = src
    BY <1>1 DEF Bursted
  <2>2. /\ sessions' = [sessions EXCEPT ![i] = t] /\ Matches(i, src) /\ t.state # "idle"
    BY <1>1, <1>3
  <2> HIDE DEF part, left, old
  <2> QED BY <2>1, <2>2, OwnerGoesOn
<1>7. AllTransfers' = [AllTransfers EXCEPT ![src].due = left]
  BY <1>4, <1>5, <1>6 DEF AllTransfers
<1>8. AllTransfers[src].last = s.max_seq /\ AllTransfers[src].phase = "open"
      /\ AllTransfers[src].data = s.buffer
  BY <1>1, <1>4 DEF View
<1>9. sent' = Service!Frames(src, part)
  BY <1>1, <1>8 DEF Transfers, Service!Frames, AllTransfers
<1> HIDE DEF part
<1>10. part \in SUBSET (0..AllTransfers[src].last) /\ left \in SUBSET (0..AllTransfers[src].last)
  BY <1>3, <1>8
<1> HIDE DEF left
<1>11. Service!Start(src, part, left)
  BY <1>1, <1>3, <1>7, <1>9 DEF Service!Start, Service!InOrder, AllTransfers
<1>12. src \in Service!OpenTransfers
  BY <1>8 DEF Service!OpenTransfers, Service!IsOpen, AllTransfers
<1> QED BY <1>10, <1>11, <1>12

\* A step that times slots out, and changes nothing else the service can see.
Passing(expired, room) ==
  /\ \A i \in Slots :
       /\ sessions'[i].source = sessions[i].source
       /\ i \in expired => Expired(sessions[i], sessions'[i], room[i])
       /\ i \notin expired => Kept(sessions[i], sessions'[i])
       /\ sessions[i].state = "transmitting" => room[i] \in 0..GB_BURST_SIZE
  /\ sent' = UNION {Transfers(sessions[i], room[i]) : i \in expired \cap Transmitting}
  /\ UNCHANGED memory

\* What such a step does to the transfer of a node.
LEMMA PassingTransfer ==
  ASSUME TypeOK, OneSessionPerSource, OneSessionPerSource', AllExact,
         NEW expired \in SUBSET Slots, NEW room, Passing(expired, room),
         NEW i \in Slots, NEW src \in Sources, Matches(i, src)
  PROVE  /\ IF Active(i)'
            THEN /\ AllTransfers'[src] = View(sessions'[i])
                 /\ Service!Gone(src) = IF i \in expired THEN Burst(sessions[i], room[i]) ELSE {}
                 /\ Service!Send(src)
            ELSE Service!Gone(src) = {} /\ Service!Expire(src)
         /\ i \in expired /\ Active(i)' => i \in Transmitting
<1> DEFINE s == sessions[i]
           t == sessions'[i]
           gone == Service!Gone(src)
<1>1. /\ t.source = s.source /\ s \in Session /\ s.source = src /\ s.state # "idle"
      /\ i \in expired => Expired(s, t, room[i])
      /\ i \notin expired => Kept(s, t)
      /\ s.state = "transmitting" => room[i] \in 0..GB_BURST_SIZE /\ s.cur_seq <= s.max_seq
  BY SlotType DEF Passing, Matches, Active, AllExact, Exact
<1>2. Unique(sessions) /\ Unique(sessions')
  BY UniqueTables
<1>3. AllTransfers[src] = View(s)
  BY TransferSeen
<1>4. gone = IF AllTransfers'[src].phase = "open"
             THEN AllTransfers[src].due \ AllTransfers'[src].due ELSE {}
  BY DEF Service!Gone, Service!IsOpen, AllTransfers
<1>5. \A S : AllTransfers'[src] = [AllTransfers[src] EXCEPT !.due = @ \ S] /\ gone = S
               /\ (\A q \in S, r \in AllTransfers'[src].due : q < r)
            => Service!Send(src)
  BY DEF Service!Send, Service!InOrder, AllTransfers
<1>6. CASE t.state # "idle"
  <2>1. Owns(sessions', i, src)
    BY <1>1, <1>6 DEF Owns
  <2>2. AllTransfers'[src] = View(t)
    BY <1>2, <2>1, OwnedView, TransfersNow
  <2>3. View(t).phase = "open"
    BY DEF View
  <2>4. CASE i \in expired
    <3> DEFINE part == Burst(s, room[i])
    <3>1. s.state = "transmitting" /\ Bursted(s, t, room[i])
      BY <1>1, <1>6, <2>4 DEF Expired
    <3>2. /\ View(t) = [View(s) EXCEPT !.due = @ \ part] /\ View(t).due = Due(s) \ part
          /\ \A q \in part, r \in Due(s) \ part : q < r
          /\ part \subseteq Due(s)
      BY <1>1, <3>1, BurstedView
    <3>3. View(s).due = Due(s)
      BY <3>1 DEF View
    <3> HIDE DEF part
    <3>4. gone = part
      BY <1>3, <1>4, <2>2, <2>3, <3>2, <3>3
    <3>5. Service!Send(src)
      BY <1>3, <1>5, <2>2, <3>2, <3>4
    <3> QED BY <1>6, <2>2, <2>4, <3>1, <3>4, <3>5 DEF part, Transmitting, Active
  <2>5. CASE i \notin expired
    <3>1. View(t) = View(s)
      BY <1>1, <2>5 DEF Kept, View, Due
    <3>2. gone = {}
      BY <1>3, <1>4, <2>2, <3>1
    <3>3. View(t) = [View(s) EXCEPT !.due = @ \ {}]
      BY <3>1 DEF View
    <3>4. Service!Send(src)
      BY <1>3, <1>5, <2>2, <3>2, <3>3
    <3> QED BY <1>6, <2>2, <2>5, <3>2, <3>4 DEF Active
  <2> QED BY <2>4, <2>5
<1>7. CASE t.state = "idle"
  <2>1. s.state # "transmitting"
    BY <1>1, <1>7 DEF Expired, Kept, Bursted
  <2>2. \A j \in Slots : ~Owns(sessions', j, src)
    <3> SUFFICES ASSUME NEW j \in Slots, Owns(sessions', j, src) PROVE FALSE
      OBVIOUS
    <3>1. sessions[j].source = src /\ sessions[j].state # "idle"
      BY DEF Passing, Owns, Expired, Kept
    <3>2. j = i
      BY <1>1, <1>2, <3>1 DEF Unique
    <3> QED BY <1>7, <3>2 DEF Owns
  <2>3. AllTransfers'[src] = [phase |-> "none"]
    BY <2>2, NotOwned, TransfersNow
  <2>4. gone = {}
    BY <1>4, <2>3
  <2>5. View(s).due = {}
    BY <2>1 DEF View
  <2> QED BY <1>3, <1>7, <2>3, <2>4, <2>5
           DEF Service!Expire, Service!NoTransfer, AllTransfers, Active
<1> QED BY <1>6, <1>7

\* Such a step sends what it took off the transfers.
LEMMA PassingServes ==
  ASSUME Typed, OneSessionPerSource, OneSessionPerSource', AllExact,
         NEW expired \in SUBSET Slots, NEW room, Passing(expired, room)
  PROVE  Service!Proceed
<1>1. TypeOK /\ \A i \in Slots : Active(i) => sessions[i].source \in Sources
  BY DEF Typed, Owned
<1>2. \A src \in Sources : src \in Service!OpenTransfers <=> HasSession(src)
  <2> SUFFICES ASSUME NEW src \in Sources
               PROVE  AllTransfers[src].phase = "open" <=> HasSession(src)
    BY DEF Service!OpenTransfers, Service!IsOpen, AllTransfers
  <2>1. CASE HasSession(src)
    <3>1. PICK i \in Slots : Matches(i, src)
      BY <2>1 DEF HasSession
    <3>2. View(sessions[i]).phase = "open"
      BY DEF View
    <3> QED BY <2>1, <3>1, <3>2, TransferSeen
  <2>2. CASE ~HasSession(src)
    BY <2>2, NoTransferSeen
  <2> QED BY <2>1, <2>2
<1>3. ASSUME NEW src \in Sources, ~HasSession(src)
      PROVE  AllTransfers'[src] = [phase |-> "none"]
  <2>1. \A j \in Slots : ~Owns(sessions', j, src)
    BY <1>3 DEF Passing, Owns, Expired, Kept, HasSession, Matches, Active
  <2> QED BY <2>1, NotOwned, TransfersNow
<1>4. ASSUME NEW src \in Sources
      PROVE  IF Service!IsOpen(src) THEN Service!Send(src) \/ Service!Expire(src)
                                    ELSE AllTransfers'[src] = Service!NoTransfer
  <2>1. Service!IsOpen(src) <=> HasSession(src)
    BY <1>2 DEF Service!OpenTransfers
  <2>2. CASE HasSession(src)
    <3>1. PICK i \in Slots : Matches(i, src)
      BY <2>2 DEF HasSession
    <3> QED BY <1>1, <2>1, <2>2, <3>1, PassingTransfer
  <2>3. CASE ~HasSession(src)
    BY <1>3, <2>1, <2>3 DEF Service!NoTransfer
  <2> QED BY <2>2, <2>3
<1>5. ASSUME NEW i \in Slots, NEW src \in Sources, Matches(i, src), i \in expired, Active(i)'
      PROVE  Transfers(sessions[i], room[i]) = Service!Frames(src, Service!Gone(src))
  <2>1. Service!Gone(src) = Burst(sessions[i], room[i])
    BY <1>1, <1>5, PassingTransfer
  <2>2. AllTransfers[src].data = sessions[i].buffer /\ sessions[i].source = src
    <3>1. AllTransfers[src] = View(sessions[i])
      BY <1>5, TransferSeen
    <3> QED BY <1>5, <3>1 DEF View, Matches
  <2> QED BY <2>1, <2>2 DEF Transfers, Service!Frames, AllTransfers
<1>6. \A i \in expired \cap Transmitting :
        \E src \in Service!OpenTransfers :
          Transfers(sessions[i], room[i]) = Service!Frames(src, Service!Gone(src))
  <2> SUFFICES ASSUME NEW i \in expired \cap Transmitting
               PROVE  \E src \in Service!OpenTransfers :
                        Transfers(sessions[i], room[i]) = Service!Frames(src, Service!Gone(src))
    OBVIOUS
  <2>1. i \in Slots /\ Active(i) /\ sessions[i].state = "transmitting"
    BY DEF Transmitting, Active
  <2> DEFINE src == sessions[i].source
  <2>2. src \in Sources /\ Matches(i, src) /\ HasSession(src)
    BY <1>1, <2>1 DEF Matches, HasSession
  <2>3. Active(i)'
    BY <2>1 DEF Passing, Expired, Bursted, Active
  <2>4. Transfers(sessions[i], room[i]) = Service!Frames(src, Service!Gone(src))
    BY <1>5, <2>1, <2>2, <2>3
  <2> QED BY <1>2, <2>2, <2>4
<1>7. \A src \in Service!OpenTransfers :
        \/ Service!Frames(src, Service!Gone(src)) = {}
        \/ \E i \in expired \cap Transmitting :
             Transfers(sessions[i], room[i]) = Service!Frames(src, Service!Gone(src))
  <2> SUFFICES ASSUME NEW src \in Service!OpenTransfers
               PROVE  \/ Service!Frames(src, Service!Gone(src)) = {}
                      \/ \E i \in expired \cap Transmitting :
                           Transfers(sessions[i], room[i]) = Service!Frames(src, Service!Gone(src))
    OBVIOUS
  <2>1. src \in Sources
    BY DEF Service!OpenTransfers
  <2>2. PICK i \in Slots : Matches(i, src)
    BY <1>2, <2>1 DEF HasSession
  <2>3. CASE i \in expired /\ Active(i)'
    BY <1>1, <1>5, <2>1, <2>2, <2>3, PassingTransfer
  <2>4. CASE ~(i \in expired /\ Active(i)')
    <3>1. Service!Gone(src) = {}
      BY <1>1, <2>1, <2>2, <2>4, PassingTransfer
    <3> QED BY <3>1 DEF Service!Frames
  <2> QED BY <2>3, <2>4
<1>8. sent' = UNION {Service!Frames(src, Service!Gone(src)) : src \in Service!OpenTransfers}
  <2>1. sent' = UNION {Transfers(sessions[i], room[i]) : i \in expired \cap Transmitting}
    BY DEF Passing
  <2> QED BY <1>6, <1>7, <2>1
<1>9. DOMAIN AllTransfers' = Sources
  BY TransfersNow
<1> QED BY <1>4, <1>8, <1>9 DEF Passing, Service!Proceed, AllTransfers

\* Every step of the task is a step of the service.
LEMMA StepServes ==
  ASSUME NoWrap, Typed, OneSessionPerSource, OneSessionPerSource', AllExact, [Next]_vars
  PROVE  Service!Next \/ UNCHANGED Service!serviceVars
<1>1. TypeOK
  BY DEF Typed
<1>2. CASE FrameIn
  <2>1. PICK src \in Sources :
           \/ Refused(src)
           \/ \E i \in Slots, t \in Session, last \in 0..MaxSeq, address \in Addresses :
                Opening(src, i, t, last, address)
           \/ \E i \in Slots, t \in Session : Closing(src, i, t)
           \/ \E i \in Slots, s \in Session, t \in Session, blocks \in SUBSET (0..MaxSeq),
                 room \in Rooms :
                Starting(src, i, s, t, blocks, room)
    BY <1>1, <1>2, FrameShape
  <2>2. CASE Refused(src)
    BY <2>2, RefusedServes DEF Service!Next
  <2>3. ASSUME NEW i \in Slots, NEW t \in Session, NEW last \in 0..MaxSeq,
               NEW address \in Addresses, Opening(src, i, t, last, address)
        PROVE  Service!Next
    BY <1>1, <2>3, OpeningServes DEF Service!Next
  <2>4. ASSUME NEW i \in Slots, NEW t \in Session, Closing(src, i, t)
        PROVE  Service!Next
    BY <1>1, <2>4, ClosingServes DEF Service!Next
  <2>5. ASSUME NEW i \in Slots, NEW s \in Session, NEW t \in Session, NEW blocks,
               NEW room \in Rooms, Starting(src, i, s, t, blocks, room)
        PROVE  Service!Next
    BY <1>1, <2>5, StartingServes DEF Service!Next, AllTransfers
  <2> QED BY <2>1, <2>2, <2>3, <2>4, <2>5
<1>3. CASE Timer
  <2>1. PICK expired \in SUBSET Slots, room \in [Transmitting -> Rooms] : Timed(expired, room)
    BY <1>1, <1>3, TimerShape
  <2>2. Passing(expired, room)
    BY <2>1, RoomType DEF Timed, HandleTimeouts, Passing
  <2> QED BY <2>2, PassingServes DEF Service!Next
<1>4. CASE Tick
  <2> DEFINE room == [i \in Slots |-> 0]
  <2>1. \A i \in Slots : room[i] \in 0..GB_BURST_SIZE
    BY GetSizesAssumption
  <2>2. \A i \in Slots : Kept(sessions[i], sessions'[i])
    BY <1>1, <1>4, TickParts
  <2>3. sent' = {} /\ memory' = memory
    BY <1>4 DEF Tick
  <2> HIDE DEF room
  <2>4. Passing({}, room)
    BY <2>1, <2>2, <2>3 DEF Passing, Kept
  <2> QED BY <2>4, PassingServes DEF Service!Next
<1>5. CASE MemoryWrite
  <2>1. AllTransfers' = AllTransfers
    BY <1>5, TransfersNow DEF MemoryWrite
  <2> QED BY <1>5, <2>1 DEF MemoryWrite, Service!Write, Service!Next, AllTransfers
<1>6. CASE UNCHANGED vars
  <2>1. AllTransfers' = AllTransfers
    BY <1>6, TransfersNow DEF vars
  <2> QED BY <1>6, <2>1 DEF vars, Service!serviceVars, AllTransfers
<1> QED BY <1>2, <1>3, <1>4, <1>5, <1>6 DEF Next

\* The task with its slots, masks and timers is the service of GetBlockService:
\* what is read is fixed by the request, the blocks of a start frame go out in
\* order and once, and no transfer expires while blocks are due.
THEOREM ServiceImplemented ==
  ASSUME NoWrap
  PROVE  Spec => ImplementsService
<1>1. Init => Service!Init
  <2> SUFFICES ASSUME Init PROVE Service!Init
    OBVIOUS
  <2>1. \A src \in Sources : ~HasSession(src)
    BY DEF Init, HasSession, Matches, Active
  <2>2. AllTransfers = [src \in Sources |-> [phase |-> "none"]]
    BY <2>1, NoTransferSeen DEF AllTransfers
  <2> QED BY <2>2 DEF Init, Service!Init, Service!NoTransfer, AllTransfers
<1> DEFINE Inv == Typed /\ OneSessionPerSource /\ AllExact
<1>2. Spec => []Inv
  BY AllTyped, OneSession, BurstsExact, PTL
<1>3. Inv /\ Inv' /\ [Next]_vars => [Service!Next]_(Service!serviceVars)
  BY StepServes
<1> HIDE DEF Inv
<1> QED BY <1>1, <1>2, <1>3, PTL DEF Spec, ImplementsService, Service!Spec
=============================================================================
