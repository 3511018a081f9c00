-------------------------------- MODULE Rows --------------------------------
(***************************************************************************)
(* Facts about the lists of Lists, and about sequences that hold no        *)
(* element twice: what goes in, what comes out, and in which order.        *)
(***************************************************************************)
EXTENDS Integers, Lists, FiniteSetTheorems, WellFoundedInduction, TLAPS

-----------------------------------------------------------------------------
(* Rows: sequences that hold nothing twice                                 *)

Once(s) == \A m, n \in DOMAIN s : m # n => s[m] # s[n]
Rows(E) == {s \in Seq(E) : Once(s)}
Rising(s, value) == \A m, n \in DOMAIN s : m < n => value[s[m]] <= value[s[n]]

\* u is s with x at the place k, s is u without it.
Slips(E, s, u, x, k) ==
  /\ s \in Rows(E) /\ u \in Seq(E) /\ x \in E
  /\ Len(u) = Len(s) + 1 /\ k \in 1..Len(u)
  /\ u[k] = x
  /\ \A n \in 1..Len(s) : (n < k => u[n] = s[n]) /\ (n >= k => u[n + 1] = s[n])

LEMMA LeastElement ==
  ASSUME NEW T, T \subseteq Nat, T # {}
  PROVE  \E n \in T : \A m \in T : n <= m
<1>1. \E n \in T : \A m \in T : ~(<<m, n>> \in OpToRel(<, Nat))
  BY NatLessThanWellFounded, WFMin
<1>2. PICK n \in T : \A m \in T : ~(<<m, n>> \in OpToRel(<, Nat))
  BY <1>1
<1>3. ASSUME NEW m \in T
      PROVE  n <= m
  <2>1. m \in Nat /\ n \in Nat
    OBVIOUS
  <2>2. ~(m < n)
    BY <1>2, <2>1 DEF OpToRel
  <2> QED
    BY <2>1, <2>2
<1> QED
  BY <1>3

\* Induction up to a bound.
LEMMA BoundedInduction ==
  ASSUME NEW N \in Nat, NEW T, 0 \in T,
         \A n \in 0..N : n \in T /\ n # N => n + 1 \in T
  PROVE  N \in T
<1> SUFFICES ASSUME N \notin T
             PROVE  FALSE
  OBVIOUS
<1>1. PICK n \in (0..N) \ T : \A m \in (0..N) \ T : n <= m
  <2>1. (0..N) \ T \subseteq Nat /\ (0..N) \ T # {}
    OBVIOUS
  <2> QED
    BY <2>1, LeastElement
<1>2. n \in Nat /\ n # 0 /\ n - 1 \in 0..N /\ n - 1 # N /\ ~(n <= n - 1) /\ (n - 1) + 1 = n
  BY <1>1
<1>3. n - 1 \in T
  BY <1>1, <1>2
<1> QED
  BY <1>1, <1>2, <1>3

\* A loop of N passes, of which pass n takes x to step[n][x], can be run, and its
\* values stay in a set that no pass leaves.
Iterates(f, N, S, first, step) ==
  f \in [0..N -> S] /\ f[0] = first /\ \A n \in 1..N : f[n] = step[n][f[n - 1]]

LEMMA Iterated ==
  ASSUME NEW N \in Nat, NEW S, NEW first \in S, NEW step,
         \A n \in 1..N : \A x \in S : step[n][x] \in S
  PROVE  \E f : Iterates(f, N, S, first, step)
<1> DEFINE Runs(f, m) == /\ f \in [0..m -> S] /\ f[0] = first
                         /\ \A n \in 1..m : f[n] = step[n][f[n - 1]]
           T == {m \in 0..N : \E f : Runs(f, m)}
<1>1. 0 \in T
  <2>1. Runs([n \in 0..0 |-> first], 0)
    OBVIOUS
  <2> HIDE DEF Runs
  <2> QED
    BY <2>1
<1>2. ASSUME NEW m \in 0..N, m \in T, m # N
      PROVE  m + 1 \in T
  <2>1. PICK f : Runs(f, m)
    BY <1>2
  <2> DEFINE g == [n \in 0..(m + 1) |-> IF n = m + 1 THEN step[n][f[m]] ELSE f[n]]
  <2>2. m \in Nat /\ m + 1 \in 1..N
    BY <1>2
  <2>3. f[m] \in S /\ step[m + 1][f[m]] \in S
    BY <2>1, <2>2
  <2>4. g \in [0..(m + 1) -> S]
    BY <2>1, <2>2, <2>3
  <2>5. g[0] = first
    BY <2>1, <2>2
  <2>6. ASSUME NEW n \in 1..(m + 1)
        PROVE  g[n] = step[n][g[n - 1]]
    <3>1. n - 1 \in 0..m /\ n - 1 \in 0..(m + 1) /\ n \in 0..(m + 1) /\ n - 1 # m + 1
      BY <2>2
    <3>2. g[n - 1] = f[n - 1]
      BY <3>1
    <3>3. CASE n = m + 1
      <4>1. g[n] = step[n][f[m]] /\ n - 1 = m
        BY <2>2, <3>1, <3>3
      <4> QED
        BY <3>2, <4>1
    <3>4. CASE n # m + 1
      <4>1. g[n] = f[n] /\ n \in 1..m
        BY <2>2, <3>1, <3>4
      <4>2. f[n] = step[n][f[n - 1]]
        BY <2>1, <4>1
      <4> QED
        BY <3>2, <4>1, <4>2
    <3> QED
      BY <3>3, <3>4
  <2> HIDE DEF g
  <2>7. Runs(g, m + 1)
    BY <2>4, <2>5, <2>6
  <2> HIDE DEF Runs
  <2> QED
    BY <2>2, <2>7
<1> HIDE DEF T
<1>3. N \in T
  BY <1>1, <1>2, BoundedInduction
<1>4. PICK f : Runs(f, N)
  BY <1>3 DEF T
<1> QED
  BY <1>4 DEF Iterates

LEMMA IteratesStay ==
  ASSUME NEW N \in Nat, NEW S, NEW w, w[0] \in S,
         \A n \in 1..N : w[n - 1] \in S => w[n] \in S
  PROVE  w[N] \in S
<1> DEFINE T == {n \in 0..N : w[n] \in S}
<1>1. 0 \in T
  OBVIOUS
<1>2. ASSUME NEW n \in 0..N, n \in T, n # N
      PROVE  n + 1 \in T
  <2>1. n + 1 \in 1..N /\ (n + 1) - 1 = n /\ n + 1 \in 0..N
    BY <1>2
  <2> QED
    BY <1>2, <2>1
<1> HIDE DEF T
<1>3. N \in T
  BY <1>1, <1>2, BoundedInduction
<1> QED
  BY <1>3 DEF T

\* The position of x.
LEMMA PositionOf ==
  ASSUME NEW E, NEW s \in Rows(E), NEW x
  PROVE  LET at == SelectInSeq(s, LAMBDA y : y = x)
         IN  /\ x \notin ToSet(s) => at = 0
             /\ x \in ToSet(s) => at \in 1..Len(s) /\ s[at] = x
<1> DEFINE I == {i \in 1..Len(s) : s[i] = x}
<1>1. SelectInSeq(s, LAMBDA y : y = x) = IF I # {} THEN Min(I) ELSE 0
  BY DEF SelectInSeq
<1>2. x \in ToSet(s) <=> I # {}
  BY DEF ToSet, Rows
<1>3. I # {} => Min(I) \in I
  <2> SUFFICES ASSUME I # {} PROVE Min(I) \in I
    OBVIOUS
  <2>1. I \subseteq Nat
    BY DEF Rows
  <2> HIDE DEF I
  <2>2. PICK n \in I : \A m \in I : n <= m
    BY <2>1, LeastElement
  <2> QED
    BY <2>2 DEF Min
<1> QED
  BY <1>1, <1>2, <1>3

\* The shorter row is a row too.
LEMMA SlippedOut ==
  ASSUME NEW E, NEW u \in Rows(E), NEW s \in Seq(E), NEW k \in 1..Len(u),
         Len(u) = Len(s) + 1,
         \A n \in 1..Len(s) : s[n] = IF n < k THEN u[n] ELSE u[n + 1]
  PROVE  Slips(E, s, u, u[k], k)
<1>1. Len(s) \in Nat /\ DOMAIN s = 1..Len(s) /\ DOMAIN u = 1..Len(u) /\ u \in Seq(E)
  BY DEF Rows
<1>2. ASSUME NEW m \in DOMAIN s, NEW n \in DOMAIN s, m # n
      PROVE  s[m] # s[n]
  <2> DEFINE i == IF m < k THEN m ELSE m + 1  j == IF n < k THEN n ELSE n + 1
  <2>1. i \in DOMAIN u /\ j \in DOMAIN u /\ i # j
    BY <1>1, <1>2
  <2>2. s[m] = u[i] /\ s[n] = u[j]
    BY <1>1
  <2> HIDE DEF i, j
  <2> QED
    BY <2>1, <2>2 DEF Rows, Once
<1>3. s \in Rows(E)
  BY <1>2 DEF Rows, Once
<1>4. u[k] \in E
  BY <1>1
<1>5. \A n \in 1..Len(s) : (n < k => u[n] = s[n]) /\ (n >= k => u[n + 1] = s[n])
  BY <1>1
<1> QED
  BY <1>1, <1>3, <1>4, <1>5 DEF Slips

\* What is in the one and in the other.
LEMMA SlipsMembers ==
  ASSUME NEW E, NEW s, NEW u, NEW x, NEW k, Slips(E, s, u, x, k)
  PROVE  /\ ToSet(u) = ToSet(s) \cup {x}
         /\ x \notin ToSet(s) => u \in Rows(E)
         /\ u \in Rows(E) => ToSet(s) = ToSet(u) \ {x}
<1>1. /\ s \in Rows(E) /\ Once(s) /\ u \in Seq(E) /\ x \in E
      /\ Len(u) = Len(s) + 1 /\ k \in 1..Len(u) /\ u[k] = x
      /\ \A n \in 1..Len(s) : (n < k => u[n] = s[n]) /\ (n >= k => u[n + 1] = s[n])
      /\ Len(s) \in Nat /\ DOMAIN s = 1..Len(s) /\ DOMAIN u = 1..Len(u)
  BY DEF Slips, Rows
<1> DEFINE place(n) == IF n < k THEN n ELSE n - 1
<1>2. ASSUME NEW n \in DOMAIN u, n # k
      PROVE  place(n) \in DOMAIN s /\ u[n] = s[place(n)]
  BY <1>1, <1>2
<1>3. ASSUME NEW n \in DOMAIN s
      PROVE  \E i \in DOMAIN u : i # k /\ u[i] = s[n]
  <2>1. CASE n < k
    BY <1>1, <2>1
  <2>2. CASE n >= k
    <3>1. n + 1 \in DOMAIN u /\ n + 1 # k /\ u[n + 1] = s[n]
      BY <1>1, <2>2
    <3> QED
      BY <3>1
  <2> QED
    BY <1>1, <2>1, <2>2
<1>4. ToSet(u) = ToSet(s) \cup {x}
  BY <1>1, <1>2, <1>3 DEF ToSet
<1>5. ASSUME x \notin ToSet(s)
      PROVE  u \in Rows(E)
  <2>1. ASSUME NEW m \in DOMAIN u, NEW n \in DOMAIN u, m # n, u[m] = u[n]
        PROVE  FALSE
    <3>1. CASE m = k \/ n = k
      BY <1>1, <1>2, <1>5, <2>1, <3>1 DEF ToSet
    <3>2. CASE m # k /\ n # k
      <4>1. place(m) # place(n)
        BY <1>1, <2>1, <3>2
      <4>2. /\ place(m) \in DOMAIN s /\ place(n) \in DOMAIN s
            /\ s[place(m)] = s[place(n)]
        BY <1>2, <2>1, <3>2
      <4> HIDE DEF place
      <4> QED
        BY <1>1, <4>1, <4>2 DEF Once
    <3> QED
      BY <3>1, <3>2
  <2> QED
    BY <1>1, <2>1 DEF Rows, Once
<1>6. ASSUME u \in Rows(E)
      PROVE  ToSet(s) = ToSet(u) \ {x}
  <2>1. x \notin ToSet(s)
    BY <1>1, <1>3, <1>6 DEF ToSet, Rows, Once
  <2> QED
    BY <1>4, <2>1
<1> QED
  BY <1>4, <1>5, <1>6

Joins(E, u, a, b) ==
  /\ u \in Seq(E) /\ Len(u) = Len(a) + Len(b)
  /\ \A n \in 1..Len(a) : u[n] = a[n]
  /\ \A n \in 1..Len(b) : u[Len(a) + n] = b[n]

LEMMA ConcatJoins ==
  ASSUME NEW E, NEW a \in Seq(E), NEW b \in Seq(E)
  PROVE  Joins(E, a \o b, a, b)
BY DEF Joins

\* RemoveAt, RemoveFirst and Tail take one out.
LEMMA RemoveAtSlips ==
  ASSUME NEW E, NEW u \in Rows(E), NEW k \in 1..Len(u)
  PROVE  Slips(E, RemoveAt(u, k), u, u[k], k)
<1> DEFINE s == RemoveAt(u, k)
<1>1. u \in Seq(E) /\ Len(u) \in Nat
  BY DEF Rows
<1>2. /\ s \in Seq(E) /\ Len(u) = Len(s) + 1
      /\ \A n \in 1..Len(s) : s[n] = IF n < k THEN u[n] ELSE u[n + 1]
  <2> DEFINE a == SubSeq(u, 1, k - 1)  b == SubSeq(u, k + 1, Len(u))
  <2>1. a \in Seq(E) /\ Len(a) = k - 1 /\ \A n \in 1..(k - 1) : a[n] = u[n]
    BY <1>1
  <2>2. /\ b \in Seq(E) /\ Len(b) = Len(u) - k
        /\ \A n \in 1..(Len(u) - k) : b[n] = u[k + n]
    BY <1>1
  <2>3. s = a \o b
    BY DEF RemoveAt
  <2> HIDE DEF a, b, s
  <2>4. Joins(E, s, a, b)
    BY <2>1, <2>2, <2>3, ConcatJoins, Zenon
  <2>5. s \in Seq(E) /\ Len(u) = Len(s) + 1 /\ Len(s) \in Nat
    BY <1>1, <2>1, <2>2, <2>4 DEF Joins
  <2>6. ASSUME NEW n \in 1..Len(s)
        PROVE  s[n] = IF n < k THEN u[n] ELSE u[n + 1]
    <3>1. CASE n < k
      <4>1. n \in 1..(k - 1)
        BY <1>1, <3>1, <2>5
      <4> QED
        BY <2>1, <2>4, <3>1, <4>1 DEF Joins
    <3>2. CASE n >= k
      <4> DEFINE m == n - (k - 1)
      <4>1. m \in 1..(Len(u) - k) /\ (k - 1) + m = n /\ k + m = n + 1
        BY <1>1, <3>2, <2>5
      <4> HIDE DEF m
      <4>2. s[(k - 1) + m] = b[m] /\ b[m] = u[k + m]
        BY <2>1, <2>2, <2>4, <4>1 DEF Joins
      <4> QED
        BY <1>1, <2>5, <3>2, <4>1, <4>2
    <3> QED
      BY <1>1, <2>5, <3>1, <3>2
  <2> QED
    BY <2>5, <2>6
<1> HIDE DEF s
<1>3. Slips(E, s, u, u[k], k)
  BY <1>1, <1>2, SlippedOut
<1> QED
  BY <1>3 DEF s

LEMMA RemoveFirstSlips ==
  ASSUME NEW E, NEW u \in Rows(E), NEW x \in ToSet(u)
  PROVE  \E k \in 1..Len(u) : Slips(E, RemoveFirst(u, x), u, x, k)
<1> DEFINE k == SelectInSeq(u, LAMBDA y : y = x)
<1>1. k \in 1..Len(u) /\ u[k] = x
  BY PositionOf
<1>2. RemoveFirst(u, x) = RemoveAt(u, k)
  <2>1. \E i \in 1..Len(u) : u[i] = x
    BY <1>1
  <2> QED
    BY <2>1, Zenon DEF RemoveFirst
<1> HIDE DEF k
<1> QED
  BY <1>1, <1>2, RemoveAtSlips

LEMMA RemoveFirstNone ==
  ASSUME NEW E, NEW u \in Rows(E), NEW x, x \notin ToSet(u)
  PROVE  RemoveFirst(u, x) = u
BY DEF RemoveFirst, ToSet, Rows

LEMMA TailSlips ==
  ASSUME NEW E, NEW u \in Rows(E), u # <<>>
  PROVE  Slips(E, Tail(u), u, Head(u), 1)
<1>1. u \in Seq(E) /\ Len(u) \in Nat /\ 1 \in 1..Len(u) /\ Head(u) = u[1]
  BY DEF Rows
<1>2. /\ Tail(u) \in Seq(E) /\ Len(u) = Len(Tail(u)) + 1
      /\ \A n \in 1..Len(Tail(u)) : Tail(u)[n] = IF n < 1 THEN u[n] ELSE u[n + 1]
  BY <1>1
<1> DEFINE t == Tail(u)
<1> HIDE DEF t
<1>3. Slips(E, t, u, u[1], 1)
  BY <1>1, <1>2, SlippedOut DEF t
<1> QED
  BY <1>1, <1>3 DEF t

\* InsertAt and Append put one in.
LEMMA InsertSlips ==
  ASSUME NEW E, NEW s \in Rows(E), NEW x \in E, NEW k \in 1..(Len(s) + 1)
  PROVE  Slips(E, s, InsertAt(s, k, x), x, k)
<1> DEFINE a == SubSeq(s, 1, k - 1)  b == SubSeq(s, k, Len(s))  u == InsertAt(s, k, x)
<1>1. s \in Seq(E) /\ Len(s) \in Nat
  BY DEF Rows
<1>2. a \in Seq(E) /\ Len(a) = k - 1 /\ \A n \in 1..(k - 1) : a[n] = s[n]
  BY <1>1
<1>3. /\ b \in Seq(E) /\ Len(b) = Len(s) + 1 - k
      /\ \A n \in 1..(Len(s) + 1 - k) : b[n] = s[k - 1 + n]
  BY <1>1
<1>4. u = a \o <<x>> \o b
  BY DEF InsertAt
<1> HIDE DEF a, b, u
<1> DEFINE c == a \o <<x>>
<1>5. /\ c \in Seq(E) /\ Len(c) = k /\ c[k] = x /\ \A n \in 1..(k - 1) : c[n] = s[n]
  BY <1>1, <1>2
<1>6. u = c \o b
  BY <1>4
<1> HIDE DEF c
<1>7. u \in Seq(E) /\ Len(u) = Len(s) + 1 /\ u[k] = x /\ k \in 1..Len(u)
  <2>1. Joins(E, u, c, b)
    BY <1>3, <1>5, <1>6, ConcatJoins, Zenon
  <2> QED
    BY <1>1, <1>3, <1>5, <2>1 DEF Joins
<1>8. ASSUME NEW n \in 1..Len(s)
      PROVE  (n < k => u[n] = s[n]) /\ (n >= k => u[n + 1] = s[n])
  <2>1. CASE n < k
    <3>1. Joins(E, u, c, b) /\ n \in 1..(k - 1)
      BY <1>1, <1>3, <1>5, <1>6, <2>1, ConcatJoins
    <3> QED
      BY <1>1, <1>5, <2>1, <3>1 DEF Joins
  <2>2. CASE n >= k
    <3> DEFINE m == n + 1 - k
    <3>1. m \in 1..(Len(s) + 1 - k) /\ k + m = n + 1 /\ k - 1 + m = n
      BY <1>1, <2>2
    <3> HIDE DEF m
    <3>2. b[m] = s[n]
      BY <1>3, <3>1
    <3>3. u[k + m] = b[m]
      <4>1. Joins(E, u, c, b)
        BY <1>3, <1>5, <1>6, ConcatJoins, Zenon
      <4> QED
        BY <1>3, <1>5, <3>1, <4>1 DEF Joins
    <3> QED
      BY <1>1, <2>2, <3>1, <3>2, <3>3
  <2> QED
    BY <1>1, <2>1, <2>2
<1>9. Slips(E, s, u, x, k)
  BY <1>7, <1>8 DEF Slips
<1> QED
  BY <1>9 DEF u

LEMMA AppendSlips ==
  ASSUME NEW E, NEW s \in Rows(E), NEW x \in E
  PROVE  Slips(E, s, Append(s, x), x, Len(s) + 1)
BY DEF Slips, Rows

\* A row that rises goes on rising when one leaves it, and when one slips in at
\* its place.
LEMMA RisesWithout ==
  ASSUME NEW E, NEW s, NEW u, NEW x, NEW k, Slips(E, s, u, x, k), NEW value, Rising(u, value)
  PROVE  Rising(s, value)
<1>1. /\ Len(s) \in Nat /\ DOMAIN s = 1..Len(s) /\ DOMAIN u = 1..Len(u)
      /\ Len(u) = Len(s) + 1 /\ k \in 1..Len(u)
      /\ \A n \in 1..Len(s) : (n < k => u[n] = s[n]) /\ (n >= k => u[n + 1] = s[n])
  BY DEF Slips, Rows
<1> DEFINE at(n) == IF n < k THEN n ELSE n + 1
<1>2. ASSUME NEW n \in DOMAIN s
      PROVE  at(n) \in DOMAIN u /\ u[at(n)] = s[n]
  BY <1>1
<1>3. ASSUME NEW m \in DOMAIN s, NEW n \in DOMAIN s, m < n
      PROVE  at(m) < at(n)
  BY <1>1, <1>3
<1> HIDE DEF at
<1> QED
  BY <1>2, <1>3 DEF Rising

LEMMA RisesWith ==
  ASSUME NEW E, NEW s, NEW u, NEW x, NEW k, Slips(E, s, u, x, k),
         NEW value \in [E -> Nat], Rising(s, value),
         \A n \in 1..Len(s) : n < k => value[s[n]] <= value[x],
         \A n \in 1..Len(s) : n >= k => value[x] <= value[s[n]]
  PROVE  Rising(u, value)
<1>1. /\ Len(s) \in Nat /\ DOMAIN s = 1..Len(s) /\ DOMAIN u = 1..Len(u)
      /\ Len(u) = Len(s) + 1 /\ k \in 1..Len(u) /\ u[k] = x
      /\ \A n \in 1..Len(s) : (n < k => u[n] = s[n]) /\ (n >= k => u[n + 1] = s[n])
  BY DEF Slips, Rows
<1> DEFINE place(n) == IF n < k THEN n ELSE n - 1
<1>2. ASSUME NEW n \in DOMAIN u, n # k
      PROVE  place(n) \in DOMAIN s /\ u[n] = s[place(n)]
  BY <1>1, <1>2
<1>3. ASSUME NEW m \in DOMAIN u, NEW n \in DOMAIN u, m < n
      PROVE  value[u[m]] <= value[u[n]]
  <2>1. CASE m = k
    <3>1. n # k /\ place(n) >= k
      BY <1>1, <1>3, <2>1
    <3> QED
      BY <1>1, <1>2, <2>1, <3>1
  <2>2. CASE n = k
    <3>1. m # k /\ place(m) < k
      BY <1>1, <1>3, <2>2
    <3> QED
      BY <1>1, <1>2, <2>2, <3>1
  <2>3. CASE m # k /\ n # k
    <3>1. /\ place(m) \in DOMAIN s /\ place(n) \in DOMAIN s
          /\ u[m] = s[place(m)] /\ u[n] = s[place(n)]
      BY <1>2, <2>3
    <3>2. place(m) < place(n)
      BY <1>1, <1>3, <2>3
    <3> HIDE DEF place
    <3> QED
      BY <3>1, <3>2 DEF Rising
  <2> QED
    BY <2>1, <2>2, <2>3
<1> QED
  BY <1>3 DEF Rising

\* Where vListInsert puts a value.
LEMMA PlaceFound ==
  ASSUME NEW E, NEW N \in Nat, NEW values \in [1..N -> Nat], NEW v \in Nat
  PROVE  LET k == PlaceFor(values, v)
         IN  /\ k \in 1..(N + 1)
             /\ \A n \in 1..N : n < k => values[n] <= v
             /\ k <= N => values[k] > v
<1> DEFINE I == {i \in 1..Len(values) : values[i] > v}
<1>1. Len(values) = N
  OBVIOUS
<1>2. SelectInSeq(values, LAMBDA y : y > v) = IF I # {} THEN Min(I) ELSE 0
  BY DEF SelectInSeq
<1>3. I = {i \in 1..N : values[i] > v}
  BY <1>1
<1> HIDE DEF I
<1>4. I # {} => Min(I) \in I /\ \A i \in I : Min(I) <= i
  <2> SUFFICES ASSUME I # {} PROVE Min(I) \in I /\ \A i \in I : Min(I) <= i
    OBVIOUS
  <2>1. I \subseteq Nat
    BY <1>3
  <2>2. PICK n \in I : \A m \in I : n <= m
    BY <2>1, LeastElement
  <2> QED
    BY <2>2 DEF Min
<1>5. PlaceFor(values, v) = IF I # {} THEN Min(I) ELSE N + 1
  <2>1. I # {} => Min(I) # 0
    BY <1>3, <1>4
  <2>2. PlaceFor(values, v) = IF SelectInSeq(values, LAMBDA y : y > v) = 0 THEN N + 1
                              ELSE SelectInSeq(values, LAMBDA y : y > v)
    BY <1>1 DEF PlaceFor
  <2> QED
    BY <1>2, <2>1, <2>2
<1>6. CASE I = {}
  BY <1>3, <1>5, <1>6
<1>7. CASE I # {}
  <2>1. /\ PlaceFor(values, v) \in 1..N /\ values[PlaceFor(values, v)] > v
        /\ \A n \in 1..N : values[n] > v => PlaceFor(values, v) <= n
    BY <1>3, <1>4, <1>5, <1>7
  <2> DEFINE k == PlaceFor(values, v)
  <2> HIDE DEF k
  <2>2. /\ k \in 1..N /\ values[k] > v
        /\ \A n \in 1..N : values[n] > v => k <= n
    BY <2>1 DEF k
  <2>3. k \in 1..(N + 1) /\ \A n \in 1..N : n < k => values[n] <= v
    BY <2>2
  <2> QED
    BY <2>2, <2>3 DEF k
<1> QED
  BY <1>6, <1>7

\* vListInsert
Inserts(E, s, u, x, value) ==
  /\ ToSet(u) = ToSet(s) \cup {x}
  /\ x \notin ToSet(s) => u \in Rows(E)
  /\ u # <<>> /\ (Rising(s, value) => Rising(u, value))

LEMMA ListInsert ==
  ASSUME NEW E, NEW s \in Rows(E), NEW x \in E, NEW value \in [E -> Nat]
  PROVE  Inserts(E, s, vListInsert(s, x, value), x, value)
<1> DEFINE N == Len(s)  values == [i \in DOMAIN s |-> value[s[i]]]
           k == PlaceFor(values, value[x])  u == vListInsert(s, x, value)
<1>1. N \in Nat /\ DOMAIN s = 1..N /\ s \in Seq(E)
  BY DEF Rows
<1>2. values \in [1..N -> Nat] /\ value[x] \in Nat
  BY <1>1
<1>3. \A n \in 1..N : values[n] = value[s[n]]
  BY <1>1
<1>4. u = InsertAt(s, k, x)
  BY DEF vListInsert
<1> HIDE DEF values, N
<1>5. /\ k \in 1..(N + 1)
      /\ \A n \in 1..N : n < k => values[n] <= value[x]
      /\ k <= N => values[k] > value[x]
  BY <1>1, <1>2, PlaceFound
<1> HIDE DEF k, u
<1>6. Slips(E, s, u, x, k)
  BY <1>4, <1>5, InsertSlips, Zenon DEF N
<1>7. ToSet(u) = ToSet(s) \cup {x} /\ (x \notin ToSet(s) => u \in Rows(E))
  BY <1>6, SlipsMembers
<1>8. ASSUME Rising(s, value)
      PROVE  Rising(u, value)
  <2>1. \A n \in 1..N : n < k => value[s[n]] <= value[x]
    BY <1>3, <1>5
  <2>2. ASSUME NEW n \in 1..N, n >= k
        PROVE  value[x] <= value[s[n]]
    <3>1. k \in 1..N /\ value[s[k]] > value[x] /\ value[s[k]] \in Nat /\ value[s[n]] \in Nat
      BY <1>1, <1>2, <1>3, <1>5, <2>2
    <3>2. n = k \/ value[s[k]] <= value[s[n]]
      BY <1>1, <1>8, <2>2, <3>1 DEF Rising
    <3> QED
      BY <1>2, <3>1, <3>2
  <2> QED
    BY <1>6, <1>8, <2>1, <2>2, RisesWith DEF N
<1>9. u # <<>>
  BY <1>1, <1>6 DEF Slips
<1> QED
  BY <1>7, <1>8, <1>9 DEF Inserts, u

\* Removal
Removes(E, u, s, x) ==
  /\ s \in Rows(E) /\ ToSet(s) = ToSet(u) \ {x}
  /\ \A value : Rising(u, value) => Rising(s, value)

LEMMA SlipsRemoves ==
  ASSUME NEW E, NEW s, NEW u \in Rows(E), NEW x, NEW k, Slips(E, s, u, x, k)
  PROVE  Removes(E, u, s, x) /\ x \in ToSet(u)
<1>1. s \in Rows(E)
  BY DEF Slips
<1>2. ToSet(u) = ToSet(s) \cup {x} /\ ToSet(s) = ToSet(u) \ {x}
  BY SlipsMembers
<1>3. ASSUME NEW value, Rising(u, value)
      PROVE  Rising(s, value)
  BY <1>3, RisesWithout
<1> QED
  BY <1>1, <1>2, <1>3 DEF Removes

LEMMA FirstRemoved ==
  ASSUME NEW E, NEW u \in Rows(E), NEW x
  PROVE  Removes(E, u, RemoveFirst(u, x), x)
<1>1. CASE x \in ToSet(u)
  <2>1. PICK k \in 1..Len(u) : Slips(E, RemoveFirst(u, x), u, x, k)
    BY <1>1, RemoveFirstSlips
  <2> QED
    BY <2>1, SlipsRemoves, Zenon
<1>2. CASE x \notin ToSet(u)
  <2>1. RemoveFirst(u, x) = u
    BY <1>2, RemoveFirstNone
  <2>2. ToSet(u) = ToSet(u) \ {x}
    BY <1>2
  <2> QED
    BY <2>1, <2>2 DEF Removes
<1> QED
  BY <1>1, <1>2

LEMMA TailRemoved ==
  ASSUME NEW E, NEW u \in Rows(E), u # <<>>
  PROVE  Removes(E, u, Tail(u), Head(u)) /\ Head(u) \in ToSet(u) /\ Head(u) \in E
<1>1. Slips(E, Tail(u), u, Head(u), 1)
  BY TailSlips
<1> QED
  BY <1>1, SlipsRemoves, Zenon DEF Slips

LEMMA Appended ==
  ASSUME NEW E, NEW s \in Rows(E), NEW x \in E, x \notin ToSet(s)
  PROVE  Append(s, x) \in Rows(E) /\ ToSet(Append(s, x)) = ToSet(s) \cup {x}
<1> DEFINE u == Append(s, x)
<1>1. Slips(E, s, u, x, Len(s) + 1)
  BY AppendSlips
<1> HIDE DEF u
<1>2. u \in Rows(E) /\ ToSet(u) = ToSet(s) \cup {x}
  <2> DEFINE k == Len(s) + 1
  <2> HIDE DEF k
  <2>1. Slips(E, s, u, x, k)
    BY <1>1 DEF k
  <2> QED
    BY <2>1, SlipsMembers, Zenon
<1> QED
  BY <1>2 DEF u

LEMMA EmptyRow ==
  ASSUME NEW E
  PROVE  /\ <<>> \in Rows(E) /\ ToSet(<<>>) = {}
         /\ \A s \in Rows(E) : s # <<>> <=> ToSet(s) # {}
         /\ \A s \in Rows(E) : ToSet(s) \subseteq E
<1>1. <<>> \in Rows(E) /\ ToSet(<<>>) = {}
  BY DEF Rows, Once, ToSet
<1>2. ASSUME NEW s \in Rows(E)
      PROVE  (s # <<>> <=> ToSet(s) # {}) /\ ToSet(s) \subseteq E
  <2>1. s \in Seq(E) /\ Len(s) \in Nat /\ DOMAIN s = 1..Len(s)
    BY DEF Rows
  <2>2. s # <<>> => 1 \in DOMAIN s
    BY <2>1
  <2>3. s = <<>> => ToSet(s) = {}
    BY <1>1
  <2>4. \A n \in DOMAIN s : s[n] \in E
    BY <2>1
  <2> QED
    BY <2>2, <2>3, <2>4 DEF ToSet
<1> QED
  BY <1>1, <1>2

-----------------------------------------------------------------------------
(* Lists with a walk                                                         *)

ReadyLists(E) == {list \in [items : Rows(E), index : Nat] : list.index <= Len(list.items)}

LEMMA ReadyAdd ==
  ASSUME NEW E, NEW list \in ReadyLists(E), NEW x \in E, x \notin ToSet(list.items)
  PROVE  /\ vListInsertEnd(list, x) \in ReadyLists(E)
         /\ ToSet(vListInsertEnd(list, x).items) = ToSet(list.items) \cup {x}
<1> DEFINE s == list.items  i == list.index
<1>1. /\ s \in Rows(E) /\ i \in Nat /\ i <= Len(s) /\ Len(s) \in Nat
      /\ list = [items |-> s, index |-> i]
  BY DEF ReadyLists, Rows
<1>2. CASE i = 0
  <2> DEFINE u == Append(s, x)
  <2>1. u \in Rows(E) /\ ToSet(u) = ToSet(s) \cup {x}
    BY <1>1, Appended
  <2>2. vListInsertEnd(list, x) = [items |-> u, index |-> 0]
    BY <1>1, <1>2 DEF vListInsertEnd
  <2>3. Len(u) \in Nat
    BY <2>1 DEF Rows
  <2> HIDE DEF u
  <2> QED
    BY <2>1, <2>2, <2>3 DEF ReadyLists
<1>3. CASE i # 0
  <2> DEFINE u == InsertAt(s, i, x)
  <2>1. Slips(E, s, u, x, i)
    BY <1>1, <1>3, InsertSlips
  <2>2. vListInsertEnd(list, x) = [items |-> u, index |-> i + 1]
    BY <1>1, <1>3 DEF vListInsertEnd
  <2> HIDE DEF u
  <2>3. u \in Rows(E) /\ ToSet(u) = ToSet(s) \cup {x}
    BY <2>1, SlipsMembers, Zenon
  <2>4. i + 1 <= Len(u) /\ i + 1 \in Nat
    BY <1>1, <2>1 DEF Slips
  <2> QED
    BY <2>2, <2>3, <2>4 DEF ReadyLists
<1> QED
  BY <1>2, <1>3

LEMMA ReadyRemove ==
  ASSUME NEW E, NEW list \in ReadyLists(E), NEW x \in ToSet(list.items)
  PROVE  /\ uxListRemove(list, x) \in ReadyLists(E)
         /\ ToSet(uxListRemove(list, x).items) = ToSet(list.items) \ {x}
<1> DEFINE u == list.items  i == list.index  at == SelectInSeq(list.items, LAMBDA y : y = x)
           s == RemoveFirst(list.items, x)  j == IF at # 0 /\ i >= at THEN i - 1 ELSE i
<1>1. /\ u \in Rows(E) /\ i \in Nat /\ i <= Len(u) /\ Len(u) \in Nat
  BY DEF ReadyLists, Rows
<1>2. at \in 1..Len(u)
  BY <1>1, PositionOf
<1>3. uxListRemove(list, x) = [items |-> s, index |-> j]
  BY DEF uxListRemove
<1>4. Removes(E, u, s, x)
  BY <1>1, FirstRemoved
<1>5. Len(s) \in Nat /\ Len(u) = Len(s) + 1
  <2>1. PICK k \in 1..Len(u) : Slips(E, s, u, x, k)
    BY <1>1, RemoveFirstSlips
  <2> HIDE DEF s
  <2> QED
    BY <2>1 DEF Slips, Rows
<1> HIDE DEF s, at
<1>6. j \in Nat /\ j <= Len(s)
  BY <1>1, <1>2, <1>5
<1> HIDE DEF j
<1> QED
  BY <1>3, <1>4, <1>6 DEF ReadyLists, Removes

LEMMA ListRemoved ==
  ASSUME NEW E, NEW list \in ReadyLists(E), NEW x
  PROVE  /\ uxListRemove(list, x) \in ReadyLists(E)
         /\ ToSet(uxListRemove(list, x).items) = ToSet(list.items) \ {x}
<1>1. CASE x \in ToSet(list.items)
  BY <1>1, ReadyRemove
<1>2. CASE x \notin ToSet(list.items)
  <2>1. list.items \in Rows(E) /\ list.index \in Nat /\ list = [items |-> list.items, index |-> list.index]
    BY DEF ReadyLists
  <2>2. RemoveFirst(list.items, x) = list.items
    BY <1>2, <2>1, RemoveFirstNone
  <2> DEFINE at == SelectInSeq(list.items, LAMBDA y : y = x)
  <2>3. at = 0
    <3>1. {i \in 1..Len(list.items) : list.items[i] = x} = {}
      BY <1>2, <2>1 DEF ToSet, Rows
    <3> QED
      BY <3>1 DEF SelectInSeq
  <2>4. uxListRemove(list, x) = [items |-> RemoveFirst(list.items, x),
          index |-> IF at # 0 /\ list.index >= at THEN list.index - 1 ELSE list.index]
    BY DEF uxListRemove
  <2> HIDE DEF at
  <2>5. uxListRemove(list, x) = list
    BY <2>1, <2>2, <2>3, <2>4
  <2> QED
    BY <1>2, <2>5
<1> QED
  BY <1>1, <1>2

LEMMA ReadyWalk ==
  ASSUME NEW E, NEW list \in ReadyLists(E), list.items # <<>>
  PROVE  /\ NextEntry(list) \in ReadyLists(E) /\ NextEntry(list).items = list.items
         /\ Current(NextEntry(list)) \in ToSet(list.items)
<1> DEFINE s == list.items  i == list.index  j == IF i >= Len(s) THEN 1 ELSE i + 1
<1>1. /\ s \in Rows(E) /\ i \in Nat /\ i <= Len(s) /\ Len(s) \in Nat /\ Len(s) # 0
      /\ DOMAIN s = 1..Len(s) /\ list = [items |-> s, index |-> i]
  BY DEF ReadyLists, Rows
<1>2. NextEntry(list) = [items |-> s, index |-> j]
  BY <1>1 DEF NextEntry, Length
<1>3. j \in 1..Len(s)
  BY <1>1
<1> HIDE DEF j
<1> QED
  BY <1>1, <1>2, <1>3 DEF ReadyLists, Current, ToSet
=============================================================================
