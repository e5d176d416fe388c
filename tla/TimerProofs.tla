---------------------------- MODULE TimerProofs ----------------------------
(***************************************************************************)
(* Proofs about the timers for every size of the pool, word of the counter *)
(* and set of waits: the list is sorted and holds exactly the timers in    *)
(* use, task_timer is always on it, and it implements timers with absolute *)
(* times, as long as no caller sets or frees a timer that runs and no call *)
(* of timer_alloc meets another one that took the same timer.              *)
(***************************************************************************)
EXTENDS Timer, FiniteSetTheorems, SequenceTheorems, TLAPS

USE TimerAssumption

Pairs == (0 .. Word - 1) \X (0 .. Word - 1)

\* Place k of list L is the timer w[k], for k up to n, and the last is the
\* sentinel.
Lists(L, w, n) ==
  /\ n \in 0 .. MaxTimer - 1 /\ w \in [0 .. n -> Timers]
  /\ w[0] = L.t0 /\ w[n] = Sentinel /\ L.nxt[Sentinel] = NoTimer
  /\ \A k \in 0 .. n - 1 : L.nxt[w[k]] = w[k + 1]
  /\ \A j, k \in 0 .. n : j < k => w[j] # w[k]

\* The first n + 1 timers of w are in the order of their times.
Ordered(to, w, n) == \A j, k \in 0 .. n : j < k => Leq(to[w[j]], to[w[k]])

OnList(w, n) == {w[k] : k \in 0 .. n}

ListRecords == [t0 : Timers, nxt : [Timers -> Timers \cup {NoTimer}]]

\* L is a list of the timers of S in the order of their times.
Holds(L, to, S) ==
  /\ L \in ListRecords
  /\ \E n \in 0 .. MaxTimer - 1 : \E w \in [0 .. n -> Timers] :
       Lists(L, w, n) /\ Ordered(to, w, n) /\ OnList(w, n) = S

Times(to) == to \in [Timers -> Pairs] /\ to[Sentinel] = Never

(* A set of numbers up to n has a smallest one. *)
LEMMA Least ==
  ASSUME NEW n \in Nat, NEW T \in SUBSET (0 .. n), T # {}
  PROVE  \E x \in T : \A y \in T : x <= y
<1> DEFINE D == {0 .. l - 1 : l \in T}
<1>1. T \subseteq Nat
  OBVIOUS
<1>2. D \subseteq FiniteSubsetsOf(Nat) /\ D # {}
  <2>1. ASSUME NEW l \in T
        PROVE  0 .. l - 1 \in FiniteSubsetsOf(Nat)
    <3>1. l \in Int /\ l - 1 \in Int /\ 0 .. l - 1 \in SUBSET Nat
      BY <1>1
    <3>2. IsFiniteSet(0 .. l - 1)
      BY <3>1, FS_Interval
    <3> QED BY <3>1, <3>2 DEF FiniteSubsetsOf
  <2>2. D # {}
    OBVIOUS
  <2> QED BY <2>1, <2>2
<1>3. PICK B \in D : \A C \in D : ~ (<<C, B>> \in StrictSubsetOrdering(Nat))
  BY <1>2, FS_StrictSubsetOrderingWellFounded, WFMin
<1>4. PICK x \in T : B = 0 .. x - 1
  OBVIOUS
<1>5. ASSUME NEW y \in T
      PROVE  ~ (y < x)
  <2>1. 0 .. y - 1 \in D
    OBVIOUS
  <2>2. ~ (0 .. y - 1 \subseteq 0 .. x - 1 /\ 0 .. y - 1 # 0 .. x - 1)
    <3>1. 0 .. y - 1 \in SUBSET Nat /\ 0 .. x - 1 \in SUBSET Nat
      BY <1>1
    <3>2. <<0 .. y - 1, 0 .. x - 1>> \notin StrictSubsetOrdering(Nat)
      BY <1>3, <1>4, <2>1
    <3> QED BY <3>1, <3>2 DEF StrictSubsetOrdering
  <2>3. CASE y < x
    <3>1. y \in 0 .. x - 1 /\ y \notin 0 .. y - 1
      BY <1>1, <2>3
    <3>2. 0 .. y - 1 \subseteq 0 .. x - 1
      BY <1>1, <2>3
    <3> QED BY <2>2, <3>1, <3>2
  <2> QED BY <2>3
<1>6. \A y \in T : x <= y
  BY <1>1, <1>5
<1> QED BY <1>6

(* Path follows the list. *)
LEMMA PathIs ==
  ASSUME NEW L, NEW w, NEW n, Lists(L, w, n)
  PROVE  \A k \in 0 .. MaxTimer : Path(L)[k] = IF k <= n THEN w[k] ELSE NoTimer
<1> DEFINE Step(p, k) == IF k = 0 THEN L.t0
                         ELSE IF p[k - 1] = NoTimer THEN NoTimer ELSE L.nxt[p[k - 1]]
           W == [k \in 0 .. MaxTimer |-> IF k <= n THEN w[k] ELSE NoTimer]
           P == Path(L)
<1>1. P = CHOOSE p : p = [k \in 0 .. MaxTimer |-> Step(p, k)]
  BY DEF Path
<1>2. \A k \in 0 .. MaxTimer : W[k] = Step(W, k)
  <2> SUFFICES ASSUME NEW k \in 0 .. MaxTimer
               PROVE  W[k] = Step(W, k)
    OBVIOUS
  <2>1. n \in 0 .. MaxTimer - 1 /\ w \in [0 .. n -> Timers]
    BY DEF Lists
  <2>2. CASE k = 0
    BY <2>1, <2>2 DEF Lists
  <2>3. CASE k > 0 /\ k <= n
    <3>1. k - 1 \in 0 .. n - 1 /\ k - 1 \in 0 .. MaxTimer
      BY <2>1, <2>3
    <3>2. W[k - 1] = w[k - 1] /\ w[k - 1] # NoTimer /\ W[k] = w[k]
      BY <2>1, <2>3, <3>1 DEF Timers, NoTimer
    <3>3. L.nxt[w[k - 1]] = w[k]
      <4>1. k - 1 + 1 = k
        OBVIOUS
      <4> QED BY <3>1, <4>1 DEF Lists
    <3> QED BY <2>3, <3>2, <3>3
  <2>4. CASE k = n + 1
    <3>1. W[k - 1] = Sentinel /\ W[k] = NoTimer
      BY <2>1, <2>4 DEF Lists
    <3> QED BY <2>1, <2>4, <3>1 DEF Lists, Sentinel, NoTimer
  <2>5. CASE k > n + 1
    <3>1. W[k - 1] = NoTimer /\ W[k] = NoTimer
      BY <2>1, <2>5
    <3> QED BY <2>1, <2>5, <3>1
  <2> QED BY <2>1, <2>2, <2>3, <2>4, <2>5
<1>3. W = [k \in 0 .. MaxTimer |-> Step(W, k)]
  BY <1>2
<1>4. P = [k \in 0 .. MaxTimer |-> Step(P, k)]
  <2> HIDE DEF W, P, Step
  <2> QED BY <1>1, <1>3
<1>5. \A k \in 0 .. MaxTimer : P[k] = W[k]
  <2> DEFINE T == {k \in 0 .. MaxTimer : P[k] # W[k]}
  <2> SUFFICES ASSUME T # {}
               PROVE  FALSE
    OBVIOUS
  <2>1. T \in SUBSET (0 .. MaxTimer)
    OBVIOUS
  <2>2. PICK k \in T : \A j \in T : k <= j
    BY <2>1, Least
  <2> HIDE DEF W, P
  <2>3. k # 0 => P[k - 1] = W[k - 1]
    BY <2>2
  <2>4. P[k] = Step(P, k) /\ W[k] = Step(W, k)
    BY <1>2, <1>4
  <2> QED BY <2>2, <2>3, <2>4
<1> QED BY <1>5
-----------------------------------------------------------------------------
(* Times are compared like numbers. *)
LEMMA Compare ==
  ASSUME NEW a \in Pairs, NEW b \in Pairs, NEW c \in Pairs
  PROVE  /\ Leq(a, Never) /\ Leq(a, a)
         /\ Leq(a, b) \/ Leq(b, a)
         /\ Leq(a, b) /\ Leq(b, c) => Leq(a, c)
<1>1. /\ a[1] \in 0 .. Word - 1 /\ a[2] \in 0 .. Word - 1
      /\ b[1] \in 0 .. Word - 1 /\ b[2] \in 0 .. Word - 1
      /\ c[1] \in 0 .. Word - 1 /\ c[2] \in 0 .. Word - 1
  BY DEF Pairs
<1>2. Never[1] = Word - 1 /\ Never[2] = Word - 1
  BY DEF Never
<1> QED BY <1>1, <1>2 DEF Leq

(* Different timers fit in the pool. *)
LEMMA Fits ==
  ASSUME NEW n \in Nat, NEW w \in [0 .. n -> Timers],
         \A j, k \in 0 .. n : j < k => w[j] # w[k]
  PROVE  n \in 0 .. MaxTimer - 1
<1>1. w \in Injection(0 .. n, Timers)
  <2>1. \A j, k \in 0 .. n : w[j] = w[k] => j = k
    <3> SUFFICES ASSUME NEW j \in 0 .. n, NEW k \in 0 .. n, w[j] = w[k]
                 PROVE  j = k
      OBVIOUS
    <3>1. ~ (j < k) /\ ~ (k < j)
      OBVIOUS
    <3> QED BY <3>1
  <2> QED BY <2>1 DEF Injection, IsInjective
<1>2. IsFiniteSet(Timers) /\ Cardinality(Timers) = MaxTimer
  <2>1. IsFiniteSet(0 .. MaxTimer - 1)
    BY FS_Interval
  <2>2. Cardinality(0 .. MaxTimer - 1) = (MaxTimer - 1) - 0 + 1
    BY FS_Interval
  <2> QED BY <2>1, <2>2 DEF Timers
<1>3. Cardinality(0 .. n) = n + 1
  <2>1. Cardinality(0 .. n) = n - 0 + 1
    BY FS_Interval
  <2> QED BY <2>1
<1>4. Cardinality(0 .. n) <= Cardinality(Timers)
  BY <1>1, <1>2, FS_Injection
<1> QED BY <1>2, <1>3, <1>4

(* timer_settime finds the place of a time. *)
LEMMA PlaceForIs ==
  ASSUME NEW L, NEW w, NEW n, Lists(L, w, n), NEW to, Times(to), NEW at \in Pairs
  PROVE  /\ PlaceFor(L, at, to) \in 0 .. n
         /\ Leq(at, to[w[PlaceFor(L, at, to)]])
         /\ \A j \in 0 .. PlaceFor(L, at, to) - 1 : ~Leq(at, to[w[j]])
<1> DEFINE T == {k \in 0 .. n : Leq(at, to[w[k]])}
           Place(k) == /\ Leq(at, to[Path(L)[k]])
                       /\ \A j \in Before(k) : ~Leq(at, to[Path(L)[j]])
           p == PlaceFor(L, at, to)
<1>1. n \in 0 .. MaxTimer - 1 /\ n \in Nat /\ w \in [0 .. n -> Timers] /\ w[n] = Sentinel
  BY DEF Lists
<1>2. \A k \in 0 .. n : k \in 0 .. MaxTimer /\ Path(L)[k] = w[k]
  BY <1>1, PathIs
<1>3. Leq(at, to[w[n]])
  BY <1>1, Compare DEF Times
<1>4. PICK x \in T : \A y \in T : x <= y
  <2>1. n \in T /\ T \in SUBSET (0 .. n)
    BY <1>1, <1>3
  <2> HIDE DEF T
  <2> QED BY <1>1, <2>1, Least
<1>5. Place(x) /\ x \in 0 .. MaxTimer
  <2>1. x \in 0 .. n /\ Leq(at, to[w[x]])
    BY <1>4
  <2>2. ASSUME NEW j \in Before(x)
        PROVE  ~Leq(at, to[Path(L)[j]])
    <3>1. j \in 0 .. n /\ ~ (x <= j)
      BY <1>1, <2>1 DEF Before
    <3> QED BY <1>2, <1>4, <3>1
  <2> QED BY <1>2, <2>1, <2>2
<1> HIDE DEF T
<1>6. p \in 0 .. MaxTimer /\ Place(p)
  <2>1. p = CHOOSE k \in 0 .. MaxTimer : Place(k)
    BY DEF PlaceFor
  <2> HIDE DEF p, Place
  <2> QED BY <1>5, <2>1
<1> HIDE DEF p
<1>7. p <= n
  <2> SUFFICES ASSUME p > n
               PROVE  FALSE
    BY <1>1, <1>6
  <2>1. n \in Before(p)
    BY <1>1, <1>6 DEF Before
  <2>2. n \in 0 .. n
    BY <1>1
  <2> QED BY <1>2, <1>3, <1>6, <2>1, <2>2
<1>8. p \in 0 .. n
  BY <1>1, <1>6, <1>7
<1>9. ASSUME NEW j \in 0 .. p - 1
      PROVE  ~Leq(at, to[w[j]])
  <2>1. j \in Before(p) /\ j \in 0 .. n
    BY <1>1, <1>8 DEF Before
  <2> QED BY <1>2, <1>6, <2>1
<1>10. Leq(at, to[w[p]])
  BY <1>2, <1>6, <1>8
<1> QED BY <1>8, <1>9, <1>10 DEF p

(* timer_settime puts a timer in its place. *)
LEMMA LinkedHolds ==
  ASSUME NEW L, NEW to, NEW S, Holds(L, to, S), Times(to), NEW t \in Timers, t \notin S
  PROVE  Holds(Linked(L, t, to), to, S \cup {t})
<1>1. L \in ListRecords
  BY DEF Holds
<1>1a. PICK n \in 0 .. MaxTimer - 1 : \E w \in [0 .. n -> Timers] :
        Lists(L, w, n) /\ Ordered(to, w, n) /\ OnList(w, n) = S
  BY DEF Holds
<1>2. PICK w \in [0 .. n -> Timers] :
        Lists(L, w, n) /\ Ordered(to, w, n) /\ OnList(w, n) = S
  BY <1>1a
<1> DEFINE k == PlaceFor(L, to[t], to)
           M == Linked(L, t, to)
           v == [j \in 0 .. n + 1 |-> IF j < k THEN w[j] ELSE IF j = k THEN t ELSE w[j - 1]]
<1>3. to[t] \in Pairs /\ n \in Nat /\ \A j \in 0 .. n : to[w[j]] \in Pairs /\ w[j] \in Timers /\ w[j] # t
  BY <1>2 DEF Times, OnList
<1>4. /\ k \in 0 .. n /\ Leq(to[t], to[w[k]])
      /\ \A j \in 0 .. k - 1 : ~Leq(to[t], to[w[j]])
  BY <1>2, <1>3, PlaceForIs
<1>5. \A j \in 0 .. n : Path(L)[j] = w[j]
  BY <1>2, PathIs
<1>6. /\ w[0] = L.t0 /\ w[n] = Sentinel /\ L.nxt[Sentinel] = NoTimer
      /\ \A j \in 0 .. n - 1 : L.nxt[w[j]] = w[j + 1]
      /\ \A i, j \in 0 .. n : i < j => w[i] # w[j]
  BY <1>2 DEF Lists
<1>7. L.t0 \in Timers /\ L.nxt \in [Timers -> Timers \cup {NoTimer}]
  BY <1>1 DEF ListRecords
\* What the list is now, field by field.
<1>8. /\ M \in ListRecords
      /\ M.t0 = IF k = 0 THEN t ELSE L.t0
      /\ M.nxt[t] = w[k]
      /\ k > 0 => M.nxt[w[k - 1]] = t
      /\ \A x \in Timers : x # t /\ (k > 0 => x # w[k - 1]) => M.nxt[x] = L.nxt[x]
  <2> HIDE DEF k
  <2>1. CASE k = 0
    <3> DEFINE A == [L EXCEPT !.t0 = t]
    <3>1. M = [A EXCEPT !.nxt[t] = L.t0]
      BY <2>1 DEF Linked, k
    <3>2. A \in ListRecords /\ A.t0 = t /\ A.nxt = L.nxt
      BY <1>1 DEF ListRecords
    <3> HIDE DEF A
    <3>3. M \in ListRecords /\ M.t0 = t /\ M.nxt = [A.nxt EXCEPT ![t] = L.t0]
      BY <1>7, <3>1, <3>2 DEF ListRecords
    <3> HIDE DEF M
    <3> QED BY <1>6, <1>7, <2>1, <3>2, <3>3
  <2>2. CASE k > 0
    <3> DEFINE A == [L EXCEPT !.nxt[w[k - 1]] = t]
    <3>1. k - 1 \in 0 .. n /\ Path(L)[k - 1] = w[k - 1] /\ Path(L)[k] = w[k]
      BY <1>3, <1>4, <1>5, <2>2
    <3>2. w[k - 1] \in Timers /\ w[k] \in Timers /\ w[k - 1] # t
      BY <1>3, <1>4, <3>1
    <3>3. M = [A EXCEPT !.nxt[t] = w[k]]
      BY <2>2, <3>1 DEF Linked, k
    <3>4. A \in ListRecords /\ A.t0 = L.t0 /\ A.nxt = [L.nxt EXCEPT ![w[k - 1]] = t]
      BY <1>1, <1>7, <3>2 DEF ListRecords
    <3> HIDE DEF A
    <3>5. M \in ListRecords /\ M.t0 = L.t0 /\ M.nxt = [A.nxt EXCEPT ![t] = w[k]]
      <4>1. A = [t0 |-> A.t0, nxt |-> A.nxt] /\ A.t0 \in Timers
            /\ A.nxt \in [Timers -> Timers \cup {NoTimer}]
        BY <3>4 DEF ListRecords
      <4>2. M = [t0 |-> A.t0, nxt |-> [A.nxt EXCEPT ![t] = w[k]]]
        BY <3>3, <4>1
      <4>3. [A.nxt EXCEPT ![t] = w[k]] \in [Timers -> Timers \cup {NoTimer}]
        BY <3>2, <4>1
      <4> QED BY <3>4, <4>1, <4>2, <4>3 DEF ListRecords
    <3> HIDE DEF M
    <3> QED BY <1>7, <2>2, <3>2, <3>4, <3>5
  <2> QED BY <1>4, <2>1, <2>2
<1> HIDE DEF k, M
\* The timers in their new order.
<1>9. /\ v \in [0 .. n + 1 -> Timers]
      /\ \A j \in 0 .. k - 1 : j \in 0 .. n /\ v[j] = w[j]
      /\ v[k] = t /\ k \in 0 .. n + 1
      /\ \A j \in k + 1 .. n + 1 : j - 1 \in k .. n /\ j - 1 \in 0 .. n /\ v[j] = w[j - 1]
  BY <1>3, <1>4
<1>10. 0 .. n + 1 = (0 .. k - 1) \cup {k} \cup (k + 1 .. n + 1)
  BY <1>3, <1>4
<1> HIDE DEF v
<1>11. ASSUME NEW i \in 0 .. n + 1, NEW j \in 0 .. n + 1, i < j
       PROVE  v[i] # v[j] /\ Leq(to[v[i]], to[v[j]])
  <2>1. CASE j \in 0 .. k - 1
    <3>1. i \in 0 .. k - 1 /\ v[i] = w[i] /\ v[j] = w[j] /\ i \in 0 .. n /\ j \in 0 .. n
      BY <1>9, <1>11, <2>1
    <3> QED BY <1>2, <1>6, <1>11, <3>1 DEF Ordered
  <2>2. CASE i \in k + 1 .. n + 1
    <3>1. j \in k + 1 .. n + 1
      BY <1>4, <1>11, <2>2
    <3>2. i - 1 \in 0 .. n /\ j - 1 \in 0 .. n /\ i - 1 < j - 1 /\ v[i] = w[i - 1] /\ v[j] = w[j - 1]
      BY <1>9, <1>11, <2>2, <3>1
    <3> QED BY <1>2, <1>6, <3>2 DEF Ordered
  <2>3. CASE i \in 0 .. k - 1 /\ j = k
    <3>1. v[i] = w[i] /\ v[j] = t /\ i \in 0 .. n
      BY <1>9, <2>3
    <3>2. ~Leq(to[t], to[w[i]])
      BY <1>4, <2>3
    <3> QED BY <1>3, <3>1, <3>2, Compare
  <2>4. CASE i = k /\ j \in k + 1 .. n + 1
    <3>1. v[i] = t /\ v[j] = w[j - 1] /\ j - 1 \in 0 .. n /\ j - 1 \in k .. n
      BY <1>9, <2>4
    <3>2. Leq(to[w[k]], to[w[j - 1]])
      <4>1. CASE j - 1 = k
        BY <1>3, <1>4, <4>1, Compare
      <4>2. CASE k < j - 1
        BY <1>2, <1>4, <3>1, <4>2 DEF Ordered
      <4> QED BY <1>4, <3>1, <4>1, <4>2
    <3>3. to[w[k]] \in Pairs /\ to[w[j - 1]] \in Pairs /\ w[j - 1] # t
      BY <1>3, <1>4, <3>1
    <3> QED BY <1>3, <1>4, <3>1, <3>2, <3>3, Compare
  <2>5. CASE i \in 0 .. k - 1 /\ j \in k + 1 .. n + 1
    <3>1. v[i] = w[i] /\ i \in 0 .. n /\ v[j] = w[j - 1] /\ j - 1 \in 0 .. n /\ i < j - 1
      BY <1>4, <1>9, <2>5
    <3> QED BY <1>2, <1>6, <3>1 DEF Ordered
  <2> QED BY <1>4, <1>10, <1>11, <2>1, <2>2, <2>3, <2>4, <2>5
<1>12. n + 1 \in 0 .. MaxTimer - 1
  BY <1>3, <1>9, <1>11, Fits
<1>13. OnList(v, n + 1) = S \cup {t}
  <2>1. ASSUME NEW j \in 0 .. n + 1
        PROVE  v[j] \in S \cup {t}
    BY <1>2, <1>9, <1>10 DEF OnList
  <2>2. ASSUME NEW j \in 0 .. n
        PROVE  \E i \in 0 .. n + 1 : v[i] = w[j]
    <3>1. CASE j < k
      BY <1>3, <1>4, <1>9, <3>1
    <3>2. CASE j >= k
      <4>1. j + 1 \in k + 1 .. n + 1 /\ j + 1 - 1 = j /\ j + 1 \in 0 .. n + 1
        BY <1>3, <1>4, <3>2
      <4>2. v[j + 1] = w[j]
        BY <1>9, <4>1
      <4> QED BY <4>1, <4>2
    <3> QED BY <1>4, <3>1, <3>2
  <2> QED BY <1>2, <1>9, <2>1, <2>2 DEF OnList
<1>14. v[0] = M.t0
  <2>1. CASE k = 0
    BY <1>8, <1>9, <2>1
  <2>2. CASE k > 0
    BY <1>4, <1>6, <1>8, <1>9, <2>2
  <2> QED BY <1>4, <2>1, <2>2
<1>15. v[n + 1] = Sentinel /\ M.nxt[Sentinel] = NoTimer
  <2>1. n + 1 \in k + 1 .. n + 1 /\ n + 1 - 1 = n
    BY <1>3, <1>4
  <2>2. v[n + 1] = Sentinel
    BY <1>6, <1>9, <2>1
  <2>3. n \in 0 .. n /\ Sentinel # t
    BY <1>3, <1>6
  <2>4. k > 0 => Sentinel # w[k - 1]
    BY <1>3, <1>4, <1>6
  <2>5. Sentinel \in Timers
    BY <1>3, <1>6, <2>3
  <2> QED BY <1>6, <1>8, <2>2, <2>3, <2>4, <2>5
<1>16. ASSUME NEW j \in 0 .. n
       PROVE  M.nxt[v[j]] = v[j + 1]
  <2>1. CASE j = k
    <3>1. j + 1 \in k + 1 .. n + 1 /\ j + 1 - 1 = k
      BY <1>3, <1>4, <2>1
    <3> QED BY <1>8, <1>9, <2>1, <3>1
  <2>2. CASE j = k - 1
    <3>1. k > 0 /\ j + 1 = k /\ j \in 0 .. k - 1
      BY <1>4, <2>2
    <3> QED BY <1>8, <1>9, <2>2, <3>1
  <2>3. CASE j < k - 1
    <3>1. j \in 0 .. k - 1 /\ j + 1 \in 0 .. k - 1 /\ j \in 0 .. n - 1 /\ k - 1 \in 0 .. n
      BY <1>3, <1>4, <2>3
    <3>2. v[j] = w[j] /\ v[j + 1] = w[j + 1] /\ L.nxt[w[j]] = w[j + 1]
      BY <1>6, <1>9, <3>1
    <3>3. w[j] # w[k - 1] /\ w[j] # t /\ w[j] \in Timers
      BY <1>3, <1>6, <2>3, <3>1
    <3> QED BY <1>8, <3>2, <3>3
  <2>4. CASE j > k
    <3>1. j \in k + 1 .. n + 1 /\ j + 1 \in k + 1 .. n + 1 /\ j - 1 \in 0 .. n - 1
          /\ j + 1 - 1 = j /\ j - 1 + 1 = j
      BY <1>3, <1>4, <2>4
    <3>2. v[j] = w[j - 1] /\ v[j + 1] = w[j] /\ L.nxt[w[j - 1]] = w[j]
      <4>1. v[j] = w[j - 1] /\ v[j + 1] = w[j + 1 - 1]
        BY <1>9, <3>1
      <4>2. L.nxt[w[j - 1]] = w[j - 1 + 1]
        BY <1>6, <3>1
      <4> QED BY <3>1, <4>1, <4>2
    <3>3. w[j - 1] # t /\ w[j - 1] \in Timers
      BY <1>3, <3>1
    <3>4. k > 0 => w[k - 1] # w[j - 1]
      <4>1. k > 0 => k - 1 \in 0 .. n /\ j - 1 \in 0 .. n /\ k - 1 < j - 1
        BY <1>3, <1>4, <2>4, <3>1
      <4> QED BY <1>6, <4>1
    <3> QED BY <1>8, <3>2, <3>3, <3>4
  <2> QED BY <1>4, <2>1, <2>2, <2>3, <2>4
<1>17. Lists(M, v, n + 1) /\ Ordered(to, v, n + 1)
  <2>1. n + 1 - 1 = n
    BY <1>3
  <2> QED BY <1>9, <1>11, <1>12, <1>14, <1>15, <1>16, <2>1 DEF Lists, Ordered
<1>18. Holds(M, to, S \cup {t})
  BY <1>8, <1>9, <1>12, <1>13, <1>17 DEF Holds
<1> QED BY <1>18 DEF M
-----------------------------------------------------------------------------
(* Times of timers that are not on a list do not matter to it. *)
LEMMA HoldsKept ==
  ASSUME NEW L, NEW to, NEW S, Holds(L, to, S), NEW at, \A t \in S : at[t] = to[t]
  PROVE  Holds(L, at, S)
<1>1. PICK n \in 0 .. MaxTimer - 1 : \E w \in [0 .. n -> Timers] :
        Lists(L, w, n) /\ Ordered(to, w, n) /\ OnList(w, n) = S
  BY DEF Holds
<1>2. PICK w \in [0 .. n -> Timers] :
        Lists(L, w, n) /\ Ordered(to, w, n) /\ OnList(w, n) = S
  BY <1>1
<1>3. \A k \in 0 .. n : at[w[k]] = to[w[k]]
  BY <1>2 DEF OnList
<1>4. Ordered(at, w, n)
  BY <1>2, <1>3 DEF Ordered
<1> QED BY <1>2, <1>4 DEF Holds

(* timer_cancel takes a timer out. *)
LEMMA UnlinkedHolds ==
  ASSUME NEW L, NEW to, NEW S, Holds(L, to, S), NEW t \in S, t # Sentinel
  PROVE  Holds(Unlinked(L, t), to, S \ {t})
<1>1. PICK n \in 0 .. MaxTimer - 1 : \E w \in [0 .. n -> Timers] :
        Lists(L, w, n) /\ Ordered(to, w, n) /\ OnList(w, n) = S
  BY DEF Holds
<1>2. PICK w \in [0 .. n -> Timers] :
        Lists(L, w, n) /\ Ordered(to, w, n) /\ OnList(w, n) = S
  BY <1>1
<1>3. PICK k \in 0 .. n : w[k] = t
  BY <1>2 DEF OnList
<1> DEFINE M == Unlinked(L, t)
           At(j) == IF j < k THEN j ELSE j + 1
           v == [j \in 0 .. n - 1 |-> w[At(j)]]
<1>4. /\ n \in Nat /\ L \in ListRecords
      /\ L.t0 \in Timers /\ L.nxt \in [Timers -> Timers \cup {NoTimer}]
      /\ \A j \in 0 .. n : w[j] \in Timers
  BY DEF Holds, ListRecords
<1>5. /\ w[0] = L.t0 /\ w[n] = Sentinel /\ L.nxt[Sentinel] = NoTimer
      /\ \A j \in 0 .. n - 1 : L.nxt[w[j]] = w[j + 1]
      /\ \A i, j \in 0 .. n : i < j => w[i] # w[j]
  BY <1>2 DEF Lists
<1>6. \A j \in 0 .. n : Path(L)[j] = w[j]
  BY <1>2, PathIs
<1>7. k \in 0 .. n - 1 /\ n > 0 /\ L.nxt[t] = w[k + 1] /\ k + 1 \in 0 .. n
  BY <1>3, <1>4, <1>5
<1>8. \A j \in 0 .. n : j # k => w[j] # t
  <2> SUFFICES ASSUME NEW j \in 0 .. n, j # k
               PROVE  w[j] # t
    OBVIOUS
  <2>1. j < k \/ k < j
    OBVIOUS
  <2> QED BY <1>3, <1>5, <2>1
\* What the list is now.
<1>9. /\ M \in ListRecords
      /\ M.t0 = IF k = 0 THEN w[1] ELSE L.t0
      /\ k > 0 => M.nxt[w[k - 1]] = w[k + 1]
      /\ \A x \in Timers : (k > 0 => x # w[k - 1]) => M.nxt[x] = L.nxt[x]
  <2>1. CASE k = 0
    <3>1. t = L.t0
      BY <1>3, <1>5, <2>1
    <3>2. M = [L EXCEPT !.t0 = L.nxt[t]]
      BY <3>1 DEF Unlinked
    <3>3. L.nxt[t] = w[1] /\ 1 \in 0 .. n
      BY <1>7, <2>1
    <3>4. w[1] \in Timers
      BY <1>4, <3>3
    <3>5. M = [L EXCEPT !.t0 = w[1]]
      BY <3>2, <3>3
    <3> HIDE DEF M
    <3>6. M \in ListRecords /\ M.t0 = w[1] /\ M.nxt = L.nxt
      BY <1>4, <3>4, <3>5 DEF ListRecords
    <3> QED BY <2>1, <3>6
  <2>2. CASE k > 0
    <3> DEFINE c == CHOOSE c \in 1 .. MaxTimer :
                      Path(L)[c] = t /\ \A j \in 1 .. c - 1 : Path(L)[j] # t
    <3>1. t # L.t0
      BY <1>4, <1>5, <1>8, <2>2
    <3>2. k \in 1 .. MaxTimer /\ Path(L)[k] = t /\ \A j \in 1 .. k - 1 : Path(L)[j] # t
      BY <1>3, <1>4, <1>6, <1>8, <2>2
    <3>3. c \in 1 .. MaxTimer /\ Path(L)[c] = t /\ \A j \in 1 .. c - 1 : Path(L)[j] # t
      BY <3>2
    <3>4. M = [L EXCEPT !.nxt[Path(L)[c - 1]] = L.nxt[t]]
      BY <3>1 DEF Unlinked
    <3> HIDE DEF c, M
    <3>5. c = k
      <4>1. ~ (c < k)
        BY <3>2, <3>3
      <4>2. ~ (k < c)
        BY <3>2, <3>3
      <4> QED BY <3>2, <3>3, <4>1, <4>2
    <3>6. k - 1 \in 0 .. n /\ Path(L)[k - 1] = w[k - 1]
      BY <1>4, <1>6, <2>2
    <3>7. M = [L EXCEPT !.nxt[w[k - 1]] = w[k + 1]]
      BY <1>7, <3>4, <3>5, <3>6
    <3>8. w[k - 1] \in Timers /\ w[k + 1] \in Timers
      BY <1>4, <1>7, <3>6
    <3>9. M \in ListRecords /\ M.t0 = L.t0 /\ M.nxt = [L.nxt EXCEPT ![w[k - 1]] = w[k + 1]]
      BY <1>4, <3>7, <3>8 DEF ListRecords
    <3> QED BY <1>4, <2>2, <3>8, <3>9
  <2> QED BY <2>1, <2>2
<1> HIDE DEF M
<1>10. ASSUME NEW j \in 0 .. n - 1
       PROVE  At(j) \in 0 .. n /\ At(j) # k /\ v[j] = w[At(j)] /\ v[j] \in Timers
  BY <1>4, <1>7
<1>11. ASSUME NEW i \in 0 .. n - 1, NEW j \in 0 .. n - 1, i < j
       PROVE  At(i) < At(j)
  BY <1>4, <1>11
<1>12. ASSUME NEW i \in 0 .. n, i # k
       PROVE  \E j \in 0 .. n - 1 : At(j) = i
  <2>1. CASE i < k
    <3>1. i \in 0 .. n - 1 /\ At(i) = i
      BY <1>4, <2>1
    <3> QED BY <3>1
  <2>2. CASE i > k
    <3>1. i - 1 \in 0 .. n - 1 /\ At(i - 1) = i
      BY <1>4, <2>2
    <3> QED BY <3>1
  <2> QED BY <1>4, <1>12, <2>1, <2>2
<1>13. v \in [0 .. n - 1 -> Timers]
  <2>1. v = [j \in 0 .. n - 1 |-> v[j]]
    OBVIOUS
  <2> HIDE DEF v, At
  <2> QED BY <1>10, <2>1
<1>14. v[0] = M.t0 /\ v[n - 1] = Sentinel
  <2>1. 0 \in 0 .. n - 1 /\ n - 1 \in 0 .. n - 1
    BY <1>4, <1>7
  <2>2. v[0] = IF k = 0 THEN w[1] ELSE w[0]
    BY <1>10, <2>1
  <2>3. v[n - 1] = w[n]
    BY <1>4, <1>7, <1>10, <2>1
  <2> QED BY <1>5, <1>9, <2>2, <2>3
<1>15. ASSUME NEW j \in 0 .. n - 2
       PROVE  M.nxt[v[j]] = v[j + 1]
  <2>1. j \in 0 .. n - 1 /\ j + 1 \in 0 .. n - 1
    BY <1>4
  <2>2. CASE j = k - 1
    <3>1. k > 0 /\ v[j] = w[k - 1] /\ v[j + 1] = w[k + 1]
      BY <1>4, <1>10, <2>1, <2>2
    <3> QED BY <1>9, <3>1
  <2>3. CASE j # k - 1
    <3>1. At(j + 1) = At(j) + 1 /\ At(j) \in 0 .. n - 1 /\ At(j) # k - 1
      BY <1>4, <2>1, <2>3
    <3>2. v[j] = w[At(j)] /\ v[j + 1] = w[At(j) + 1] /\ v[j] \in Timers
      BY <1>10, <2>1, <3>1
    <3>3. L.nxt[w[At(j)]] = w[At(j) + 1]
      BY <1>5, <3>1
    <3>4. k > 0 => w[At(j)] # w[k - 1]
      <4> SUFFICES ASSUME k > 0
                   PROVE  w[At(j)] # w[k - 1]
        OBVIOUS
      <4>1. k - 1 \in 0 .. n /\ At(j) \in 0 .. n /\ (At(j) < k - 1 \/ k - 1 < At(j))
        BY <1>4, <3>1
      <4> HIDE DEF At
      <4> QED BY <1>5, <4>1
    <3> HIDE DEF At, v
    <3> QED BY <1>9, <3>2, <3>3, <3>4
  <2> QED BY <2>2, <2>3
<1>16. M.nxt[Sentinel] = NoTimer
  <2>1. k > 0 => Sentinel # w[k - 1]
    BY <1>4, <1>5
  <2>2. Sentinel \in Timers
    BY <1>4, <1>5
  <2> QED BY <1>5, <1>9, <2>1, <2>2
<1>17. ASSUME NEW i \in 0 .. n - 1, NEW j \in 0 .. n - 1, i < j
       PROVE  v[i] # v[j] /\ Leq(to[v[i]], to[v[j]])
  <2>1. At(i) < At(j) /\ At(i) \in 0 .. n /\ At(j) \in 0 .. n /\ v[i] = w[At(i)] /\ v[j] = w[At(j)]
    BY <1>10, <1>11, <1>17
  <2> HIDE DEF At, v
  <2> QED BY <1>2, <1>5, <2>1 DEF Ordered
<1>18. OnList(v, n - 1) = S \ {t}
  <2>1. ASSUME NEW j \in 0 .. n - 1
        PROVE  v[j] \in S \ {t}
    <3>1. At(j) \in 0 .. n /\ At(j) # k /\ v[j] = w[At(j)]
      BY <1>10
    <3> HIDE DEF At, v
    <3> QED BY <1>2, <1>8, <3>1 DEF OnList
  <2>2. ASSUME NEW x \in S \ {t}
        PROVE  \E j \in 0 .. n - 1 : v[j] = x
    <3>1. PICK i \in 0 .. n : w[i] = x
      BY <1>2 DEF OnList
    <3>2. i # k
      BY <1>3, <3>1
    <3>3. PICK j \in 0 .. n - 1 : At(j) = i
      BY <1>12, <3>2
    <3> QED BY <1>10, <3>1, <3>3
  <2> HIDE DEF v
  <2> QED BY <2>1, <2>2 DEF OnList
<1> HIDE DEF v, At
<1>19. Lists(M, v, n - 1) /\ Ordered(to, v, n - 1)
  <2>1. n - 1 \in 0 .. MaxTimer - 1 /\ n - 1 - 1 = n - 2
    BY <1>4, <1>7
  <2> QED BY <1>13, <1>14, <1>15, <1>16, <1>17, <2>1 DEF Lists, Ordered
<1>20. Holds(M, to, S \ {t})
  <2>1. n - 1 \in 0 .. MaxTimer - 1
    BY <1>4, <1>7
  <2> QED BY <1>9, <1>13, <1>18, <1>19, <2>1 DEF Holds
<1> QED BY <1>20 DEF M

(* The interrupt cuts the first k timers off. *)
LEMMA CutHolds ==
  ASSUME NEW L \in ListRecords, NEW to, NEW n \in 0 .. MaxTimer - 1, NEW w \in [0 .. n -> Timers],
         Lists(L, w, n), Ordered(to, w, n), NEW k \in 0 .. n
  PROVE  Holds([L EXCEPT !.t0 = w[k]], to, OnList(w, n) \ {w[j] : j \in 0 .. k - 1})
<1> DEFINE M == [L EXCEPT !.t0 = w[k]]
           m == n - k
           v == [j \in 0 .. m |-> w[j + k]]
<1>1. M \in ListRecords /\ M.t0 = w[k] /\ M.nxt = L.nxt
  BY DEF ListRecords
<1>2. /\ w[0] = L.t0 /\ w[n] = Sentinel /\ L.nxt[Sentinel] = NoTimer
      /\ \A j \in 0 .. n - 1 : L.nxt[w[j]] = w[j + 1]
      /\ \A i, j \in 0 .. n : i < j => w[i] # w[j]
  BY DEF Lists
<1>3. m \in 0 .. MaxTimer - 1 /\ m \in Nat
  OBVIOUS
<1>4. ASSUME NEW j \in 0 .. m
      PROVE  j + k \in 0 .. n /\ j + k \in k .. n /\ v[j] = w[j + k] /\ v[j] \in Timers
  OBVIOUS
<1>5. v \in [0 .. m -> Timers]
  BY <1>4
<1> HIDE DEF M, v
<1>6. v[0] = M.t0 /\ v[m] = Sentinel
  <2>1. 0 \in 0 .. m /\ m \in 0 .. m /\ 0 + k = k /\ m + k = n
    OBVIOUS
  <2> HIDE DEF m
  <2> QED BY <1>1, <1>2, <1>4, <2>1
<1>7. ASSUME NEW j \in 0 .. m - 1
      PROVE  M.nxt[v[j]] = v[j + 1]
  <2>1. j \in 0 .. m /\ j + 1 \in 0 .. m /\ j + k \in 0 .. n - 1 /\ j + 1 + k = j + k + 1
    OBVIOUS
  <2> HIDE DEF m
  <2> QED BY <1>1, <1>2, <1>4, <2>1
<1>8. ASSUME NEW i \in 0 .. m, NEW j \in 0 .. m, i < j
      PROVE  v[i] # v[j] /\ Leq(to[v[i]], to[v[j]])
  <2>1. i + k < j + k
    BY <1>8
  <2> HIDE DEF m
  <2> QED BY <1>2, <1>4, <2>1 DEF Ordered
<1>9. OnList(v, m) = OnList(w, n) \ {w[j] : j \in 0 .. k - 1}
  <2>1. ASSUME NEW j \in 0 .. m
        PROVE  v[j] \in OnList(w, n) \ {w[i] : i \in 0 .. k - 1}
    <3>1. v[j] = w[j + k] /\ j + k \in 0 .. n
      BY <1>4
    <3>2. \A i \in 0 .. k - 1 : i \in 0 .. n /\ i < j + k
      OBVIOUS
    <3> QED BY <1>2, <3>1, <3>2 DEF OnList
  <2>2. ASSUME NEW x \in OnList(w, n) \ {w[i] : i \in 0 .. k - 1}
        PROVE  \E j \in 0 .. m : v[j] = x
    <3>1. PICK i \in 0 .. n : w[i] = x
      BY DEF OnList
    <3>2. ~ (i \in 0 .. k - 1)
      BY <3>1
    <3>3. i - k \in 0 .. m /\ i - k + k = i
      BY <3>2
    <3>4. v[i - k] = x
      BY <1>4, <3>1, <3>3
    <3> QED BY <3>3, <3>4
  <2> QED BY <2>1, <2>2 DEF OnList
<1> HIDE DEF m
<1>10. Lists(M, v, m) /\ Ordered(to, v, m)
  BY <1>1, <1>2, <1>3, <1>5, <1>6, <1>7, <1>8 DEF Lists, Ordered
<1>11. Holds(M, to, OnList(w, n) \ {w[j] : j \in 0 .. k - 1})
  BY <1>1, <1>3, <1>5, <1>9, <1>10 DEF Holds
<1> QED BY <1>11 DEF M
-----------------------------------------------------------------------------
(* The interrupt finds the first timer that has not timed out. *)
LEMMA PassedIs ==
  ASSUME NEW w, NEW n, Lists(List, w, n), Times(timeout), NEW c
  PROVE  /\ Passed(c) \in 0 .. n
         /\ ~TimedOut(w[Passed(c)], c)
         /\ \A j \in 0 .. Passed(c) - 1 : TimedOut(w[j], c)
<1> DEFINE T == {k \in 0 .. n : ~TimedOut(w[k], c)}
           Place(k) == /\ ~TimedOut(Path(List)[k], c)
                       /\ \A j \in Before(k) : TimedOut(Path(List)[j], c)
           p == Passed(c)
<1>1. n \in 0 .. MaxTimer - 1 /\ n \in Nat /\ w \in [0 .. n -> Timers] /\ w[n] = Sentinel
  BY DEF Lists
<1>2. \A k \in 0 .. n : k \in 0 .. MaxTimer /\ Path(List)[k] = w[k]
  BY <1>1, PathIs
<1>3. ~TimedOut(w[n], c)
  BY <1>1 DEF Times, TimedOut
<1>4. PICK x \in T : \A y \in T : x <= y
  <2>1. n \in T /\ T \in SUBSET (0 .. n)
    BY <1>1, <1>3
  <2> HIDE DEF T
  <2> QED BY <1>1, <2>1, Least
<1>5. Place(x) /\ x \in 0 .. MaxTimer
  <2>1. x \in 0 .. n /\ ~TimedOut(w[x], c)
    BY <1>4
  <2>2. ASSUME NEW j \in Before(x)
        PROVE  TimedOut(Path(List)[j], c)
    <3>1. j \in 0 .. n /\ ~ (x <= j)
      BY <1>1, <2>1 DEF Before
    <3> QED BY <1>2, <1>4, <3>1
  <2> QED BY <1>2, <2>1, <2>2
<1> HIDE DEF T
<1>6. p \in 0 .. MaxTimer /\ Place(p)
  <2>1. p = CHOOSE k \in 0 .. MaxTimer : Place(k)
    BY DEF Passed
  <2> HIDE DEF p, Place
  <2> QED BY <1>5, <2>1
<1> HIDE DEF p
<1>7. p <= n
  <2> SUFFICES ASSUME p > n
               PROVE  FALSE
    BY <1>1, <1>6
  <2>1. n \in Before(p)
    BY <1>1, <1>6 DEF Before
  <2>2. n \in 0 .. n
    BY <1>1
  <2> QED BY <1>2, <1>3, <1>6, <2>1, <2>2
<1>8. p \in 0 .. n
  BY <1>1, <1>6, <1>7
<1>9. ASSUME NEW j \in 0 .. p - 1
      PROVE  TimedOut(w[j], c)
  <2>1. j \in Before(p) /\ j \in 0 .. n
    BY <1>1, <1>8 DEF Before
  <2> QED BY <1>2, <1>6, <2>1
<1>10. ~TimedOut(w[p], c)
  BY <1>2, <1>6, <1>8
<1> QED BY <1>8, <1>9, <1>10 DEF p

-----------------------------------------------------------------------------
Using == {t \in Timers : flags[t] = FLAGS_USING}

\* The timers in use that are, or should be, on the list.
Running == Using \ BeingSet

\* The list part of the inductive invariant.
ListInv ==
  /\ count \in Pairs
  /\ Times(timeout)
  /\ flags \in [Timers -> {FLAGS_FREE, FLAGS_ALLOC, FLAGS_USING}]
  /\ flags2 \in [Timers -> BOOLEAN]
  /\ {Sentinel, TaskTimer} \subseteq Running
  /\ ~flags2[Sentinel] /\ ~flags2[TaskTimer]
  /\ Holds(List, timeout, Running)

\* A place in a call says what the flags of its timer are.
PlaceOk(f) ==
  /\ pc[f] = "found" => timer[f] \in Clients /\ flags[timer[f]] = FLAGS_FREE
  /\ pc[f] \in {"fresh", "low", "high"} => timer[f] \in held[f]
  /\ pc[f] \in {"fresh", "low"} => flags[timer[f]] = FLAGS_ALLOC
  /\ pc[f] = "high" => flags[timer[f]] = FLAGS_USING

\* The timers a task has pointers to are its own, and have its FIFO as soon
\* as timer_init returned.
Owns(f) ==
  \A t \in held[f] :
    /\ flags[t] # FLAGS_FREE
    /\ fifo[t] = f \/ (pc[f] = "fresh" /\ timer[f] = t)

CallTypes ==
  /\ pc \in [Fifos -> Places]
  /\ timer \in [Fifos -> Clients \cup {NoTimer}]
  /\ held \in [Fifos -> SUBSET Clients]
  /\ fifo \in [Timers -> Fifos \cup {NoFifo}]

\* The part of the inductive invariant about who uses which timer.
CallInv ==
  /\ CallTypes
  /\ \A f \in Fifos : PlaceOk(f) /\ Owns(f)
  /\ \A f, g \in Fifos : f # g => held[f] \cap held[g] = {}
  /\ \A t \in Clients : flags[t] # FLAGS_FREE => \E f \in Fifos : t \in held[f]
  /\ \A f, g \in Fifos :
       pc[f] \in {"found", "fresh"} /\ pc[g] \in {"found", "fresh"} => f = g

TimerInv == ListInv /\ CallInv

(* What is listed, when the invariant holds. *)
LEMMA InvImplies ==
  ASSUME ListInv
  PROVE  TimerList /\ TaskTimerRuns
<1>1. PICK n \in 0 .. MaxTimer - 1 : \E w \in [0 .. n -> Timers] :
        Lists(List, w, n) /\ Ordered(timeout, w, n) /\ OnList(w, n) = Running
  BY DEF ListInv, Holds
<1>2. PICK w \in [0 .. n -> Timers] :
        Lists(List, w, n) /\ Ordered(timeout, w, n) /\ OnList(w, n) = Running
  BY <1>1
<1> DEFINE p == Path(List)
<1>3. \A k \in 0 .. MaxTimer : p[k] = IF k <= n THEN w[k] ELSE NoTimer
  BY <1>2, PathIs
<1>4. \A k \in 0 .. n : k \in 0 .. MaxTimer /\ p[k] = w[k] /\ w[k] \in Timers /\ w[k] # NoTimer
  BY <1>3 DEF Timers, NoTimer
<1> HIDE DEF p
<1>5. ListSorted
  <2>1. List.nxt = nxt
    BY DEF List
  <2>2. w[n] = Sentinel /\ nxt[Sentinel] = NoTimer /\ n \in 0 .. n
    BY <1>2, <2>1 DEF Lists
  <2>3. \A j, k \in 0 .. n : j < k => p[j] # p[k] /\ Leq(timeout[p[j]], timeout[p[k]])
    BY <1>2, <1>4 DEF Lists, Ordered
  <2> QED BY <1>4, <2>2, <2>3 DEF ListSorted, p
<1>6. Listed = Running
  <2>1. Listed = OnList(w, n)
    <3>1. ASSUME NEW k \in 0 .. MaxTimer, p[k] # NoTimer
          PROVE  k \in 0 .. n /\ p[k] = w[k]
      BY <1>3, <3>1
    <3> QED BY <1>4, <3>1 DEF Listed, OnList, p
  <2> QED BY <1>2, <2>1
<1> QED BY <1>5, <1>6 DEF ListInv, TimerList, ListedUsing, TaskTimerRuns, Running, Using
(* A list of the pool is the pair of its head and its next fields. *)
LEMMA ListNext ==
  ASSUME NEW M \in ListRecords, SetList(M)
  PROVE  List' = M
BY DEF ListRecords, SetList, List

(* The counter and the times that are set fit in two words. *)
LEMMA CounterFits ==
  ASSUME count \in Pairs
  PROVE  /\ Wide(count) < MaxTime => Tock(count) \in Pairs
         /\ \A c \in Pairs : \A d \in Nat : <<c[1], (c[2] + d) % Word>> \in Pairs
<1>1. ASSUME Wide(count) < MaxTime
      PROVE  Tock(count) \in Pairs
  <2>1. count[1] \in 0 .. Word - 1 /\ count[2] \in 0 .. Word - 1
    BY DEF Pairs
  <2>2. count[1] # Word - 1
    <3> SUFFICES ASSUME count[1] = Word - 1
                 PROVE  FALSE
      OBVIOUS
    <3>1. Wide(count) = (Word - 1) * Word + count[2]
      BY DEF Wide
    <3>2. (Word - 1) * Word = Word * (Word - 1)
      OBVIOUS
    <3>3. Word * (Word - 1) \in Int
      OBVIOUS
    <3> QED BY <1>1, <2>1, <3>1, <3>2, <3>3
  <2> QED BY <2>1, <2>2 DEF Tock, Pairs
<1>2. ASSUME NEW c \in Pairs, NEW d \in Nat
      PROVE  <<c[1], (c[2] + d) % Word>> \in Pairs
  <2>1. c[1] \in 0 .. Word - 1 /\ c[2] + d \in Nat
    BY DEF Pairs
  <2>2. (c[2] + d) % Word \in 0 .. Word - 1
    BY <2>1
  <2> QED BY <2>1, <2>2 DEF Pairs
<1> QED BY <1>1, <1>2

(* What init_pit and task_init set up. *)
LEMMA InitInv ==
  ASSUME Init
  PROVE  TimerInv
<1> DEFINE w == [k \in 0 .. 1 |-> IF k = 0 THEN TaskTimer ELSE Sentinel]
<1>1. Sentinel \in Timers /\ TaskTimer \in Timers /\ Sentinel # TaskTimer
  BY DEF Sentinel, TaskTimer, Timers
<1>2. count \in Pairs
  BY DEF Init, Pairs
<1>3. Times(timeout)
  <2>1. <<0, Slice>> \in Pairs /\ Never \in Pairs /\ <<0, 0>> \in Pairs
    BY DEF Pairs, Never
  <2>2. timeout[Sentinel] = Never
    BY <1>1 DEF Init
  <2>3. timeout \in [Timers -> Pairs]
    BY <2>1 DEF Init
  <2> QED BY <2>2, <2>3 DEF Times
<1>4. Running = {Sentinel, TaskTimer}
  <2>1. BeingSet = {}
    BY DEF Init, BeingSet
  <2> QED BY <1>1, <2>1 DEF Init, Running, Using, FLAGS_USING, FLAGS_FREE
<1>5. /\ flags \in [Timers -> {FLAGS_FREE, FLAGS_ALLOC, FLAGS_USING}]
      /\ flags2 \in [Timers -> BOOLEAN] /\ ~flags2[Sentinel] /\ ~flags2[TaskTimer]
  BY <1>1 DEF Init
<1>6. /\ w \in [0 .. 1 -> Timers] /\ w[0] = TaskTimer /\ w[1] = Sentinel
      /\ 0 .. 1 = {0, 1} /\ 0 .. 0 = {0}
  BY <1>1
<1> HIDE DEF w
<1>7. List.t0 = TaskTimer /\ List.nxt[TaskTimer] = Sentinel /\ List.nxt[Sentinel] = NoTimer
      /\ List \in ListRecords
  BY <1>1 DEF Init, List, ListRecords
<1>8. Lists(List, w, 1)
  <2>1. 1 \in 0 .. MaxTimer - 1 /\ 1 - 1 = 0 /\ 0 + 1 = 1
    OBVIOUS
  <2>2. \A j, k \in 0 .. 1 : j < k => w[j] # w[k]
    BY <1>1, <1>6
  <2>3. \A k \in 0 .. 1 - 1 : List.nxt[w[k]] = w[k + 1]
    BY <1>6, <1>7, <2>1
  <2> QED BY <1>6, <1>7, <2>1, <2>2, <2>3 DEF Lists
<1>9. Ordered(timeout, w, 1)
  <2>1. timeout[TaskTimer] \in Pairs /\ timeout[Sentinel] = Never
    BY <1>1, <1>3 DEF Times
  <2>2. Leq(timeout[TaskTimer], timeout[Sentinel])
    BY <2>1, Compare
  <2>3. \A j, k \in 0 .. 1 : j < k => j = 0 /\ k = 1
    OBVIOUS
  <2> QED BY <1>6, <2>2, <2>3 DEF Ordered
<1>10. OnList(w, 1) = Running
  BY <1>4, <1>6 DEF OnList
<1>11. Holds(List, timeout, Running)
  <2>1. 1 \in 0 .. MaxTimer - 1
    OBVIOUS
  <2> QED BY <1>6, <1>7, <1>8, <1>9, <1>10, <2>1 DEF Holds
<1>12. ListInv
  BY <1>2, <1>3, <1>4, <1>5, <1>11 DEF ListInv
<1>13. CallInv
  BY DEF Init, CallInv, CallTypes, PlaceOk, Owns, Places, Clients, FLAGS_USING, FLAGS_FREE
<1> QED BY <1>12, <1>13 DEF TimerInv
-----------------------------------------------------------------------------
(* A task's step in a call changes only its own place. *)
LEMMA GoesIs ==
  ASSUME CallInv, NEW f \in Fifos, NEW p, NEW q \in Places, NEW t \in Clients \cup {NoTimer},
         Goes(f, p, q, t)
  PROVE  /\ pc[f] = p /\ pc'[f] = q /\ pc' \in [Fifos -> Places]
         /\ timer'[f] = IF q = "ready" THEN NoTimer ELSE t
         /\ timer' \in [Fifos -> Clients \cup {NoTimer}]
         /\ \A g \in Fifos : g # f => pc'[g] = pc[g] /\ timer'[g] = timer[g]
         /\ fired' = <<>>
BY DEF CallInv, CallTypes, Goes

(* Different tasks make calls for different timers. *)
LEMMA CallsApart ==
  ASSUME CallInv, NEW f \in Fifos, NEW g \in Fifos, NEW t \in held[f],
         pc[g] \in {"fresh", "low", "high"}, timer[g] = t
  PROVE  g = f
BY DEF CallInv, PlaceOk

(* What is being set after a step of a call. *)
LEMMA BeingSetNext ==
  ASSUME CallInv, NEW f \in Fifos, NEW p, NEW q \in Places, NEW t \in Clients \cup {NoTimer},
         Goes(f, p, q, t)
  PROVE  /\ p # "high" /\ q # "high" => BeingSet' = BeingSet
         /\ p # "high" /\ q = "high" => BeingSet' = BeingSet \cup {t}
         /\ p = "high" /\ q = "ready" => BeingSet' = BeingSet \ {timer[f]}
<1>1. /\ pc[f] = p /\ pc'[f] = q
      /\ timer'[f] = IF q = "ready" THEN NoTimer ELSE t
      /\ \A g \in Fifos : g # f => pc'[g] = pc[g] /\ timer'[g] = timer[g]
  BY GoesIs
<1>2. BeingSet' = {timer'[g] : g \in {h \in Fifos : pc'[h] = "high"}}
  BY DEF BeingSet
<1>3. CASE p # "high" /\ q # "high"
  BY <1>1, <1>2, <1>3 DEF BeingSet
<1>4. CASE p # "high" /\ q = "high"
  BY <1>1, <1>2, <1>4 DEF BeingSet
<1>5. CASE p = "high" /\ q = "ready"
  <2>1. ASSUME NEW g \in Fifos, g # f, pc[g] = "high"
        PROVE  timer[g] # timer[f]
    <3>1. timer[f] \in held[f]
      BY <1>1, <1>5 DEF CallInv, PlaceOk
    <3> QED BY <2>1, <3>1, CallsApart
  <2> QED BY <1>1, <1>2, <1>5, <2>1 DEF BeingSet
<1> QED BY <1>3, <1>4, <1>5

(* A timer that is being set is in use, and its task is in the call. *)
LEMMA BeingSetIs ==
  ASSUME CallInv
  PROVE  /\ BeingSet \subseteq Using /\ BeingSet \subseteq Clients
         /\ \A f \in Fifos : \A t \in held[f] : t \in BeingSet => pc[f] = "high" /\ timer[f] = t
<1>1. ASSUME NEW g \in Fifos, pc[g] = "high"
      PROVE  /\ timer[g] \in Clients /\ timer[g] \in Using
             /\ \A f \in Fifos : timer[g] \in held[f] => f = g
  <2>1. timer[g] \in held[g] /\ flags[timer[g]] = FLAGS_USING /\ held[g] \subseteq Clients
    BY <1>1 DEF CallInv, CallTypes, PlaceOk
  <2>2. \A f \in Fifos : timer[g] \in held[f] => f = g
    BY <2>1 DEF CallInv
  <2> QED BY <2>1, <2>2 DEF Using, Clients
<1> QED BY <1>1 DEF BeingSet

(* A task that is not in a call may set or free only timers that do not run. *)
LEMMA Stopped ==
  ASSUME CallInv, Careful, NEW f \in Fifos, NEW t \in held[f], MayUse(f, t), pc[f] = "ready"
  PROVE  flags[t] # FLAGS_USING
BY DEF CallInv, Owns, MayUse

(* What timer_cancelall takes belongs to the task that calls it. *)
LEMMA TakenHeld ==
  ASSUME TimerInv, Undisturbed, NEW f \in Fifos, Quiet(f), pc[f] = "ready"
  PROVE  Taken(f) \subseteq held[f] /\ Taken(f) \cap BeingSet = {} /\ Taken(f) \subseteq Clients
<1>1. ASSUME NEW t \in Taken(f)
      PROVE  t \in held[f] /\ t \in Clients
  <2>1. t \in Timers /\ flags[t] # FLAGS_FREE /\ flags2[t] /\ fifo[t] = f
    BY DEF Taken
  <2>2. t \in Clients
    BY <2>1 DEF TimerInv, ListInv, Clients
  <2>3. PICK g \in Fifos : t \in held[g]
    BY <2>1, <2>2 DEF TimerInv, CallInv
  <2>4. fifo[t] = g \/ pc[g] = "fresh"
    BY <2>3 DEF TimerInv, CallInv, Owns
  <2>5. g = f
    BY <2>1, <2>4 DEF Quiet
  <2> QED BY <2>2, <2>3, <2>5
<1>2. ASSUME NEW t \in held[f]
      PROVE  t \notin BeingSet
  BY BeingSetIs DEF TimerInv
<1> QED BY <1>1, <1>2
-----------------------------------------------------------------------------
(* Who uses which timer, after a step that leaves the calls alone and may
   stop timers that run. *)
LEMMA CallsKept ==
  ASSUME CallInv, UNCHANGED <<pc, timer, held, fifo>>,
         \A t \in Clients : flags'[t] = flags[t] \/ (t \in Running /\ flags'[t] = FLAGS_ALLOC)
  PROVE  CallInv'
<1> USE DEF FLAGS_FREE, FLAGS_ALLOC, FLAGS_USING
<1>1. ASSUME NEW t \in Clients
      PROVE  flags'[t] = FLAGS_FREE <=> flags[t] = FLAGS_FREE
  BY DEF Running, Using
<1>2. CallTypes' /\ \A f \in Fifos : held[f] \subseteq Clients
  BY DEF CallInv, CallTypes
<1>3. ASSUME NEW f \in Fifos
      PROVE  PlaceOk(f)'
  <2>1. PlaceOk(f)
    BY DEF CallInv
  <2>2. CASE pc[f] = "found"
    BY <1>1, <2>1, <2>2 DEF PlaceOk
  <2>3. CASE pc[f] \in {"fresh", "low"}
    <3>1. timer[f] \in Clients /\ flags[timer[f]] = FLAGS_ALLOC
      BY <1>2, <2>1, <2>3 DEF PlaceOk
    <3>2. flags'[timer[f]] = FLAGS_ALLOC
      BY <3>1
    <3> QED BY <2>1, <2>3, <3>2 DEF PlaceOk
  <2>4. CASE pc[f] = "high"
    <3>1. timer[f] \in Clients /\ timer[f] \in BeingSet
      BY <1>2, <2>1, <2>4 DEF PlaceOk, BeingSet
    <3>2. flags'[timer[f]] = flags[timer[f]]
      BY <3>1 DEF Running
    <3> QED BY <2>1, <2>4, <3>2 DEF PlaceOk
  <2> QED BY <2>1, <2>2, <2>3, <2>4 DEF PlaceOk
<1>4. ASSUME NEW f \in Fifos
      PROVE  Owns(f)'
  BY <1>1, <1>2 DEF CallInv, Owns
<1>5. \A t \in Clients : flags'[t] # FLAGS_FREE => \E f \in Fifos : t \in held'[f]
  BY <1>1 DEF CallInv
<1> QED BY <1>2, <1>3, <1>4, <1>5 DEF CallInv

(* Who uses which timer, after a step of task f's call for timer t that gives
   the timer the flags x and leaves the tasks their pointers. *)
LEMMA CallsStep ==
  ASSUME CallInv, NEW f \in Fifos, NEW p, NEW q \in Places, NEW t \in held[f], NEW x,
         Goes(f, p, q, t), UNCHANGED <<held, fifo>>,
         flags \in [Timers -> {FLAGS_FREE, FLAGS_ALLOC, FLAGS_USING}],
         flags' = [flags EXCEPT ![t] = x],
         \/ q = "ready" /\ x = flags[t] /\ p # "fresh"
         \/ q = "low" /\ x = flags[t] /\ x = FLAGS_ALLOC /\ p = "ready"
         \/ q = "high" /\ x = FLAGS_USING /\ p = "low"
         \/ q = "ready" /\ x = FLAGS_ALLOC /\ p = "ready"
  PROVE  CallInv'
<1> USE DEF FLAGS_FREE, FLAGS_ALLOC, FLAGS_USING
<1>1. /\ pc[f] = p /\ pc'[f] = q /\ pc' \in [Fifos -> Places]
      /\ timer'[f] = IF q = "ready" THEN NoTimer ELSE t
      /\ timer' \in [Fifos -> Clients \cup {NoTimer}]
      /\ \A g \in Fifos : g # f => pc'[g] = pc[g] /\ timer'[g] = timer[g]
  <2>1. t \in Clients \cup {NoTimer}
    BY DEF CallInv, CallTypes
  <2> QED BY <2>1, GoesIs
<1>2. CallTypes' /\ t \in Clients /\ t \in Timers /\ \A g \in Fifos : held[g] \subseteq Clients
  BY <1>1 DEF CallInv, CallTypes, Clients
<1>3. /\ flags'[t] = x /\ \A u \in Timers : u # t => flags'[u] = flags[u]
      /\ x # FLAGS_FREE /\ flags[t] # FLAGS_FREE /\ Clients \subseteq Timers
  BY <1>2 DEF CallInv, Owns, Clients
<1>4. ASSUME NEW g \in Fifos
      PROVE  PlaceOk(g)'
  <2>1. PlaceOk(g)
    BY DEF CallInv
  <2>2. CASE g = f
    BY <1>1, <1>3, <2>2 DEF PlaceOk
  <2>3. CASE g # f
    <3>1. pc'[g] = pc[g] /\ timer'[g] = timer[g]
      BY <1>1, <2>3
    <3>2. pc[g] \in {"found", "fresh", "low", "high"} => timer[g] # t /\ timer[g] \in Timers
      BY <1>2, <1>3, <2>1, <2>3, CallsApart DEF PlaceOk
    <3> QED BY <1>3, <2>1, <3>1, <3>2 DEF PlaceOk
  <2> QED BY <2>2, <2>3
<1>5. ASSUME NEW g \in Fifos
      PROVE  Owns(g)'
  <2>1. \A u \in held[g] : u \in Timers /\ (flags'[u] # FLAGS_FREE)
    BY <1>2, <1>3 DEF CallInv, Owns
  <2>2. \A u \in held[g] : fifo[u] = g \/ (pc'[g] = "fresh" /\ timer'[g] = u)
    <3>1. CASE g = f
      BY <1>1, <3>1 DEF CallInv, Owns
    <3>2. CASE g # f
      BY <1>1, <3>2 DEF CallInv, Owns
    <3> QED BY <3>1, <3>2
  <2> QED BY <2>1, <2>2 DEF Owns
<1>6. \A u \in Clients : flags'[u] # FLAGS_FREE => \E g \in Fifos : u \in held'[g]
  BY <1>3 DEF CallInv
<1>7. \A g, h \in Fifos :
        pc'[g] \in {"found", "fresh"} /\ pc'[h] \in {"found", "fresh"} => g = h
  BY <1>1 DEF CallInv
<1> QED BY <1>2, <1>4, <1>5, <1>6, <1>7 DEF CallInv

(* timer_alloc finds a timer nobody has. *)
LEMMA FoundCalls ==
  ASSUME CallInv, Undisturbed, NEW f \in Fifos, NEW t \in Clients, TimerFound(f, t)
  PROVE  CallInv'
<1>1. /\ flags[t] = FLAGS_FREE /\ Quiet(f) /\ Goes(f, "ready", "found", t)
      /\ UNCHANGED <<held, fifo, flags>>
  BY DEF TimerFound
<1>2. /\ pc[f] = "ready" /\ pc'[f] = "found" /\ pc' \in [Fifos -> Places] /\ timer'[f] = t
      /\ timer' \in [Fifos -> Clients \cup {NoTimer}]
      /\ \A g \in Fifos : g # f => pc'[g] = pc[g] /\ timer'[g] = timer[g]
  <2>1. "found" \in Places /\ t \in Clients \cup {NoTimer}
    BY DEF Places
  <2> QED BY <1>1, <2>1, GoesIs
<1>3. CallTypes'
  BY <1>1, <1>2 DEF CallInv, CallTypes
<1>4. ASSUME NEW g \in Fifos
      PROVE  PlaceOk(g)' /\ Owns(g)'
  <2>1. PlaceOk(g) /\ Owns(g)
    BY DEF CallInv
  <2>2. CASE g = f
    BY <1>1, <1>2, <2>1, <2>2 DEF PlaceOk, Owns
  <2>3. CASE g # f
    BY <1>1, <1>2, <2>1, <2>3 DEF PlaceOk, Owns
  <2> QED BY <2>2, <2>3
<1>5. \A g \in Fifos : g # f => pc[g] \notin {"found", "fresh"}
  BY <1>1 DEF Quiet
<1> QED BY <1>1, <1>2, <1>3, <1>4, <1>5 DEF CallInv

(* timer_alloc gives the timer it found to one task only. *)
LEMMA AllocCalls ==
  ASSUME CallInv, NEW f \in Fifos, NEW auto \in BOOLEAN, TimerAlloc(f, auto),
         flags \in [Timers -> {FLAGS_FREE, FLAGS_ALLOC, FLAGS_USING}]
  PROVE  CallInv' /\ timer[f] \in Clients /\ flags[timer[f]] = FLAGS_FREE
<1> USE DEF FLAGS_FREE, FLAGS_ALLOC, FLAGS_USING
<1> DEFINE t == timer[f]
<1>1. /\ Goes(f, "found", "fresh", t) /\ flags' = [flags EXCEPT ![t] = FLAGS_ALLOC]
      /\ held' = [held EXCEPT ![f] = held[f] \cup {t}] /\ UNCHANGED fifo
  BY DEF TimerAlloc
<1>2. /\ pc[f] = "found" /\ pc'[f] = "fresh" /\ pc' \in [Fifos -> Places] /\ timer'[f] = t
      /\ timer' \in [Fifos -> Clients \cup {NoTimer}]
      /\ \A g \in Fifos : g # f => pc'[g] = pc[g] /\ timer'[g] = timer[g]
  <2>1. "fresh" \in Places /\ t \in Clients \cup {NoTimer}
    BY DEF Places, CallInv, CallTypes
  <2>2. CallInv /\ f \in Fifos
    OBVIOUS
  <2> HIDE DEF t
  <2> QED BY ONLY <1>1, <2>1, <2>2, GoesIs
<1>3. t \in Clients /\ flags[t] = FLAGS_FREE /\ Clients \subseteq Timers
  BY <1>2 DEF CallInv, PlaceOk, Clients
<1> HIDE DEF t
<1>4. /\ held' \in [Fifos -> SUBSET Clients] /\ held'[f] = held[f] \cup {t}
      /\ \A g \in Fifos : g # f => held'[g] = held[g]
      /\ \A g \in Fifos : t \notin held[g] /\ held[g] \subseteq Clients
  <2>1. \A g \in Fifos : t \notin held[g]
    BY <1>3 DEF CallInv, Owns
  <2> QED BY <1>1, <1>3, <2>1 DEF CallInv, CallTypes
<1>5. flags'[t] = FLAGS_ALLOC /\ \A u \in Timers : u # t => flags'[u] = flags[u]
  BY <1>1, <1>3
<1>6. CallTypes'
  BY <1>1, <1>2, <1>4 DEF CallInv, CallTypes
<1>7. ASSUME NEW g \in Fifos, g # f
      PROVE  PlaceOk(g)' /\ Owns(g)'
  <2>1. PlaceOk(g) /\ Owns(g) /\ pc[g] \notin {"found", "fresh"}
    BY <1>2, <1>7 DEF CallInv
  <2>2. pc'[g] = pc[g] /\ timer'[g] = timer[g] /\ held'[g] = held[g] /\ fifo' = fifo
    BY <1>1, <1>2, <1>4, <1>7
  <2>3. \A u \in held[g] : flags'[u] = flags[u]
    BY <1>3, <1>4, <1>5
  <2> QED BY <2>1, <2>2, <2>3 DEF PlaceOk, Owns
<1>8. PlaceOk(f)' /\ Owns(f)'
  <2>1. PlaceOk(f)'
    BY <1>2, <1>4, <1>5 DEF PlaceOk
  <2>2. \A u \in held[f] : u # t /\ flags'[u] = flags[u] /\ flags[u] # FLAGS_FREE /\ fifo[u] = f
    BY <1>2, <1>3, <1>4, <1>5 DEF CallInv, Owns
  <2>3. Owns(f)'
    BY <1>1, <1>2, <1>4, <1>5, <2>2 DEF Owns
  <2> QED BY <2>1, <2>3
<1>9. \A g, h \in Fifos : g # h => held'[g] \cap held'[h] = {}
  BY <1>4 DEF CallInv
<1>10. \A u \in Clients : flags'[u] # FLAGS_FREE => \E g \in Fifos : u \in held'[g]
  BY <1>3, <1>4, <1>5 DEF CallInv
<1>11. \A g, h \in Fifos :
         pc'[g] \in {"found", "fresh"} /\ pc'[h] \in {"found", "fresh"} => g = h
  BY <1>2 DEF CallInv
<1> QED BY <1>3, <1>6, <1>7, <1>8, <1>9, <1>10, <1>11 DEF CallInv, t

(* timer_init gives a timer its owner's FIFO. *)
LEMMA InitCalls ==
  ASSUME CallInv, NEW f \in Fifos, NEW t \in Clients, TimerInit(f, t)
  PROVE  CallInv'
<1>1. /\ t \in held[f] /\ fifo' = [fifo EXCEPT ![t] = f] /\ UNCHANGED <<held, flags>>
      /\ pc[f] = "fresh" => timer[f] = t
      /\ pc[f] \in {"fresh", "ready"} /\ \E p \in {"fresh", "ready"} : Goes(f, p, "ready", t)
  BY DEF TimerInit, Goes
<1>2. /\ pc'[f] = "ready" /\ pc' \in [Fifos -> Places]
      /\ timer' \in [Fifos -> Clients \cup {NoTimer}]
      /\ \A g \in Fifos : g # f => pc'[g] = pc[g] /\ timer'[g] = timer[g]
  <2>1. "ready" \in Places /\ t \in Clients \cup {NoTimer}
    BY DEF Places
  <2> QED BY <1>1, <2>1, GoesIs
<1>3. CallTypes'
  BY <1>1, <1>2 DEF CallInv, CallTypes
<1>4. fifo'[t] = f /\ \A u \in Timers : u # t => fifo'[u] = fifo[u]
  BY <1>1 DEF CallInv, CallTypes, Clients
<1>5. ASSUME NEW g \in Fifos
      PROVE  PlaceOk(g)'
  <2>1. PlaceOk(g)
    BY DEF CallInv
  <2>2. CASE g = f
    BY <1>2, <2>2 DEF PlaceOk
  <2>3. CASE g # f
    BY <1>1, <1>2, <2>1, <2>3 DEF PlaceOk
  <2> QED BY <2>2, <2>3
<1>6. ASSUME NEW g \in Fifos
      PROVE  Owns(g)'
  <2>1. Owns(g) /\ held[g] \subseteq Clients /\ Clients \subseteq Timers
    BY DEF CallInv, CallTypes, Clients
  <2>2. CASE g = f
    BY <1>1, <1>2, <1>4, <2>1, <2>2 DEF Owns
  <2>3. CASE g # f
    <3>1. t \notin held[g]
      BY <1>1, <2>3 DEF CallInv
    <3> QED BY <1>1, <1>2, <1>4, <2>1, <2>3, <3>1 DEF Owns
  <2> QED BY <2>2, <2>3
<1>7. \A g, h \in Fifos :
        pc'[g] \in {"found", "fresh"} /\ pc'[h] \in {"found", "fresh"} => g = h
  BY <1>2 DEF CallInv
<1> QED BY <1>1, <1>3, <1>5, <1>6, <1>7 DEF CallInv

(* Freeing timers of a task takes its pointers to them. *)
LEMMA FreeCalls ==
  ASSUME CallInv, NEW f \in Fifos, NEW T \in SUBSET held[f], NEW t \in Clients \cup {NoTimer},
         Goes(f, "ready", "ready", t), UNCHANGED fifo,
         held' = [held EXCEPT ![f] = held[f] \ T],
         \A u \in Timers : flags'[u] = IF u \in T THEN FLAGS_FREE ELSE flags[u]
  PROVE  CallInv'
<1>1. /\ pc[f] = "ready" /\ pc'[f] = "ready" /\ pc' \in [Fifos -> Places]
      /\ timer' \in [Fifos -> Clients \cup {NoTimer}]
      /\ \A g \in Fifos : g # f => pc'[g] = pc[g] /\ timer'[g] = timer[g]
  <2>1. "ready" \in Places
    BY DEF Places
  <2> QED BY <2>1, GoesIs
<1>2. /\ held' \in [Fifos -> SUBSET Clients] /\ held'[f] = held[f] \ T
      /\ \A g \in Fifos : g # f => held'[g] = held[g] /\ held[g] \cap T = {}
      /\ \A g \in Fifos : held[g] \subseteq Clients /\ Clients \subseteq Timers
  BY DEF CallInv, CallTypes, Clients
<1>3. CallTypes'
  BY <1>1, <1>2 DEF CallInv, CallTypes
<1>4. ASSUME NEW g \in Fifos
      PROVE  PlaceOk(g)'
  <2>1. PlaceOk(g)
    BY DEF CallInv
  <2>2. CASE g = f
    BY <1>1, <2>2 DEF PlaceOk
  <2>3. CASE g # f
    <3>1. pc[g] \in {"fresh", "low", "high"} => timer[g] \notin T /\ timer[g] \in Timers
      BY <1>2, <2>1, <2>3 DEF PlaceOk
    <3>2. pc[g] = "found" => timer[g] \notin T /\ timer[g] \in Timers
      BY <1>2, <2>1 DEF PlaceOk, CallInv, Owns
    <3> QED BY <1>1, <1>2, <2>1, <2>3, <3>1, <3>2 DEF PlaceOk
  <2> QED BY <2>2, <2>3
<1>5. ASSUME NEW g \in Fifos
      PROVE  Owns(g)'
  <2>1. Owns(g)
    BY DEF CallInv
  <2>2. CASE g = f
    BY <1>1, <1>2, <2>1, <2>2 DEF Owns
  <2>3. CASE g # f
    <3>1. \A u \in held[g] : flags'[u] = flags[u]
      BY <1>2, <2>3
    <3> QED BY <1>1, <1>2, <2>1, <2>3, <3>1 DEF Owns
  <2> QED BY <2>2, <2>3
<1>6. \A g, h \in Fifos : g # h => held'[g] \cap held'[h] = {}
  <2> SUFFICES ASSUME NEW g \in Fifos, NEW h \in Fifos, g # h
               PROVE  held'[g] \cap held'[h] = {}
    OBVIOUS
  <2>1. held[g] \cap held[h] = {}
    BY DEF CallInv
  <2>2. held'[g] \subseteq held[g] /\ held'[h] \subseteq held[h]
    BY <1>2
  <2> QED BY <2>1, <2>2
<1>7. ASSUME NEW u \in Clients, flags'[u] # FLAGS_FREE
      PROVE  \E g \in Fifos : u \in held'[g]
  <2>1. u \notin T /\ flags[u] # FLAGS_FREE
    BY <1>2, <1>7
  <2>2. PICK g \in Fifos : u \in held[g]
    BY <2>1 DEF CallInv
  <2>3. u \in held'[g]
    BY <1>2, <2>1, <2>2
  <2> QED BY <2>3
<1>8. \A g, h \in Fifos :
        pc'[g] \in {"found", "fresh"} /\ pc'[h] \in {"found", "fresh"} => g = h
  BY <1>1 DEF CallInv
<1> QED BY <1>3, <1>4, <1>5, <1>6, <1>7, <1>8 DEF CallInv
-----------------------------------------------------------------------------
(* Steps that leave the list and the running timers alone, and the times of
   the running timers. *)
LEMMA OthersInv ==
  ASSUME ListInv, Running' = Running, UNCHANGED <<t0, nxt>>, count' \in Pairs,
         Times(timeout'), \A u \in Running : timeout'[u] = timeout[u],
         flags' \in [Timers -> {FLAGS_FREE, FLAGS_ALLOC, FLAGS_USING}],
         flags2' \in [Timers -> BOOLEAN], ~flags2'[Sentinel], ~flags2'[TaskTimer]
  PROVE  ListInv'
<1>1. List' = List
  BY DEF List
<1>2. Holds(List, timeout', Running)
  BY HoldsKept DEF ListInv
<1>3. Holds(List', timeout', Running') /\ {Sentinel, TaskTimer} \subseteq Running'
  BY <1>1, <1>2 DEF ListInv
<1> QED BY <1>3 DEF ListInv

(* Times is what its parts say, also after a step. *)
LEMMA TimesNext ==
  ASSUME Times(timeout), NEW t \in Clients, NEW a \in Pairs,
         timeout' = [timeout EXCEPT ![t] = a]
  PROVE  Times(timeout') /\ \A u \in Timers : u # t => timeout'[u] = timeout[u]
BY DEF Times, Clients

(* timer_alloc, timer_init, timer_free and the first two steps of
   timer_settime. *)
LEMMA FoundInv ==
  ASSUME TimerInv, Undisturbed, NEW f \in Fifos, NEW t \in Clients, TimerFound(f, t)
  PROVE  TimerInv' /\ Running' = Running /\ BeingSet' = BeingSet
<1>1. /\ Goes(f, "ready", "found", t)
      /\ UNCHANGED <<count, t0, nxt, timeout, flags, flags2>>
  BY DEF TimerFound
<1>2. BeingSet' = BeingSet
  <2>1. "found" \in Places /\ t \in Clients \cup {NoTimer} /\ CallInv
    BY DEF Places, TimerInv
  <2>2. "ready" # "high" /\ "found" # "high"
    OBVIOUS
  <2> QED BY ONLY <1>1, <2>1, <2>2, BeingSetNext
<1>3. Running' = Running
  BY <1>1, <1>2 DEF Running, Using
<1>4. ListInv'
  BY <1>1, <1>3, OthersInv DEF TimerInv, ListInv
<1> QED BY <1>2, <1>3, <1>4, FoundCalls DEF TimerInv

LEMMA AllocInv ==
  ASSUME TimerInv, NEW f \in Fifos, NEW auto \in BOOLEAN, TimerAlloc(f, auto)
  PROVE  /\ TimerInv' /\ Running' = Running /\ BeingSet' = BeingSet
         /\ timer[f] \in Clients
<1> DEFINE t == timer[f]
<1>1. /\ Goes(f, "found", "fresh", t) /\ flags' = [flags EXCEPT ![t] = FLAGS_ALLOC]
      /\ flags2' = [flags2 EXCEPT ![t] = auto] /\ UNCHANGED <<count, t0, nxt, timeout>>
  BY DEF TimerAlloc
<1>2. CallInv' /\ t \in Clients /\ flags[t] = FLAGS_FREE
  BY AllocCalls DEF TimerInv, ListInv
<1> HIDE DEF t
<1>3. BeingSet' = BeingSet
  <2>1. "fresh" \in Places /\ t \in Clients \cup {NoTimer} /\ CallInv
    BY <1>2 DEF Places, TimerInv
  <2> QED BY <1>1, <2>1, BeingSetNext
<1>4. Using' = Using
  BY <1>1, <1>2 DEF TimerInv, ListInv, Using, FLAGS_FREE, FLAGS_ALLOC, FLAGS_USING
<1>5. flags' \in [Timers -> {FLAGS_FREE, FLAGS_ALLOC, FLAGS_USING}]
      /\ flags2' \in [Timers -> BOOLEAN] /\ ~flags2'[Sentinel] /\ ~flags2'[TaskTimer]
  BY <1>1, <1>2 DEF TimerInv, ListInv, Clients
<1>6. ListInv'
  BY <1>1, <1>3, <1>4, <1>5, OthersInv DEF TimerInv, ListInv, Running
<1> QED BY <1>2, <1>3, <1>4, <1>6 DEF TimerInv, Running, t

LEMMA InitTimerInv ==
  ASSUME TimerInv, NEW f \in Fifos, NEW t \in Clients, TimerInit(f, t)
  PROVE  TimerInv' /\ Running' = Running /\ BeingSet' = BeingSet
<1>1. /\ \E p \in {"fresh", "ready"} : Goes(f, p, "ready", t)
      /\ UNCHANGED <<count, t0, nxt, timeout, flags, flags2>>
  BY DEF TimerInit
<1>2. BeingSet' = BeingSet
  <2>1. "ready" \in Places /\ t \in Clients \cup {NoTimer} /\ CallInv
    BY DEF Places, TimerInv
  <2> QED BY <1>1, <2>1, BeingSetNext
<1>3. Running' = Running
  BY <1>1, <1>2 DEF Running, Using
<1>4. ListInv'
  BY <1>1, <1>3, OthersInv DEF TimerInv, ListInv
<1> QED BY <1>2, <1>3, <1>4, InitCalls DEF TimerInv

LEMMA FreeInv ==
  ASSUME TimerInv, Careful, NEW f \in Fifos, NEW t \in Clients, TimerFree(f, t)
  PROVE  TimerInv' /\ Running' = Running /\ BeingSet' = BeingSet
<1>1. /\ t \in held[f] /\ MayUse(f, t) /\ Goes(f, "ready", "ready", t) /\ pc[f] = "ready"
      /\ flags' = [flags EXCEPT ![t] = FLAGS_FREE] /\ held' = [held EXCEPT ![f] = held[f] \ {t}]
      /\ UNCHANGED <<count, t0, nxt, timeout, flags2, fifo>>
  BY DEF TimerFree, Goes
<1>2. flags[t] # FLAGS_USING
  BY <1>1, Stopped DEF TimerInv
<1>3. BeingSet' = BeingSet
  <2>1. "ready" \in Places /\ t \in Clients \cup {NoTimer} /\ CallInv
    BY DEF Places, TimerInv
  <2> QED BY <1>1, <2>1, BeingSetNext
<1>4. Using' = Using
  BY <1>1, <1>2 DEF TimerInv, ListInv, Using, FLAGS_FREE, FLAGS_USING
<1>5. Running' = Running
  BY <1>3, <1>4 DEF Running
<1>6. flags' \in [Timers -> {FLAGS_FREE, FLAGS_ALLOC, FLAGS_USING}]
  BY <1>1 DEF TimerInv, ListInv
<1>7. ListInv'
  BY <1>1, <1>5, <1>6, OthersInv DEF TimerInv, ListInv
<1>8. CallInv'
  <2>1. \A u \in Timers : flags'[u] = IF u \in {t} THEN FLAGS_FREE ELSE flags[u]
    BY <1>1 DEF TimerInv, ListInv
  <2>2. {t} \in SUBSET held[f] /\ t \in Clients \cup {NoTimer}
    BY <1>1
  <2>3. CallInv
    BY DEF TimerInv
  <2> QED BY <1>1, <2>1, <2>2, <2>3, FreeCalls
<1> QED BY <1>3, <1>5, <1>7, <1>8 DEF TimerInv

LEMMA LowInv ==
  ASSUME TimerInv, Careful, NEW f \in Fifos, NEW t \in Clients, NEW d \in Timeouts,
         SettimeLow(f, t, d)
  PROVE  /\ TimerInv' /\ Running' = Running /\ BeingSet' = BeingSet
         /\ t \notin Using
         /\ \A u \in Timers : u # t => timeout'[u] = timeout[u]
<1> DEFINE a == <<timeout[t][1], (count[2] + d) % Word>>
<1>1. /\ t \in held[f] /\ MayUse(f, t) /\ Goes(f, "ready", "low", t) /\ pc[f] = "ready"
      /\ timeout' = [timeout EXCEPT ![t] = a]
      /\ UNCHANGED <<count, t0, nxt, flags, flags2, held, fifo>>
  BY DEF SettimeLow, Goes
<1>2. flags[t] = FLAGS_ALLOC /\ t \notin Using
  <2>1. flags[t] # FLAGS_USING /\ flags[t] # FLAGS_FREE
    BY <1>1, Stopped DEF TimerInv, CallInv, Owns
  <2> QED BY <2>1 DEF TimerInv, ListInv, Clients, Using
<1>3. a \in Pairs
  <2>1. timeout[t][1] \in 0 .. Word - 1 /\ timeout[t] \in Pairs
    BY DEF TimerInv, ListInv, Times, Clients, Pairs
  <2>2. d \in Nat /\ count \in Pairs
    BY DEF TimerInv, ListInv
  <2>3. <<count[1], (count[2] + d) % Word>> \in Pairs
    BY <2>2, CounterFits
  <2>4. (count[2] + d) % Word \in 0 .. Word - 1
    BY <2>3 DEF Pairs
  <2> QED BY <2>1, <2>4 DEF Pairs
<1> HIDE DEF a
<1>4. BeingSet' = BeingSet
  <2>1. "low" \in Places /\ t \in Clients \cup {NoTimer} /\ CallInv
    BY DEF Places, TimerInv
  <2>2. "ready" # "high" /\ "low" # "high" /\ f \in Fifos
    OBVIOUS
  <2> QED BY ONLY <1>1, <2>1, <2>2, BeingSetNext
<1>5. Running' = Running
  BY <1>1, <1>4 DEF Running, Using
<1>6. Times(timeout') /\ \A u \in Timers : u # t => timeout'[u] = timeout[u]
  <2>1. Times(timeout)
    BY DEF TimerInv, ListInv
  <2> QED BY <1>1, <1>3, <2>1, TimesNext
<1>7. \A u \in Running : timeout'[u] = timeout[u]
  BY <1>2, <1>6 DEF Running, Using
<1>8. ListInv'
  BY <1>1, <1>5, <1>6, <1>7, OthersInv DEF TimerInv, ListInv
<1>9. CallInv'
  <2>1. "low" \in Places /\ CallInv /\ flags \in [Timers -> {FLAGS_FREE, FLAGS_ALLOC, FLAGS_USING}]
    BY DEF Places, TimerInv, ListInv
  <2>2. flags' = [flags EXCEPT ![t] = FLAGS_ALLOC]
    BY <1>1, <1>2, <2>1
  <2> QED BY <1>1, <1>2, <2>1, <2>2, CallsStep
<1> QED BY <1>2, <1>4, <1>5, <1>6, <1>8, <1>9 DEF TimerInv

LEMMA HighInv ==
  ASSUME TimerInv, NEW f \in Fifos, SettimeHigh(f)
  PROVE  /\ TimerInv' /\ Running' = Running /\ BeingSet' = BeingSet \cup {timer[f]}
         /\ timer[f] \in Clients /\ timer[f] \notin Using
         /\ timeout'[timer[f]] = <<count[1], timeout[timer[f]][2]>>
         /\ \A u \in Timers : u # timer[f] => timeout'[u] = timeout[u]
<1> DEFINE t == timer[f]
           a == <<count[1], timeout[t][2]>>
<1>1. /\ Goes(f, "low", "high", t) /\ pc[f] = "low"
      /\ timeout' = [timeout EXCEPT ![t] = a] /\ flags' = [flags EXCEPT ![t] = FLAGS_USING]
      /\ UNCHANGED <<count, t0, nxt, flags2, held, fifo>>
  BY DEF SettimeHigh, Goes
<1>2. t \in held[f] /\ t \in Clients /\ flags[t] = FLAGS_ALLOC /\ t \in Timers
  BY <1>1 DEF TimerInv, CallInv, CallTypes, PlaceOk, Clients
<1>3. t \notin Using
  BY <1>2 DEF Using, FLAGS_ALLOC, FLAGS_USING
<1>4. a \in Pairs
  <2>1. timeout[t] \in Pairs /\ count \in Pairs
    BY <1>2 DEF TimerInv, ListInv, Times
  <2> QED BY <2>1 DEF Pairs
<1> HIDE DEF t, a
<1>5. BeingSet' = BeingSet \cup {t}
  <2>1. "high" \in Places /\ t \in Clients \cup {NoTimer} /\ CallInv
    BY <1>2 DEF Places, TimerInv
  <2> QED BY <1>1, <2>1, BeingSetNext
<1>6. flags' \in [Timers -> {FLAGS_FREE, FLAGS_ALLOC, FLAGS_USING}] /\ Using' = Using \cup {t}
  BY <1>1, <1>2 DEF TimerInv, ListInv, Using
<1>7. Running' = Running
  BY <1>3, <1>5, <1>6 DEF Running
<1>8. Times(timeout') /\ \A u \in Timers : u # t => timeout'[u] = timeout[u]
  <2>1. Times(timeout)
    BY DEF TimerInv, ListInv
  <2> QED BY <1>1, <1>2, <1>4, <2>1, TimesNext
<1>9. \A u \in Running : timeout'[u] = timeout[u]
  BY <1>3, <1>8 DEF Running, Using
<1>10. ListInv'
  BY <1>1, <1>6, <1>7, <1>8, <1>9, OthersInv DEF TimerInv, ListInv
<1>11. CallInv'
  <2>1. "high" \in Places /\ CallInv /\ flags \in [Timers -> {FLAGS_FREE, FLAGS_ALLOC, FLAGS_USING}]
    BY DEF Places, TimerInv, ListInv
  <2> QED BY <1>1, <1>2, <2>1, CallsStep
<1>12. timeout'[t] = a
  BY <1>1, <1>2 DEF TimerInv, ListInv, Times
<1> QED BY <1>2, <1>3, <1>5, <1>7, <1>8, <1>10, <1>11, <1>12 DEF TimerInv, t, a

(* timer_settime puts its timer on the list. *)
LEMMA LinkInv ==
  ASSUME TimerInv, NEW f \in Fifos, SettimeLink(f)
  PROVE  /\ TimerInv' /\ Running' = Running \cup {timer[f]} /\ BeingSet' = BeingSet \ {timer[f]}
         /\ timer[f] \in Clients /\ timer[f] \in BeingSet
<1> DEFINE t == timer[f]
           M == Linked(List, t, timeout)
<1>1. /\ Goes(f, "high", "ready", t) /\ pc[f] = "high" /\ SetList(M)
      /\ UNCHANGED <<count, timeout, flags, flags2, held, fifo>>
  BY DEF SettimeLink, Goes
<1>2. t \in held[f] /\ t \in Clients /\ flags[t] = FLAGS_USING /\ t \in Timers /\ t \in BeingSet
  BY <1>1 DEF TimerInv, CallInv, CallTypes, PlaceOk, Clients, BeingSet
<1>3. t \in Using /\ t \notin Running
  BY <1>2 DEF Using, Running
<1> HIDE DEF t, M
<1>4. BeingSet' = BeingSet \ {t}
  <2>1. "ready" \in Places /\ t \in Clients \cup {NoTimer} /\ CallInv
    BY <1>2 DEF Places, TimerInv
  <2> QED BY <1>1, <2>1, BeingSetNext DEF t
<1>5. Running' = Running \cup {t}
  BY <1>1, <1>3, <1>4 DEF Running, Using
<1>6. Holds(M, timeout, Running \cup {t})
  <2>1. Holds(List, timeout, Running) /\ Times(timeout)
    BY DEF TimerInv, ListInv
  <2> QED BY <1>2, <1>3, <2>1, LinkedHolds DEF M
<1>7. List' = M
  BY <1>1, <1>6, ListNext DEF Holds
<1>8. ListInv'
  BY <1>1, <1>5, <1>6, <1>7 DEF TimerInv, ListInv, Times
<1>9. CallInv'
  <2>1. "ready" \in Places /\ CallInv /\ flags \in [Timers -> {FLAGS_FREE, FLAGS_ALLOC, FLAGS_USING}]
    BY DEF Places, TimerInv, ListInv
  <2>2. flags' = [flags EXCEPT ![t] = flags[t]]
    BY <1>1, <1>2, <2>1
  <2> QED BY <1>1, <1>2, <2>1, <2>2, CallsStep
<1> QED BY <1>2, <1>4, <1>5, <1>8, <1>9 DEF TimerInv, t

(* timer_cancel takes the timer out of the list and out of use. *)
LEMMA CancelInv ==
  ASSUME TimerInv, NEW f \in Fifos, NEW t \in Clients, TimerCancel(f, t)
  PROVE  TimerInv' /\ Running' = Running \ {t} /\ BeingSet' = BeingSet
<1> DEFINE M == Unlinked(List, t)
<1>1. /\ flags' = [flags EXCEPT ![t] = FLAGS_ALLOC] /\ SetList(M)
      /\ UNCHANGED <<count, timeout, flags2, fifo, pc, timer, held>>
      /\ t \in held[f] /\ pc[f] = "ready" /\ flags[t] = FLAGS_USING
  BY DEF TimerCancel, calls
<1>2. t \in Timers /\ t # Sentinel /\ t # TaskTimer /\ t \in Running
  <2>1. t \notin BeingSet
    BY <1>1, BeingSetIs DEF TimerInv
  <2> QED BY <1>1, <2>1 DEF Clients, Running, Using
<1>3. Holds(M, timeout, Running \ {t})
  BY <1>2, UnlinkedHolds DEF TimerInv, ListInv
<1> HIDE DEF M
<1>4. List' = M
  BY <1>1, <1>3, ListNext DEF Holds
<1>5. BeingSet' = BeingSet
  BY <1>1 DEF BeingSet
<1>6. flags' \in [Timers -> {FLAGS_FREE, FLAGS_ALLOC, FLAGS_USING}] /\ Using' = Using \ {t}
  BY <1>1, <1>2 DEF TimerInv, ListInv, Using, FLAGS_ALLOC, FLAGS_USING
<1>7. Running' = Running \ {t}
  BY <1>5, <1>6 DEF Running
<1>8. ListInv'
  BY <1>1, <1>2, <1>3, <1>4, <1>6, <1>7 DEF TimerInv, ListInv, Times
<1>9. CallInv'
  <2>1. \A u \in Clients : flags'[u] = flags[u] \/ (u \in Running /\ flags'[u] = FLAGS_ALLOC)
    BY <1>1, <1>2 DEF TimerInv, ListInv, Clients
  <2>2. CallInv
    BY DEF TimerInv
  <2> QED BY <1>1, <2>1, <2>2, CallsKept
<1> QED BY <1>5, <1>7, <1>8, <1>9 DEF TimerInv

(* The interrupt that comes early. *)
LEMMA EarlyInv ==
  ASSUME TimerInv, TickEarly, UNCHANGED calls, Wide(count) < MaxTime
  PROVE  TimerInv' /\ Running' = Running /\ BeingSet' = BeingSet
<1>1. /\ UNCHANGED <<t0, nxt, timeout, flags, flags2, fifo, pc, timer, held>>
      /\ count' = Tock(count)
  BY DEF TickEarly, calls
<1>2. Running' = Running /\ BeingSet' = BeingSet
  BY <1>1 DEF Running, Using, BeingSet
<1>3. count' \in Pairs
  BY <1>1, CounterFits DEF TimerInv, ListInv
<1>4. ListInv'
  BY <1>1, <1>2, <1>3, OthersInv DEF TimerInv, ListInv
<1>5. CallInv'
  BY <1>1, CallsKept DEF TimerInv
<1> QED BY <1>2, <1>4, <1>5 DEF TimerInv

(* The interrupt cuts the list where the timers have not timed out, and sets
   task_timer again on what is left. *)
LEMMA TickInv ==
  ASSUME TimerInv, Wide(count) < MaxTime, Tick, UNCHANGED calls
  PROVE  TimerInv' /\ BeingSet' = BeingSet
<1> DEFINE c    == Tock(count)
           k    == Passed(c)
           gone == {Path(List)[j] : j \in Before(k)}
           rest == [List EXCEPT !.t0 = Path(List)[k]]
           off  == [t \in Timers |-> IF t \in gone THEN FLAGS_ALLOC ELSE flags[t]]
           at   == <<c[1], (c[2] + Slice) % Word>>
           to   == [timeout EXCEPT ![TaskTimer] = at]
           M    == Linked(rest, TaskTimer, to)
<1>1. PICK n \in 0 .. MaxTimer - 1 : \E w \in [0 .. n -> Timers] :
        Lists(List, w, n) /\ Ordered(timeout, w, n) /\ OnList(w, n) = Running
  BY DEF TimerInv, ListInv, Holds
<1>2. PICK w \in [0 .. n -> Timers] :
        Lists(List, w, n) /\ Ordered(timeout, w, n) /\ OnList(w, n) = Running
  BY <1>1
<1>3. c \in Pairs /\ at \in Pairs
  <2>1. c \in Pairs
    BY CounterFits DEF TimerInv, ListInv
  <2>2. Slice \in Nat /\ \A x \in Pairs : \A d \in Nat : <<x[1], (x[2] + d) % Word>> \in Pairs
    BY CounterFits DEF TimerInv, ListInv
  <2> HIDE DEF c
  <2>3. <<c[1], (c[2] + Slice) % Word>> \in Pairs
    BY <2>1, <2>2
  <2> QED BY <2>1, <2>3
<1>4. count' = c /\ UNCHANGED <<flags2, fifo, pc, timer, held>> /\ BeingSet' = BeingSet
  BY DEF Tick, calls, BeingSet
<1>5. TaskTimer \in gone =>
        timeout' = to /\ SetList(M) /\ flags' = [off EXCEPT ![TaskTimer] = FLAGS_USING]
  BY DEF Tick
<1>6. TaskTimer \notin gone => timeout' = timeout /\ SetList(rest) /\ flags' = off
  BY DEF Tick
<1>7. k \in 0 .. n /\ \A j \in 0 .. n : Path(List)[j] = w[j]
  <2>1. k \in 0 .. n
    BY <1>2, PassedIs DEF TimerInv, ListInv
  <2> QED BY <1>2, <2>1, PathIs
<1> HIDE DEF c, at, k
<1>8. rest = [List EXCEPT !.t0 = w[k]] /\ gone = {w[j] : j \in 0 .. k - 1}
  <2>1. Before(k) = 0 .. k - 1 /\ \A j \in 0 .. k - 1 : j \in 0 .. n
    BY <1>7 DEF Before
  <2> QED BY <1>7, <2>1
<1>9. gone \subseteq Timers
  <2>1. \A j \in 0 .. k - 1 : j \in 0 .. n
    BY <1>7
  <2> QED BY <1>2, <1>8, <2>1
<1>10. Sentinel \notin gone
  <2>1. \A j \in 0 .. k - 1 : j \in 0 .. n /\ j < n
    BY <1>7
  <2>2. w[n] = Sentinel /\ n \in 0 .. n /\ \A i, j \in 0 .. n : i < j => w[i] # w[j]
    BY <1>2 DEF Lists
  <2> QED BY <1>8, <2>1, <2>2
<1>11. Holds(rest, timeout, Running \ gone)
  <2>1. List \in ListRecords
    BY DEF TimerInv, ListInv, Holds
  <2>2. Holds([List EXCEPT !.t0 = w[k]], timeout, OnList(w, n) \ {w[j] : j \in 0 .. k - 1})
    <3>1. Lists(List, w, n) /\ Ordered(timeout, w, n) /\ k \in 0 .. n
      BY <1>2, <1>7
    <3> QED BY ONLY <2>1, <3>1, CutHolds
  <2> HIDE DEF rest, gone
  <2> QED BY <1>2, <1>8, <2>2
<1>12. off \in [Timers -> {FLAGS_FREE, FLAGS_ALLOC, FLAGS_USING}]
       /\ {t \in Timers : off[t] = FLAGS_USING} = Using \ gone
  <2> HIDE DEF gone
  <2> QED BY <1>9 DEF TimerInv, ListInv, Using, FLAGS_ALLOC, FLAGS_USING
<1>13. /\ TaskTimer \in Timers /\ Sentinel # TaskTimer
       /\ Sentinel \in Running /\ TaskTimer \in Running /\ TaskTimer \notin BeingSet
       /\ gone \subseteq Running
  <2>1. OnList(w, n) = Running /\ \A j \in 0 .. k - 1 : j \in 0 .. n
    BY <1>2, <1>7
  <2>2. gone \subseteq Running
    BY <1>8, <2>1 DEF OnList
  <2>3. {Sentinel, TaskTimer} \subseteq Running
    BY DEF TimerInv, ListInv
  <2> QED BY <2>2, <2>3 DEF Running, Using, Sentinel, TaskTimer
<1> HIDE DEF gone, rest, off
<1>14. CASE TaskTimer \in gone
  <2>1. Times(to) /\ \A u \in Timers : u # TaskTimer => to[u] = timeout[u]
    BY <1>3, <1>13 DEF TimerInv, ListInv, Times
  <2>2. timeout' = to /\ SetList(M) /\ flags' = [off EXCEPT ![TaskTimer] = FLAGS_USING]
    BY <1>5, <1>14
  <2> HIDE DEF to, M
  <2>3. TaskTimer \notin Running \ gone /\ Running \ gone \subseteq Timers
    BY <1>14 DEF Running, Using
  <2>4. Holds(rest, to, Running \ gone)
    BY <1>11, <2>1, <2>3, HoldsKept
  <2>5. Holds(M, to, (Running \ gone) \cup {TaskTimer})
    BY <1>13, <2>1, <2>3, <2>4, LinkedHolds DEF M
  <2>6. List' = M
    BY <2>2, <2>5, ListNext DEF Holds
  <2>7. Running' = (Running \ gone) \cup {TaskTimer}
    <3>1. Using' = (Using \ gone) \cup {TaskTimer}
      BY <1>12, <1>13, <2>2 DEF Using
    <3> QED BY <1>4, <1>13, <3>1 DEF Running
  <2>8. flags' \in [Timers -> {FLAGS_FREE, FLAGS_ALLOC, FLAGS_USING}]
    BY <1>12, <2>2
  <2>9. ListInv'
    BY <1>3, <1>4, <1>10, <1>13, <2>1, <2>2, <2>5, <2>6, <2>7, <2>8 DEF TimerInv, ListInv
  <2>10. \A u \in Clients : flags'[u] = flags[u] \/ (u \in Running /\ flags'[u] = FLAGS_ALLOC)
    <3>1. \A u \in Clients : u \in Timers /\ u # TaskTimer
      BY DEF Clients
    <3> QED BY <1>12, <1>13, <2>2, <3>1 DEF off
  <2> QED BY <1>4, <2>9, <2>10, CallsKept DEF TimerInv
<1>15. CASE TaskTimer \notin gone
  <2>1. timeout' = timeout /\ SetList(rest) /\ flags' = off
    BY <1>6, <1>15
  <2>2. List' = rest
    BY <1>11, <2>1, ListNext DEF Holds
  <2>3. Running' = Running \ gone
    <3>1. Using' = Using \ gone
      BY <1>12, <2>1 DEF Using
    <3> QED BY <1>4, <3>1 DEF Running
  <2>4. Times(timeout)
    BY DEF TimerInv, ListInv
  <2>5. ListInv'
    BY <1>3, <1>4, <1>10, <1>11, <1>12, <1>13, <1>15, <2>1, <2>2, <2>3, <2>4 DEF TimerInv, ListInv
  <2>6. \A u \in Clients : flags'[u] = flags[u] \/ (u \in Running /\ flags'[u] = FLAGS_ALLOC)
    BY <1>13, <2>1 DEF off, Clients
  <2> QED BY <1>4, <2>5, <2>6, CallsKept DEF TimerInv
<1> QED BY <1>14, <1>15
-----------------------------------------------------------------------------
\* f[k] is list L without the timers of S before k that are taken.
IsAfter(f, L, S, taken) ==
  f = [k \in 0 .. MaxTimer |->
         IF k = 0 THEN L
         ELSE IF k - 1 \in taken /\ k - 1 \in S THEN Unlinked(f[k - 1], k - 1) ELSE f[k - 1]]

(* The lists timer_cancelall goes through exist: the recursion ends. *)
LEMMA AfterExists ==
  ASSUME NEW L, NEW S, NEW taken
  PROVE  \E f : IsAfter(f, L, S, taken)
<1> DEFINE Step(f, k) == IF k = 0 THEN L
                         ELSE IF k - 1 \in taken /\ k - 1 \in S
                              THEN Unlinked(f[k - 1], k - 1)
                              ELSE f[k - 1]
           Upto(f, m) == f = [k \in 0 .. m |-> Step(f, k)]
           Bad == {m \in 0 .. MaxTimer : ~ \E f : Upto(f, m)}
<1>1. \E f : Upto(f, 0)
  <2> DEFINE f == [k \in 0 .. 0 |-> L]
  <2>1. \A k \in 0 .. 0 : Step(f, k) = L
    OBVIOUS
  <2>2. f = [k \in 0 .. 0 |-> Step(f, k)]
    BY <2>1
  <2> QED BY <2>2
<1>2. ASSUME NEW m \in 1 .. MaxTimer, NEW f, Upto(f, m - 1)
      PROVE  \E g : Upto(g, m)
  <2> DEFINE g == [k \in 0 .. m |-> IF k < m THEN f[k] ELSE Step(f, m)]
  <2>1. \A k \in 0 .. m - 1 : f[k] = Step(f, k)
    <3> HIDE DEF Step
    <3>1. f = [k \in 0 .. m - 1 |-> Step(f, k)]
      BY <1>2
    <3> QED BY <3>1
  <2>2. \A k \in 0 .. m - 1 : g[k] = f[k]
    OBVIOUS
  <2>3. g[m] = Step(f, m)
    OBVIOUS
  <2>4. g = [k \in 0 .. m |-> g[k]]
    OBVIOUS
  <2> HIDE DEF g
  <2>5. \A k \in 0 .. m : Step(g, k) = Step(f, k)
    <3> SUFFICES ASSUME NEW k \in 0 .. m
                 PROVE  Step(g, k) = Step(f, k)
      OBVIOUS
    <3>1. k # 0 => k - 1 \in 0 .. m - 1
      OBVIOUS
    <3> QED BY <2>2, <3>1
  <2>6. \A k \in 0 .. m : g[k] = Step(g, k)
    <3> HIDE DEF Step
    <3> SUFFICES ASSUME NEW k \in 0 .. m
                 PROVE  g[k] = Step(g, k)
      OBVIOUS
    <3>1. k = m \/ k \in 0 .. m - 1
      OBVIOUS
    <3> QED BY <2>1, <2>2, <2>3, <2>5, <3>1
  <2>7. g = [k \in 0 .. m |-> Step(g, k)]
    <3> HIDE DEF Step
    <3> QED BY <2>4, <2>6
  <2> QED BY <2>7
<1> HIDE DEF Upto
<1>3. Bad = {}
  <2> SUFFICES ASSUME Bad # {}
               PROVE  FALSE
    OBVIOUS
  <2>1. Bad \in SUBSET (0 .. MaxTimer)
    OBVIOUS
  <2>2. PICK m \in Bad : \A y \in Bad : m <= y
    <3> HIDE DEF Bad
    <3> QED BY <2>1, Least
  <2>3. m \in 1 .. MaxTimer /\ m - 1 \in 0 .. MaxTimer
    BY <1>1, <2>2
  <2>4. m - 1 \notin Bad
    <3> HIDE DEF Bad
    <3> QED BY <2>2, <2>3
  <2>5. PICK f : Upto(f, m - 1)
    BY <2>3, <2>4
  <2>6. \E g : Upto(g, m)
    BY <1>2, <2>3, <2>5
  <2> QED BY <2>2, <2>6
<1>4. \E f : Upto(f, MaxTimer)
  <2>1. MaxTimer \in 0 .. MaxTimer
    OBVIOUS
  <2> HIDE DEF Step
  <2> QED BY <1>3, <2>1
<1> QED BY <1>4 DEF Upto, IsAfter

(* Each step of timer_cancelall keeps the list. *)
LEMMA EachUnlinked ==
  ASSUME NEW L, NEW to, NEW S, Holds(L, to, S), NEW taken, Sentinel \notin taken,
         NEW after,
         \A k \in 0 .. MaxTimer :
           after[k] = IF k = 0 THEN L
                      ELSE IF k - 1 \in taken /\ k - 1 \in S
                           THEN Unlinked(after[k - 1], k - 1)
                           ELSE after[k - 1]
  PROVE  Holds(after[MaxTimer], to, {t \in S : t \notin taken})
<1> DEFINE Left(k) == {t \in S : ~ (t \in taken /\ t < k)}
           Wrong == {k \in 0 .. MaxTimer : ~Holds(after[k], to, Left(k))}
\* Place k holds the list without the timers before k that were taken.
<1>1. S \subseteq Timers
  BY DEF Holds, OnList
<1>2. ASSUME NEW k \in 1 .. MaxTimer, Holds(after[k - 1], to, Left(k - 1))
      PROVE  Holds(after[k], to, Left(k))
  <2>1. k - 1 \in Int /\ \A t \in S : t \in Int /\ (t < k <=> t < k - 1 \/ t = k - 1)
    BY <1>1 DEF Timers
  <2>2. CASE k - 1 \in taken /\ k - 1 \in S
    <3>1. after[k] = Unlinked(after[k - 1], k - 1)
      BY <2>2
    <3>2. Left(k) = Left(k - 1) \ {k - 1} /\ k - 1 \in Left(k - 1) /\ k - 1 # Sentinel
      BY <2>1, <2>2
    <3> HIDE DEF Left
    <3> QED BY <1>2, <3>1, <3>2, UnlinkedHolds
  <2>3. CASE ~ (k - 1 \in taken /\ k - 1 \in S)
    <3>1. after[k] = after[k - 1]
      BY <2>3
    <3>2. Left(k) = Left(k - 1)
      BY <2>1, <2>3
    <3> HIDE DEF Left
    <3> QED BY <1>2, <3>1, <3>2
  <2> QED BY <2>2, <2>3
<1>3. after[0] = L /\ Left(0) = S
  <2>1. 0 \in 0 .. MaxTimer
    OBVIOUS
  <2>2. \A t \in S : ~ (t < 0)
    BY <1>1 DEF Timers
  <2> QED BY <2>1, <2>2
<1> HIDE DEF Left
<1>4. Wrong = {}
  <2> SUFFICES ASSUME Wrong # {}
               PROVE  FALSE
    OBVIOUS
  <2>1. Wrong \in SUBSET (0 .. MaxTimer)
    OBVIOUS
  <2>2. PICK k \in Wrong : \A y \in Wrong : k <= y
    <3> HIDE DEF Wrong
    <3> QED BY <2>1, Least
  <2>3. k \in 1 .. MaxTimer /\ k - 1 \in 0 .. MaxTimer
    BY <1>3, <2>2
  <2>4. k - 1 \notin Wrong
    <3> HIDE DEF Wrong
    <3> QED BY <2>2, <2>3
  <2> QED BY <1>2, <2>2, <2>3, <2>4
<1>5. Holds(after[MaxTimer], to, Left(MaxTimer))
  <2>1. MaxTimer \in 0 .. MaxTimer
    OBVIOUS
  <2> QED BY <1>4, <2>1
<1>6. Left(MaxTimer) = {t \in S : t \notin taken}
  <2>1. \A t \in S : t < MaxTimer
    BY <1>1 DEF Timers
  <2> QED BY <2>1 DEF Left
<1> QED BY <1>5, <1>6

(* timer_cancelall takes the timers of an application off the list. *)
LEMMA CancelallInv ==
  ASSUME TimerInv, Undisturbed, NEW f \in Fifos, TimerCancelall(f)
  PROVE  TimerInv' /\ Running' = Running \ Taken(f) /\ BeingSet' = BeingSet
<1> DEFINE taken == Taken(f)
           Is(g) == g = [k \in 0 .. MaxTimer |->
                           IF k = 0 THEN List
                           ELSE IF k - 1 \in taken /\ flags[k - 1] = FLAGS_USING
                                THEN Unlinked(g[k - 1], k - 1)
                                ELSE g[k - 1]]
           after == CHOOSE g : Is(g)
           M == after[MaxTimer]
<1>1. /\ SetList(M) /\ Quiet(f) /\ Goes(f, "ready", "ready", NoTimer) /\ pc[f] = "ready"
      /\ flags' = [t \in Timers |-> IF t \in taken THEN FLAGS_FREE ELSE flags[t]]
      /\ held' = [held EXCEPT ![f] = held[f] \ taken]
      /\ UNCHANGED <<count, timeout, flags2, fifo>>
  BY DEF TimerCancelall, Goes
<1>2. taken \subseteq held[f] /\ taken \cap BeingSet = {} /\ taken \subseteq Clients
  BY <1>1, TakenHeld
<1>3. Sentinel \notin taken /\ TaskTimer \notin taken /\ taken \subseteq Timers
  BY <1>2 DEF Clients
<1>4. \A x : x \in taken => (x \in Running <=> flags[x] = FLAGS_USING)
  BY <1>2, <1>3 DEF Running, Using
<1> HIDE DEF taken
<1>5. Is(after)
  <2>1. PICK g : IsAfter(g, List, Running, taken)
    BY AfterExists
  <2>2. Is(g)
    BY <1>4, <2>1 DEF IsAfter
  <2> HIDE DEF Is
  <2> QED BY <2>2
<1> HIDE DEF after
<1>6. Holds(M, timeout, {t \in Running : t \notin taken})
  <2>1. \A k \in 0 .. MaxTimer :
          after[k] = IF k = 0 THEN List
                     ELSE IF k - 1 \in taken /\ k - 1 \in Running
                          THEN Unlinked(after[k - 1], k - 1)
                          ELSE after[k - 1]
    BY <1>4, <1>5
  <2>2. Holds(List, timeout, Running)
    BY DEF TimerInv, ListInv
  <2> QED BY <1>3, <2>1, <2>2, EachUnlinked
<1> HIDE DEF M
<1>7. List' = M
  BY <1>1, <1>6, ListNext DEF Holds
<1>8. BeingSet' = BeingSet
  <2>1. "ready" \in Places /\ NoTimer \in Clients \cup {NoTimer} /\ CallInv
    BY DEF Places, TimerInv
  <2>2. "ready" # "high"
    OBVIOUS
  <2> QED BY ONLY <1>1, <2>1, <2>2, BeingSetNext
<1>9. flags' \in [Timers -> {FLAGS_FREE, FLAGS_ALLOC, FLAGS_USING}] /\ Using' = Using \ taken
  BY <1>1 DEF TimerInv, ListInv, Using, FLAGS_FREE, FLAGS_USING
<1>10. Running' = Running \ taken /\ {t \in Running : t \notin taken} = Running \ taken
  BY <1>8, <1>9 DEF Running
<1>11. ListInv'
  BY <1>1, <1>3, <1>6, <1>7, <1>9, <1>10 DEF TimerInv, ListInv, Times
<1>12. CallInv'
  <2>1. taken \in SUBSET held[f] /\ NoTimer \in Clients \cup {NoTimer} /\ CallInv
    BY <1>2 DEF TimerInv
  <2>2. \A u \in Timers : flags'[u] = IF u \in taken THEN FLAGS_FREE ELSE flags[u]
    BY <1>1
  <2> QED BY <1>1, <2>1, <2>2, FreeCalls
<1> QED BY <1>8, <1>10, <1>11, <1>12 DEF TimerInv, taken
(* The list is kept by every step, whatever the pool, the words and the
   waits, if no caller sets or frees a timer that runs and no call of
   timer_alloc meets another one that took the same timer. *)
THEOREM TimerInductive == ASSUME Careful, Undisturbed PROVE Spec => []TimerInv
<1>1. Init => TimerInv
  BY InitInv
<1>2. TimerInv /\ [Next]_vars => TimerInv'
  <2> SUFFICES ASSUME TimerInv, [Next]_vars
               PROVE  TimerInv'
    OBVIOUS
  <2>1. CASE Wide(count) < MaxTime /\ (TickEarly \/ Tick) /\ UNCHANGED calls
    BY <2>1, EarlyInv, TickInv
  <2>2. ASSUME NEW f \in Fifos, NEW t \in Clients,
               TimerFound(f, t) \/ TimerInit(f, t) \/ TimerCancel(f, t) \/ TimerFree(f, t)
        PROVE  TimerInv'
    BY <2>2, FoundInv, InitTimerInv, CancelInv, FreeInv
  <2>3. ASSUME NEW f \in Fifos, NEW t \in Clients, NEW d \in Timeouts, SettimeLow(f, t, d)
        PROVE  TimerInv'
    BY <2>3, LowInv
  <2>4. ASSUME NEW f \in Fifos, \E auto \in BOOLEAN : TimerAlloc(f, auto)
        PROVE  TimerInv'
    BY <2>4, AllocInv
  <2>5. ASSUME NEW f \in Fifos, SettimeHigh(f) \/ SettimeLink(f) \/ TimerCancelall(f)
        PROVE  TimerInv'
    BY <2>5, HighInv, LinkInv, CancelallInv
  <2>6. CASE UNCHANGED vars
    <3>1. UNCHANGED <<t0, nxt, timeout, count, flags, flags2, fifo, pc, timer, held>>
      BY <2>6 DEF vars, tables, calls
    <3>2. Running' = Running
      BY <3>1 DEF Running, Using, BeingSet
    <3>3. ListInv'
      BY <3>1, <3>2, OthersInv DEF TimerInv, ListInv
    <3> QED BY <3>1, <3>3, CallsKept DEF TimerInv
  <2> QED BY <2>1, <2>2, <2>3, <2>4, <2>5, <2>6 DEF Next
<1> QED BY <1>1, <1>2, PTL DEF Spec

(* The loops over the list always end and meet every timer in use once, in
   the order of their times. *)
THEOREM TimerListHolds == ASSUME Careful, Undisturbed PROVE Spec => []TimerList
<1>1. TimerInv => TimerList
  BY InvImplies DEF TimerInv
<1> QED BY <1>1, TimerInductive, PTL

(* The scheduler's timer never leaves the list. *)
THEOREM TimerTaskRuns == ASSUME Careful, Undisturbed PROVE Spec => []TaskTimerRuns
<1>1. TimerInv => TaskTimerRuns
  BY InvImplies DEF TimerInv
<1> QED BY <1>1, TimerInductive, PTL
-----------------------------------------------------------------------------
(* The words of a time are compared like the tick they stand for. *)
LEMMA WideOrder ==
  ASSUME NEW a \in Pairs, NEW b \in Pairs
  PROVE  /\ Wide(a) \in Int
         /\ Leq(a, b) <=> Wide(a) <= Wide(b)
<1>1. /\ a[1] \in 0 .. Word - 1 /\ a[2] \in 0 .. Word - 1
      /\ b[1] \in 0 .. Word - 1 /\ b[2] \in 0 .. Word - 1
  BY DEF Pairs
<1>2. ASSUME NEW x \in Nat, NEW y \in Nat, x < y
      PROVE  x * Word + Word <= y * Word
  <2>1. (y - x - 1) \in Nat
    BY <1>2
  <2>2. (y - x - 1) * Word >= 0
    BY <2>1
  <2>3. (y - x - 1) * Word = y * Word - x * Word - Word
    OBVIOUS
  <2> QED BY <2>2, <2>3
<1>3. a[1] * Word \in Int /\ b[1] * Word \in Int /\ a[1] \in Nat /\ b[1] \in Nat
  BY <1>1
<1>4. CASE a[1] < b[1]
  <2>1. a[1] * Word + Word <= b[1] * Word
    BY <1>2, <1>3, <1>4
  <2> QED BY <1>1, <1>3, <1>4, <2>1 DEF Wide, Leq
<1>5. CASE b[1] < a[1]
  <2>1. b[1] * Word + Word <= a[1] * Word
    BY <1>2, <1>3, <1>5
  <2> QED BY <1>1, <1>3, <1>5, <2>1 DEF Wide, Leq
<1>6. CASE a[1] = b[1]
  <2> QED BY <1>1, <1>3, <1>6 DEF Wide, Leq
<1> QED BY <1>1, <1>4, <1>5, <1>6

(* A tick adds one, also when it carries. *)
LEMMA WideTock ==
  ASSUME NEW c \in Pairs
  PROVE  Wide(Tock(c)) = Wide(c) + 1
<1>1. c[1] \in 0 .. Word - 1 /\ c[2] \in 0 .. Word - 1
  BY DEF Pairs
<1>2. (c[1] + 1) * Word = c[1] * Word + Word /\ c[1] * Word \in Int
  BY <1>1
<1>3. CASE c[2] + 1 = Word
  <2>1. Tock(c) = <<c[1] + 1, 0>>
    BY <1>3 DEF Tock
  <2>2. Wide(Tock(c)) = (c[1] + 1) * Word + 0
    BY <2>1 DEF Wide
  <2> QED BY <1>1, <1>2, <1>3, <2>2 DEF Wide
<1>4. CASE c[2] + 1 # Word
  <2>1. Tock(c) = <<c[1], c[2] + 1>>
    BY <1>4 DEF Tock
  <2>2. Wide(Tock(c)) = c[1] * Word + (c[2] + 1)
    BY <2>1 DEF Wide
  <2> QED BY <1>1, <1>2, <2>2 DEF Wide
<1> QED BY <1>3, <1>4

(* The counter never gets to the sentinel's time. *)
LEMMA BeforeNever ==
  ASSUME NEW c \in Pairs, Wide(c) <= MaxTime
  PROVE  ~Leq(Never, c)
<1>1. Never \in Pairs /\ Never[1] = Word - 1 /\ Never[2] = Word - 1
  BY DEF Never, Pairs
<1>2. Wide(Never) = (Word - 1) * Word + (Word - 1)
  BY <1>1 DEF Wide
<1>3. (Word - 1) * Word = Word * (Word - 1) /\ Word * (Word - 1) \in Int
  OBVIOUS
<1>4. MaxTime <= Word * (Word - 1) - 1 /\ MaxTime \in Int
  <2>1. Word * (Word - 1) - 1 \in Int
    BY <1>3
  <2> QED BY <2>1
<1>5. Wide(Never) > MaxTime
  BY <1>2, <1>3, <1>4
<1>6. Wide(Never) \in Int /\ Wide(c) \in Int /\ (Leq(Never, c) <=> Wide(Never) <= Wide(c))
  BY <1>1, WideOrder
<1> QED BY <1>4, <1>5, <1>6
-----------------------------------------------------------------------------
(* What is left of a sequence without one of its elements. *)
LEMMA Removed ==
  ASSUME NEW S, NEW t \in Seq(S), NEW i \in 1 .. Len(t)
  PROVE  /\ RemoveAt(t, i) \in Seq(S) /\ Len(RemoveAt(t, i)) = Len(t) - 1
         /\ \A k \in 1 .. Len(t) - 1 : RemoveAt(t, i)[k] = IF k < i THEN t[k] ELSE t[k + 1]
<1> DEFINE n == Len(t)
           a == SubSeq(t, 1, i - 1)
           b == SubSeq(t, i + 1, n)
<1>1. n \in Nat /\ i \in 1 .. n
  OBVIOUS
<1>2. a \in Seq(S) /\ Len(a) = i - 1 /\ \A k \in 1 .. i - 1 : a[k] = t[k]
  BY SubSeqProperties
<1>3. b \in Seq(S) /\ Len(b) = n - i /\ \A k \in 1 .. n - i : b[k] = t[i + k]
  BY SubSeqProperties
<1>4. RemoveAt(t, i) = a \o b
  BY DEF RemoveAt
<1> HIDE DEF a, b, n
<1>5. /\ a \o b \in Seq(S)
      /\ Len(a \o b) = Len(a) + Len(b)
      /\ \A k \in 1 .. Len(a) + Len(b) : (a \o b)[k] = IF k <= Len(a) THEN a[k] ELSE b[k - Len(a)]
  BY <1>2, <1>3, ConcatProperties
<1> DEFINE r == a \o b
<1> HIDE DEF r
<1>6. /\ r \in Seq(S) /\ Len(r) = n - 1
      /\ \A k \in 1 .. n - 1 : r[k] = IF k <= i - 1 THEN a[k] ELSE b[k - (i - 1)]
  <2>1. Len(a) = i - 1 /\ Len(b) = n - i
    BY <1>2, <1>3
  <2>2. (i - 1) + (n - i) = n - 1
    BY <1>1
  <2> QED BY <1>5, <2>1, <2>2 DEF r
<1>7. ASSUME NEW k \in 1 .. n - 1
      PROVE  r[k] = IF k < i THEN t[k] ELSE t[k + 1]
  <2>1. CASE k < i
    <3>1. k <= i - 1 /\ k \in 1 .. i - 1
      BY <1>1, <2>1
    <3> QED BY <1>2, <1>6, <2>1, <3>1
  <2>2. CASE ~ (k < i)
    <3> DEFINE j == k - (i - 1)
    <3>1. j \in 1 .. n - i /\ i + j = k + 1 /\ ~ (k <= i - 1)
      BY <1>1, <2>2
    <3>2. r[k] = b[j]
      BY <1>6, <3>1
    <3> HIDE DEF j
    <3> QED BY <1>3, <2>2, <3>1, <3>2
  <2> QED BY <2>1, <2>2
<1> QED BY <1>4, <1>6, <1>7 DEF n, r

\* What the variables of the abstract timers are.
Due == [t \in Timers \ {Sentinel} |-> Wide(timeout[t])]
Pending == {t \in Timers \ {Sentinel} : flags[t] = FLAGS_USING} \ BeingSet
Asking == {<<timer[f], tick[f]>> : f \in {g \in Fifos : pc[g] = "low"}}

(* A sequence of all timers of E in the order of their times is one of the
   orders in which they may go off. *)
LEMMA InOrder ==
  ASSUME NEW E \in SUBSET (Timers \ {Sentinel}), NEW m \in Nat, NEW s \in [1 .. m -> E],
         \A x \in E : \E i \in 1 .. m : s[i] = x,
         \A i, j \in 1 .. m : i < j => s[i] # s[j] /\ Wide(timeout[s[i]]) <= Wide(timeout[s[j]])
  PROVE  s \in Queue!Orders(E)
<1>1. s \in Bijection(1 .. m, E)
  <2>1. \A i, j \in 1 .. m : s[i] = s[j] => i = j
    <3> SUFFICES ASSUME NEW i \in 1 .. m, NEW j \in 1 .. m, s[i] = s[j]
                 PROVE  i = j
      OBVIOUS
    <3>1. ~ (i < j) /\ ~ (j < i)
      OBVIOUS
    <3> QED BY <3>1
  <2>2. s \in Injection(1 .. m, E)
    BY <2>1 DEF Injection, IsInjective
  <2>3. s \in Surjection(1 .. m, E)
    BY DEF Surjection
  <2> QED BY <2>2, <2>3 DEF Bijection
<1>2. Cardinality(E) = m
  <2>1. ExistsBijection(1 .. m, E)
    BY <1>1 DEF ExistsBijection
  <2> QED BY <2>1, FS_CountingElements
<1>3. \A x \in E : Due[x] = Wide(timeout[x])
  BY DEF Due
<1>4. \A i, j \in 1 .. m : i < j =>
        /\ s[i] # s[j]
        /\ Due[s[i]] <= Due[s[j]]
  BY <1>3
<1>5. Queue!Cardinality(E) = m
  BY <1>2 DEF Queue!Cardinality, Cardinality
<1> QED BY <1>4, <1>5 DEF Queue!Orders, Due

(* What the interrupt puts is in order and leaves out task_timer only. *)
LEMMA PutsInOrder ==
  ASSUME NEW E \in SUBSET (Timers \ {Sentinel}), NEW k \in Nat, NEW p,
         E = {p[j] : j \in 0 .. k - 1},
         \A i, j \in 0 .. k - 1 : i < j => p[i] # p[j] /\ Wide(timeout[p[i]]) <= Wide(timeout[p[j]])
  PROVE  Puts(p, k) \in Queue!Orders(E \ {TaskTimer})
<1> DEFINE s == [j \in 1 .. k |-> p[j - 1]]
<1>1. ASSUME NEW j \in 1 .. k
      PROVE  j - 1 \in 0 .. k - 1 /\ s[j] = p[j - 1] /\ s[j] \in E
  OBVIOUS
<1>2. s \in [1 .. k -> E] /\ s \in Seq(E) /\ Len(s) = k
  <2>1. s \in [1 .. k -> E]
    BY <1>1
  <2> HIDE DEF s
  <2> QED BY <2>1, LenProperties
<1>3. ASSUME NEW i \in 1 .. k, NEW j \in 1 .. k, i < j
      PROVE  s[i] # s[j] /\ Wide(timeout[s[i]]) <= Wide(timeout[s[j]])
  <2>1. i - 1 \in 0 .. k - 1 /\ j - 1 \in 0 .. k - 1 /\ i - 1 < j - 1
    BY <1>3
  <2>2. s[i] = p[i - 1] /\ s[j] = p[j - 1]
    OBVIOUS
  <2> HIDE DEF s
  <2> QED BY <2>1, <2>2
<1>4. ASSUME NEW x \in E
      PROVE  \E j \in 1 .. k : s[j] = x
  <2>1. PICK j \in 0 .. k - 1 : p[j] = x
    OBVIOUS
  <2>2. j + 1 \in 1 .. k /\ s[j + 1] = x
    BY <2>1
  <2> QED BY <2>2
<1>5. Puts(p, k) = IF \E i \in 1 .. k : s[i] = TaskTimer
                   THEN RemoveAt(s, CHOOSE i \in 1 .. k : s[i] = TaskTimer)
                   ELSE s
  BY DEF Puts
<1> HIDE DEF s
<1>6. CASE ~ \E i \in 1 .. k : s[i] = TaskTimer
  <2>1. E \ {TaskTimer} = E
    BY <1>4, <1>6
  <2>2. s \in Queue!Orders(E)
    BY <1>2, <1>3, <1>4, InOrder
  <2> QED BY <1>5, <1>6, <2>1, <2>2
<1>7. CASE \E i \in 1 .. k : s[i] = TaskTimer
  <2> DEFINE i == CHOOSE i \in 1 .. k : s[i] = TaskTimer
             r == RemoveAt(s, i)
             F == E \ {TaskTimer}
  <2>1. i \in 1 .. k /\ s[i] = TaskTimer
    BY <1>7
  <2> HIDE DEF i
  <2>2. /\ r \in Seq(E) /\ Len(r) = k - 1
        /\ \A j \in 1 .. k - 1 : r[j] = IF j < i THEN s[j] ELSE s[j + 1]
    <3>1. s \in Seq(E) /\ Len(s) = k /\ i \in 1 .. Len(s)
      BY <1>2, <2>1
    <3>2. /\ RemoveAt(s, i) \in Seq(E) /\ Len(RemoveAt(s, i)) = Len(s) - 1
          /\ \A j \in 1 .. Len(s) - 1 : RemoveAt(s, i)[j] = IF j < i THEN s[j] ELSE s[j + 1]
      BY ONLY <3>1, Removed
    <3> HIDE DEF r
    <3> QED BY <3>1, <3>2 DEF r
  <2> HIDE DEF r
  <2> DEFINE At(j) == IF j < i THEN j ELSE j + 1
  <2>3. ASSUME NEW j \in 1 .. k - 1
        PROVE  At(j) \in 1 .. k /\ At(j) # i /\ r[j] = s[At(j)]
    BY <2>1, <2>2
  <2>4. \A j, l \in 1 .. k - 1 : j < l => At(j) < At(l)
    BY <2>1
  <2>5. \A j \in 1 .. k : j # i => \E l \in 1 .. k - 1 : At(l) = j
    <3> SUFFICES ASSUME NEW j \in 1 .. k, j # i
                 PROVE  \E l \in 1 .. k - 1 : At(l) = j
      OBVIOUS
    <3>1. CASE j < i
      <4>1. j \in 1 .. k - 1 /\ At(j) = j
        BY <2>1, <3>1
      <4> QED BY <4>1
    <3>2. CASE j > i
      <4>1. j - 1 \in 1 .. k - 1 /\ At(j - 1) = j
        BY <2>1, <3>2
      <4> QED BY <4>1
    <3> QED BY <2>1, <3>1, <3>2
  <2> HIDE DEF At
  <2>6. ASSUME NEW j \in 1 .. k, j # i
        PROVE  s[j] # TaskTimer
    <3>0. \A m, l \in 1 .. k : m < l => s[m] # s[l]
      BY <1>3
    <3>1. j < i \/ i < j
      BY <2>1, <2>6
    <3>2. CASE j < i
      <4>1. s[j] # s[i]
        BY ONLY <3>0, <2>1, <3>2, j \in 1 .. k
      <4> QED BY <2>1, <4>1
    <3>3. CASE i < j
      <4>1. s[i] # s[j]
        BY ONLY <3>0, <2>1, <3>3, j \in 1 .. k
      <4> QED BY <2>1, <4>1
    <3> QED BY <3>1, <3>2, <3>3
  <2>7. r \in [1 .. k - 1 -> F] /\ k - 1 \in Nat
    <3>1. \A j \in 1 .. k - 1 : r[j] \in F
      <4> SUFFICES ASSUME NEW j \in 1 .. k - 1
                   PROVE  r[j] \in F
        OBVIOUS
      <4>1. At(j) \in 1 .. k /\ At(j) # i /\ r[j] = s[At(j)]
        BY <2>3
      <4>2. r[j] # TaskTimer
        BY <2>6, <4>1
      <4>3. r[j] \in E
        BY <1>2, <4>1
      <4> QED BY <4>2, <4>3
    <3>2. r \in [1 .. k - 1 -> E] /\ k - 1 \in Nat
      BY <2>1, <2>2, LenProperties
    <3> QED BY <3>1, <3>2
  <2>8. \A x \in F : \E j \in 1 .. k - 1 : r[j] = x
    <3> SUFFICES ASSUME NEW x \in F
                 PROVE  \E j \in 1 .. k - 1 : r[j] = x
      OBVIOUS
    <3>1. PICK j \in 1 .. k : s[j] = x
      BY <1>4
    <3>2. j # i
      BY <2>1, <3>1
    <3>3. PICK l \in 1 .. k - 1 : At(l) = j
      BY <2>5, <3>2
    <3> QED BY <2>3, <3>1, <3>3
  <2>9. \A j, l \in 1 .. k - 1 : j < l => r[j] # r[l] /\ Wide(timeout[r[j]]) <= Wide(timeout[r[l]])
    <3> SUFFICES ASSUME NEW j \in 1 .. k - 1, NEW l \in 1 .. k - 1, j < l
                 PROVE  r[j] # r[l] /\ Wide(timeout[r[j]]) <= Wide(timeout[r[l]])
      OBVIOUS
    <3>1. At(j) \in 1 .. k /\ At(l) \in 1 .. k /\ At(j) < At(l)
      BY <2>3, <2>4
    <3> QED BY <1>3, <2>3, <3>1
  <2>10. F \in SUBSET (Timers \ {Sentinel})
    OBVIOUS
  <2> HIDE DEF F
  <2>11. r \in Queue!Orders(F)
    BY <2>7, <2>8, <2>9, <2>10, InOrder
  <2> QED BY <1>5, <1>7, <2>11 DEF F, r, i
<1> QED BY <1>6, <1>7
-----------------------------------------------------------------------------
\* Beside the list: the cached time is the one of the head, and a low word
\* that timer_settime wrote is the one of the tick it is asked for.
QueueInv ==
  /\ TimerInv
  /\ Wide(count) <= MaxTime
  /\ next = timeout[t0]
  /\ tick \in [Fifos -> Int]
  /\ \A f \in Fifos : pc[f] = "low" => timeout[timer[f]][2] = tick[f] % Word

Expired == {t \in Running \ {Sentinel} : Wide(timeout[t]) <= Wide(count) + 1}

(* The timers that are pending are the running ones. *)
LEMMA PendingIs == Pending = Running \ {Sentinel}
BY DEF Pending, Running, Using

LEMMA PendingNext == Pending' = Running' \ {Sentinel}
BY DEF Pending, Running, Using

(* The head of the list runs. *)
LEMMA HeadRuns ==
  ASSUME ListInv
  PROVE  t0 \in Running /\ List \in ListRecords
<1>1. PICK n \in 0 .. MaxTimer - 1 : \E w \in [0 .. n -> Timers] :
        Lists(List, w, n) /\ OnList(w, n) = Running
  BY DEF ListInv, Holds
<1>2. PICK w \in [0 .. n -> Timers] : Lists(List, w, n) /\ OnList(w, n) = Running
  BY <1>1
<1>3. w[0] = t0 /\ 0 \in 0 .. n
  BY <1>2 DEF Lists, List
<1> QED BY <1>2, <1>3 DEF OnList, ListInv, Holds

(* What is being asked after a step of a call. *)
LEMMA AskingNext ==
  ASSUME CallInv, NEW f \in Fifos, NEW p, NEW q \in Places, NEW t \in Clients \cup {NoTimer},
         Goes(f, p, q, t), \A g \in Fifos : g # f => tick'[g] = tick[g]
  PROVE  /\ p # "low" /\ q # "low" => Asking' = Asking
         /\ p # "low" /\ q = "low" => Asking' = Asking \cup {<<t, tick'[f]>>}
         /\ p = "low" /\ q = "high" => Asking' = Asking \ {<<timer[f], tick[f]>>}
<1>1. /\ pc[f] = p /\ pc'[f] = q
      /\ timer'[f] = IF q = "ready" THEN NoTimer ELSE t
      /\ \A g \in Fifos : g # f => pc'[g] = pc[g] /\ timer'[g] = timer[g]
  <2>1. CallInv /\ f \in Fifos /\ q \in Places /\ t \in Clients \cup {NoTimer} /\ Goes(f, p, q, t)
    OBVIOUS
  <2> QED BY ONLY <2>1, GoesIs
<1>2. Asking' = {<<timer'[g], tick'[g]>> : g \in {h \in Fifos : pc'[h] = "low"}}
  BY DEF Asking
<1> DEFINE Low == {h \in Fifos : pc[h] = "low"}
           Low1 == {h \in Fifos : pc'[h] = "low"}
<1>3. CASE p # "low" /\ q # "low"
  <2>1. Low1 = Low
    BY <1>1, <1>3
  <2>2. \A g \in Low : timer'[g] = timer[g] /\ tick'[g] = tick[g]
    BY <1>1, <1>3
  <2>3. {<<timer'[g], tick'[g]>> : g \in Low} = {<<timer[g], tick[g]>> : g \in Low}
    <3> HIDE DEF Low
    <3> QED BY <2>2
  <2> QED BY <1>2, <1>3, <2>1, <2>3 DEF Asking
<1>4. CASE p # "low" /\ q = "low"
  <2>1. Low1 = Low \cup {f} /\ timer'[f] = t
    BY <1>1, <1>4
  <2>2. \A g \in Low : timer'[g] = timer[g] /\ tick'[g] = tick[g]
    BY <1>1, <1>4
  <2>3. {<<timer'[g], tick'[g]>> : g \in Low \cup {f}}
          = {<<timer[g], tick[g]>> : g \in Low} \cup {<<t, tick'[f]>>}
    <3> HIDE DEF Low
    <3> QED BY <2>1, <2>2
  <2> QED BY <1>2, <1>4, <2>1, <2>3 DEF Asking
<1>5. CASE p = "low" /\ q = "high"
  <2>1. ASSUME NEW g \in Fifos, g # f, pc[g] = "low"
        PROVE  timer[g] # timer[f]
    <3>1. timer[f] \in held[f]
      BY <1>1, <1>5 DEF CallInv, PlaceOk
    <3> QED BY <2>1, <3>1, CallsApart
  <2> QED BY <1>1, <1>2, <1>5, <2>1 DEF Asking
<1> QED BY <1>3, <1>4, <1>5

(* A timer in use is not being asked for. *)
LEMMA AskedStopped ==
  ASSUME CallInv, NEW g \in Fifos, pc[g] = "low"
  PROVE  timer[g] \in held[g] /\ timer[g] \in Clients /\ timer[g] \notin Using
BY DEF CallInv, CallTypes, PlaceOk, Using, FLAGS_ALLOC, FLAGS_USING

(* The timers the next tick takes are those whose times it has reached. *)
LEMMA ExpiredIs ==
  ASSUME QueueInv, Wide(count) < MaxTime
  PROVE  /\ Tock(count) \in Pairs
         /\ Wide(Tock(count)) = Wide(count) + 1 /\ Wide(count) \in Int
         /\ Wide(Tock(count)) <= MaxTime
         /\ ~Leq(Never, Tock(count))
         /\ \A t \in Running \ {Sentinel} :
              /\ t \in Timers /\ timeout[t] \in Pairs
              /\ t \in Expired <=> Leq(timeout[t], Tock(count))
<1> DEFINE c == Tock(count)
<1>1. c \in Pairs /\ count \in Pairs
  BY CounterFits DEF QueueInv, TimerInv, ListInv
<1>2. Wide(c) = Wide(count) + 1 /\ Wide(count) \in Int
  BY <1>1, WideTock, WideOrder
<1>3. Wide(c) <= MaxTime
  <2>1. MaxTime \in Int
    <3>1. Word * (Word - 1) - 1 \in Int
      OBVIOUS
    <3> QED BY <3>1
  <2> QED BY <1>2, <2>1
<1> HIDE DEF c
<1>4. ~Leq(Never, c)
  BY <1>1, <1>3, BeforeNever
<1>5. ASSUME NEW t \in Running \ {Sentinel}
      PROVE  /\ t \in Timers /\ timeout[t] \in Pairs
             /\ t \in Expired <=> Leq(timeout[t], c)
  <2>1. t \in Timers /\ timeout[t] \in Pairs
    BY DEF QueueInv, TimerInv, ListInv, Times, Running, Using
  <2>2. Leq(timeout[t], c) <=> Wide(timeout[t]) <= Wide(c)
    BY <1>1, <2>1, WideOrder
  <2>3. t \in Expired <=> Wide(timeout[t]) <= Wide(count) + 1
    BY DEF Expired
  <2> QED BY <1>2, <2>1, <2>2, <2>3
<1> QED BY <1>1, <1>2, <1>3, <1>4, <1>5 DEF c

(* What a step must do to be a tick of the abstract timers. *)
LEMMA TickIs ==
  ASSUME Wide(count)' = Wide(count) + 1,
         fired' \in Queue!Orders(Expired \ {TaskTimer}),
         Running' = (Running \ Expired) \cup ({TaskTimer} \cap Expired),
         UNCHANGED calls,
         \A t \in Timers \ {Sentinel} :
           (t = TaskTimer /\ t \in Expired) \/ Wide(timeout'[t]) = Wide(timeout[t])
  PROVE  Queue!TTick
<1> DEFINE time == Wide(count)
           expired == {t \in Pending : Due[t] <= time + 1}
<1>1. Pending = Running \ {Sentinel} /\ Pending' = Running' \ {Sentinel} /\ TaskTimer # Sentinel
  BY PendingIs, PendingNext DEF TaskTimer, Sentinel
<1>2. \A t \in Pending : Due[t] = Wide(timeout[t])
  BY DEF Due, Pending
<1>3. expired = Expired
  BY <1>1, <1>2 DEF Expired
<1> HIDE DEF expired
<1>4. Pending' = (Pending \ expired) \cup ({TaskTimer} \cap expired)
  <2>1. Sentinel \notin Expired
    BY DEF Expired
  <2> QED BY <1>1, <1>3, <2>1
<1>5. \A t \in (Timers \ {Sentinel}) \ ({TaskTimer} \cap expired) : Due'[t] = Due[t]
  <2> SUFFICES ASSUME NEW t \in (Timers \ {Sentinel}) \ ({TaskTimer} \cap expired)
               PROVE  Due'[t] = Due[t]
    OBVIOUS
  <2>1. Wide(timeout'[t]) = Wide(timeout[t])
    BY <1>3
  <2>2. Due[t] = Wide(timeout[t]) /\ Due'[t] = Wide(timeout'[t])
    BY DEF Due, Wide
  <2> QED BY <2>1, <2>2
<1>6. fired' \in Queue!Orders(expired \ {TaskTimer})
  BY <1>3
<1>7. UNCHANGED <<Asking, BeingSet>>
  BY DEF Asking, BeingSet, calls
<1> QED BY <1>4, <1>5, <1>6, <1>7 DEF Queue!TTick, Pending, Due, Asking, expired

(* A tick before the cached time: nothing goes off. *)
LEMMA EarlyImplements ==
  ASSUME QueueInv, Wide(count) < MaxTime, TickEarly, UNCHANGED calls, TimerInv'
  PROVE  QueueInv' /\ Queue!TTick
<1> DEFINE c == Tock(count)
<1>1. /\ c \in Pairs /\ Wide(c) = Wide(count) + 1 /\ Wide(c) <= MaxTime
      /\ \A t \in Running \ {Sentinel} :
           timeout[t] \in Pairs /\ (t \in Expired <=> Leq(timeout[t], c))
  BY ExpiredIs
<1>2. /\ ~Leq(next, c) /\ count' = c /\ fired' = <<>>
      /\ UNCHANGED <<next, t0, nxt, timeout, flags, flags2, fifo, pc, timer, tick>>
  BY DEF TickEarly, calls
<1> HIDE DEF c
<1>3. PICK n \in 0 .. MaxTimer - 1 : \E w \in [0 .. n -> Timers] :
        Lists(List, w, n) /\ Ordered(timeout, w, n) /\ OnList(w, n) = Running
  BY DEF QueueInv, TimerInv, ListInv, Holds
<1>4. PICK w \in [0 .. n -> Timers] :
        Lists(List, w, n) /\ Ordered(timeout, w, n) /\ OnList(w, n) = Running
  BY <1>3
<1>5. w[0] = t0 /\ timeout[w[0]] = next /\ next \in Pairs
  BY <1>4 DEF Lists, List, QueueInv, TimerInv, ListInv, Times
<1>6. Expired = {}
  <2> SUFFICES ASSUME NEW t \in Expired
               PROVE  FALSE
    OBVIOUS
  <2>1. t \in Running \ {Sentinel}
    BY DEF Expired
  <2>2. PICK j \in 0 .. n : w[j] = t
    BY <1>4, <2>1 DEF OnList
  <2>3. 0 \in 0 .. n /\ (j = 0 \/ 0 < j)
    OBVIOUS
  <2>4. Leq(next, next)
    BY <1>5, Compare
  <2>5. Leq(next, timeout[t])
    BY <1>4, <1>5, <2>2, <2>3, <2>4 DEF Ordered
  <2>6. Leq(timeout[t], c) /\ timeout[t] \in Pairs
    BY <1>1, <2>1
  <2> QED BY <1>1, <1>2, <1>5, <2>5, <2>6, Compare
<1>7. Running' = Running
  BY <1>2 DEF Running, Using, BeingSet
<1>8. Wide(count)' = Wide(count) + 1
  BY <1>1, <1>2
<1>9. Queue!TTick
  <2>1. <<>> \in Queue!Orders({})
    <3>1. {} \in SUBSET (Timers \ {Sentinel}) /\ 0 \in Nat /\ <<>> \in [1 .. 0 -> {}]
          /\ \A i \in 1 .. 0 : FALSE
      OBVIOUS
    <3> QED BY <3>1, InOrder
  <2>2. fired' \in Queue!Orders(Expired \ {TaskTimer})
    <3>1. Expired \ {TaskTimer} = {}
      BY <1>6
    <3> QED BY <1>2, <2>1, <3>1
  <2>3. Running' = (Running \ Expired) \cup ({TaskTimer} \cap Expired)
    BY <1>6, <1>7
  <2>4. \A t \in Timers \ {Sentinel} :
          (t = TaskTimer /\ t \in Expired) \/ Wide(timeout'[t]) = Wide(timeout[t])
    BY <1>2
  <2> QED BY <1>8, <2>2, <2>3, <2>4, TickIs
<1>10. QueueInv'
  <2>1. Wide(count)' <= MaxTime
    BY <1>1, <1>2
  <2> QED BY <1>2, <2>1 DEF QueueInv
<1> QED BY <1>9, <1>10

(* A tick at the cached time: what the interrupt takes off the list is what
   expired, and it puts their data in order. *)
LEMMA TickImplements ==
  ASSUME QueueInv, Wide(count) < MaxTime, Tick, UNCHANGED calls, TimerInv'
  PROVE  QueueInv' /\ Queue!TTick
<1> DEFINE c    == Tock(count)
           k    == Passed(c)
           p    == Path(List)
           gone == {Path(List)[j] : j \in Before(k)}
           rest == [List EXCEPT !.t0 = Path(List)[k]]
           off  == [t \in Timers |-> IF t \in gone THEN FLAGS_ALLOC ELSE flags[t]]
           at   == <<c[1], (c[2] + Slice) % Word>>
           to   == [timeout EXCEPT ![TaskTimer] = at]
           M    == Linked(rest, TaskTimer, to)
<1>1. PICK n \in 0 .. MaxTimer - 1 : \E w \in [0 .. n -> Timers] :
        Lists(List, w, n) /\ Ordered(timeout, w, n) /\ OnList(w, n) = Running
  BY DEF QueueInv, TimerInv, ListInv, Holds
<1>2. PICK w \in [0 .. n -> Timers] :
        Lists(List, w, n) /\ Ordered(timeout, w, n) /\ OnList(w, n) = Running
  BY <1>1
<1>3. /\ c \in Pairs /\ Wide(c) = Wide(count) + 1 /\ Wide(c) <= MaxTime /\ ~Leq(Never, c)
      /\ \A t \in Running \ {Sentinel} :
           /\ t \in Timers /\ timeout[t] \in Pairs
           /\ t \in Expired <=> Leq(timeout[t], c)
  BY ExpiredIs
<1>4. Times(timeout) /\ TimerInv
  BY DEF QueueInv, TimerInv, ListInv
<1>5. /\ k \in 0 .. n /\ ~TimedOut(w[k], c)
      /\ \A j \in 0 .. k - 1 : TimedOut(w[j], c)
  BY <1>2, <1>4, PassedIs
<1>6. \A j \in 0 .. n : p[j] = w[j]
  BY <1>2, PathIs
<1>7. /\ count' = c /\ fired' = Puts(p, k)
      /\ UNCHANGED <<pc, timer, tick>> /\ BeingSet' = BeingSet
  BY DEF Tick, calls, BeingSet
<1>8. TaskTimer \in gone =>
        timeout' = to /\ SetList(M) /\ next' = to[M.t0]
        /\ flags' = [off EXCEPT ![TaskTimer] = FLAGS_USING]
  BY DEF Tick
<1>9. TaskTimer \notin gone =>
        timeout' = timeout /\ SetList(rest) /\ next' = timeout[rest.t0] /\ flags' = off
  BY DEF Tick
<1>10. gone = {p[j] : j \in 0 .. k - 1}
  BY DEF Before
<1> HIDE DEF c, k, at, p
<1>11. gone = {w[j] : j \in 0 .. k - 1} /\ \A j \in 0 .. k - 1 : j \in 0 .. n /\ j < k
  <2>1. \A j \in 0 .. k - 1 : j \in 0 .. n /\ j < k
    BY <1>5
  <2> HIDE DEF gone
  <2> QED BY <1>6, <1>10, <2>1
<1> HIDE DEF gone
\* The timers that are taken are those that expired.
<1>12. ASSUME NEW t \in gone
       PROVE  t \in Running \ {Sentinel} /\ t \in Expired
  <2>1. PICK j \in 0 .. k - 1 : t = w[j]
    BY <1>11
  <2>2. t \in Running /\ TimedOut(t, c)
    BY <1>2, <1>5, <1>11, <2>1 DEF OnList
  <2>3. t # Sentinel /\ Leq(timeout[t], c)
    BY <1>4, <2>2 DEF TimedOut, Times
  <2> QED BY <1>3, <2>2, <2>3
<1>13. ASSUME NEW t \in Expired
       PROVE  t \in gone
  <2>1. t \in Running \ {Sentinel}
    BY DEF Expired
  <2>2. PICK i \in 0 .. n : w[i] = t
    BY <1>2, <2>1 DEF OnList
  <2>3. CASE i < k
    <3>1. i \in 0 .. k - 1
      BY <1>5, <2>3
    <3> QED BY <1>11, <2>2, <3>1
  <2>4. CASE ~ (i < k)
    <3>1. Leq(timeout[t], c) /\ timeout[t] \in Pairs
      BY <1>3, <2>1
    <3>2. w[k] \in Timers /\ timeout[w[k]] \in Pairs
      BY <1>4, <1>5 DEF Times
    <3>3. Leq(timeout[w[k]], timeout[t])
      <4>1. CASE k = i
        BY <2>2, <3>2, <4>1, Compare
      <4>2. CASE k < i
        BY <1>2, <1>5, <2>2, <4>2 DEF Ordered
      <4> QED BY <1>5, <2>4, <4>1, <4>2
    <3>4. Leq(timeout[w[k]], c)
      BY <1>3, <3>1, <3>2, <3>3, Compare
    <3> QED BY <1>3, <1>5, <3>4 DEF TimedOut
  <2> QED BY <2>3, <2>4
<1>14. gone = Expired /\ gone \in SUBSET (Timers \ {Sentinel})
  BY <1>12, <1>13 DEF Running, Using
<1>15. fired' \in Queue!Orders(Expired \ {TaskTimer})
  <2>1. ASSUME NEW i \in 0 .. k - 1, NEW j \in 0 .. k - 1, i < j
        PROVE  p[i] # p[j] /\ Wide(timeout[p[i]]) <= Wide(timeout[p[j]])
    <3>1. p[i] = w[i] /\ p[j] = w[j] /\ i \in 0 .. n /\ j \in 0 .. n
      BY <1>6, <1>11
    <3>2. w[i] # w[j] /\ Leq(timeout[w[i]], timeout[w[j]])
      BY <1>2, <2>1, <3>1 DEF Lists, Ordered
    <3>3. w[i] \in gone /\ w[j] \in gone
      BY <1>11
    <3>4. w[i] \in Running \ {Sentinel} /\ w[j] \in Running \ {Sentinel}
      BY <1>12, <3>3
    <3>5. timeout[w[i]] \in Pairs /\ timeout[w[j]] \in Pairs
      BY <1>3, <3>4
    <3>6. Wide(timeout[w[i]]) <= Wide(timeout[w[j]])
      BY <3>2, <3>5, WideOrder
    <3> QED BY <3>1, <3>2, <3>5, <3>6
  <2>2. k \in Nat
    BY <1>5
  <2>3. Puts(p, k) \in Queue!Orders(gone \ {TaskTimer})
    BY <1>10, <1>14, <2>1, <2>2, PutsInOrder
  <2> QED BY <1>7, <1>14, <2>3
<1>16. /\ TaskTimer \in Timers /\ TaskTimer # Sentinel /\ TaskTimer \in Running
       /\ TaskTimer \notin BeingSet
  <2>1. {Sentinel, TaskTimer} \subseteq Running
    BY <1>4 DEF TimerInv, ListInv
  <2> QED BY <2>1 DEF Running, Using, Sentinel, TaskTimer
<1>17. {t \in Timers : off[t] = FLAGS_USING} = Using \ gone /\ off \in [Timers -> {off[t] : t \in Timers}]
  BY <1>14 DEF Using, FLAGS_ALLOC, FLAGS_USING
<1> HIDE DEF off
<1>18. Running' = (Running \ Expired) \cup ({TaskTimer} \cap Expired)
  <2>1. Using' = {t \in Timers : flags'[t] = FLAGS_USING} /\ Running' = Using' \ BeingSet
    BY <1>7 DEF Using, Running
  <2>2. CASE TaskTimer \in gone
    <3>1. flags' = [off EXCEPT ![TaskTimer] = FLAGS_USING]
      BY <1>8, <2>2
    <3>2. {t \in Timers : flags'[t] = FLAGS_USING} = (Using \ gone) \cup {TaskTimer}
      BY <1>16, <1>17, <3>1
    <3> QED BY <1>14, <1>16, <2>1, <2>2, <3>2 DEF Running
  <2>3. CASE TaskTimer \notin gone
    <3>1. flags' = off
      BY <1>9, <2>3
    <3> QED BY <1>14, <1>17, <2>1, <2>3, <3>1 DEF Running
  <2> QED BY <2>2, <2>3
\* Only task_timer gets a new time, and only when it went off.
<1>19. ASSUME NEW t \in Timers, t # TaskTimer \/ TaskTimer \notin gone
       PROVE  timeout'[t] = timeout[t]
  BY <1>4, <1>8, <1>9, <1>19 DEF Times
<1>20. ASSUME NEW t \in Timers \ {Sentinel}
       PROVE  (t = TaskTimer /\ t \in Expired) \/ Wide(timeout'[t]) = Wide(timeout[t])
  BY <1>14, <1>19
<1>21. Wide(count)' = Wide(count) + 1
  BY <1>3, <1>7
<1>22. Queue!TTick
  BY <1>15, <1>18, <1>20, <1>21, TickIs
<1>23. next' = timeout'[t0']
  <2>1. CASE TaskTimer \in gone
    <3>1. timeout' = to /\ next' = to[M.t0] /\ t0' = M.t0
      BY <1>8, <2>1 DEF SetList
    <3> HIDE DEF to, M
    <3> QED BY <3>1
  <2>2. CASE TaskTimer \notin gone
    <3>1. timeout' = timeout /\ next' = timeout[rest.t0] /\ t0' = rest.t0
      BY <1>9, <2>2 DEF SetList
    <3> HIDE DEF rest
    <3> QED BY <3>1
  <2> QED BY <2>1, <2>2
<1>24. ASSUME NEW f \in Fifos, pc'[f] = "low"
       PROVE  timeout'[timer'[f]][2] = tick'[f] % Word
  <2>1. pc[f] = "low" /\ timer'[f] = timer[f] /\ tick'[f] = tick[f]
    BY <1>7, <1>24
  <2>2. timer[f] \in Clients
    BY <1>4, <2>1, AskedStopped DEF TimerInv
  <2>3. timeout'[timer[f]] = timeout[timer[f]]
    BY <1>19, <2>2 DEF Clients
  <2> QED BY <2>1, <2>3 DEF QueueInv
<1>25. QueueInv'
  <2>1. Wide(count)' <= MaxTime
    BY <1>3, <1>7
  <2>2. tick' \in [Fifos -> Int]
    BY <1>7 DEF QueueInv
  <2> QED BY <1>23, <1>24, <2>1, <2>2 DEF QueueInv
<1> QED BY <1>22, <1>25

(* timer_settime changes the head only into the timer it sets. *)
LEMMA LinkedHead ==
  ASSUME NEW L \in ListRecords, NEW t, NEW to
  PROVE  Linked(L, t, to).t0 \in {t, L.t0}
<1> DEFINE k == PlaceFor(L, to[t], to)
           p == Path(L)
<1>1. Linked(L, t, to) = IF k = 0 THEN [L EXCEPT !.t0 = t, !.nxt[t] = L.t0]
                         ELSE [L EXCEPT !.nxt[p[k - 1]] = t, !.nxt[t] = p[k]]
  BY DEF Linked
<1> HIDE DEF k, p
<1>2. L = [t0 |-> L.t0, nxt |-> L.nxt]
  BY DEF ListRecords
<1>3. [L EXCEPT !.t0 = t, !.nxt[t] = L.t0].t0 = t
  BY <1>2
<1>4. [L EXCEPT !.nxt[p[k - 1]] = t, !.nxt[t] = p[k]].t0 = L.t0
  BY <1>2
<1> QED BY <1>1, <1>3, <1>4

(* A tick is the place in its word beyond whole words, and only in one way. *)
LEMMA InOneWay ==
  ASSUME NEW w \in Nat, w > 0, NEW k \in Int, NEW m \in 0 .. w - 1,
         NEW q \in Int, NEW r \in 0 .. w - 1, k * w + m = q * w + r
  PROVE  k = q /\ m = r
<1>1. (k - q) * w = r - m
  BY k * w - q * w = (k - q) * w
<1>2. CASE k - q >= 1
  <2>1. (k - q - 1) * w >= 0
    BY <1>2
  <2>2. (k - q - 1) * w = (k - q) * w - w
    OBVIOUS
  <2> QED BY <1>1, <2>1, <2>2
<1>3. CASE k - q <= -1
  <2>1. (q - k - 1) * w >= 0
    BY <1>3
  <2>2. (q - k - 1) * w = -((k - q) * w) - w
    OBVIOUS
  <2> QED BY <1>1, <2>1, <2>2
<1>4. k = q
  BY <1>2, <1>3
<1> QED BY <1>4

LEMMA WordsOf ==
  ASSUME NEW w \in Nat, w > 0, NEW k \in Int, NEW m \in 0 .. w - 1
  PROVE  (k * w + m) \div w = k /\ (k * w + m) % w = m
<1> DEFINE x == k * w + m
           q == x \div w
           r == x % w
<1>1. x \in Int
  OBVIOUS
<1>2. q \in Int /\ r \in 0 .. w - 1 /\ x = w * q + r
  <2> HIDE DEF x
  <2> QED BY <1>1
<1>3. w * q = q * w
  BY <1>2
<1> HIDE DEF q, r
<1>4. k * w + m = q * w + r
  BY <1>2, <1>3
<1> QED BY <1>2, <1>4, InOneWay DEF q, r

(* Whole words do not matter to the place in a word. *)
LEMMA WordsApart ==
  ASSUME NEW w \in Nat, w > 0, NEW k \in Int, NEW x \in Int
  PROVE  (k * w + x) % w = x % w
<1> DEFINE q == x \div w
           r == x % w
<1>1. q \in Int /\ r \in 0 .. w - 1 /\ x = w * q + r
  OBVIOUS
<1> HIDE DEF q, r
<1>2. k * w + x = (k + q) * w + r
  BY <1>1
<1>3. ((k + q) * w + r) % w = r
  BY <1>1, WordsOf
<1> QED BY <1>2, <1>3 DEF r

(* A step that leaves the counter alone and asks for no other tick keeps the
   invariant, if the cached time is kept. *)
LEMMA QueueKept ==
  ASSUME QueueInv, TimerInv', UNCHANGED <<count, tick>>, next' = timeout'[t0'],
         \A f \in Fifos : pc'[f] = "low" =>
           pc[f] = "low" /\ timer'[f] = timer[f] /\ timeout'[timer[f]] = timeout[timer[f]]
  PROVE  QueueInv'
<1>1. Wide(count)' <= MaxTime
  BY DEF QueueInv, Wide
<1> QED BY <1>1 DEF QueueInv

(* timer_settime writes the low word: the wait begins. *)
LEMMA LowImplements ==
  ASSUME QueueInv, Careful, NEW f \in Fifos, NEW t \in Clients, NEW d \in Timeouts,
         SettimeLow(f, t, d), TimerInv'
  PROVE  QueueInv' /\ Queue!TAsk(t, d)
<1> DEFINE time == Wide(count)
<1>1. /\ t \in held[f] /\ Goes(f, "ready", "low", t) /\ fired' = <<>>
      /\ timeout' = [timeout EXCEPT ![t] = <<timeout[t][1], (count[2] + d) % Word>>]
      /\ tick' = [tick EXCEPT ![f] = time + d]
      /\ UNCHANGED <<count, next, t0>>
  BY DEF SettimeLow, Goes
<1>2. /\ Running' = Running /\ BeingSet' = BeingSet /\ t \notin Using
      /\ \A u \in Timers : u # t => timeout'[u] = timeout[u]
  BY LowInv DEF QueueInv
<1>3. CallInv /\ ListInv /\ "low" \in Places /\ t \in Clients \cup {NoTimer} /\ t \in Timers
      /\ count \in Pairs /\ d \in Nat
  BY DEF QueueInv, TimerInv, ListInv, Places, Clients
<1>4. /\ pc[f] = "ready" /\ pc'[f] = "low" /\ timer'[f] = t
      /\ \A g \in Fifos : g # f => pc'[g] = pc[g] /\ timer'[g] = timer[g]
  BY <1>1, <1>3, GoesIs
<1>5. time \in Int /\ tick'[f] = time + d /\ tick' \in [Fifos -> Int]
      /\ \A g \in Fifos : g # f => tick'[g] = tick[g]
  BY <1>1, <1>3, WideOrder DEF QueueInv
<1>6. timeout'[t][2] = (time + d) % Word
  <2>1. timeout'[t] = <<timeout[t][1], (count[2] + d) % Word>>
    BY <1>1, <1>3 DEF ListInv, Times
  <2>2. count[1] \in Int /\ count[2] \in Int
    BY <1>3 DEF Pairs
  <2>3. (count[1] * Word + (count[2] + d)) % Word = (count[2] + d) % Word
    <3>1. count[2] + d \in Int /\ Word \in Nat /\ Word > 0
      BY <1>3, <2>2
    <3> QED BY ONLY <2>2, <3>1, WordsApart
  <2>4. time + d = count[1] * Word + (count[2] + d)
    <3>1. count[1] * Word \in Int
      BY <2>2
    <3> QED BY <1>3, <2>2, <3>1 DEF Wide
  <2> QED BY <2>1, <2>3, <2>4
<1>7. ASSUME NEW g \in Fifos, pc[g] = "low"
      PROVE  g # f /\ timer[g] # t /\ timer[g] \in Timers
  <2>1. timer[g] \in held[g] /\ timer[g] \in Clients
    BY <1>3, <1>7, AskedStopped
  <2> QED BY <1>1, <1>3, <1>4, <1>7, <2>1, CallsApart DEF Clients
<1> HIDE DEF time
<1>8. ASSUME NEW g \in Fifos, pc'[g] = "low"
      PROVE  timeout'[timer'[g]][2] = tick'[g] % Word
  <2>1. CASE g = f
    BY <1>4, <1>5, <1>6, <2>1
  <2>2. CASE g # f
    <3>1. pc[g] = "low" /\ timer'[g] = timer[g] /\ tick'[g] = tick[g]
      BY <1>4, <1>5, <1>8, <2>2
    <3>2. timeout'[timer[g]] = timeout[timer[g]]
      BY <1>2, <1>7, <3>1
    <3> QED BY <3>1, <3>2 DEF QueueInv
  <2> QED BY <2>1, <2>2
<1>9. QueueInv'
  <2>1. Wide(count)' <= MaxTime
    BY <1>1 DEF QueueInv, Wide
  <2>2. t0 # t /\ t0 \in Timers
    BY <1>2, <1>3, HeadRuns DEF Running, Using
  <2>3. next' = timeout'[t0']
    BY <1>1, <1>2, <2>2 DEF QueueInv
  <2> QED BY <1>5, <1>8, <2>1, <2>3 DEF QueueInv
<1>10. Asking' = Asking \cup {<<t, time + d>>}
  <2>1. "ready" # "low"
    OBVIOUS
  <2> QED BY <1>1, <1>3, <1>5, <2>1, AskingNext
<1>11. Pending' = Pending /\ t \notin BeingSet \cup Pending
  <2>1. BeingSet \subseteq Using
    BY <1>3, BeingSetIs
  <2> QED BY <1>2, <2>1, PendingIs, PendingNext DEF Running
<1>12. \A a \in Asking : a[1] # t
  BY <1>7 DEF Asking
<1>13. \A u \in (Timers \ {Sentinel}) \ {t} : Due'[u] = Due[u]
  BY <1>2 DEF Due, Wide
<1>14. Wide(count)' = Wide(count)
  BY <1>1 DEF Wide
<1>15. Queue!Idle(t)
  BY <1>11, <1>12 DEF Queue!Idle, Asking, Pending
<1>16. Queue!TAsk(t, d)
  BY <1>1, <1>2, <1>10, <1>11, <1>13, <1>14, <1>15 DEF Queue!TAsk, Asking, Pending, Due, time
<1> QED BY <1>9, <1>16

(* timer_settime writes the high word: the due time is fixed, in the word of
   the counter in which it does so. *)
LEMMA HighImplements ==
  ASSUME QueueInv, NEW f \in Fifos, SettimeHigh(f), TimerInv'
  PROVE  QueueInv' /\ \E a \in Asking : Queue!TFix(a)
<1> DEFINE t == timer[f]
           a == <<t, tick[f]>>
<1>1. /\ Goes(f, "low", "high", t) /\ fired' = <<>> /\ tick' = [tick EXCEPT ![f] = 0]
      /\ UNCHANGED <<count, next, t0>>
  BY DEF SettimeHigh, Goes
<1>2. /\ Running' = Running /\ BeingSet' = BeingSet \cup {t} /\ t \in Clients /\ t \notin Using
      /\ timeout'[t] = <<count[1], timeout[t][2]>>
      /\ \A u \in Timers : u # t => timeout'[u] = timeout[u]
  BY HighInv DEF QueueInv
<1> HIDE DEF t
<1>3. CallInv /\ ListInv /\ "high" \in Places /\ t \in Clients \cup {NoTimer} /\ t \in Timers
      /\ count \in Pairs
  BY <1>2 DEF QueueInv, TimerInv, ListInv, Places, Clients
<1>4. /\ pc[f] = "low" /\ pc'[f] = "high"
      /\ \A g \in Fifos : g # f => pc'[g] = pc[g] /\ timer'[g] = timer[g]
  BY <1>1, <1>3, GoesIs
<1>5. tick' \in [Fifos -> Int] /\ \A g \in Fifos : g # f => tick'[g] = tick[g]
  BY <1>1 DEF QueueInv
<1>6. ASSUME NEW g \in Fifos, g # f, pc[g] = "low"
      PROVE  timer[g] # t /\ timer[g] \in Timers
  <2>1. timer[g] \in held[g] /\ timer[g] \in Clients /\ t \in held[f]
    BY <1>3, <1>4, <1>6, AskedStopped DEF t
  <2> QED BY <1>3, <1>6, <2>1, CallsApart DEF Clients
<1>7. ASSUME NEW g \in Fifos, pc'[g] = "low"
      PROVE  timeout'[timer'[g]][2] = tick'[g] % Word
  <2>1. g # f /\ pc[g] = "low" /\ timer'[g] = timer[g] /\ tick'[g] = tick[g]
    BY <1>4, <1>5, <1>7
  <2>2. timeout'[timer[g]] = timeout[timer[g]]
    BY <1>2, <1>6, <2>1
  <2> QED BY <2>1, <2>2 DEF QueueInv
<1>8. QueueInv'
  <2>1. Wide(count)' <= MaxTime
    BY <1>1 DEF QueueInv, Wide
  <2>2. t0 # t /\ t0 \in Timers
    BY <1>2, <1>3, HeadRuns DEF Running, Using
  <2>3. next' = timeout'[t0']
    BY <1>1, <1>2, <2>2 DEF QueueInv
  <2> QED BY <1>5, <1>7, <2>1, <2>3 DEF QueueInv
<1>9. Asking' = Asking \ {a} /\ a \in Asking
  <2>1. "low" # "ready"
    OBVIOUS
  <2>2. Asking' = Asking \ {<<timer[f], tick[f]>>}
    BY <1>1, <1>3, <1>5, AskingNext
  <2> QED BY <1>4, <2>2 DEF Asking, t
<1>10. Pending' = Pending
  BY <1>2, PendingIs, PendingNext
<1>11. Wide(timeout'[t]) = ((Wide(count) \div Word) * Word) + (tick[f] % Word)
  <2>1. timeout[t][2] = tick[f] % Word
    BY <1>4 DEF QueueInv, t
  <2>2. Wide(count) \div Word = count[1]
    <3>1. count[1] \in Int /\ count[2] \in 0 .. Word - 1 /\ Word \in Nat /\ Word > 0
      BY <1>3 DEF Pairs
    <3>2. (count[1] * Word + count[2]) \div Word = count[1]
      BY ONLY <3>1, WordsOf
    <3> QED BY <3>2 DEF Wide
  <2>3. Wide(timeout'[t]) = count[1] * Word + timeout[t][2]
    BY <1>2 DEF Wide
  <2> QED BY <2>1, <2>2, <2>3
<1>12. Due' = [Due EXCEPT ![t] = Wide(timeout'[t])]
  <2>1. Due' = [u \in Timers \ {Sentinel} |-> Wide(timeout'[u])]
    BY DEF Due, Wide
  <2>2. \A u \in Timers \ {Sentinel} : u # t => Wide(timeout'[u]) = Wide(timeout[u])
    BY <1>2
  <2> QED BY <2>1, <2>2 DEF Due
<1>13. Wide(count)' = Wide(count) /\ a[1] = t /\ a[2] = tick[f]
  BY <1>1 DEF Wide
<1> HIDE DEF a
<1>14. PICK b : b = a
  OBVIOUS
<1>15. Due' = [Due EXCEPT ![b[1]] = ((Wide(count) \div Word) * Word) + (b[2] % Word)]
  BY <1>11, <1>12, <1>13, <1>14
<1>16. Asking' = Asking \ {b} /\ BeingSet' = BeingSet \cup {b[1]} /\ fired' = <<>>
  BY <1>1, <1>2, <1>9, <1>13, <1>14
<1>17. Queue!TFix(b)
  BY <1>10, <1>13, <1>15, <1>16 DEF Queue!TFix, Queue!InWord, Asking, Pending, Due
<1> QED BY <1>8, <1>9, <1>14, <1>17

(* timer_settime puts its timer on the list: it is pending. *)
LEMMA LinkImplements ==
  ASSUME QueueInv, NEW f \in Fifos, SettimeLink(f), TimerInv'
  PROVE  QueueInv' /\ \E t \in BeingSet : Queue!TSet(t)
<1> DEFINE t == timer[f]
           M == Linked(List, t, timeout)
<1>1. /\ Goes(f, "high", "ready", t) /\ fired' = <<>> /\ SetList(M)
      /\ next' = IF M.t0 = t THEN timeout[t] ELSE next
      /\ UNCHANGED <<count, timeout, tick>>
  BY DEF SettimeLink, Goes
<1>2. /\ Running' = Running \cup {t} /\ BeingSet' = BeingSet \ {t} /\ t \in Clients
      /\ t \in BeingSet
  BY LinkInv DEF QueueInv
<1>3. CallInv /\ ListInv /\ "ready" \in Places /\ t \in Clients \cup {NoTimer}
  BY <1>2 DEF QueueInv, TimerInv, Places
<1>4. M.t0 \in {t, t0} /\ t0' = M.t0
  <2>1. List \in ListRecords /\ List.t0 = t0
    BY <1>3, HeadRuns DEF List
  <2> QED BY <1>1, <2>1, LinkedHead DEF SetList
<1> HIDE DEF t, M
<1>5. /\ pc[f] = "high" /\ pc'[f] = "ready"
      /\ \A g \in Fifos : g # f => pc'[g] = pc[g] /\ timer'[g] = timer[g]
  BY <1>1, <1>3, GoesIs
<1>6. next' = timeout'[t0']
  BY <1>1, <1>4 DEF QueueInv
<1>7. QueueInv'
  <2>1. \A g \in Fifos : pc'[g] = "low" =>
          pc[g] = "low" /\ timer'[g] = timer[g] /\ timeout'[timer[g]] = timeout[timer[g]]
    BY <1>1, <1>5
  <2> QED BY <1>1, <1>6, <2>1, QueueKept
<1>8. Asking' = Asking
  <2>1. "high" # "low" /\ "ready" # "low"
    OBVIOUS
  <2> QED BY <1>1, <1>3, <2>1, AskingNext
<1>9. Pending' = Pending \cup {t}
  BY <1>2, PendingIs, PendingNext DEF Clients
<1>10. Due' = Due /\ Wide(count)' = Wide(count)
  BY <1>1 DEF Due, Wide
<1>11. PICK u : u = t
  OBVIOUS
<1>12. BeingSet' = BeingSet \ {u} /\ Pending' = Pending \cup {u} /\ fired' = <<>>
  BY <1>1, <1>2, <1>9, <1>11
<1>13. Queue!TSet(u)
  BY <1>8, <1>10, <1>12 DEF Queue!TSet, Asking, Pending, Due
<1> QED BY <1>2, <1>7, <1>11, <1>13

(* Stopping timers of callers is a step of the abstract timers. *)
LEMMA CancelIs ==
  ASSUME NEW T \in SUBSET Clients, Running' = Running \ T, BeingSet' = BeingSet, Asking' = Asking,
         UNCHANGED <<count, timeout>>, fired' = <<>>
  PROVE  \E S \in SUBSET ((Timers \ {Sentinel}) \ {TaskTimer}) : Queue!TCancel(S)
<1>1. Pending' = Pending \ T
  BY PendingIs, PendingNext
<1>2. Due' = Due /\ Wide(count)' = Wide(count)
  BY DEF Due, Wide
<1>3. Queue!TCancel(T)
  BY <1>1, <1>2 DEF Queue!TCancel, Asking, Pending, Due
<1>4. T \in SUBSET ((Timers \ {Sentinel}) \ {TaskTimer})
  BY DEF Clients
<1> QED BY <1>3, <1>4

(* timer_cancel. *)
LEMMA CancelImplements ==
  ASSUME QueueInv, NEW f \in Fifos, NEW t \in Clients, TimerCancel(f, t), TimerInv'
  PROVE  /\ QueueInv'
         /\ \E S \in SUBSET ((Timers \ {Sentinel}) \ {TaskTimer}) : Queue!TCancel(S)
<1> DEFINE M == Unlinked(List, t)
<1>1. /\ SetList(M) /\ next' = IF t = t0 THEN timeout[M.t0] ELSE next
      /\ fired' = <<>> /\ UNCHANGED <<count, timeout, pc, timer, tick>>
  BY DEF TimerCancel, calls
<1>2. Running' = Running \ {t} /\ BeingSet' = BeingSet
  BY CancelInv DEF QueueInv
<1>3. t # t0 => M.t0 = t0
  <2> DEFINE k == CHOOSE k \in 1 .. MaxTimer :
                    Path(List)[k] = t /\ \A j \in 1 .. k - 1 : Path(List)[j] # t
             q == Path(List)[k - 1]
             x == List.nxt[t]
  <2>1. List.t0 = t0 /\ List = [t0 |-> List.t0, nxt |-> List.nxt]
    BY DEF List
  <2>2. t # t0 => M = [List EXCEPT !.nxt[q] = x]
    BY <2>1 DEF Unlinked
  <2> HIDE DEF q, x, M
  <2>3. [List EXCEPT !.nxt[q] = x].t0 = List.t0
    BY <2>1
  <2> QED BY <2>1, <2>2, <2>3
<1>4. t0' = M.t0
  BY <1>1 DEF SetList
<1> HIDE DEF M
<1>5. next' = timeout'[t0']
  BY <1>1, <1>3, <1>4 DEF QueueInv
<1>6. QueueInv'
  BY <1>1, <1>5, QueueKept
<1>7. Asking' = Asking
  BY <1>1 DEF Asking
<1>8. \E S \in SUBSET ((Timers \ {Sentinel}) \ {TaskTimer}) : Queue!TCancel(S)
  BY <1>1, <1>2, <1>7, CancelIs
<1> QED BY <1>6, <1>8

(* timer_cancelall. *)
LEMMA CancelallImplements ==
  ASSUME QueueInv, Undisturbed, NEW f \in Fifos, TimerCancelall(f), TimerInv'
  PROVE  /\ QueueInv'
         /\ \E S \in SUBSET ((Timers \ {Sentinel}) \ {TaskTimer}) : Queue!TCancel(S)
<1>1. PICK M : /\ SetList(M) /\ next' = IF M.t0 # t0 THEN timeout[M.t0] ELSE next
               /\ Goes(f, "ready", "ready", NoTimer) /\ Quiet(f)
               /\ UNCHANGED <<count, timeout, tick>>
  BY DEF TimerCancelall
<1>2. Running' = Running \ Taken(f) /\ BeingSet' = BeingSet
  BY CancelallInv DEF QueueInv
<1>3. CallInv /\ "ready" \in Places /\ NoTimer \in Clients \cup {NoTimer}
  BY DEF QueueInv, TimerInv, Places
<1>4. /\ pc[f] = "ready" /\ pc'[f] = "ready" /\ fired' = <<>>
      /\ \A g \in Fifos : g # f => pc'[g] = pc[g] /\ timer'[g] = timer[g]
  BY <1>1, <1>3, GoesIs
<1>5. Taken(f) \in SUBSET Clients
  BY <1>1, <1>4, TakenHeld DEF QueueInv
<1>6. next' = timeout'[t0']
  BY <1>1 DEF QueueInv, SetList
<1>7. QueueInv'
  <2>1. \A g \in Fifos : pc'[g] = "low" =>
          pc[g] = "low" /\ timer'[g] = timer[g] /\ timeout'[timer[g]] = timeout[timer[g]]
    BY <1>1, <1>4
  <2> QED BY <1>1, <1>6, <2>1, QueueKept
<1>8. Asking' = Asking
  <2>1. "ready" # "low"
    OBVIOUS
  <2> QED BY <1>1, <1>3, <2>1, AskingNext
<1>9. \E S \in SUBSET ((Timers \ {Sentinel}) \ {TaskTimer}) : Queue!TCancel(S)
  BY <1>1, <1>2, <1>4, <1>5, <1>8, CancelIs
<1> QED BY <1>7, <1>9

(* timer_alloc, timer_init and timer_free of a timer that does not run. *)
LEMMA OthersImplement ==
  ASSUME QueueInv, NEW f \in Fifos, TimerInv', Running' = Running, BeingSet' = BeingSet,
         NEW p \in {"ready", "found", "fresh"}, NEW q \in {"ready", "found", "fresh"},
         NEW t \in Clients, Goes(f, p, q, t),
         UNCHANGED <<count, next, t0, timeout, tick>>
  PROVE  QueueInv' /\ Queue!TOther
<1>1. CallInv /\ q \in Places /\ t \in Clients \cup {NoTimer} /\ p # "low" /\ q # "low"
  BY DEF QueueInv, TimerInv, Places
<1>2. /\ pc'[f] = q /\ fired' = <<>>
      /\ \A g \in Fifos : g # f => pc'[g] = pc[g] /\ timer'[g] = timer[g]
  BY <1>1, GoesIs
<1>3. QueueInv'
  <2>1. \A g \in Fifos : pc'[g] = "low" =>
          pc[g] = "low" /\ timer'[g] = timer[g] /\ timeout'[timer[g]] = timeout[timer[g]]
    BY <1>1, <1>2
  <2>2. next' = timeout'[t0']
    BY DEF QueueInv
  <2> QED BY <2>1, <2>2, QueueKept
<1>4. Asking' = Asking
  BY <1>1, AskingNext
<1>5. Pending' = Pending /\ Due' = Due /\ Wide(count)' = Wide(count)
  BY PendingIs, PendingNext DEF Due, Wide
<1>6. Queue!TOther
  BY <1>2, <1>4, <1>5 DEF Queue!TOther, Asking, Pending, Due
<1> QED BY <1>3, <1>6

LEMMA PoolImplements ==
  ASSUME QueueInv, Careful, Undisturbed, NEW f \in Fifos, TimerInv',
         \/ \E auto \in BOOLEAN : TimerAlloc(f, auto)
         \/ \E t \in Clients : TimerFound(f, t) \/ TimerInit(f, t) \/ TimerFree(f, t)
  PROVE  QueueInv' /\ Queue!TOther
<1>1. TimerInv
  BY DEF QueueInv
<1>2. ASSUME NEW auto \in BOOLEAN, TimerAlloc(f, auto)
      PROVE  QueueInv' /\ Queue!TOther
  <2>1. Running' = Running /\ BeingSet' = BeingSet /\ timer[f] \in Clients
    BY <1>1, <1>2, AllocInv
  <2>2. Goes(f, "found", "fresh", timer[f]) /\ UNCHANGED <<count, next, t0, timeout, tick>>
    BY <1>2 DEF TimerAlloc
  <2> QED BY <2>1, <2>2, OthersImplement
<1>3. ASSUME NEW t \in Clients, TimerFound(f, t)
      PROVE  QueueInv' /\ Queue!TOther
  <2>1. Running' = Running /\ BeingSet' = BeingSet
    BY <1>1, <1>3, FoundInv
  <2>2. Goes(f, "ready", "found", t) /\ UNCHANGED <<count, next, t0, timeout, tick>>
    BY <1>3 DEF TimerFound
  <2> QED BY <2>1, <2>2, OthersImplement
<1>4. ASSUME NEW t \in Clients, TimerInit(f, t)
      PROVE  QueueInv' /\ Queue!TOther
  <2>1. Running' = Running /\ BeingSet' = BeingSet
    BY <1>1, <1>4, InitTimerInv
  <2>2. /\ \E p \in {"fresh", "ready"} : Goes(f, p, "ready", t)
        /\ UNCHANGED <<count, next, t0, timeout, tick>>
    BY <1>4 DEF TimerInit
  <2>3. PICK p \in {"fresh", "ready"} : Goes(f, p, "ready", t)
    BY <2>2
  <2> QED BY <2>1, <2>2, <2>3, OthersImplement
<1>5. ASSUME NEW t \in Clients, TimerFree(f, t)
      PROVE  QueueInv' /\ Queue!TOther
  <2>1. Running' = Running /\ BeingSet' = BeingSet
    BY <1>1, <1>5, FreeInv
  <2>2. Goes(f, "ready", "ready", t) /\ UNCHANGED <<count, next, t0, timeout, tick>>
    BY <1>5 DEF TimerFree
  <2> QED BY <2>1, <2>2, OthersImplement
<1> QED BY <1>2, <1>3, <1>4, <1>5
-----------------------------------------------------------------------------
(* The timers keep the invariant of their implementation, and start in the
   abstract timers' initial state. *)
LEMMA InitImplements ==
  ASSUME Init
  PROVE  QueueInv /\ Queue!TInit
<1>1. TimerInv
  BY InitInv
<1>2. Wide(count) = 0
  BY DEF Init, Wide
<1>3. Sentinel \in Timers /\ TaskTimer \in Timers /\ Sentinel # TaskTimer
  BY DEF Sentinel, TaskTimer, Timers
<1>4. BeingSet = {} /\ Asking = {}
  BY DEF Init, BeingSet, Asking
<1>5. Pending = {TaskTimer}
  BY <1>3, <1>4 DEF Init, Pending, FLAGS_USING, FLAGS_FREE
<1>6. timeout[TaskTimer] = <<0, Slice>> /\ next = <<0, Slice>> /\ t0 = TaskTimer
  BY <1>3 DEF Init
<1>7. 0 <= MaxTime
  <2>1. Word * (Word - 1) - 1 \in Int
    OBVIOUS
  <2> QED BY <2>1
<1>8. QueueInv
  <2>1. tick \in [Fifos -> Int] /\ \A f \in Fifos : pc[f] # "low"
    BY DEF Init
  <2> QED BY <1>1, <1>2, <1>6, <1>7, <2>1 DEF QueueInv
<1>9. Due \in [Timers \ {Sentinel} -> Int]
  <2>1. \A u \in Timers : Wide(timeout[u]) \in Int
    BY <1>1, WideOrder DEF TimerInv, ListInv, Times
  <2> QED BY <2>1 DEF Due
<1>10. fired = <<>>
  BY DEF Init
<1>11. Queue!TInit
  BY <1>2, <1>4, <1>5, <1>9, <1>10 DEF Queue!TInit, Asking, Pending, Due
<1> QED BY <1>8, <1>11

(* The list of TIMER.C implements timers with absolute times, whatever the
   pool, the words and the waits: each goes off at the first tick at or after
   its due time, in order, once, and never after it was cancelled, where the
   due time is fixed as timer_settime reads the counter, and the timer is
   pending only when the call is over.  No caller sets or frees a timer that
   runs, and no call of timer_alloc meets another one that took the same
   timer. *)
THEOREM TimerImplements == ASSUME Careful, Undisturbed PROVE Spec => TimerSpec
<1>1. Init => QueueInv /\ Queue!TInit
  BY InitImplements
<1>2. QueueInv /\ TimerInv' /\ [Next]_vars => QueueInv' /\ [Queue!TNext]_(Queue!tvars)
  <2> SUFFICES ASSUME QueueInv, TimerInv', [Next]_vars
               PROVE  QueueInv' /\ [Queue!TNext]_(Queue!tvars)
    OBVIOUS
  <2>1. CASE Wide(count) < MaxTime /\ (TickEarly \/ Tick) /\ UNCHANGED calls
    BY <2>1, EarlyImplements, TickImplements DEF Queue!TNext
  <2>2. ASSUME NEW f \in Fifos,
               \/ \E auto \in BOOLEAN : TimerAlloc(f, auto)
               \/ \E t \in Clients : TimerFound(f, t) \/ TimerInit(f, t) \/ TimerFree(f, t)
        PROVE  QueueInv' /\ Queue!TNext
    BY <2>2, PoolImplements DEF Queue!TNext
  <2>3. ASSUME NEW f \in Fifos, NEW t \in Clients, NEW d \in Timeouts, SettimeLow(f, t, d)
        PROVE  QueueInv' /\ Queue!TNext
    <3>1. t \in (Timers \ {Sentinel}) \ {TaskTimer}
      BY DEF Clients
    <3>2. QueueInv' /\ Queue!TAsk(t, d)
      BY <2>3, LowImplements
    <3> QED BY <3>1, <3>2 DEF Queue!TNext
  <2>4. ASSUME NEW f \in Fifos, SettimeHigh(f)
        PROVE  QueueInv' /\ Queue!TNext
    BY <2>4, HighImplements DEF Queue!TNext, Asking
  <2>5. ASSUME NEW f \in Fifos, SettimeLink(f)
        PROVE  QueueInv' /\ Queue!TNext
    BY <2>5, LinkImplements DEF Queue!TNext
  <2>6. ASSUME NEW f \in Fifos, TimerCancelall(f) \/ \E t \in Clients : TimerCancel(f, t)
        PROVE  QueueInv' /\ Queue!TNext
    BY <2>6, CancelImplements, CancelallImplements DEF Queue!TNext
  <2>7. CASE UNCHANGED vars
    <3>1. UNCHANGED <<count, next, t0, timeout, flags, fired, pc, timer, tick>>
      BY <2>7 DEF vars, tables, calls
    <3>2. UNCHANGED <<Asking, BeingSet, Pending, Due>> /\ Wide(count)' = Wide(count)
      BY <3>1 DEF Asking, BeingSet, Pending, Due, Wide
    <3>3. QueueInv'
      <4>1. next' = timeout'[t0']
        BY <3>1 DEF QueueInv
      <4> QED BY <3>1, <4>1, QueueKept
    <3>4. UNCHANGED Queue!tvars
      BY <3>1, <3>2 DEF Queue!tvars, Asking, Pending, Due
    <3> QED BY <3>3, <3>4
  <2> QED BY <2>1, <2>2, <2>3, <2>4, <2>5, <2>6, <2>7 DEF Next
<1> QED BY <1>1, <1>2, TimerInductive, PTL DEF Spec, TimerSpec, Queue!TSpec
=============================================================================
