----------------------------- MODULE CacheProofs -----------------------------
(***************************************************************************)
(* Proofs about the block cache, for every size of the disk, the blocks,   *)
(* the cache and the table of requests: the table of blocks stays sorted,  *)
(* no write is lost, clean blocks hold what the disk holds, and every read *)
(* gets what was written before it.                                        *)
(***************************************************************************)
EXTENDS Cache, FiniteSetTheorems, SequenceTheorems, TLAPS

USE CacheAssumption

Loadeds == {ACTIVE, DIRTY}

\* What unit u holds when the buffers b of the loaded blocks go before disk d.
Seen(d, v, l, b, u) ==
  LET S == {s \in Slots : v[s] \in Loadeds /\ l[s] = LbaOf(u)}
  IN  IF S = {} THEN d[u] ELSE b[First(S)][OffsetOf(u)]

ViewOf(d, v, l, b) == [u \in Units |-> Seen(d, v, l, b, u)]

\* No block of the disk is cached in two slots.
Unique(v, l) ==
  \A s, t \in Slots : v[s] # IDLE /\ v[t] # IDLE /\ l[s] = l[t] => s = t

Clean(d, v, l, b) ==
  \A s \in Slots : v[s] = ACTIVE =>
    \A o \in Offsets : b[s][o] = d[UnitAt(l[s], o)]

Buffers == [Slots -> [Offsets -> Values]]

\* The disk and the blocks.
Blocked(d, v, l, b) ==
  /\ d \in [Units -> Values] /\ v \in [Slots -> 0 .. 3]
  /\ l \in [Slots -> Lbas] /\ b \in Buffers
  /\ Unique(v, l) /\ Clean(d, v, l, b)

Asks == [slot : Slots, op : {"read", "write"}, offset : Units, size : Nat,
         data : UNION {[D -> Values] : D \in SUBSET Units}]

\* Request r is for a block that is not read yet.
Asked(v, l, r) ==
  /\ v[r.slot] = ENABLE /\ l[r.slot] = LbaOf(r.offset)
  /\ \A u \in DOMAIN r.data : LbaOf(u) = LbaOf(r.offset)

\* The writes to unit u among the first n requests of q.
Writers(q, n, u) == {i \in 1 .. n : q[i].op = "write" /\ u \in DOMAIN q[i].data}

\* What unit u holds after the first n requests of q, if it held V[u].
Upto(V, q, n, u) ==
  IF Writers(q, n, u) = {} THEN V[u] ELSE q[Last(Writers(q, n, u))].data[u]

\* The requests q, on blocks v of the disk blocks l, whose units hold V, make
\* of V what the callers wrote, c, and each read meets what it must.
Open(V, v, l, q, c) ==
  /\ q \in Seq(Asks)
  /\ \A i \in 1 .. Len(q) :
       /\ Asked(v, l, q[i])
       /\ q[i].op = "read" =>
            \A u \in DOMAIN q[i].data : q[i].data[u] = Upto(V, q, i - 1, u)
  /\ \A u \in Units : Upto(V, q, Len(q), u) = c[u]

\* The table p of the used slots.
Table(v, l, p) ==
  /\ p \in Seq(Slots) /\ Len(p) <= MaxCaches
  /\ \A s \in Slots : v[s] # IDLE <=> s < Len(p)
  /\ {p[i] : i \in 1 .. Len(p)} = 0 .. Len(p) - 1
  /\ \A i, j \in 1 .. Len(p) : i < j => l[p[i]] < l[p[j]]

CallOK ==
  /\ call \in [op : {"none", "read", "write"}, offset : Nat, size : Nat, data : Values]
  /\ call.size > 0 => /\ call.op \in {"read", "write"}
                      /\ call.offset + call.size <= Blocks * CacheSize
  /\ writes \in 0 .. MaxWrites /\ content \in [Units -> Values]

\* The inductive invariant.  BlockTable and NothingLost speak of the table and
\* of the state between batches; that the requests, served in order, lead to
\* what the callers wrote is what Miss, Sync and the hits need.
IInv ==
  /\ CallOK
  /\ Blocked(disk, valid, lba, buffer)
  /\ Table(valid, lba, point)
  /\ ~misread
  /\ failed = "no" => Open(ViewOf(disk, valid, lba, buffer), valid, lba, requests, content)
  /\ failed # "no" => requests # <<>>

-----------------------------------------------------------------------------
(* Units, blocks and places in a block. *)
LEMMA UnitParts ==
  ASSUME NEW u \in Units
  PROVE  /\ LbaOf(u) \in Lbas /\ OffsetOf(u) \in Offsets
         /\ UnitAt(LbaOf(u), OffsetOf(u)) = u
<1> DEFINE l == u \div CacheSize
           o == u % CacheSize
<1>1. l \in Int /\ o \in 0 .. CacheSize - 1 /\ u = CacheSize * l + o
  BY DEF Units
<1> HIDE DEF l, o
<1>2. l >= 0 /\ l < Blocks
  <2>1. CASE l < 0
    <3>1. -l \in Nat /\ -l >= 1
      BY <1>1, <2>1
    <3>2. CacheSize * (-l) >= CacheSize
      BY <3>1
    <3>3. CacheSize * l = -(CacheSize * (-l))
      BY <1>1
    <3> QED BY <1>1, <3>2, <3>3 DEF Units
  <2>2. CASE l >= Blocks
    <3>1. l - Blocks \in Nat
      BY <1>1, <2>2
    <3>2. CacheSize * (l - Blocks) \in Nat
      BY <3>1
    <3>3. CacheSize * (l - Blocks) = CacheSize * l - Blocks * CacheSize
      BY <1>1
    <3> QED BY <1>1, <3>2, <3>3 DEF Units
  <2> QED BY <1>1, <2>1, <2>2
<1> QED BY <1>1, <1>2 DEF l, o, Lbas, Offsets, LbaOf, OffsetOf, UnitAt

LEMMA PartsUnit ==
  ASSUME NEW l \in Lbas, NEW o \in Offsets
  PROVE  /\ UnitAt(l, o) \in Units
         /\ LbaOf(UnitAt(l, o)) = l /\ OffsetOf(UnitAt(l, o)) = o
<1> DEFINE u == l * CacheSize + o
<1>1. l \in Nat /\ l + 1 <= Blocks /\ o \in Nat /\ o < CacheSize
  BY DEF Lbas, Offsets
<1>2. u \in Nat /\ u < (l + 1) * CacheSize /\ (l + 1) * CacheSize <= Blocks * CacheSize
  <2>1. (l + 1) * CacheSize = l * CacheSize + CacheSize
    BY <1>1
  <2>2. l * CacheSize \in Nat /\ (l + 1) * CacheSize <= Blocks * CacheSize
    BY <1>1
  <2> QED BY <1>1, <2>1, <2>2
<1>3. u \in Units
  BY <1>1, <1>2 DEF Units
<1>4. UnitAt(LbaOf(u), OffsetOf(u)) = u /\ LbaOf(u) \in Lbas /\ OffsetOf(u) \in Offsets
  BY <1>3, UnitParts
<1> DEFINE m == LbaOf(u)
           p == OffsetOf(u)
<1>5. m * CacheSize + p = l * CacheSize + o /\ m \in Nat /\ p \in Nat /\ p < CacheSize
  BY <1>4 DEF UnitAt, Lbas, Offsets
<1>6. m = l
  <2> HIDE DEF u, m, p
  <2>1. CASE m < l
    <3>1. (l - m) * CacheSize = p - o /\ l - m >= 1
      BY <1>1, <1>5, <2>1
    <3>2. (l - m) * CacheSize >= CacheSize
      BY <1>1, <1>5, <2>1
    <3> QED BY <1>1, <1>5, <3>1, <3>2
  <2>2. CASE m > l
    <3>1. (m - l) * CacheSize = o - p /\ m - l >= 1
      BY <1>1, <1>5, <2>2
    <3>2. (m - l) * CacheSize >= CacheSize
      BY <1>1, <1>5, <2>2
    <3> QED BY <1>1, <1>5, <3>1, <3>2
  <2> QED BY <1>1, <1>5, <2>1, <2>2
<1>7. p = o
  BY <1>1, <1>5, <1>6
<1> QED BY <1>3, <1>6, <1>7 DEF UnitAt
(* A set of numbers up to n has a smallest one. *)
LEMMA Least ==
  ASSUME NEW n \in Nat, NEW T \in SUBSET (0 .. n), T # {}
  PROVE  \E x \in T : \A y \in T : x <= y
<1> DEFINE D == {0 .. l - 1 : l \in T}
<1>1. T \subseteq Nat
  OBVIOUS
<1>2. D \subseteq FiniteSubsetsOf(Nat) /\ D # {}
  <2>1. ASSUME NEW l \in T
        PROVE  0 .. l - 1 \in FiniteSubsetsOf(Nat)
    <3>1. l \in Int /\ l - 1 \in Int /\ 0 .. l - 1 \in SUBSET Nat
      BY <1>1
    <3>2. IsFiniteSet(0 .. l - 1)
      BY <3>1, FS_Interval
    <3> QED BY <3>1, <3>2 DEF FiniteSubsetsOf
  <2>2. D # {}
    OBVIOUS
  <2> QED BY <2>1, <2>2
<1>3. PICK B \in D : \A C \in D : ~ (<<C, B>> \in StrictSubsetOrdering(Nat))
  BY <1>2, FS_StrictSubsetOrderingWellFounded, WFMin
<1>4. PICK x \in T : B = 0 .. x - 1
  OBVIOUS
<1>5. ASSUME NEW y \in T
      PROVE  ~ (y < x)
  <2>1. 0 .. y - 1 \in D
    OBVIOUS
  <2>2. ~ (0 .. y - 1 \subseteq 0 .. x - 1 /\ 0 .. y - 1 # 0 .. x - 1)
    <3>1. 0 .. y - 1 \in SUBSET Nat /\ 0 .. x - 1 \in SUBSET Nat
      BY <1>1
    <3>2. <<0 .. y - 1, 0 .. x - 1>> \notin StrictSubsetOrdering(Nat)
      BY <1>3, <1>4, <2>1
    <3> QED BY <3>1, <3>2 DEF StrictSubsetOrdering
  <2>3. CASE y < x
    <3>1. y \in 0 .. x - 1 /\ y \notin 0 .. y - 1
      BY <1>1, <2>3
    <3>2. 0 .. y - 1 \subseteq 0 .. x - 1
      BY <1>1, <2>3
    <3> QED BY <2>2, <3>1, <3>2
  <2> QED BY <2>3
<1>6. \A y \in T : x <= y
  BY <1>1, <1>5
<1> QED BY <1>6

(* The same for the largest. *)
LEMMA Greatest ==
  ASSUME NEW n \in Nat, NEW T \in SUBSET (0 .. n), T # {}
  PROVE  \E x \in T : \A y \in T : y <= x
<1> DEFINE D == {n - y : y \in T}
<1>1. D \in SUBSET (0 .. n) /\ D # {}
  <2>1. ASSUME NEW y \in T
        PROVE  n - y \in 0 .. n
    OBVIOUS
  <2>2. D # {}
    OBVIOUS
  <2> QED BY <2>1, <2>2
<1>2. PICK z \in D : \A y \in D : z <= y
  BY <1>1, Least
<1>3. PICK x \in T : z = n - x
  OBVIOUS
<1>4. ASSUME NEW y \in T
      PROVE  y <= x
  <2>1. n - y \in D
    OBVIOUS
  <2> QED BY <1>2, <1>3, <2>1
<1> QED BY <1>4

LEMMA FirstIn ==
  ASSUME NEW n \in Nat, NEW T \in SUBSET (0 .. n), T # {}
  PROVE  First(T) \in T /\ \A y \in T : First(T) <= y
BY Least DEF First

LEMMA LastIn ==
  ASSUME NEW n \in Nat, NEW T \in SUBSET (0 .. n), T # {}
  PROVE  Last(T) \in T /\ \A y \in T : y <= Last(T)
BY Greatest DEF Last

(* A function on 1 .. n is a sequence of n elements. *)
LEMMA AsSeq ==
  ASSUME NEW S, NEW n \in Nat, NEW f \in [1 .. n -> S]
  PROVE  f \in Seq(S) /\ Len(f) = n
<1>1. f \in Seq(S)
  BY SeqDef
<1>2. Len(f) \in Nat /\ 1 .. Len(f) = 1 .. n
  BY <1>1, LenProperties
<1>3. Len(f) = n
  <2>1. CASE Len(f) < n
    BY <1>2, <2>1
  <2>2. CASE Len(f) > n
    <3>1. Len(f) \in 1 .. Len(f) /\ Len(f) \notin 1 .. n
      BY <1>2, <2>2
    <3> QED BY <1>2, <3>1
  <2> QED BY <1>2, <2>1, <2>2
<1> QED BY <1>1, <1>3

-----------------------------------------------------------------------------
(* Slots are 0 .. MaxCaches - 1; a single one is the first of its set. *)
LEMMA FirstOne ==
  ASSUME NEW s \in Slots
  PROVE  First({s}) = s
BY DEF First, Slots

(* What a unit holds, if its block is loaded, and if it is not. *)
LEMMA SeenLoaded ==
  ASSUME NEW d, NEW v, NEW l, NEW b, Unique(v, l),
         NEW u \in Units, NEW s \in Slots, v[s] \in Loadeds, l[s] = LbaOf(u)
  PROVE  Seen(d, v, l, b, u) = b[s][OffsetOf(u)]
<1> DEFINE S == {t \in Slots : v[t] \in Loadeds /\ l[t] = LbaOf(u)}
<1>1. ASSUME NEW t \in S
      PROVE  t = s
  BY DEF Unique, Loadeds, IDLE, ACTIVE, DIRTY
<1>2. S = {s}
  BY <1>1
<1> QED BY <1>2, FirstOne DEF Seen

LEMMA SeenUnloaded ==
  ASSUME NEW d, NEW v, NEW l, NEW b, NEW u \in Units,
         \A s \in Slots : ~ (v[s] \in Loadeds /\ l[s] = LbaOf(u))
  PROVE  Seen(d, v, l, b, u) = d[u]
BY DEF Seen

(* The units hold values. *)
LEMMA ViewType ==
  ASSUME NEW d, NEW v, NEW l, NEW b, Blocked(d, v, l, b)
  PROVE  ViewOf(d, v, l, b) \in [Units -> Values]
<1> SUFFICES ASSUME NEW u \in Units
             PROVE  Seen(d, v, l, b, u) \in Values
  BY DEF ViewOf
<1>1. CASE \E s \in Slots : v[s] \in Loadeds /\ l[s] = LbaOf(u)
  <2>1. PICK s \in Slots : v[s] \in Loadeds /\ l[s] = LbaOf(u)
    BY <1>1
  <2>2. Seen(d, v, l, b, u) = b[s][OffsetOf(u)]
    BY <2>1, SeenLoaded DEF Blocked
  <2>3. OffsetOf(u) \in Offsets
    BY UnitParts
  <2> QED BY <2>2, <2>3 DEF Blocked, Buffers
<1>2. CASE \A s \in Slots : ~ (v[s] \in Loadeds /\ l[s] = LbaOf(u))
  BY <1>2, SeenUnloaded DEF Blocked
<1> QED BY <1>1, <1>2

(* The data of a request are values of units. *)
LEMMA DataOf ==
  ASSUME NEW r \in Asks
  PROVE  /\ r.slot \in Slots /\ DOMAIN r.data \subseteq Units
         /\ \A u \in DOMAIN r.data : r.data[u] \in Values
BY DEF Asks

(* The value of a unit after n requests is that of one of the writes to it. *)
LEMMA UptoIs ==
  ASSUME NEW V, NEW q, NEW n \in Nat, NEW u, Writers(q, n, u) # {}
  PROVE  /\ Last(Writers(q, n, u)) \in Writers(q, n, u)
         /\ \A i \in Writers(q, n, u) : i <= Last(Writers(q, n, u))
         /\ Upto(V, q, n, u) = q[Last(Writers(q, n, u))].data[u]
<1>1. Writers(q, n, u) \in SUBSET (0 .. n)
  BY DEF Writers
<1> QED BY <1>1, LastIn DEF Upto
-----------------------------------------------------------------------------
(* A request at the end of the table: the earlier ones meet what they met,
   and the units hold what it writes. *)
LEMMA OpenAppend ==
  ASSUME NEW V, NEW v, NEW l, NEW q, NEW c, NEW c2, NEW r \in Asks,
         Open(V, v, l, q, c), Asked(v, l, r),
         r.op = "read" => \A u \in DOMAIN r.data : r.data[u] = c[u],
         \A u \in Units : c2[u] = IF r.op = "write" /\ u \in DOMAIN r.data
                                  THEN r.data[u] ELSE c[u]
  PROVE  Open(V, v, l, Append(q, r), c2)
<1> DEFINE q2 == Append(q, r)
           n == Len(q)
<1>1. /\ q \in Seq(Asks) /\ q2 \in Seq(Asks) /\ n \in Nat /\ Len(q2) = n + 1
      /\ \A i \in 1 .. n : q2[i] = q[i]
      /\ q2[n + 1] = r
  BY DEF Open
<1> HIDE DEF q2, n
<1>2. ASSUME NEW m \in 0 .. n, NEW u
      PROVE  /\ Writers(q2, m, u) = Writers(q, m, u)
             /\ Upto(V, q2, m, u) = Upto(V, q, m, u)
  <2>1. \A i \in 1 .. m : q2[i] = q[i]
    BY <1>1
  <2>2. Writers(q2, m, u) = Writers(q, m, u)
    BY <2>1 DEF Writers
  <2>3. CASE Writers(q, m, u) = {}
    BY <2>2, <2>3 DEF Upto
  <2>4. CASE Writers(q, m, u) # {}
    <3>1. m \in Nat
      BY <1>1
    <3>2. Last(Writers(q, m, u)) \in Writers(q, m, u)
      BY <2>4, <3>1, UptoIs
    <3>3. Last(Writers(q, m, u)) \in 1 .. m
      BY <3>2 DEF Writers
    <3> QED BY <2>1, <2>2, <2>4, <3>3 DEF Upto
  <2> QED BY <2>2, <2>3, <2>4
<1>3. ASSUME NEW u \in Units
      PROVE  Upto(V, q2, n + 1, u) = c2[u]
  <2>1. CASE r.op = "write" /\ u \in DOMAIN r.data
    <3>1. n + 1 \in Writers(q2, n + 1, u)
      BY <1>1, <2>1 DEF Writers
    <3>2. /\ Last(Writers(q2, n + 1, u)) \in Writers(q2, n + 1, u)
          /\ n + 1 <= Last(Writers(q2, n + 1, u))
          /\ Upto(V, q2, n + 1, u) = q2[Last(Writers(q2, n + 1, u))].data[u]
      BY <1>1, <3>1, UptoIs
    <3>3. Last(Writers(q2, n + 1, u)) \in 1 .. n + 1
      BY <3>2 DEF Writers
    <3>4. Last(Writers(q2, n + 1, u)) = n + 1
      BY <1>1, <3>2, <3>3
    <3> QED BY <1>1, <2>1, <3>2, <3>4
  <2>2. CASE ~ (r.op = "write" /\ u \in DOMAIN r.data)
    <3>1. Writers(q2, n + 1, u) = Writers(q2, n, u)
      <4>1. n + 1 \notin Writers(q2, n + 1, u)
        BY <1>1, <2>2 DEF Writers
      <4>2. 1 .. n + 1 = (1 .. n) \cup {n + 1}
        BY <1>1
      <4> QED BY <4>1, <4>2 DEF Writers
    <3>2. Upto(V, q2, n + 1, u) = Upto(V, q2, n, u)
      BY <3>1 DEF Upto
    <3>3. Upto(V, q2, n, u) = Upto(V, q, n, u)
      BY <1>1, <1>2
    <3>4. Upto(V, q, n, u) = c[u]
      BY DEF Open, n
    <3> QED BY <2>2, <3>2, <3>3, <3>4
  <2> QED BY <2>1, <2>2
<1>4. ASSUME NEW i \in 1 .. n + 1
      PROVE  /\ Asked(v, l, q2[i])
             /\ q2[i].op = "read" =>
                  \A u \in DOMAIN q2[i].data : q2[i].data[u] = Upto(V, q2, i - 1, u)
  <2>1. CASE i \in 1 .. n
    <3>1. q2[i] = q[i] /\ i - 1 \in 0 .. n
      BY <1>1, <2>1
    <3>2. /\ Asked(v, l, q[i])
          /\ q[i].op = "read" =>
               \A u \in DOMAIN q[i].data : q[i].data[u] = Upto(V, q, i - 1, u)
      BY <2>1 DEF Open, n
    <3>3. \A u : Upto(V, q2, i - 1, u) = Upto(V, q, i - 1, u)
      BY <1>2, <3>1
    <3> QED BY <3>1, <3>2, <3>3
  <2>2. CASE i = n + 1
    <3>1. q2[i] = r /\ i - 1 = n
      BY <1>1, <2>2
    <3>2. \A u \in Units : Upto(V, q2, n, u) = c[u]
      <4>1. \A u \in Units : Upto(V, q, n, u) = c[u]
        BY DEF Open, n
      <4> QED BY <1>1, <1>2, <4>1
    <3>3. DOMAIN r.data \subseteq Units
      BY DataOf
    <3> QED BY <3>1, <3>2, <3>3
  <2> QED BY <1>1, <2>1, <2>2
<1>5. Open(V, v, l, q2, c2)
  BY <1>1, <1>3, <1>4 DEF Open
<1> QED BY <1>5 DEF q2

(* What no request is about may change, as long as the blocks that are not
   read yet stay. *)
LEMMA OpenKept ==
  ASSUME NEW V, NEW v, NEW l, NEW q, NEW c, NEW W, NEW w, NEW k, NEW c2,
         Open(V, v, l, q, c),
         \A s \in Slots : v[s] = ENABLE => w[s] = ENABLE /\ k[s] = l[s],
         \A u \in Units :
           \/ W[u] = V[u] /\ c2[u] = c[u]
           \/ W[u] = c2[u] /\ \A i \in 1 .. Len(q) : u \notin DOMAIN q[i].data
  PROVE  Open(W, w, k, q, c2)
<1> DEFINE n == Len(q)
<1>1. q \in Seq(Asks) /\ n \in Nat /\ \A i \in 1 .. n : q[i] \in Asks
  BY DEF Open
<1> HIDE DEF n
<1>2. ASSUME NEW i \in 1 .. n
      PROVE  Asked(w, k, q[i])
  <2>1. Asked(v, l, q[i]) /\ q[i].slot \in Slots
    BY <1>1, DataOf DEF Open, n
  <2> QED BY <2>1 DEF Asked
<1>3. ASSUME NEW m \in 0 .. n, NEW u \in Units, W[u] = V[u]
      PROVE  Upto(W, q, m, u) = Upto(V, q, m, u)
  BY <1>3 DEF Upto
<1>4. ASSUME NEW u \in Units
      PROVE  Upto(W, q, n, u) = c2[u]
  <2>1. Upto(V, q, n, u) = c[u]
    BY DEF Open, n
  <2>2. CASE W[u] = V[u] /\ c2[u] = c[u]
    BY <1>1, <1>3, <2>1, <2>2
  <2>3. CASE W[u] = c2[u] /\ \A i \in 1 .. n : u \notin DOMAIN q[i].data
    <3>1. Writers(q, n, u) = {}
      BY <2>3 DEF Writers
    <3> QED BY <2>3, <3>1 DEF Upto
  <2> QED BY <2>2, <2>3 DEF n
<1>5. ASSUME NEW i \in 1 .. n, q[i].op = "read", NEW u \in DOMAIN q[i].data
      PROVE  q[i].data[u] = Upto(W, q, i - 1, u)
  <2>1. u \in Units /\ i - 1 \in 0 .. n
    BY <1>1, DataOf
  <2>2. W[u] = V[u]
    BY <2>1 DEF n
  <2>3. q[i].data[u] = Upto(V, q, i - 1, u)
    BY <1>5 DEF Open, n
  <2> QED BY <1>3, <2>1, <2>2, <2>3
<1> QED BY <1>1, <1>2, <1>4, <1>5 DEF Open, n

(* With no request open the units hold what was written. *)
LEMMA OpenNone ==
  ASSUME NEW V, NEW v, NEW l, NEW c
  PROVE  Open(V, v, l, <<>>, c) <=> \A u \in Units : V[u] = c[u]
<1>1. <<>> \in Seq(Asks) /\ Len(<<>>) = 0
  OBVIOUS
<1>2. ASSUME NEW u
      PROVE  Upto(V, <<>>, 0, u) = V[u]
  <2>1. Writers(<<>>, 0, u) = {}
    BY DEF Writers
  <2> QED BY <2>1 DEF Upto
<1> QED BY <1>1, <1>2 DEF Open
-----------------------------------------------------------------------------
(* The disk block of a slot that is not read yet: its units hold what the
   disk holds. *)
LEMMA SeenEnabled ==
  ASSUME NEW d, NEW v, NEW l, NEW b, Blocked(d, v, l, b),
         NEW s \in Slots, v[s] = ENABLE, NEW o \in Offsets
  PROVE  ViewOf(d, v, l, b)[UnitAt(l[s], o)] = d[UnitAt(l[s], o)]
<1> DEFINE u == UnitAt(l[s], o)
<1>1. u \in Units /\ LbaOf(u) = l[s]
  BY PartsUnit DEF Blocked
<1>2. ASSUME NEW t \in Slots, v[t] \in Loadeds, l[t] = LbaOf(u)
      PROVE  FALSE
  BY <1>1, <1>2 DEF Blocked, Unique, Loadeds, IDLE, ENABLE, ACTIVE, DIRTY
<1> HIDE DEF u
<1>3. Seen(d, v, l, b, u) = d[u]
  BY <1>1, <1>2, SeenUnloaded
<1> QED BY <1>1, <1>3 DEF u, ViewOf

(* The buffers after the first m requests, slot by slot. *)
LEMMA AfterIs ==
  ASSUME NEW v, NEW l, NEW b, NEW q, NEW c,
         Blocked(disk, v, l, b), Open(ViewOf(disk, v, l, b), v, l, q, c),
         NEW m \in 0 .. Len(q), NEW s \in Slots, NEW o \in Offsets
  PROVE  After(Loaded(v, b, l), q, m)[s][o]
           = IF v[s] = ENABLE THEN Upto(ViewOf(disk, v, l, b), q, m, UnitAt(l[s], o))
             ELSE b[s][o]
<1> DEFINE V == ViewOf(disk, v, l, b)
           L == Loaded(v, b, l)
           u == UnitAt(l[s], o)
<1>1. /\ Len(q) \in Nat
      /\ \A i \in 1 .. m : q[i] \in Asks /\ q[i].slot \in Slots /\ Asked(v, l, q[i])
  <2>1. q \in Seq(Asks) /\ Len(q) \in Nat
    BY DEF Open
  <2>2. ASSUME NEW i \in 1 .. m
        PROVE  q[i] \in Asks /\ q[i].slot \in Slots /\ Asked(v, l, q[i])
    <3>1. i \in 1 .. Len(q)
      BY <2>1
    <3>2. q[i] \in Asks
      BY <2>1, <3>1
    <3> QED BY <3>1, <3>2, DataOf DEF Open
  <2> QED BY <2>1, <2>2
<1>2. u \in Units /\ LbaOf(u) = l[s] /\ OffsetOf(u) = o
  BY PartsUnit DEF Blocked
<1> DEFINE W == WritesTo(q, m, s, o)
<1>3. After(L, q, m)[s][o] = IF W = {} THEN L[s][o] ELSE q[Last(W)].data[UnitOf(q[Last(W)], o)]
  BY DEF After
<1> HIDE DEF V, L, u
<1>4. ASSUME NEW i \in 1 .. m, q[i].slot = s
      PROVE  UnitOf(q[i], o) = u /\ v[s] = ENABLE
  BY <1>1, <1>4 DEF UnitOf, Asked, u
<1>5. CASE v[s] = ENABLE
  <2>1. ASSUME NEW i \in 1 .. m, u \in DOMAIN q[i].data
        PROVE  q[i].slot = s
    <3>1. l[q[i].slot] = l[s] /\ v[q[i].slot] = ENABLE /\ q[i].slot \in Slots
      BY <1>1, <1>2, <2>1 DEF Asked
    <3> QED BY <1>5, <3>1 DEF Blocked, Unique, IDLE, ENABLE
  <2>2. W = Writers(q, m, u)
    BY <1>4, <2>1 DEF WritesTo, Writers
  <2>3. L[s][o] = V[u]
    <3>1. L[s][o] = disk[UnitAt(l[s], o)]
      BY <1>5 DEF L, Loaded
    <3> QED BY <1>5, <3>1, SeenEnabled DEF V, u
  <2>4. CASE W = {}
    BY <1>3, <1>5, <2>2, <2>3, <2>4 DEF Upto, V, L, u
  <2>5. CASE W # {}
    <3>1. m \in Nat
      BY <1>1
    <3>2. Last(W) \in Writers(q, m, u)
      BY <2>2, <2>5, <3>1, UptoIs
    <3>3. Last(W) \in 1 .. m /\ UnitOf(q[Last(W)], o) = u
      BY <1>4, <2>1, <3>2 DEF Writers
    <3>4. After(L, q, m)[s][o] = q[Last(W)].data[u]
      BY <1>3, <2>5, <3>3
    <3>5. Upto(V, q, m, u) = q[Last(W)].data[u]
      BY <2>2, <2>5 DEF Upto
    <3> QED BY <1>5, <3>4, <3>5 DEF V, L, u
  <2> QED BY <2>4, <2>5
<1>6. CASE v[s] # ENABLE
  <2>1. W = {}
    BY <1>4, <1>6 DEF WritesTo
  <2>2. L[s][o] = b[s][o]
    BY <1>6 DEF L, Loaded
  <2> QED BY <1>3, <1>6, <2>1, <2>2 DEF L
<1> QED BY <1>5, <1>6

(* After sync the blocks hold what the callers wrote, a clean one what the
   disk holds, and every read met what it must. *)
LEMMA SyncedIs ==
  ASSUME NEW v, NEW l, NEW b, NEW q, NEW c \in [Units -> Values],
         Blocked(disk, v, l, b), Open(ViewOf(disk, v, l, b), v, l, q, c), ~misread
  PROVE  /\ Blocked(disk, Synced(v, b, l, q).valid, l, Synced(v, b, l, q).buffer)
         /\ ViewOf(disk, Synced(v, b, l, q).valid, l, Synced(v, b, l, q).buffer) = c
         /\ ~ Synced(v, b, l, q).misread
         /\ \A s \in Slots : Synced(v, b, l, q).valid[s] # IDLE <=> v[s] # IDLE
<1> DEFINE V == ViewOf(disk, v, l, b)
           L == Loaded(v, b, l)
           n == Len(q)
           x == Synced(v, b, l, q).valid
           y == Synced(v, b, l, q).buffer
           Wrote(s) == \E i \in 1 .. n : q[i].op = "write" /\ q[i].slot = s
<1>1. /\ x = [s \in Slots |-> IF Wrote(s) THEN DIRTY ELSE Activated(v)[s]]
      /\ y = After(L, q, n)
      /\ Synced(v, b, l, q).misread <=>
           \E i \in 1 .. n : q[i].op = "read" /\ ~ReadsWell(After(L, q, i - 1), q[i].slot, q[i])
  BY DEF Synced, Served
<1>2. /\ q \in Seq(Asks) /\ n \in Nat
      /\ \A i \in 1 .. n : q[i] \in Asks /\ q[i].slot \in Slots /\ Asked(v, l, q[i])
  <2>1. q \in Seq(Asks) /\ n \in Nat
    BY DEF Open
  <2>2. ASSUME NEW i \in 1 .. n
        PROVE  q[i] \in Asks /\ q[i].slot \in Slots /\ Asked(v, l, q[i])
    <3>1. q[i] \in Asks
      BY <2>1
    <3> QED BY <3>1, DataOf DEF Open
  <2> QED BY <2>1, <2>2
<1>3. ASSUME NEW s \in Slots, NEW o \in Offsets, v[s] = ENABLE
      PROVE  y[s][o] = c[UnitAt(l[s], o)]
  <2>1. n \in 0 .. n
    BY <1>2
  <2>2. y[s][o] = Upto(V, q, n, UnitAt(l[s], o))
    BY <1>1, <1>3, <2>1, AfterIs
  <2>3. UnitAt(l[s], o) \in Units
    BY PartsUnit DEF Blocked
  <2> QED BY <2>2, <2>3 DEF Open
<1>4. ASSUME NEW s \in Slots, NEW o \in Offsets, v[s] # ENABLE
      PROVE  y[s][o] = b[s][o]
  <2>1. n \in 0 .. n
    BY <1>2
  <2> QED BY <1>1, <1>4, <2>1, AfterIs
<1>5. ASSUME NEW s \in Slots
      PROVE  /\ v[s] = ENABLE => x[s] = IF Wrote(s) THEN DIRTY ELSE ACTIVE
             /\ v[s] # ENABLE => x[s] = v[s]
  <2>1. Wrote(s) => v[s] = ENABLE
    BY <1>2 DEF Asked
  <2> QED BY <1>1, <2>1 DEF Activated
<1>6. v \in [Slots -> 0 .. 3] /\ x \in [Slots -> 0 .. 3]
  <2>1. x = [s \in Slots |-> x[s]]
    BY <1>1
  <2>2. ASSUME NEW s \in Slots
        PROVE  x[s] \in 0 .. 3
    BY <1>5 DEF Blocked, ACTIVE, DIRTY
  <2> HIDE DEF x
  <2> QED BY <2>1, <2>2 DEF Blocked
<1>7. \A s \in Slots : x[s] # IDLE <=> v[s] # IDLE
  BY <1>5 DEF IDLE, ENABLE, ACTIVE, DIRTY
<1>8. y \in Buffers
  <2>1. y = [s \in Slots |-> [o \in Offsets |-> y[s][o]]]
    BY <1>1 DEF After
  <2>2. ASSUME NEW s \in Slots, NEW o \in Offsets
        PROVE  y[s][o] \in Values
    <3>1. UnitAt(l[s], o) \in Units
      BY PartsUnit DEF Blocked
    <3> QED BY <1>3, <1>4, <3>1 DEF Blocked, Buffers
  <2> HIDE DEF y
  <2> QED BY <2>1, <2>2 DEF Buffers
<1>9. Unique(x, l)
  BY <1>7 DEF Blocked, Unique
<1>10. Clean(disk, x, l, y)
  <2> SUFFICES ASSUME NEW s \in Slots, x[s] = ACTIVE, NEW o \in Offsets
               PROVE  y[s][o] = disk[UnitAt(l[s], o)]
    BY DEF Clean
  <2>1. CASE v[s] = ENABLE
    <3>1. ~ Wrote(s)
      BY <1>5, <2>1 DEF ACTIVE, DIRTY
    <3>2. WritesTo(q, n, s, o) = {}
      BY <3>1 DEF WritesTo
    <3>3. y[s][o] = L[s][o]
      BY <1>1, <3>2 DEF After
    <3> QED BY <2>1, <3>3 DEF Loaded
  <2>2. CASE v[s] # ENABLE
    BY <1>4, <1>5, <2>2 DEF Blocked, Clean
  <2> QED BY <2>1, <2>2
<1>11. ViewOf(disk, x, l, y) = c
  <2> SUFFICES ASSUME NEW u \in Units
               PROVE  Seen(disk, x, l, y, u) = c[u]
    BY DEF ViewOf
  <2>1. /\ LbaOf(u) \in Lbas /\ OffsetOf(u) \in Offsets
        /\ UnitAt(LbaOf(u), OffsetOf(u)) = u
    BY UnitParts
  <2>2. Writers(q, n, u) # {} => \E s \in Slots : v[s] = ENABLE /\ l[s] = LbaOf(u)
    <3> SUFFICES ASSUME NEW i \in Writers(q, n, u)
                 PROVE  \E s \in Slots : v[s] = ENABLE /\ l[s] = LbaOf(u)
      OBVIOUS
    <3>1. i \in 1 .. n /\ u \in DOMAIN q[i].data
      BY DEF Writers
    <3> QED BY <1>2, <3>1 DEF Asked
  <2>3. Upto(V, q, n, u) = c[u]
    BY DEF Open
  <2>4. CASE \E s \in Slots : v[s] # IDLE /\ l[s] = LbaOf(u)
    <3>1. PICK s \in Slots : v[s] # IDLE /\ l[s] = LbaOf(u)
      BY <2>4
    <3>2. x[s] \in Loadeds
      BY <1>5, <1>6, <3>1 DEF Loadeds, IDLE, ENABLE, ACTIVE, DIRTY
    <3>3. Seen(disk, x, l, y, u) = y[s][OffsetOf(u)]
      <4> HIDE DEF x, y
      <4> QED BY <1>9, <3>1, <3>2, SeenLoaded
    <3>4. CASE v[s] = ENABLE
      BY <1>3, <2>1, <3>1, <3>3, <3>4
    <3>5. CASE v[s] # ENABLE
      <4>1. Seen(disk, x, l, y, u) = b[s][OffsetOf(u)]
        BY <1>4, <2>1, <3>3, <3>5
      <4>2. v[s] \in Loadeds
        BY <1>6, <3>1, <3>5 DEF Loadeds, IDLE, ENABLE, ACTIVE, DIRTY
      <4>3. V[u] = b[s][OffsetOf(u)]
        <5>1. Unique(v, l)
          BY DEF Blocked
        <5>2. Seen(disk, v, l, b, u) = b[s][OffsetOf(u)]
          BY <3>1, <4>2, <5>1, SeenLoaded
        <5> QED BY <5>2 DEF ViewOf
      <4>4. Writers(q, n, u) = {}
        BY <2>2, <3>1, <3>5 DEF Blocked, Unique, IDLE, ENABLE
      <4>5. Upto(V, q, n, u) = V[u]
        BY <4>4 DEF Upto
      <4> QED BY <2>3, <4>1, <4>3, <4>5
    <3> QED BY <3>4, <3>5
  <2>5. CASE \A s \in Slots : ~ (v[s] # IDLE /\ l[s] = LbaOf(u))
    <3>1. Writers(q, n, u) = {}
      BY <2>2, <2>5 DEF IDLE, ENABLE
    <3>2. Upto(V, q, n, u) = V[u]
      BY <3>1 DEF Upto
    <3>3. V[u] = disk[u]
      BY <2>5, SeenUnloaded DEF ViewOf, Loadeds, IDLE, ACTIVE, DIRTY
    <3>4. Seen(disk, x, l, y, u) = disk[u]
      <4>1. \A s \in Slots : ~ (x[s] \in Loadeds /\ l[s] = LbaOf(u))
        BY <1>7, <2>5 DEF Loadeds, IDLE, ACTIVE, DIRTY
      <4> HIDE DEF x, y
      <4> QED BY <4>1, SeenUnloaded
    <3> QED BY <2>3, <3>2, <3>3, <3>4
  <2> QED BY <2>4, <2>5
<1>12. ~ Synced(v, b, l, q).misread
  <2> SUFFICES ASSUME NEW i \in 1 .. n, q[i].op = "read", NEW u \in DOMAIN q[i].data
               PROVE  After(L, q, i - 1)[q[i].slot][OffsetOf(u)] = q[i].data[u]
    BY <1>1 DEF ReadsWell
  <2>1. /\ q[i].slot \in Slots /\ v[q[i].slot] = ENABLE
        /\ l[q[i].slot] = LbaOf(u) /\ u \in Units
    BY <1>2, DataOf DEF Asked
  <2>2. OffsetOf(u) \in Offsets /\ UnitAt(l[q[i].slot], OffsetOf(u)) = u
    BY <2>1, UnitParts
  <2>3. i - 1 \in 0 .. n
    BY <1>2
  <2>4. After(L, q, i - 1)[q[i].slot][OffsetOf(u)] = Upto(V, q, i - 1, u)
    BY <2>1, <2>2, <2>3, AfterIs
  <2>5. q[i].data[u] = Upto(V, q, i - 1, u)
    BY DEF Open
  <2> QED BY <2>4, <2>5
<1>13. Blocked(disk, x, l, y)
  BY <1>6, <1>8, <1>9, <1>10 DEF Blocked
<1> QED BY <1>7, <1>11, <1>12, <1>13
-----------------------------------------------------------------------------
(* What cache_flush_ahci writes to disk d. *)
Flushed(d, v, l, b) ==
  [u \in Units |->
     LET S == {s \in Slots : v[s] = DIRTY /\ l[s] = LbaOf(u)}
     IN  IF S = {} THEN d[u] ELSE b[First(S)][OffsetOf(u)]]

Cleaned(v) == [s \in Slots |-> IF v[s] = DIRTY THEN ACTIVE ELSE v[s]]

(* The units of a flushed disk, by the slot of their block. *)
LEMMA FlushedIs ==
  ASSUME NEW d, NEW v, NEW l, NEW b, Unique(v, l), NEW u \in Units
  PROVE  /\ \A s \in Slots : v[s] = DIRTY /\ l[s] = LbaOf(u) =>
              Flushed(d, v, l, b)[u] = b[s][OffsetOf(u)]
         /\ (\A s \in Slots : ~ (v[s] = DIRTY /\ l[s] = LbaOf(u))) =>
              Flushed(d, v, l, b)[u] = d[u]
<1> DEFINE S == {s \in Slots : v[s] = DIRTY /\ l[s] = LbaOf(u)}
<1>1. Flushed(d, v, l, b)[u] = IF S = {} THEN d[u] ELSE b[First(S)][OffsetOf(u)]
  BY DEF Flushed
<1>2. ASSUME NEW s \in Slots, v[s] = DIRTY, l[s] = LbaOf(u)
      PROVE  Flushed(d, v, l, b)[u] = b[s][OffsetOf(u)]
  <2>1. S = {s}
    BY <1>2 DEF Unique, IDLE, DIRTY
  <2> HIDE DEF S
  <2> QED BY <1>1, <2>1, FirstOne
<1>3. ASSUME \A s \in Slots : ~ (v[s] = DIRTY /\ l[s] = LbaOf(u))
      PROVE  Flushed(d, v, l, b)[u] = d[u]
  BY <1>1, <1>3
<1> QED BY <1>2, <1>3

(* After flush the units hold what they held, and clean blocks are on disk. *)
LEMMA FlushIs ==
  ASSUME NEW d, NEW v, NEW l, NEW b, Blocked(d, v, l, b)
  PROVE  /\ Blocked(Flushed(d, v, l, b), Cleaned(v), l, b)
         /\ ViewOf(Flushed(d, v, l, b), Cleaned(v), l, b) = ViewOf(d, v, l, b)
<1> DEFINE e == Flushed(d, v, l, b)
           x == Cleaned(v)
<1>1. /\ d \in [Units -> Values] /\ v \in [Slots -> 0 .. 3] /\ l \in [Slots -> Lbas]
      /\ b \in Buffers /\ Unique(v, l) /\ Clean(d, v, l, b)
  BY DEF Blocked
<1>2. ASSUME NEW u \in Units
      PROVE  /\ \A s \in Slots : v[s] = DIRTY /\ l[s] = LbaOf(u) => e[u] = b[s][OffsetOf(u)]
             /\ (\A s \in Slots : ~ (v[s] = DIRTY /\ l[s] = LbaOf(u))) => e[u] = d[u]
  BY <1>1, FlushedIs
<1>3. e = [u \in Units |-> e[u]] /\ x \in [Slots -> 0 .. 3]
  <2>1. e = [u \in Units |-> e[u]]
    BY DEF Flushed
  <2>2. x \in [Slots -> 0 .. 3]
    BY <1>1 DEF Cleaned, ACTIVE
  <2> QED BY <2>1, <2>2
<1>4. ASSUME NEW s \in Slots
      PROVE  x[s] = IF v[s] = DIRTY THEN ACTIVE ELSE v[s]
  BY DEF Cleaned
<1> HIDE DEF e, x
<1>5. ASSUME NEW u \in Units
      PROVE  e[u] \in Values
  <2>1. OffsetOf(u) \in Offsets
    BY UnitParts
  <2>2. CASE \E s \in Slots : v[s] = DIRTY /\ l[s] = LbaOf(u)
    BY <1>1, <1>2, <2>1, <2>2 DEF Buffers
  <2>3. CASE \A s \in Slots : ~ (v[s] = DIRTY /\ l[s] = LbaOf(u))
    BY <1>1, <1>2, <2>3
  <2> QED BY <2>2, <2>3
<1>6. e \in [Units -> Values]
  BY <1>3, <1>5
<1>7. Unique(x, l)
  BY <1>1, <1>4 DEF Unique, IDLE, ACTIVE, DIRTY
<1>8. ASSUME NEW s \in Slots, x[s] = ACTIVE, NEW o \in Offsets
      PROVE  b[s][o] = e[UnitAt(l[s], o)]
  <2> DEFINE u == UnitAt(l[s], o)
  <2>1. u \in Units /\ LbaOf(u) = l[s] /\ OffsetOf(u) = o
    BY <1>1, PartsUnit
  <2> HIDE DEF u
  <2>2. CASE v[s] = DIRTY
    BY <1>2, <2>1, <2>2 DEF u
  <2>3. CASE v[s] # DIRTY
    <3>1. v[s] = ACTIVE
      BY <1>4, <1>8, <2>3
    <3>2. \A t \in Slots : ~ (v[t] = DIRTY /\ l[t] = LbaOf(u))
      BY <1>1, <2>1, <3>1 DEF Unique, IDLE, ACTIVE, DIRTY
    <3>3. e[u] = d[u]
      BY <1>2, <2>1, <3>2
    <3>4. b[s][o] = d[u]
      BY <1>1, <3>1 DEF Clean, u
    <3> QED BY <3>3, <3>4 DEF u
  <2> QED BY <2>2, <2>3
<1>9. ASSUME NEW u \in Units
      PROVE  Seen(e, x, l, b, u) = Seen(d, v, l, b, u)
  <2>1. CASE \E s \in Slots : v[s] \in Loadeds /\ l[s] = LbaOf(u)
    <3>1. PICK s \in Slots : v[s] \in Loadeds /\ l[s] = LbaOf(u)
      BY <2>1
    <3>2. x[s] \in Loadeds
      BY <1>4, <3>1 DEF Loadeds
    <3>3. Seen(d, v, l, b, u) = b[s][OffsetOf(u)]
      <4>1. Unique(v, l)
        BY <1>1
      <4> QED BY <3>1, <4>1, SeenLoaded
    <3>4. Seen(e, x, l, b, u) = b[s][OffsetOf(u)]
      BY <1>7, <3>1, <3>2, SeenLoaded
    <3> QED BY <3>3, <3>4
  <2>2. CASE \A s \in Slots : ~ (v[s] \in Loadeds /\ l[s] = LbaOf(u))
    <3>1. \A s \in Slots : ~ (x[s] \in Loadeds /\ l[s] = LbaOf(u))
      BY <1>4, <2>2 DEF Loadeds
    <3>2. e[u] = d[u]
      BY <1>2, <2>2 DEF Loadeds
    <3>3. Seen(d, v, l, b, u) = d[u]
      BY <2>2, SeenUnloaded
    <3>4. Seen(e, x, l, b, u) = e[u]
      BY <3>1, SeenUnloaded
    <3> QED BY <3>2, <3>3, <3>4
  <2> QED BY <2>1, <2>2
<1>10. Blocked(e, x, l, b)
  BY <1>1, <1>3, <1>6, <1>7, <1>8 DEF Blocked, Clean
<1>11. ViewOf(e, x, l, b) = ViewOf(d, v, l, b)
  BY <1>9 DEF ViewOf
<1> QED BY <1>10, <1>11 DEF e, x

-----------------------------------------------------------------------------
(* A block of a list has its place. *)
LEMMA DroppedIs ==
  ASSUME Table(valid, lba, point), lba \in [Slots -> Lbas], NEW i \in 1 .. Len(point)
  PROVE  /\ Dropped(i) \in Seq(Slots) /\ Len(Dropped(i)) = Len(point) - 1
         /\ {Dropped(i)[j] : j \in 1 .. Len(point) - 1} = (0 .. Len(point) - 1) \ {point[i]}
         /\ \A j, k \in 1 .. Len(point) - 1 : j < k => lba[Dropped(i)[j]] < lba[Dropped(i)[k]]
<1> DEFINE n == Len(point)
           f == Dropped(i)
           At(j) == IF j < i THEN j ELSE j + 1
<1>1. n \in Nat /\ n - 1 \in Nat /\ point \in [1 .. n -> Slots]
  BY DEF Table
<1>2. ASSUME NEW j \in 1 .. n - 1
      PROVE  At(j) \in 1 .. n /\ At(j) # i /\ f[j] = point[At(j)]
  BY <1>1 DEF Dropped
<1>3. f \in [1 .. n - 1 -> Slots]
  <2>1. f = [j \in 1 .. n - 1 |-> f[j]]
    BY DEF Dropped
  <2>2. \A j \in 1 .. n - 1 : f[j] \in Slots
    BY <1>1, <1>2
  <2> HIDE DEF f
  <2> QED BY <2>1, <2>2
<1>4. ASSUME NEW j \in 1 .. n - 1, NEW k \in 1 .. n - 1, j < k
      PROVE  lba[f[j]] < lba[f[k]]
  <2>1. At(j) < At(k)
    BY <1>1, <1>4
  <2>2. \A a, e \in 1 .. n : a < e => lba[point[a]] < lba[point[e]]
    BY DEF Table
  <2> HIDE DEF At, f, n
  <2> QED BY <1>2, <2>1, <2>2
<1>5. ASSUME NEW k \in 1 .. n, k # i
      PROVE  \E j \in 1 .. n - 1 : At(j) = k
  <2>1. CASE k < i
    BY <1>1, <2>1
  <2>2. CASE k > i
    <3>1. k - 1 \in 1 .. n - 1 /\ At(k - 1) = k
      BY <1>1, <2>2
    <3> QED BY <3>1
  <2> QED BY <1>1, <1>5, <2>1, <2>2
<1>6. ASSUME NEW k \in 1 .. n, k # i
      PROVE  point[k] # point[i]
  <2>1. k < i \/ i < k
    BY <1>1, <1>6
  <2>2. lba[point[k]] \in Nat /\ lba[point[i]] \in Nat
    BY <1>1 DEF Lbas
  <2>3. lba[point[k]] < lba[point[i]] \/ lba[point[i]] < lba[point[k]]
    BY <2>1 DEF Table
  <2> QED BY <2>2, <2>3
<1>7. {point[j] : j \in 1 .. n} = 0 .. n - 1
  BY DEF Table
<1> HIDE DEF f, At, n
<1>8. {f[j] : j \in 1 .. n - 1} = (0 .. n - 1) \ {point[i]}
  <2>1. ASSUME NEW j \in 1 .. n - 1
        PROVE  f[j] \in (0 .. n - 1) \ {point[i]}
    BY <1>2, <1>6, <1>7
  <2>2. ASSUME NEW s \in (0 .. n - 1) \ {point[i]}
        PROVE  \E j \in 1 .. n - 1 : f[j] = s
    <3>1. PICK k \in 1 .. n : point[k] = s
      BY <1>7
    <3>2. PICK j \in 1 .. n - 1 : At(j) = k
      BY <1>5, <3>1
    <3> QED BY <1>2, <3>1, <3>2
  <2> QED BY <2>1, <2>2
<1>9. f \in Seq(Slots) /\ Len(f) = n - 1
  BY <1>1, <1>3, AsSeq
<1> QED BY <1>4, <1>8, <1>9 DEF f, n
(* insert_sorted puts a slot of a new block in its place. *)
LEMMA InsertedIs ==
  ASSUME lba \in [Slots -> Lbas], NEW q \in Seq(Slots), NEW s \in Slots, NEW l \in Lbas,
         \A i, j \in 1 .. Len(q) : i < j => lba[q[i]] < lba[q[j]],
         \A i \in 1 .. Len(q) : q[i] # s /\ lba[q[i]] # l
  PROVE  /\ Inserted(q, s, l) \in Seq(Slots) /\ Len(Inserted(q, s, l)) = Len(q) + 1
         /\ {Inserted(q, s, l)[i] : i \in 1 .. Len(q) + 1} = {q[i] : i \in 1 .. Len(q)} \cup {s}
         /\ \A i, j \in 1 .. Len(q) + 1 : i < j =>
              [lba EXCEPT ![s] = l][Inserted(q, s, l)[i]]
                < [lba EXCEPT ![s] = l][Inserted(q, s, l)[j]]
<1> DEFINE n == Len(q)
           p == Inserted(q, s, l)
           m == [lba EXCEPT ![s] = l]
           T == {k \in 0 .. n : k > 0 => lba[q[k]] <= l}
           Place(k) == /\ k > 0 => lba[q[k]] <= l
                       /\ \A i \in k + 1 .. n : lba[q[i]] > l
           k0 == CHOOSE k \in 0 .. n : Place(k)
<1>1. n \in Nat /\ q \in [1 .. n -> Slots]
  OBVIOUS
<1>2. ASSUME NEW i \in 1 .. n
      PROVE  q[i] \in Slots /\ lba[q[i]] \in Nat /\ m[q[i]] = lba[q[i]]
  BY <1>1 DEF Lbas
<1>3. m[s] = l /\ l \in Nat
  BY DEF Lbas
<1>4. \E k \in 0 .. n : Place(k)
  <2>1. T \in SUBSET (0 .. n) /\ 0 \in T
    BY <1>1
  <2>2. PICK k \in T : \A j \in T : j <= k
    BY <1>1, <2>1, Greatest
  <2>3. ASSUME NEW i \in k + 1 .. n
        PROVE  lba[q[i]] > l
    <3>1. i \in 1 .. n /\ ~ (i <= k)
      BY <1>1, <2>1
    <3>2. i \notin T
      BY <2>2, <3>1
    <3> QED BY <1>1, <1>2, <1>3, <3>1, <3>2
  <2> QED BY <2>2, <2>3
<1>5. k0 \in 0 .. n /\ Place(k0)
  BY <1>4
<1>6. p = [i \in 1 .. n + 1 |-> IF i <= k0 THEN q[i] ELSE IF i = k0 + 1 THEN s ELSE q[i - 1]]
  BY DEF Inserted
<1> HIDE DEF p, k0, m, T
<1>7. /\ \A i \in 1 .. k0 : i \in 1 .. n /\ p[i] = q[i]
      /\ k0 + 1 \in 1 .. n + 1 /\ p[k0 + 1] = s
      /\ \A i \in k0 + 2 .. n + 1 : i - 1 \in 1 .. n /\ p[i] = q[i - 1]
  BY <1>1, <1>5, <1>6
<1>8. 1 .. n + 1 = (1 .. k0) \cup {k0 + 1} \cup (k0 + 2 .. n + 1)
  BY <1>1, <1>5
<1>9. p \in [1 .. n + 1 -> Slots]
  <2>1. \A i \in 1 .. n + 1 : p[i] \in Slots
    BY <1>2, <1>7, <1>8
  <2> QED BY <1>6, <2>1
<1>10. {p[i] : i \in 1 .. n + 1} = {q[i] : i \in 1 .. n} \cup {s}
  <2>1. ASSUME NEW i \in 1 .. n + 1
        PROVE  p[i] \in {q[j] : j \in 1 .. n} \cup {s}
    BY <1>7, <1>8
  <2>2. ASSUME NEW i \in 1 .. n
        PROVE  \E j \in 1 .. n + 1 : p[j] = q[i]
    <3>1. CASE i <= k0
      BY <1>1, <1>5, <1>7, <3>1
    <3>2. CASE i > k0
      <4>1. i + 1 \in k0 + 2 .. n + 1 /\ i + 1 - 1 = i /\ i + 1 \in 1 .. n + 1
        BY <1>1, <1>5, <3>2
      <4>2. p[i + 1] = q[i]
        BY <1>7, <4>1
      <4> QED BY <4>1, <4>2
    <3> QED BY <1>5, <3>1, <3>2
  <2> QED BY <1>7, <2>1, <2>2
<1>11. /\ \A i \in 1 .. k0 : m[p[i]] = lba[q[i]] /\ m[p[i]] < l
       /\ \A i \in k0 + 2 .. n + 1 : m[p[i]] = lba[q[i - 1]] /\ m[p[i]] > l
       /\ m[p[k0 + 1]] = l
  <2>1. ASSUME NEW i \in 1 .. k0
        PROVE  m[p[i]] = lba[q[i]] /\ m[p[i]] < l
    <3>1. i \in 1 .. n /\ m[p[i]] = lba[q[i]]
      BY <1>2, <1>7
    <3>2. k0 \in 1 .. n /\ lba[q[k0]] <= l /\ lba[q[k0]] # l
      BY <1>1, <1>5
    <3>3. lba[q[i]] <= lba[q[k0]]
      <4>1. CASE i = k0
        BY <1>2, <3>1, <4>1
      <4>2. CASE i < k0
        BY <1>2, <3>1, <3>2, <4>2
      <4> QED BY <1>5, <4>1, <4>2
    <3>4. lba[q[k0]] \in Nat /\ lba[q[i]] \in Nat
      BY <1>2, <3>1, <3>2
    <3>5. lba[q[i]] < l
      BY <1>3, <3>2, <3>3, <3>4
    <3> QED BY <3>1, <3>5
  <2>2. ASSUME NEW i \in k0 + 2 .. n + 1
        PROVE  m[p[i]] = lba[q[i - 1]] /\ m[p[i]] > l
    <3>1. i - 1 \in 1 .. n /\ m[p[i]] = lba[q[i - 1]]
      BY <1>2, <1>7
    <3>2. i - 1 \in k0 + 1 .. n
      BY <1>5
    <3> QED BY <1>5, <3>1, <3>2
  <2> QED BY <1>3, <1>7, <2>1, <2>2
<1>12. ASSUME NEW i \in 1 .. n + 1, NEW j \in 1 .. n + 1, i < j
       PROVE  m[p[i]] < m[p[j]]
  <2>1. CASE j \in 1 .. k0
    <3>1. i \in 1 .. k0 /\ i \in 1 .. n /\ j \in 1 .. n
      BY <1>5, <1>7, <1>12, <2>1
    <3> QED BY <1>11, <1>12, <2>1, <3>1
  <2>2. CASE i \in k0 + 2 .. n + 1
    <3>1. j \in k0 + 2 .. n + 1 /\ i - 1 \in 1 .. n /\ j - 1 \in 1 .. n /\ i - 1 < j - 1
      BY <1>1, <1>5, <1>12, <2>2
    <3> QED BY <1>11, <2>2, <3>1
  <2>3. CASE i \in 1 .. k0 + 1 /\ j \in k0 + 1 .. n + 1
    <3>1. i \in 1 .. k0 \/ i = k0 + 1
      BY <1>5, <2>3
    <3>2. j = k0 + 1 \/ j \in k0 + 2 .. n + 1
      BY <1>5, <2>3
    <3>3. ~ (i = k0 + 1 /\ j = k0 + 1)
      BY <1>5, <1>12
    <3>4. \A x \in 1 .. n : lba[q[x]] \in Nat
      BY <1>2
    <3>5. m[p[i]] \in Nat /\ m[p[j]] \in Nat
      BY <1>3, <1>7, <1>11, <3>1, <3>2, <3>4
    <3> QED BY <1>3, <1>11, <3>1, <3>2, <3>3, <3>5
  <2> QED BY <1>5, <1>12, <2>1, <2>2, <2>3
<1>13. p \in Seq(Slots) /\ Len(p) = n + 1
  BY <1>1, <1>9, AsSeq
<1> QED BY <1>10, <1>12, <1>13 DEF p, m
-----------------------------------------------------------------------------
(* A miss finds a slot that may be used, and the table has it in its place. *)
LEMMA CreatedTable ==
  ASSUME lba \in [Slots -> Lbas], valid \in [Slots -> 0 .. 3], Table(valid, lba, point),
         Found = {}, CanCreate, Lba \in Lbas, NEW state \in {ENABLE, DIRTY}
  PROVE  /\ NewSlot \in Slots /\ valid[NewSlot] \in {IDLE, ACTIVE}
         /\ \A s \in Slots : valid[s] # IDLE => lba[s] # Lba
         /\ Table([valid EXCEPT ![NewSlot] = state], [lba EXCEPT ![NewSlot] = Lba],
                  Inserted(Kept, NewSlot, Lba))
<1> DEFINE n == Len(point)
           s == NewSlot
           q == Kept
           x == [valid EXCEPT ![s] = state]
           m == [lba EXCEPT ![s] = Lba]
           p == Inserted(q, s, Lba)
<1>1. /\ point \in Seq(Slots) /\ n \in Nat /\ n <= MaxCaches
      /\ \A t \in Slots : valid[t] # IDLE <=> t < n
      /\ {point[i] : i \in 1 .. n} = 0 .. n - 1
      /\ \A i, j \in 1 .. n : i < j => lba[point[i]] < lba[point[j]]
      /\ \A i \in 1 .. n : point[i] \in Slots
  BY DEF Table
<1>2. ASSUME NEW t \in Slots, valid[t] # IDLE
      PROVE  lba[t] # Lba
  <2>1. t \in 0 .. n - 1
    BY <1>1, <1>2 DEF Slots
  <2> QED BY <1>2, <2>1 DEF Found
<1>3. /\ s \in Slots /\ valid[s] \in {IDLE, ACTIVE}
      /\ q \in Seq(Slots) /\ Len(q) + 1 <= MaxCaches /\ Len(q) \in Nat
      /\ \A i, j \in 1 .. Len(q) : i < j => lba[q[i]] < lba[q[j]]
      /\ s \in 0 .. Len(q) /\ {q[i] : i \in 1 .. Len(q)} = (0 .. Len(q)) \ {s}
      /\ \A t \in Slots : t # s => (valid[t] # IDLE <=> t < Len(q) + 1)
  <2>1. CASE n = MaxCaches
    <3> DEFINE e == First(Evictable)
    <3>1. Evictable # {} /\ Evictable \in SUBSET (0 .. n)
      BY <1>1, <2>1 DEF CanCreate, Evictable
    <3>2. e \in 1 .. n /\ valid[point[e]] = ACTIVE
      <4>1. e \in Evictable
        BY <1>1, <3>1, FirstIn
      <4> HIDE DEF e
      <4> QED BY <4>1 DEF Evictable
    <3>3. s = point[e] /\ q = Dropped(e)
      BY <2>1 DEF NewSlot, Kept
    <3> HIDE DEF e, s, q
    <3>4. /\ q \in Seq(Slots) /\ Len(q) = n - 1
          /\ {q[i] : i \in 1 .. n - 1} = (0 .. n - 1) \ {s}
          /\ \A j, k \in 1 .. n - 1 : j < k => lba[q[j]] < lba[q[k]]
      BY <3>2, <3>3, DroppedIs
    <3>5. s \in Slots /\ s \in 0 .. n - 1
      BY <1>1, <3>2, <3>3
    <3> QED BY <1>1, <2>1, <3>2, <3>3, <3>4, <3>5
  <2>2. CASE n # MaxCaches
    <3> DEFINE S == {t \in Slots : valid[t] = IDLE}
    <3>1. n \in Slots /\ n < MaxCaches
      BY <1>1, <2>2 DEF Slots
    <3>2. n \in S /\ S \in SUBSET (0 .. MaxCaches)
      BY <1>1, <3>1 DEF Slots
    <3>3. First(S) \in S /\ First(S) <= n
      BY <3>2, FirstIn
    <3>4. First(S) >= n
      BY <1>1, <3>3 DEF Slots
    <3>5. First(S) = n
      BY <1>1, <3>3, <3>4 DEF Slots
    <3>6. s = n /\ q = point
      BY <2>2, <3>5 DEF NewSlot, Kept
    <3> HIDE DEF S, s, q
    <3>7. valid[s] = IDLE
      BY <1>1, <3>1, <3>6
    <3>8. (0 .. n) \ {n} = 0 .. n - 1
      BY <1>1
    <3>9. \A t \in Slots : t # n => (t < n <=> t < n + 1)
      BY <1>1 DEF Slots
    <3> QED BY <1>1, <3>1, <3>6, <3>7, <3>8, <3>9
  <2> QED BY <2>1, <2>2
<1> HIDE DEF s, q, n
<1>4. ASSUME NEW i \in 1 .. Len(q)
      PROVE  q[i] # s /\ lba[q[i]] # Lba
  <2>1. q[i] \in (0 .. Len(q)) \ {s}
    BY <1>3
  <2>2. q[i] \in Slots /\ q[i] # s /\ q[i] < Len(q) + 1
    BY <1>3, <2>1
  <2> QED BY <1>2, <1>3, <2>2
<1>5. /\ p \in Seq(Slots) /\ Len(p) = Len(q) + 1
      /\ {p[i] : i \in 1 .. Len(q) + 1} = {q[i] : i \in 1 .. Len(q)} \cup {s}
      /\ \A i, j \in 1 .. Len(q) + 1 : i < j => m[p[i]] < m[p[j]]
  BY <1>3, <1>4, InsertedIs
<1> HIDE DEF p, m
<1>6. {p[i] : i \in 1 .. Len(p)} = 0 .. Len(p) - 1
  <2>1. ((0 .. Len(q)) \ {s}) \cup {s} = 0 .. Len(q) /\ Len(p) - 1 = Len(q)
    BY <1>3, <1>5
  <2>2. {p[i] : i \in 1 .. Len(q) + 1} = 0 .. Len(q)
    BY <1>3, <1>5, <2>1
  <2> QED BY <1>5, <2>1, <2>2
<1>7. ASSUME NEW t \in Slots
      PROVE  x[t] # IDLE <=> t < Len(p)
  <2>1. CASE t = s
    BY <1>3, <1>5, <2>1 DEF IDLE, ENABLE, DIRTY
  <2>2. CASE t # s
    BY <1>3, <1>5, <2>2
  <2> QED BY <2>1, <2>2
<1>8. Table(x, m, p)
  <2> HIDE DEF x
  <2> QED BY <1>3, <1>5, <1>6, <1>7 DEF Table
<1> QED BY <1>2, <1>3, <1>8 DEF s, q, m, p

(* What the units hold after a slot was taken for a new block. *)
LEMMA CreatedView ==
  ASSUME Blocked(disk, valid, lba, buffer), NEW s \in Slots, NEW k \in Lbas,
         valid[s] \in {IDLE, ACTIVE}, \A t \in Slots : valid[t] # IDLE => lba[t] # k,
         NEW state \in {ENABLE, DIRTY}, NEW y \in Buffers,
         \A t \in Slots : t # s => y[t] = buffer[t],
         NEW x \in [Slots -> 0 .. 3], NEW m \in [Slots -> Lbas], x[s] = state, m[s] = k,
         \A t \in Slots : t # s => x[t] = valid[t] /\ m[t] = lba[t]
  PROVE  /\ Blocked(disk, x, m, y)
         /\ \A u \in Units : LbaOf(u) # k => Seen(disk, x, m, y, u) = View[u]
         /\ state = ENABLE => ViewOf(disk, x, m, y) = View
         /\ state = DIRTY => \A u \in Units : LbaOf(u) = k =>
              Seen(disk, x, m, y, u) = y[s][OffsetOf(u)]
<1>1. /\ disk \in [Units -> Values] /\ valid \in [Slots -> 0 .. 3] /\ lba \in [Slots -> Lbas]
      /\ buffer \in Buffers /\ Unique(valid, lba) /\ Clean(disk, valid, lba, buffer)
  BY DEF Blocked
<1>2. /\ x[s] = state /\ m[s] = k
      /\ \A t \in Slots : t # s => x[t] = valid[t] /\ m[t] = lba[t]
      /\ x \in [Slots -> 0 .. 3] /\ m \in [Slots -> Lbas]
  OBVIOUS
<1>3. Unique(x, m)
  <2> SUFFICES ASSUME NEW a \in Slots, NEW b \in Slots,
                      x[a] # IDLE, x[b] # IDLE, m[a] = m[b]
               PROVE  a = b
    BY DEF Unique
  <2> QED BY <1>1, <1>2 DEF Unique
<1>4. Clean(disk, x, m, y)
  <2> SUFFICES ASSUME NEW t \in Slots, x[t] = ACTIVE, NEW o \in Offsets
               PROVE  y[t][o] = disk[UnitAt(m[t], o)]
    BY DEF Clean
  <2>1. t # s
    BY <1>2 DEF ACTIVE, ENABLE, DIRTY
  <2> QED BY <1>1, <1>2, <2>1 DEF Clean
<1>5. View = ViewOf(disk, valid, lba, buffer)
  BY DEF View, ViewOf, Seen, Loadeds
<1>6. ASSUME NEW u \in Units, LbaOf(u) # k
      PROVE  Seen(disk, x, m, y, u) = View[u]
  <2>1. View[u] = Seen(disk, valid, lba, buffer, u)
    BY <1>5 DEF ViewOf
  <2>2. CASE \E t \in Slots : t # s /\ valid[t] \in Loadeds /\ lba[t] = LbaOf(u)
    <3>1. PICK t \in Slots : t # s /\ valid[t] \in Loadeds /\ lba[t] = LbaOf(u)
      BY <2>2
    <3>2. Seen(disk, valid, lba, buffer, u) = buffer[t][OffsetOf(u)]
      <4>1. Unique(valid, lba)
        BY <1>1
      <4> QED BY <3>1, <4>1, SeenLoaded
    <3>3. x[t] \in Loadeds /\ m[t] = LbaOf(u) /\ y[t] = buffer[t]
      BY <1>2, <3>1
    <3>4. Seen(disk, x, m, y, u) = y[t][OffsetOf(u)]
      BY <1>3, <3>3, SeenLoaded
    <3> QED BY <2>1, <3>2, <3>3, <3>4
  <2>3. CASE ~ \E t \in Slots : t # s /\ valid[t] \in Loadeds /\ lba[t] = LbaOf(u)
    <3>1. \A t \in Slots : ~ (x[t] \in Loadeds /\ m[t] = LbaOf(u))
      BY <1>2, <1>6, <2>3
    <3>2. Seen(disk, x, m, y, u) = disk[u]
      BY <3>1, SeenUnloaded
    <3>3. CASE valid[s] = ACTIVE /\ lba[s] = LbaOf(u)
      <4>1. valid[s] \in Loadeds
        BY <3>3 DEF Loadeds
      <4>2. Seen(disk, valid, lba, buffer, u) = buffer[s][OffsetOf(u)]
        BY <1>1, <3>3, <4>1, SeenLoaded
      <4>3. OffsetOf(u) \in Offsets /\ UnitAt(lba[s], OffsetOf(u)) = u
        BY <3>3, UnitParts
      <4>4. buffer[s][OffsetOf(u)] = disk[u]
        BY <1>1, <3>3, <4>3 DEF Clean
      <4> QED BY <2>1, <3>2, <4>2, <4>4
    <3>4. CASE ~ (valid[s] = ACTIVE /\ lba[s] = LbaOf(u))
      <4>1. \A t \in Slots : ~ (valid[t] \in Loadeds /\ lba[t] = LbaOf(u))
        BY <2>3, <3>4 DEF Loadeds, IDLE, ACTIVE, DIRTY
      <4>2. Seen(disk, valid, lba, buffer, u) = disk[u]
        BY <4>1, SeenUnloaded
      <4> QED BY <2>1, <3>2, <4>2
    <3> QED BY <3>3, <3>4
  <2> QED BY <2>2, <2>3
<1>7. ASSUME state = ENABLE, NEW u \in Units, LbaOf(u) = k
      PROVE  Seen(disk, x, m, y, u) = View[u]
  <2>1. \A t \in Slots : ~ (x[t] \in Loadeds /\ m[t] = LbaOf(u))
    BY <1>2, <1>7 DEF Loadeds, IDLE, ENABLE, ACTIVE, DIRTY
  <2>2. \A t \in Slots : ~ (valid[t] \in Loadeds /\ lba[t] = LbaOf(u))
    BY <1>7 DEF Loadeds, IDLE, ACTIVE, DIRTY
  <2>3. Seen(disk, x, m, y, u) = disk[u]
    BY <2>1, SeenUnloaded
  <2>4. Seen(disk, valid, lba, buffer, u) = disk[u]
    BY <2>2, SeenUnloaded
  <2> QED BY <1>5, <2>3, <2>4 DEF ViewOf
<1>8. state = ENABLE => ViewOf(disk, x, m, y) = View
  <2> SUFFICES ASSUME state = ENABLE, NEW u \in Units
               PROVE  Seen(disk, x, m, y, u) = View[u]
    BY <1>5 DEF ViewOf
  <2> QED BY <1>6, <1>7
<1>9. ASSUME state = DIRTY, NEW u \in Units, LbaOf(u) = k
      PROVE  Seen(disk, x, m, y, u) = y[s][OffsetOf(u)]
  <2>1. x[s] \in Loadeds /\ m[s] = LbaOf(u)
    BY <1>2, <1>9 DEF Loadeds
  <2> QED BY <1>3, <2>1, SeenLoaded
<1>10. Blocked(disk, x, m, y)
  BY <1>1, <1>2, <1>3, <1>4 DEF Blocked
<1> QED BY <1>6, <1>8, <1>9, <1>10
(* The same after a write to a loaded block. *)
LEMMA HitView ==
  ASSUME Blocked(disk, valid, lba, buffer), NEW s \in Slots, valid[s] \in Loadeds,
         NEW y \in Buffers, \A t \in Slots : t # s => y[t] = buffer[t],
         NEW x \in [Slots -> 0 .. 3], x[s] = DIRTY,
         \A t \in Slots : t # s => x[t] = valid[t]
  PROVE  /\ Blocked(disk, x, lba, y)
         /\ \A u \in Units : LbaOf(u) # lba[s] => Seen(disk, x, lba, y, u) = View[u]
         /\ \A u \in Units : LbaOf(u) = lba[s] =>
              /\ Seen(disk, x, lba, y, u) = y[s][OffsetOf(u)]
              /\ View[u] = buffer[s][OffsetOf(u)]
<1>1. /\ disk \in [Units -> Values] /\ lba \in [Slots -> Lbas]
      /\ Unique(valid, lba) /\ Clean(disk, valid, lba, buffer)
  BY DEF Blocked
<1>2. View = ViewOf(disk, valid, lba, buffer)
  BY DEF View, ViewOf, Seen, Loadeds
<1>3. \A t \in Slots : (x[t] \in Loadeds <=> valid[t] \in Loadeds) /\ (x[t] # IDLE <=> valid[t] # IDLE)
  BY DEF Loadeds, IDLE, ACTIVE, DIRTY
<1>4. Unique(x, lba)
  BY <1>1, <1>3 DEF Unique
<1>5. Clean(disk, x, lba, y)
  BY <1>1 DEF Clean, ACTIVE, DIRTY
<1>6. ASSUME NEW u \in Units, LbaOf(u) = lba[s]
      PROVE  /\ Seen(disk, x, lba, y, u) = y[s][OffsetOf(u)]
             /\ View[u] = buffer[s][OffsetOf(u)]
  <2>1. Seen(disk, valid, lba, buffer, u) = buffer[s][OffsetOf(u)]
    <3>1. Unique(valid, lba)
      BY <1>1
    <3> QED BY <1>6, <3>1, SeenLoaded
  <2>2. x[s] \in Loadeds
    BY DEF Loadeds
  <2>3. Seen(disk, x, lba, y, u) = y[s][OffsetOf(u)]
    BY <1>4, <1>6, <2>2, SeenLoaded
  <2> QED BY <1>2, <2>1, <2>3 DEF ViewOf
<1>7. ASSUME NEW u \in Units, LbaOf(u) # lba[s]
      PROVE  Seen(disk, x, lba, y, u) = View[u]
  <2>1. CASE \E t \in Slots : valid[t] \in Loadeds /\ lba[t] = LbaOf(u)
    <3>1. PICK t \in Slots : valid[t] \in Loadeds /\ lba[t] = LbaOf(u)
      BY <2>1
    <3>2. x[t] \in Loadeds /\ lba[t] = LbaOf(u)
      BY <1>3, <3>1
    <3>3. Seen(disk, x, lba, y, u) = y[t][OffsetOf(u)]
      BY <1>4, <3>2, SeenLoaded
    <3>4. Seen(disk, valid, lba, buffer, u) = buffer[t][OffsetOf(u)]
      <4>1. Unique(valid, lba)
        BY <1>1
      <4> QED BY <3>1, <4>1, SeenLoaded
    <3>5. y[t] = buffer[t]
      BY <1>7, <3>1
    <3> QED BY <1>2, <3>3, <3>4, <3>5 DEF ViewOf
  <2>2. CASE \A t \in Slots : ~ (valid[t] \in Loadeds /\ lba[t] = LbaOf(u))
    <3>1. \A t \in Slots : ~ (x[t] \in Loadeds /\ lba[t] = LbaOf(u))
      BY <1>3, <2>2
    <3>2. Seen(disk, x, lba, y, u) = disk[u]
      BY <3>1, SeenUnloaded
    <3>3. Seen(disk, valid, lba, buffer, u) = disk[u]
      BY <2>2, SeenUnloaded
    <3> QED BY <1>2, <3>2, <3>3 DEF ViewOf
  <2> QED BY <2>1, <2>2
<1> QED BY <1>1, <1>4, <1>5, <1>6, <1>7 DEF Blocked

(* No request is about a disk block that no slot is to read. *)
LEMMA NotAsked ==
  ASSUME NEW V, NEW v, NEW l, NEW q, NEW c, Open(V, v, l, q, c),
         NEW k, \A t \in Slots : v[t] = ENABLE => l[t] # k,
         NEW u, LbaOf(u) = k, NEW i \in 1 .. Len(q)
  PROVE  u \notin DOMAIN q[i].data
<1>1. q[i] \in Asks /\ Asked(v, l, q[i])
  BY DEF Open
<1>2. q[i].slot \in Slots
  BY <1>1, DataOf
<1> QED BY <1>1, <1>2 DEF Asked

(* A unit no request is about holds what was written. *)
LEMMA NotAskedHolds ==
  ASSUME NEW V, NEW v, NEW l, NEW q, NEW c, Open(V, v, l, q, c),
         NEW k, \A t \in Slots : v[t] = ENABLE => l[t] # k,
         NEW u \in Units, LbaOf(u) = k
  PROVE  V[u] = c[u]
<1>1. \A i \in 1 .. Len(q) : u \notin DOMAIN q[i].data
  BY NotAsked
<1>2. Writers(q, Len(q), u) = {}
  BY <1>1 DEF Writers
<1>3. Upto(V, q, Len(q), u) = V[u]
  BY <1>2 DEF Upto
<1> QED BY <1>3 DEF Open

(* The table is about the states of the blocks only as far as they are idle. *)
LEMMA TableKept ==
  ASSUME NEW v, NEW l, NEW p, NEW x, Table(v, l, p),
         \A s \in Slots : x[s] # IDLE <=> v[s] # IDLE
  PROVE  Table(x, l, p)
BY DEF Table

LEMMA ViewIs == View = ViewOf(disk, valid, lba, buffer)
BY DEF View, ViewOf, Seen, Loadeds

-----------------------------------------------------------------------------
(* An iteration is about a part of one block. *)
LEMMA IterationIs ==
  ASSUME CallOK, ~Idle
  PROVE  /\ call.op \in {"read", "write"} /\ call.offset \in Units
         /\ Lba \in Lbas /\ Size \in 1 .. call.size
         /\ \A u \in Covered : u \in Units /\ LbaOf(u) = Lba
         /\ Offset = 0 /\ Size = CacheSize => \A u \in Units : LbaOf(u) = Lba => u \in Covered
<1> DEFINE f == call.offset
           z == call.size
           N == Blocks * CacheSize
           k == Lba * CacheSize
<1>1. /\ f \in Nat /\ z \in Nat /\ z > 0 /\ N \in Nat /\ f + z <= N
      /\ call.op \in {"read", "write"}
  BY DEF CallOK, Idle
<1>2. f \in Units
  BY <1>1 DEF Units
<1>3. Lba \in Lbas /\ Offset \in Offsets /\ UnitAt(Lba, Offset) = f
  BY <1>2, UnitParts DEF Lba, Offset
<1>4. /\ Offset \in Nat /\ Offset < CacheSize
      /\ k \in Nat /\ k + Offset = f
  BY <1>3 DEF Offsets, UnitAt, Lbas
<1> HIDE DEF f, z, N, k
<1>5. Size \in 1 .. z /\ Size <= CacheSize - Offset
  BY <1>1, <1>4 DEF Size, z
<1>6. ASSUME NEW u \in f .. f + Size - 1
      PROVE  u \in Units /\ LbaOf(u) = Lba
  <2> DEFINE o == Offset + (u - f)
  <2>1. o \in Offsets
    BY <1>1, <1>4, <1>5 DEF Offsets
  <2>2. UnitAt(Lba, o) = k + o
    BY DEF UnitAt, k
  <2>3. k + o = u
    BY <1>1, <1>4, <1>5
  <2> HIDE DEF o
  <2> QED BY <1>3, <2>1, <2>2, <2>3, PartsUnit
<1>7. ASSUME Offset = 0, Size = CacheSize, NEW u \in Units, LbaOf(u) = Lba
      PROVE  u \in f .. f + Size - 1
  <2> DEFINE o == OffsetOf(u)
  <2>1. o \in Offsets /\ UnitAt(Lba, o) = u
    BY <1>7, UnitParts
  <2> HIDE DEF o
  <2>2. o \in Nat /\ o < CacheSize /\ u = k + o
    BY <2>1 DEF Offsets, UnitAt, k
  <2> QED BY <1>1, <1>4, <1>7, <2>2
<1> QED BY <1>1, <1>2, <1>3, <1>5, <1>6, <1>7 DEF Covered, f, z

(* The call goes on in order. *)
LEMMA AdvanceKeeps ==
  ASSUME CallOK, ~Idle, Recorded, UNCHANGED writes, Advance \/ UNCHANGED call
  PROVE  CallOK'
<1>1. Size \in 1 .. call.size /\ call.op \in {"read", "write"}
  BY IterationIs
<1>2. content' \in [Units -> Values]
  BY DEF Recorded, CallOK
<1>3. /\ call \in [op : {"none", "read", "write"}, offset : Nat, size : Nat, data : Values]
      /\ call.size \in Nat /\ call.offset \in Nat /\ call.size > 0
      /\ call.offset + call.size <= Blocks * CacheSize
  BY DEF CallOK, Idle
<1>4. CASE UNCHANGED call
  BY <1>2, <1>4 DEF CallOK
<1>5. CASE Advance /\ call.size = Size
  BY <1>2, <1>5 DEF CallOK, Advance, NoCall, Values
<1>6. CASE Advance /\ call.size # Size
  <2> DEFINE c == [call EXCEPT !.offset = call.offset + Size]
  <2>1. call' = [c EXCEPT !.size = call.size - Size]
    BY <1>6 DEF Advance
  <2>2. c \in [op : {"none", "read", "write"}, offset : Nat, size : Nat, data : Values]
    BY <1>1, <1>3
  <2>3. c.op = call.op /\ c.offset = call.offset + Size /\ c.data = call.data
    BY <1>3
  <2> HIDE DEF c
  <2>4. /\ call'.op = call.op /\ call'.offset = call.offset + Size
        /\ call'.size = call.size - Size /\ call'.data = call.data
    BY <2>1, <2>2, <2>3
  <2>5. call' \in [op : {"none", "read", "write"}, offset : Nat, size : Nat, data : Values]
    BY <1>1, <1>3, <2>1, <2>2
  <2>6. call'.offset + call'.size <= Blocks * CacheSize
    BY <1>1, <1>3, <2>4
  <2> QED BY <1>1, <1>2, <2>4, <2>5, <2>6 DEF CallOK
<1> QED BY <1>4, <1>5, <1>6

(* The request of an iteration. *)
LEMMA RequestIs ==
  ASSUME CallOK, ~Idle, NEW s \in Slots
  PROVE  /\ Request(s) \in Asks
         /\ Request(s).slot = s /\ Request(s).op = call.op
         /\ Request(s).offset = call.offset /\ DOMAIN Request(s).data = Covered
         /\ \A u \in Covered : Request(s).data[u] = IF call.op = "write" THEN call.data ELSE content[u]
         /\ \A u \in DOMAIN Request(s).data : LbaOf(u) = LbaOf(Request(s).offset)
<1> DEFINE D == IF call.op = "write" THEN [u \in Covered |-> call.data]
                ELSE [u \in Covered |-> content[u]]
<1>1. /\ call.op \in {"read", "write"} /\ call.offset \in Units /\ Size \in Nat
      /\ Covered \in SUBSET Units /\ \A u \in Covered : LbaOf(u) = Lba
  <2>1. Size \in 1 .. call.size /\ call.size \in Nat
    BY IterationIs DEF CallOK
  <2> QED BY <2>1, IterationIs
<1>2. D \in [Covered -> Values]
  BY <1>1 DEF CallOK
<1>3. Request(s) = [slot |-> s, op |-> call.op, offset |-> call.offset, size |-> Size, data |-> D]
  BY DEF Request
<1>4. \A u \in Covered : D[u] = IF call.op = "write" THEN call.data ELSE content[u]
  OBVIOUS
<1> HIDE DEF D
<1>5. D \in UNION {[E -> Values] : E \in SUBSET Units} /\ DOMAIN D = Covered
  BY <1>1, <1>2
<1>6. Request(s) \in Asks
  BY <1>1, <1>3, <1>5 DEF Asks
<1> QED BY <1>1, <1>3, <1>4, <1>5, <1>6 DEF Lba

(* The data of a write in a buffer. *)
LEMMA WrittenIs ==
  ASSUME CallOK, ~Idle, call.op = "write", NEW s \in Slots, NEW b \in Buffers
  PROVE  /\ Written(b, s, Request(s)) \in Buffers
         /\ \A t \in Slots : t # s => Written(b, s, Request(s))[t] = b[t]
         /\ \A u \in Units : LbaOf(u) = Lba =>
              Written(b, s, Request(s))[s][OffsetOf(u)]
                = IF u \in Covered THEN call.data ELSE b[s][OffsetOf(u)]
<1> DEFINE r == Request(s)
           g == [o \in Offsets |->
                  IF UnitOf(r, o) \in DOMAIN r.data THEN r.data[UnitOf(r, o)] ELSE b[s][o]]
<1>1. /\ r.offset = call.offset /\ DOMAIN r.data = Covered
      /\ \A u \in Covered : r.data[u] = call.data
  BY RequestIs
<1>2. b[s] \in [Offsets -> Values] /\ call.data \in Values
  BY DEF Buffers, CallOK
<1>3. Written(b, s, r) = [b EXCEPT ![s] = g]
  BY <1>2 DEF Written
<1>4. \A o \in Offsets : g[o] = IF UnitAt(Lba, o) \in Covered THEN call.data ELSE b[s][o]
  BY <1>1 DEF UnitOf, Lba
<1> HIDE DEF r
<1>5. g = [o \in Offsets |-> g[o]]
  OBVIOUS
<1> HIDE DEF g
<1>6. g \in [Offsets -> Values]
  BY <1>2, <1>4, <1>5
<1>7. /\ Written(b, s, r) \in Buffers /\ Written(b, s, r)[s] = g
      /\ \A t \in Slots : t # s => Written(b, s, r)[t] = b[t]
  BY <1>3, <1>6 DEF Buffers
<1>8. ASSUME NEW u \in Units, LbaOf(u) = Lba
      PROVE  g[OffsetOf(u)] = IF u \in Covered THEN call.data ELSE b[s][OffsetOf(u)]
  BY <1>4, <1>8, UnitParts
<1> QED BY <1>7, <1>8 DEF r
(* What this iteration records. *)
LEMMA RecordedIs ==
  ASSUME CallOK, Recorded
  PROVE  /\ content' \in [Units -> Values]
         /\ \A u \in Units : content'[u] = IF call.op = "write" /\ u \in Covered
                                          THEN call.data ELSE content[u]
BY DEF CallOK, Recorded

-----------------------------------------------------------------------------
LEMMA InitInv == Init => IInv
<1> SUFFICES ASSUME Init
             PROVE  IInv
  OBVIOUS
<1>1. CallOK
  BY DEF Init, CallOK, NoCall, Values
<1>2. Blocked(disk, valid, lba, buffer)
  <2>1. 0 \in Values /\ 0 \in Lbas /\ IDLE \in 0 .. 3
    BY DEF Values, Lbas, IDLE
  <2>2. /\ disk \in [Units -> Values] /\ valid \in [Slots -> 0 .. 3]
        /\ lba \in [Slots -> Lbas] /\ buffer \in Buffers
    BY <2>1 DEF Init, Buffers
  <2>3. Unique(valid, lba) /\ Clean(disk, valid, lba, buffer)
    BY DEF Init, Unique, Clean, IDLE, ACTIVE
  <2> QED BY <2>2, <2>3 DEF Blocked
<1>3. Table(valid, lba, point)
  <2>1. point = <<>> /\ Len(point) = 0 /\ point \in Seq(Slots)
    BY DEF Init
  <2>2. \A s \in Slots : valid[s] = IDLE /\ ~ (s < 0)
    BY DEF Init, Slots
  <2>3. {point[i] : i \in 1 .. 0} = {} /\ 0 .. 0 - 1 = {} /\ 1 .. 0 = {}
    OBVIOUS
  <2> QED BY <2>1, <2>2, <2>3 DEF Table
<1>4. Open(ViewOf(disk, valid, lba, buffer), valid, lba, requests, content)
  <2>1. ASSUME NEW u \in Units
        PROVE  ViewOf(disk, valid, lba, buffer)[u] = content[u]
    <3>1. \A s \in Slots : ~ (valid[s] \in Loadeds /\ lba[s] = LbaOf(u))
      BY DEF Init, Loadeds, IDLE, ACTIVE, DIRTY
    <3>2. Seen(disk, valid, lba, buffer, u) = disk[u]
      BY <3>1, SeenUnloaded
    <3> QED BY <3>2 DEF ViewOf, Init
  <2>2. requests = <<>>
    BY DEF Init
  <2> QED BY <2>1, <2>2, OpenNone
<1>5. ~misread /\ failed = "no"
  BY DEF Init
<1> QED BY <1>1, <1>2, <1>3, <1>4, <1>5 DEF IInv

LEMMA BeginInv ==
  ASSUME IInv, Begin
  PROVE  IInv'
<1>1. CallOK'
  <2>1. PICK op \in {"read", "write"}, o \in Units, n \in 1 .. CacheSize + 1 :
          /\ o + n - 1 \in Units
          /\ op = "write" => writes < MaxWrites
          /\ writes' = writes + (IF op = "write" THEN 1 ELSE 0)
          /\ call' = [op |-> op, offset |-> o, size |-> n,
                      data |-> IF op = "write" THEN writes' ELSE 0]
    BY DEF Begin
  <2>2. writes \in 0 .. MaxWrites /\ content \in [Units -> Values] /\ content' = content
    BY DEF IInv, CallOK, Begin
  <2>3. writes' \in Nat /\ writes' <= MaxWrites
    BY <2>1, <2>2
  <2>4. o \in Nat /\ n \in Nat /\ o + n <= Blocks * CacheSize
    <3>1. Blocks * CacheSize \in Nat
      OBVIOUS
    <3> QED BY <2>1, <3>1 DEF Units
  <2>5. call'.op = op /\ call'.offset = o /\ call'.size = n
    BY <2>1
  <2>6. (IF op = "write" THEN writes' ELSE 0) \in Values
    BY <2>3 DEF Values
  <2>7. call' \in [op : {"none", "read", "write"}, offset : Nat, size : Nat, data : Values]
    BY <2>1, <2>4, <2>6
  <2>8. call'.op \in {"read", "write"} /\ call'.offset + call'.size <= Blocks * CacheSize
    BY <2>4, <2>5
  <2>9. writes' \in 0 .. MaxWrites
    BY <2>3
  <2> QED BY <2>2, <2>7, <2>8, <2>9 DEF CallOK
<1>2. UNCHANGED <<disk, valid, lba, buffer, point, requests, content, misread, failed>>
  BY DEF Begin, blockvars
<1> QED BY <1>1, <1>2 DEF IInv

LEMMA HitLoadedInv ==
  ASSUME IInv, HitLoaded, failed = "no"
  PROVE  IInv'
<1> DEFINE V == ViewOf(disk, valid, lba, buffer)
<1>1. /\ CallOK /\ Blocked(disk, valid, lba, buffer) /\ Table(valid, lba, point) /\ ~misread
      /\ Open(V, valid, lba, requests, content)
  BY DEF IInv
<1>2. PICK s \in Found :
        /\ valid[s] \in {ACTIVE, DIRTY}
        /\ IF call.op = "write"
           THEN /\ buffer' = Written(buffer, s, Request(s))
                /\ valid' = [valid EXCEPT ![s] = DIRTY]
                /\ UNCHANGED misread
           ELSE /\ misread' = (misread \/ ~ReadsWell(buffer, s, Request(s)))
                /\ UNCHANGED <<buffer, valid>>
  BY DEF HitLoaded
<1>3. /\ ~Idle /\ Advance /\ Recorded
      /\ UNCHANGED <<writes, disk, lba, point, requests, failed>>
  BY DEF HitLoaded
<1>4. s \in Slots /\ lba[s] = Lba /\ valid[s] \in Loadeds
  <2>1. Len(point) \in Nat /\ Len(point) <= MaxCaches
    BY <1>1 DEF Table
  <2> QED BY <1>2, <2>1 DEF Found, Slots, Loadeds
<1>5. \A t \in Slots : valid[t] = ENABLE => lba[t] # Lba
  BY <1>1, <1>4 DEF Blocked, Unique, Loadeds, IDLE, ENABLE, ACTIVE, DIRTY
<1>6. CallOK'
  BY <1>1, <1>3, AdvanceKeeps
<1>7. /\ content' \in [Units -> Values]
      /\ \A u \in Units : content'[u] = IF call.op = "write" /\ u \in Covered
                                       THEN call.data ELSE content[u]
  BY <1>1, <1>3, RecordedIs
<1>8. \A u \in Units : LbaOf(u) = Lba => V[u] = content[u]
  BY <1>1, <1>5, NotAskedHolds
<1>9. CASE call.op = "write"
  <2> DEFINE W == ViewOf(disk, valid', lba, buffer')
  <2>1. /\ buffer' \in Buffers /\ \A t \in Slots : t # s => buffer'[t] = buffer[t]
        /\ \A u \in Units : LbaOf(u) = Lba =>
             buffer'[s][OffsetOf(u)] = IF u \in Covered THEN call.data ELSE buffer[s][OffsetOf(u)]
    <3>1. buffer \in Buffers /\ buffer' = Written(buffer, s, Request(s))
      BY <1>1, <1>2, <1>9 DEF Blocked
    <3> QED BY <1>1, <1>3, <1>4, <1>9, <3>1, WrittenIs
  <2>2. /\ valid' \in [Slots -> 0 .. 3] /\ valid'[s] = DIRTY
        /\ \A t \in Slots : t # s => valid'[t] = valid[t]
    <3>1. valid \in [Slots -> 0 .. 3] /\ valid' = [valid EXCEPT ![s] = DIRTY]
      BY <1>1, <1>2, <1>9 DEF Blocked
    <3> QED BY <1>4, <3>1 DEF DIRTY
  <2>3. /\ Blocked(disk, valid', lba, buffer')
        /\ \A u \in Units : LbaOf(u) # lba[s] => Seen(disk, valid', lba, buffer', u) = View[u]
        /\ \A u \in Units : LbaOf(u) = lba[s] =>
             /\ Seen(disk, valid', lba, buffer', u) = buffer'[s][OffsetOf(u)]
             /\ View[u] = buffer[s][OffsetOf(u)]
    BY <1>1, <1>4, <2>1, <2>2, HitView
  <2>4. Table(valid', lba, point)
    <3>1. \A t \in Slots : valid'[t] # IDLE <=> valid[t] # IDLE
      BY <1>4, <2>2 DEF Loadeds, IDLE, ACTIVE, DIRTY
    <3> QED BY <1>1, <3>1, TableKept
  <2>5. ASSUME NEW u \in Units
        PROVE  \/ W[u] = V[u] /\ content'[u] = content[u]
               \/ W[u] = content'[u] /\ \A i \in 1 .. Len(requests) : u \notin DOMAIN requests[i].data
    <3>1. W[u] = Seen(disk, valid', lba, buffer', u) /\ View[u] = V[u]
      BY ViewIs DEF ViewOf
    <3>2. CASE LbaOf(u) = Lba
      <4>1. \A i \in 1 .. Len(requests) : u \notin DOMAIN requests[i].data
        BY <1>1, <1>5, <3>2, NotAsked
      <4>2. W[u] = IF u \in Covered THEN call.data ELSE V[u]
        BY <1>4, <2>1, <2>3, <3>1, <3>2
      <4> QED BY <1>7, <1>8, <1>9, <3>2, <4>1, <4>2
    <3>3. CASE LbaOf(u) # Lba
      <4>1. u \notin Covered
        BY <1>1, <1>3, <3>3, IterationIs
      <4> QED BY <1>4, <1>7, <2>3, <3>1, <3>3, <4>1
    <3> QED BY <3>2, <3>3
  <2>6. \A t \in Slots : valid[t] = ENABLE => valid'[t] = ENABLE /\ lba[t] = lba[t]
    BY <1>4, <2>2 DEF Loadeds, ENABLE, ACTIVE, DIRTY
  <2>7. Open(W, valid', lba, requests, content')
    <3> HIDE DEF V, W
    <3> QED BY <1>1, <2>5, <2>6, OpenKept
  <2>8. ~misread'
    BY <1>1, <1>2, <1>9
  <2> QED BY <1>3, <1>6, <2>3, <2>4, <2>7, <2>8 DEF IInv
<1>10. CASE call.op # "write"
  <2>1. UNCHANGED <<buffer, valid>> /\ content' = content
    BY <1>2, <1>3, <1>10 DEF Recorded
  <2>2. ReadsWell(buffer, s, Request(s))
    <3> SUFFICES ASSUME NEW u \in Covered
                 PROVE  buffer[s][OffsetOf(u)] = Request(s).data[u]
      BY <1>1, <1>3, <1>4, RequestIs DEF ReadsWell
    <3>1. Request(s).data[u] = content[u]
      BY <1>1, <1>3, <1>4, <1>10, RequestIs
    <3>2. u \in Units /\ LbaOf(u) = Lba
      BY <1>1, <1>3, IterationIs
    <3>3. V[u] = content[u]
      BY <1>8, <3>2
    <3>4. Seen(disk, valid, lba, buffer, u) = buffer[s][OffsetOf(u)]
      <4>1. Unique(valid, lba)
        BY <1>1 DEF Blocked
      <4> QED BY <1>4, <3>2, <4>1, SeenLoaded
    <3> QED BY <3>1, <3>2, <3>3, <3>4 DEF ViewOf
  <2>3. ~misread'
    BY <1>1, <1>2, <1>10, <2>2
  <2> QED BY <1>1, <1>3, <1>6, <2>1, <2>3 DEF IInv
<1> QED BY <1>9, <1>10
(* The request of this iteration, for slot s that is not read yet. *)
LEMMA RequestOpen ==
  ASSUME CallOK, ~Idle, Recorded, NEW V, NEW v, NEW l, NEW q, Open(V, v, l, q, content),
         NEW s \in Slots, v[s] = ENABLE, l[s] = Lba
  PROVE  Open(V, v, l, Append(q, Request(s)), content')
<1> DEFINE r == Request(s)
<1>1. /\ r \in Asks /\ r.slot = s /\ r.op = call.op /\ r.offset = call.offset
      /\ DOMAIN r.data = Covered
      /\ \A u \in Covered : r.data[u] = IF call.op = "write" THEN call.data ELSE content[u]
      /\ \A u \in DOMAIN r.data : LbaOf(u) = LbaOf(r.offset)
  BY RequestIs
<1> HIDE DEF r
<1>2. Asked(v, l, r)
  BY <1>1 DEF Asked, Lba
<1>3. r.op = "read" => \A u \in DOMAIN r.data : r.data[u] = content[u]
  BY <1>1
<1>4. \A u \in Units : content'[u] = IF r.op = "write" /\ u \in DOMAIN r.data
                                   THEN r.data[u] ELSE content[u]
  BY <1>1, RecordedIs
<1>5. Open(V, v, l, Append(q, r), content')
  BY <1>1, <1>2, <1>3, <1>4, OpenAppend
<1> QED BY <1>5 DEF r

LEMMA HitEnabledInv ==
  ASSUME IInv, HitEnabled, failed = "no"
  PROVE  IInv'
<1> DEFINE V == ViewOf(disk, valid, lba, buffer)
<1>1. /\ CallOK /\ Blocked(disk, valid, lba, buffer) /\ Table(valid, lba, point) /\ ~misread
      /\ Open(V, valid, lba, requests, content)
  BY DEF IInv
<1>2. PICK s \in Found : valid[s] = ENABLE /\ Enqueue(s)
  BY DEF HitEnabled
<1>3. /\ ~Idle /\ Advance /\ Recorded
      /\ UNCHANGED <<writes, disk, valid, lba, buffer, point, misread>>
  BY DEF HitEnabled, blockvars
<1>4. s \in Slots /\ lba[s] = Lba
  <2>1. Len(point) \in Nat /\ Len(point) <= MaxCaches
    BY <1>1 DEF Table
  <2> QED BY <1>2, <2>1 DEF Found, Slots
<1>5. CallOK'
  BY <1>1, <1>3, AdvanceKeeps
<1>6. CASE Len(requests) < MaxRequests
  <2>1. requests' = Append(requests, Request(s)) /\ failed' = "no"
    BY <1>2, <1>6 DEF Enqueue
  <2>2. Open(V, valid, lba, Append(requests, Request(s)), content')
    BY <1>1, <1>2, <1>3, <1>4, RequestOpen
  <2> QED BY <1>1, <1>3, <1>5, <2>1, <2>2 DEF IInv
<1>7. CASE ~ (Len(requests) < MaxRequests)
  <2>1. requests' = requests /\ failed' = "request behind the table"
    BY <1>2, <1>7 DEF Enqueue
  <2>2. requests # <<>>
    BY <1>7
  <2> QED BY <1>1, <1>3, <1>5, <2>1, <2>2 DEF IInv
<1> QED BY <1>6, <1>7

LEMMA MissFullInv ==
  ASSUME IInv, MissFull
  PROVE  IInv'
<1>1. /\ call' = NoCall
      /\ UNCHANGED <<writes, disk, valid, lba, buffer, point, requests, content, misread, failed>>
  BY DEF MissFull, blockvars
<1>2. CallOK'
  BY <1>1 DEF IInv, CallOK, NoCall, Values
<1> QED BY <1>1, <1>2 DEF IInv

LEMMA MissWholeInv ==
  ASSUME IInv, MissWhole, failed = "no"
  PROVE  IInv'
<1> DEFINE V == ViewOf(disk, valid, lba, buffer)
           s == NewSlot
           W == ViewOf(disk, valid', lba', buffer')
<1>1. /\ CallOK /\ Blocked(disk, valid, lba, buffer) /\ Table(valid, lba, point) /\ ~misread
      /\ Open(V, valid, lba, requests, content)
  BY DEF IInv
<1>2. /\ ~Idle /\ Found = {} /\ CanCreate
      /\ call.op = "write" /\ Offset = 0 /\ Size = CacheSize
      /\ valid' = [valid EXCEPT ![s] = DIRTY] /\ lba' = [lba EXCEPT ![s] = Lba]
      /\ point' = Inserted(Kept, s, Lba)
      /\ buffer' = Written(buffer, s, Request(s)) /\ Recorded
      /\ UNCHANGED <<writes, disk, requests, call, misread, failed>>
  BY DEF MissWhole, Created
<1>3. /\ valid \in [Slots -> 0 .. 3] /\ lba \in [Slots -> Lbas] /\ buffer \in Buffers
      /\ Lba \in Lbas
  BY <1>1, <1>2, IterationIs DEF Blocked
<1>4. /\ s \in Slots /\ valid[s] \in {IDLE, ACTIVE}
      /\ \A t \in Slots : valid[t] # IDLE => lba[t] # Lba
      /\ Table(valid', lba', point')
  BY <1>1, <1>2, <1>3, CreatedTable
<1> HIDE DEF s
<1>5. CallOK'
  BY <1>1, <1>2, AdvanceKeeps
<1>6. /\ buffer' \in Buffers /\ \A t \in Slots : t # s => buffer'[t] = buffer[t]
      /\ \A u \in Units : LbaOf(u) = Lba =>
           buffer'[s][OffsetOf(u)] = IF u \in Covered THEN call.data ELSE buffer[s][OffsetOf(u)]
  BY <1>1, <1>2, <1>3, <1>4, WrittenIs
<1>7. /\ valid' \in [Slots -> 0 .. 3] /\ lba' \in [Slots -> Lbas]
      /\ valid'[s] = DIRTY /\ lba'[s] = Lba
      /\ \A t \in Slots : t # s => valid'[t] = valid[t] /\ lba'[t] = lba[t]
  BY <1>2, <1>3, <1>4 DEF DIRTY
<1>8. /\ Blocked(disk, valid', lba', buffer')
      /\ \A u \in Units : LbaOf(u) # Lba => Seen(disk, valid', lba', buffer', u) = View[u]
      /\ \A u \in Units : LbaOf(u) = Lba =>
           Seen(disk, valid', lba', buffer', u) = buffer'[s][OffsetOf(u)]
  BY <1>1, <1>3, <1>4, <1>6, <1>7, CreatedView
<1>9. \A u \in Units : content'[u] = IF call.op = "write" /\ u \in Covered
                                   THEN call.data ELSE content[u]
  BY <1>1, <1>2, RecordedIs
<1>10. \A t \in Slots : valid[t] = ENABLE => lba[t] # Lba
  BY <1>4 DEF IDLE, ENABLE
<1>11. ASSUME NEW u \in Units
       PROVE  \/ W[u] = V[u] /\ content'[u] = content[u]
              \/ W[u] = content'[u] /\ \A i \in 1 .. Len(requests) : u \notin DOMAIN requests[i].data
  <2>1. W[u] = Seen(disk, valid', lba', buffer', u) /\ View[u] = V[u]
    BY ViewIs DEF ViewOf
  <2>2. CASE LbaOf(u) = Lba
    <3>1. \A i \in 1 .. Len(requests) : u \notin DOMAIN requests[i].data
      BY <1>1, <1>10, <2>2, NotAsked
    <3>2. u \in Covered
      BY <1>1, <1>2, <2>2, IterationIs
    <3> QED BY <1>2, <1>6, <1>8, <1>9, <2>1, <2>2, <3>1, <3>2
  <2>3. CASE LbaOf(u) # Lba
    <3>1. u \notin Covered
      BY <1>1, <1>2, <2>3, IterationIs
    <3> QED BY <1>8, <1>9, <2>1, <2>3, <3>1
  <2> QED BY <2>2, <2>3
<1>12. \A t \in Slots : valid[t] = ENABLE => valid'[t] = ENABLE /\ lba'[t] = lba[t]
  BY <1>4, <1>7 DEF IDLE, ENABLE, ACTIVE
<1>13. Open(W, valid', lba', requests, content')
  <2> HIDE DEF V, W
  <2> QED BY <1>1, <1>11, <1>12, OpenKept
<1> QED BY <1>1, <1>2, <1>4, <1>5, <1>8, <1>13 DEF IInv

LEMMA MissInv ==
  ASSUME IInv, Miss, failed = "no"
  PROVE  IInv'
<1> DEFINE V == ViewOf(disk, valid, lba, buffer)
           s == NewSlot
           v == [valid EXCEPT ![s] = ENABLE]
           l == [lba EXCEPT ![s] = Lba]
           p == Inserted(Kept, s, Lba)
           q == Append(requests, Request(s))
           w == Synced(v, buffer, l, q)
<1>1. /\ CallOK /\ Blocked(disk, valid, lba, buffer) /\ Table(valid, lba, point) /\ ~misread
      /\ Open(V, valid, lba, requests, content)
  BY DEF IInv
<1>2. /\ ~Idle /\ Found = {} /\ CanCreate /\ Advance /\ Recorded
      /\ UNCHANGED <<writes, disk>> /\ lba' = l /\ point' = p
      /\ \/ /\ Len(q) < MaxRequests
            /\ valid' = v /\ requests' = q /\ UNCHANGED <<buffer, misread, failed>>
         \/ /\ Len(q) = MaxRequests
            /\ valid' = w.valid /\ buffer' = w.buffer /\ misread' = w.misread
            /\ requests' = <<>> /\ UNCHANGED failed
         \/ /\ ~ (Len(q) < MaxRequests) /\ Len(q) # MaxRequests
            /\ failed' = "request behind the table"
            /\ valid' = v /\ UNCHANGED <<requests, buffer, misread>>
  BY DEF Miss
<1>3. /\ valid \in [Slots -> 0 .. 3] /\ lba \in [Slots -> Lbas] /\ buffer \in Buffers
      /\ Lba \in Lbas
  BY <1>1, <1>2, IterationIs DEF Blocked
<1>4. /\ s \in Slots /\ valid[s] \in {IDLE, ACTIVE}
      /\ \A t \in Slots : valid[t] # IDLE => lba[t] # Lba
      /\ Table(v, l, p)
  BY <1>1, <1>2, <1>3, CreatedTable
<1> HIDE DEF s
<1>5. CallOK' /\ content' \in [Units -> Values]
  BY <1>1, <1>2, AdvanceKeeps, RecordedIs
<1>6. /\ v \in [Slots -> 0 .. 3] /\ l \in [Slots -> Lbas]
      /\ v[s] = ENABLE /\ l[s] = Lba
      /\ \A t \in Slots : t # s => v[t] = valid[t] /\ l[t] = lba[t]
  BY <1>3, <1>4 DEF ENABLE
<1> HIDE DEF v, l, p
<1>7. Blocked(disk, v, l, buffer) /\ ViewOf(disk, v, l, buffer) = V
  <2>1. Blocked(disk, v, l, buffer) /\ ViewOf(disk, v, l, buffer) = View
    BY <1>1, <1>3, <1>4, <1>6, CreatedView
  <2> QED BY <2>1, ViewIs
<1>8. Open(V, v, l, requests, content)
  <2>1. \A t \in Slots : valid[t] = ENABLE => v[t] = ENABLE /\ l[t] = lba[t]
    BY <1>4, <1>6 DEF IDLE, ENABLE, ACTIVE
  <2> HIDE DEF V
  <2> QED BY <1>1, <2>1, OpenKept
<1>9. Open(V, v, l, q, content')
  <2> HIDE DEF V
  <2> QED BY <1>1, <1>2, <1>4, <1>6, <1>8, RequestOpen
<1>10. /\ Blocked(disk, w.valid, l, w.buffer)
       /\ ViewOf(disk, w.valid, l, w.buffer) = content'
       /\ ~ w.misread
       /\ \A t \in Slots : w.valid[t] # IDLE <=> v[t] # IDLE
  <2>1. Open(ViewOf(disk, v, l, buffer), v, l, q, content')
    BY <1>7, <1>9
  <2> HIDE DEF q, V
  <2> QED BY <1>1, <1>5, <1>7, <2>1, SyncedIs
<1> HIDE DEF w
<1>11. CASE Len(q) < MaxRequests
  <2> HIDE DEF q, V
  <2>1. Len(q) # MaxRequests
    BY <1>11
  <2>2. valid' = v /\ requests' = q /\ UNCHANGED <<buffer, misread, failed>>
    BY <1>2, <1>11, <2>1
  <2> QED BY <1>1, <1>2, <1>4, <1>5, <1>7, <1>9, <2>2 DEF IInv
<1>12. CASE Len(q) = MaxRequests
  <2>1. /\ valid' = w.valid /\ buffer' = w.buffer /\ misread' = w.misread
        /\ requests' = <<>> /\ UNCHANGED failed
    BY <1>2, <1>12
  <2>2. Table(w.valid, l, p)
    BY <1>4, <1>10, TableKept
  <2>3. Open(ViewOf(disk, w.valid, l, w.buffer), w.valid, l, <<>>, content')
    BY <1>10, OpenNone
  <2> HIDE DEF q, V
  <2> QED BY <1>1, <1>2, <1>5, <1>10, <2>1, <2>2, <2>3 DEF IInv
<1>13. CASE ~ (Len(q) < MaxRequests) /\ Len(q) # MaxRequests
  <2>1. /\ failed' = "request behind the table"
        /\ valid' = v /\ UNCHANGED <<requests, buffer, misread>>
    BY <1>2, <1>13
  <2>2. requests # <<>>
    <3>1. requests \in Seq(Asks) /\ Len(q) = Len(requests) + 1
      BY <1>1 DEF Open
    <3> QED BY <1>13, <3>1
  <2> HIDE DEF q, V
  <2> QED BY <1>1, <1>2, <1>4, <1>5, <1>7, <2>1, <2>2 DEF IInv
<1> QED BY <1>11, <1>12, <1>13

LEMMA SyncInv ==
  ASSUME IInv, Sync, failed = "no"
  PROVE  IInv'
<1> DEFINE w == Synced(valid, buffer, lba, requests)
<1>1. /\ CallOK /\ Blocked(disk, valid, lba, buffer) /\ Table(valid, lba, point) /\ ~misread
      /\ Open(ViewOf(disk, valid, lba, buffer), valid, lba, requests, content)
      /\ content \in [Units -> Values]
  BY DEF IInv, CallOK
<1>2. /\ valid' = w.valid /\ buffer' = w.buffer /\ misread' = w.misread /\ requests' = <<>>
      /\ UNCHANGED <<writes, disk, lba, point, call, content, failed>>
  BY DEF Sync
<1>3. /\ Blocked(disk, w.valid, lba, w.buffer)
      /\ ViewOf(disk, w.valid, lba, w.buffer) = content
      /\ ~ w.misread
      /\ \A s \in Slots : w.valid[s] # IDLE <=> valid[s] # IDLE
  BY <1>1, SyncedIs
<1> HIDE DEF w
<1>4. Table(w.valid, lba, point)
  BY <1>1, <1>3, TableKept
<1>5. Open(ViewOf(disk, w.valid, lba, w.buffer), w.valid, lba, <<>>, content)
  BY <1>3, OpenNone
<1>6. CallOK'
  BY <1>1, <1>2 DEF CallOK
<1> QED BY <1>2, <1>3, <1>4, <1>5, <1>6 DEF IInv

LEMMA FlushInv ==
  ASSUME IInv, Flush, failed = "no"
  PROVE  IInv'
<1> DEFINE V == ViewOf(disk, valid, lba, buffer)
<1>1. /\ CallOK /\ Blocked(disk, valid, lba, buffer) /\ Table(valid, lba, point) /\ ~misread
      /\ Open(V, valid, lba, requests, content)
  BY DEF IInv
<1>2. /\ disk' = Flushed(disk, valid, lba, buffer) /\ valid' = Cleaned(valid)
      /\ UNCHANGED <<writes, lba, buffer, point, requests, call, content, misread, failed>>
  BY DEF Flush, Flushed, Cleaned
<1>3. Blocked(disk', valid', lba, buffer) /\ ViewOf(disk', valid', lba, buffer) = V
  BY <1>1, <1>2, FlushIs
<1>4. ASSUME NEW s \in Slots
      PROVE  valid'[s] = IF valid[s] = DIRTY THEN ACTIVE ELSE valid[s]
  BY <1>2 DEF Cleaned
<1>5. Table(valid', lba, point)
  <2>1. \A s \in Slots : valid'[s] # IDLE <=> valid[s] # IDLE
    BY <1>4 DEF IDLE, ACTIVE, DIRTY
  <2> QED BY <1>1, <2>1, TableKept
<1>6. Open(V, valid', lba, requests, content)
  <2>1. \A s \in Slots : valid[s] = ENABLE => valid'[s] = ENABLE /\ lba[s] = lba[s]
    BY <1>4 DEF ENABLE, DIRTY
  <2> HIDE DEF V
  <2> QED BY <1>1, <2>1, OpenKept
<1>7. CallOK'
  BY <1>1, <1>2 DEF CallOK
<1> QED BY <1>1, <1>2, <1>3, <1>5, <1>6, <1>7 DEF IInv

-----------------------------------------------------------------------------
(* The inductive invariant holds in every reachable state. *)
THEOREM CacheInductive == Spec => []IInv
<1>1. IInv /\ [Next]_vars => IInv'
  <2> SUFFICES ASSUME IInv, [Next]_vars
               PROVE  IInv'
    OBVIOUS
  <2>1. CASE Next
    BY <2>1, BeginInv, HitLoadedInv, HitEnabledInv, MissFullInv, MissWholeInv, MissInv,
       SyncInv, FlushInv DEF Next
  <2>2. CASE UNCHANGED vars
    BY <2>2 DEF IInv, vars, blockvars, CallOK
  <2> QED BY <2>1, <2>2
<1> QED BY <1>1, InitInv, PTL DEF Spec

(* cache.c, insert_sorted and _cache_block_rel: cache_blocks_point lists the
   used blocks once each, in the order of the disk, for every size of the
   table. *)
THEOREM CacheBlockTable == Spec => []BlockTable
<1>1. IInv => BlockTable
  BY DEF IInv, Table, BlockTable
<1> QED BY <1>1, CacheInductive, PTL

(* cache.c, cache_write to cache_flush_ahci: with no request open, cache and
   disk hold what the callers wrote, whatever they wrote before. *)
THEOREM CacheNothingLost == Spec => []NothingLost
<1>1. IInv => NothingLost
  <2> SUFFICES ASSUME IInv, requests = <<>>
               PROVE  View = content
    BY DEF NothingLost
  <2>1. Open(ViewOf(disk, valid, lba, buffer), valid, lba, <<>>, content)
    BY DEF IInv
  <2>2. \A u \in Units : ViewOf(disk, valid, lba, buffer)[u] = content[u]
    BY <2>1, OpenNone
  <2>3. content \in [Units -> Values]
    BY DEF IInv, CallOK
  <2>4. View = [u \in Units |-> View[u]]
    BY DEF View
  <2>5. \A u \in Units : View[u] = content[u]
    BY <2>2, ViewIs
  <2> QED BY <2>3, <2>4, <2>5
<1> QED BY <1>1, CacheInductive, PTL

(* cache.c, _cache_block_rel: a block that is released without being written
   holds what the disk holds. *)
THEOREM CacheCleanIsOnDisk == Spec => []CleanIsOnDisk
<1>1. IInv => CleanIsOnDisk
  BY DEF IInv, Blocked, Clean, CleanIsOnDisk
<1> QED BY <1>1, CacheInductive, PTL

(* cache.c, cache_read and cache_sync_ahci: every read gets what the units
   held when it was called. *)
THEOREM CacheReadsRight == Spec => []ReadsRight
<1>1. IInv => ReadsRight
  BY DEF IInv, ReadsRight
<1> QED BY <1>1, CacheInductive, PTL
=============================================================================
