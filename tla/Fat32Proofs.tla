---------------------------- MODULE Fat32Proofs ----------------------------
(***************************************************************************)
(* Proofs about Fat32, for every number of clusters, of units, of files    *)
(* and of handles, with one sector to a cluster (with more, a write that   *)
(* starts inside a cluster goes to another place: the model finds it), for *)
(* callers that write to and cut files through handles that are current.   *)
(*                                                                         *)
(* The invariant says that the writes still to come lead from the disk, by *)
(* disks each of which has every file but one whole, to one on which the   *)
(* volume is in order with the table the call left in memory: its chains   *)
(* form a tree from the directory and the entries, each as long as its     *)
(* file wants, and the entries agree with the handles that are current and *)
(* with what was written.                                                  *)
(***************************************************************************)
EXTENDS Fat32, FiniteSetTheorems, WellFoundedInduction, TLAPS

USE Fat32Assumption

-----------------------------------------------------------------------------
\* Numbers, clusters and units of the disk.

(* A set of numbers has a least element. *)
LEMMA Least ==
  ASSUME NEW n \in Nat, NEW T \in SUBSET (0 .. n), T # {}
  PROVE  \E x \in T : \A y \in T : x <= y
<1> DEFINE D == {0 .. l - 1 : l \in T}
<1>1. T \subseteq Nat
  OBVIOUS
<1>2. D \subseteq FiniteSubsetsOf(Nat) /\ D # {}
  <2>1. ASSUME NEW l \in T
        PROVE  0 .. l - 1 \in FiniteSubsetsOf(Nat)
    <3>1. l \in Int /\ l - 1 \in Int /\ 0 .. l - 1 \in SUBSET Nat
      BY <1>1
    <3>2. IsFiniteSet(0 .. l - 1)
      BY <3>1, FS_Interval
    <3> QED BY <3>1, <3>2 DEF FiniteSubsetsOf
  <2>2. D # {}
    OBVIOUS
  <2> QED BY <2>1, <2>2
<1>3. PICK B \in D : \A C \in D : ~ (<<C, B>> \in StrictSubsetOrdering(Nat))
  BY <1>2, FS_StrictSubsetOrderingWellFounded, WFMin
<1>4. PICK x \in T : B = 0 .. x - 1
  OBVIOUS
<1>5. ASSUME NEW y \in T
      PROVE  ~ (y < x)
  <2>1. 0 .. y - 1 \in D
    OBVIOUS
  <2>2. ~ (0 .. y - 1 \subseteq 0 .. x - 1 /\ 0 .. y - 1 # 0 .. x - 1)
    <3>1. 0 .. y - 1 \in SUBSET Nat /\ 0 .. x - 1 \in SUBSET Nat
      BY <1>1
    <3>2. <<0 .. y - 1, 0 .. x - 1>> \notin StrictSubsetOrdering(Nat)
      BY <1>3, <1>4, <2>1
    <3> QED BY <3>1, <3>2 DEF StrictSubsetOrdering
  <2>3. CASE y < x
    <3>1. y \in 0 .. x - 1 /\ y \notin 0 .. y - 1
      BY <1>1, <2>3
    <3>2. 0 .. y - 1 \subseteq 0 .. x - 1
      BY <1>1, <2>3
    <3> QED BY <2>2, <3>1, <3>2
  <2> QED BY <2>3
<1>6. \A y \in T : x <= y
  BY <1>1, <1>5
<1> QED BY <1>6

(* What holds of 0 and of every next number holds up to n. *)
LEMMA UpTo ==
  ASSUME NEW n \in Nat, NEW S, 0 \in S, \A k \in 0 .. n - 1 : k \in S => k + 1 \in S
  PROVE  0 .. n \subseteq S
<1> DEFINE T == (0 .. n) \ S
<1> SUFFICES ASSUME T # {}
             PROVE  FALSE
  OBVIOUS
<1>1. PICK x \in T : \A y \in T : x <= y
  <2> T \in SUBSET (0 .. n)
    OBVIOUS
  <2> HIDE DEF T
  <2> QED BY Least
<1>2. x # 0 /\ x - 1 \in 0 .. n - 1 /\ (x - 1) + 1 = x
  BY <1>1
<1>3. x - 1 \in T
  BY <1>2
<1> QED BY <1>1, <1>2, <1>3

-----------------------------------------------------------------------------
\* Unit r of cluster c on the disk, and the cluster of a unit.
Unit(c, r) == (c - 2) * ClusterUnits + r
Owner(u) == u \div ClusterUnits + 2

(* A cluster has units. *)
LEMMA Units == ClusterUnits \in Nat \ {0}
  BY DEF ClusterUnits

(* Division with remainder. *)
LEMMA Divided ==
  ASSUME NEW x \in Nat, NEW m \in Nat \ {0}
  PROVE  /\ x \div m \in Nat /\ x % m \in 0 .. m - 1
         /\ (x \div m) * m \in Nat /\ x = (x \div m) * m + (x % m)
<1>1. x \div m \in Nat /\ x % m \in 0 .. m - 1 /\ x = m * (x \div m) + (x % m)
  OBVIOUS
<1> DEFINE q == x \div m
           r == x % m
<1> HIDE DEF q, r
<1>2. q \in Nat /\ r \in 0 .. m - 1 /\ x = m * q + r
  BY <1>1 DEF q, r
<1>3. m * q = q * m /\ q * m \in Nat
  BY <1>2
<1>4. x = q * m + r
  BY <1>2, <1>3
<1> QED BY <1>2, <1>3, <1>4 DEF q, r

(* The quotient and the remainder of a number made of them. *)
LEMMA DividedIs ==
  ASSUME NEW q \in Nat, NEW m \in Nat \ {0}, NEW d \in 0 .. m - 1
  PROVE  (q * m + d) \div m = q /\ (q * m + d) % m = d /\ q * m \in Nat
<1>1. q * m \in Nat
  OBVIOUS
<1> QED BY <1>1

(* Products are ordered like their factors. *)
LEMMA Products ==
  ASSUME NEW a \in Nat, NEW b \in Nat, NEW m \in Nat \ {0}
  PROVE  /\ a * m \in Nat /\ b * m \in Nat
         /\ a < b => a * m + m <= b * m
         /\ a <= b => a * m <= b * m
<1>1. a * m \in Nat /\ b * m \in Nat
  OBVIOUS
<1>2. ASSUME a < b
      PROVE  a * m + m <= b * m
  <2> DEFINE c == b - a - 1
  <2>1. c \in Nat /\ b = a + 1 + c
    BY <1>2
  <2> HIDE DEF c
  <2> DEFINE A == a * m
             B == b * m
             C == c * m
  <2>2. A \in Nat /\ C \in Nat /\ B = A + m + C
    BY <2>1
  <2> HIDE DEF A, B, C
  <2>3. A + m <= B
    BY <2>2
  <2> QED BY <2>3 DEF A, B
<1>3. ASSUME a <= b
      PROVE  a * m <= b * m
  BY <1>1, <1>2, <1>3
<1> QED BY <1>1, <1>2, <1>3

(* An offset below l clusters is in one of them, and no other is. *)
LEMMA Offsets ==
  ASSUME NEW o \in Nat, NEW l \in Nat
  PROVE  /\ o \div ClusterUnits \in Nat /\ o % ClusterUnits \in 0 .. ClusterUnits - 1
         /\ o < l * ClusterUnits <=> o \div ClusterUnits < l
         /\ o = (o \div ClusterUnits) * ClusterUnits + (o % ClusterUnits)
         /\ (o \div ClusterUnits) * ClusterUnits \in Nat /\ l * ClusterUnits \in Nat
<1> DEFINE m == ClusterUnits
           q == o \div m
           r == o % m
           Q == q * m
           L == l * m
<1>1. m \in Nat \ {0}
  BY Units
<1> HIDE DEF m
<1>2. q \in Nat /\ r \in 0 .. m - 1 /\ Q \in Nat /\ o = Q + r
  BY <1>1, Divided
<1> HIDE DEF q, r
<1>3. L \in Nat /\ (q < l => Q + m <= L) /\ (l <= q => L <= Q)
  BY <1>1, <1>2, Products
<1> HIDE DEF Q, L
<1>4. o < L <=> q < l
  BY <1>1, <1>2, <1>3
<1> QED BY <1>2, <1>3, <1>4 DEF q, r, Q, L, m

(* A unit of a cluster is on the disk, and knows its cluster and place. *)
LEMMA UnitParts ==
  ASSUME NEW c \in Cluster, NEW r \in 0 .. ClusterUnits - 1
  PROVE  /\ Unit(c, r) \in DiskUnits /\ Unit(c, r) \in Nat
         /\ Owner(Unit(c, r)) = c /\ Unit(c, r) % ClusterUnits = r
<1> DEFINE m == ClusterUnits
           q == c - 2
           u == q * m + r
<1>1. m \in Nat \ {0} /\ q \in Nat /\ q < Clusters /\ c = q + 2 /\ c \in Nat
  BY Units DEF Cluster
<1> HIDE DEF m, q
<1>2. u \div m = q /\ u % m = r /\ q * m \in Nat
  BY <1>1, DividedIs DEF m
<1>3. q * m + m <= Clusters * m /\ Clusters * m \in Nat
  BY <1>1, Products
<1>4. (Clusters + 1) * m = Clusters * m + m
  BY <1>1
<1> DEFINE Q == q * m
           N == Clusters * m
<1>5. Q \in Nat /\ N \in Nat /\ Q + m <= N /\ (Clusters + 1) * m = N + m /\ u = Q + r
  BY <1>2, <1>3, <1>4
<1> HIDE DEF Q, N
<1>6. u \in Nat /\ u <= N + m - 1 /\ r \in 0 .. m - 1
  BY <1>1, <1>5 DEF m
<1>7. u \in 0 .. N + m - 1
  BY <1>1, <1>5, <1>6
<1>8. u \in DiskUnits
  <2>1. DiskUnits = 0 .. (Clusters + 1) * m - 1
    BY DEF DiskUnits, m
  <2>2. (Clusters + 1) * m - 1 = N + m - 1
    <3> DEFINE E == (Clusters + 1) * m
    <3>1. E = N + m
      BY <1>5
    <3> HIDE DEF E
    <3>2. E - 1 = N + m - 1
      BY <1>1, <1>5, <3>1
    <3> QED BY <3>2 DEF E
  <2> QED BY <1>7, <2>1, <2>2
<1>9. u = Unit(c, r)
  BY DEF Unit, q, m
<1> QED BY <1>1, <1>2, <1>6, <1>8, <1>9 DEF Owner, m

(* With one sector to a cluster a call finds offset o where it is. *)
LEMMA AddressIs ==
  ASSUME SecPerClus = 1, NEW p, NEW s \in Nat, NEW o \in Nat,
         p[o \div ClusterUnits] \in Cluster
  PROVE  Address(p, s, o) = Unit(p[o \div ClusterUnits], o % ClusterUnits)
<1> DEFINE m == ClusterUnits
           rem == s % m
           c == p[o \div m]
           base == (c - 2) * m
<1>1. m \in Nat \ {0} /\ SectorUnits = m
  BY Units DEF ClusterUnits
<1> HIDE DEF m
<1>2. /\ s \div m \in Nat /\ rem \in 0 .. m - 1 /\ (s \div m) * m \in Nat
      /\ s = (s \div m) * m + rem
      /\ o \div m \in Nat /\ o % m \in 0 .. m - 1 /\ (o \div m) * m \in Nat
      /\ o = (o \div m) * m + (o % m)
  BY <1>1, Divided
<1>3. rem \div m = 0
  <2>1. 0 * m + rem = rem
    BY <1>1, <1>2
  <2> HIDE DEF rem
  <2> QED BY <1>1, <1>2, <2>1, DividedIs
<1>4. o \div m = s \div m => rem + (o - s) = o % m
  <2> DEFINE q == o \div m
             Q == q * m
  <2>1. o \div m = s \div m => s = Q + rem /\ o = Q + (o % m) /\ Q \in Nat
    BY <1>2
  <2> HIDE DEF rem, Q
  <2> QED BY <1>2, <2>1
<1>5. base \in Int
  BY <1>1 DEF Cluster, m
<1> HIDE DEF c, base
<1>6. Address(p, s, o) = IF rem # 0 /\ o \div m = s \div m
                         THEN base + (rem \div m) * m + rem + (o - s)
                         ELSE base + (o % m)
  BY <1>1 DEF Address, base, c, m
<1>7. (rem \div m) * m = 0
  BY <1>1, <1>3
<1> HIDE DEF rem
<1>8. CASE rem # 0 /\ o \div m = s \div m
  <2>1. Address(p, s, o) = base + 0 + rem + (o - s)
    BY <1>6, <1>7, <1>8
  <2>2. rem \in Int /\ rem + (o - s) = o % m
    BY <1>2, <1>4, <1>8
  <2>3. base + 0 + rem + (o - s) = base + (rem + (o - s))
    BY <1>5, <2>2
  <2> QED BY <2>1, <2>2, <2>3 DEF Unit, base, c, m
<1>9. CASE ~ (rem # 0 /\ o \div m = s \div m)
  <2>1. Address(p, s, o) = base + (o % m)
    BY <1>6, <1>9
  <2> QED BY <2>1 DEF Unit, base, c, m
<1> QED BY <1>8, <1>9

-----------------------------------------------------------------------------
\* Chains of the table.

(* The volume has Clusters clusters. *)
LEMMA ClusterCount == IsFiniteSet(Cluster) /\ Cardinality(Cluster) = Clusters /\ Cluster \subseteq Nat
<1>1. IsFiniteSet(Cluster) /\ Cardinality(Cluster) = (Clusters + 1) - 2 + 1
  <2>1. 2 \in Int /\ Clusters + 1 \in Int /\ 2 <= Clusters + 1
    OBVIOUS
  <2> QED BY <2>1, FS_Interval DEF Cluster
<1> QED BY <1>1 DEF Cluster

\* p follows the table f through n different clusters and then leaves them.
Chain(f, p, n) ==
  /\ n \in Nat /\ p[n] \notin Cluster
  /\ \A k \in 0 .. n - 1 : p[k] \in Cluster /\ f[p[k]] = p[k + 1]
  /\ \A j, k \in 0 .. n - 1 : j # k => p[j] # p[k]

(* A chain is not longer than the volume, and is the path from its start. *)
LEMMA ChainPath ==
  ASSUME NEW f, NEW p, NEW n, Chain(f, p, n)
  PROVE  n <= Clusters /\ \A k \in 0 .. Clusters : Path(f, p[0])[k] = IF k <= n THEN p[k] ELSE p[n]
<1> DEFINE c == p[0]
           Step(r, k) == IF k = 0 THEN c
                         ELSE LET d == r[k - 1] IN IF d \in Cluster THEN f[d] ELSE d
           W == [k \in 0 .. Clusters |-> IF k <= n THEN p[k] ELSE p[n]]
           P == Path(f, c)
<1>0. n \in Nat
  BY DEF Chain
<1>1. n <= Clusters
  <2> DEFINE I == 0 .. n - 1
             q == [k \in I |-> p[k]]
  <2>1. IsFiniteSet(I) /\ Cardinality(I) = n
    <3>1. CASE n = 0
      <4>1. I = {}
        BY <3>1
      <4> QED BY <3>1, <4>1, FS_EmptySet
    <3>2. CASE n # 0
      <4>1. 0 \in Int /\ n - 1 \in Int /\ 0 <= n - 1 /\ n - 1 - 0 + 1 = n
        BY <1>0, <3>2
      <4> QED BY <4>1, FS_Interval
    <3> QED BY <3>1, <3>2
  <2>2. q \in Injection(I, Cluster)
    <3>1. q \in [I -> Cluster]
      BY DEF Chain
    <3>2. \A j, k \in I : q[j] = q[k] => j = k
      BY DEF Chain
    <3> QED BY <3>1, <3>2 DEF Injection, IsInjective
  <2>4. Cardinality(I) <= Cardinality(Cluster)
    <3> HIDE DEF I, q
    <3>1. IsFiniteSet(Cluster) /\ IsFiniteSet(I)
      BY <2>1, ClusterCount
    <3> QED BY <2>2, <3>1, FS_Injection
  <2> HIDE DEF I
  <2> QED BY <2>1, <2>4, ClusterCount
<1>2. P = CHOOSE r : r = [k \in 0 .. Clusters |-> Step(r, k)]
  BY DEF Path
<1>3. \A k \in 0 .. Clusters : W[k] = Step(W, k)
  <2> SUFFICES ASSUME NEW k \in 0 .. Clusters
               PROVE  W[k] = Step(W, k)
    OBVIOUS
  <2>1. CASE k = 0
    BY <1>0, <2>1
  <2>2. CASE k > 0 /\ k <= n
    <3>1. k - 1 \in 0 .. n - 1 /\ k - 1 \in 0 .. Clusters /\ k - 1 + 1 = k
      BY <1>0, <2>2
    <3>2. W[k - 1] = p[k - 1] /\ W[k] = p[k]
      BY <1>0, <2>2, <3>1
    <3>3. p[k - 1] \in Cluster /\ f[p[k - 1]] = p[k]
      BY <3>1 DEF Chain
    <3> QED BY <2>2, <3>2, <3>3
  <2>3. CASE k > n
    <3>1. W[k - 1] = p[n] /\ W[k] = p[n]
      <4>1. k - 1 \in 0 .. Clusters /\ (k - 1 <= n => k - 1 = n)
        BY <1>0, <2>3
      <4> QED BY <2>3, <4>1, <1>0
    <3>2. p[n] \notin Cluster
      BY DEF Chain
    <3> QED BY <1>0, <2>3, <3>1, <3>2
  <2> QED BY <1>0, <2>1, <2>2, <2>3
<1>4. W = [k \in 0 .. Clusters |-> Step(W, k)]
  BY <1>3
<1>5. P = [k \in 0 .. Clusters |-> Step(P, k)]
  <2> HIDE DEF W, P, Step
  <2> QED BY <1>2, <1>4
<1>6. 0 .. Clusters \subseteq {k \in 0 .. Clusters : P[k] = W[k]}
  <2> DEFINE T == {k \in 0 .. Clusters : P[k] = W[k]}
  <2>1. 0 \in T
    <3>1. 0 \in 0 .. Clusters
      OBVIOUS
    <3>2. P[0] = Step(P, 0) /\ W[0] = Step(W, 0)
      <4> HIDE DEF P, W, Step
      <4> QED BY <1>3, <1>5, <3>1
    <3> QED BY <3>1, <3>2
  <2>2. ASSUME NEW k \in 0 .. Clusters - 1, k \in T
        PROVE  k + 1 \in T
    <3>1. k + 1 \in 0 .. Clusters /\ k + 1 # 0 /\ k + 1 - 1 = k
      OBVIOUS
    <3>2. P[k + 1] = Step(P, k + 1) /\ W[k + 1] = Step(W, k + 1)
      <4> HIDE DEF P, W, Step
      <4> QED BY <1>3, <1>5, <3>1
    <3>3. P[k] = W[k]
      BY <2>2
    <3> HIDE DEF P, W
    <3> QED BY <3>1, <3>2, <3>3
  <2> HIDE DEF T
  <2>3. 0 .. Clusters \subseteq T
    BY <2>1, <2>2, UpTo
  <2> QED BY <2>3 DEF T
<1> HIDE DEF P
<1>7. \A k \in 0 .. Clusters : P[k] = W[k]
  BY <1>6
<1>8. ASSUME NEW k \in 0 .. Clusters
      PROVE  P[k] = IF k <= n THEN p[k] ELSE p[n]
  BY <1>7
<1> QED BY <1>1, <1>8 DEF P

(* So it has the clusters of the chain, as many as it is long. *)
LEMMA ChainSet ==
  ASSUME NEW f, NEW p, NEW n, Chain(f, p, n)
  PROVE  /\ n \in Nat /\ n <= Clusters
         /\ ChainOf(f, p[0]) = {p[k] : k \in 0 .. n - 1}
         /\ Length(f, p[0]) = n
         /\ \A k \in 0 .. n : Path(f, p[0])[k] = p[k]
         /\ Ends(f, p[0]) <=> p[n] = EOF
<1> DEFINE P == Path(f, p[0])
           I == 0 .. n - 1
           C == {p[k] : k \in I}
<1>1. n \in Nat /\ n <= Clusters /\ \A k \in 0 .. Clusters : P[k] = IF k <= n THEN p[k] ELSE p[n]
  <2>1. n \in Nat
    BY DEF Chain
  <2> HIDE DEF I, C
  <2>2. n <= Clusters /\ \A k \in 0 .. Clusters : Path(f, p[0])[k] = IF k <= n THEN p[k] ELSE p[n]
    BY ChainPath
  <2> QED BY <2>1, <2>2
<1> HIDE DEF P
<1>2. \A k \in 0 .. n : P[k] = p[k]
  BY <1>1
<1>3. P[Clusters] = p[n]
  BY <1>1
<1>4. p[n] \notin Cluster /\ \A k \in I : p[k] \in Cluster
  BY DEF Chain
<1>5. {P[k] : k \in 0 .. Clusters} \cap Cluster = C
  <2>1. ASSUME NEW k \in 0 .. Clusters, P[k] \in Cluster
        PROVE  P[k] \in C
    <3>1. k \in I /\ P[k] = p[k]
      BY <1>1, <1>4, <2>1
    <3> QED BY <3>1
  <2>2. ASSUME NEW k \in I
        PROVE  p[k] \in {P[j] : j \in 0 .. Clusters} \cap Cluster
    <3>1. k \in 0 .. Clusters /\ P[k] = p[k]
      BY <1>1
    <3> QED BY <1>4, <3>1
  <2> QED BY <2>1, <2>2
<1>6. ChainOf(f, p[0]) = C
  BY <1>5 DEF ChainOf, P
<1>7. Cardinality(C) = n
  <2>1. IsFiniteSet(I) /\ Cardinality(I) = n
    <3>1. CASE n = 0
      <4>1. I = {}
        BY <3>1
      <4> QED BY <3>1, <4>1, FS_EmptySet
    <3>2. CASE n # 0
      <4>1. 0 \in Int /\ n - 1 \in Int /\ 0 <= n - 1 /\ n - 1 - 0 + 1 = n
        BY <1>1, <3>2
      <4> QED BY <4>1, FS_Interval
    <3> QED BY <3>1, <3>2
  <2> DEFINE q == [k \in I |-> p[k]]
  <2>2. q \in Bijection(I, C)
    <3>1. q \in [I -> C] /\ \A j, k \in I : q[j] = q[k] => j = k
      BY DEF Chain
    <3>2. \A x \in C : \E k \in I : q[k] = x
      OBVIOUS
    <3>3. q \in Injection(I, C)
      BY <3>1 DEF Injection, IsInjective
    <3>4. q \in Surjection(I, C)
      BY <3>1, <3>2 DEF Surjection
    <3> QED BY <3>3, <3>4 DEF Bijection
  <2>3. ExistsBijection(I, C)
    BY <2>2 DEF ExistsBijection
  <2> HIDE DEF I, C
  <2>4. Cardinality(I) = Cardinality(C)
    BY <2>1, <2>3, FS_Bijection
  <2> QED BY <2>1, <2>4
<1>8. Length(f, p[0]) = n
  BY <1>6, <1>7 DEF Length
<1>9. Ends(f, p[0]) <=> p[n] = EOF
  BY <1>3 DEF Ends, P
<1> QED BY <1>1, <1>2, <1>6, <1>8, <1>9 DEF P

\* p is the chain of n clusters from c to the end mark.
Passes(f, c, p, n) == c \in Cluster /\ p[0] = c /\ p[n] = EOF /\ Chain(f, p, n)

\* The path from c is such a chain.
Good(f, c) == Passes(f, c, Path(f, c), Length(f, c))

(* A good chain has 1 to Clusters clusters, those its path meets; it begins with
   its first cluster, and the table has the end behind its last. *)
LEMMA GoodIs ==
  ASSUME NEW f, NEW c, Good(f, c)
  PROVE  /\ Length(f, c) \in 1 .. Clusters
         /\ ChainOf(f, c) = {Path(f, c)[k] : k \in 0 .. Length(f, c) - 1}
         /\ c \in ChainOf(f, c) /\ ChainOf(f, c) \subseteq Cluster
         /\ Ends(f, c) /\ f[Path(f, c)[Length(f, c) - 1]] = EOF
         /\ Path(f, c)[Length(f, c) - 1] \in ChainOf(f, c)
<1> DEFINE p == Path(f, c)
           n == Length(f, c)
<1>1. c \in Cluster /\ p[0] = c /\ p[n] = EOF /\ Chain(f, p, n)
  BY DEF Good, Passes
<1> HIDE DEF p, n
<1>2. n \in Nat /\ n <= Clusters /\ ChainOf(f, p[0]) = {p[k] : k \in 0 .. n - 1} /\ Ends(f, p[0])
  BY <1>1, ChainSet
<1>3. n # 0
  BY <1>1 DEF Cluster, EOF
<1>4. n \in 1 .. Clusters /\ n - 1 \in 0 .. n - 1 /\ 0 \in 0 .. n - 1 /\ n - 1 + 1 = n
  BY <1>2, <1>3
<1>5. p[n - 1] \in ChainOf(f, p[0]) /\ p[0] \in ChainOf(f, p[0])
  BY <1>2, <1>4
<1>6. f[p[n - 1]] = EOF
  BY <1>1, <1>4 DEF Chain
<1>7. ChainOf(f, p[0]) \subseteq Cluster
  BY <1>1, <1>2 DEF Chain
<1> QED BY <1>1, <1>2, <1>4, <1>5, <1>6, <1>7 DEF p, n

(* A path through the table up to the end is the path of a good chain. *)
LEMMA GoodFrom ==
  ASSUME NEW f, NEW p, NEW n, NEW c, Passes(f, c, p, n)
  PROVE  /\ Good(f, c) /\ Length(f, c) = n /\ n \in 1 .. Clusters
         /\ \A k \in 0 .. n : Path(f, c)[k] = p[k]
         /\ ChainOf(f, c) = {p[k] : k \in 0 .. n - 1}
<1> DEFINE P == Path(f, c)
<1>0. c \in Cluster /\ p[0] = c /\ p[n] = EOF /\ Chain(f, p, n)
  BY DEF Passes
<1>1. /\ n \in Nat /\ n <= Clusters /\ ChainOf(f, c) = {p[k] : k \in 0 .. n - 1} /\ Length(f, c) = n
      /\ \A k \in 0 .. n : P[k] = p[k]
  BY <1>0, ChainSet
<1> HIDE DEF P
<1>2. 0 \in 0 .. n /\ n \in 0 .. n /\ \A k \in 0 .. n - 1 : k \in 0 .. n /\ k + 1 \in 0 .. n
  BY <1>1
<1>3. Chain(f, P, n)
  BY <1>0, <1>1, <1>2 DEF Chain
<1>4. P[0] = c /\ P[n] = EOF
  BY <1>0, <1>1, <1>2
<1>5. Good(f, c)
  BY <1>0, <1>1, <1>3, <1>4 DEF Good, Passes, P
<1>6. n # 0
  BY <1>0 DEF Cluster, EOF
<1> QED BY <1>1, <1>5, <1>6 DEF P

\* The chain from c is the same in both tables.
Same(f, g, c) ==
  /\ Length(g, c) = Length(f, c) /\ ChainOf(g, c) = ChainOf(f, c)
  /\ \A k \in 0 .. Length(f, c) : Path(g, c)[k] = Path(f, c)[k]

\* The tables have the same entries for the clusters of C.
Agree(f, g, C) == \A x \in C : g[x] = f[x]

(* A chain stays as it is where no entry of its clusters changes. *)
LEMMA SameChain ==
  ASSUME NEW f, NEW g, NEW c, Good(f, c), Agree(f, g, ChainOf(f, c))
  PROVE  Good(g, c) /\ Same(f, g, c)
<1> DEFINE p == Path(f, c)
           n == Length(f, c)
<1>1. c \in Cluster /\ p[0] = c /\ p[n] = EOF /\ Chain(f, p, n)
  BY DEF Good, Passes
<1>2. ChainOf(f, c) = {p[k] : k \in 0 .. n - 1} /\ n \in 1 .. Clusters
  BY GoodIs
<1> HIDE DEF p, n
<1>3. \A k \in 0 .. n - 1 : g[p[k]] = f[p[k]]
  BY <1>2 DEF Agree
<1>4. Chain(g, p, n)
  BY <1>1, <1>3 DEF Chain
<1>5. /\ Good(g, c) /\ Length(g, c) = n /\ \A k \in 0 .. n : Path(g, c)[k] = p[k]
      /\ ChainOf(g, c) = {p[k] : k \in 0 .. n - 1}
  <2>1. Passes(g, c, p, n)
    BY <1>1, <1>4 DEF Passes
  <2> QED BY <2>1, GoodFrom
<1> QED BY <1>2, <1>5 DEF Same, p, n

-----------------------------------------------------------------------------
\* Every cluster is unused, the last of a chain or before another.
Table == [Cluster -> Cluster \cup {FREE, EOF}]

\* The chains from the clusters of S are apart and have all clusters in use.
Tree(f, S) ==
  /\ f \in Table
  /\ \A c \in S : Good(f, c)
  /\ \A c, d \in S : c # d => ChainOf(f, c) \cap ChainOf(f, d) = {}
  /\ \A x \in Cluster : f[x] # FREE <=> \E c \in S : x \in ChainOf(f, c)

\* g is f with cluster c behind cluster a.
Linked(f, g, a, c) ==
  /\ g \in Table /\ g[a] = c /\ g[c] = EOF
  /\ \A d \in Cluster \ {a, c} : g[d] = f[d]

\* g is f with cluster c behind the chain from s.
Appends(f, g, s, c) == Linked(f, g, Path(f, s)[Length(f, s) - 1], c)

(* In a tree of chains each chain is good and has no unused cluster. *)
LEMMA TreeParts ==
  ASSUME NEW f, NEW S, Tree(f, S), NEW c \in S
  PROVE  /\ Good(f, c) /\ c \in Cluster /\ ChainOf(f, c) \cap Unused(f) = {}
         /\ Length(f, c) \in 1 .. Clusters
<1>1. Good(f, c)
  BY DEF Tree
<1>2. Length(f, c) \in 1 .. Clusters /\ c \in Cluster
  BY <1>1, GoodIs DEF Good, Passes
<1>3. ChainOf(f, c) \cap Unused(f) = {}
  <2>1. ChainOf(f, c) \subseteq Cluster
    BY <1>1, GoodIs
  <2> QED BY <2>1 DEF Tree, Unused
<1> QED BY <1>1, <1>2, <1>3

(* A chain with an unused cluster behind it has that cluster last and keeps
   the others in their places. *)
LEMMA ChainAppend ==
  ASSUME NEW f, NEW g, NEW s, NEW c \in Cluster \ ChainOf(f, s), Good(f, s), f \in Table,
         Appends(f, g, s, c)
  PROVE  /\ Good(g, s) /\ Length(g, s) = Length(f, s) + 1
         /\ \A k \in 0 .. Length(f, s) - 1 : Path(g, s)[k] = Path(f, s)[k]
         /\ Path(g, s)[Length(f, s)] = c
         /\ ChainOf(g, s) = ChainOf(f, s) \cup {c}
<1> DEFINE p == Path(f, s)
           n == Length(f, s)
           q == [k \in 0 .. n + 1 |-> IF k < n THEN p[k] ELSE IF k = n THEN c ELSE EOF]
<1>1. s \in Cluster /\ p[0] = s /\ p[n] = EOF /\ Chain(f, p, n) /\ Linked(f, g, p[n - 1], c)
  BY DEF Good, Passes, Appends
<1>2. ChainOf(f, s) = {p[k] : k \in 0 .. n - 1} /\ n \in 1 .. Clusters
  BY GoodIs
<1> HIDE DEF p, n
<1>3. /\ \A k \in 0 .. n - 1 : q[k] = p[k] /\ k \in 0 .. n + 1
      /\ q[n] = c /\ q[n + 1] = EOF /\ q[0] = s
  BY <1>1, <1>2
<1> HIDE DEF q
<1>4. EOF \notin Cluster
  BY DEF EOF, Cluster
<1>5. \A k \in 0 .. n - 1 : p[k] \in Cluster /\ p[k] # c
  BY <1>1, <1>2 DEF Chain
<1>6. ASSUME NEW k \in 0 .. n
      PROVE  q[k] \in Cluster /\ g[q[k]] = q[k + 1]
  <2>1. CASE k = n
    BY <1>1, <1>3, <2>1 DEF Linked
  <2>2. CASE k = n - 1
    <3>1. k \in 0 .. n - 1 /\ k + 1 = n
      BY <1>2, <2>2
    <3>2. g[p[k]] = c
      BY <1>1, <2>2 DEF Linked
    <3> QED BY <1>3, <1>5, <3>1, <3>2
  <2>3. CASE k < n - 1
    <3>1. k \in 0 .. n - 1 /\ k + 1 \in 0 .. n - 1 /\ n - 1 \in 0 .. n - 1 /\ k # n - 1
      BY <1>2, <2>3
    <3>2. p[k] # p[n - 1] /\ f[p[k]] = p[k + 1]
      BY <1>1, <3>1 DEF Chain
    <3>3. g[p[k]] = f[p[k]]
      BY <1>1, <1>5, <3>1, <3>2 DEF Linked
    <3> QED BY <1>3, <1>5, <3>1, <3>2, <3>3
  <2> QED BY <1>2, <2>1, <2>2, <2>3
<1>7. ASSUME NEW j \in 0 .. n, NEW k \in 0 .. n, j # k
      PROVE  q[j] # q[k]
  <2>1. (j = n \/ j \in 0 .. n - 1) /\ (k = n \/ k \in 0 .. n - 1)
    BY <1>2
  <2>2. \A i, l \in 0 .. n - 1 : i # l => p[i] # p[l]
    BY <1>1 DEF Chain
  <2> QED BY <1>3, <1>5, <1>7, <2>1, <2>2
<1> DEFINE m == n + 1
<1>8. m \in Nat /\ m - 1 = n /\ m \in 0 .. m /\ n \in 0 .. m /\ n \in 0 .. n
  BY <1>2
<1>9. q[m] = EOF /\ \A k \in 0 .. n - 1 : k \in 0 .. m /\ k \in 0 .. n
  BY <1>2, <1>3
<1>10. \A k \in 0 .. n : k = n \/ k \in 0 .. n - 1
  BY <1>2
<1>11. Length(f, s) + 1 = m
  BY DEF n
<1> HIDE DEF m
<1>12. Chain(g, q, m)
  BY <1>4, <1>6, <1>7, <1>8, <1>9 DEF Chain
<1>13. /\ Good(g, s) /\ Length(g, s) = m /\ \A k \in 0 .. m : Path(g, s)[k] = q[k]
       /\ ChainOf(g, s) = {q[k] : k \in 0 .. m - 1}
  <2>1. Passes(g, s, q, m)
    BY <1>1, <1>3, <1>9, <1>12 DEF Passes
  <2> QED BY <2>1, GoodFrom
<1>14. {q[k] : k \in 0 .. m - 1} = {p[k] : k \in 0 .. n - 1} \cup {c}
  BY <1>3, <1>8, <1>9, <1>10
<1>15. \A k \in 0 .. n - 1 : Path(g, s)[k] = p[k]
  BY <1>3, <1>9, <1>13
<1>16. Path(g, s)[n] = c
  BY <1>3, <1>8, <1>13
<1> QED BY <1>2, <1>11, <1>13, <1>14, <1>15, <1>16 DEF p, n

-----------------------------------------------------------------------------
\* Unused clusters, and chains that grow.

(* The unused clusters are finitely many. *)
LEMMA UnusedIs ==
  ASSUME NEW f
  PROVE  /\ Unused(f) \subseteq Cluster /\ IsFiniteSet(Unused(f)) /\ Cardinality(Unused(f)) \in Nat
<1>1. Unused(f) \in SUBSET Cluster
  BY DEF Unused
<1>2. IsFiniteSet(Unused(f))
  BY <1>1, ClusterCount, FS_Subset
<1> QED BY <1>1, <1>2, FS_CardinalityType

(* The cluster fat32_find_node_from_fat finds is unused. *)
LEMMA FreshIs ==
  ASSUME NEW f, Unused(f) # {}
  PROVE  Fresh(f) \in Unused(f)
<1>1. Unused(f) \in SUBSET (0 .. Clusters + 1) /\ Clusters + 1 \in Nat
  BY DEF Unused, Cluster
<1>2. \E c \in Unused(f) : \A d \in Unused(f) : c <= d
  BY <1>1, Least
<1> QED BY <1>2 DEF Fresh

\* g is f with the chain from s longer by n clusters.
GrownBy(f, g, S, s, n) ==
  /\ Tree(g, S) /\ Length(g, s) = Length(f, s) + n
  /\ \A k \in 0 .. Length(f, s) - 1 : Path(g, s)[k] = Path(f, s)[k]
  /\ ChainOf(g, s) = ChainOf(f, s) \cup (Unused(f) \ Unused(g))
  /\ \A d \in S \ {s} : Same(f, g, d)
  /\ Unused(g) \subseteq Unused(f)
  /\ Cardinality(Unused(g)) = Cardinality(Unused(f)) - n

(* A table is itself with a chain no longer. *)
LEMMA GrownNone ==
  ASSUME NEW f, NEW S, NEW s \in S, Tree(f, S)
  PROVE  GrownBy(f, f, S, s, 0)
<1>1. Length(f, s) \in Nat
  BY TreeParts
<1>2. Cardinality(Unused(f)) \in Nat
  BY UnusedIs
<1>3. \A d \in S : Same(f, f, d)
  BY DEF Same
<1> QED BY <1>1, <1>2, <1>3 DEF GrownBy

(* Growing a chain twice grows it by the sum. *)
LEMMA GrownMore ==
  ASSUME NEW f, NEW g, NEW h, NEW S, NEW s \in S, NEW n \in Nat, NEW m \in Nat,
         Tree(f, S), GrownBy(f, g, S, s, n), GrownBy(g, h, S, s, m)
  PROVE  GrownBy(f, h, S, s, n + m)
<1>1. Length(f, s) \in Nat
  BY TreeParts
<1>2. Cardinality(Unused(f)) \in Nat
  BY UnusedIs
<1>3. Length(h, s) = Length(f, s) + (n + m)
  BY <1>1 DEF GrownBy
<1>4. Cardinality(Unused(h)) = Cardinality(Unused(f)) - (n + m)
  BY <1>2 DEF GrownBy
<1>5. ASSUME NEW k \in 0 .. Length(f, s) - 1
      PROVE  Path(h, s)[k] = Path(f, s)[k]
  <2>1. Length(g, s) = Length(f, s) + n
    BY DEF GrownBy
  <2>2. k \in 0 .. Length(g, s) - 1
    BY <1>1, <2>1
  <2> QED BY <1>5, <2>2 DEF GrownBy
<1>6. ChainOf(h, s) = ChainOf(f, s) \cup (Unused(f) \ Unused(h)) /\ Unused(h) \subseteq Unused(f)
  BY DEF GrownBy
<1>7. ASSUME NEW d \in S \ {s}
      PROVE  Same(f, h, d)
  <2>1. Same(f, g, d) /\ Same(g, h, d)
    BY DEF GrownBy
  <2> QED BY <2>1 DEF Same
<1>8. Tree(h, S)
  BY DEF GrownBy
<1> QED BY <1>3, <1>4, <1>5, <1>6, <1>7, <1>8 DEF GrownBy

(* An unused cluster behind one chain grows it by one and keeps the others. *)
LEMMA TreeAppend ==
  ASSUME NEW f, NEW g, NEW S, NEW s \in S, NEW c \in Unused(f), Tree(f, S),
         Appends(f, g, s, c)
  PROVE  GrownBy(f, g, S, s, 1) /\ Path(g, s)[Length(g, s) - 1] = c
<1> DEFINE a == Path(f, s)[Length(f, s) - 1]
<1>1. Good(f, s) /\ f \in Table /\ ChainOf(f, s) \cap Unused(f) = {} /\ c \in Cluster
  BY TreeParts, UnusedIs DEF Tree
<1>2. /\ Good(g, s) /\ Length(g, s) = Length(f, s) + 1 /\ Path(g, s)[Length(f, s)] = c
      /\ \A k \in 0 .. Length(f, s) - 1 : Path(g, s)[k] = Path(f, s)[k]
      /\ ChainOf(g, s) = ChainOf(f, s) \cup {c}
  <2>1. c \in Cluster \ ChainOf(f, s)
    BY <1>1
  <2> HIDE DEF a
  <2> QED BY <1>1, <2>1, ChainAppend
<1>3. a \in ChainOf(f, s) /\ ChainOf(f, s) \subseteq Cluster /\ Length(f, s) \in Nat
  BY <1>1, GoodIs
<1> HIDE DEF a
<1>4. Linked(f, g, a, c)
  BY DEF a, Appends
<1>5. Unused(g) = Unused(f) \ {c}
  <2>1. EOF # FREE /\ c # FREE /\ f[a] # FREE
    BY <1>1, <1>3 DEF EOF, FREE, Cluster, Unused
  <2> QED BY <1>1, <1>3, <1>4, <2>1 DEF Linked, Unused
<1>6. ASSUME NEW d \in S \ {s}
      PROVE  Good(g, d) /\ Same(f, g, d)
  <2>1. Good(f, d) /\ ChainOf(f, d) \cap Unused(f) = {} /\ ChainOf(f, d) \cap ChainOf(f, s) = {}
    BY TreeParts DEF Tree
  <2>2. ChainOf(f, d) \subseteq Cluster
    BY <2>1, GoodIs
  <2>3. Agree(f, g, ChainOf(f, d))
    BY <1>3, <1>4, <2>1, <2>2 DEF Agree, Linked
  <2> QED BY <2>1, <2>3, SameChain
<1>7. Tree(g, S)
  <2>1. g \in Table
    BY <1>4 DEF Linked
  <2>2. \A d \in S : Good(g, d)
    BY <1>2, <1>6
  <2>3. \A d \in S : ChainOf(g, d) = IF d = s THEN ChainOf(f, s) \cup {c} ELSE ChainOf(f, d)
    BY <1>2, <1>6 DEF Same
  <2>4. \A d \in S : ChainOf(f, d) \cap Unused(f) = {}
    BY TreeParts
  <2>5. \A d, e \in S : d # e => ChainOf(g, d) \cap ChainOf(g, e) = {}
    BY <2>3, <2>4 DEF Tree
  <2>7. ASSUME NEW x \in Cluster
        PROVE  g[x] # FREE <=> \E d \in S : x \in ChainOf(g, d)
    <3>1. (\E d \in S : x \in ChainOf(g, d)) <=> x = c \/ \E d \in S : x \in ChainOf(f, d)
      BY <2>3
    <3>2. g[x] # FREE <=> x = c \/ f[x] # FREE
      BY <1>5 DEF Unused
    <3> QED BY <3>1, <3>2 DEF Tree
  <2> QED BY <2>1, <2>2, <2>5, <2>7 DEF Tree
<1>8. Cardinality(Unused(g)) = Cardinality(Unused(f)) - 1
  <2> DEFINE U == Unused(f)
  <2>1. IsFiniteSet(U) /\ c \in U /\ Unused(g) = U \ {c}
    BY <1>5, UnusedIs
  <2> HIDE DEF U
  <2>2. Cardinality(U \ {c}) = Cardinality(U) - 1
    BY <2>1, FS_RemoveElement
  <2> QED BY <2>1, <2>2 DEF U
<1>9. Length(g, s) - 1 = Length(f, s)
  BY <1>2, <1>3
<1>10. ChainOf(g, s) = ChainOf(f, s) \cup (Unused(f) \ Unused(g)) /\ Unused(g) \subseteq Unused(f)
  BY <1>2, <1>5
<1>11. GrownBy(f, g, S, s, 1)
  BY <1>2, <1>6, <1>7, <1>8, <1>10 DEF GrownBy
<1> QED BY <1>2, <1>9, <1>11

-----------------------------------------------------------------------------
\* S with one chain more.
With(S, c) == S \cup {c}

\* g is f with the unused cluster c as a chain of its own.
Begun(f, g, S, c) ==
  /\ g \in Table /\ c \in Unused(f) /\ Tree(f, S)
  /\ g[c] = EOF /\ Agree(f, g, Cluster \ {c})

(* An unused cluster made an end is a new chain, apart from all others. *)
LEMMA TreeNew ==
  ASSUME NEW f, NEW g, NEW S, NEW c, Begun(f, g, S, c)
  PROVE  /\ Tree(g, With(S, c)) /\ c \notin S
         /\ Length(g, c) = 1 /\ Path(g, c)[0] = c
         /\ \A d \in S : Same(f, g, d)
         /\ Cardinality(Unused(g)) = Cardinality(Unused(f)) - 1
<1>0. /\ g \in Table /\ c \in Unused(f) /\ Tree(f, S)
      /\ g[c] = EOF /\ Agree(f, g, Cluster \ {c})
  BY DEF Begun
<1>1. c \in Cluster /\ EOF \notin Cluster /\ EOF # FREE
  BY <1>0, UnusedIs DEF EOF, FREE, Cluster
<1>2. Unused(g) = Unused(f) \ {c}
  BY <1>0, <1>1 DEF Unused, Agree
<1>3. Cardinality(Unused(g)) = Cardinality(Unused(f)) - 1
  <2> DEFINE U == Unused(f)
  <2>1. IsFiniteSet(U) /\ c \in U /\ Unused(g) = U \ {c}
    BY <1>0, <1>2, UnusedIs
  <2> HIDE DEF U
  <2>2. Cardinality(U \ {c}) = Cardinality(U) - 1
    BY <2>1, FS_RemoveElement
  <2> QED BY <2>1, <2>2 DEF U
<1>4. ASSUME NEW d \in S
      PROVE  Good(g, d) /\ Same(f, g, d) /\ c \notin ChainOf(f, d) /\ d # c
  <2>1. Good(f, d) /\ ChainOf(f, d) \cap Unused(f) = {}
    BY <1>0, TreeParts
  <2>2. d \in ChainOf(f, d) /\ ChainOf(f, d) \subseteq Cluster
    BY <2>1, GoodIs
  <2>3. Agree(f, g, ChainOf(f, d))
    BY <1>0, <2>1, <2>2 DEF Agree
  <2> QED BY <1>0, <2>1, <2>2, <2>3, SameChain
<1>5. Good(g, c) /\ Length(g, c) = 1 /\ Path(g, c)[0] = c /\ ChainOf(g, c) = {c}
  <2> DEFINE p == [k \in 0 .. 1 |-> IF k = 0 THEN c ELSE EOF]
             n == 1
  <2>1. p[0] = c /\ p[n] = EOF /\ n \in Nat /\ n = 0 + 1 /\ 0 .. n - 1 = {0}
    OBVIOUS
  <2> HIDE DEF p, n
  <2>2. Chain(g, p, n)
    BY <1>0, <1>1, <2>1 DEF Chain
  <2>3. Passes(g, c, p, n)
    BY <1>1, <2>1, <2>2 DEF Passes
  <2>4. Good(g, c) /\ Length(g, c) = n /\ ChainOf(g, c) = {p[k] : k \in 0 .. n - 1}
    BY <2>3, GoodFrom
  <2>5. Path(g, c)[0] = c
    BY <2>4 DEF Good, Passes
  <2> QED BY <2>1, <2>4, <2>5 DEF n
<1>6. Tree(g, S \cup {c})
  <2>1. \A d \in S \cup {c} : Good(g, d)
    BY <1>4, <1>5
  <2>2. \A d \in S : ChainOf(g, d) = ChainOf(f, d) /\ c \notin ChainOf(f, d)
    BY <1>4 DEF Same
  <2>3. \A d, e \in S \cup {c} : d # e => ChainOf(g, d) \cap ChainOf(g, e) = {}
    BY <1>0, <1>5, <2>2 DEF Tree
  <2>5. ASSUME NEW x \in Cluster
        PROVE  g[x] # FREE <=> \E d \in S \cup {c} : x \in ChainOf(g, d)
    <3>1. (\E d \in S \cup {c} : x \in ChainOf(g, d)) <=> x = c \/ \E d \in S : x \in ChainOf(f, d)
      BY <1>5, <2>2
    <3>2. g[x] # FREE <=> x = c \/ f[x] # FREE
      BY <1>0, <1>2 DEF Unused
    <3> QED BY <1>0, <3>1, <3>2 DEF Tree
  <2> QED BY <1>0, <2>1, <2>3, <2>5 DEF Tree
<1> QED BY <1>2, <1>3, <1>4, <1>5, <1>6 DEF With

-----------------------------------------------------------------------------
\* The loop of the code that extends a chain.

\* x is what a chain is extended with: a table and the chain's last cluster.
Link(x) ==
  LET c == Fresh(x.fat)
  IN  [fat |-> [x.fat EXCEPT ![c] = EOF, ![x.last] = c], last |-> c]

\* g holds what the loop over n more clusters has after each.
Loop(g, f, a, n) ==
  g = [k \in 0 .. n |-> IF k = 0 THEN [fat |-> f, last |-> a] ELSE Link(g[k - 1])]

(* The loop that extends a chain has a value after every number of rounds. *)
LEMMA LoopExists ==
  ASSUME NEW f, NEW a, NEW n \in Nat
  PROVE  \E g : Loop(g, f, a, n)
<1> DEFINE X == [fat |-> f, last |-> a]
           Step(g, k) == IF k = 0 THEN X ELSE Link(g[k - 1])
           Upto(g, m) == g = [k \in 0 .. m |-> Step(g, k)]
           T == {m \in 0 .. n : \E g : Upto(g, m)}
<1>1. 0 \in T
  <2> DEFINE g == [k \in 0 .. 0 |-> X]
  <2>1. \A k \in 0 .. 0 : Step(g, k) = X
    OBVIOUS
  <2>2. g = [k \in 0 .. 0 |-> Step(g, k)]
    BY <2>1
  <2>3. Upto(g, 0) /\ 0 \in 0 .. n
    BY <2>2
  <2> QED BY <2>3
<1>2. ASSUME NEW m \in 0 .. n - 1, m \in T
      PROVE  m + 1 \in T
  <2>1. PICK h : Upto(h, m)
    BY <1>2
  <2> DEFINE g == [k \in 0 .. m + 1 |-> IF k <= m THEN h[k] ELSE Step(h, m + 1)]
  <2>2. \A k \in 0 .. m : h[k] = Step(h, k)
    <3> HIDE DEF Step
    <3>1. h = [k \in 0 .. m |-> Step(h, k)]
      BY <2>1
    <3> QED BY <3>1
  <2>3. /\ \A k \in 0 .. m : g[k] = h[k]
        /\ g[m + 1] = Step(h, m + 1)
        /\ g = [k \in 0 .. m + 1 |-> g[k]]
    BY <1>2
  <2> HIDE DEF g
  <2>4. \A k \in 0 .. m + 1 : Step(g, k) = Step(h, k)
    <3> SUFFICES ASSUME NEW k \in 0 .. m + 1
                 PROVE  Step(g, k) = Step(h, k)
      OBVIOUS
    <3>1. k # 0 => k - 1 \in 0 .. m
      BY <1>2
    <3> QED BY <2>3, <3>1
  <2>5. \A k \in 0 .. m + 1 : g[k] = Step(g, k)
    <3> HIDE DEF Step
    <3> SUFFICES ASSUME NEW k \in 0 .. m + 1
                 PROVE  g[k] = Step(g, k)
      OBVIOUS
    <3>1. k = m + 1 \/ k \in 0 .. m
      BY <1>2
    <3> QED BY <2>2, <2>3, <2>4, <3>1
  <2>6. g = [k \in 0 .. m + 1 |-> Step(g, k)]
    <3> HIDE DEF Step
    <3> QED BY <2>3, <2>5
  <2>7. m + 1 \in 0 .. n
    BY <1>2
  <2> QED BY <2>6, <2>7
<1>3. n \in T
  <2> HIDE DEF T
  <2>1. 0 .. n \subseteq T
    BY <1>1, <1>2, UpTo
  <2> QED BY <2>1
<1>4. PICK g : Upto(g, n)
  BY <1>3
<1> QED BY <1>4 DEF Loop

(* n clusters are found for a chain when so many are unused: the chain gets
   them at its end, and no other changes. *)
LEMMA LongerIs ==
  ASSUME NEW f, NEW S, NEW s \in S, Tree(f, S), NEW n \in Nat, n <= Cardinality(Unused(f))
  PROVE  GrownBy(f, Longer(f, s, n), S, s, n)
<1> DEFINE a == Path(f, s)[Length(f, s) - 1]
           g == CHOOSE g : Loop(g, f, a, n)
<1>1. Longer(f, s, n) = g[n].fat
  BY DEF Longer, Extended, Loop, Link
<1>2. Loop(g, f, a, n)
  <2> HIDE DEF a
  <2> QED BY LoopExists
<1> HIDE DEF g
<1>3. g[0] = [fat |-> f, last |-> a] /\ \A k \in 0 .. n - 1 : g[k + 1] = Link(g[k])
  <2> HIDE DEF a
  <2>1. \A k \in 0 .. n : g[k] = IF k = 0 THEN [fat |-> f, last |-> a] ELSE Link(g[k - 1])
    BY <1>2 DEF Loop
  <2>2. 0 \in 0 .. n
    OBVIOUS
  <2>3. \A k \in 0 .. n - 1 : k + 1 \in 0 .. n /\ k + 1 # 0 /\ k + 1 - 1 = k
    OBVIOUS
  <2> QED BY <2>1, <2>2, <2>3
<1> DEFINE Right(k) == /\ GrownBy(f, g[k].fat, S, s, k)
                       /\ g[k].last = Path(g[k].fat, s)[Length(g[k].fat, s) - 1]
           T == {k \in 0 .. n : Right(k)}
<1>4. 0 \in T
  <2>1. g[0].fat = f /\ g[0].last = a
    BY <1>3
  <2>2. Right(0)
    BY <2>1, GrownNone
  <2> HIDE DEF Right
  <2> QED BY <2>2
<1>5. ASSUME NEW k \in 0 .. n - 1, k \in T
      PROVE  k + 1 \in T
  <2> DEFINE h == g[k].fat
             l == g[k].last
             c == Fresh(h)
             i == [h EXCEPT ![c] = EOF, ![l] = c]
  <2>1. GrownBy(f, h, S, s, k) /\ l = Path(h, s)[Length(h, s) - 1]
    BY <1>5
  <2>2. g[k + 1].fat = i /\ g[k + 1].last = c
    <3>1. Link(g[k]) = [fat |-> i, last |-> c]
      BY DEF Link
    <3> HIDE DEF i, c
    <3> QED BY <1>3, <3>1
  <2> HIDE DEF h, l
  <2>3. Tree(h, S) /\ Cardinality(Unused(h)) = Cardinality(Unused(f)) - k
    BY <2>1 DEF GrownBy
  <2>4. Unused(h) # {}
    <3>1. Cardinality(Unused(h)) # 0
      BY <2>3, UnusedIs
    <3> QED BY <3>1, FS_EmptySet
  <2>5. c \in Unused(h)
    BY <2>4, FreshIs
  <2> HIDE DEF c
  <2>6. c \in Cluster /\ l \in Cluster /\ l # c /\ h \in Table
    <3>1. Good(h, s) /\ ChainOf(h, s) \cap Unused(h) = {}
      BY <2>3, TreeParts
    <3>2. l \in ChainOf(h, s) /\ ChainOf(h, s) \subseteq Cluster
      BY <2>1, <3>1, GoodIs
    <3>3. c \in Cluster
      BY <2>5, UnusedIs
    <3> QED BY <2>3, <2>5, <3>1, <3>2, <3>3 DEF Tree
  <2>7. Linked(h, i, l, c)
    <3> DEFINE t == [h EXCEPT ![c] = EOF]
    <3>1. t \in Table /\ t[c] = EOF /\ \A d \in Cluster \ {c} : t[d] = h[d]
      BY <2>6 DEF Table
    <3>2. i = [t EXCEPT ![l] = c]
      OBVIOUS
    <3> HIDE DEF t, i
    <3>3. i \in Table /\ i[l] = c /\ \A d \in Cluster \ {l} : i[d] = t[d]
      BY <2>6, <3>1, <3>2 DEF Table
    <3> QED BY <2>6, <3>1, <3>3 DEF Linked
  <2> HIDE DEF i
  <2>8. Appends(h, i, s, c)
    BY <2>1, <2>7 DEF Appends
  <2>9. GrownBy(h, i, S, s, 1) /\ c = Path(i, s)[Length(i, s) - 1]
    BY <2>3, <2>5, <2>8, TreeAppend
  <2>10. GrownBy(f, i, S, s, k + 1)
    <3>1. k \in Nat /\ 1 \in Nat
      OBVIOUS
    <3> QED BY <2>1, <2>9, <3>1, GrownMore
  <2>11. Right(k + 1)
    BY <2>2, <2>9, <2>10
  <2>12. k + 1 \in 0 .. n
    OBVIOUS
  <2> HIDE DEF Right
  <2> QED BY <2>11, <2>12
<1>6. n \in T
  <2> HIDE DEF T
  <2>1. 0 .. n \subseteq T
    BY <1>4, <1>5, UpTo
  <2> QED BY <2>1
<1>7. Right(n)
  <2> HIDE DEF Right
  <2> QED BY <1>6
<1> QED BY <1>1, <1>7

-----------------------------------------------------------------------------
\* Chains that are cut and freed.

\* What the chain from c has from its place j on.
Rest(f, c, j) == {Path(f, c)[k] : k \in j .. Length(f, c) - 1}

(* The chain from a cluster of a chain is the rest of it. *)
LEMMA Behind ==
  ASSUME NEW f, NEW c, Good(f, c), NEW j \in 0 .. Length(f, c) - 1
  PROVE  ChainOf(f, Path(f, c)[j]) = Rest(f, c, j)
<1> DEFINE p == Path(f, c)
           n == Length(f, c)
           m == n - j
           q == [k \in 0 .. m |-> p[j + k]]
<1>1. c \in Cluster /\ p[0] = c /\ p[n] = EOF /\ Chain(f, p, n)
  BY DEF Good, Passes
<1>2. n \in Nat /\ j \in 0 .. n - 1
  <2>1. n \in 1 .. Clusters
    BY GoodIs
  <2> HIDE DEF n
  <2>2. j \in 0 .. n - 1
    BY DEF n
  <2> QED BY <2>1, <2>2
<1> HIDE DEF p, n
<1>3. /\ m \in Nat /\ m # 0 /\ j + m = n /\ j + 0 = j
      /\ \A k \in 0 .. m - 1 : /\ j + k \in 0 .. n - 1 /\ j + (k + 1) = j + k + 1
                               /\ k \in 0 .. m /\ k + 1 \in 0 .. m
  BY <1>2
<1> HIDE DEF m
<1>4. q[m] = EOF /\ q[0] = p[j] /\ \A k \in 0 .. m - 1 : q[k] = p[j + k] /\ q[k + 1] = p[j + k + 1]
  BY <1>1, <1>3
<1> HIDE DEF q
<1>5. p[j] \in Cluster
  BY <1>1, <1>2 DEF Chain
<1>6. EOF \notin Cluster
  BY DEF EOF, Cluster
<1>7. \A i, k \in 0 .. m - 1 : i # k => q[i] # q[k]
  <2> SUFFICES ASSUME NEW i \in 0 .. m - 1, NEW k \in 0 .. m - 1, i # k
               PROVE  q[i] # q[k]
    OBVIOUS
  <2>1. j + i \in 0 .. n - 1 /\ j + k \in 0 .. n - 1 /\ j + i # j + k
    BY <1>2, <1>3
  <2> QED BY <1>1, <1>4, <2>1 DEF Chain
<1>8. \A k \in 0 .. m - 1 : q[k] \in Cluster /\ f[q[k]] = q[k + 1]
  BY <1>1, <1>3, <1>4 DEF Chain
<1>9. Chain(f, q, m)
  BY <1>3, <1>4, <1>6, <1>7, <1>8 DEF Chain
<1>10. Passes(f, p[j], q, m)
  BY <1>4, <1>5, <1>9 DEF Passes
<1>11. ChainOf(f, p[j]) = {q[k] : k \in 0 .. m - 1}
  BY <1>10, GoodFrom
<1>12. {q[k] : k \in 0 .. m - 1} = {p[k] : k \in j .. n - 1}
  <2>1. ASSUME NEW k \in j .. n - 1
        PROVE  k - j \in 0 .. m - 1 /\ j + (k - j) = k
    BY <1>2 DEF m
  <2>2. ASSUME NEW k \in 0 .. m - 1
        PROVE  j + k \in j .. n - 1
    BY <1>2 DEF m
  <2> QED BY <1>4, <2>1, <2>2
<1> QED BY <1>11, <1>12 DEF Rest, p, n

\* g is f with the chain from s cut behind its place j, and without it.
Cuts(f, g, s, j) ==
  /\ g \in Table /\ g[Path(f, s)[j]] = EOF
  /\ \A d \in Rest(f, s, j) \ {Path(f, s)[j]} : g[d] = FREE
  /\ Agree(f, g, Cluster \ Rest(f, s, j))
Drops(f, g, s) ==
  /\ g \in Table /\ \A d \in ChainOf(f, s) : g[d] = FREE
  /\ Agree(f, g, Cluster \ ChainOf(f, s))

\* The chains of S but that from s are the same, and g has no more in use.
OthersSame(f, g, S, s) ==
  /\ \A d \in S \ {s} : Good(g, d) /\ Same(f, g, d)
  /\ Unused(f) \subseteq Unused(g)

(* A table that differs in the clusters of one chain keeps the other chains. *)
LEMMA OthersFrom ==
  ASSUME NEW f, NEW g \in Table, NEW S, NEW s \in S, Tree(f, S), Agree(f, g, Cluster \ ChainOf(f, s))
  PROVE  OthersSame(f, g, S, s)
<1>1. ASSUME NEW d \in S \ {s}
      PROVE  Good(g, d) /\ Same(f, g, d)
  <2>1. Good(f, d) /\ ChainOf(f, d) \cap ChainOf(f, s) = {}
    BY DEF Tree
  <2>2. ChainOf(f, d) \subseteq Cluster
    BY <2>1, GoodIs
  <2>3. Agree(f, g, ChainOf(f, d))
    BY <2>1, <2>2 DEF Agree
  <2> QED BY <2>1, <2>3, SameChain
<1>2. Unused(f) \subseteq Unused(g)
  <2>1. Unused(f) \subseteq Cluster /\ ChainOf(f, s) \cap Unused(f) = {}
    BY TreeParts, UnusedIs
  <2>2. \A x \in Unused(f) : g[x] = f[x]
    BY <2>1 DEF Agree
  <2> QED BY <2>1, <2>2 DEF Unused
<1> QED BY <1>1, <1>2 DEF OthersSame

(* Freeing all clusters of a chain leaves a tree of the others. *)
LEMMA TreeDrop ==
  ASSUME NEW f, NEW g, NEW S, NEW s \in S, Tree(f, S), Drops(f, g, s)
  PROVE  Tree(g, S \ {s}) /\ OthersSame(f, g, S, s)
<1>1. g \in Table /\ Agree(f, g, Cluster \ ChainOf(f, s))
  BY DEF Drops
<1>2. OthersSame(f, g, S, s)
  BY <1>1, OthersFrom
<1>3. \A d \in S \ {s} : Good(g, d) /\ ChainOf(g, d) = ChainOf(f, d)
  BY <1>2 DEF OthersSame, Same
<1>4. \A d, e \in S \ {s} : d # e => ChainOf(g, d) \cap ChainOf(g, e) = {}
  BY <1>3 DEF Tree
<1>5. ASSUME NEW x \in Cluster
      PROVE  g[x] # FREE <=> \E d \in S \ {s} : x \in ChainOf(g, d)
  <2>1. (\E d \in S \ {s} : x \in ChainOf(g, d)) <=> \E d \in S \ {s} : x \in ChainOf(f, d)
    BY <1>3
  <2>2. CASE x \in ChainOf(f, s)
    BY <2>1, <2>2 DEF Drops, Tree
  <2>3. CASE x \notin ChainOf(f, s)
    BY <2>1, <2>3 DEF Drops, Agree, Tree
  <2> QED BY <2>2, <2>3
<1> QED BY <1>1, <1>2, <1>3, <1>4, <1>5 DEF Tree

\* The chain from s has j + 1 clusters, those it had.
Shorter(f, g, s, j) ==
  /\ Length(g, s) = j + 1 /\ ChainOf(g, s) \subseteq ChainOf(f, s)
  /\ \A k \in 0 .. j : Path(g, s)[k] = Path(f, s)[k]

(* Freeing what is behind place j of a chain leaves it with j + 1 clusters. *)
LEMMA ChainCut ==
  ASSUME NEW f, NEW g, NEW s, Good(f, s), NEW j \in 0 .. Length(f, s) - 1, Cuts(f, g, s, j)
  PROVE  Good(g, s) /\ Shorter(f, g, s, j) /\ ChainOf(g, s) = ChainOf(f, s) \ (Rest(f, s, j) \ {Path(f, s)[j]})
<1> DEFINE p == Path(f, s)
           n == Length(f, s)
           q == [k \in 0 .. j + 1 |-> IF k <= j THEN p[k] ELSE EOF]
           m == j + 1
<1>1. s \in Cluster /\ p[0] = s /\ p[n] = EOF /\ Chain(f, p, n)
  BY DEF Good, Passes
<1>2. n \in Nat /\ j \in 0 .. n - 1 /\ ChainOf(f, s) = {p[k] : k \in 0 .. n - 1}
  <2>1. n \in 1 .. Clusters /\ ChainOf(f, s) = {p[k] : k \in 0 .. n - 1}
    BY GoodIs
  <2> HIDE DEF n
  <2>2. j \in 0 .. n - 1
    BY DEF n
  <2> QED BY <2>1, <2>2
<1>3. /\ g[p[j]] = EOF
      /\ \A d \in Cluster \ {p[k] : k \in j .. n - 1} : g[d] = f[d]
  BY DEF Cuts, Agree, Rest
<1> HIDE DEF p, n
<1>4. /\ \A k \in 0 .. j : q[k] = p[k] /\ k \in 0 .. n - 1
      /\ q[m] = EOF /\ q[0] = s
  BY <1>1, <1>2
<1>5. /\ m \in Nat /\ m # 0 /\ m - 1 = j /\ j \in Nat
      /\ \A k \in 0 .. j : k = j \/ (k + 1 \in 0 .. j /\ k \in 0 .. n - 1 /\ k \notin j .. n - 1)
  BY <1>2
<1> HIDE DEF q
<1>6. \A i, k \in 0 .. n - 1 : i # k => p[i] # p[k]
  BY <1>1 DEF Chain
<1>7. \A k \in 0 .. j : q[k] \in Cluster /\ g[q[k]] = q[k + 1]
  <2> SUFFICES ASSUME NEW k \in 0 .. j
               PROVE  q[k] \in Cluster /\ g[q[k]] = q[k + 1]
    OBVIOUS
  <2>1. p[k] \in Cluster /\ f[p[k]] = p[k + 1] /\ q[k] = p[k]
    BY <1>1, <1>4 DEF Chain
  <2>2. CASE k = j
    BY <1>3, <1>4, <2>1, <2>2
  <2>3. CASE k # j
    <3>1. k + 1 \in 0 .. j /\ k \in 0 .. n - 1 /\ k \notin j .. n - 1
      BY <1>5, <2>3
    <3>2. \A i \in j .. n - 1 : i \in 0 .. n - 1 /\ i # k
      BY <1>2, <3>1
    <3>3. p[k] \notin {p[i] : i \in j .. n - 1}
      BY <1>6, <3>1, <3>2
    <3>4. q[k + 1] = p[k + 1]
      BY <1>4, <3>1
    <3> QED BY <1>3, <2>1, <3>3, <3>4
  <2> QED BY <2>2, <2>3
<1>8. EOF \notin Cluster
  BY DEF EOF, Cluster
<1>9. \A i, k \in 0 .. j : i # k => q[i] # q[k]
  BY <1>4, <1>6
<1>10. Length(f, s) = n /\ m = j + 1
  BY DEF n
<1> HIDE DEF m
<1>11. Chain(g, q, m)
  BY <1>4, <1>5, <1>7, <1>8, <1>9 DEF Chain
<1>12. Passes(g, s, q, m)
  BY <1>1, <1>4, <1>11 DEF Passes
<1>13. /\ Good(g, s) /\ Length(g, s) = m /\ \A k \in 0 .. m : Path(g, s)[k] = q[k]
       /\ ChainOf(g, s) = {q[k] : k \in 0 .. m - 1}
  BY <1>12, GoodFrom
<1>14. \A k \in 0 .. j : k \in 0 .. m
  BY <1>5, <1>10
<1>15. ChainOf(g, s) = {p[k] : k \in 0 .. j}
  BY <1>4, <1>5, <1>13
<1>16. ChainOf(g, s) \subseteq ChainOf(f, s)
  BY <1>2, <1>4, <1>15
<1>17. Shorter(f, g, s, j)
  BY <1>4, <1>10, <1>13, <1>14, <1>16 DEF Shorter, p
<1>18. {p[k] : k \in 0 .. j} = {p[k] : k \in 0 .. n - 1} \ ({p[k] : k \in j .. n - 1} \ {p[j]})
  <2>1. \A k \in 0 .. n - 1 : k \in 0 .. j \/ (k \in j .. n - 1 /\ k # j)
    BY <1>2
  <2>2. \A k \in j .. n - 1 : k \in 0 .. n - 1 /\ (k \in 0 .. j => k = j)
    BY <1>2
  <2>3. j \in 0 .. n - 1 /\ \A k \in 0 .. j : k \in 0 .. n - 1
    BY <1>2
  <2> QED BY <1>6, <2>1, <2>2, <2>3
<1>19. Rest(f, s, j) = {p[k] : k \in j .. n - 1}
  BY DEF Rest, p, n
<1> QED BY <1>2, <1>13, <1>15, <1>17, <1>18, <1>19 DEF p

(* And leaves a tree of the same chains. *)
LEMMA TreeCut ==
  ASSUME NEW f, NEW g, NEW S, NEW s \in S, Tree(f, S), NEW j \in 0 .. Length(f, s) - 1, Cuts(f, g, s, j)
  PROVE  Tree(g, S) /\ OthersSame(f, g, S, s) /\ Shorter(f, g, s, j)
<1> DEFINE gone == Rest(f, s, j) \ {Path(f, s)[j]}
<1>1. Good(f, s)
  BY TreeParts
<1>2. g \in Table /\ g[Path(f, s)[j]] = EOF /\ Agree(f, g, Cluster \ Rest(f, s, j)) /\ \A d \in gone : g[d] = FREE
  BY DEF Cuts
<1>3. Good(g, s) /\ Shorter(f, g, s, j) /\ ChainOf(g, s) = ChainOf(f, s) \ gone
  BY <1>1, ChainCut
<1>4. ChainOf(f, s) = {Path(f, s)[k] : k \in 0 .. Length(f, s) - 1} /\ Length(f, s) \in Nat
  BY <1>1, GoodIs
<1>5. Rest(f, s, j) \subseteq ChainOf(f, s) /\ Path(f, s)[j] \in ChainOf(f, s)
  <2>1. \A k \in j .. Length(f, s) - 1 : k \in 0 .. Length(f, s) - 1
    BY <1>4
  <2> QED BY <1>4, <2>1 DEF Rest
<1> HIDE DEF gone
<1>6. Agree(f, g, Cluster \ ChainOf(f, s))
  BY <1>2, <1>5 DEF Agree
<1>7. OthersSame(f, g, S, s)
  BY <1>2, <1>6, OthersFrom
<1>8. \A d \in S : Good(g, d) /\ ChainOf(g, d) = IF d = s THEN ChainOf(f, s) \ gone ELSE ChainOf(f, d)
  BY <1>3, <1>7 DEF OthersSame, Same
<1>9. \A d, e \in S : d # e => ChainOf(g, d) \cap ChainOf(g, e) = {}
  BY <1>8 DEF Tree
<1>10. ASSUME NEW x \in Cluster
       PROVE  g[x] # FREE <=> \E d \in S : x \in ChainOf(g, d)
  <2>1. CASE x \in gone
    <3>1. x \in ChainOf(f, s)
      BY <1>5, <2>1 DEF gone
    <3>2. \A d \in S : x \notin ChainOf(g, d)
      BY <1>8, <2>1, <3>1 DEF Tree
    <3> QED BY <1>2, <2>1, <3>2
  <2>2. CASE x \notin gone
    <3>1. (\E d \in S : x \in ChainOf(g, d)) <=> \E d \in S : x \in ChainOf(f, d)
      BY <1>8, <2>2
    <3>2. CASE x = Path(f, s)[j]
      <4>1. g[x] # FREE
        BY <1>2, <3>2 DEF EOF, FREE
      <4>2. x \in ChainOf(f, s)
        BY <1>5, <3>2
      <4> QED BY <3>1, <4>1, <4>2
    <3>3. CASE x # Path(f, s)[j]
      <4>1. g[x] = f[x]
        BY <1>2, <2>2, <3>3 DEF Agree, gone
      <4> QED BY <3>1, <4>1 DEF Tree
    <3> QED BY <3>2, <3>3
  <2> QED BY <2>1, <2>2
<1> QED BY <1>2, <1>3, <1>7, <1>8, <1>9, <1>10 DEF Tree

-----------------------------------------------------------------------------
\* Offsets of files and units of the disk.

\* The offsets the clusters of the chain from c have, and the unit of one.
Span(f, c) == 0 .. Length(f, c) * ClusterUnits - 1
At(f, c, o) == Unit(Path(f, c)[o \div ClusterUnits], o % ClusterUnits)

(* An offset is in the clusters of a chain when its cluster has a place there. *)
LEMMA SpanIs ==
  ASSUME NEW f, NEW c, Good(f, c), NEW o
  PROVE  /\ o \in Span(f, c) <=> o \in Nat /\ o \div ClusterUnits < Length(f, c)
         /\ o \in Span(f, c) => /\ o \in Nat /\ o \div ClusterUnits \in 0 .. Length(f, c) - 1
                                /\ o % ClusterUnits \in 0 .. ClusterUnits - 1
                                /\ o = (o \div ClusterUnits) * ClusterUnits + (o % ClusterUnits)
<1> DEFINE n == Length(f, c)
           m == ClusterUnits
           L == n * m
<1>1. n \in Nat /\ m \in Nat \ {0}
  BY GoodIs, Units
<1>2. Span(f, c) = 0 .. L - 1
  BY DEF Span
<1> HIDE DEF n, m
<1>3. L \in Nat
  BY <1>1
<1> HIDE DEF L
<1>4. o \in Span(f, c) <=> o \in Nat /\ o < L
  BY <1>2, <1>3
<1>5. CASE o \in Nat
  <2>1. /\ o \div m \in Nat /\ o % m \in 0 .. m - 1
        /\ (o < L <=> o \div m < n) /\ o = (o \div m) * m + (o % m)
    BY <1>1, <1>5, Offsets DEF L, m
  <2> DEFINE q == o \div m
  <2> HIDE DEF q
  <2>2. o \in Span(f, c) <=> q < n
    BY <1>4, <1>5, <2>1 DEF q
  <2>3. q < n <=> q \in 0 .. n - 1
    BY <1>1, <2>1 DEF q
  <2> QED BY <1>5, <2>1, <2>2, <2>3 DEF q, n, m
<1>6. CASE o \notin Nat
  BY <1>4, <1>6
<1> QED BY <1>5, <1>6

(* A file's offset has a unit of the file's clusters. *)
LEMMA AtIs ==
  ASSUME NEW f, NEW c, Good(f, c), NEW o \in Span(f, c)
  PROVE  /\ At(f, c, o) \in DiskUnits /\ At(f, c, o) \in Nat
         /\ Owner(At(f, c, o)) = Path(f, c)[o \div ClusterUnits]
         /\ Owner(At(f, c, o)) \in ChainOf(f, c)
         /\ At(f, c, o) % ClusterUnits = o % ClusterUnits
<1> DEFINE q == o \div ClusterUnits
           r == o % ClusterUnits
           p == Path(f, c)
<1>1. q \in 0 .. Length(f, c) - 1 /\ r \in 0 .. ClusterUnits - 1
  BY SpanIs
<1>2. ChainOf(f, c) = {p[k] : k \in 0 .. Length(f, c) - 1} /\ ChainOf(f, c) \subseteq Cluster
  BY GoodIs
<1> HIDE DEF q, r, p
<1>3. p[q] \in ChainOf(f, c) /\ p[q] \in Cluster
  BY <1>1, <1>2
<1>4. /\ Unit(p[q], r) \in DiskUnits /\ Unit(p[q], r) \in Nat
      /\ Owner(Unit(p[q], r)) = p[q] /\ Unit(p[q], r) % ClusterUnits = r
  BY <1>1, <1>3, UnitParts
<1>5. At(f, c, o) = Unit(p[q], r)
  BY DEF At, p, q, r
<1> QED BY <1>3, <1>4, <1>5 DEF p, q, r

(* Different offsets have different units. *)
LEMMA AtDiffer ==
  ASSUME NEW f, NEW c, Good(f, c), NEW o \in Span(f, c), NEW s \in Span(f, c),
         At(f, c, o) = At(f, c, s)
  PROVE  o = s
<1> DEFINE m == ClusterUnits
           p == Path(f, c)
<1>1. p[o \div m] = p[s \div m] /\ o % m = s % m
  BY AtIs
<1>2. o \div m \in 0 .. Length(f, c) - 1 /\ s \div m \in 0 .. Length(f, c) - 1
  BY SpanIs
<1>3. o = (o \div m) * m + (o % m) /\ s = (s \div m) * m + (s % m)
  BY SpanIs
<1>4. \A j, k \in 0 .. Length(f, c) - 1 : j # k => p[j] # p[k]
  BY DEF Good, Passes, Chain
<1>5. o \div m = s \div m
  <2> HIDE DEF m, p
  <2> QED BY <1>1, <1>2, <1>4
<1> HIDE DEF m, p
<1> QED BY <1>1, <1>3, <1>5

(* Every unit of a file's clusters has an offset. *)
LEMMA AtReaches ==
  ASSUME NEW f, NEW c, Good(f, c), NEW u \in DiskUnits, Owner(u) \in ChainOf(f, c)
  PROVE  \E o \in Span(f, c) : At(f, c, o) = u
<1> DEFINE m == ClusterUnits
           p == Path(f, c)
           n == Length(f, c)
           a == u \div m
           r == u % m
<1>1. m \in Nat \ {0} /\ n \in 1 .. Clusters
  BY Units, GoodIs
<1>2. u \in Nat
  BY DEF DiskUnits
<1>3. a \in Nat /\ r \in 0 .. m - 1 /\ a * m \in Nat /\ u = a * m + r
  <2> HIDE DEF m
  <2> QED BY <1>1, <1>2, Divided
<1>4. PICK k \in 0 .. n - 1 : p[k] = Owner(u)
  BY GoodIs
<1>5. Owner(u) = a + 2
  BY DEF Owner
<1> HIDE DEF m, n, a, r
<1>6. k \in Nat /\ k < n
  BY <1>1, <1>4
<1> DEFINE o == k * m + r
<1>7. o \div m = k /\ o % m = r /\ k * m \in Nat
  BY <1>1, <1>3, <1>6, DividedIs
<1>8. o \in Nat
  BY <1>3, <1>1, <1>7
<1> HIDE DEF o
<1>9. o \in Span(f, c)
  BY <1>6, <1>7, <1>8, SpanIs DEF m, n
<1>10. At(f, c, o) = (p[k] - 2) * m + r
  BY <1>7 DEF At, Unit, m
<1>11. At(f, c, o) = u
  <2>1. p[k] - 2 = a
    BY <1>3, <1>4, <1>5
  <2> HIDE DEF p
  <2> QED BY <1>3, <1>10, <2>1
<1> QED BY <1>9, <1>11

(* Where one sector is one cluster, calls find an offset at its unit. *)
LEMMA AddressAt ==
  ASSUME SecPerClus = 1, NEW f, NEW c, Good(f, c), NEW s \in Nat, NEW o \in Span(f, c)
  PROVE  Address(Path(f, c), s, o) = At(f, c, o)
<1>1. o \in Nat /\ Owner(At(f, c, o)) = Path(f, c)[o \div ClusterUnits] /\ Owner(At(f, c, o)) \in Cluster
  <2>1. Owner(At(f, c, o)) \in ChainOf(f, c) /\ ChainOf(f, c) \subseteq Cluster
    BY AtIs, GoodIs
  <2> QED BY <2>1, AtIs, SpanIs
<1>2. Path(f, c)[o \div ClusterUnits] \in Cluster
  BY <1>1
<1> QED BY <1>1, <1>2, AddressIs DEF At

\* The chain from c begins with the same n clusters in both tables.
Begins(f, g, c, n) ==
  /\ n \in Nat /\ n <= Length(f, c) /\ n <= Length(g, c)
  /\ \A k \in 0 .. n - 1 : Path(g, c)[k] = Path(f, c)[k]

(* An offset keeps its unit in a table that has the same first clusters. *)
LEMMA AtSame ==
  ASSUME NEW f, NEW g, NEW c, Good(f, c), Good(g, c), NEW n, Begins(f, g, c, n),
         NEW o \in Nat, o \div ClusterUnits < n
  PROVE  o \in Span(f, c) /\ o \in Span(g, c) /\ At(g, c, o) = At(f, c, o)
<1> DEFINE q == o \div ClusterUnits
<1>1. Length(f, c) \in Nat /\ Length(g, c) \in Nat /\ q \in Nat /\ n \in Nat
  <2>1. q \in Nat
    BY Units, Divided
  <2>2. Length(f, c) \in 1 .. Clusters /\ Length(g, c) \in 1 .. Clusters
    BY GoodIs
  <2> QED BY <2>1, <2>2 DEF Begins
<1> HIDE DEF q
<1>2. q < Length(f, c) /\ q < Length(g, c) /\ q \in 0 .. n - 1
  BY <1>1 DEF q, Begins
<1>3. o \in Span(f, c) /\ o \in Span(g, c)
  BY <1>2, SpanIs DEF q
<1>4. Path(g, c)[q] = Path(f, c)[q]
  BY <1>2 DEF Begins
<1> QED BY <1>3, <1>4 DEF At, q

(* And all do where the chain is the same. *)
LEMMA SameAt ==
  ASSUME NEW f, NEW g, NEW c, Good(f, c), Same(f, g, c), NEW o \in Span(f, c)
  PROVE  o \in Span(g, c) /\ At(g, c, o) = At(f, c, o)
<1>1. Span(g, c) = Span(f, c)
  BY DEF Same, Span
<1>2. o \div ClusterUnits \in 0 .. Length(f, c)
  <2>1. o \div ClusterUnits \in 0 .. Length(f, c) - 1 /\ Length(f, c) \in Nat
    BY SpanIs, GoodIs
  <2> QED BY <2>1
<1> QED BY <1>1, <1>2 DEF Same, At

-----------------------------------------------------------------------------
\* The volume: what is true of table, disk, open files and content together.

\* The units of d with an entry, and the clusters files start in.
FileUnits(d) == {u \in DiskUnits : d[u][1] = "file"}
Starts(d) == {d[u][3] : u \in FileUnits(d)} \ {0}
Roots(d) == {Root} \cup Starts(d)

\* A file of z units from cluster s on has the clusters it needs, and holds w.
Fits(f, d, s, z, w) ==
  /\ s = 0 <=> z = 0
  /\ s # 0 => Length(f, s) * ClusterUnits >= z /\ Length(f, s) <= z \div ClusterUnits + 1
  /\ DOMAIN w = 0 .. z - 1
  /\ \A o \in 0 .. z - 1 : w[o] # NoData => d[At(f, s, o)] = w[o]

\* The entry in unit u lies in the directory and describes its file.
FileOK(f, d, c, u) ==
  /\ Owner(u) \in ChainOf(f, Root)
  /\ d[u][2] \in Names /\ d[u][3] \in Nat /\ d[u][4] \in Nat
  /\ Fits(f, d, d[u][3], d[u][4], c[d[u][2]])

\* Entries differ in their names and in their clusters.
Listing(d) ==
  \A u, v \in FileUnits(d) :
    u # v => d[u][2] # d[v][2] /\ (d[u][3] # 0 => d[u][3] # d[v][3])

\* What handle r remembers of its file's entry is what the entry says.
HandleOK(f, d, r) ==
  \E u \in FileUnits(d) :
    /\ d[u][2] = r.name /\ r.findex \in DirIndexes(f) /\ At(f, Root, r.findex) = u
    /\ r.size = d[u][4] /\ (r.size # 0 => r.fnode = d[u][3])

Handle == [name : Names, fnode : Int, size : Int, findex : Int]

\* The handles in h are all in order.
Volume(f, d, h, c) ==
  /\ d = [u \in DiskUnits |-> d[u]] /\ h \subseteq Handle /\ c = [n \in Names |-> c[n]]
  /\ Tree(f, Roots(d)) /\ Root \notin Starts(d) /\ Listing(d)
  /\ \A u \in FileUnits(d) : FileOK(f, d, c, u)
  /\ \A r \in h : HandleOK(f, d, r)

(* A volume's root directory is a chain, and its indexes are that chain's. *)
LEMMA Rooted ==
  ASSUME NEW f, NEW d, Tree(f, Roots(d))
  PROVE  Good(f, Root) /\ DirIndexes(f) = Span(f, Root)
<1>1. Root \in Roots(d)
  BY DEF Roots
<1> QED BY <1>1, TreeParts DEF DirIndexes, Span

\* The chain from s and the units of its clusters are the same.
Keeps(f, g, d, e, s) ==
  /\ Good(f, s) /\ Good(g, s) /\ Same(f, g, s)
  /\ \A x \in DiskUnits : Owner(x) \in ChainOf(f, s) => e[x] = d[x]

(* An offset of a file is one of its clusters'. *)
LEMMA InSpan ==
  ASSUME NEW f, NEW s, Good(f, s), NEW z \in Nat, Length(f, s) * ClusterUnits >= z, NEW o \in 0 .. z - 1
  PROVE  o \in Span(f, s)
<1> DEFINE L == Length(f, s) * ClusterUnits
<1>1. L \in Nat
  BY GoodIs, Units
<1>2. L >= z
  OBVIOUS
<1> HIDE DEF L
<1>3. o \in 0 .. L - 1
  BY <1>1, <1>2
<1> QED BY <1>3 DEF Span, L

(* A file fits where its chain and the units of its clusters are kept. *)
LEMMA FitsSame ==
  ASSUME NEW f, NEW g, NEW d, NEW e, NEW s, NEW z \in Nat, NEW w,
         Fits(f, d, s, z, w), s = 0 \/ Keeps(f, g, d, e, s)
  PROVE  Fits(g, e, s, z, w)
<1>1. CASE s = 0
  <2>1. z = 0 /\ 0 .. z - 1 = {}
    BY <1>1 DEF Fits
  <2> QED BY <1>1, <2>1 DEF Fits
<1>2. CASE s # 0
  <2>1. Good(f, s) /\ Same(f, g, s) /\ \A x \in DiskUnits : Owner(x) \in ChainOf(f, s) => e[x] = d[x]
    BY <1>2 DEF Keeps
  <2>2. Length(g, s) = Length(f, s)
    BY <2>1 DEF Same
  <2>3. Length(f, s) * ClusterUnits >= z
    BY <1>2 DEF Fits
  <2>4. ASSUME NEW o \in 0 .. z - 1, w[o] # NoData
        PROVE  e[At(g, s, o)] = w[o]
    <3>1. o \in Span(f, s)
      BY <2>1, <2>3, InSpan
    <3>2. At(g, s, o) = At(f, s, o)
      BY <2>1, <3>1, SameAt
    <3>3. At(f, s, o) \in DiskUnits /\ Owner(At(f, s, o)) \in ChainOf(f, s)
      BY <2>1, <3>1, AtIs
    <3>4. d[At(f, s, o)] = w[o]
      BY <2>4 DEF Fits
    <3> QED BY <2>1, <3>2, <3>3, <3>4
  <2> QED BY <2>2, <2>4 DEF Fits
<1> QED BY <1>1, <1>2

\* The directory has the clusters it had, and perhaps more behind them.
DirKept(f, g) ==
  /\ Good(f, Root) /\ Good(g, Root) /\ Begins(f, g, Root, Length(f, Root))
  /\ ChainOf(f, Root) \subseteq ChainOf(g, Root)

(* The directory is kept where its chain is the same. *)
LEMMA DirSame ==
  ASSUME NEW f, NEW g, Good(f, Root), Good(g, Root), Same(f, g, Root)
  PROVE  DirKept(f, g)
<1>1. Length(f, Root) \in Nat
  BY GoodIs
<1>2. \A k \in 0 .. Length(f, Root) - 1 : k \in 0 .. Length(f, Root)
  BY <1>1
<1> QED BY <1>1, <1>2 DEF DirKept, Begins, Same

(* And where its chain is longer. *)
LEMMA DirGrown ==
  ASSUME NEW f, NEW g, NEW S, Root \in S, Tree(f, S), NEW n \in Nat, GrownBy(f, g, S, Root, n)
  PROVE  DirKept(f, g)
<1>1. Good(f, Root) /\ Good(g, Root)
  BY TreeParts DEF GrownBy
<1>2. Length(f, Root) \in Nat
  BY <1>1, GoodIs
<1>3. Begins(f, g, Root, Length(f, Root))
  BY <1>2 DEF Begins, GrownBy
<1> QED BY <1>1, <1>3 DEF DirKept, GrownBy

(* An index keeps its unit in a directory that is kept. *)
LEMMA DirAt ==
  ASSUME NEW f, NEW g, DirKept(f, g), NEW i \in DirIndexes(f)
  PROVE  i \in DirIndexes(g) /\ At(g, Root, i) = At(f, Root, i)
<1>1. Good(f, Root) /\ Good(g, Root) /\ Begins(f, g, Root, Length(f, Root)) /\ i \in Span(f, Root)
  BY DEF DirKept, DirIndexes, Span
<1>2. i \in Nat /\ i \div ClusterUnits < Length(f, Root)
  BY <1>1, SpanIs
<1>3. i \in Span(g, Root) /\ At(g, Root, i) = At(f, Root, i)
  BY <1>1, <1>2, AtSame
<1> QED BY <1>3 DEF DirIndexes, Span

(* An entry is in order where it, its file and its content are kept. *)
LEMMA FileSame ==
  ASSUME NEW f, NEW g, NEW d, NEW e, NEW c, NEW b, NEW u, FileOK(f, d, c, u),
         e[u] = d[u], b[d[u][2]] = c[d[u][2]], DirKept(f, g),
         d[u][3] = 0 \/ Keeps(f, g, d, e, d[u][3])
  PROVE  FileOK(g, e, b, u)
<1> DEFINE s == d[u][3]
           z == d[u][4]
           w == c[d[u][2]]
<1>1. Fits(f, d, s, z, w) /\ z \in Nat /\ (s = 0 \/ Keeps(f, g, d, e, s))
  BY DEF FileOK
<1> HIDE DEF s, z, w
<1>2. Fits(g, e, s, z, w)
  BY <1>1, FitsSame
<1>3. Owner(u) \in ChainOf(g, Root)
  BY DEF FileOK, DirKept
<1> QED BY <1>2, <1>3 DEF FileOK, s, z, w

(* A handle agrees with its entry where the entry is kept. *)
LEMMA HandleSame ==
  ASSUME NEW f, NEW g, NEW d, NEW e, NEW r, HandleOK(f, d, r), DirKept(f, g),
         \A v \in FileUnits(d) : d[v][2] = r.name => v \in FileUnits(e) /\ e[v] = d[v]
  PROVE  HandleOK(g, e, r)
<1> DEFINE i == r.findex
<1>1. PICK u \in FileUnits(d) :
        /\ d[u][2] = r.name /\ i \in DirIndexes(f) /\ At(f, Root, i) = u
        /\ r.size = d[u][4] /\ (r.size # 0 => r.fnode = d[u][3])
  BY DEF HandleOK
<1> HIDE DEF i
<1>2. i \in DirIndexes(g) /\ At(g, Root, i) = u
  BY <1>1, DirAt
<1>3. u \in FileUnits(e) /\ e[u] = d[u]
  BY <1>1
<1> QED BY <1>1, <1>2, <1>3 DEF i, HandleOK

\* Nothing changes but the file n with its entry in unit u.
OnlyFile(f, g, d, e, h, j, c, b, n, u) ==
  /\ e = [x \in DiskUnits |-> e[x]] /\ j \subseteq Handle /\ b = [m \in Names |-> b[m]]
  /\ DirKept(f, g)
  /\ FileUnits(e) \ {u} = FileUnits(d) \ {u}
  /\ \A v \in FileUnits(d) \ {u} : /\ e[v] = d[v] /\ d[v][2] # n
                                   /\ d[v][3] = 0 \/ Keeps(f, g, d, e, d[v][3])
  /\ \A r \in j : r.name # n => r \in h
  /\ \A m \in Names \ {n} : b[m] = c[m]

\* Its entry is right, and starts in no cluster another file starts in.
NewFile(g, d, e, j, b, n, u) ==
  /\ u \in FileUnits(e) => /\ e[u][2] = n /\ FileOK(g, e, b, u) /\ e[u][3] # Root
                           /\ \A v \in FileUnits(d) \ {u} : e[u][3] # 0 => e[u][3] # d[v][3]
  /\ \A r \in j : r.name = n => HandleOK(g, e, r)

(* A step that works on one file and its entry keeps the volume in order, when
   that file is in order behind it. *)
LEMMA VolumeKept ==
  ASSUME NEW f, NEW g, NEW d, NEW e, NEW h, NEW j, NEW c, NEW b, NEW n \in Names, NEW u,
         Volume(f, d, h, c), OnlyFile(f, g, d, e, h, j, c, b, n, u),
         NewFile(g, d, e, j, b, n, u), Tree(g, Roots(e)),
         u \in FileUnits(d) => d[u][2] = n
  PROVE  Volume(g, e, j, b)
<1> DEFINE O == FileUnits(d) \ {u}
<1>1. \A v \in FileUnits(e) : v = u \/ v \in O
  BY DEF OnlyFile
<1>2. \A v \in O : e[v] = d[v] /\ d[v][2] # n /\ (d[v][3] = 0 \/ Keeps(f, g, d, e, d[v][3]))
  BY DEF OnlyFile
<1>3. Root \notin Starts(e)
  <2>1. \A v \in O : d[v][3] = 0 \/ d[v][3] \in Starts(d)
    BY DEF Starts
  <2>2. \A v \in O : d[v][3] # Root
    BY <2>1 DEF Volume, Root
  <2> HIDE DEF O
  <2> QED BY <1>1, <1>2, <2>2 DEF Starts, NewFile
<1>4. Listing(e)
  <2>1. \A v, x \in O : v # x => d[v][2] # d[x][2] /\ (d[v][3] # 0 => d[v][3] # d[x][3])
    BY DEF Volume, Listing
  <2>2. \A v \in O : v # u
    OBVIOUS
  <2>3. u \in FileUnits(e) => /\ e[u][2] = n
                              /\ \A v \in O : e[u][3] # 0 => e[u][3] # d[v][3]
    BY DEF NewFile
  <2> HIDE DEF O
  <2>4. ASSUME NEW v \in FileUnits(e), NEW x \in FileUnits(e), v # x
        PROVE  e[v][2] # e[x][2] /\ (e[v][3] # 0 => e[v][3] # e[x][3])
    <3>1. CASE v = u
      <4>1. x \in O
        BY <1>1, <2>4, <3>1
      <4> QED BY <1>2, <2>3, <3>1, <4>1
    <3>2. CASE x = u
      <4>1. v \in O
        BY <1>1, <2>4, <3>2
      <4> QED BY <1>2, <2>3, <3>2, <4>1
    <3>3. CASE v # u /\ x # u
      <4>1. v \in O /\ x \in O
        BY <1>1, <3>3
      <4> QED BY <1>2, <2>1, <2>4, <4>1
    <3> QED BY <3>1, <3>2, <3>3
  <2> QED BY <2>4 DEF Listing
<1>5. ASSUME NEW v \in FileUnits(e)
      PROVE  FileOK(g, e, b, v)
  <2>1. CASE v = u
    BY <2>1 DEF NewFile
  <2>2. CASE v \in O
    <3>1. FileOK(f, d, c, v) /\ d[v][2] \in Names
      BY <2>2 DEF Volume, FileOK
    <3>2. DirKept(f, g) /\ b[d[v][2]] = c[d[v][2]]
      BY <1>2, <2>2, <3>1 DEF OnlyFile
    <3> HIDE DEF O
    <3> QED BY <1>2, <2>2, <3>1, <3>2, FileSame
  <2> QED BY <1>1, <2>1, <2>2
<1>6. ASSUME NEW r \in j
      PROVE  HandleOK(g, e, r)
  <2>1. CASE r.name = n
    BY <2>1 DEF NewFile
  <2>2. CASE r.name # n
    <3>1. HandleOK(f, d, r) /\ DirKept(f, g)
      BY <2>2 DEF Volume, OnlyFile
    <3>2. \A v \in FileUnits(d) : d[v][2] = r.name => v \in FileUnits(e) /\ e[v] = d[v]
      <4>1. \A v \in FileUnits(d) : d[v][2] = r.name => v \in O
        BY <2>2
      <4>2. \A v \in O : v \in FileUnits(e)
        BY DEF OnlyFile
      <4> QED BY <1>2, <4>1, <4>2
    <3> QED BY <3>1, <3>2, HandleSame
  <2> QED BY <2>1, <2>2
<1>7. e = [x \in DiskUnits |-> e[x]] /\ j \subseteq Handle /\ b = [m \in Names |-> b[m]]
  BY DEF OnlyFile
<1> QED BY <1>3, <1>4, <1>5, <1>6, <1>7 DEF Volume

-----------------------------------------------------------------------------
\* What a crash leaves, and the writes of a call on their way to the disk.

\* With table f the disk d gives no cluster to two files.
Listed(f, d) == {u \in FileUnits(d) : Owner(u) \in ChainOf(f, Root) /\ d[u][3] # 0}
Apart(f, d) ==
  /\ Good(f, Root)
  /\ \A u \in Listed(f, d) : ChainOf(f, d[u][3]) \cap ChainOf(f, Root) = {}
  /\ \A u, v \in Listed(f, d) : u # v => ChainOf(f, d[u][3]) \cap ChainOf(f, d[v][3]) = {}

\* And it has every file but those of M, once, with what was written to it.
Whole(f, d, c, M) ==
  /\ \A u, v \in FileUnits(d) : u # v => d[u][2] # d[v][2]
  /\ \A u \in FileUnits(d) : d[u][2] \notin M =>
       FileOK(f, d, c, u) /\ (d[u][3] # 0 => Good(f, d[u][3]))

Safe(f, d, c, M) == Apart(f, d) /\ Whole(f, d, c, M)

\* Entries start in clusters of S or in clusters not in use, each in its own.
StartsIn(f, d, S) ==
  /\ \A u \in FileUnits(d) : d[u][3] \in (S \ {Root}) \cup {0} \cup Unused(f)
  /\ \A u, v \in FileUnits(d) : u # v /\ d[u][3] # 0 => d[u][3] # d[v][3]

(* A chain from an unused cluster is that cluster alone. *)
LEMMA UnusedChain ==
  ASSUME NEW f, NEW c \in Unused(f)
  PROVE  ChainOf(f, c) = {c}
<1> DEFINE p == [k \in 0 .. 1 |-> IF k = 0 THEN c ELSE FREE]
           n == 1
<1>1. p[0] = c /\ p[n] = FREE /\ n \in Nat /\ 0 + 1 = n /\ 0 .. n - 1 = {0}
  OBVIOUS
<1>2. c \in Cluster /\ f[c] = FREE /\ FREE \notin Cluster
  BY DEF Unused, FREE, Cluster
<1> HIDE DEF p, n
<1>3. Chain(f, p, n)
  BY <1>1, <1>2 DEF Chain
<1>4. ChainOf(f, p[0]) = {p[k] : k \in 0 .. n - 1}
  BY <1>3, ChainSet
<1> QED BY <1>1, <1>4

(* Files are apart whose entries start in clusters of a tree or in unused ones,
   each in its own. *)
LEMMA ApartIs ==
  ASSUME NEW f, NEW d, NEW S, Tree(f, S), Root \in S, StartsIn(f, d, S)
  PROVE  Apart(f, d)
<1>1. Good(f, Root)
  BY TreeParts
<1>2. ASSUME NEW a \in S \cup Unused(f), NEW b \in S \cup Unused(f), a # b
      PROVE  ChainOf(f, a) \cap ChainOf(f, b) = {}
  <2>1. \A x \in S : ChainOf(f, x) \cap Unused(f) = {}
    BY TreeParts
  <2>2. \A x \in Unused(f) : ChainOf(f, x) = {x}
    BY UnusedChain
  <2>3. CASE a \in S /\ b \in S
    BY <1>2, <2>3 DEF Tree
  <2>4. CASE a \in Unused(f) \/ b \in Unused(f)
    BY <1>2, <2>1, <2>2, <2>4
  <2> QED BY <2>3, <2>4
<1>3. Root \notin Unused(f)
  <2>1. Root \in ChainOf(f, Root)
    BY <1>1, GoodIs
  <2> QED BY <2>1, TreeParts
<1>4. \A u \in Listed(f, d) : d[u][3] \in S \cup Unused(f) /\ d[u][3] # Root
  BY <1>3 DEF Listed, StartsIn
<1>5. \A u, v \in Listed(f, d) : u # v => d[u][3] # d[v][3]
  BY DEF Listed, StartsIn
<1> QED BY <1>1, <1>2, <1>4, <1>5 DEF Apart

(* The entries of a volume start in the clusters of every tree that has its
   chains. *)
LEMMA RootsIn ==
  ASSUME NEW f, NEW d, Listing(d), Root \notin Starts(d), NEW S, Roots(d) \subseteq S
  PROVE  StartsIn(f, d, S)
<1>1. \A u \in FileUnits(d) : d[u][3] = 0 \/ d[u][3] \in Starts(d)
  BY DEF Starts
<1> QED BY <1>1 DEF StartsIn, Roots, Listing

\* Content b is c but for the files of M.
Alike(c, b, M) == \A m \in Names : m \notin M => b[m] = c[m]

(* A volume in order is safe, and stays so when the content of a file is another. *)
LEMMA SafeVolume ==
  ASSUME NEW f, NEW d, NEW h, NEW c, Volume(f, d, h, c), NEW b, NEW M, Alike(c, b, M)
  PROVE  Safe(f, d, b, M)
<1>1. Tree(f, Roots(d)) /\ Root \in Roots(d) /\ Root \notin Starts(d) /\ Listing(d)
  BY DEF Volume, Roots
<1>2. StartsIn(f, d, Roots(d))
  BY <1>1, RootsIn
<1>3. Apart(f, d)
  BY <1>1, <1>2, ApartIs
<1>4. ASSUME NEW u \in FileUnits(d), d[u][2] \notin M
      PROVE  FileOK(f, d, b, u) /\ (d[u][3] # 0 => Good(f, d[u][3]))
  <2>1. FileOK(f, d, c, u) /\ d[u][2] \in Names
    BY DEF Volume, FileOK
  <2>2. b[d[u][2]] = c[d[u][2]]
    BY <1>4, <2>1 DEF Alike
  <2>3. FileOK(f, d, b, u)
    BY <2>1, <2>2 DEF FileOK
  <2>4. d[u][3] # 0 => d[u][3] \in Roots(d)
    BY DEF Roots, Starts
  <2> QED BY <1>1, <2>3, <2>4 DEF Tree
<1>5. \A u, v \in FileUnits(d) : u # v => d[u][2] # d[v][2]
  BY <1>1 DEF Listing
<1> QED BY <1>3, <1>4, <1>5 DEF Safe, Whole

(* What is kept in another table is kept in the table it was in. *)
LEMMA KeepsOld ==
  ASSUME NEW f, NEW g, NEW d, NEW e, NEW s, Keeps(f, g, d, e, s)
  PROVE  Keeps(f, f, d, e, s)
  BY DEF Keeps, Same

(* A step that works on one file leaves the others whole, with the table it began
   with and with the one it made. *)
LEMMA WholeKept ==
  ASSUME NEW f, NEW g, NEW d, NEW e, NEW h, NEW j, NEW c, NEW b, NEW n, NEW u,
         Volume(f, d, h, c), OnlyFile(f, g, d, e, h, j, c, b, n, u),
         u \in FileUnits(e) => e[u][2] = n
  PROVE  Whole(f, e, b, {n}) /\ Whole(g, e, b, {n})
<1> DEFINE O == FileUnits(d) \ {u}
<1>1. /\ \A v \in FileUnits(e) : v = u \/ v \in O
      /\ \A v \in O : v \in FileUnits(d) /\ v # u /\ e[v] = d[v] /\ d[v][2] # n
                      /\ (d[v][3] = 0 \/ Keeps(f, g, d, e, d[v][3]))
  BY DEF OnlyFile
<1>2. DirKept(f, g) /\ \A m \in Names \ {n} : b[m] = c[m]
  BY DEF OnlyFile
<1>3. DirKept(f, f)
  <2>1. Good(f, Root) /\ Same(f, f, Root)
    BY <1>2 DEF DirKept, Same
  <2> QED BY <2>1, DirSame
<1> HIDE DEF O
<1>4. ASSUME NEW v \in O
      PROVE  /\ FileOK(f, e, b, v) /\ FileOK(g, e, b, v)
             /\ e[v][3] # 0 => Good(f, e[v][3]) /\ Good(g, e[v][3])
  <2>1. FileOK(f, d, c, v) /\ d[v][2] \in Names
    BY <1>1 DEF Volume, FileOK
  <2>2. e[v] = d[v] /\ b[d[v][2]] = c[d[v][2]]
    BY <1>1, <1>2, <2>1
  <2>3. d[v][3] = 0 \/ Keeps(f, g, d, e, d[v][3])
    BY <1>1
  <2>4. d[v][3] = 0 \/ Keeps(f, f, d, e, d[v][3])
    BY <2>3, KeepsOld
  <2>5. FileOK(g, e, b, v)
    BY <1>2, <2>1, <2>2, <2>3, FileSame
  <2>6. FileOK(f, e, b, v)
    BY <1>3, <2>1, <2>2, <2>4, FileSame
  <2> QED BY <2>2, <2>3, <2>5, <2>6 DEF Keeps
<1>5. \A v \in FileUnits(e) : e[v][2] \notin {n} => v \in O
  BY <1>1
<1>6. ASSUME NEW v \in FileUnits(e), NEW x \in FileUnits(e), v # x
      PROVE  e[v][2] # e[x][2]
  <2>1. CASE v \in O /\ x \in O
    <3>1. d[v][2] # d[x][2]
      BY <1>1, <1>6, <2>1 DEF Volume, Listing
    <3> QED BY <1>1, <2>1, <3>1
  <2>2. CASE v = u \/ x = u
    BY <1>1, <1>6, <2>2
  <2> QED BY <1>1, <2>1, <2>2
<1> QED BY <1>4, <1>5, <1>6 DEF Whole

(* An empty file has no clusters. *)
LEMMA NoChain ==
  ASSUME NEW f
  PROVE  ChainOf(f, 0) = {} /\ Length(f, 0) = 0
<1> DEFINE p == [k \in 0 .. 0 |-> 0]
           n == 0
<1>1. p[0] = 0 /\ p[n] = 0 /\ n \in Nat /\ 0 .. n - 1 = {}
  OBVIOUS
<1>2. 0 \notin Cluster
  BY DEF Cluster
<1> HIDE DEF p, n
<1>3. Chain(f, p, n)
  BY <1>1, <1>2 DEF Chain
<1>4. ChainOf(f, p[0]) = {p[k] : k \in 0 .. n - 1}
  BY <1>3, ChainSet
<1>5. ChainOf(f, 0) = {}
  BY <1>1, <1>4
<1> QED BY <1>5, FS_EmptySet DEF Length

(* An index of the directory on the disk has its unit there. *)
LEMMA EntryUnit ==
  ASSUME SecPerClus = 1, NEW f, Good(f, Root), NEW i \in DirIndexes(f)
  PROVE  /\ i \in Span(f, Root)
         /\ At(f, Root, i) \in DiskUnits /\ Owner(At(f, Root, i)) \in ChainOf(f, Root)
         /\ EntryIn(f, i) = data[At(f, Root, i)]
<1>1. i \in Span(f, Root)
  BY DEF DirIndexes, Span
<1>2. i \in Nat
  BY <1>1, SpanIs
<1>3. Address(Path(f, Root), i, i) = At(f, Root, i)
  BY <1>1, <1>2, AddressAt
<1> QED BY <1>1, <1>3, AtIs DEF EntryIn

(* A file that is whole has a chain that ends, is long enough and holds what was
   written. *)
LEMMA WholeFile ==
  ASSUME SecPerClus = 1, NEW f, NEW d, NEW c, NEW u, FileOK(f, d, c, u),
         d[u][3] # 0 => Good(f, d[u][3])
  PROVE  LET k == d[u][3]
             z == d[u][4]
             w == c[d[u][2]]
         IN  /\ k # 0 => Ends(f, k)
             /\ Length(f, k) * ClusterUnits >= z
             /\ DOMAIN w = 0 .. z - 1
             /\ \A s, o \in DOMAIN w : s <= o /\ w[o] # NoData => d[Address(Path(f, k), s, o)] = w[o]
<1> DEFINE k == d[u][3]
           z == d[u][4]
           w == c[d[u][2]]
<1>1. Fits(f, d, k, z, w) /\ z \in Nat /\ (k # 0 => Good(f, k))
  BY DEF FileOK
<1> HIDE DEF k, z, w
<1>2. k # 0 => Ends(f, k)
  BY <1>1, GoodIs
<1>3. Length(f, k) * ClusterUnits >= z
  <2>1. CASE k # 0
    BY <1>1, <2>1 DEF Fits
  <2>2. CASE k = 0
    <3>1. z = 0 /\ Length(f, k) = 0
      BY <1>1, <2>2, NoChain DEF Fits
    <3>2. 0 * ClusterUnits = 0
      BY Units
    <3> QED BY <3>1, <3>2
  <2> QED BY <2>1, <2>2
<1>4. DOMAIN w = 0 .. z - 1
  BY <1>1 DEF Fits
<1>5. ASSUME NEW s \in 0 .. z - 1, NEW o \in 0 .. z - 1, w[o] # NoData
      PROVE  d[Address(Path(f, k), s, o)] = w[o]
  <2>1. k # 0 /\ s \in Nat
    BY <1>1 DEF Fits
  <2>2. Good(f, k) /\ Length(f, k) * ClusterUnits >= z
    BY <1>1, <1>3, <2>1
  <2>3. o \in Span(f, k)
    BY <1>1, <2>2, InSpan
  <2>4. Address(Path(f, k), s, o) = At(f, k, o)
    BY <2>1, <2>2, <2>3, AddressAt
  <2> QED BY <1>1, <1>5, <2>4 DEF Fits
<1> QED BY <1>2, <1>3, <1>4, <1>5 DEF k, z, w

(* Safe is what a crash needs. *)
LEMMA SafeNow ==
  ASSUME SecPerClus = 1, NEW M, Safe(dfat, data, content, M), M \subseteq Busy, Good(fat, Root)
  PROVE  CrashKeeps
<1> DEFINE E(i) == EntryIn(dfat, i)
           U(i) == At(dfat, Root, i)
           L(n) == {i \in DirIndexes(dfat) : IsEntryOf(E(i), n)}
           A == UNION {L(n) : n \in Names}
<1>1. Good(dfat, Root) /\ Apart(dfat, data) /\ Whole(dfat, data, content, M)
  BY DEF Safe, Apart
<1>2. ASSUME NEW n, NEW i \in L(n)
      PROVE  /\ i \in Span(dfat, Root) /\ U(i) \in FileUnits(data)
             /\ E(i) = data[U(i)] /\ data[U(i)][2] = n
             /\ E(i)[3] # 0 => U(i) \in Listed(dfat, data)
  <2>1. i \in DirIndexes(dfat) /\ E(i)[1] = "file" /\ E(i)[2] = n
    BY DEF IsEntryOf
  <2>2. /\ i \in Span(dfat, Root) /\ U(i) \in DiskUnits /\ Owner(U(i)) \in ChainOf(dfat, Root)
        /\ E(i) = data[U(i)]
    BY <1>1, <2>1, EntryUnit
  <2> HIDE DEF U, E
  <2> QED BY <2>1, <2>2 DEF FileUnits, Listed
<1>3. ASSUME NEW i \in Span(dfat, Root), NEW j \in Span(dfat, Root), U(i) = U(j)
      PROVE  i = j
  BY <1>1, <1>3, AtDiffer
<1> HIDE DEF U, E
<1>4. ASSUME NEW i \in A
      PROVE  ChainOf(dfat, E(i)[3]) \cap ChainOf(dfat, Root) = {}
  <2>1. PICK n \in Names : i \in L(n)
    OBVIOUS
  <2>2. E(i) = data[U(i)] /\ (E(i)[3] # 0 => U(i) \in Listed(dfat, data))
    BY <1>2, <2>1
  <2> QED BY <1>1, <2>2, NoChain DEF Apart
<1>5. ASSUME NEW i \in A, NEW j \in A, i # j
      PROVE  ChainOf(dfat, E(i)[3]) \cap ChainOf(dfat, E(j)[3]) = {}
  <2>1. PICK n \in Names : i \in L(n)
    OBVIOUS
  <2>2. PICK m \in Names : j \in L(m)
    OBVIOUS
  <2>3. i \in Span(dfat, Root) /\ E(i) = data[U(i)] /\ (E(i)[3] # 0 => U(i) \in Listed(dfat, data))
    BY <1>2, <2>1
  <2>4. j \in Span(dfat, Root) /\ E(j) = data[U(j)] /\ (E(j)[3] # 0 => U(j) \in Listed(dfat, data))
    BY <1>2, <2>2
  <2>5. U(i) # U(j)
    BY <1>3, <1>5, <2>3, <2>4
  <2> QED BY <1>1, <2>3, <2>4, <2>5, NoChain DEF Apart
<1>6. ASSUME NEW n \in Files \ Busy
      PROVE  Cardinality(L(n)) = 1
  <2>1. PICK x \in DirIndexes(fat) : IsEntryOf(data[Address(Path(fat, Root), x, x)], n)
    BY DEF Files, Found
  <2> DEFINE u == At(fat, Root, x)
  <2>2. u \in DiskUnits /\ EntryIn(fat, x) = data[u]
    BY EntryUnit
  <2>3. u \in FileUnits(data) /\ data[u][2] = n
    <3>1. data[u][1] = "file" /\ data[u][2] = n
      BY <2>1, <2>2 DEF EntryIn, IsEntryOf
    <3> HIDE DEF u
    <3> QED BY <2>2, <3>1 DEF FileUnits
  <2> HIDE DEF u
  <2>4. Owner(u) \in ChainOf(dfat, Root)
    <3>1. n \notin M
      OBVIOUS
    <3> QED BY <1>1, <2>3, <3>1 DEF Whole, FileOK
  <2>5. PICK i \in Span(dfat, Root) : U(i) = u
    BY <1>1, <2>2, <2>4, AtReaches DEF U
  <2>6. i \in L(n)
    <3>1. i \in DirIndexes(dfat)
      BY DEF DirIndexes, Span
    <3>2. E(i) = data[u]
      BY <1>1, <2>5, <3>1, EntryUnit DEF E, U
    <3> QED BY <2>3, <3>1, <3>2 DEF IsEntryOf, FileUnits
  <2>7. ASSUME NEW j \in L(n)
        PROVE  j = i
    <3>1. j \in Span(dfat, Root) /\ U(j) \in FileUnits(data) /\ data[U(j)][2] = n
      BY <1>2
    <3>2. U(j) = u
      BY <1>1, <2>3, <3>1 DEF Whole
    <3> QED BY <1>3, <2>5, <3>1, <3>2
  <2> HIDE DEF L
  <2>8. L(n) = {i}
    BY <2>6, <2>7
  <2> QED BY <2>8, FS_Singleton
<1>7. ASSUME NEW n \in Names \ Busy, NEW i \in L(n)
      PROVE  /\ E(i)[3] # 0 => Ends(dfat, E(i)[3])
             /\ Length(dfat, E(i)[3]) * ClusterUnits >= E(i)[4]
             /\ DOMAIN content[n] = 0 .. E(i)[4] - 1
             /\ \A s, o \in DOMAIN content[n] :
                  s <= o /\ content[n][o] # NoData =>
                    data[Address(Path(dfat, E(i)[3]), s, o)] = content[n][o]
  <2> DEFINE u == U(i)
  <2>1. u \in FileUnits(data) /\ E(i) = data[u] /\ data[u][2] = n
    BY <1>2
  <2> HIDE DEF u
  <2>2. n \notin M
    OBVIOUS
  <2>3. FileOK(dfat, data, content, u) /\ (data[u][3] # 0 => Good(dfat, data[u][3]))
    BY <1>1, <2>1, <2>2 DEF Whole
  <2> QED BY <2>1, <2>3, WholeFile
<1> HIDE DEF A
<1>8. /\ \A i \in A : ChainOf(dfat, E(i)[3]) \cap ChainOf(dfat, Root) = {}
      /\ \A i, j \in A : i # j => ChainOf(dfat, E(i)[3]) \cap ChainOf(dfat, E(j)[3]) = {}
      /\ \A n \in Files \ Busy : Cardinality(L(n)) = 1
  BY <1>4, <1>5, <1>6
<1> QED BY <1>7, <1>8 DEF CrashKeeps, A, L, E, StartOf, SizeOf

-----------------------------------------------------------------------------
\* D[k] and F[k] are the units and the table of the disk after k of the
\* writes t, which begin with d and b and end with table f, are of a call on
\* file N and leave the others with the content C.
Drains(t, b, d, f, D, F, C, N) ==
  /\ D[0] = d /\ F[0] = b /\ F[Len(t)] = f
  /\ \A k \in 1 .. Len(t) :
       IF t[k].kind = "fat" THEN F[k] = f /\ D[k] = D[k - 1]
       ELSE F[k] = F[k - 1] /\ D[k] = Over(t[k].units, D[k - 1])
  /\ \A k \in 0 .. Len(t) : Safe(F[k], D[k], C, {N})
  /\ \A k \in 1 .. Len(t) : t[k].name = N

IsSeq(t) == \E S : t \in Seq(S)

\* The writes t leave the disk safe after each, and lead to e and f.
Leads(t, b, d, f, e, C, N) ==
  IsSeq(t) /\ \E D, F : Drains(t, b, d, f, D, F, C, N) /\ D[Len(t)] = e

(* No write leads from a safe disk to itself, *)
LEMMA LeadsNone ==
  ASSUME NEW d, NEW f, NEW C, NEW N, Safe(f, d, C, {N})
  PROVE  Leads(<<>>, f, d, f, d, C, N)
<1> DEFINE D == [k \in 0 .. 0 |-> d]
           F == [k \in 0 .. 0 |-> f]
<1>1. D[0] = d /\ F[0] = f
  OBVIOUS
<1>2. Len(<<>>) = 0 /\ 1 .. 0 = {} /\ 0 .. 0 = {0}
  OBVIOUS
<1>3. IsSeq(<<>>)
  <2>1. <<>> \in Seq({})
    OBVIOUS
  <2> QED BY <2>1 DEF IsSeq
<1> HIDE DEF D, F
<1>4. Drains(<<>>, f, d, f, D, F, C, N)
  BY <1>1, <1>2 DEF Drains
<1> QED BY <1>1, <1>2, <1>3, <1>4 DEF Leads

(* and to nothing else. *)
LEMMA LeadsDone ==
  ASSUME NEW b, NEW d, NEW f, NEW e, NEW C, NEW N, Leads(<<>>, b, d, f, e, C, N)
  PROVE  b = f /\ d = e
<1>1. Len(<<>>) = 0
  OBVIOUS
<1>2. PICK D, F : Drains(<<>>, b, d, f, D, F, C, N) /\ D[Len(<<>>)] = e
  BY DEF Leads
<1> QED BY <1>1, <1>2 DEF Drains

(* A disk that writes begin with is safe. *)
LEMMA LeadsSafe ==
  ASSUME NEW t, NEW b, NEW d, NEW f, NEW e, NEW C, NEW N, Leads(t, b, d, f, e, C, N)
  PROVE  Safe(b, d, C, {N})
<1>1. PICK D, F : Drains(t, b, d, f, D, F, C, N)
  BY DEF Leads
<1>2. Len(t) \in Nat
  BY DEF Leads, IsSeq
<1>3. 0 \in 0 .. Len(t)
  BY <1>2
<1> QED BY <1>1, <1>3 DEF Drains

(* One write reaches the disk. *)
LEMMA LeadsTail ==
  ASSUME NEW t, NEW b, NEW d, NEW f, NEW e, NEW C, NEW N, Leads(t, b, d, f, e, C, N), t # <<>>
  PROVE  Leads(Tail(t), IF Head(t).kind = "fat" THEN f ELSE b,
               IF Head(t).kind = "fat" THEN d ELSE Over(Head(t).units, d), f, e, C, N)
<1>1. PICK D, F : Drains(t, b, d, f, D, F, C, N) /\ D[Len(t)] = e
  BY DEF Leads
<1>2. PICK S : t \in Seq(S)
  BY DEF Leads, IsSeq
<1> DEFINE n == Len(t)
           s == Tail(t)
<1>3. /\ n \in Nat \ {0} /\ s \in Seq(S) /\ Len(s) = n - 1 /\ Head(t) = t[1]
      /\ \A k \in 1 .. n - 1 : s[k] = t[k + 1]
  BY <1>2
<1> HIDE DEF s
<1> DEFINE m == Len(s)
           E == [k \in 0 .. m |-> D[k + 1]]
           G == [k \in 0 .. m |-> F[k + 1]]
<1>4. /\ m \in Nat /\ m + 1 = n /\ 0 \in 0 .. m /\ m \in 0 .. m /\ 1 \in 1 .. n
      /\ \A k \in 1 .. m : /\ k + 1 \in 1 .. n /\ k + 1 - 1 = k /\ k \in 0 .. m /\ k - 1 \in 0 .. m
                           /\ k - 1 + 1 = k
      /\ \A k \in 0 .. m : k + 1 \in 0 .. n
  BY <1>3
<1>5. \A k \in 0 .. m : E[k] = D[k + 1] /\ G[k] = F[k + 1]
  OBVIOUS
<1> HIDE DEF E, G
<1> DEFINE a == IF Head(t).kind = "fat" THEN f ELSE b
           c == IF Head(t).kind = "fat" THEN d ELSE Over(Head(t).units, d)
<1>6. E[0] = c /\ G[0] = a
  <2>1. 0 + 1 = 1 /\ 1 - 1 = 0
    OBVIOUS
  <2>2. E[0] = D[1] /\ G[0] = F[1]
    BY <1>4, <1>5, <2>1
  <2>3. IF t[1].kind = "fat" THEN F[1] = f /\ D[1] = D[0]
        ELSE F[1] = F[0] /\ D[1] = Over(t[1].units, D[0])
    BY <1>1, <1>4, <2>1 DEF Drains
  <2>4. D[0] = d /\ F[0] = b
    BY <1>1 DEF Drains
  <2> QED BY <1>3, <2>2, <2>3, <2>4
<1>7. E[m] = e /\ G[m] = f
  BY <1>1, <1>4, <1>5 DEF Drains
<1> HIDE DEF a, c
<1>8. ASSUME NEW k \in 1 .. m
      PROVE  IF s[k].kind = "fat" THEN G[k] = f /\ E[k] = E[k - 1]
             ELSE G[k] = G[k - 1] /\ E[k] = Over(s[k].units, E[k - 1])
  <2>1. s[k] = t[k + 1]
    BY <1>3
  <2>2. IF t[k + 1].kind = "fat" THEN F[k + 1] = f /\ D[k + 1] = D[k]
        ELSE F[k + 1] = F[k] /\ D[k + 1] = Over(t[k + 1].units, D[k])
    BY <1>1, <1>4 DEF Drains
  <2>3. E[k] = D[k + 1] /\ G[k] = F[k + 1] /\ E[k - 1] = D[k] /\ G[k - 1] = F[k]
    BY <1>4, <1>5
  <2> QED BY <2>1, <2>2, <2>3
<1>9. /\ \A k \in 0 .. m : Safe(G[k], E[k], C, {N})
      /\ \A k \in 1 .. m : s[k].name = N
  <2>1. ASSUME NEW k \in 0 .. m
        PROVE  Safe(G[k], E[k], C, {N})
    <3>1. Safe(F[k + 1], D[k + 1], C, {N})
      BY <1>1, <1>4 DEF Drains
    <3> QED BY <1>5, <3>1
  <2>2. ASSUME NEW k \in 1 .. m
        PROVE  s[k].name = N
    <3>1. t[k + 1].name = N
      BY <1>1, <1>4 DEF Drains
    <3> QED BY <1>3, <3>1
  <2> QED BY <2>1, <2>2
<1>10. Drains(s, a, c, f, E, G, C, N)
  BY <1>6, <1>7, <1>8, <1>9 DEF Drains
<1>11. Leads(s, a, c, f, e, C, N)
  BY <1>3, <1>7, <1>10 DEF Leads, IsSeq
<1> QED BY <1>11 DEF a, c, s

\* s is the sequence t behind w.
Cons(s, w, t) ==
  /\ IsSeq(s) /\ IsSeq(t) /\ Len(s) = Len(t) + 1 /\ s[1] = w
  /\ \A k \in 1 .. Len(t) : s[k + 1] = t[k]

\* The disk after write w.
FatAfter(w, b, f) == IF w.kind = "fat" THEN f ELSE b
DataAfter(w, d) == IF w.kind = "fat" THEN d ELSE Over(w.units, d)

(* One more write before writes that lead to e. *)
LEMMA LeadsMore ==
  ASSUME NEW t, NEW w, NEW s, NEW b, NEW d, NEW f, NEW e, NEW C, NEW N, Cons(s, w, t), w.name = N, Safe(b, d, C, {N}),
         Leads(t, FatAfter(w, b, f), DataAfter(w, d), f, e, C, N)
  PROVE  Leads(s, b, d, f, e, C, N)
<1> DEFINE a == FatAfter(w, b, f)
           c == DataAfter(w, d)
<1>1. PICK D, F : Drains(t, a, c, f, D, F, C, N) /\ D[Len(t)] = e
  BY DEF Leads
<1> HIDE DEF a, c
<1> DEFINE m == Len(t)
           n == Len(s)
           E == [k \in 0 .. n |-> IF k = 0 THEN d ELSE D[k - 1]]
           G == [k \in 0 .. n |-> IF k = 0 THEN b ELSE F[k - 1]]
<1>2. /\ m \in Nat /\ n = m + 1 /\ s[1] = w /\ \A k \in 1 .. m : s[k + 1] = t[k]
  BY DEF Cons, IsSeq
<1> HIDE DEF m, n
<1>3. E[0] = d /\ G[0] = b /\ \A k \in 1 .. n : E[k] = D[k - 1] /\ G[k] = F[k - 1]
  BY <1>2
<1> HIDE DEF E, G
<1>4. D[0] = c /\ F[0] = a /\ D[m] = e /\ F[m] = f
  BY <1>1 DEF Drains, m
<1>5. n \in 1 .. n /\ n - 1 = m /\ 1 \in 1 .. n /\ 1 - 1 = 0
  BY <1>2
<1>6. E[n] = e /\ G[n] = f
  BY <1>3, <1>4, <1>5
<1>7. ASSUME NEW k \in 1 .. n
      PROVE  IF s[k].kind = "fat" THEN G[k] = f /\ E[k] = E[k - 1]
             ELSE G[k] = G[k - 1] /\ E[k] = Over(s[k].units, E[k - 1])
  <2>1. CASE k = 1
    <3>1. E[1] = c /\ G[1] = a
      BY <1>3, <1>4, <1>5
    <3>2. IF w.kind = "fat" THEN a = f /\ c = d ELSE a = b /\ c = Over(w.units, d)
      BY DEF a, c, FatAfter, DataAfter
    <3> QED BY <1>2, <1>3, <1>5, <2>1, <3>1, <3>2
  <2>2. CASE k # 1
    <3>1. k - 1 \in 1 .. m /\ k - 1 \in 1 .. n /\ k - 1 + 1 = k
      BY <1>2, <2>2
    <3>2. s[k] = t[k - 1]
      BY <1>2, <3>1
    <3>3. IF t[k - 1].kind = "fat" THEN F[k - 1] = f /\ D[k - 1] = D[k - 1 - 1]
          ELSE F[k - 1] = F[k - 1 - 1] /\ D[k - 1] = Over(t[k - 1].units, D[k - 1 - 1])
      BY <1>1, <3>1 DEF Drains, m
    <3>4. E[k] = D[k - 1] /\ G[k] = F[k - 1] /\ E[k - 1] = D[k - 1 - 1] /\ G[k - 1] = F[k - 1 - 1]
      BY <1>3, <3>1
    <3> QED BY <3>2, <3>3, <3>4
  <2> QED BY <2>1, <2>2
<1>8. ASSUME NEW k \in 0 .. n
      PROVE  Safe(G[k], E[k], C, {N})
  <2>1. CASE k = 0
    BY <1>3, <2>1
  <2>2. CASE k # 0
    <3>1. k \in 1 .. n /\ k - 1 \in 0 .. m
      BY <1>2, <2>2
    <3> QED BY <1>1, <1>3, <3>1 DEF Drains, m
  <2> QED BY <2>1, <2>2
<1>9. ASSUME NEW k \in 1 .. n
      PROVE  s[k].name = N
  <2>1. CASE k = 1
    BY <1>2, <2>1
  <2>2. CASE k # 1
    <3>1. k - 1 \in 1 .. m /\ k - 1 + 1 = k
      BY <1>2, <2>2
    <3>2. s[k] = t[k - 1]
      BY <1>2, <3>1
    <3> QED BY <1>1, <3>1, <3>2 DEF Drains, m
  <2> QED BY <2>1, <2>2
<1>10. Drains(s, b, d, f, E, G, C, N)
  BY <1>3, <1>6, <1>7, <1>8, <1>9 DEF Drains, n
<1> QED BY <1>6, <1>10 DEF Leads, Cons, n

-----------------------------------------------------------------------------
\* The inductive invariant, and the directory as it is searched.

(* The first of a set of numbers is in it. *)
LEMMA FirstIs ==
  ASSUME NEW n \in Nat, NEW T \in SUBSET (0 .. n), T # {}
  PROVE  First(T) \in T
<1>1. \E x \in T : \A y \in T : x <= y
  BY Least
<1> QED BY <1>1 DEF First

\* d holds units, and e is d with E in unit u.
IsDisk(d) == d = [x \in DiskUnits |-> d[x]]
Puts(d, e, u, E) ==
  /\ IsDisk(e) /\ u \in DiskUnits /\ e[u] = E
  /\ \A x \in DiskUnits \ {u} : e[x] = d[x]

(* Writing one unit changes it and no other. *)
LEMMA OverOne ==
  ASSUME NEW d, IsDisk(d), NEW u \in DiskUnits, NEW E
  PROVE  Puts(d, Over(OneUnit(u, E), d), u, E)
<1>1. DOMAIN d = DiskUnits
  BY DEF IsDisk
<1> DEFINE us == OneUnit(u, E)
<1>2. DOMAIN us = {u} /\ us[u] = E
  BY DEF OneUnit
<1> HIDE DEF us
<1>3. {u} \cup DiskUnits = DiskUnits
  OBVIOUS
<1>4. Over(us, d) = [x \in DiskUnits |-> IF x \in {u} THEN us[x] ELSE d[x]]
  BY <1>1, <1>2, <1>3 DEF Over
<1> QED BY <1>2, <1>4 DEF Puts, IsDisk, us

(* The entries after one unit was written. *)
LEMMA PutsFiles ==
  ASSUME NEW d, NEW e, NEW u, NEW E, Puts(d, e, u, E)
  PROVE  /\ FileUnits(e) \ {u} = FileUnits(d) \ {u}
         /\ u \in FileUnits(e) <=> E[1] = "file"
         /\ \A v \in FileUnits(d) \ {u} : e[v] = d[v]
  BY DEF Puts, FileUnits

\* What differs between d and e is in the chains of R.
Touches(g, d, e, R) ==
  \A x \in DiskUnits : e[x] # d[x] => \E r \in R : Owner(x) \in ChainOf(g, r)

(* A write to clusters of some chains keeps the units of every other. *)
LEMMA KeepsFrom ==
  ASSUME NEW f, NEW g, NEW d, NEW e, NEW S, NEW R \in SUBSET S, NEW s \in S \ R,
         Tree(g, S), Touches(g, d, e, R), Good(f, s), Same(f, g, s)
  PROVE  Keeps(f, g, d, e, s)
<1>1. ASSUME NEW x \in DiskUnits, Owner(x) \in ChainOf(f, s)
      PROVE  e[x] = d[x]
  <2>1. Owner(x) \in ChainOf(g, s)
    BY <1>1 DEF Same
  <2>2. \A r \in R : r \in S /\ r # s
    OBVIOUS
  <2>3. \A r \in R : Owner(x) \notin ChainOf(g, r)
    BY <2>1, <2>2 DEF Tree
  <2> QED BY <2>3 DEF Touches
<1>2. Good(g, s)
  BY TreeParts
<1> QED BY <1>1, <1>2 DEF Keeps

\* The entries of files.

(* The parts of a directory entry. *)
LEMMA EntryIs ==
  ASSUME NEW n, NEW s, NEW z
  PROVE  /\ Entry(n, s, z)[1] = "file" /\ Entry(n, s, z)[2] = n
         /\ Entry(n, s, z)[3] = s /\ Entry(n, s, z)[4] = z
         /\ NoData[1] # "file"
  BY DEF Entry, NoData

-----------------------------------------------------------------------------
\* What the handles that are current remember.
Known == {handle[x] : x \in current}

\* The volume at rest.
AtRest == Volume(fat, data, Known, content) /\ dfat = fat

IInv ==
  /\ \E e, n : Leads(todo, dfat, data, fat, e, content, n) /\ Volume(fat, e, Known, content)
  /\ handle \in [Handles -> Handle] /\ current \subseteq Handles
  /\ writes \in Nat

(* With no write to come, the disk has all of the volume. *)
LEMMA RestIs ==
  ASSUME IInv, todo = <<>>
  PROVE  AtRest
<1>1. PICK e, n : Leads(<<>>, dfat, data, fat, e, content, n) /\ Volume(fat, e, Known, content)
  BY DEF IInv
<1>2. dfat = fat /\ data = e
  BY <1>1, LeadsDone
<1> QED BY <1>1, <1>2 DEF AtRest

(* The disk is then safe for every file. *)
LEMMA RestSafe ==
  ASSUME AtRest, NEW M
  PROVE  Safe(fat, data, content, M) /\ Good(fat, Root)
<1>1. Alike(content, content, M)
  BY DEF Alike
<1>2. Volume(fat, data, Known, content)
  BY DEF AtRest
<1>3. Safe(fat, data, content, M)
  BY <1>1, <1>2, SafeVolume
<1> QED BY <1>3 DEF Safe, Apart

(* What the search of the directory finds, in units of the disk. *)
LEMMA FoundIs ==
  ASSUME SecPerClus = 1, Good(fat, Root), DirIndexes(fat) = Span(fat, Root), NEW n
  PROVE  /\ \A i \in DirIndexes(fat) : EntryAt(i) = data[At(fat, Root, i)]
         /\ Found(n) = {i \in DirIndexes(fat) : /\ At(fat, Root, i) \in FileUnits(data)
                                                /\ data[At(fat, Root, i)][2] = n}
<1>1. ASSUME NEW i \in DirIndexes(fat)
      PROVE  Address(Path(fat, Root), i, i) = At(fat, Root, i) /\ At(fat, Root, i) \in DiskUnits
  <2>1. i \in Span(fat, Root)
    OBVIOUS
  <2>2. i \in Nat
    BY <2>1, SpanIs
  <2> QED BY <2>1, <2>2, AddressAt, AtIs
<1>2. \A i \in DirIndexes(fat) : EntryAt(i) = data[At(fat, Root, i)]
  BY <1>1 DEF EntryAt, EntryIn
<1>3. Found(n) = {i \in DirIndexes(fat) : /\ At(fat, Root, i) \in FileUnits(data)
                                          /\ data[At(fat, Root, i)][2] = n}
  BY <1>1 DEF Found, FileUnits, IsEntryOf
<1> QED BY <1>2, <1>3

\* Index i holds the entry of file n, in unit u.
Holds(n, i, u) ==
  /\ i \in DirIndexes(fat) /\ At(fat, Root, i) = u /\ u \in FileUnits(data)
  /\ data[u][2] = n /\ EntryAt(i) = data[u]

(* A name that is found is found once. *)
LEMMA FoundOne ==
  ASSUME SecPerClus = 1, AtRest, NEW n, NEW i \in Found(n)
  PROVE  /\ Found(n) = {i} /\ First(Found(n)) = i
         /\ Holds(n, i, At(fat, Root, i))
<1>1. Good(fat, Root) /\ DirIndexes(fat) = Span(fat, Root) /\ Listing(data)
  BY Rooted DEF AtRest, Volume
<1>2. /\ \A j \in DirIndexes(fat) : EntryAt(j) = data[At(fat, Root, j)]
      /\ Found(n) = {j \in DirIndexes(fat) : /\ At(fat, Root, j) \in FileUnits(data)
                                             /\ data[At(fat, Root, j)][2] = n}
  BY <1>1, FoundIs
<1>3. ASSUME NEW j \in Found(n)
      PROVE  j = i
  <2>1. At(fat, Root, j) = At(fat, Root, i)
    BY <1>1, <1>2 DEF Listing
  <2>2. j \in Span(fat, Root) /\ i \in Span(fat, Root)
    BY <1>1, <1>2
  <2> QED BY <1>1, <2>1, <2>2, AtDiffer
<1>4. Found(n) = {i}
  BY <1>3
<1>5. First(Found(n)) = i
  <2>1. i \in Nat
    <3>1. i \in Span(fat, Root)
      BY <1>1, <1>2
    <3> QED BY <1>1, <3>1, SpanIs
  <2>2. {i} \in SUBSET (0 .. i) /\ {i} # {}
    BY <2>1
  <2>3. First({i}) \in {i}
    BY <2>1, <2>2, FirstIs
  <2> QED BY <1>4, <2>3
<1>6. Holds(n, i, At(fat, Root, i))
  BY <1>2 DEF Holds
<1> QED BY <1>4, <1>5, <1>6

(* And every entry is found. *)
LEMMA FoundEvery ==
  ASSUME SecPerClus = 1, AtRest, NEW u \in FileUnits(data)
  PROVE  \E i \in Found(data[u][2]) : At(fat, Root, i) = u
<1>1. Good(fat, Root) /\ DirIndexes(fat) = Span(fat, Root) /\ FileOK(fat, data, content, u)
  BY Rooted DEF AtRest, Volume
<1>2. u \in DiskUnits /\ Owner(u) \in ChainOf(fat, Root)
  BY <1>1 DEF FileOK, FileUnits
<1>3. PICK i \in Span(fat, Root) : At(fat, Root, i) = u
  BY <1>1, <1>2, AtReaches
<1>4. Found(data[u][2]) = {j \in DirIndexes(fat) : /\ At(fat, Root, j) \in FileUnits(data)
                                             /\ data[At(fat, Root, j)][2] = data[u][2]}
  BY <1>1, FoundIs
<1> QED BY <1>1, <1>3, <1>4

(* A handle that is current has its entry where it remembers it. *)
LEMMA HandleFound ==
  ASSUME SecPerClus = 1, AtRest, NEW r \in Known
  PROVE  /\ r.findex \in Found(r.name)
         /\ Found(r.name) = {r.findex}
         /\ Holds(r.name, r.findex, At(fat, Root, r.findex))
         /\ LET e == EntryAt(r.findex)
            IN  r.size = e[4] /\ (r.size # 0 => r.fnode = e[3])
<1> DEFINE i == r.findex
           n == r.name
<1>1. Good(fat, Root) /\ DirIndexes(fat) = Span(fat, Root) /\ HandleOK(fat, data, r)
  BY Rooted DEF AtRest, Volume
<1>2. PICK u \in FileUnits(data) :
        /\ data[u][2] = n /\ i \in DirIndexes(fat) /\ At(fat, Root, i) = u
        /\ r.size = data[u][4] /\ (r.size # 0 => r.fnode = data[u][3])
  BY <1>1 DEF HandleOK
<1> HIDE DEF i, n
<1>3. /\ Found(n) = {j \in DirIndexes(fat) : /\ At(fat, Root, j) \in FileUnits(data)
                                             /\ data[At(fat, Root, j)][2] = n}
      /\ EntryAt(i) = data[At(fat, Root, i)]
  BY <1>1, <1>2, FoundIs
<1>4. i \in Found(n)
  BY <1>2, <1>3
<1>5. Found(n) = {i} /\ Holds(n, i, At(fat, Root, i))
  BY <1>4, FoundOne
<1> QED BY <1>2, <1>3, <1>4, <1>5 DEF i, n

-----------------------------------------------------------------------------
\* Steps that change no table.

(* A write that reaches the disk keeps the invariant: it takes one step of
   those todo leads through. *)
LEMMA DiskWriteKeeps ==
  ASSUME IInv, DiskWrite
  PROVE  IInv'
<1>1. PICK e, n : Leads(todo, dfat, data, fat, e, content, n) /\ Volume(fat, e, Known, content)
  BY DEF IInv
<1>2. /\ todo # <<>> /\ todo' = Tail(todo)
      /\ fat' = fat /\ content' = content
  BY DEF DiskWrite
<1>3. Leads(Tail(todo), IF Head(todo).kind = "fat" THEN fat ELSE dfat,
            IF Head(todo).kind = "fat" THEN data ELSE Over(Head(todo).units, data),
            fat, e, content, n)
  BY <1>1, <1>2, LeadsTail
<1>4. Leads(todo', dfat', data', fat', e, content', n)
  <2>1. CASE Head(todo).kind = "fat"
    <3>1. dfat' = fat /\ data' = data
      BY <2>1 DEF DiskWrite
    <3> QED BY <1>2, <1>3, <2>1, <3>1
  <2>2. CASE Head(todo).kind # "fat"
    <3>1. dfat' = dfat /\ data' = Over(Head(todo).units, data)
      BY <2>2 DEF DiskWrite
    <3> QED BY <1>2, <1>3, <2>2, <3>1
  <2> QED BY <2>1, <2>2
<1>5. Known' = Known /\ handle' = handle /\ current' = current /\ writes' = writes
  BY DEF DiskWrite, Known
<1>6. Volume(fat', e, Known', content')
  BY <1>1, <1>2, <1>5
<1> QED BY <1>4, <1>5, <1>6 DEF IInv

(* What is known after handle x became r. *)
LEMMA HandlePut ==
  ASSUME handle \in [Handles -> Handle], current \subseteq Handles, NEW x \in Handles,
         NEW r \in Handle, handle' = [handle EXCEPT ![x] = r], current' \subseteq current \cup {x}
  PROVE  /\ handle' \in [Handles -> Handle] /\ current' \subseteq Handles
         /\ Known' \subseteq Handle /\ \A q \in Known' : q = r \/ q \in Known
<1>1. handle' \in [Handles -> Handle] /\ current' \subseteq Handles
  OBVIOUS
<1>2. \A y \in current' : handle'[y] \in Handle /\ (handle'[y] = r \/ (y \in current /\ handle'[y] = handle[y]))
  OBVIOUS
<1> QED BY <1>1, <1>2 DEF Known

(* Handles that agree with the volume may join those that do, and any may leave. *)
LEMMA HandleChanged ==
  ASSUME NEW f, NEW d, NEW h, NEW j \in SUBSET Handle, NEW c, Volume(f, d, h, c),
         \A q \in j : q \in h \/ HandleOK(f, d, q)
  PROVE  Volume(f, d, j, c)
<1>1. \A q \in j : HandleOK(f, d, q)
  BY DEF Volume
<1> QED BY <1>1 DEF Volume

(* A handle that is not open. *)
LEMMA NoFileIs == NoFile \in Handle
  BY Fat32Assumption DEF NoFile, Handle

\* A call that leaves table and disk alone.
Quiet == UNCHANGED <<fat, dfat, data, todo, content, writes>>

(* A step that changes neither table, disk nor content keeps the invariant. *)
LEMMA QuietKeeps ==
  ASSUME IInv, todo = <<>>, Quiet, Volume(fat, data, Known', content),
         handle' \in [Handles -> Handle], current' \subseteq Handles
  PROVE  IInv'
<1>1. AtRest
  BY RestIs
<1>2. dfat = fat
  BY <1>1 DEF AtRest
<1>3. Safe(fat, data, content, {Host})
  BY <1>1, RestSafe
<1>4. Leads(<<>>, fat, data, fat, data, content, Host)
  BY <1>3, LeadsNone
<1>5. Leads(todo', dfat', data', fat', data, content', Host)
  BY <1>2, <1>4 DEF Quiet
<1>6. Volume(fat', data, Known', content')
  BY DEF Quiet
<1> QED BY <1>5, <1>6 DEF IInv, Quiet

(* fat32Open of a file that is there keeps the invariant. *)
LEMMA OpenKeeps ==
  ASSUME SecPerClus = 1, IInv, NEW n \in Names, NEW x \in Handles, Open(x, n)
  PROVE  IInv'
<1>1. todo = <<>> /\ Found(n) # {} /\ Quiet /\ current' = current \cup {x}
  BY DEF Open, Idle, Quiet
<1>2. AtRest
  BY <1>1, RestIs
<1>3. PICK i : i \in Found(n)
  BY <1>1
<1> DEFINE u == At(fat, Root, i)
           e == EntryAt(i)
           r == [name |-> n, fnode |-> e[3], size |-> e[4], findex |-> i]
<1>4. First(Found(n)) = i /\ Holds(n, i, u)
  BY <1>2, <1>3, FoundOne
<1>5. handle' = [handle EXCEPT ![x] = r]
  BY <1>4 DEF Open
<1>6. Volume(fat, data, Known, content)
  BY <1>2 DEF AtRest
<1>7. u \in FileUnits(data) /\ e = data[u] /\ FileOK(fat, data, content, u) /\ i \in DirIndexes(fat) /\ data[u][2] = n
  BY <1>4, <1>6 DEF Holds, Volume
<1>8. r \in Handle
  <2>1. e[3] \in Int /\ e[4] \in Int
    BY <1>7 DEF FileOK
  <2>2. i \in Int
    <3>1. Good(fat, Root) /\ DirIndexes(fat) = Span(fat, Root)
      BY <1>6, Rooted DEF Volume
    <3> QED BY <1>7, <3>1, SpanIs
  <2> QED BY <2>1, <2>2 DEF Handle
<1>9. r.name = n /\ r.fnode = e[3] /\ r.size = e[4] /\ r.findex = i
  OBVIOUS
<1> HIDE DEF r
<1>10. /\ handle' \in [Handles -> Handle] /\ current' \subseteq Handles
       /\ Known' \subseteq Handle /\ \A q \in Known' : q = r \/ q \in Known
  BY <1>1, <1>5, <1>8, HandlePut DEF IInv
<1>11. HandleOK(fat, data, r)
  BY <1>7, <1>9 DEF HandleOK
<1>12. Volume(fat, data, Known', content)
  <2> DEFINE K == Known
             j == Known'
  <2>1. j \in SUBSET Handle /\ (\A q \in j : q \in K \/ HandleOK(fat, data, q)) /\ Volume(fat, data, K, content)
    BY <1>6, <1>10, <1>11
  <2> HIDE DEF j, K
  <2>2. Volume(fat, data, j, content)
    BY <2>1, HandleChanged
  <2> QED BY <2>2 DEF j
<1> QED BY <1>1, <1>10, <1>12, QuietKeeps

(* Closing a file keeps the invariant. *)
LEMMA CloseKeeps ==
  ASSUME IInv, NEW x \in Handles, Close(x)
  PROVE  IInv'
<1>1. /\ todo = <<>> /\ Quiet /\ handle' = [handle EXCEPT ![x] = NoFile]
      /\ current' = current \ {x}
  BY DEF Close, Idle, Quiet
<1>2. Volume(fat, data, Known, content)
  BY <1>1, RestIs DEF AtRest
<1>3. handle' \in [Handles -> Handle] /\ current' \subseteq Handles
  BY <1>1, NoFileIs DEF IInv
<1>4. Known' \subseteq Known
  BY <1>1 DEF IInv, Known
<1>5. Volume(fat, data, Known', content)
  <2> DEFINE K == Known
             j == Known'
  <2>1. Volume(fat, data, K, content) /\ j \subseteq K
    BY <1>2, <1>4
  <2> HIDE DEF j, K
  <2>2. j \in SUBSET Handle /\ \A q \in j : q \in K
    BY <2>1 DEF Volume
  <2>3. Volume(fat, data, j, content)
    BY <2>1, <2>2, HandleChanged
  <2> QED BY <2>3 DEF j
<1> QED BY <1>1, <1>3, <1>5, QuietKeeps

(* Where the code goes on with a broken volume, nothing of it has changed yet. *)
LEMMA BreaksKeeps ==
  ASSUME IInv, NEW why, Breaks(why)
  PROVE  IInv'
<1>1. Known' = Known
  BY DEF Breaks, Known
<1> QED BY <1>1 DEF IInv, Breaks

(* One and two writes, the first before the rest. *)
LEMMA Pairs ==
  ASSUME NEW a, NEW b
  PROVE  Cons(<<b>>, b, <<>>) /\ Cons(<<a, b>>, a, <<b>>)
<1>1. <<>> \in Seq({a, b}) /\ <<b>> \in Seq({a, b}) /\ <<a, b>> \in Seq({a, b})
  OBVIOUS
<1>2. Len(<<>>) = 0 /\ Len(<<b>>) = 1 /\ Len(<<a, b>>) = 2 /\ 1 .. 0 = {} /\ 1 .. 1 = {1}
  OBVIOUS
<1>3. <<b>>[1] = b /\ <<a, b>>[1] = a /\ <<a, b>>[1 + 1] = b
  OBVIOUS
<1>4. IsSeq(<<>>) /\ IsSeq(<<b>>) /\ IsSeq(<<a, b>>)
  BY <1>1 DEF IsSeq
<1>5. Cons(<<b>>, b, <<>>)
  BY <1>2, <1>3, <1>4 DEF Cons
<1>6. Cons(<<a, b>>, a, <<b>>)
  BY <1>2, <1>3, <1>4 DEF Cons
<1> QED BY <1>5, <1>6

(* The writes of a call. *)
LEMMA WriteDoes ==
  ASSUME NEW n, NEW us, NEW o
  PROVE  /\ PutFat(n).kind = "fat" /\ PutFat(n).name = n
         /\ PutUnits(n, us).kind = "units" /\ PutUnits(n, us).units = us /\ PutUnits(n, us).name = n
         /\ PutData(n, us, o).kind = "data" /\ PutData(n, us, o).units = us /\ PutData(n, us, o).name = n
  BY DEF PutFat, PutUnits, PutData

(* The table alone. *)
LEMMA LeadsFat ==
  ASSUME NEW f, NEW g, NEW d, NEW C, NEW n, Safe(f, d, C, {n}), Safe(g, d, C, {n})
  PROVE  Leads(<<PutFat(n)>>, f, d, g, d, C, n)
<1> DEFINE w == PutFat(n)
<1>1. w.kind = "fat" /\ w.name = n
  BY WriteDoes
<1> HIDE DEF w
<1>2. FatAfter(w, f, g) = g /\ DataAfter(w, d) = d
  BY <1>1 DEF FatAfter, DataAfter
<1>3. Leads(<<>>, g, d, g, d, C, n)
  BY LeadsNone
<1>4. Leads(<<>>, FatAfter(w, f, g), DataAfter(w, d), g, d, C, n)
  BY <1>2, <1>3
<1>5. Cons(<<w>>, w, <<>>)
  BY Pairs
<1>6. Leads(<<w>>, f, d, g, d, C, n)
  BY <1>1, <1>4, <1>5, LeadsMore
<1> QED BY <1>6 DEF w

(* Units, then what follows. *)
LEMMA LeadsUnits ==
  ASSUME NEW t, NEW s, NEW f, NEW g, NEW d, NEW e, NEW us, NEW C, NEW n, NEW o, NEW w,
         w = PutUnits(n, us) \/ w = PutData(n, us, o),
         Safe(f, d, C, {n}), Cons(s, w, t), Leads(t, f, Over(us, d), g, e, C, n)
  PROVE  Leads(s, f, d, g, e, C, n)
<1>1. w.kind # "fat" /\ w.units = us /\ w.name = n
  BY WriteDoes
<1>2. FatAfter(w, f, g) = f /\ DataAfter(w, d) = Over(us, d)
  BY <1>1 DEF FatAfter, DataAfter
<1> QED BY <1>1, <1>2, LeadsMore

(* An entry, then the table. *)
LEMMA LeadsEntry ==
  ASSUME NEW f, NEW g, NEW d, NEW us, NEW C, NEW n,
         Safe(f, d, C, {n}), Safe(f, Over(us, d), C, {n}), Safe(g, Over(us, d), C, {n})
  PROVE  Leads(<<PutUnits(n, us), PutFat(n)>>, f, d, g, Over(us, d), C, n)
<1> DEFINE e == Over(us, d)
           a == PutUnits(n, us)
           w == PutFat(n)
<1>1. Leads(<<w>>, f, e, g, e, C, n)
  <2> HIDE DEF e
  <2> QED BY LeadsFat DEF e
<1>2. Cons(<<a, w>>, a, <<w>>)
  <2> HIDE DEF a, w
  <2> QED BY Pairs
<1>3. a = PutUnits(n, us) /\ Safe(f, d, C, {n}) /\ Leads(<<w>>, f, Over(us, d), g, e, C, n)
  BY <1>1
<1> HIDE DEF e, a, w
<1>4. Leads(<<a, w>>, f, d, g, e, C, n)
  BY <1>2, <1>3, LeadsUnits
<1> QED BY <1>4 DEF e, a, w

-----------------------------------------------------------------------------
\* A new file.

\* The content of n becomes w.
Filled(c, b, n, w) == b = [c EXCEPT ![n] = w]

IsContent(c) == c = [m \in Names |-> c[m]]

(* The content of one file is changed and no other's. *)
LEMMA ContentPut ==
  ASSUME NEW c, IsContent(c), NEW b, NEW n \in Names, NEW w, Filled(c, b, n, w)
  PROVE  /\ IsContent(b) /\ b[n] = w
         /\ \A m \in Names \ {n} : b[m] = c[m]
  BY DEF Filled, IsContent

(* The other files when the table grows at the chain from r and e differs
   from d in the directory and in that chain. *)
LEMMA OthersKept ==
  ASSUME NEW f, NEW g, NEW d, NEW e, NEW S, NEW R \in SUBSET S, NEW u,
         Tree(g, S), Touches(g, d, e, R),
         \A v \in FileUnits(d) \ {u} : d[v][3] # 0 => /\ d[v][3] \in S \ R
                                                      /\ Good(f, d[v][3]) /\ Same(f, g, d[v][3])
  PROVE  \A v \in FileUnits(d) \ {u} : d[v][3] = 0 \/ Keeps(f, g, d, e, d[v][3])
<1> SUFFICES ASSUME NEW v \in FileUnits(d) \ {u}, d[v][3] # 0
             PROVE  Keeps(f, g, d, e, d[v][3])
  OBVIOUS
<1> DEFINE s == d[v][3]
<1>1. s \in S \ R /\ Good(f, s) /\ Same(f, g, s)
  OBVIOUS
<1> HIDE DEF s
<1>2. Keeps(f, g, d, e, s)
  BY <1>1, KeepsFrom
<1> QED BY <1>2 DEF s

\* Of the handles j one, r, is new, and knows of n what the entry at i says.
Joins(h, j, r, n, i) ==
  /\ j \subseteq Handle /\ r.name = n /\ r.size = 0 /\ r.findex = i
  /\ \A q \in j : q = r \/ q \in h

(* What a new entry of the directory makes of the volume. *)
LEMMA EntryAdded ==
  ASSUME NEW f, NEW g, NEW d, NEW e, NEW h, NEW j, NEW c, NEW b,
         NEW n \in Names, NEW i \in DirIndexes(g), NEW u, NEW k \in Nat, NEW r,
         Volume(f, d, h, c), GrownBy(f, g, Roots(d), Root, k),
         u = At(g, Root, i), u \notin FileUnits(d),
         Puts(d, e, u, Entry(n, 0, 0)),
         \A v \in FileUnits(d) : d[v][2] # n,
         Joins(h, j, r, n, i),
         Filled(c, b, n, Empty)
  PROVE  /\ Volume(g, e, j, b) /\ Roots(e) = Roots(d) /\ Starts(e) = Starts(d)
         /\ Listing(e) /\ Whole(f, e, b, {n})
<1> DEFINE S == Roots(d)
           E == Entry(n, 0, 0)
<1>1. Tree(f, S) /\ Tree(g, S) /\ Root \in S /\ Good(g, Root) /\ Good(f, Root)
  <2>1. Tree(f, S) /\ Tree(g, S) /\ Root \in S
    BY DEF Volume, GrownBy, Roots
  <2> HIDE DEF S
  <2> QED BY <2>1, TreeParts
<1>2. E[1] = "file" /\ E[2] = n /\ E[3] = 0 /\ E[4] = 0
  BY EntryIs
<1>3. Puts(d, e, u, E) /\ e[u] = E
  BY DEF Puts
<1> HIDE DEF E
<1>4. /\ FileUnits(e) = FileUnits(d) \cup {u}
      /\ \A v \in FileUnits(d) : e[v] = d[v]
  BY <1>2, <1>3, PutsFiles
<1>5. Starts(e) = Starts(d) /\ Roots(e) = Roots(d)
  BY <1>2, <1>3, <1>4 DEF Starts, Roots
<1>6. i \in Span(g, Root) /\ Owner(u) \in ChainOf(g, Root)
  <2>1. i \in Span(g, Root)
    BY DEF DirIndexes, Span
  <2> QED BY <1>1, <2>1, AtIs
<1>7. Touches(g, d, e, {Root})
  <2>1. \A x \in DiskUnits : e[x] # d[x] => x = u
    BY <1>3 DEF Puts
  <2> QED BY <1>6, <2>1 DEF Touches
<1>8. DirKept(f, g)
  <2>1. GrownBy(f, g, S, Root, k)
    OBVIOUS
  <2> HIDE DEF S
  <2> QED BY <1>1, <2>1, DirGrown
<1>9. \A v \in FileUnits(d) \ {u} : d[v][3] = 0 \/ Keeps(f, g, d, e, d[v][3])
  <2>1. ASSUME NEW v \in FileUnits(d) \ {u}, d[v][3] # 0
        PROVE  d[v][3] \in S \ {Root} /\ Good(f, d[v][3]) /\ Same(f, g, d[v][3])
    <3>1. d[v][3] \in Starts(d) /\ d[v][3] # Root
      BY <2>1 DEF Starts, Volume
    <3>2. d[v][3] \in S
      BY <3>1 DEF Roots
    <3> QED BY <1>1, <3>1, <3>2 DEF Tree, GrownBy
  <2>2. {Root} \in SUBSET S
    BY <1>1
  <2> HIDE DEF S
  <2> QED BY <1>1, <1>7, <2>1, <2>2, OthersKept
<1>10. /\ b = [m \in Names |-> b[m]] /\ b[n] = Empty /\ \A m \in Names \ {n} : b[m] = c[m]
  <2>1. IsContent(c)
    BY DEF Volume, IsContent
  <2> DEFINE w == Empty
  <2>2. n \in Names /\ Filled(c, b, n, w)
    OBVIOUS
  <2> HIDE DEF w
  <2>3. /\ IsContent(b) /\ b[n] = w /\ \A m \in Names \ {n} : b[m] = c[m]
    BY ONLY <2>1, <2>2, ContentPut
  <2> QED BY <2>3 DEF IsContent, w
<1>11. \A q \in h : q.name # n
  BY DEF Volume, HandleOK
<1>12. /\ j \subseteq Handle /\ r.name = n /\ r.size = 0 /\ r.findex = i
       /\ \A q \in j : (q.name # n => q \in h) /\ (q.name = n => q = r)
  BY <1>11 DEF Joins
<1>13. OnlyFile(f, g, d, e, h, j, c, b, n, u)
  <2>1. FileUnits(e) \ {u} = FileUnits(d) \ {u}
    BY <1>4
  <2>2. e = [x \in DiskUnits |-> e[x]]
    BY <1>3 DEF Puts, IsDisk
  <2> QED BY <1>4, <1>8, <1>9, <1>10, <1>12, <2>1, <2>2 DEF OnlyFile
<1>14. FileOK(g, e, b, u)
  <2>1. Fits(g, e, 0, 0, Empty)
    <3>1. DOMAIN Empty = 0 .. 0 - 1 /\ 0 .. 0 - 1 = {}
      BY DEF Empty
    <3> QED BY <3>1 DEF Fits
  <2> QED BY <1>2, <1>3, <1>6, <1>10, <2>1 DEF FileOK
<1>15. HandleOK(g, e, r)
  <2>1. u \in FileUnits(e) /\ e[u][2] = n /\ e[u][4] = 0
    BY <1>2, <1>3, <1>4
  <2> QED BY <1>12, <2>1 DEF HandleOK
<1>16. NewFile(g, d, e, j, b, n, u)
  BY <1>2, <1>3, <1>12, <1>14, <1>15 DEF NewFile, Root
<1>17. Tree(g, Roots(e))
  BY <1>1, <1>5
<1>18. Volume(g, e, j, b)
  <2> HIDE DEF S
  <2> QED BY <1>13, <1>16, <1>17, VolumeKept
<1>19. Whole(f, e, b, {n})
  <2>1. u \in FileUnits(e) => e[u][2] = n
    BY <1>2, <1>3
  <2> HIDE DEF S
  <2> QED BY <1>13, <2>1, WholeKept
<1> QED BY <1>5, <1>18, <1>19 DEF Volume

(* fat32Open of a new file keeps the invariant: the directory may have grown by
   clusters that were never cleared, and the entry is in an unused place. *)
LEMMA CreateKeeps ==
  ASSUME SecPerClus = 1, IInv, NEW n \in Names, NEW x \in Handles, Create(x, n)
  PROVE  IInv'
<1>1. todo = <<>> /\ Found(n) = {}
  BY DEF Create, Idle
<1>2. AtRest /\ writes \in Nat
  BY <1>1, RestIs DEF IInv
<1> DEFINE grows == {k \in 0 .. Cardinality(Unused(fat)) : FreeEntries(k) # {}}
           k == First(grows)
           g == Grown(k)
           i == First(FreeEntries(k))
<1>3. CASE grows = {}
  <2>1. Breaks(NoRoom)
    BY <1>3 DEF Create
  <2> QED BY <2>1, BreaksKeeps
<1>4. CASE grows # {}
  <2> DEFINE p == Path(g, Root)
             u == At(g, Root, i)
             E == Entry(n, 0, 0)
             us == OneUnit(u, E)
             r == [name |-> n, fnode |-> 0, size |-> 0, findex |-> i]
             e == Over(us, data)
             S == Roots(data)
  <2>1. /\ fat' = g /\ handle' = [handle EXCEPT ![x] = r] /\ current' = current \cup {x}
        /\ todo' = <<PutUnits(n, OneUnit(Address(p, 0, i), E)), PutFat(n)>>
        /\ content' = [content EXCEPT ![n] = Empty]
        /\ dfat' = dfat /\ data' = data /\ writes' = writes
    BY <1>4 DEF Create
  <2>2. Volume(fat, data, Known, content) /\ dfat = fat
    BY <1>2 DEF AtRest
  <2>3. k \in 0 .. Cardinality(Unused(fat)) /\ FreeEntries(k) # {}
    <3>1. Cardinality(Unused(fat)) \in Nat
      BY UnusedIs
    <3>2. grows \in SUBSET (0 .. Cardinality(Unused(fat)))
      OBVIOUS
    <3>3. First(grows) \in grows
      <4> HIDE DEF grows
      <4> QED BY <1>4, <3>1, <3>2, FirstIs
    <3> QED BY <3>3
  <2> HIDE DEF k
  <2>4. GrownBy(fat, g, S, Root, k)
    <3>1. Tree(fat, S) /\ Root \in S
      BY <2>2 DEF Volume, Roots
    <3>2. k \in Nat /\ k <= Cardinality(Unused(fat)) /\ Cardinality(Unused(fat)) \in Nat
      BY <2>3, UnusedIs
    <3> HIDE DEF S
    <3>3. GrownBy(fat, Longer(fat, Root, k), S, Root, k)
      BY <3>1, <3>2, LongerIs
    <3> QED BY <3>3 DEF Grown
  <2> DEFINE T == FreeEntries(k)
  <2>5. T = {y \in DirIndexes(g) : data[Address(p, 0, y)] = NoData}
    BY DEF FreeEntries
  <2> HIDE DEF g
  <2>6. Tree(g, S) /\ Good(g, Root) /\ DirIndexes(g) = Span(g, Root)
    <3>1. Tree(g, S)
      BY <2>4 DEF GrownBy
    <3> QED BY <3>1, Rooted
  <2>7. i \in T
    <3> DEFINE L == Length(g, Root) * ClusterUnits
    <3>1. L \in Nat
      BY <2>6, GoodIs, Units
    <3>2. T \subseteq 0 .. L - 1
      BY <2>5 DEF DirIndexes
    <3> HIDE DEF L, T
    <3>3. T \in SUBSET (0 .. L)
      BY <3>1, <3>2
    <3>4. First(T) \in T
      BY <2>3, <3>1, <3>3, FirstIs DEF T
    <3> QED BY <3>4 DEF T
  <2> HIDE DEF i
  <2>8. i \in DirIndexes(g) /\ data[Address(p, 0, i)] = NoData
    BY <2>5, <2>7
  <2>9. Address(p, 0, i) = u /\ u \in DiskUnits /\ i \in Int
    BY <2>6, <2>8, AddressAt, AtIs, SpanIs
  <2>10. u \notin FileUnits(data)
    BY <2>8, <2>9, EntryIs DEF FileUnits
  <2>11. \A v \in FileUnits(data) : data[v][2] # n
    BY <1>1, <1>2, FoundEvery
  <2>12. /\ content = [m \in Names |-> content[m]] /\ IsDisk(data)
         /\ Listing(data) /\ Root \notin Starts(data) /\ Tree(fat, S)
    BY <2>2 DEF Volume, IsDisk
  <2>13. Puts(data, e, u, E)
    BY <2>9, <2>12, OverOne
  <2>14. r \in Handle /\ (r.name = n /\ r.size = 0 /\ r.findex = i) /\ Filled(content, content', n, Empty)
    BY <2>1, <2>9 DEF Handle, Filled
  <2>15. /\ handle' \in [Handles -> Handle] /\ current' \subseteq Handles
         /\ Known' \subseteq Handle /\ \A q \in Known' : q = r \/ q \in Known
    <3>1. handle' = [handle EXCEPT ![x] = r] /\ r \in Handle /\ current' \subseteq current \cup {x}
      BY <2>1, <2>14
    <3> HIDE DEF r
    <3> QED BY <3>1, HandlePut DEF IInv
  <2>16. /\ Volume(g, e, Known', content') /\ Roots(e) = S /\ Starts(e) = Starts(data)
         /\ Listing(e) /\ Whole(fat, e, content', {n})
    <3>1. k \in Nat /\ u = At(g, Root, i)
      BY <2>3
    <3> DEFINE K == Known
               j == Known'
               b == content'
    <3>2. Joins(K, j, r, n, i)
      BY <2>14, <2>15 DEF Joins
    <3>3. Volume(fat, data, K, content)
      BY <2>2
    <3>4. Filled(content, b, n, Empty)
      BY <2>14
    <3>5. n \in Names /\ i \in DirIndexes(g) /\ GrownBy(fat, g, Roots(data), Root, k)
      BY <2>4, <2>8
    <3> HIDE DEF u, e, r, K, j, b
    <3>6. /\ Volume(g, e, j, b) /\ Roots(e) = Roots(data) /\ Starts(e) = Starts(data)
          /\ Listing(e) /\ Whole(fat, e, b, {n})
      BY <2>10, <2>11, <2>13, <3>1, <3>2, <3>3, <3>4, <3>5, EntryAdded
    <3> QED BY <3>6 DEF j, b
  <2>17. Alike(content, content', {n}) /\ Alike(content', content', {n})
    BY <2>1, <2>12 DEF Alike
  <2>18. Safe(fat, data, content', {n}) /\ Safe(g, e, content', {n})
    <3> HIDE DEF e
    <3> QED BY <2>2, <2>16, <2>17, SafeVolume
  <2>19. Safe(fat, e, content', {n})
    <3>1. StartsIn(fat, e, S) /\ Root \in S
      BY <2>12, <2>16, RootsIn DEF Roots
    <3> HIDE DEF e, S
    <3>2. Apart(fat, e)
      BY <2>12, <3>1, ApartIs
    <3> QED BY <2>16, <3>2 DEF Safe
  <2>20. Leads(<<PutUnits(n, us), PutFat(n)>>, fat, data, g, e, content', n)
    <3> DEFINE C == content'
    <3>1. Safe(fat, data, C, {n}) /\ Safe(g, e, C, {n}) /\ Safe(fat, e, C, {n})
      BY <2>18, <2>19
    <3> HIDE DEF C, us
    <3>2. Leads(<<PutUnits(n, us), PutFat(n)>>, fat, data, g, e, C, n)
      BY <3>1, LeadsEntry
    <3> QED BY <3>2 DEF C
  <2>21. Leads(todo', dfat', data', fat', e, content', n)
    BY <2>1, <2>2, <2>9, <2>20
  <2>22. Volume(fat', e, Known', content')
    BY <2>1, <2>16
  <2> QED BY <1>2, <2>1, <2>15, <2>21, <2>22 DEF IInv
<1> QED BY <1>3, <1>4

-----------------------------------------------------------------------------
\* A file is cut.

(* A size has its last unit in its last cluster. *)
LEMMA SizeClusters ==
  ASSUME NEW z \in Nat
  PROVE  /\ z \div ClusterUnits \in Nat /\ (z \div ClusterUnits + 1) * ClusterUnits >= z
         /\ \A o \in 0 .. z - 1 : o \in Nat /\ o \div ClusterUnits < z \div ClusterUnits + 1
<1> DEFINE m == ClusterUnits
           q == z \div m
           Q == q * m
<1>1. m \in Nat \ {0}
  BY Units
<1> HIDE DEF m
<1>2. q \in Nat /\ z % m \in 0 .. m - 1 /\ Q \in Nat /\ z = Q + (z % m)
  BY <1>1, Divided
<1> HIDE DEF q
<1>3. (q + 1) * m = Q + m
  BY <1>1, <1>2
<1> DEFINE P == (q + 1) * m
<1>4. P \in Nat /\ P = Q + m
  BY <1>1, <1>2, <1>3
<1> HIDE DEF P, Q
<1>5. P >= z /\ z < P
  BY <1>1, <1>2, <1>4
<1>6. ASSUME NEW o \in 0 .. z - 1
      PROVE  o \in Nat /\ o \div m < q + 1
  <2>1. o \in Nat /\ o < P
    BY <1>5, <1>4
  <2>2. q + 1 \in Nat
    BY <1>2
  <2>3. o < (q + 1) * m
    BY <2>1 DEF P
  <2>4. ASSUME NEW l \in Nat
        PROVE  o < l * ClusterUnits <=> o \div ClusterUnits < l
    BY <2>1, Offsets
  <2> QED BY <2>1, <2>2, <2>3, <2>4 DEF m
<1> QED BY <1>2, <1>5, <1>6 DEF P, q, m

\* g is f after the file from s was cut to z units.
CutTo(f, g, s, z) ==
  IF z = 0 THEN Drops(f, g, s)
  ELSE z \div ClusterUnits \in 0 .. Length(f, s) - 1 /\ Cuts(f, g, s, z \div ClusterUnits)

\* What the code makes of the table is that.

(* What a cut does to the table: the file has the clusters of the offsets up to
   the one it is cut at, or none. *)
LEMMA CutIs ==
  ASSUME NEW s, Good(fat, s), fat \in Table, NEW z \in Nat,
         z <= Length(fat, s) * ClusterUnits, ~CutBreaks(s, z)
  PROVE  CutTo(fat, Cut(s, z), s, z)
<1> DEFINE p == Path(fat, s)
           n == Length(fat, s)
           q == z \div ClusterUnits
           L == n * ClusterUnits
           last == p[q]
           behind == ChainOf(fat, last) \ {last}
           g == Cut(s, z)
<1>1. n \in 1 .. Clusters /\ ClusterUnits \in Nat \ {0} /\ p[n] = EOF /\ p[0] = s
  BY GoodIs, Units DEF Good, Passes
<1>2. last \in Cluster
  BY DEF CutBreaks
<1>3. q \in 0 .. n - 1
  <2>1. q \in Nat /\ ~ (q > n)
    <3> DEFINE m == ClusterUnits
               Q == q * m
    <3>1. m \in Nat \ {0}
      BY <1>1
    <3> HIDE DEF m
    <3>2. q \in Nat /\ z % m \in 0 .. m - 1 /\ Q \in Nat /\ z = Q + (z % m)
      BY <3>1, Divided DEF m
    <3> HIDE DEF q, n
    <3>3. n < q => n * m + m <= q * m
      BY <1>1, <3>1, <3>2, Products
    <3>4. L = n * m /\ L \in Nat /\ z <= L
      BY <1>1, <3>1 DEF m, n
    <3> HIDE DEF L, Q
    <3>5. n < q => L + m <= Q
      BY <3>3, <3>4 DEF Q
    <3>6. ~ (n < q)
      BY <3>1, <3>2, <3>4, <3>5
    <3> QED BY <1>1, <3>2, <3>6
  <2>2. EOF \notin Cluster
    BY DEF EOF, Cluster
  <2>3. q # n
    <3> HIDE DEF q, n, p
    <3> QED BY <1>1, <1>2, <2>2
  <2> HIDE DEF q, n
  <2> QED BY <1>1, <2>1, <2>3
<1> HIDE DEF q, n
<1>4. ChainOf(fat, last) = Rest(fat, s, q)
  BY <1>3, Behind DEF n
<1>5. Rest(fat, s, q) \subseteq ChainOf(fat, s) /\ last \in Rest(fat, s, q) /\ ChainOf(fat, s) \subseteq Cluster
  <2>1. \A k \in q .. n - 1 : k \in 0 .. n - 1
    BY <1>1, <1>3
  <2>2. q \in q .. n - 1
    BY <1>1, <1>3
  <2>3. ChainOf(fat, s) = {p[k] : k \in 0 .. n - 1} /\ ChainOf(fat, s) \subseteq Cluster
    BY GoodIs DEF n
  <2>4. Rest(fat, s, q) = {p[k] : k \in q .. n - 1}
    BY DEF Rest, n
  <2> QED BY <2>1, <2>2, <2>3, <2>4
<1>6. behind = Rest(fat, s, q) \ {last}
  BY <1>4
<1>7. g = [d \in Cluster |-> IF d \in behind \/ (z = 0 /\ d = s) THEN FREE
                             ELSE IF d = last THEN EOF ELSE fat[d]]
  BY DEF Cut, q
<1> HIDE DEF g, behind, last, p
<1>8. /\ g \in Table
      /\ \A d \in Cluster : g[d] = IF d \in behind \/ (z = 0 /\ d = s) THEN FREE
                                   ELSE IF d = last THEN EOF ELSE fat[d]
  BY <1>7 DEF Table
<1>9. CASE z = 0
  <2>1. q = 0
    <3>1. 0 * ClusterUnits + 0 = 0 /\ 0 \in 0 .. ClusterUnits - 1
      BY <1>1
    <3>2. (0 * ClusterUnits + 0) \div ClusterUnits = 0
      BY <1>1, <3>1, DividedIs
    <3> QED BY <1>9, <3>1, <3>2 DEF q
  <2>2. last = s
    BY <1>1, <2>1 DEF last
  <2>3. Rest(fat, s, q) = ChainOf(fat, s)
    BY <1>1, <1>4, <2>2
  <2>4. \A d \in ChainOf(fat, s) : g[d] = FREE
    BY <1>5, <1>6, <1>8, <1>9, <2>2, <2>3
  <2>5. s \in ChainOf(fat, s)
    BY <1>5, <2>2, <2>3
  <2>6. Agree(fat, g, Cluster \ ChainOf(fat, s))
    BY <1>6, <1>8, <2>2, <2>3, <2>5 DEF Agree
  <2> QED BY <1>8, <1>9, <2>4, <2>6 DEF CutTo, Drops, g
<1>10. CASE z # 0
  <2>1. g[last] = EOF
    BY <1>2, <1>6, <1>8, <1>10 DEF last
  <2>2. \A d \in Rest(fat, s, q) \ {last} : g[d] = FREE
    BY <1>5, <1>6, <1>8
  <2>3. Agree(fat, g, Cluster \ Rest(fat, s, q))
    BY <1>5, <1>6, <1>8, <1>10 DEF Agree
  <2>4. Cuts(fat, g, s, q)
    BY <1>8, <2>1, <2>2, <2>3 DEF Cuts, last, p
  <2> QED BY <1>3, <1>10, <2>4 DEF CutTo, g, q, n
<1> QED BY <1>9, <1>10

\* The file n with entry u is cut to z units; cut to none its entry may go.
CutFile(f, g, d, e, h, j, c, b, n, u, z) ==
  /\ Volume(f, d, h, c) /\ n \in Names /\ u \in FileUnits(d) /\ d[u][2] = n /\ d[u][3] # 0
  /\ z \in Nat /\ z <= d[u][4] /\ CutTo(f, g, d[u][3], z)
  /\ \/ Puts(d, e, u, Entry(n, IF z = 0 THEN 0 ELSE d[u][3], z))
     \/ z = 0 /\ Puts(d, e, u, NoData)
  /\ j \subseteq Handle /\ IsContent(b)
  /\ \A m \in Names \ {n} : b[m] = c[m]
  /\ DOMAIN b[n] = 0 .. z - 1 /\ \A o \in 0 .. z - 1 : b[n][o] = c[n][o]
  /\ \A q \in j : q.name # n => q \in h
  /\ \A q \in j : q.name = n =>
       /\ q.findex \in DirIndexes(f) /\ At(f, Root, q.findex) = u
       /\ e[u][1] = "file" /\ q.size = z /\ (z # 0 => q.fnode = d[u][3])

(* A file cut at z fits. *)
LEMMA CutFits ==
  ASSUME NEW f, NEW g, NEW d, NEW e, NEW s, NEW y \in Nat, NEW z \in Nat, NEW w, NEW v,
         Fits(f, d, s, y, w), Good(f, s), Good(g, s), z # 0, z <= y, z \div ClusterUnits \in 0 .. Length(f, s) - 1,
         Shorter(f, g, s, z \div ClusterUnits),
         DOMAIN v = 0 .. z - 1, \A o \in 0 .. z - 1 : v[o] = w[o],
         s # 0, \A x \in DiskUnits : Owner(x) \in ChainOf(f, s) => e[x] = d[x]
  PROVE  Fits(g, e, s, z, v)
<1> DEFINE q == z \div ClusterUnits
           m == q + 1
<1>1. /\ q \in Nat /\ m * ClusterUnits >= z
      /\ \A o \in 0 .. z - 1 : o \in Nat /\ o \div ClusterUnits < m
  BY SizeClusters
<1>2. q \in 0 .. Length(f, s) - 1 /\ Length(f, s) \in 1 .. Clusters /\ Shorter(f, g, s, q) /\ m = q + 1
  BY GoodIs
<1> HIDE DEF q, m
<1>3. Length(g, s) = m /\ \A k \in 0 .. q : Path(g, s)[k] = Path(f, s)[k]
  BY <1>2 DEF Shorter
<1>4. m \in Nat /\ m <= Length(f, s) /\ m <= Length(g, s) /\ m - 1 = q
  <2> DEFINE L == Length(f, s)
  <2>1. L \in Int /\ q \in 0 .. L - 1 /\ m = q + 1
    BY <1>2
  <2> HIDE DEF L
  <2>2. m \in Nat /\ m <= L /\ m - 1 = q /\ m <= m
    BY <2>1
  <2> QED BY <1>3, <2>2 DEF L
<1>5. Begins(f, g, s, m)
  BY <1>3, <1>4 DEF Begins
<1>6. ASSUME NEW o \in 0 .. z - 1, v[o] # NoData
      PROVE  e[At(g, s, o)] = v[o]
  <2>1. o \in Nat /\ o \div ClusterUnits < m
    BY <1>1
  <2>2. o \in Span(f, s) /\ At(g, s, o) = At(f, s, o)
    BY <1>5, <2>1, AtSame
  <2>3. At(f, s, o) \in DiskUnits /\ Owner(At(f, s, o)) \in ChainOf(f, s)
    BY <2>2, AtIs
  <2>4. o \in 0 .. y - 1
    OBVIOUS
  <2>5. d[At(f, s, o)] = w[o] /\ v[o] = w[o]
    BY <1>6, <2>4 DEF Fits
  <2> QED BY <2>2, <2>3, <2>5
<1>7. Length(g, s) * ClusterUnits >= z /\ Length(g, s) <= z \div ClusterUnits + 1
  <2>1. m <= z \div ClusterUnits + 1
    BY <1>1 DEF q, m
  <2> QED BY <1>1, <1>3, <2>1
<1> QED BY <1>6, <1>7 DEF Fits

(* The volume is in order when a file is cut and its entry says so. *)
LEMMA EntryCut ==
  ASSUME NEW f, NEW g, NEW d, NEW e, NEW h, NEW j, NEW c, NEW b, NEW n, NEW u, NEW z,
         CutFile(f, g, d, e, h, j, c, b, n, u, z)
  PROVE  Volume(g, e, j, b) /\ Roots(e) \subseteq Roots(d) /\ Whole(f, e, b, {n})
<1> DEFINE s == d[u][3]
           S == Roots(d)
<1>1. /\ Volume(f, d, h, c) /\ n \in Names /\ u \in FileUnits(d) /\ d[u][2] = n /\ s # 0
      /\ z \in Nat /\ z <= d[u][4] /\ CutTo(f, g, s, z)
  BY DEF CutFile
<1>2. /\ Tree(f, S) /\ Root \in S /\ s \in S /\ s # Root /\ Listing(d) /\ FileOK(f, d, c, u)
      /\ s \in Starts(d) /\ S = {Root} \cup Starts(d)
  BY <1>1 DEF Volume, Roots, Starts
<1>3. Good(f, s) /\ Good(f, Root)
  BY <1>2, TreeParts
<1>4. PICK E : /\ Puts(d, e, u, E)
               /\ \/ E[1] = "file" /\ E[2] = n /\ E[3] = (IF z = 0 THEN 0 ELSE s) /\ E[4] = z
                  \/ z = 0 /\ E[1] # "file"
  BY EntryIs DEF CutFile
<1>5. /\ FileUnits(e) \ {u} = FileUnits(d) \ {u}
      /\ u \in FileUnits(e) <=> E[1] = "file"
      /\ e[u] = E
      /\ \A v \in FileUnits(d) \ {u} : e[v] = d[v]
  <2>1. Puts(d, e, u, E)
    BY <1>4
  <2>2. e[u] = E
    BY <2>1 DEF Puts
  <2> QED BY <2>1, <2>2, PutsFiles
<1>6. \A v \in FileUnits(d) \ {u} : d[v][3] # s /\ d[v][2] # n
  BY <1>1, <1>2 DEF Listing
<1>7. Roots(e) = IF z = 0 THEN S \ {s} ELSE S
  <2> DEFINE O == {d[v][3] : v \in FileUnits(d) \ {u}} \ {0}
  <2>1. Starts(d) = O \cup {s} /\ s \notin O
    BY <1>1, <1>6 DEF Starts
  <2>2. CASE z = 0
    <3>1. Starts(e) = O
      BY <1>4, <1>5, <2>2 DEF Starts
    <3> QED BY <1>2, <2>1, <2>2, <3>1 DEF Roots
  <2>3. CASE z # 0
    <3>1. Starts(e) = O \cup {s}
      BY <1>1, <1>4, <1>5, <2>3 DEF Starts
    <3> QED BY <1>2, <2>1, <2>3, <3>1 DEF Roots
  <2> QED BY <2>2, <2>3
<1> HIDE DEF s, S
<1>8. Tree(g, Roots(e)) /\ OthersSame(f, g, S, s)
  <2>1. CASE z = 0
    BY <1>1, <1>2, <1>7, <2>1, TreeDrop DEF CutTo
  <2>2. CASE z # 0
    BY <1>1, <1>2, <1>7, <2>2, TreeCut DEF CutTo
  <2> QED BY <2>1, <2>2
<1>9. \A x \in S \ {s} : Good(f, x) /\ Good(g, x) /\ Same(f, g, x) /\ x \in Roots(e)
  BY <1>2, <1>7, <1>8 DEF OthersSame, Tree
<1>10. Root \in Roots(e) /\ DirKept(f, g)
  BY <1>2, <1>9, DirSame
<1>11. Owner(u) \in ChainOf(f, Root) /\ Owner(u) \in ChainOf(g, Root)
  BY <1>2, <1>10 DEF FileOK, DirKept
<1>12. Touches(g, d, e, {Root})
  <2>1. \A x \in DiskUnits : e[x] # d[x] => x = u
    BY <1>4 DEF Puts
  <2> QED BY <1>11, <2>1 DEF Touches
<1>13. \A v \in FileUnits(d) \ {u} : d[v][3] = 0 \/ Keeps(f, g, d, e, d[v][3])
  <2>1. ASSUME NEW v \in FileUnits(d) \ {u}, d[v][3] # 0
        PROVE  d[v][3] \in Roots(e) \ {Root} /\ Good(f, d[v][3]) /\ Same(f, g, d[v][3])
    <3>1. d[v][3] \in Starts(d) /\ d[v][3] # Root
      BY <1>1, <2>1 DEF Starts, Volume
    <3>2. d[v][3] \in S \ {s}
      BY <1>2, <1>6, <3>1
    <3> QED BY <1>9, <3>1, <3>2
  <2>2. {Root} \in SUBSET Roots(e)
    BY <1>10
  <2> QED BY <1>8, <1>12, <2>1, <2>2, OthersKept
<1>14. /\ e = [x \in DiskUnits |-> e[x]] /\ j \subseteq Handle /\ b = [m \in Names |-> b[m]]
       /\ \A m \in Names \ {n} : b[m] = c[m]
       /\ \A q \in j : q.name # n => q \in h
  BY <1>4 DEF Puts, IsDisk, CutFile, IsContent
<1>15. OnlyFile(f, g, d, e, h, j, c, b, n, u)
  BY <1>5, <1>6, <1>10, <1>13, <1>14 DEF OnlyFile
<1>16. u \in FileUnits(e) => FileOK(g, e, b, u)
  <2> SUFFICES ASSUME u \in FileUnits(e)
               PROVE  FileOK(g, e, b, u)
    OBVIOUS
  <2>1. e[u][2] = n /\ e[u][3] = (IF z = 0 THEN 0 ELSE s) /\ e[u][4] = z
    BY <1>4, <1>5
  <2>2. DOMAIN b[n] = 0 .. z - 1 /\ \A o \in 0 .. z - 1 : b[n][o] = c[n][o]
    BY DEF CutFile
  <2>3. CASE z = 0
    <3>1. Fits(g, e, 0, 0, b[n])
      <4>1. 0 .. 0 - 1 = {}
        OBVIOUS
      <4> QED BY <2>2, <2>3, <4>1 DEF Fits
    <3> QED BY <1>1, <1>11, <2>1, <2>3, <3>1 DEF FileOK
  <2>4. CASE z # 0
    <3> DEFINE y == d[u][4]
               w == c[n]
               v == b[n]
    <3>1. Fits(f, d, s, y, w) /\ y \in Nat /\ z <= y /\ s \in Nat
      BY <1>1, <1>2 DEF FileOK, s
    <3>2. DOMAIN v = 0 .. z - 1 /\ \A o \in 0 .. z - 1 : v[o] = w[o]
      BY <2>2
    <3> HIDE DEF y, w, v
    <3>3. z \div ClusterUnits \in 0 .. Length(f, s) - 1 /\ Shorter(f, g, s, z \div ClusterUnits) /\ Good(g, s)
      <4>1. Shorter(f, g, s, z \div ClusterUnits) /\ z \div ClusterUnits \in 0 .. Length(f, s) - 1
        BY <1>1, <1>2, <2>4, TreeCut DEF CutTo
      <4> QED BY <1>2, <1>7, <1>8, <2>4, <4>1 DEF Tree
    <3>4. \A x \in DiskUnits : Owner(x) \in ChainOf(f, s) => e[x] = d[x]
      <4>1. ChainOf(f, s) \cap ChainOf(f, Root) = {}
        BY <1>2 DEF Tree
      <4> QED BY <1>4, <1>11, <4>1 DEF Puts
    <3>5. Fits(g, e, s, z, v)
      BY <1>1, <1>3, <2>4, <3>1, <3>2, <3>3, <3>4, CutFits
    <3> QED BY <1>1, <1>11, <2>1, <2>4, <3>1, <3>5 DEF FileOK, v
  <2> QED BY <2>3, <2>4
<1>17. ASSUME NEW q \in j, q.name = n
       PROVE  HandleOK(g, e, q)
  <2> DEFINE i == q.findex
  <2>1. /\ i \in DirIndexes(f) /\ At(f, Root, i) = u /\ e[u][1] = "file"
        /\ q.size = z /\ (z # 0 => q.fnode = s)
    BY <1>17 DEF CutFile, s
  <2> HIDE DEF i
  <2>2. i \in DirIndexes(g) /\ At(g, Root, i) = u
    BY <1>10, <2>1, DirAt
  <2>3. u \in FileUnits(e) /\ e[u][2] = n /\ e[u][4] = z /\ (z # 0 => e[u][3] = s)
    BY <1>4, <1>5, <2>1
  <2> QED BY <1>17, <2>1, <2>2, <2>3 DEF i, HandleOK
<1>18. NewFile(g, d, e, j, b, n, u)
  <2>1. u \in FileUnits(e) => e[u][2] = n /\ e[u][3] = (IF z = 0 THEN 0 ELSE s)
    BY <1>4, <1>5
  <2>2. u \in FileUnits(e) => e[u][3] # Root
    BY <1>2, <2>1 DEF Root
  <2>3. u \in FileUnits(e) => \A v \in FileUnits(d) \ {u} : e[u][3] # 0 => e[u][3] # d[v][3]
    BY <1>6, <2>1
  <2> QED BY <1>16, <1>17, <2>1, <2>2, <2>3 DEF NewFile
<1>19. Volume(g, e, j, b)
  BY <1>1, <1>8, <1>15, <1>18, VolumeKept
<1>20. Whole(f, e, b, {n})
  <2>1. u \in FileUnits(e) => e[u][2] = n
    BY <1>4, <1>5
  <2> QED BY <1>1, <1>15, <2>1, WholeKept
<1> QED BY <1>7, <1>19, <1>20 DEF S

(* A cut is safe at each of its writes and leaves the directory. *)
LEMMA CutSafe ==
  ASSUME NEW f, NEW g, NEW d, NEW e, NEW h, NEW j, NEW c, NEW b, NEW n, NEW u, NEW z,
         CutFile(f, g, d, e, h, j, c, b, n, u, z)
  PROVE  /\ Volume(g, e, j, b)
         /\ Safe(f, d, b, {n}) /\ Safe(f, e, b, {n}) /\ Safe(g, e, b, {n})
<1> DEFINE S == Roots(d)
<1>1. /\ Volume(f, d, h, c) /\ Volume(g, e, j, b) /\ Roots(e) \subseteq S /\ Whole(f, e, b, {n})
      /\ Alike(c, b, {n}) /\ Alike(b, b, {n})
  <2>1. Volume(g, e, j, b) /\ Roots(e) \subseteq Roots(d) /\ Whole(f, e, b, {n})
    BY EntryCut
  <2>2. Volume(f, d, h, c) /\ \A m \in Names \ {n} : b[m] = c[m]
    BY DEF CutFile
  <2>3. Alike(c, b, {n}) /\ Alike(b, b, {n})
    BY <2>2 DEF Alike
  <2> QED BY <2>1, <2>2, <2>3
<1>2. Safe(f, d, b, {n}) /\ Safe(g, e, b, {n})
  BY <1>1, SafeVolume
<1>3. Tree(f, S) /\ Root \in S /\ Listing(e) /\ Root \notin Starts(e)
  BY <1>1 DEF Volume, Roots
<1> HIDE DEF S
<1>4. StartsIn(f, e, S)
  BY <1>1, <1>3, RootsIn
<1>5. Apart(f, e)
  BY <1>3, <1>4, ApartIs
<1>6. Safe(f, e, b, {n})
  BY <1>1, <1>5 DEF Safe
<1> QED BY <1>1, <1>2, <1>6

(* A cut of a file keeps the directory. *)
LEMMA DirCut ==
  ASSUME NEW f, NEW g, NEW d, NEW h, NEW c, Volume(f, d, h, c), NEW s \in Starts(d), NEW z,
         CutTo(f, g, s, z)
  PROVE  DirKept(f, g)
<1> DEFINE S == Roots(d)
<1>1. Tree(f, S) /\ Root \in S /\ s \in S /\ s # Root
  BY DEF Volume, Roots
<1> HIDE DEF S
<1>2. OthersSame(f, g, S, s)
  <2>1. CASE z = 0
    BY <1>1, <2>1, TreeDrop DEF CutTo
  <2>2. CASE z # 0
    BY <1>1, <2>2, TreeCut DEF CutTo
  <2> QED BY <2>1, <2>2
<1>3. Good(f, Root) /\ Good(g, Root) /\ Same(f, g, Root)
  BY <1>1, <1>2, TreeParts DEF OthersSame
<1> QED BY <1>3, DirSame

(* What a call finds before it cuts file n with entry u at z. *)
LEMMA CutFound ==
  ASSUME SecPerClus = 1, AtRest, NEW n \in Names, NEW i, NEW u, Holds(n, i, u), NEW s, s = data[u][3], s # 0,
         NEW z \in Nat, z <= data[u][4], ~CutBreaks(s, z), NEW g, g = Cut(s, z)
  PROVE  /\ CutTo(fat, g, s, z) /\ u \in FileUnits(data) /\ data[u][2] = n
         /\ u \in DiskUnits /\ i \in DirIndexes(fat) /\ At(fat, Root, i) = u
         /\ Address(Path(g, Root), i, i) = u
<1>1. /\ Volume(fat, data, Known, content) /\ u \in FileUnits(data) /\ data[u][2] = n
      /\ i \in DirIndexes(fat) /\ At(fat, Root, i) = u
  BY DEF AtRest, Holds
<1>2. u \in DiskUnits /\ FileOK(fat, data, content, u) /\ s \in Starts(data)
  BY <1>1 DEF FileUnits, Volume, Starts
<1>3. Good(fat, s) /\ fat \in Table
  <2>1. Tree(fat, Roots(data)) /\ s \in Roots(data)
    BY <1>1, <1>2 DEF Volume, Roots
  <2> QED BY <2>1, TreeParts DEF Tree
<1>4. z <= Length(fat, s) * ClusterUnits
  <2> DEFINE y == data[u][4]
             L == Length(fat, s) * ClusterUnits
  <2>1. y \in Nat /\ L >= y /\ L \in Nat
    <3>1. L \in Nat
      BY <1>3, GoodIs, Units
    <3> QED BY <1>2, <3>1 DEF FileOK, Fits
  <2>2. z <= y
    OBVIOUS
  <2> HIDE DEF y, L
  <2>3. z <= L
    BY <2>1, <2>2
  <2> QED BY <2>3 DEF L
<1>5. CutTo(fat, g, s, z)
  <2>1. CutTo(fat, Cut(s, z), s, z)
    BY <1>3, <1>4, CutIs
  <2> QED BY <2>1
<1>6. DirKept(fat, g)
  BY <1>1, <1>2, <1>5, DirCut
<1>7. i \in DirIndexes(g) /\ At(g, Root, i) = u
  BY <1>1, <1>6, DirAt
<1>8. Address(Path(g, Root), i, i) = u
  <2>1. Good(g, Root) /\ i \in Span(g, Root)
    BY <1>6, <1>7 DEF DirKept, DirIndexes, Span
  <2>2. i \in Nat
    BY <2>1, SpanIs
  <2> QED BY <1>7, <2>1, <2>2, AddressAt
<1> QED BY <1>1, <1>2, <1>5, <1>8

(* What is known after file n was changed through x, whose handle became r. *)
LEMMA KnownOnly ==
  ASSUME handle \in [Handles -> Handle], current \subseteq Handles, NEW x \in Handles,
         NEW n, NEW r \in Handle, handle' = [handle EXCEPT ![x] = r],
         current' = current \ Others(n, x)
  PROVE  /\ handle' \in [Handles -> Handle] /\ current' \subseteq Handles
         /\ Known' \subseteq Handle
         /\ \A q \in Known' : q = r \/ (q \in Known /\ q.name # n)
<1>1. handle' \in [Handles -> Handle] /\ current' \subseteq Handles
  OBVIOUS
<1>2. ASSUME NEW y \in current'
      PROVE  handle'[y] \in Handle /\ (handle'[y] = r \/ (handle'[y] \in Known /\ handle'[y].name # n))
  <2>1. y \in current /\ y \in Handles /\ handle'[y] \in Handle
    BY <1>1
  <2>2. CASE y = x
    BY <2>1, <2>2
  <2>3. CASE y # x
    <3>1. handle'[y] = handle[y] /\ handle[y].name # n
      BY <2>1, <2>3 DEF Others
    <3> QED BY <2>1, <3>1 DEF Known
  <2> QED BY <2>2, <2>3
<1>3. Known' = {handle'[y] : y \in current'}
  BY DEF Known
<1> QED BY <1>1, <1>2, <1>3

(* fwrite without data keeps the invariant: the entry reaches the disk before the
   table that frees the clusters it gave up. *)
LEMMA TruncateKeeps ==
  ASSUME SecPerClus = 1, Careful, IInv, NEW x \in Handles, NEW z \in Nat, Truncate(x, z)
  PROVE  IInv'
<1> DEFINE h == handle[x]
           n == h.name
           i == h.findex
           s == h.fnode
           u == At(fat, Root, i)
           g == Cut(s, z)
           E == CutEntry(EntryAt(i), z)
           us == OneUnit(u, E)
           e == Over(us, data)
           w == [o \in 0 .. z - 1 |-> IF o \in DOMAIN content[n] THEN content[n][o] ELSE NoData]
           r == [name |-> n, fnode |-> s, size |-> z, findex |-> i]
<1>1. todo = <<>> /\ z <= h.size /\ x \in current /\ (s = 0 \/ h.size > 0)
  BY DEF Truncate, Idle, Cares
<1>2. AtRest /\ writes \in Nat /\ handle \in [Handles -> Handle] /\ current \subseteq Handles
  BY <1>1, RestIs DEF IInv
<1>3. CASE CutBreaks(s, z)
  <2>1. Breaks(NoIndex)
    BY <1>3 DEF Truncate
  <2> QED BY <2>1, BreaksKeeps
<1>4. CASE ~CutBreaks(s, z)
  <2>1. /\ fat' = g /\ handle' = [handle EXCEPT ![x].size = z]
        /\ current' = current \ Others(n, x)
        /\ todo' = <<PutEntry(n, g, i, E), PutFat(n)>>
        /\ content' = [content EXCEPT ![n] = w]
        /\ dfat' = dfat /\ data' = data /\ writes' = writes
    <3>1. /\ fat' = g /\ handle' = [handle EXCEPT ![x].size = z]
          /\ current' = current \ Others(n, x)
          /\ dfat' = dfat /\ data' = data /\ writes' = writes
      BY <1>4 DEF Truncate
    <3>2. todo' = <<PutEntry(n, fat', i, CutEntry(EntryAt(i), z)), PutFat(n)>>
      BY <1>4 DEF Truncate, CutWrites
    <3>3. content' = [content EXCEPT ![n] = w]
      BY <1>4 DEF Truncate
    <3> QED BY <3>1, <3>2, <3>3
  <2>2. /\ Volume(fat, data, Known, content) /\ dfat = fat
        /\ IsDisk(data) /\ IsContent(content)
    BY <1>2 DEF AtRest, Volume, IsDisk, IsContent
  <2>3. s # 0 /\ h.size > 0
    BY <1>1, <1>4 DEF CutBreaks
  <2>4. h \in Known /\ h \in Handle
    BY <1>1, <1>2 DEF Known
  <2>5. /\ Holds(n, i, u) /\ h.size = EntryAt(i)[4] /\ EntryAt(i) = data[u]
        /\ h.size # 0 => s = EntryAt(i)[3]
    BY <1>2, <2>4, HandleFound DEF Holds
  <2>6. /\ s = data[u][3] /\ h.size = data[u][4] /\ u \in FileUnits(data) /\ data[u][2] = n
        /\ data[u][1] = "file"
    BY <2>3, <2>5 DEF Holds, FileUnits
  <2>7. n \in Names /\ h = [name |-> n, fnode |-> s, size |-> h.size, findex |-> i] /\ s \in Int /\ i \in Int
    BY <2>4 DEF Handle
  <2>8. handle' = [handle EXCEPT ![x] = r] /\ r \in Handle /\ r.name = n /\ r.fnode = s /\ r.size = z /\ r.findex = i
    <3> DEFINE t == [h EXCEPT !.size = z]
    <3>1. t = r
      BY <2>7
    <3>2. handle' = [handle EXCEPT ![x] = t]
      BY <2>1
    <3> HIDE DEF t
    <3>3. handle' = [handle EXCEPT ![x] = r]
      BY <3>1, <3>2
    <3> QED BY <2>7, <3>3 DEF Handle
  <2>9. z <= data[u][4] /\ g = Cut(s, z)
    BY <1>1, <2>6
  <2>10. Filled(content, content', n, w) /\ DOMAIN w = 0 .. z - 1 /\ \A o \in 0 .. z - 1 : w[o] = content[n][o]
    <3>1. DOMAIN content[n] = 0 .. data[u][4] - 1 /\ data[u][4] \in Nat
      BY <2>2, <2>6 DEF Volume, FileOK, Fits
    <3>2. \A o \in 0 .. z - 1 : o \in DOMAIN content[n]
      BY <2>9, <3>1
    <3> QED BY <2>1, <3>2 DEF Filled
  <2>11. E = Entry(n, IF z = 0 THEN 0 ELSE s, z)
    BY <2>5, <2>6 DEF CutEntry, Changed
  <2> HIDE DEF g, r, w, h, E
  <2>12. /\ handle' \in [Handles -> Handle] /\ current' \subseteq Handles
         /\ Known' \subseteq Handle
         /\ \A q \in Known' : q = r \/ (q \in Known /\ q.name # n)
    <3>1. handle' = [handle EXCEPT ![x] = r]
      BY <2>8
    <3>2. r \in Handle
      BY <2>8
    <3>3. current' = current \ Others(n, x)
      BY <2>1
    <3>4. handle \in [Handles -> Handle] /\ current \subseteq Handles /\ x \in Handles
      BY <1>2
    <3> HIDE DEF n
    <3> QED BY ONLY <3>1, <3>2, <3>3, <3>4, KnownOnly
  <2> HIDE DEF n
  <2>13. IsContent(content') /\ content'[n] = w /\ \A m \in Names \ {n} : content'[m] = content[m]
    <3>1. IsContent(content) /\ Filled(content, content', n, w) /\ n \in Names
      BY <2>2, <2>7, <2>10
    <3> QED BY <3>1, ContentPut
  <2> HIDE DEF i, s, u
  <2>14. /\ CutTo(fat, g, s, z) /\ u \in FileUnits(data) /\ data[u][2] = n
         /\ u \in DiskUnits /\ i \in DirIndexes(fat) /\ At(fat, Root, i) = u
         /\ Address(Path(g, Root), i, i) = u
    BY <1>2, <1>4, <2>3, <2>5, <2>6, <2>7, <2>9, CutFound
  <2>15. Puts(data, e, u, E)
    BY <2>2, <2>14, OverOne
  <2>16. e[u][1] = "file"
    BY <2>11, <2>15, EntryIs DEF Puts
  <2>17. todo' = <<PutUnits(n, us), PutFat(n)>>
    BY <2>1, <2>14 DEF PutEntry
  <2> HIDE DEF e
  <2>18. Puts(data, e, u, Entry(n, IF z = 0 THEN 0 ELSE data[u][3], z))
    BY <2>6, <2>11, <2>15
  <2>19. CutFile(fat, g, data, e, Known, Known', content, content', n, u, z)
    <3>1. \A q \in Known' : q.name = n =>
            /\ q.findex \in DirIndexes(fat) /\ At(fat, Root, q.findex) = u
            /\ e[u][1] = "file" /\ q.size = z /\ (z # 0 => q.fnode = data[u][3])
      BY <2>6, <2>8, <2>12, <2>14, <2>16
    <3>2. \A q \in Known' : q.name # n => q \in Known
      BY <2>8, <2>12
    <3>3. DOMAIN content'[n] = 0 .. z - 1 /\ \A o \in 0 .. z - 1 : content'[n][o] = content[n][o]
      BY <2>10, <2>13
    <3>4. CutTo(fat, g, data[u][3], z) /\ data[u][3] # 0
      BY <2>3, <2>6, <2>14
    <3> QED BY <2>2, <2>7, <2>9, <2>12, <2>13, <2>14, <2>18, <3>1, <3>2, <3>3, <3>4 DEF CutFile
  <2>20. /\ Volume(g, e, Known', content')
         /\ Safe(fat, data, content', {n}) /\ Safe(fat, e, content', {n}) /\ Safe(g, e, content', {n})
    BY <2>19, CutSafe
  <2>21. Leads(<<PutUnits(n, us), PutFat(n)>>, fat, data, g, e, content', n)
    <3> DEFINE C == content'
    <3>1. Safe(fat, data, C, {n}) /\ Safe(fat, e, C, {n}) /\ Safe(g, e, C, {n}) /\ e = Over(us, data)
      BY <2>20 DEF e
    <3> HIDE DEF C, us
    <3>2. Leads(<<PutUnits(n, us), PutFat(n)>>, fat, data, g, e, C, n)
      BY <3>1, LeadsEntry
    <3> QED BY <3>2 DEF C
  <2>22. Leads(todo', dfat', data', fat', e, content', n)
    BY <2>1, <2>2, <2>17, <2>21
  <2>23. Volume(fat', e, Known', content')
    BY <2>1, <2>20
  <2> QED BY <1>2, <2>1, <2>12, <2>22, <2>23 DEF IInv
<1> QED BY <1>3, <1>4

-----------------------------------------------------------------------------
\* A file is deleted.

(* A write before writes. *)
LEMMA ConsBefore ==
  ASSUME NEW w, NEW t, IsSeq(t)
  PROVE  Cons(<<w>> \o t, w, t)
<1>1. PICK S : t \in Seq(S)
  BY DEF IsSeq
<1> DEFINE T == S \cup {w}
           s == <<w>> \o t
<1>2. t \in Seq(T) /\ <<w>> \in Seq(T)
  <2>1. t \in Seq(T)
    BY <1>1
  <2> QED BY <2>1
<1>3. Len(<<w>>) = 1 /\ <<w>>[1] = w
  OBVIOUS
<1> HIDE DEF T
<1>4. s \in Seq(T) /\ Len(s) = Len(t) + 1 /\ s[1] = w /\ \A k \in 1 .. Len(t) : s[k + 1] = t[k]
  <2>1. s \in Seq(T) /\ Len(s) = 1 + Len(t)
    BY <1>2, <1>3
  <2>2. \A k \in 1 .. 1 + Len(t) : s[k] = IF k <= 1 THEN <<w>>[k] ELSE t[k - 1]
    BY <1>2, <1>3
  <2>3. Len(t) \in Nat
    BY <1>1
  <2>4. s[1] = w
    <3>1. 1 \in 1 .. 1 + Len(t)
      BY <2>3
    <3> QED BY <1>3, <2>2, <3>1
  <2>5. ASSUME NEW k \in 1 .. Len(t)
        PROVE  s[k + 1] = t[k]
    <3>1. k + 1 \in 1 .. 1 + Len(t) /\ ~ (k + 1 <= 1) /\ k + 1 - 1 = k
      BY <2>3
    <3> QED BY <2>2, <3>1
  <2> QED BY <2>1, <2>3, <2>4, <2>5
<1> QED BY <1>1, <1>4 DEF Cons, IsSeq

(* The first write of some is the first of those with more behind. *)
LEMMA ConsApp ==
  ASSUME NEW x, NEW w, NEW y, Cons(x, w, y), NEW t, IsSeq(t)
  PROVE  Cons(x \o t, w, y \o t)
<1>1. PICK R : x \in Seq(R)
  BY DEF Cons, IsSeq
<1>2. PICK S : y \in Seq(S)
  BY DEF Cons, IsSeq
<1>3. PICK U : t \in Seq(U)
  BY DEF IsSeq
<1> DEFINE T == R \cup S \cup U
           l == Len(y)
           m == Len(t)
           X == x \o t
           Y == y \o t
<1>4. x \in Seq(T) /\ y \in Seq(T) /\ t \in Seq(T)
  BY <1>1, <1>2, <1>3
<1>5. Len(x) = l + 1 /\ x[1] = w /\ \A k \in 1 .. l : x[k + 1] = y[k]
  BY DEF Cons
<1> HIDE DEF T
<1>6. l \in Nat /\ m \in Nat
  BY <1>4
<1>7. X \in Seq(T) /\ Len(X) = Len(x) + m /\ \A k \in 1 .. Len(x) + m : X[k] = IF k <= Len(x) THEN x[k] ELSE t[k - Len(x)]
  BY <1>4
<1>8. Y \in Seq(T) /\ Len(Y) = l + m /\ \A k \in 1 .. l + m : Y[k] = IF k <= l THEN y[k] ELSE t[k - l]
  BY <1>4
<1> HIDE DEF X, Y, l, m
<1>9. Len(X) = Len(Y) + 1
  BY <1>5, <1>6, <1>7, <1>8
<1>10. X[1] = w
  <2>1. 1 \in 1 .. Len(x) + m /\ 1 <= Len(x)
    BY <1>5, <1>6
  <2> QED BY <1>5, <1>7, <2>1
<1>11. ASSUME NEW k \in 1 .. Len(Y)
       PROVE  X[k + 1] = Y[k]
  <2>1. k \in 1 .. l + m /\ k + 1 \in 1 .. Len(x) + m
    BY <1>5, <1>6, <1>8
  <2>2. CASE k <= l
    <3>1. k \in 1 .. l /\ k + 1 <= Len(x)
      BY <1>5, <1>6, <2>1, <2>2
    <3>2. X[k + 1] = x[k + 1] /\ Y[k] = y[k]
      BY <1>7, <1>8, <2>1, <2>2, <3>1
    <3> QED BY <1>5, <3>1, <3>2
  <2>3. CASE ~ (k <= l)
    <3>1. ~ (k + 1 <= Len(x)) /\ k + 1 - Len(x) = k - l
      BY <1>5, <1>6, <2>1, <2>3
    <3> QED BY <1>7, <1>8, <2>1, <2>3, <3>1
  <2> QED BY <2>2, <2>3
<1> QED BY <1>7, <1>8, <1>9, <1>10, <1>11 DEF Cons, IsSeq, X, Y

(* Two and three writes. *)
LEMMA Tuples ==
  ASSUME NEW a, NEW b, NEW c
  PROVE  /\ IsSeq(<<a, b>>) /\ IsSeq(<<a, b, c>>)
         /\ <<a, b, c>> = <<a>> \o <<b, c>>
         /\ <<>> \o <<a, b, c>> = <<a, b, c>>
<1>1. /\ <<a, b>> \in Seq({a, b}) /\ <<a, b, c>> \in Seq({a, b, c})
  OBVIOUS
<1>2. <<a, b, c>> = <<a>> \o <<b, c>>
  OBVIOUS
<1>3. <<>> \o <<a, b, c>> = <<a, b, c>>
  OBVIOUS
<1> QED BY <1>1, <1>2, <1>3 DEF IsSeq

(* A cut and then one more entry, each with the table behind it. *)
LEMMA LeadsTwice ==
  ASSUME NEW f, NEW g, NEW d, NEW us, NEW vs, NEW d1, d1 = Over(us, d), NEW C, NEW n,
         Safe(f, d, C, {n}), Safe(f, d1, C, {n}), Safe(g, d1, C, {n}), Safe(g, Over(vs, d1), C, {n})
  PROVE  Leads(<<PutUnits(n, us), PutFat(n)>> \o <<PutUnits(n, vs), PutFat(n)>>,
               f, d, g, Over(vs, d1), C, n)
<1> DEFINE e == Over(vs, d1)
           a == PutUnits(n, us)
           w == PutFat(n)
           t == <<PutUnits(n, vs), w>>
           r == <<w>> \o t
           q == <<a, w>> \o t
<1>1. Leads(t, g, d1, g, e, C, n)
  BY LeadsEntry
<1>2. FatAfter(w, f, g) = g /\ DataAfter(w, d1) = d1 /\ w.name = n
  <2>1. w.kind = "fat" /\ w.name = n
    BY WriteDoes
  <2> QED BY <2>1 DEF FatAfter, DataAfter
<1>3. IsSeq(t)
  BY <1>1 DEF Leads
<1>4. a = PutUnits(n, us)
  OBVIOUS
<1> HIDE DEF e, a, t, w
<1>5. Leads(r, f, d1, g, e, C, n)
  <2>1. Leads(t, FatAfter(w, f, g), DataAfter(w, d1), g, e, C, n)
    BY <1>1, <1>2
  <2>2. Cons(r, w, t)
    BY <1>3, ConsBefore
  <2> HIDE DEF r
  <2> QED BY <1>2, <2>1, <2>2, LeadsMore
<1>6. Cons(q, a, r)
  <2> DEFINE x == <<a, w>>
             y == <<w>>
  <2>1. Cons(x, a, y)
    BY Pairs
  <2> HIDE DEF x, y
  <2>2. Cons(x \o t, a, y \o t)
    BY <1>3, <2>1, ConsApp
  <2> QED BY <2>2 DEF x, y
<1> HIDE DEF r, q
<1>7. Leads(q, f, d, g, e, C, n)
  <2>1. Leads(r, f, Over(us, d), g, e, C, n)
    BY <1>5
  <2> QED BY <1>4, <1>6, <2>1, LeadsUnits
<1> QED BY <1>7 DEF e, a, t, q, w

(* fat32Delete keeps the invariant: between its writes the entry is there, of an
   empty file. *)
LEMMA DeleteKeeps ==
  ASSUME SecPerClus = 1, IInv, NEW n \in Names, Delete(n)
  PROVE  IInv'
<1>1. todo = <<>> /\ Found(n) # {}
  BY DEF Delete, Idle
<1>2. AtRest /\ writes \in Nat /\ handle \in [Handles -> Handle] /\ current \subseteq Handles
  BY <1>1, RestIs DEF IInv
<1>3. PICK i : i \in Found(n)
  BY <1>1
<1> DEFINE u == At(fat, Root, i)
           s == EntryAt(i)[3]
           z == 0
           g == Cut(s, 0)
           E == CutEntry(EntryAt(i), 0)
           us == OneUnit(u, E)
           d1 == Over(us, data)
           D == NoData
           vs == OneUnit(u, D)
           e == Over(vs, d1)
<1>4. First(Found(n)) = i /\ Holds(n, i, u)
  BY <1>2, <1>3, FoundOne
<1>5. CASE CutBreaks(s, 0)
  <2>1. Breaks(NoIndex)
    BY <1>4, <1>5 DEF Delete
  <2> QED BY <2>1, BreaksKeeps
<1>6. CASE ~CutBreaks(s, 0)
  <2>1. /\ fat' = g /\ handle' = handle /\ current' = {y \in current : handle[y].name # n}
        /\ todo' = <<PutEntry(n, g, i, E), PutFat(n)>> \o <<PutEntry(n, g, i, NoData), PutFat(n)>>
        /\ content' = [content EXCEPT ![n] = Empty]
        /\ dfat' = dfat /\ data' = data /\ writes' = writes
    <3>1. /\ fat' = g /\ handle' = handle /\ current' = {y \in current : handle[y].name # n}
          /\ content' = [content EXCEPT ![n] = Empty]
          /\ dfat' = dfat /\ data' = data /\ writes' = writes
      BY <1>4, <1>6 DEF Delete
    <3>2. todo' = <<PutEntry(n, fat', i, CutEntry(EntryAt(i), 0)), PutFat(n)>>
                  \o <<PutEntry(n, fat', i, NoData), PutFat(n)>>
      BY <1>4, <1>6 DEF Delete, CutWrites
    <3> QED BY <3>1, <3>2
  <2>2. /\ Volume(fat, data, Known, content) /\ dfat = fat
        /\ IsDisk(data) /\ IsContent(content)
    BY <1>2 DEF AtRest, Volume, IsDisk, IsContent
  <2>3. s # 0 /\ s = data[u][3] /\ u \in FileUnits(data) /\ data[u][4] \in Nat /\ z <= data[u][4] /\ z \in Nat /\ ~CutBreaks(s, z)
    <3>1. s # 0 /\ ~CutBreaks(s, z)
      BY <1>6 DEF CutBreaks
    <3>2. s = data[u][3] /\ u \in FileUnits(data)
      BY <1>4 DEF Holds
    <3>3. data[u][4] \in Nat
      BY <2>2, <3>2 DEF Volume, FileOK
    <3> QED BY <3>1, <3>2, <3>3
  <2>4. IsContent(content') /\ content'[n] = Empty /\ \A m \in Names \ {n} : content'[m] = content[m]
    <3> DEFINE w == Empty
    <3>1. IsContent(content) /\ Filled(content, content', n, w)
      BY <2>1, <2>2 DEF Filled
    <3> HIDE DEF w
    <3>2. IsContent(content') /\ content'[n] = w /\ \A m \in Names \ {n} : content'[m] = content[m]
      BY <3>1, ContentPut
    <3> QED BY <3>2 DEF w
  <2>5. DOMAIN content'[n] = 0 .. z - 1 /\ \A o \in 0 .. z - 1 : content'[n][o] = content[n][o]
    <3>1. 0 .. z - 1 = {} /\ DOMAIN Empty = {}
      BY DEF Empty
    <3> QED BY <2>4, <3>1
  <2>6. g = Cut(s, z)
    OBVIOUS
  <2>7. D = NoData /\ E = Entry(n, IF z = 0 THEN 0 ELSE s, z)
    <3>1. EntryAt(i) = data[u] /\ data[u][1] = "file" /\ data[u][2] = n
      BY <1>4 DEF Holds, FileUnits
    <3> QED BY <3>1 DEF CutEntry, Changed
  <2>8. Holds(n, i, u)
    BY <1>4
  <2>9. /\ handle' \in [Handles -> Handle] /\ current' \subseteq Handles
        /\ Known' \subseteq Handle /\ \A q \in Known' : q \in Known /\ q.name # n
    BY <1>2, <2>1 DEF Known
  <2> HIDE DEF g, u, s, z, D, E
  <2>10. /\ CutTo(fat, g, s, z) /\ u \in FileUnits(data) /\ data[u][2] = n
         /\ u \in DiskUnits /\ i \in DirIndexes(fat) /\ At(fat, Root, i) = u
         /\ Address(Path(g, Root), i, i) = u
    BY <1>2, <2>3, <2>6, <2>8, CutFound
  <2>11. Puts(data, d1, u, E)
    BY <2>2, <2>10, OverOne
  <2>12. Puts(d1, e, u, D)
    <3>1. IsDisk(d1)
      BY <2>11 DEF Puts
    <3> HIDE DEF d1
    <3> QED BY <2>10, <3>1, OverOne
  <2>13. todo' = <<PutUnits(n, us), PutFat(n)>> \o <<PutUnits(n, vs), PutFat(n)>>
    <3>1. PutEntry(n, g, i, E) = PutUnits(n, us) /\ PutEntry(n, g, i, NoData) = PutUnits(n, vs)
      BY <2>10 DEF PutEntry, D
    <3> QED BY <2>1, <3>1
  <2> HIDE DEF e
  <2>14. Puts(data, e, u, D)
    BY <2>11, <2>12 DEF Puts
  <2> HIDE DEF d1
  <2>15. z = 0
    BY DEF z
  <2>16. \A q \in Known' : q.name # n /\ q \in Known
    BY <2>9
  <2>17. CutTo(fat, g, data[u][3], z) /\ data[u][3] # 0
    BY <2>3, <2>10
  <2>18. Puts(data, d1, u, Entry(n, IF z = 0 THEN 0 ELSE data[u][3], z)) /\ Puts(data, e, u, NoData)
    BY <2>3, <2>7, <2>11, <2>14
  <2>19. CutFile(fat, g, data, d1, Known, Known', content, content', n, u, z)
    BY <2>2, <2>3, <2>4, <2>5, <2>9, <2>10, <2>16, <2>17, <2>18 DEF CutFile
  <2>20. CutFile(fat, g, data, e, Known, Known', content, content', n, u, z)
    BY <2>2, <2>3, <2>4, <2>5, <2>9, <2>10, <2>15, <2>16, <2>17, <2>18 DEF CutFile
  <2>21. Safe(fat, data, content', {n}) /\ Safe(fat, d1, content', {n}) /\ Safe(g, d1, content', {n})
    BY <2>19, CutSafe
  <2>22. Volume(g, e, Known', content') /\ Safe(g, e, content', {n})
    BY <2>20, CutSafe
  <2>23. d1 = Over(us, data) /\ e = Over(vs, d1)
    BY DEF d1, e
  <2> HIDE DEF us, vs
  <2>24. Leads(<<PutUnits(n, us), PutFat(n)>> \o <<PutUnits(n, vs), PutFat(n)>>, fat, data, g, e, content', n)
    <3> DEFINE C == content'
    <3>1. /\ Safe(fat, data, C, {n}) /\ Safe(fat, d1, C, {n}) /\ Safe(g, d1, C, {n})
          /\ Safe(g, Over(vs, d1), C, {n}) /\ d1 = Over(us, data)
      BY <2>21, <2>22, <2>23
    <3> HIDE DEF C
    <3>2. Leads(<<PutUnits(n, us), PutFat(n)>> \o <<PutUnits(n, vs), PutFat(n)>>,
                fat, data, g, Over(vs, d1), C, n)
      BY <3>1, LeadsTwice
    <3> QED BY <2>23, <3>2 DEF C
  <2>25. Leads(todo', dfat', data', fat', e, content', n)
    BY <2>1, <2>2, <2>13, <2>24
  <2>26. Volume(fat', e, Known', content')
    BY <2>1, <2>22
  <2> QED BY <1>2, <2>1, <2>9, <2>25, <2>26 DEF IInv
<1> QED BY <1>5, <1>6

-----------------------------------------------------------------------------
\* A file is written: its clusters,

(* A smaller offset is in no later cluster. *)
LEMMA DividedLess ==
  ASSUME NEW x \in Nat, NEW y \in Nat, x <= y
  PROVE  x \div ClusterUnits \in Nat /\ y \div ClusterUnits \in Nat
         /\ x \div ClusterUnits <= y \div ClusterUnits
<1> DEFINE m == ClusterUnits
           q == x \div m
           r == y \div m
<1>1. m \in Nat \ {0}
  BY Units
<1> HIDE DEF m
<1>2. q \in Nat /\ x % m \in 0 .. m - 1 /\ q * m \in Nat /\ x = q * m + (x % m)
  BY <1>1, Divided
<1>3. r \in Nat /\ y % m \in 0 .. m - 1 /\ r * m \in Nat /\ y = r * m + (y % m)
  BY <1>1, Divided
<1> HIDE DEF q, r
<1>4. r < q => r * m + m <= q * m
  BY <1>1, <1>2, <1>3, Products
<1> DEFINE Q == q * m
           P == r * m
<1>5. Q \in Nat /\ P \in Nat /\ x = Q + (x % m) /\ y = P + (y % m) /\ (r < q => P + m <= Q)
  BY <1>2, <1>3, <1>4
<1> HIDE DEF Q, P
<1>6. ~ (r < q)
  BY <1>1, <1>2, <1>3, <1>5
<1> QED BY <1>2, <1>3, <1>6 DEF q, r, m

\* The table g has the clusters for z units of the file from c: c = 0 before
\* it has one, and st then.
Allocates(f, g, S, c, st, z) ==
  /\ Tree(g, With(S, st)) /\ st # 0 /\ st \notin S \ {c} /\ st # Root
  /\ c # 0 => st = c /\ Begins(f, g, c, Length(f, c))
  /\ c = 0 => st \in Unused(f)
  /\ \A d \in S \ {st} : Good(f, d) /\ Same(f, g, d)
  /\ Length(g, st) * ClusterUnits >= z /\ Length(g, st) <= z \div ClusterUnits + 1

(* A chain grown to fit z units is allocated for them. *)
LEMMA GrownAllocates ==
  ASSUME NEW f, NEW g, NEW S, Tree(f, S), NEW c \in S, c # Root, c # 0, NEW k \in Nat, GrownBy(f, g, S, c, k),
         NEW z, Length(g, c) * ClusterUnits >= z, Length(g, c) <= z \div ClusterUnits + 1
  PROVE  Allocates(f, g, S, c, c, z)
<1>1. Good(f, c) /\ Length(f, c) \in 1 .. Clusters /\ \A d \in S : Good(f, d)
  BY TreeParts DEF Tree
<1>2. Tree(g, With(S, c))
  <2>1. With(S, c) = S
    BY DEF With
  <2> QED BY <2>1 DEF GrownBy
<1>3. Begins(f, g, c, Length(f, c))
  BY <1>1 DEF Begins, GrownBy
<1>4. \A d \in S \ {c} : Good(f, d) /\ Same(f, g, d)
  BY <1>1 DEF GrownBy
<1> DEFINE L == Length(g, c)
<1>5. L * ClusterUnits >= z /\ L <= z \div ClusterUnits + 1
  OBVIOUS
<1> HIDE DEF L
<1> QED BY <1>2, <1>3, <1>4, <1>5 DEF Allocates, L

\* What the code knows of the file it extends.
Writes(S, h, c, y, end) ==
  /\ Tree(fat, S) /\ Root \in S /\ h.fnode = c /\ h.size = y /\ y \in Nat /\ end \in Nat \ {0}
  /\ c = 0 <=> y = 0
  /\ c # 0 => /\ c \in S \ {Root}
              /\ Length(fat, c) * ClusterUnits >= y /\ Length(fat, c) <= y \div ClusterUnits + 1
  /\ Needed(h, end) <= Cardinality(Unused(fat))

(* A write to an empty file begins a chain and grows it to the clusters needed. *)
LEMMA AllocatedNew ==
  ASSUME NEW S, NEW h, NEW end, Writes(S, h, 0, 0, end)
  PROVE  Allocates(fat, Allocated(h, end), S, 0, Start(h), end)
<1> DEFINE q == end \div ClusterUnits
           st == Fresh(fat)
           f1 == [fat EXCEPT ![st] = EOF]
           R == With(S, st)
           g == Allocated(h, end)
<1>1. Tree(fat, S) /\ Root \in S /\ h.fnode = 0 /\ end \in Nat /\ Needed(h, end) <= Cardinality(Unused(fat))
  BY DEF Writes
<1>2. /\ q \in Nat /\ (q + 1) * ClusterUnits >= end
      /\ Cardinality(Unused(fat)) \in Nat /\ q + 1 <= Cardinality(Unused(fat))
  BY <1>1, SizeClusters, UnusedIs DEF Needed
<1>3. st \in Unused(fat)
  <2>1. q \in Nat /\ Cardinality(Unused(fat)) \in Nat /\ q + 1 <= Cardinality(Unused(fat))
    BY <1>2
  <2> HIDE DEF q
  <2>2. Cardinality(Unused(fat)) # 0
    BY <2>1
  <2>3. Unused(fat) # {}
    BY <2>2, FS_EmptySet
  <2> QED BY <2>3, FreshIs
<1>4. g = Extended(f1, st, q) /\ Start(h) = st
  BY <1>1 DEF Allocated, Start
<1>5. st \in Cluster /\ st # 0
  BY <1>3, UnusedIs DEF Cluster
<1>6. fat \in Table
  BY <1>1 DEF Tree
<1> HIDE DEF st, q, g
<1>7. f1 \in Table /\ f1[st] = EOF /\ Agree(fat, f1, Cluster \ {st})
  BY <1>5, <1>6 DEF Table, Agree
<1> HIDE DEF f1
<1>8. /\ Tree(f1, R) /\ st \notin S /\ Length(f1, st) = 1 /\ Path(f1, st)[0] = st
      /\ \A d \in S : Same(fat, f1, d)
      /\ Cardinality(Unused(f1)) = Cardinality(Unused(fat)) - 1
  <2>1. f1 \in Table
    BY <1>7
  <2>2. f1[st] = EOF /\ Agree(fat, f1, Cluster \ {st}) /\ Tree(fat, S)
    BY <1>1, <1>7
  <2>3. Begun(fat, f1, S, st)
    BY <1>3, <2>1, <2>2 DEF Begun
  <2> QED BY <2>3, TreeNew
<1>9. g = Longer(f1, st, q)
  <2>1. Length(f1, st) - 1 = 0
    BY <1>8
  <2> QED BY <1>4, <1>8, <2>1 DEF Longer
<1>10. st \in R /\ q <= Cardinality(Unused(f1))
  <2>1. st \in R
    BY DEF With
  <2> QED BY <1>2, <1>8, <2>1
<1> HIDE DEF R
<1>11. GrownBy(f1, g, R, st, q)
  BY <1>2, <1>8, <1>9, <1>10, LongerIs
<1>12. Length(g, st) = q + 1
  BY <1>2, <1>8, <1>11 DEF GrownBy
<1>13. Tree(g, R)
  BY <1>11 DEF GrownBy
<1>14. ASSUME NEW d \in S \ {st}
       PROVE  Good(fat, d) /\ Same(fat, g, d)
  <2>1. Good(fat, d)
    BY <1>1 DEF Tree
  <2>2. Same(fat, f1, d)
    BY <1>8
  <2>3. Same(f1, g, d)
    <3>1. d \in R \ {st}
      BY DEF R, With
    <3> QED BY <1>11, <3>1 DEF GrownBy
  <2> QED BY <2>1, <2>2, <2>3 DEF Same
<1>15. Length(g, st) * ClusterUnits >= end /\ Length(g, st) <= end \div ClusterUnits + 1
  BY <1>2, <1>12 DEF q
<1>16. Allocates(fat, g, S, 0, st, end)
  BY <1>1, <1>3, <1>5, <1>8, <1>13, <1>14, <1>15 DEF Allocates, R
<1> QED BY <1>4, <1>16 DEF g

(* A write to a file with clusters adds those its chain has not yet; a chain as
   ChainFits says it is makes that number one of Nat. *)
LEMMA AllocatedMore ==
  ASSUME NEW S, NEW h, NEW c, NEW y, NEW end, Writes(S, h, c, y, end), c # 0
  PROVE  /\ Allocates(fat, Allocated(h, end), S, c, Start(h), IF y < end THEN end ELSE y)
<1> DEFINE q == end \div ClusterUnits
           L == Length(fat, c)
           k == Needed(h, end)
           g == Allocated(h, end)
           z == IF y < end THEN end ELSE y
<1>1. /\ Tree(fat, S) /\ Root \in S /\ h.fnode = c /\ h.size = y /\ y \in Nat /\ end \in Nat
      /\ c \in S /\ c # Root /\ k <= Cardinality(Unused(fat))
      /\ L * ClusterUnits >= y /\ L <= y \div ClusterUnits + 1
  BY DEF Writes
<1>2. L \in 1 .. Clusters /\ Good(fat, c)
  BY <1>1, TreeParts
<1>3. /\ q \in Nat /\ (q + 1) * ClusterUnits >= end
  BY <1>1, SizeClusters
<1>4. k = IF y < end THEN q - (L - 1) ELSE 0
  BY <1>1 DEF Needed
<1>5. k \in Nat
  <2>1. CASE y < end
    <3>1. y \div ClusterUnits <= q /\ y \div ClusterUnits \in Nat
      BY <1>1, <2>1, DividedLess
    <3> HIDE DEF q, L, k
    <3>2. L - 1 <= q
      BY <1>1, <1>2, <1>3, <3>1
    <3> QED BY <1>2, <1>3, <1>4, <2>1, <3>2
  <2>2. CASE ~ (y < end)
    BY <1>4, <2>2
  <2> QED BY <2>1, <2>2
<1>6. g = Longer(fat, c, k) /\ Start(h) = c
  BY <1>1 DEF Allocated, Start
<1> HIDE DEF k, g
<1>7. GrownBy(fat, g, S, c, k)
  BY <1>1, <1>5, <1>6, LongerIs
<1>8. Length(g, c) = L + k
  BY <1>7 DEF GrownBy
<1>9. Length(g, c) * ClusterUnits >= z /\ Length(g, c) <= z \div ClusterUnits + 1
  <2>1. CASE y < end
    <3> HIDE DEF q, L
    <3>1. Length(g, c) = q + 1
      BY <1>2, <1>3, <1>4, <1>8, <2>1
    <3> QED BY <1>3, <2>1, <3>1 DEF q
  <2>2. CASE ~ (y < end)
    <3>1. Length(g, c) = L
      BY <1>2, <1>4, <1>8, <2>2
    <3> QED BY <1>1, <2>2, <3>1
  <2> QED BY <2>1, <2>2
<1> HIDE DEF z
<1>10. Allocates(fat, g, S, c, c, z)
  BY <1>1, <1>5, <1>7, <1>9, GrownAllocates
<1> QED BY <1>6, <1>10 DEF g, z

-----------------------------------------------------------------------------
\* its data and its entry,

\* The clusters the file n with entry u has, and its size.
Held(d, u) == d[u][3]
Size(d, u) == d[u][4]

\* E is an entry for n, with cluster k and size z.
IsEntry(E, n, k, z) == E[1] = "file" /\ E[2] = n /\ E[3] = k /\ E[4] = z

\* The file n with entry u is written from s to end - 1 with v: table g has
\* clusters for it from st on, d1 its entry, and e the units us as well.
WriteFile(f, g, d, d1, e, n, u, s, end, v, st, z, us) ==
  /\ n \in Names /\ u \in FileUnits(d) /\ d[u][2] = n
  /\ s \in Nat /\ end \in Nat /\ s < end /\ z \in Nat /\ end <= z /\ Size(d, u) <= z /\ v[1] # "file"
  /\ Allocates(f, g, Roots(d), Held(d, u), st, z)
  /\ Puts(d, d1, u, d1[u]) /\ IsEntry(d1[u], n, st, z)
  /\ e = Over(us, d1) /\ DOMAIN us = {At(g, st, o) : o \in s .. end - 1}
  /\ \A x \in DOMAIN us : us[x] = v

\* What its caller knows of it then.
WriteKnown(f, h, j, c, b, n, u, s, end, v, st, z) ==
  /\ j \subseteq Handle /\ IsContent(b)
  /\ \A m \in Names \ {n} : b[m] = c[m]
  /\ DOMAIN b[n] = 0 .. z - 1
  /\ \A o \in 0 .. z - 1 : b[n][o] = IF o \in s .. end - 1 THEN v
                                     ELSE IF o \in DOMAIN c[n] THEN c[n][o] ELSE NoData
  /\ \A q \in j : q.name # n => q \in h
  /\ \A q \in j : q.name = n => /\ q.findex \in DirIndexes(f) /\ At(f, Root, q.findex) = u
                                /\ q.size = z /\ q.fnode = st

\* The units the write touches.

(* A write's data go to units of the file's own clusters. *)
LEMMA WriteUnits ==
  ASSUME NEW f, NEW g, NEW d, NEW d1, NEW e, NEW h, NEW c, NEW n, NEW u, NEW s, NEW end, NEW v, NEW st, NEW z, NEW us,
         Volume(f, d, h, c), WriteFile(f, g, d, d1, e, n, u, s, end, v, st, z, us)
  PROVE  /\ Root # st /\ Good(g, Root) /\ Good(g, st) /\ DirKept(f, g)
         /\ Owner(u) \in ChainOf(g, Root) /\ ChainOf(g, Root) \cap ChainOf(g, st) = {}
         /\ \A o \in 0 .. z - 1 : o \in Span(g, st)
         /\ \A x \in DOMAIN us : x \in DiskUnits /\ Owner(x) \in ChainOf(g, st)
         /\ IsDisk(e)
         /\ \A x \in DiskUnits : e[x] = IF x \in DOMAIN us THEN v ELSE d1[x]
<1> DEFINE S == Roots(d)
<1>1. /\ Tree(g, With(S, st)) /\ st # Root /\ u \in FileUnits(d)
      /\ \A x \in S \ {st} : Good(f, x) /\ Same(f, g, x)
      /\ Length(g, st) * ClusterUnits >= z /\ z \in Nat /\ end <= z /\ s \in Nat /\ end \in Nat
      /\ Puts(d, d1, u, d1[u]) /\ IsEntry(d1[u], n, st, z)
      /\ e = Over(us, d1) /\ DOMAIN us = {At(g, st, o) : o \in s .. end - 1}
      /\ \A x \in DOMAIN us : us[x] = v
  BY DEF WriteFile, Allocates
<1>2. Root \in S
  BY DEF Roots
<1> HIDE DEF S
<1>3. Root \in With(S, st) /\ st \in With(S, st)
  BY <1>2 DEF With
<1>4. Good(g, Root) /\ Good(g, st) /\ Good(f, Root) /\ Same(f, g, Root)
  BY <1>1, <1>2, <1>3, TreeParts
<1>5. ChainOf(g, Root) \cap ChainOf(g, st) = {}
  BY <1>1, <1>3 DEF Tree
<1>6. DirKept(f, g)
  BY <1>4, DirSame
<1>7. Owner(u) \in ChainOf(g, Root)
  BY <1>1, <1>6 DEF DirKept, Volume, FileOK
<1>8. \A o \in 0 .. z - 1 : o \in Span(g, st)
  BY <1>1, <1>4, InSpan
<1>9. ASSUME NEW x \in DOMAIN us
      PROVE  x \in DiskUnits /\ Owner(x) \in ChainOf(g, st)
  <2>1. PICK o \in s .. end - 1 : x = At(g, st, o)
    BY <1>1
  <2>2. o \in 0 .. z - 1
    BY <1>1
  <2>3. o \in Span(g, st)
    BY <1>8, <2>2
  <2> QED BY <1>4, <2>1, <2>3, AtIs
<1>10. /\ IsDisk(e)
       /\ \A x \in DiskUnits : e[x] = IF x \in DOMAIN us THEN v ELSE d1[x]
  <2>1. DOMAIN d1 = DiskUnits
    BY <1>1 DEF Puts, IsDisk
  <2>2. DOMAIN us \cup DiskUnits = DiskUnits
    BY <1>9
  <2>3. e = [x \in DiskUnits |-> IF x \in DOMAIN us THEN us[x] ELSE d1[x]]
    BY <1>1, <2>1, <2>2 DEF Over
  <2> QED BY <1>1, <2>3 DEF IsDisk
<1> QED BY <1>1, <1>4, <1>5, <1>6, <1>7, <1>8, <1>9, <1>10

(* The files there are then. *)
LEMMA WriteFiles ==
  ASSUME NEW f, NEW g, NEW d, NEW d1, NEW e, NEW h, NEW c, NEW n, NEW u, NEW s, NEW end, NEW v, NEW st, NEW z, NEW us,
         Volume(f, d, h, c), WriteFile(f, g, d, d1, e, n, u, s, end, v, st, z, us)
  PROVE  /\ FileUnits(d1) = FileUnits(d) /\ FileUnits(e) = FileUnits(d)
         /\ \A x \in FileUnits(d) : e[x] = d1[x]
         /\ \A x \in FileUnits(d) \ {u} : e[x] = d[x]
         /\ IsEntry(e[u], n, st, z)
<1> DEFINE E == d1[u]
<1>1. u \in FileUnits(d) /\ v[1] # "file" /\ Puts(d, d1, u, E) /\ IsEntry(E, n, st, z)
  BY DEF WriteFile
<1>2. E[1] = "file"
  BY <1>1 DEF IsEntry
<1>3. d1[u] = E
  OBVIOUS
<1> HIDE DEF E
<1>4. /\ FileUnits(d1) \ {u} = FileUnits(d) \ {u}
      /\ u \in FileUnits(d1) <=> E[1] = "file"
      /\ \A x \in FileUnits(d) \ {u} : d1[x] = d[x]
  BY <1>1, PutsFiles
<1>5. FileUnits(d1) = FileUnits(d)
  BY <1>1, <1>2, <1>4
<1>6. /\ DirKept(f, g) /\ ChainOf(g, Root) \cap ChainOf(g, st) = {}
      /\ \A x \in DOMAIN us : x \in DiskUnits /\ Owner(x) \in ChainOf(g, st)
      /\ \A x \in DiskUnits : e[x] = IF x \in DOMAIN us THEN v ELSE d1[x]
  BY WriteUnits
<1>7. \A x \in FileUnits(d) : x \in DiskUnits /\ Owner(x) \in ChainOf(g, Root)
  BY <1>6 DEF Volume, FileOK, DirKept, FileUnits
<1>8. \A x \in FileUnits(d) : x \notin DOMAIN us /\ e[x] = d1[x]
  BY <1>6, <1>7
<1>9. FileUnits(e) = FileUnits(d1)
  <2>1. \A x \in DiskUnits : e[x][1] = "file" <=> d1[x][1] = "file"
    <3> SUFFICES ASSUME NEW x \in DiskUnits
                 PROVE  e[x][1] = "file" <=> d1[x][1] = "file"
      OBVIOUS
    <3>1. CASE x \in DOMAIN us
      <4>1. e[x] = v /\ x \notin FileUnits(d1)
        BY <1>5, <1>6, <1>8, <3>1
      <4> QED BY <1>1, <4>1 DEF FileUnits
    <3>2. CASE x \notin DOMAIN us
      BY <1>6, <3>2
    <3> QED BY <3>1, <3>2
  <2> QED BY <2>1 DEF FileUnits
<1> QED BY <1>1, <1>3, <1>4, <1>5, <1>8, <1>9 DEF E

(* The clusters files start in then. *)
LEMMA WriteRoots ==
  ASSUME NEW f, NEW g, NEW d, NEW d1, NEW e, NEW h, NEW c, NEW n, NEW u, NEW s, NEW end, NEW v, NEW st, NEW z, NEW us,
         Volume(f, d, h, c), WriteFile(f, g, d, d1, e, n, u, s, end, v, st, z, us)
  PROVE  /\ Roots(e) = With(Roots(d), st)
         /\ \A x \in FileUnits(d) \ {u} : d[x][2] # n /\ (d[x][3] # 0 => d[x][3] # st)
         /\ st # 0 /\ st # Root /\ (st \in Roots(d) \ {Root} \/ st \in Unused(f))
<1> DEFINE S == Roots(d)
           y == Held(d, u)
           R == With(S, st)
<1>1. /\ u \in FileUnits(d) /\ d[u][2] = n /\ st # 0 /\ st # Root /\ st \notin S \ {y}
      /\ (y # 0 => st = y) /\ (y = 0 => st \in Unused(f))
  BY DEF WriteFile, Allocates
<1>2. Listing(d) /\ Root \notin Starts(d) /\ S = {Root} \cup Starts(d) /\ Tree(f, S)
  BY DEF Volume, Roots
<1>3. ASSUME NEW x \in FileUnits(d) \ {u}
      PROVE  d[x][2] # n /\ (d[x][3] # 0 => d[x][3] # st)
  <2>1. d[x][2] # n /\ (d[x][3] # 0 => d[x][3] # y)
    BY <1>1, <1>2 DEF Listing, Held
  <2>2. d[x][3] # 0 => d[x][3] \in S
    BY <1>2 DEF Starts
  <2> QED BY <1>1, <2>1, <2>2
<1>4. st \in S \ {Root} \/ st \in Unused(f)
  <2>1. CASE y = 0
    BY <1>1, <2>1
  <2>2. CASE y # 0
    <3>1. y \in Starts(d)
      BY <1>1, <2>2 DEF Starts, Held
    <3> QED BY <1>1, <1>2, <2>2, <3>1
  <2> QED BY <2>1, <2>2
<1>5. /\ FileUnits(e) = FileUnits(d) /\ e[u][3] = st
      /\ \A x \in FileUnits(d) \ {u} : e[x] = d[x]
  BY WriteFiles DEF IsEntry
<1>6. Starts(e) = Starts(d) \cup {st}
  <2> DEFINE O == {d[x][3] : x \in FileUnits(d) \ {u}} \ {0}
  <2>1. Starts(e) = O \cup {st}
    BY <1>1, <1>5 DEF Starts
  <2>2. Starts(d) = IF y = 0 THEN O ELSE O \cup {y}
    BY <1>1 DEF Starts, Held
  <2> QED BY <1>1, <2>1, <2>2
<1>7. Roots(e) = R
  BY <1>6 DEF Roots, With
<1> QED BY <1>1, <1>3, <1>4, <1>7

(* A file that was written fits: the units written have the new data, and the
   others what they had. *)
LEMMA WriteFits ==
  ASSUME NEW f, NEW g, NEW d, NEW d1, NEW e, NEW h, NEW j, NEW c, NEW b, NEW n, NEW u, NEW s, NEW end, NEW v, NEW st, NEW z, NEW us,
         Volume(f, d, h, c), WriteFile(f, g, d, d1, e, n, u, s, end, v, st, z, us),
         WriteKnown(f, h, j, c, b, n, u, s, end, v, st, z)
  PROVE  Fits(g, e, st, z, b[n])
<1> DEFINE y == Size(d, u)
           k == Held(d, u)
           w == c[n]
           bn == b[n]
<1>1. /\ Length(g, st) * ClusterUnits >= z /\ Length(g, st) <= z \div ClusterUnits + 1 /\ st # 0
      /\ s \in Nat /\ end \in Nat /\ s < end /\ z \in Nat /\ end <= z /\ y <= z
      /\ k # 0 => st = k /\ Begins(f, g, k, Length(f, k))
      /\ DOMAIN us = {At(g, st, o) : o \in s .. end - 1}
      /\ Puts(d, d1, u, d1[u]) /\ u \in FileUnits(d) /\ d[u][2] = n
  BY DEF WriteFile, Allocates
<1>2. /\ DOMAIN bn = 0 .. z - 1
      /\ \A o \in 0 .. z - 1 : bn[o] = IF o \in s .. end - 1 THEN v
                                       ELSE IF o \in DOMAIN w THEN w[o] ELSE NoData
  BY DEF WriteKnown
<1>3. Fits(f, d, k, y, w) /\ y \in Nat
  BY <1>1 DEF Volume, FileOK, Held, Size
<1>4. /\ Root # st /\ Good(g, st)
      /\ Owner(u) \in ChainOf(g, Root) /\ ChainOf(g, Root) \cap ChainOf(g, st) = {}
      /\ \A o \in 0 .. z - 1 : o \in Span(g, st)
      /\ \A x \in DOMAIN us : x \in DiskUnits /\ Owner(x) \in ChainOf(g, st)
      /\ \A x \in DiskUnits : e[x] = IF x \in DOMAIN us THEN v ELSE d1[x]
  BY WriteUnits
<1> HIDE DEF y, k, w, bn
<1>5. ASSUME NEW o \in 0 .. z - 1, bn[o] # NoData
      PROVE  e[At(g, st, o)] = bn[o]
  <2>1. o \in Span(g, st) /\ At(g, st, o) \in DiskUnits /\ Owner(At(g, st, o)) \in ChainOf(g, st)
    BY <1>4, AtIs
  <2>2. CASE o \in s .. end - 1
    <3>1. At(g, st, o) \in DOMAIN us
      BY <1>1, <2>2
    <3> QED BY <1>2, <1>4, <2>2, <3>1
  <2>3. CASE o \notin s .. end - 1
    <3>1. o \in DOMAIN w /\ bn[o] = w[o] /\ w[o] # NoData
      BY <1>2, <1>5, <2>3
    <3>2. o \in 0 .. y - 1 /\ d[At(f, k, o)] = w[o]
      BY <1>3, <3>1 DEF Fits
    <3>3. k # 0 /\ Length(f, k) * ClusterUnits >= y
      BY <1>3, <3>2 DEF Fits
    <3>4. st = k /\ Begins(f, g, k, Length(f, k)) /\ Good(f, k)
      <4>1. k \in Roots(d)
        BY <1>1, <3>3 DEF Roots, Starts, Held, k
      <4>2. Tree(f, Roots(d))
        BY DEF Volume
      <4> QED BY <1>1, <3>3, <4>1, <4>2 DEF Tree
    <3>5. o \in Span(f, k)
      BY <1>3, <3>2, <3>3, <3>4, InSpan
    <3>6. o \in Nat /\ o \div ClusterUnits < Length(f, k)
      BY <3>4, <3>5, SpanIs
    <3>7. At(g, st, o) = At(f, k, o)
      BY <1>4, <3>4, <3>6, AtSame
    <3>8. At(g, st, o) \notin DOMAIN us
      <4> SUFFICES ASSUME At(g, st, o) \in DOMAIN us
                   PROVE  FALSE
        OBVIOUS
      <4>1. PICK x \in s .. end - 1 : At(g, st, o) = At(g, st, x)
        BY <1>1
      <4>2. x \in Span(g, st)
        <5>1. x \in 0 .. z - 1
          BY <1>1
        <5> QED BY <1>4, <5>1
      <4>3. o = x
        BY <1>4, <2>1, <4>1, <4>2, AtDiffer
      <4> QED BY <2>3, <4>3
    <3>9. At(g, st, o) # u
      BY <1>4, <2>1
    <3>10. e[At(g, st, o)] = d1[At(g, st, o)] /\ d1[At(g, st, o)] = d[At(g, st, o)]
      BY <1>1, <1>4, <2>1, <3>8, <3>9 DEF Puts
    <3> QED BY <3>1, <3>2, <3>7, <3>10
  <2> QED BY <2>2, <2>3
<1>6. z # 0
  BY <1>1
<1>7. Fits(g, e, st, z, bn)
  BY <1>1, <1>2, <1>5, <1>6 DEF Fits
<1> QED BY <1>7 DEF bn

(* Nothing changes but the file that is written, when its entry is on the disk and
   when its data are. *)
LEMMA WriteOnly ==
  ASSUME NEW f, NEW g, NEW d, NEW d1, NEW e, NEW h, NEW j, NEW c, NEW b, NEW n, NEW u, NEW s, NEW end, NEW v, NEW st, NEW z, NEW us,
         Volume(f, d, h, c), WriteFile(f, g, d, d1, e, n, u, s, end, v, st, z, us),
         WriteKnown(f, h, j, c, b, n, u, s, end, v, st, z)
  PROVE  OnlyFile(f, g, d, e, h, j, c, b, n, u) /\ OnlyFile(f, g, d, d1, h, j, c, b, n, u)
<1> DEFINE S == Roots(d)
           R == {Root, st}
           O == FileUnits(d) \ {u}
<1>1. /\ Tree(g, With(S, st)) /\ n \in Names /\ u \in FileUnits(d) /\ d[u][2] = n
      /\ \A x \in S \ {st} : Good(f, x) /\ Same(f, g, x)
      /\ Puts(d, d1, u, d1[u]) /\ st # 0 /\ z \in Nat
  BY DEF WriteFile, Allocates
<1>2. /\ Roots(e) = With(S, st)
      /\ \A x \in O : d[x][2] # n /\ (d[x][3] # 0 => d[x][3] # st)
      /\ st # Root
  BY WriteRoots
<1>3. /\ FileUnits(d1) = FileUnits(d) /\ FileUnits(e) = FileUnits(d)
      /\ \A x \in O : e[x] = d[x] /\ d1[x] = d[x]
  BY WriteFiles
<1>4. /\ Good(g, st) /\ DirKept(f, g)
      /\ Owner(u) \in ChainOf(g, Root)
      /\ \A x \in DOMAIN us : x \in DiskUnits /\ Owner(x) \in ChainOf(g, st)
      /\ IsDisk(e)
      /\ \A x \in DiskUnits : e[x] = IF x \in DOMAIN us THEN v ELSE d1[x]
  BY WriteUnits
<1>5. Touches(g, d, e, R) /\ Touches(g, d, d1, R) /\ IsDisk(d1)
  <2>1. \A x \in DiskUnits : e[x] # d[x] => x \in DOMAIN us \/ x = u
    BY <1>1, <1>4 DEF Puts
  <2>2. (\A x \in DiskUnits : d1[x] # d[x] => x = u) /\ IsDisk(d1)
    BY <1>1 DEF Puts
  <2> QED BY <1>4, <2>1, <2>2 DEF Touches
<1>6. R \in SUBSET With(S, st)
  BY DEF With, Roots
<1>7. ASSUME NEW x \in FileUnits(d) \ {u}, d[x][3] # 0
      PROVE  d[x][3] \in With(S, st) \ R /\ Good(f, d[x][3]) /\ Same(f, g, d[x][3])
  <2>1. d[x][3] \in Starts(d) /\ d[x][3] # st
    BY <1>2, <1>7 DEF Starts
  <2>2. d[x][3] \in S /\ d[x][3] # Root
    BY <2>1 DEF Roots, Volume
  <2> QED BY <1>1, <2>1, <2>2 DEF With
<1> DEFINE T == With(S, st)
<1>8. /\ Tree(g, T) /\ R \in SUBSET T
      /\ \A x \in FileUnits(d) \ {u} : d[x][3] # 0 => /\ d[x][3] \in T \ R
                                                      /\ Good(f, d[x][3]) /\ Same(f, g, d[x][3])
  BY <1>1, <1>6, <1>7
<1> HIDE DEF T, R
<1>9. \A x \in FileUnits(d) \ {u} : d[x][3] = 0 \/ Keeps(f, g, d, e, d[x][3])
  BY <1>5, <1>8, OthersKept
<1>10. \A x \in FileUnits(d) \ {u} : d[x][3] = 0 \/ Keeps(f, g, d, d1, d[x][3])
  BY <1>5, <1>8, OthersKept
<1>11. /\ j \subseteq Handle /\ b = [m \in Names |-> b[m]]
       /\ \A m \in Names \ {n} : b[m] = c[m]
       /\ \A q \in j : q.name # n => q \in h
  BY DEF WriteKnown, IsContent
<1>12. e = [x \in DiskUnits |-> e[x]] /\ d1 = [x \in DiskUnits |-> d1[x]]
  BY <1>4, <1>5 DEF IsDisk
<1>13. FileUnits(e) \ {u} = FileUnits(d) \ {u} /\ FileUnits(d1) \ {u} = FileUnits(d) \ {u}
  BY <1>3
<1>14. OnlyFile(f, g, d, e, h, j, c, b, n, u)
  BY <1>2, <1>3, <1>4, <1>9, <1>11, <1>12, <1>13 DEF OnlyFile
<1>15. OnlyFile(f, g, d, d1, h, j, c, b, n, u)
  BY <1>2, <1>3, <1>4, <1>10, <1>11, <1>12, <1>13 DEF OnlyFile
<1> QED BY <1>14, <1>15

(* The volume is in order when the writes of fwrite are all on the disk. *)
LEMMA WriteVolume ==
  ASSUME NEW f, NEW g, NEW d, NEW d1, NEW e, NEW h, NEW j, NEW c, NEW b, NEW n, NEW u, NEW s, NEW end, NEW v, NEW st, NEW z, NEW us,
         Volume(f, d, h, c), WriteFile(f, g, d, d1, e, n, u, s, end, v, st, z, us),
         WriteKnown(f, h, j, c, b, n, u, s, end, v, st, z)
  PROVE  Volume(g, e, j, b)
<1> DEFINE S == Roots(d)
           O == FileUnits(d) \ {u}
<1>1. /\ Tree(g, With(S, st)) /\ n \in Names /\ u \in FileUnits(d) /\ d[u][2] = n
      /\ st # 0 /\ z \in Nat
  BY DEF WriteFile, Allocates
<1>2. /\ Roots(e) = With(S, st)
      /\ \A x \in O : d[x][2] # n /\ (d[x][3] # 0 => d[x][3] # st)
      /\ st # Root
  BY WriteRoots
<1>3. /\ FileUnits(e) = FileUnits(d)
      /\ e[u][1] = "file" /\ e[u][2] = n /\ e[u][3] = st /\ e[u][4] = z
  BY WriteFiles DEF IsEntry
<1>4. Good(g, st) /\ DirKept(f, g) /\ Owner(u) \in ChainOf(g, Root)
  BY WriteUnits
<1>5. OnlyFile(f, g, d, e, h, j, c, b, n, u)
  BY WriteOnly
<1>6. FileOK(g, e, b, u)
  <2>1. Fits(g, e, st, z, b[n])
    BY WriteFits
  <2>2. st \in Nat
    <3>1. st \in ChainOf(g, st) /\ ChainOf(g, st) \subseteq Cluster
      BY <1>4, GoodIs
    <3> QED BY <3>1, ClusterCount
  <2> QED BY <1>1, <1>3, <1>4, <2>1, <2>2 DEF FileOK
<1>7. ASSUME NEW q \in j, q.name = n
      PROVE  HandleOK(g, e, q)
  <2> DEFINE i == q.findex
  <2>1. i \in DirIndexes(f) /\ At(f, Root, i) = u /\ q.size = z /\ q.fnode = st
    BY <1>7 DEF WriteKnown
  <2>2. i \in DirIndexes(g) /\ At(g, Root, i) = u
    <3> HIDE DEF i
    <3> QED BY <1>4, <2>1, DirAt
  <2>3. u \in FileUnits(e)
    BY <1>1, <1>3
  <2> QED BY <1>3, <1>7, <2>1, <2>2, <2>3 DEF HandleOK
<1>8. NewFile(g, d, e, j, b, n, u)
  BY <1>2, <1>3, <1>6, <1>7 DEF NewFile
<1>9. Tree(g, Roots(e))
  BY <1>1, <1>2
<1> QED BY <1>1, <1>5, <1>8, <1>9, VolumeKept

(* The disk is safe at each of its writes. *)
LEMMA WriteSafe ==
  ASSUME NEW f, NEW g, NEW d, NEW d1, NEW e, NEW h, NEW j, NEW c, NEW b, NEW n, NEW u, NEW s, NEW end, NEW v, NEW st, NEW z, NEW us,
         Volume(f, d, h, c), WriteFile(f, g, d, d1, e, n, u, s, end, v, st, z, us),
         WriteKnown(f, h, j, c, b, n, u, s, end, v, st, z), Volume(g, e, j, b)
  PROVE  /\ Safe(f, d, b, {n}) /\ Safe(f, d1, b, {n})
         /\ Safe(g, d1, b, {n}) /\ Safe(g, e, b, {n})
<1> DEFINE S == Roots(d)
           T == Roots(e)
<1>1. Safe(f, d, b, {n}) /\ Safe(g, e, b, {n})
  <2>1. Alike(c, b, {n}) /\ Alike(b, b, {n})
    BY DEF WriteKnown, Alike
  <2> QED BY <2>1, SafeVolume
<1>2. /\ Tree(f, S) /\ Root \in S /\ Tree(g, T) /\ Root \in T /\ Listing(e) /\ Root \notin Starts(e) /\ Root \notin Starts(d)
  BY DEF Volume, Roots
<1>3. /\ FileUnits(d1) = FileUnits(d) /\ FileUnits(e) = FileUnits(d)
      /\ \A x \in FileUnits(d) : e[x] = d1[x]
      /\ \A x \in FileUnits(d) \ {u} : e[x] = d[x]
      /\ e[u][3] = st /\ e[u][2] = n
  BY WriteFiles DEF IsEntry
<1>4. st # 0 /\ st # Root /\ (st \in S \ {Root} \/ st \in Unused(f))
  BY WriteRoots
<1>5. \A x, y \in FileUnits(d1) : x # y /\ d1[x][3] # 0 => d1[x][3] # d1[y][3]
  BY <1>2, <1>3 DEF Listing
<1>6. StartsIn(f, d1, S)
  <2>1. ASSUME NEW x \in FileUnits(d1)
        PROVE  d1[x][3] \in (S \ {Root}) \cup {0} \cup Unused(f)
    <3>1. CASE x = u
      BY <1>3, <1>4, <2>1, <3>1
    <3>2. CASE x # u
      <4>1. d1[x] = d[x] /\ x \in FileUnits(d)
        BY <1>3, <3>2
      <4>2. d[x][3] = 0 \/ d[x][3] \in Starts(d)
        BY <4>1 DEF Starts
      <4> QED BY <1>2, <4>1, <4>2 DEF Roots
    <3> QED BY <3>1, <3>2
  <2> QED BY <1>5, <2>1 DEF StartsIn
<1>7. StartsIn(g, d1, T)
  <2>1. ASSUME NEW x \in FileUnits(d1)
        PROVE  d1[x][3] \in (T \ {Root}) \cup {0} \cup Unused(g)
    <3>1. d1[x] = e[x] /\ x \in FileUnits(e)
      BY <1>3
    <3>2. e[x][3] = 0 \/ e[x][3] \in Starts(e)
      BY <3>1 DEF Starts
    <3> QED BY <1>2, <3>1, <3>2 DEF Roots
  <2> QED BY <1>5, <2>1 DEF StartsIn
<1> HIDE DEF S, T
<1>8. Apart(f, d1) /\ Apart(g, d1)
  BY <1>2, <1>6, <1>7, ApartIs
<1>9. Whole(f, d1, b, {n}) /\ Whole(g, d1, b, {n})
  <2>1. OnlyFile(f, g, d, d1, h, j, c, b, n, u)
    BY WriteOnly
  <2>2. u \in FileUnits(d1) => d1[u][2] = n
    BY <1>3
  <2> QED BY <2>1, <2>2, WholeKept
<1> QED BY <1>1, <1>8, <1>9 DEF Safe

-----------------------------------------------------------------------------
\* and the writes of the call.

(* What a write of the table, the units us and the table again leads to. *)
LEMMA LeadsData ==
  ASSUME NEW f, NEW g, NEW d, NEW us, NEW n, NEW y, NEW e, e = Over(us, d), NEW C,
         Safe(f, d, C, {n}), Safe(g, d, C, {n}), Safe(g, e, C, {n})
  PROVE  Leads(<<PutFat(n), PutData(n, us, y), PutFat(n)>>, f, d, g, e, C, n)
<1> DEFINE a == PutData(n, us, y)
           w == PutFat(n)
           t1 == <<w>>
           t2 == <<a, w>>
           t3 == <<w, a, w>>
<1>1. FatAfter(w, f, g) = g /\ DataAfter(w, d) = d /\ w.name = n
  <2>1. w.kind = "fat" /\ w.name = n
    BY WriteDoes
  <2> QED BY <2>1 DEF FatAfter, DataAfter
<1>2. a = PutData(n, us, y)
  OBVIOUS
<1>3. Leads(t1, g, e, g, e, C, n)
  BY LeadsFat
<1>4. t3 = <<w>> \o t2
  <2> HIDE DEF a, w
  <2> QED BY Tuples
<1> HIDE DEF a, w
<1>5. Cons(t2, a, t1) /\ IsSeq(t2)
  BY Pairs DEF Cons
<1> HIDE DEF t1, t2, t3
<1>6. Leads(t2, g, d, g, e, C, n)
  <2>1. Leads(t1, g, Over(us, d), g, e, C, n)
    BY <1>3
  <2> QED BY <1>2, <1>5, <2>1, LeadsUnits
<1>7. Leads(t3, f, d, g, e, C, n)
  <2>1. Leads(t2, FatAfter(w, f, g), DataAfter(w, d), g, e, C, n)
    BY <1>1, <1>6
  <2>2. Cons(t3, w, t2)
    BY <1>4, <1>5, ConsBefore
  <2> QED BY <1>1, <2>1, <2>2, LeadsMore
<1> QED BY <1>7 DEF t3, a, w

(* With the entry before it where the size changes. *)
LEMMA LeadsWrite ==
  ASSUME NEW f, NEW g, NEW d, NEW us, NEW n, NEW y, NEW vs, NEW d1, d1 = Over(vs, d), NEW e, e = Over(us, d1), NEW C,
         Safe(f, d, C, {n}), Safe(f, d1, C, {n}), Safe(g, d1, C, {n}), Safe(g, e, C, {n})
  PROVE  Leads(<<PutUnits(n, vs)>> \o <<PutFat(n), PutData(n, us, y), PutFat(n)>>, f, d, g, e, C, n)
<1> DEFINE t == <<PutFat(n), PutData(n, us, y), PutFat(n)>>
           a == PutUnits(n, vs)
           q == <<a>> \o t
<1>1. Leads(t, f, d1, g, e, C, n)
  BY LeadsData
<1>2. IsSeq(t)
  BY <1>1 DEF Leads
<1>3. a = PutUnits(n, vs)
  OBVIOUS
<1> HIDE DEF t, a
<1>4. Cons(q, a, t)
  BY <1>2, ConsBefore
<1> HIDE DEF q
<1>5. Leads(t, f, Over(vs, d), g, e, C, n)
  BY <1>1
<1>6. Leads(q, f, d, g, e, C, n)
  BY <1>3, <1>4, <1>5, LeadsUnits
<1> QED BY <1>6 DEF q, t, a

(* The entry of a file that is written through a handle that knows it. *)
LEMMA OpenEntry ==
  ASSUME SecPerClus = 1, AtRest, NEW r \in Known, r.fnode = 0 \/ r.size > 0
  PROVE  LET i == r.findex
             u == At(fat, Root, i)
         IN  /\ u \in FileUnits(data) /\ u \in DiskUnits /\ data[u][2] = r.name
             /\ i \in DirIndexes(fat) /\ EntryAt(i) = data[u]
             /\ r.fnode = Held(data, u) /\ r.size = Size(data, u)
             /\ Size(data, u) \in Nat /\ (Held(data, u) = 0 <=> Size(data, u) = 0)
             /\ FileOK(fat, data, content, u)
             /\ Held(data, u) # 0 => /\ Held(data, u) \in Roots(data) \ {Root}
                /\ Length(fat, Held(data, u)) * ClusterUnits >= Size(data, u)
                /\ Length(fat, Held(data, u)) <= Size(data, u) \div ClusterUnits + 1
<1> DEFINE i == r.findex
           u == At(fat, Root, i)
<1>1. /\ Holds(r.name, i, u) /\ r.size = EntryAt(i)[4]
      /\ r.size # 0 => r.fnode = EntryAt(i)[3]
  BY HandleFound
<1> HIDE DEF i, u
<1>2. /\ u \in FileUnits(data) /\ data[u][2] = r.name /\ i \in DirIndexes(fat) /\ EntryAt(i) = data[u]
  BY <1>1 DEF Holds
<1>3. FileOK(fat, data, content, u) /\ u \in DiskUnits /\ Root \notin Starts(data)
  BY <1>2 DEF AtRest, Volume, FileUnits
<1> DEFINE s == Held(data, u)
           y == Size(data, u)
<1>4. /\ y \in Nat /\ (s = 0 <=> y = 0)
      /\ s # 0 => Length(fat, s) * ClusterUnits >= y /\ Length(fat, s) <= y \div ClusterUnits + 1
  BY <1>3 DEF FileOK, Fits, Held, Size
<1>5. r.size = y /\ (y # 0 => r.fnode = s)
  BY <1>1, <1>2 DEF Held, Size
<1>6. r.fnode = s
  <2>1. CASE y = 0
    <3>1. r.fnode = 0
      BY <1>5, <2>1
    <3> QED BY <1>4, <2>1, <3>1
  <2>2. CASE y # 0
    BY <1>5, <2>2
  <2> QED BY <2>1, <2>2
<1>7. s # 0 => s \in Roots(data) \ {Root}
  BY <1>2, <1>3 DEF Roots, Starts, Held
<1> QED BY <1>2, <1>3, <1>4, <1>5, <1>6, <1>7 DEF i, u

\* What fwrite remembers of the file: its cluster s, and the size it has or end.
Enlarged(h, j, x, s, end) == j = [h EXCEPT ![x].fnode = s, ![x].size = IF @ < end THEN end ELSE @]

\* The handle at x becomes r.
Becomes(h, j, x, r) == j = [h EXCEPT ![x] = r]

LEMMA EnlargedIs ==
  ASSUME NEW h, NEW x, h[x] \in Handle, NEW s, NEW end, NEW j, Enlarged(h, j, x, s, end), NEW q,
         q = [name   |-> h[x].name,
              fnode  |-> s,
              size   |-> IF h[x].size < end THEN end ELSE h[x].size,
              findex |-> h[x].findex]
  PROVE  Becomes(h, j, x, q)
<1> DEFINE a == h[x]
           z == IF a.size < end THEN end ELSE a.size
           p == [a EXCEPT !.fnode = s]
           t == [p EXCEPT !.size = z]
           r == [name |-> a.name, fnode |-> s, size |-> z, findex |-> a.findex]
<1>1. a = [name |-> a.name, fnode |-> a.fnode, size |-> a.size, findex |-> a.findex]
  BY DEF Handle
<1>2. p = [name |-> a.name, fnode |-> s, size |-> a.size, findex |-> a.findex]
  BY <1>1
<1>3. t = r
  <2> HIDE DEF p, z
  <2> QED BY <1>2
<1>4. p.size = a.size
  BY <1>2
<1>5. j = [h EXCEPT ![x] = [p EXCEPT !.size = IF p.size < end THEN end ELSE p.size]]
  BY DEF Enlarged
<1>6. j = [h EXCEPT ![x] = t]
  BY <1>4, <1>5
<1>7. q = r
  OBVIOUS
<1> HIDE DEF t, r
<1>8. j = [h EXCEPT ![x] = q]
  BY <1>3, <1>6, <1>7
<1> QED BY <1>8 DEF Becomes

(* fwrite with data keeps the invariant: entry, table and data reach the disk in
   that order, and after each of them no cluster has two owners and the other
   files are whole. *)
LEMMA WriteKeeps ==
  ASSUME SecPerClus = 1, Careful, IInv, NEW x \in Handles, NEW s \in Nat, NEW size \in Nat \ {0},
         Write(x, s, size)
  PROVE  IInv'
<1> DEFINE h == handle[x]
           n == h.name
           end == s + size
           g == Allocated(h, end)
           v == Data(writes + 1)
           st == Start(h)
           i == h.findex
           u == At(fat, Root, i)
           c == Held(data, u)
           y == Size(data, u)
           z == IF y < end THEN end ELSE y
           S == Roots(data)
           us == Placed(Path(g, st), s, end, v)
           vs == OneUnit(u, Entry(n, st, end))
           d1 == IF y < end THEN Over(vs, data) ELSE data
           e == Over(us, d1)
           w == [o \in 0 .. z - 1 |-> IF o \in s .. end - 1 THEN v
                                      ELSE IF o \in DOMAIN content[n] THEN content[n][o] ELSE NoData]
           r == [name |-> n, fnode |-> st, size |-> z, findex |-> i]
<1>1. todo = <<>> /\ x \in current /\ (h.fnode = 0 \/ h.size > 0)
  BY DEF Write, Idle, Cares
<1>2. AtRest /\ writes \in Nat /\ handle \in [Handles -> Handle] /\ current \subseteq Handles
  BY <1>1, RestIs DEF IInv
<1> DEFINE room == Needed(h, end) \in 0 .. Cardinality(Unused(fat))
<1>3. CASE ~(Walks(h, end) /\ room /\ Covers(g, h, s, end))
  <2>1. Breaks(NoRoom) \/ Breaks(NoIndex)
    BY <1>3 DEF Write
  <2> QED BY <2>1, BreaksKeeps
<1>4. CASE Walks(h, end) /\ room /\ Covers(g, h, s, end)
  <2> DEFINE E == Written(EntryAt(i), h, end)
  <2>1. /\ fat' = g
        /\ handle' = [handle EXCEPT ![x].fnode = st, ![x].size = IF @ < end THEN end ELSE @]
        /\ current' = current \ Others(n, x)
        /\ todo' = (IF h.size < end THEN <<PutEntry(n, g, i, E)>> ELSE <<>>)
                     \o <<PutFat(n), PutData(n, us, h.size), PutFat(n)>>
        /\ content' = [content EXCEPT ![n] =
             [o \in 0 .. handle'[x].size - 1 |->
                IF o \in s .. end - 1 THEN v ELSE IF o \in DOMAIN @ THEN @[o] ELSE NoData]]
        /\ dfat' = dfat /\ data' = data /\ writes' = writes + 1
    BY <1>4 DEF Write
  <2>2. /\ Volume(fat, data, Known, content) /\ dfat = fat
        /\ IsDisk(data) /\ IsContent(content)
        /\ Tree(fat, S) /\ Root \in S
    BY <1>2 DEF AtRest, Volume, IsDisk, IsContent, Roots
  <2>3. /\ h \in Known /\ h \in Handle /\ n \in Names /\ i \in Int
        /\ u \in FileUnits(data) /\ u \in DiskUnits /\ data[u][2] = n
        /\ i \in DirIndexes(fat) /\ EntryAt(i) = data[u]
        /\ h.fnode = c /\ h.size = y
        /\ y \in Nat /\ (c = 0 <=> y = 0)
        /\ c # 0 => /\ c \in S \ {Root}
                    /\ Length(fat, c) * ClusterUnits >= y
                    /\ Length(fat, c) <= y \div ClusterUnits + 1
    <3> DEFINE q == handle[x]
    <3>1. q \in Known /\ q \in Handle /\ (q.fnode = 0 \/ q.size > 0)
      BY <1>1, <1>2 DEF Known
    <3> HIDE DEF q
    <3>2. LET w1 == At(fat, Root, q.findex)
          IN  /\ w1 \in FileUnits(data) /\ w1 \in DiskUnits /\ data[w1][2] = q.name
              /\ q.findex \in DirIndexes(fat) /\ EntryAt(q.findex) = data[w1]
              /\ q.fnode = Held(data, w1) /\ q.size = Size(data, w1)
              /\ Size(data, w1) \in Nat /\ (Held(data, w1) = 0 <=> Size(data, w1) = 0)
              /\ FileOK(fat, data, content, w1)
              /\ Held(data, w1) # 0 => /\ Held(data, w1) \in Roots(data) \ {Root}
                 /\ Length(fat, Held(data, w1)) * ClusterUnits >= Size(data, w1)
                 /\ Length(fat, Held(data, w1)) <= Size(data, w1) \div ClusterUnits + 1
      BY <1>2, <3>1, OpenEntry
    <3>3. q.name \in Names /\ q.findex \in Int
      BY <3>1 DEF Handle
    <3> QED BY <3>1, <3>2, <3>3 DEF q
  <2>4. s \in Nat /\ end \in Nat /\ end # 0 /\ s < end /\ z \in Nat /\ end <= z /\ y <= z /\ v[1] # "file"
    BY <2>3 DEF Data
  <2>5. Writes(S, h, c, y, end)
    <3>1. Needed(h, end) <= Cardinality(Unused(fat))
      BY <1>4, UnusedIs
    <3> HIDE DEF h, c, y, end, S
    <3> QED BY <2>2, <2>3, <2>4, <3>1 DEF Writes
  <2>6. Allocates(fat, g, S, c, st, z)
    <3>1. CASE c = 0
      <4>1. z = end /\ y = 0
        BY <2>3, <2>4, <3>1
      <4> HIDE DEF h, c, y, end, S, z
      <4>2. Writes(S, h, 0, 0, end)
        BY <2>5, <3>1, <4>1
      <4>3. Allocates(fat, Allocated(h, end), S, 0, Start(h), end)
        BY <4>2, AllocatedNew
      <4> QED BY <3>1, <4>1, <4>3
    <3>2. CASE c # 0
      <4> HIDE DEF h, c, y, end, S
      <4> QED BY <2>5, <3>2, AllocatedMore
    <3> QED BY <3>1, <3>2
  <2>7. Root # st /\ Good(g, Root) /\ Good(g, st) /\ DirKept(fat, g)
    <3> HIDE DEF g, st, S, c, z
    <3>1. /\ Tree(g, With(S, st)) /\ st # Root
          /\ \A k \in S \ {st} : Good(fat, k) /\ Same(fat, g, k)
      BY <2>6 DEF Allocates
    <3>2. Root \in With(S, st) /\ st \in With(S, st)
      BY <2>2 DEF With
    <3>3. Good(g, Root) /\ Good(g, st) /\ Good(fat, Root) /\ Same(fat, g, Root)
      BY <2>2, <3>1, <3>2, TreeParts
    <3> QED BY <3>1, <3>3, DirSame
  <2>8. Address(Path(g, Root), i, i) = u
    <3> DEFINE ii == i
    <3>1. ii \in DirIndexes(fat) /\ u = At(fat, Root, ii)
      BY <2>3
    <3> HIDE DEF ii, g, u, st
    <3>2. ii \in DirIndexes(g) /\ At(g, Root, ii) = u
      BY <2>7, <3>1, DirAt
    <3>3. ii \in Span(g, Root)
      BY <3>2 DEF DirIndexes, Span
    <3>4. ii \in Nat
      BY <2>7, <3>3, SpanIs
    <3>5. Address(Path(g, Root), ii, ii) = u
      BY <2>7, <3>2, <3>3, <3>4, AddressAt
    <3> QED BY <3>5 DEF ii
  <2>9. /\ DOMAIN us = {At(g, st, o) : o \in s .. end - 1}
        /\ \A k \in DOMAIN us : us[k] = v
    <3>1. ASSUME NEW o \in s .. end - 1
          PROVE  Address(Path(g, st), s, o) = At(g, st, o)
      <4>1. Length(g, st) * ClusterUnits >= z
        BY <2>6 DEF Allocates
      <4>2. o \in 0 .. z - 1
        BY <2>4
      <4> HIDE DEF g, st, z, end
      <4>3. o \in Span(g, st)
        BY <2>4, <2>7, <4>1, <4>2, InSpan
      <4> QED BY <2>7, <4>3, AddressAt
    <3> HIDE DEF g, st, end, v
    <3>2. us = [k \in {Address(Path(g, st), s, o) : o \in s .. end - 1} |-> v]
      BY DEF Placed
    <3>3. {Address(Path(g, st), s, o) : o \in s .. end - 1} = {At(g, st, o) : o \in s .. end - 1}
      BY <3>1
    <3> HIDE DEF us
    <3> QED BY <3>2, <3>3
  <2>10. Puts(data, d1, u, d1[u]) /\ IsEntry(d1[u], n, st, z)
    <3>1. CASE y < end
      <4>1. d1 = Over(vs, data) /\ z = end
        BY <3>1
      <4>2. Puts(data, Over(vs, data), u, Entry(n, st, end))
        BY <2>2, <2>3, OverOne
      <4>3. d1[u] = Entry(n, st, end)
        BY <4>1, <4>2 DEF Puts
      <4> HIDE DEF d1, z, st, end
      <4>4. Puts(data, d1, u, d1[u])
        BY <4>1, <4>2, <4>3
      <4> QED BY <4>1, <4>3, <4>4, EntryIs DEF IsEntry
    <3>2. CASE ~ (y < end)
      <4>1. d1 = data /\ z = y /\ st = c
        BY <2>3, <2>4, <3>2 DEF Start
      <4>2. data[u][1] = "file" /\ data[u][2] = n /\ data[u][3] = c /\ data[u][4] = y
        BY <2>3 DEF FileUnits, Held, Size
      <4> HIDE DEF d1, z, st, c, y, u
      <4> QED BY <2>2, <2>3, <4>1, <4>2 DEF Puts, IsEntry
    <3> QED BY <3>1, <3>2
  <2>11. E = Entry(n, st, end)
    <3>1. EntryAt(i)[1] = "file" /\ EntryAt(i)[2] = n /\ EntryAt(i)[3] = c
      BY <2>3 DEF FileUnits, Held
    <3>2. st = IF h.fnode = 0 THEN st ELSE c
      BY <2>3 DEF Start
    <3>3. E = Entry(EntryAt(i)[2], IF h.fnode = 0 THEN st ELSE EntryAt(i)[3], end)
      BY <3>1 DEF Written, Changed
    <3> QED BY <3>1, <3>2, <3>3
  <2>12. st \in Int
    <3>1. st \in ChainOf(g, st) /\ ChainOf(g, st) \subseteq Cluster
      BY <2>7, GoodIs
    <3> HIDE DEF st, g
    <3>2. st \in Nat
      BY <3>1, ClusterCount
    <3> QED BY <3>2
  <2>13. /\ handle' = [handle EXCEPT ![x] = r] /\ r \in Handle
         /\ r.name = n /\ r.fnode = st /\ r.size = z /\ r.findex = i
    <3>1. Enlarged(handle, handle', x, st, end)
      BY <2>1 DEF Enlarged
    <3>2. r = [name |-> handle[x].name, fnode |-> st,
               size |-> IF handle[x].size < end THEN end ELSE handle[x].size,
               findex |-> handle[x].findex]
      BY <2>3
    <3>3. z \in Int /\ handle[x] \in Handle
      BY <2>3, <2>4
    <3> HIDE DEF st, end, z
    <3>4. handle' = [handle EXCEPT ![x] = r]
      <4> HIDE DEF r, n, i, h
      <4>1. Becomes(handle, handle', x, r)
        BY <3>1, <3>2, <3>3, EnlargedIs
      <4> QED BY <4>1 DEF Becomes
    <3> HIDE DEF i, n
    <3> QED BY <2>3, <2>12, <3>3, <3>4 DEF Handle
  <2> HIDE DEF r
  <2>14. /\ handle' \in [Handles -> Handle] /\ current' \subseteq Handles
         /\ Known' \subseteq Handle
         /\ \A q \in Known' : q = r \/ (q \in Known /\ q.name # n)
    <3>1. handle' = [handle EXCEPT ![x] = r]
      BY <2>13
    <3>2. r \in Handle
      BY <2>13
    <3>3. current' = current \ Others(n, x)
      BY <2>1
    <3>4. handle \in [Handles -> Handle] /\ current \subseteq Handles /\ x \in Handles
      BY <1>2
    <3> HIDE DEF n
    <3> QED BY ONLY <3>1, <3>2, <3>3, <3>4, KnownOnly
  <2>15. /\ Filled(content, content', n, w) /\ DOMAIN w = 0 .. z - 1
         /\ \A o \in 0 .. z - 1 : w[o] = IF o \in s .. end - 1 THEN v
                                      ELSE IF o \in DOMAIN content[n] THEN content[n][o] ELSE NoData
    <3>1. handle'[x].size = z
      BY <1>2, <2>13
    <3> HIDE DEF z, end, v, n
    <3>2. Filled(content, content', n, w)
      BY <2>1, <3>1 DEF Filled
    <3> QED BY <3>2
  <2> HIDE DEF w, E, n
  <2>16. IsContent(content') /\ content'[n] = w /\ \A m \in Names \ {n} : content'[m] = content[m]
    <3>1. IsContent(content) /\ Filled(content, content', n, w) /\ n \in Names
      BY <2>2, <2>3, <2>15
    <3> QED BY <3>1, ContentPut
  <2> HIDE DEF d1, us, vs, e, g, st, end, v, z
  <2>17. e = Over(us, d1)
    BY DEF e
  <2>18. WriteFile(fat, g, data, d1, e, n, u, s, end, v, st, z, us)
    BY <2>3, <2>4, <2>6, <2>9, <2>10, <2>17 DEF WriteFile
  <2>19. WriteKnown(fat, Known, Known', content, content', n, u, s, end, v, st, z)
    <3>1. \A q \in Known' : q.name # n => q \in Known
      BY <2>13, <2>14
    <3>2. \A q \in Known' : q.name = n => /\ q.findex \in DirIndexes(fat) /\ At(fat, Root, q.findex) = u
                                        /\ q.size = z /\ q.fnode = st
      BY <2>3, <2>13, <2>14
    <3>3. /\ Known' \subseteq Handle /\ IsContent(content')
          /\ \A m \in Names \ {n} : content'[m] = content[m]
          /\ DOMAIN content'[n] = 0 .. z - 1
          /\ \A o \in 0 .. z - 1 :
               content'[n][o] = IF o \in s .. end - 1 THEN v
                                ELSE IF o \in DOMAIN content[n] THEN content[n][o] ELSE NoData
      BY <2>14, <2>15, <2>16
    <3> QED BY <3>1, <3>2, <3>3 DEF WriteKnown
  <2> HIDE DEF h, i, u, c, y, S
  <2> DEFINE C == content'
             K == Known'
             O == Known
  <2>20. Volume(g, e, K, C)
    <3>1. /\ Volume(fat, data, O, content)
          /\ WriteKnown(fat, O, K, content, C, n, u, s, end, v, st, z)
      BY <2>2, <2>19
    <3> HIDE DEF C, K, O
    <3> QED BY <2>18, <3>1, WriteVolume
  <2>21. Safe(fat, data, C, {n}) /\ Safe(fat, d1, C, {n}) /\ Safe(g, d1, C, {n}) /\ Safe(g, e, C, {n})
    <3>1. /\ Volume(fat, data, O, content)
          /\ WriteKnown(fat, O, K, content, C, n, u, s, end, v, st, z)
      BY <2>2, <2>19
    <3> HIDE DEF C, K, O
    <3> QED BY <2>18, <2>20, <3>1, WriteSafe
  <2> DEFINE a == h.size
             t == <<PutFat(n), PutData(n, us, a), PutFat(n)>>
  <2> HIDE DEF a
  <2>22. Leads(todo', fat, data, g, e, C, n)
    <3>1. CASE y < end
      <4>1. d1 = Over(vs, data)
        BY <3>1 DEF d1
      <4>2. todo' = <<PutUnits(n, vs)>> \o t
        <5>1. PutEntry(n, g, i, E) = PutUnits(n, vs)
          BY <2>8, <2>11 DEF PutEntry, vs
        <5> QED BY <2>1, <2>3, <3>1, <5>1 DEF a
      <4> HIDE DEF C
      <4>3. Leads(<<PutUnits(n, vs)>> \o t, fat, data, g, e, C, n)
        BY <2>17, <2>21, <4>1, LeadsWrite
      <4> HIDE DEF t
      <4> QED BY <4>2, <4>3
    <3>2. CASE ~ (y < end)
      <4>1. d1 = data
        BY <3>2 DEF d1
      <4>2. todo' = <<>> \o t
        BY <2>1, <2>3, <3>2 DEF a
      <4> HIDE DEF C
      <4>3. <<>> \o t = t
        BY Tuples
      <4>4. Leads(t, fat, data, g, e, C, n)
        BY <2>17, <2>21, <4>1, LeadsData
      <4> HIDE DEF t
      <4> QED BY <4>2, <4>3, <4>4
    <3> QED BY <3>1, <3>2
  <2>23. Leads(todo', dfat', data', fat', e, content', n)
    BY <2>1, <2>2, <2>22
  <2>24. Volume(fat', e, Known', content') /\ writes' \in Nat
    BY <1>2, <2>1, <2>20
  <2> QED BY <2>14, <2>23, <2>24 DEF IInv
<1> QED BY <1>3, <1>4

-----------------------------------------------------------------------------
\* The start.

(* The clusters of the file the volume came with. *)
LEMMA HostFits ==
  /\ HostClusters \in Nat \ {0} /\ HostClusters <= Clusters - 1
  /\ HostClusters * ClusterUnits >= HostSize
  /\ HostClusters <= HostSize \div ClusterUnits + 1
<1> DEFINE m == ClusterUnits
           k == Clusters - 1
           x == HostSize + m - 1
           h == HostClusters
           H == h * m
           K == k * m
<1>1. m \in Nat \ {0} /\ k \in Nat /\ h = x \div m
  BY Units DEF HostClusters
<1>2. HostSize <= K
  <2>1. (Clusters - 1) * SecPerClus * SectorUnits = (Clusters - 1) * (SecPerClus * SectorUnits)
    OBVIOUS
  <2> QED BY <2>1 DEF ClusterUnits
<1> HIDE DEF m, k, h
<1>3. K \in Nat
  BY <1>1
<1> HIDE DEF K
<1>4. x \in Nat /\ HostSize \in Nat \ {0}
  BY <1>1
<1>5. h \in Nat /\ x % m \in 0 .. m - 1 /\ H \in Nat /\ x = H + (x % m)
  BY <1>1, <1>4, Divided
<1> HIDE DEF x
<1>6. x = HostSize + m - 1
  BY DEF x
<1>7. H >= HostSize
  <2> HIDE DEF H
  <2> QED BY <1>1, <1>4, <1>5, <1>6
<1>8. h # 0
  <2>1. h = 0 => H = 0
    BY <1>1
  <2> QED BY <1>4, <1>7, <2>1
<1>9. h <= k
  <2>1. k < h => K + m <= H
    BY <1>1, <1>5, Products DEF K
  <2> HIDE DEF H
  <2>2. ~ (k < h)
    BY <1>1, <1>2, <1>3, <1>4, <1>5, <1>6, <2>1
  <2> QED BY <1>1, <1>5, <2>2
<1>10. h <= HostSize \div m + 1
  <2> DEFINE q == HostSize \div m
             Q == q * m
             T == (q + 1) * m
  <2>1. q \in Nat /\ HostSize % m \in 0 .. m - 1 /\ Q \in Nat /\ HostSize = Q + (HostSize % m)
    BY <1>1, <1>4, Divided
  <2> HIDE DEF q
  <2>2. T = Q + m /\ T \in Nat /\ q + 1 \in Nat
    BY <1>1, <2>1
  <2>3. q + 1 < h => T + m <= H
    BY <1>1, <1>5, <2>2, Products
  <2> HIDE DEF Q, T, H
  <2>4. ~ (q + 1 < h)
    BY <1>1, <1>4, <1>5, <1>6, <2>1, <2>2, <2>3
  <2> QED BY <1>5, <2>1, <2>4 DEF q
<1> QED BY <1>1, <1>5, <1>7, <1>8, <1>9, <1>10 DEF m, k, h, H

(* The chains of the directory and of the file the volume came with. *)
LEMMA InitTree ==
  ASSUME Init
  PROVE  /\ Tree(fat, {Root, 3}) /\ Length(fat, 3) = HostClusters
         /\ \A k \in 0 .. HostClusters - 1 : Path(fat, 3)[k] = 3 + k
         /\ Root \in ChainOf(fat, Root) /\ 3 \in ChainOf(fat, 3)
<1> DEFINE h == HostClusters
           p == [k \in 0 .. 1 |-> IF k = 0 THEN Root ELSE EOF]
           q == [k \in 0 .. h |-> IF k < h THEN 3 + k ELSE EOF]
           o == 1
           t == 3
<1>1. h \in Nat \ {0} /\ h <= Clusters - 1 /\ Clusters \in Nat
  BY HostFits
<1> HIDE DEF h
<1>2. fat = [c \in Cluster |-> CASE c = Root -> EOF
                                 [] c \in 3 .. 1 + h -> c + 1
                                 [] c = 2 + h -> EOF
                                 [] OTHER -> FREE]
  BY DEF Init, h
<1>3. /\ EOF \notin Cluster /\ FREE \notin Cluster /\ EOF # FREE /\ Root = 2 /\ Root \in Cluster
      /\ \A c \in 3 .. 2 + h : c \in Cluster /\ c # Root
      /\ Cluster \subseteq Nat
  BY <1>1 DEF EOF, FREE, Cluster, Root
<1>4. /\ fat \in Table /\ fat[Root] = EOF /\ fat[2 + h] = EOF
      /\ \A c \in 3 .. 1 + h : fat[c] = c + 1
      /\ \A c \in Cluster : c # Root /\ c \notin 3 .. 2 + h => fat[c] = FREE
  <2>1. \A c \in Cluster : fat[c] = CASE c = Root -> EOF
                                 [] c \in 3 .. 1 + h -> c + 1
                                 [] c = 2 + h -> EOF
                                 [] OTHER -> FREE
    BY <1>2
  <2>2. fat[Root] = EOF
    BY <1>3, <2>1
  <2>3. \A c \in 3 .. 1 + h : c \in Cluster /\ c + 1 \in Cluster /\ fat[c] = c + 1
    <3> SUFFICES ASSUME NEW c \in 3 .. 1 + h
                 PROVE  c \in Cluster /\ c + 1 \in Cluster /\ fat[c] = c + 1
      OBVIOUS
    <3>1. c \in 3 .. 2 + h /\ c + 1 \in 3 .. 2 + h /\ c # 2 + h /\ c \in 3 .. 1 + h
      BY <1>1
    <3>2. c \in Cluster /\ c # Root /\ c + 1 \in Cluster
      BY <1>3, <3>1
    <3>3. fat[c] = CASE c = Root -> EOF
                     [] c \in 3 .. 1 + h -> c + 1
                     [] c = 2 + h -> EOF
                     [] OTHER -> FREE
      BY <2>1, <3>2
    <3>4. fat[c] = c + 1
      BY <3>1, <3>2, <3>3
    <3> QED BY <3>2, <3>4
  <2>4. fat[2 + h] = EOF
    <3>1. 2 + h \in 3 .. 2 + h /\ 2 + h \notin 3 .. 1 + h
      BY <1>1
    <3>2. 2 + h \in Cluster /\ 2 + h # Root
      BY <1>3, <3>1
    <3> QED BY <2>1, <3>1, <3>2
  <2>5. \A c \in Cluster : c # Root /\ c \notin 3 .. 2 + h => fat[c] = FREE
    <3> SUFFICES ASSUME NEW c \in Cluster, c # Root, c \notin 3 .. 2 + h
                 PROVE  fat[c] = FREE
      OBVIOUS
    <3>1. c \notin 3 .. 1 + h /\ c # 2 + h
      BY <1>1
    <3> QED BY <2>1, <3>1
  <2>6. \A c \in Cluster : fat[c] \in Cluster \cup {FREE, EOF}
    <3> SUFFICES ASSUME NEW c \in Cluster
                 PROVE  fat[c] \in Cluster \cup {FREE, EOF}
      OBVIOUS
    <3>1. c = Root \/ c \in 3 .. 1 + h \/ c = 2 + h \/ c \notin 3 .. 2 + h
      BY <1>1
    <3> QED BY <2>2, <2>3, <2>4, <2>5, <3>1
  <2>7. fat \in Table
    <3>1. fat = [c \in Cluster |-> fat[c]]
      BY <1>2
    <3> QED BY <2>6, <3>1 DEF Table
  <2> QED BY <2>2, <2>3, <2>4, <2>5, <2>7
<1>5. p[0] = Root /\ p[o] = EOF /\ o \in Nat /\ 0 + 1 = o /\ 0 .. o - 1 = {0}
  OBVIOUS
<1> HIDE DEF p, o
<1>6. Chain(fat, p, o)
  BY <1>3, <1>4, <1>5 DEF Chain
<1>7. Passes(fat, Root, p, o)
  BY <1>3, <1>5, <1>6 DEF Passes
<1>8. Good(fat, Root) /\ ChainOf(fat, Root) = {Root}
  <2>1. Good(fat, Root) /\ ChainOf(fat, Root) = {p[k] : k \in 0 .. o - 1}
    BY <1>7, GoodFrom
  <2> QED BY <1>5, <2>1
<1>9. /\ \A k \in 0 .. h - 1 : q[k] = 3 + k /\ 3 + k \in 3 .. 2 + h
      /\ q[h] = EOF /\ q[0] = t /\ t \in Cluster
  <2>1. q[h] = EOF /\ q[0] = 3
    BY <1>1
  <2>2. \A k \in 0 .. h - 1 : q[k] = 3 + k /\ 3 + k \in 3 .. 2 + h
    BY <1>1
  <2>3. 3 \in 3 .. 2 + h
    BY <1>1
  <2> QED BY <1>3, <2>1, <2>2, <2>3
<1>10. \A k \in 0 .. h - 1 : q[k] \in Cluster /\ fat[q[k]] = q[k + 1]
  <2> SUFFICES ASSUME NEW k \in 0 .. h - 1
               PROVE  q[k] \in Cluster /\ fat[q[k]] = q[k + 1]
    OBVIOUS
  <2>1. q[k] = 3 + k /\ 3 + k \in 3 .. 2 + h
    BY <1>9
  <2>2. CASE k = h - 1
    <3>1. 3 + k = 2 + h /\ k + 1 = h
      BY <1>1, <2>2
    <3> QED BY <1>3, <1>4, <1>9, <2>1, <3>1
  <2>3. CASE k # h - 1
    <3>1. 3 + k \in 3 .. 1 + h /\ k + 1 \in 0 .. h - 1 /\ 3 + k + 1 = 3 + (k + 1)
      BY <1>1, <2>3
    <3>2. q[k + 1] = 3 + k + 1
      BY <1>9, <3>1
    <3>3. 3 + k \in Cluster /\ fat[3 + k] = 3 + k + 1
      BY <1>3, <1>4, <2>1, <3>1
    <3> QED BY <2>1, <3>2, <3>3
  <2> QED BY <2>2, <2>3
<1> HIDE DEF q
<1>11. Chain(fat, q, h)
  <2>1. \A j, k \in 0 .. h - 1 : j # k => q[j] # q[k]
    BY <1>9
  <2> QED BY <1>1, <1>3, <1>9, <1>10, <2>1 DEF Chain
<1> HIDE DEF t
<1>12. Passes(fat, t, q, h)
  BY <1>9, <1>11 DEF Passes
<1>13. /\ Good(fat, t) /\ Length(fat, t) = h /\ \A k \in 0 .. h : Path(fat, t)[k] = q[k]
       /\ ChainOf(fat, t) = {q[k] : k \in 0 .. h - 1}
  BY <1>12, GoodFrom
<1>14. ChainOf(fat, t) = 3 .. 2 + h
  <2>1. \A c \in 3 .. 2 + h : c - 3 \in 0 .. h - 1 /\ 3 + (c - 3) = c
    BY <1>1
  <2> QED BY <1>9, <1>13, <2>1
<1>15. Tree(fat, {Root, t})
  <2>1. ChainOf(fat, Root) \cap ChainOf(fat, t) = {}
    BY <1>3, <1>8, <1>14
  <2>2. \A x \in Cluster : fat[x] # FREE <=> x = Root \/ x \in 3 .. 2 + h
    <3>1. \A c \in 3 .. 2 + h : c = 2 + h \/ c \in 3 .. 1 + h
      BY <1>1
    <3>2. \A c \in 3 .. 1 + h : c + 1 # FREE
      BY DEF FREE
    <3> QED BY <1>3, <1>4, <3>1, <3>2
  <2> QED BY <1>4, <1>8, <1>13, <1>14, <2>1, <2>2 DEF Tree
<1>16. \A k \in 0 .. h - 1 : Path(fat, t)[k] = 3 + k
  <2>1. \A k \in 0 .. h - 1 : k \in 0 .. h
    BY <1>1
  <2> QED BY <1>9, <1>13, <2>1
<1>17. Root \in ChainOf(fat, Root) /\ t \in ChainOf(fat, t)
  BY <1>8, <1>13, GoodIs
<1> QED BY <1>13, <1>15, <1>16, <1>17 DEF t, h

(* The directory's only entry is in unit 0, and the file's data behind it. *)
LEMMA InitUnits ==
  ASSUME Init
  PROVE  /\ IsDisk(data) /\ FileUnits(data) = {0} /\ Owner(0) = Root
         /\ data[0] = Entry(Host, 3, HostSize)
         /\ \A o \in 0 .. HostSize - 1 : data[At(fat, 3, o)] = Data(0)
<1> DEFINE m == ClusterUnits
<1>1. m \in Nat \ {0} /\ HostSize \in Nat \ {0}
  BY Units
<1>2. data = [u \in DiskUnits |->
       CASE u = 0 -> Entry(Host, 3, HostSize)
         [] u \in m .. m + HostSize - 1 -> Data(0)
         [] OTHER -> NoData]
  BY DEF Init
<1>3. 0 \in DiskUnits
  <2> DEFINE N == (Clusters + 1) * m
  <2>1. N \in Nat /\ N >= m
    <3>1. Clusters + 1 \in Nat /\ 1 \in Nat /\ 1 <= Clusters + 1 /\ 1 * m = m
      BY <1>1
    <3> HIDE DEF m
    <3> QED BY <1>1, <3>1, Products
  <2>2. DiskUnits = 0 .. N - 1
    BY DEF DiskUnits
  <2> HIDE DEF N, m
  <2> QED BY <1>1, <2>1, <2>2
<1> HIDE DEF m
<1>4. \A u \in DiskUnits : data[u] = CASE u = 0 -> Entry(Host, 3, HostSize)
                                       [] u \in m .. m + HostSize - 1 -> Data(0)
                                       [] OTHER -> NoData
  BY <1>2
<1>5. 0 \notin m .. m + HostSize - 1
  BY <1>1
<1>6. data[0] = Entry(Host, 3, HostSize)
  BY <1>3, <1>4, <1>5
<1>7. \A u \in DiskUnits : u # 0 => data[u] = IF u \in m .. m + HostSize - 1 THEN Data(0) ELSE NoData
  BY <1>4
<1>8. FileUnits(data) = {0}
  <2>1. Data(0)[1] # "file" /\ NoData[1] # "file" /\ data[0][1] = "file"
    BY <1>6, EntryIs DEF Data
  <2>2. \A u \in DiskUnits : data[u][1] = "file" <=> u = 0
    BY <1>7, <2>1
  <2> QED BY <1>3, <2>2 DEF FileUnits
<1>9. 0 \div m = 0
  <2>1. 0 * m + 0 = 0 /\ 0 \in 0 .. m - 1
    BY <1>1
  <2>2. (0 * m + 0) \div m = 0
    BY <1>1, <2>1, DividedIs
  <2> QED BY <2>1, <2>2
<1>10. Owner(0) = Root
  BY <1>9 DEF Owner, Root, m
<1>11. ASSUME NEW o \in 0 .. HostSize - 1
       PROVE  data[At(fat, 3, o)] = Data(0)
  <2> DEFINE q == o \div m
             r == o % m
             Q == q * m
             h == HostClusters
  <2>0. o \in Nat
    BY <1>1
  <2>1. q \in Nat /\ r \in 0 .. m - 1 /\ Q \in Nat /\ o = Q + r
    BY <1>1, <2>0, Divided
  <2>2. q < h
    <3>1. h * m >= HostSize /\ h \in Nat
      BY HostFits DEF m
    <3> DEFINE H == h * m
    <3>2. H \in Nat /\ (h <= q => H <= Q)
      BY <1>1, <2>1, <3>1, Products
    <3>3. H >= HostSize
      BY <3>1
    <3> HIDE DEF H, Q, q, r, h
    <3> QED BY <1>1, <2>1, <3>1, <3>2, <3>3
  <2>3. Path(fat, 3)[q] = 3 + q
    <3>1. h \in Nat
      BY HostFits
    <3> HIDE DEF q, h
    <3>2. q \in 0 .. h - 1
      BY <2>1, <2>2, <3>1
    <3> QED BY <3>2, InitTree DEF h
  <2>4. At(fat, 3, o) = ((3 + q) - 2) * m + r
    <3>1. At(fat, 3, o) = Unit(Path(fat, 3)[q], r)
      BY DEF At, m
    <3> HIDE DEF q, r
    <3>2. At(fat, 3, o) = Unit(3 + q, r)
      BY <2>3, <3>1
    <3>3. \A x, y : Unit(x, y) = (x - 2) * m + y
      BY DEF Unit, m
    <3> QED BY <3>2, <3>3
  <2>5. ((3 + q) - 2) * m = Q + m
    <3> HIDE DEF q
    <3>1. ((3 + q) - 2) * m = q * m + m
      BY <1>1, <2>1
    <3> QED BY <3>1
  <2> HIDE DEF q, r, Q
  <2>6. At(fat, 3, o) = m + o
    BY <1>1, <2>1, <2>4, <2>5
  <2>7. m + o \in m .. m + HostSize - 1 /\ m + o # 0
    BY <1>1
  <2>8. m + o \in DiskUnits
    <3>1. Length(fat, 3) * ClusterUnits >= HostSize /\ Good(fat, 3)
      <4>1. 3 \in {Root, 3}
        OBVIOUS
      <4>2. Good(fat, 3)
        BY <4>1, InitTree DEF Tree
      <4> QED BY <4>2, InitTree, HostFits
    <3>2. o \in Span(fat, 3)
      BY <1>1, <3>1, InSpan
    <3> QED BY <2>6, <3>1, <3>2, AtIs
  <2> QED BY <1>7, <2>6, <2>7, <2>8
<1>12. IsDisk(data)
  BY <1>2 DEF IsDisk
<1> QED BY <1>6, <1>8, <1>10, <1>11, <1>12

(* The volume is in order at the start. *)
LEMMA InitVolume ==
  ASSUME Init
  PROVE  Volume(fat, data, {}, content)
<1>1. /\ IsDisk(data) /\ FileUnits(data) = {0} /\ Owner(0) = Root
      /\ data[0][1] = "file" /\ data[0][2] = Host /\ data[0][3] = 3 /\ data[0][4] = HostSize
      /\ \A o \in 0 .. HostSize - 1 : data[At(fat, 3, o)] = Data(0)
  BY InitUnits, EntryIs
<1>2. /\ Tree(fat, {Root, 3}) /\ Length(fat, 3) = HostClusters
      /\ Root \in ChainOf(fat, Root)
  BY InitTree
<1>3. Starts(data) = {3} /\ Roots(data) = {Root, 3}
  BY <1>1 DEF Starts, Roots
<1>4. content = [n \in Names |-> IF n = Host THEN [o \in 0 .. HostSize - 1 |-> Data(0)]
                             ELSE Empty]
  BY DEF Init
<1>5. Listing(data)
  BY <1>1 DEF Listing
<1>6. content = [n \in Names |-> content[n]]
  BY <1>4
<1> DEFINE w == content[Host]
<1>7. DOMAIN w = 0 .. HostSize - 1 /\ \A o \in 0 .. HostSize - 1 : w[o] = Data(0)
  BY <1>4
<1> HIDE DEF w
<1>8. Fits(fat, data, 3, HostSize, w)
  <2>1. HostClusters * ClusterUnits >= HostSize /\ HostClusters <= HostSize \div ClusterUnits + 1
    BY HostFits
  <2> QED BY <1>1, <1>2, <1>7, <2>1 DEF Fits
<1>9. FileOK(fat, data, content, 0)
  BY <1>1, <1>2, <1>8 DEF FileOK, w
<1>10. Root \notin Starts(data)
  BY <1>3 DEF Root
<1> QED BY <1>1, <1>2, <1>3, <1>5, <1>6, <1>9, <1>10 DEF Volume, IsDisk

(* So the invariant holds at the start. *)
LEMMA InitIs == Init => IInv
<1> SUFFICES ASSUME Init
             PROVE  IInv
  OBVIOUS
<1>1. Volume(fat, data, {}, content)
  BY InitVolume
<1>2. Safe(fat, data, content, {Host})
  <2>1. Alike(content, content, {Host})
    BY DEF Alike
  <2> QED BY <1>1, <2>1, SafeVolume
<1>3. Leads(<<>>, fat, data, fat, data, content, Host)
  BY <1>2, LeadsNone
<1>4. todo = <<>> /\ dfat = fat /\ writes = 0 /\ current = {}
  BY DEF Init
<1>5. handle \in [Handles -> Handle]
  <2> DEFINE r == NoFile
  <2>1. r \in Handle /\ handle = [h \in Handles |-> r]
    BY NoFileIs DEF Init
  <2> HIDE DEF r
  <2> QED BY <2>1
<1>6. Known = {}
  BY <1>4 DEF Known
<1> QED BY <1>1, <1>3, <1>4, <1>5, <1>6 DEF IInv

(* Every step keeps the invariant. *)
LEMMA NextKeeps == SecPerClus = 1 /\ Careful /\ IInv /\ [Next]_vars => IInv'
<1> SUFFICES ASSUME SecPerClus = 1, Careful, IInv, [Next]_vars
             PROVE  IInv'
  OBVIOUS
<1>1. CASE DiskWrite
  BY <1>1, DiskWriteKeeps
<1>2. ASSUME NEW n \in Names, NEW x \in Handles, Open(x, n)
      PROVE  IInv'
  BY <1>2, OpenKeeps
<1>3. ASSUME NEW n \in Names, NEW x \in Handles, Create(x, n)
      PROVE  IInv'
  BY <1>3, CreateKeeps
<1>4. ASSUME NEW x \in Handles, Close(x)
      PROVE  IInv'
  BY <1>4, CloseKeeps
<1>5. ASSUME NEW n \in Names, Delete(n)
      PROVE  IInv'
  BY <1>5, DeleteKeeps
<1>6. ASSUME NEW x \in Handles, NEW s \in 0 .. MaxSize - 1, NEW size \in 1 .. MaxSize, Write(x, s, size)
      PROVE  IInv'
  <2>1. s \in Nat /\ size \in Nat \ {0}
    OBVIOUS
  <2> QED BY <1>6, <2>1, WriteKeeps
<1>7. ASSUME NEW x \in Handles, NEW s \in 0 .. MaxSize, Truncate(x, s)
      PROVE  IInv'
  <2>1. s \in Nat
    OBVIOUS
  <2> QED BY <1>7, <2>1, TruncateKeeps
<1>8. CASE UNCHANGED vars
  <2>1. Known' = Known
    BY <1>8 DEF vars, Known
  <2> QED BY <1>8, <2>1 DEF vars, IInv
<1> QED BY <1>1, <1>2, <1>3, <1>4, <1>5, <1>6, <1>7, <1>8 DEF Next

(* No sequence of calls of careful callers, and no prefix of the writes of one,
   breaks the invariant. *)
THEOREM Fat32Sound ==
  ASSUME SecPerClus = 1, Careful
  PROVE  Spec => []IInv
<1>1. IInv /\ [Next]_vars => IInv'
  BY NextKeeps
<1> QED BY <1>1, InitIs, PTL DEF Spec

-----------------------------------------------------------------------------
\* The properties of the volume.

(* Between calls the volume is at rest. *)
LEMMA IdleRest ==
  ASSUME IInv, Idle
  PROVE  AtRest
BY RestIs DEF Idle

(* A file there is has one entry, in one unit. *)
LEMMA FileIs ==
  ASSUME SecPerClus = 1, AtRest, NEW n \in Files
  PROVE  /\ Found(n) = {First(Found(n))}
         /\ \E u \in FileUnits(data) : data[u][2] = n /\ EntryOf(n) = data[u]
<1>1. PICK i \in Found(n) : TRUE
  BY DEF Files
<1>2. Found(n) = {i} /\ First(Found(n)) = i /\ Holds(n, i, At(fat, Root, i))
  BY FoundOne
<1> DEFINE u == At(fat, Root, i)
<1>3. u \in FileUnits(data) /\ data[u][2] = n /\ EntryAt(i) = data[u]
  BY <1>2 DEF Holds
<1>4. EntryOf(n) = data[u]
  BY <1>2, <1>3 DEF EntryOf
<1> QED BY <1>2, <1>3, <1>4

(* And every entry is a file's. *)
LEMMA UnitFile ==
  ASSUME SecPerClus = 1, AtRest, NEW u \in FileUnits(data)
  PROVE  data[u][2] \in Files /\ EntryOf(data[u][2]) = data[u]
<1> DEFINE n == data[u][2]
<1>1. PICK i \in Found(n) : At(fat, Root, i) = u
  BY FoundEvery
<1>2. n \in Names
  BY DEF AtRest, Volume, FileOK
<1> HIDE DEF n
<1>3. First(Found(n)) = i /\ Holds(n, i, At(fat, Root, i))
  BY <1>1, FoundOne
<1>4. EntryOf(n) = data[u] /\ n \in Files
  BY <1>1, <1>2, <1>3 DEF Holds, EntryOf, Files
<1> QED BY <1>4 DEF n

(* The invariant has ChainsApart, *)
LEMMA ApartNow ==
  ASSUME SecPerClus = 1, IInv
  PROVE  ChainsApart
<1> SUFFICES ASSUME Idle
             PROVE  ChainsApart
  BY DEF ChainsApart
<1> DEFINE start == [n \in Files |-> StartOf(EntryOf(n))]
           inUse == {n \in Files : start[n] # 0}
           D == {Root} \cup {start[n] : n \in inUse}
           chain == [c \in D |-> ChainOf(fat, c)]
<1>1. AtRest
  BY IdleRest
<1>2. Tree(fat, Roots(data)) /\ Root \notin Starts(data) /\ Listing(data)
  BY <1>1 DEF AtRest, Volume
<1>3. \A n \in Files : \E u \in FileUnits(data) : data[u][2] = n /\ start[n] = data[u][3]
  <2> SUFFICES ASSUME NEW n \in Files
               PROVE  \E u \in FileUnits(data) : data[u][2] = n /\ start[n] = data[u][3]
    OBVIOUS
  <2>1. PICK u \in FileUnits(data) : data[u][2] = n /\ EntryOf(n) = data[u]
    BY <1>1, FileIs
  <2> QED BY <2>1 DEF StartOf
<1>4. \A u \in FileUnits(data) : data[u][2] \in Files /\ start[data[u][2]] = data[u][3]
  <2> SUFFICES ASSUME NEW u \in FileUnits(data)
               PROVE  data[u][2] \in Files /\ start[data[u][2]] = data[u][3]
    OBVIOUS
  <2>1. data[u][2] \in Files /\ EntryOf(data[u][2]) = data[u]
    BY <1>1, UnitFile
  <2> QED BY <2>1 DEF StartOf
<1> HIDE DEF start
<1>5. \A n \in Files : Cardinality(Found(n)) = 1
  <2> SUFFICES ASSUME NEW n \in Files
               PROVE  Cardinality(Found(n)) = 1
    OBVIOUS
  <2> DEFINE x == First(Found(n))
  <2>1. Found(n) = {x}
    BY <1>1, FileIs
  <2> HIDE DEF x
  <2>2. Cardinality({x}) = 1
    BY FS_Singleton
  <2> QED BY <2>1, <2>2
<1>6. \A n, m \in inUse : n # m => start[n] # start[m]
  <2> SUFFICES ASSUME NEW n \in inUse, NEW m \in inUse, n # m
               PROVE  start[n] # start[m]
    OBVIOUS
  <2>1. PICK u \in FileUnits(data) : data[u][2] = n /\ start[n] = data[u][3]
    BY <1>3
  <2>2. PICK v \in FileUnits(data) : data[v][2] = m /\ start[m] = data[v][3]
    BY <1>3
  <2>3. start[n] # 0
    OBVIOUS
  <2> QED BY <1>2, <2>1, <2>2, <2>3 DEF Listing
<1>7. D = Roots(data)
  <2>1. ASSUME NEW n \in inUse
        PROVE  start[n] \in Starts(data)
    BY <1>3 DEF Starts
  <2>2. ASSUME NEW s \in Starts(data)
        PROVE  \E n \in inUse : start[n] = s
    <3>1. PICK u \in FileUnits(data) : data[u][3] = s /\ s # 0
      BY DEF Starts
    <3> QED BY <1>4, <3>1
  <2>3. {start[n] : n \in inUse} = Starts(data)
    <3> HIDE DEF inUse
    <3> QED BY <2>1, <2>2
  <2> QED BY <2>3 DEF Roots
<1> HIDE DEF inUse, D
<1>8. DOMAIN chain = D /\ \A c \in D : chain[c] = ChainOf(fat, c)
  OBVIOUS
<1> HIDE DEF chain
<1>9. \A c \in DOMAIN chain : Ends(fat, c)
  <2> SUFFICES ASSUME NEW c \in Roots(data)
               PROVE  Ends(fat, c)
    BY <1>7, <1>8
  <2>1. Good(fat, c)
    BY <1>2 DEF Tree
  <2> QED BY <2>1, GoodIs
<1>10. \A c, d \in DOMAIN chain : c # d => chain[c] \cap chain[d] = {}
  BY <1>2, <1>7, <1>8 DEF Tree
<1>11. UNION {chain[c] : c \in DOMAIN chain} = Cluster \ Unused(fat)
  <2>1. \A x : x \in UNION {chain[c] : c \in DOMAIN chain} <=> \E c \in Roots(data) : x \in ChainOf(fat, c)
    BY <1>7, <1>8
  <2>2. \A c \in Roots(data) : ChainOf(fat, c) \subseteq Cluster
    <3> SUFFICES ASSUME NEW c \in Roots(data)
                 PROVE  ChainOf(fat, c) \subseteq Cluster
      OBVIOUS
    <3>1. Good(fat, c)
      BY <1>2 DEF Tree
    <3> QED BY <3>1, GoodIs
  <2>3. \A x \in Cluster : x \notin Unused(fat) <=> \E c \in Roots(data) : x \in ChainOf(fat, c)
    BY <1>2 DEF Tree, Unused
  <2> QED BY <2>1, <2>2, <2>3
<1> QED BY <1>5, <1>6, <1>9, <1>10, <1>11 DEF ChainsApart, start, inUse, D, chain

(* The invariant has ChainFits, *)
LEMMA FitsNow ==
  ASSUME SecPerClus = 1, IInv
  PROVE  ChainFits
<1> SUFFICES ASSUME Idle, NEW n \in Files
             PROVE  LET entry  == EntryOf(n)
                        start  == StartOf(entry)
                        size   == SizeOf(entry)
                        length == Length(fat, start)
                    IN  /\ start = 0 <=> size = 0
                        /\ length * ClusterUnits >= size /\ length <= size \div ClusterUnits + 1
  BY DEF ChainFits
<1>1. AtRest
  BY IdleRest
<1>2. PICK u \in FileUnits(data) : data[u][2] = n /\ EntryOf(n) = data[u]
  BY <1>1, FileIs
<1> DEFINE s == data[u][3]
           z == data[u][4]
<1>3. StartOf(EntryOf(n)) = s /\ SizeOf(EntryOf(n)) = z
  BY <1>2 DEF StartOf, SizeOf
<1>4. Fits(fat, data, s, z, content[n])
  BY <1>1, <1>2 DEF AtRest, Volume, FileOK
<1> HIDE DEF s, z
<1>5. CASE s # 0
  BY <1>3, <1>4, <1>5 DEF Fits
<1>6. CASE s = 0
  <2>1. z = 0
    BY <1>4, <1>6 DEF Fits
  <2>2. Length(fat, 0) = 0
    BY NoChain
  <2>3. 0 \div ClusterUnits = 0 /\ 0 * ClusterUnits = 0
    BY Units
  <2> QED BY <1>3, <1>6, <2>1, <2>2, <2>3
<1> QED BY <1>5, <1>6

(* HandlesAgree, *)
LEMMA AgreeNow ==
  ASSUME SecPerClus = 1, IInv
  PROVE  HandlesAgree
<1> SUFFICES ASSUME Idle, NEW x \in current
             PROVE  /\ Found(handle[x].name) = {handle[x].findex}
                    /\ LET entry == EntryAt(handle[x].findex)
                       IN  /\ handle[x].size = SizeOf(entry)
                           /\ SizeOf(entry) # 0 => handle[x].fnode = StartOf(entry)
  BY DEF HandlesAgree
<1>1. AtRest
  BY IdleRest
<1> DEFINE r == handle[x]
<1>2. r \in Known
  BY DEF Known
<1> HIDE DEF r
<1>3. /\ Found(r.name) = {r.findex}
      /\ r.size = EntryAt(r.findex)[4] /\ (r.size # 0 => r.fnode = EntryAt(r.findex)[3])
  BY <1>1, <1>2, HandleFound
<1> QED BY <1>3 DEF SizeOf, StartOf, r

(* CrashKeeps, since todo begins with what is on the disk, *)
LEMMA CrashNow ==
  ASSUME SecPerClus = 1, IInv
  PROVE  CrashKeeps
<1>1. PICK e, n : Leads(todo, dfat, data, fat, e, content, n) /\ Volume(fat, e, Known, content)
  BY DEF IInv
<1>2. CASE todo = <<>>
  <2>1. AtRest
    BY <1>2, RestIs
  <2>2. Safe(fat, data, content, {}) /\ Good(fat, Root) /\ dfat = fat
    BY <2>1, RestSafe DEF AtRest
  <2>3. Safe(dfat, data, content, {}) /\ {} \subseteq Busy
    BY <2>2
  <2> QED BY <2>2, <2>3, SafeNow
<1>3. CASE todo # <<>>
  <2>1. Safe(dfat, data, content, {n})
    BY <1>1, LeadsSafe
  <2>2. n \in Busy
    <3>1. PICK D, F : Drains(todo, dfat, data, fat, D, F, content, n)
      BY <1>1 DEF Leads
    <3>2. PICK S : todo \in Seq(S)
      BY <1>1 DEF Leads, IsSeq
    <3>3. 1 \in 1 .. Len(todo) /\ DOMAIN todo = 1 .. Len(todo)
      BY <1>3, <3>2
    <3>4. todo[1].name = n
      BY <3>1, <3>3 DEF Drains
    <3> QED BY <3>3, <3>4 DEF Busy
  <2>3. Good(fat, Root)
    BY <1>1, Rooted DEF Volume
  <2>4. {n} \subseteq Busy
    BY <2>2
  <2> QED BY <2>1, <2>3, <2>4, SafeNow
<1> QED BY <1>2, <1>3

(* and ReadBack. *)
LEMMA ReadNow ==
  ASSUME SecPerClus = 1, IInv
  PROVE  ReadBack
<1> SUFFICES ASSUME Idle, NEW n \in Files
             PROVE  LET entry == EntryOf(n)
                        p     == Path(fat, StartOf(entry))
                    IN  /\ DOMAIN content[n] = 0 .. SizeOf(entry) - 1
                        /\ \A s, o \in DOMAIN content[n] :
                             s <= o /\ content[n][o] # NoData => data[Address(p, s, o)] = content[n][o]
  BY DEF ReadBack
<1>1. AtRest
  BY IdleRest
<1>2. PICK u \in FileUnits(data) : data[u][2] = n /\ EntryOf(n) = data[u]
  BY <1>1, FileIs
<1> DEFINE c == data[u][3]
           z == data[u][4]
           w == content[n]
<1>3. StartOf(EntryOf(n)) = c /\ SizeOf(EntryOf(n)) = z
  BY <1>2 DEF StartOf, SizeOf
<1>4. Fits(fat, data, c, z, w) /\ z \in Nat
  BY <1>1, <1>2 DEF AtRest, Volume, FileOK
<1>5. c # 0 => Good(fat, c)
  <2>1. c # 0 => c \in Roots(data)
    BY DEF Roots, Starts
  <2> QED BY <1>1, <2>1 DEF AtRest, Volume, Tree
<1> HIDE DEF c, z, w
<1>6. DOMAIN w = 0 .. z - 1
  BY <1>4 DEF Fits
<1>7. ASSUME NEW s \in 0 .. z - 1, NEW o \in 0 .. z - 1, w[o] # NoData
      PROVE  data[Address(Path(fat, c), s, o)] = w[o]
  <2>1. c # 0 /\ s \in Nat
    BY <1>4 DEF Fits
  <2>2. Good(fat, c) /\ Length(fat, c) * ClusterUnits >= z
    BY <1>4, <1>5, <2>1 DEF Fits
  <2>3. o \in Span(fat, c)
    BY <1>4, <2>2, InSpan
  <2>4. Address(Path(fat, c), s, o) = At(fat, c, o)
    BY <2>1, <2>2, <2>3, AddressAt
  <2> QED BY <1>4, <1>7, <2>4 DEF Fits
<1> QED BY <1>3, <1>6, <1>7 DEF w

-----------------------------------------------------------------------------

(* Between calls of the file system every cluster in use is in the chain of one
   file or of the directory: none is shared, none is lost, every chain ends, and
   no file has two entries, when callers write to and cut files through handles
   that are current. *)
THEOREM Fat32ChainsApart ==
  ASSUME SecPerClus = 1, Careful
  PROVE  Spec => []ChainsApart
<1>1. IInv => ChainsApart
  BY ApartNow
<1> QED BY <1>1, Fat32Sound, PTL

(* Between calls a chain is long enough for its file and at most one cluster too
   long, so the difference fwrite forms before it extends a chain never wraps
   for a careful caller. *)
THEOREM Fat32ChainFits ==
  ASSUME SecPerClus = 1, Careful
  PROVE  Spec => []ChainFits
<1>1. IInv => ChainFits
  BY FitsNow
<1> QED BY <1>1, Fat32Sound, PTL

(* What a handle remembers of its file is what the entry says, however often the
   file is open, until the file is changed or deleted through another handle. *)
THEOREM Fat32HandlesAgree ==
  ASSUME SecPerClus = 1, Careful
  PROVE  Spec => []HandlesAgree
<1>1. IInv => HandlesAgree
  BY AgreeNow
<1> QED BY <1>1, Fat32Sound, PTL

(* Between any two writes of a call the disk alone has every file but the one of
   the call, with its chain, its size and what was written to it, and gives no
   cluster to two files.  The entry of the file of the call may name a cluster
   that is free there. *)
THEOREM Fat32CrashKeeps ==
  ASSUME SecPerClus = 1, Careful
  PROVE  Spec => []CrashKeeps
<1>1. IInv => CrashKeeps
  BY CrashNow
<1> QED BY <1>1, Fat32Sound, PTL

(* A read gives what was written there last, whatever a careful caller wrote to,
   cut from or deleted from the volume in between. *)
THEOREM Fat32ReadBack ==
  ASSUME SecPerClus = 1, Careful
  PROVE  Spec => []ReadBack
<1>1. IInv => ReadBack
  BY ReadNow
<1> QED BY <1>1, Fat32Sound, PTL

=============================================================================
