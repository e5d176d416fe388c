----------------------------- MODULE HeapProofs -----------------------------
(***************************************************************************)
(* Proofs about the memory manager and the heap over it, for every memory, *)
(* page, limit, set of requests and size of both tables.                   *)
(*                                                                         *)
(* The memory manager: the free areas are in order and joined, and every   *)
(* address is free, held or recorded as lost, and only one of them.        *)
(*                                                                         *)
(* malloc, free and realloc: the heap gives back to the memory manager     *)
(* what it was given, once and with its size, so what is proved of the     *)
(* memory manager holds of the heap; and from that the blocks never        *)
(* overlap, the pages count their blocks, and every block has its frames.  *)
(***************************************************************************)
EXTENDS Heap, FiniteSetTheorems, TLAPS

USE MemmanAssumption

-----------------------------------------------------------------------------
\* The memory manager.

Areas == [addr : Nat, size : Nat]

\* The addresses of the first n areas of f.
BytesOfAll(f, n) == UNION {Bytes(f[i].addr, f[i].size) : i \in 0 .. n - 1}

\* The areas of f are not empty, in order, and no two touch.
InOrder(f, n) ==
  \A i \in 0 .. n - 1 :
    /\ f[i].size > 0
    /\ \A j \in 0 .. n - 1 : i < j => End(f[i]) < f[j].addr

\* The area r is behind the first i areas of f, and in front of those from k
\* on, and touches none of them.
Between(f, n, i, k, r) ==
  /\ \A j \in 0 .. i - 1 : End(f[j]) < r.addr
  /\ \A j \in k .. n - 1 : End(r) < f[j].addr

\* The first n areas f become g: r takes the place of f[i], or the place i
\* among them, and touches none of the others.
Changed(f, n, i, r, g) ==
  /\ n \in Nat /\ i \in 0 .. n - 1
  /\ f \in [0 .. n - 1 -> Areas] /\ InOrder(f, n)
  /\ r \in Areas /\ r.size > 0 /\ Between(f, n, i, i + 1, r)
  /\ g = [f EXCEPT ![i] = r]

Inserted(f, n, i, r, g) ==
  /\ n \in Nat /\ i \in 0 .. n
  /\ f \in [0 .. n - 1 -> Areas] /\ InOrder(f, n)
  /\ r \in Areas /\ r.size > 0 /\ Between(f, n, i, i, r)
  /\ g = WithAt(f, n, i, r)

\* n bytes at address a lie between the areas in front of place i and those
\* from it on.
AtPlace(i, a, n) ==
  /\ \A j \in 0 .. i - 1 : End(free[j]) <= a
  /\ \A j \in i .. frees - 1 : a + n <= free[j].addr

\* The free areas have become those with the n bytes at a.
Grown(a, n) ==
  /\ frees' \in 0 .. MaxFrees
  /\ maxfrees' \in Nat /\ frees' <= maxfrees' /\ maxfrees' <= MaxFrees
  /\ free' \in [0 .. frees' - 1 -> Areas]
  /\ InOrder(free', frees')
  /\ FreeBytes' = FreeBytes \cup Bytes(a, n)

\* The inductive invariant.  Coalesced speaks of neighbours only; that an area
\* lies behind all those in front of it is what disjointness needs.
IInv == TypeOK /\ InOrder(free, frees) /\ Partition

(* A set of numbers up to n has a smallest one. *)
LEMMA Least ==
  ASSUME NEW n \in Nat, NEW T \in SUBSET (0 .. n), T # {}
  PROVE  \E x \in T : \A y \in T : x <= y
<1> DEFINE D == {0 .. l - 1 : l \in T}
<1>1. T \subseteq Nat
  OBVIOUS
<1>2. D \subseteq FiniteSubsetsOf(Nat) /\ D # {}
  <2>1. ASSUME NEW l \in T
        PROVE  0 .. l - 1 \in FiniteSubsetsOf(Nat)
    <3>1. l \in Int /\ l - 1 \in Int /\ 0 .. l - 1 \in SUBSET Nat
      BY <1>1
    <3>2. IsFiniteSet(0 .. l - 1)
      BY <3>1, FS_Interval
    <3> QED BY <3>1, <3>2 DEF FiniteSubsetsOf
  <2>2. D # {}
    OBVIOUS
  <2> QED BY <2>1, <2>2
<1>3. PICK B \in D : \A C \in D : ~ (<<C, B>> \in StrictSubsetOrdering(Nat))
  BY <1>2, FS_StrictSubsetOrderingWellFounded, WFMin
<1>4. PICK x \in T : B = 0 .. x - 1
  OBVIOUS
<1>5. ASSUME NEW y \in T
      PROVE  ~ (y < x)
  <2>1. 0 .. y - 1 \in D
    OBVIOUS
  <2>2. ~ (0 .. y - 1 \subseteq 0 .. x - 1 /\ 0 .. y - 1 # 0 .. x - 1)
    <3>1. 0 .. y - 1 \in SUBSET Nat /\ 0 .. x - 1 \in SUBSET Nat
      BY <1>1
    <3>2. <<0 .. y - 1, 0 .. x - 1>> \notin StrictSubsetOrdering(Nat)
      BY <1>3, <1>4, <2>1
    <3> QED BY <3>1, <3>2 DEF StrictSubsetOrdering
  <2>3. CASE y < x
    <3>1. y \in 0 .. x - 1 /\ y \notin 0 .. y - 1
      BY <1>1, <2>3
    <3>2. 0 .. y - 1 \subseteq 0 .. x - 1
      BY <1>1, <2>3
    <3> QED BY <2>2, <3>1, <3>2
  <2> QED BY <2>3
<1>6. \A y \in T : x <= y
  BY <1>1, <1>5
<1> QED BY <1>6

(* A size rounded up to pages is a positive number. *)
LEMMA UpPositive ==
  ASSUME NEW n \in Nat \ {0}
  PROVE  Up(n) \in Nat \ {0}
<1> DEFINE q == (n + Page - 1) \div Page
<1>1. n + Page - 1 \in Nat /\ n + Page - 1 >= Page
  OBVIOUS
<1>2. q \in Nat /\ q > 0
  BY <1>1
<1> HIDE DEF q
<1>3. q * Page \in Nat /\ q * Page > 0
  BY <1>2
<1> QED BY <1>3 DEF Up, q

(* memman_alloc finds the first area that is large enough, or frees. *)
LEMMA FirstFitFinds ==
  ASSUME NEW n \in Nat, TypeOK
  PROVE  /\ FirstFit(n) \in 0 .. frees
         /\ FirstFit(n) < frees => free[FirstFit(n)].size >= n
         /\ \A j \in 0 .. FirstFit(n) - 1 : free[j].size < n
<1> DEFINE T == {i \in 0 .. frees : i < frees => free[i].size >= n}
<1>1. frees \in Nat /\ T \in SUBSET (0 .. frees) /\ frees \in T
  BY DEF TypeOK
<1>2. PICK i \in T : \A j \in T : i <= j
  BY <1>1, Least
<1>3. \A j \in 0 .. i - 1 : free[j].size < n
  <2> SUFFICES ASSUME NEW j \in 0 .. i - 1
               PROVE  free[j].size < n
    OBVIOUS
  <2>1. j \in 0 .. frees /\ j < frees /\ j \in 0 .. frees - 1
    BY <1>1
  <2>2. j \notin T
    BY <1>2, <2>1
  <2>3. free[j].size \in Nat
    BY <2>1 DEF TypeOK
  <2> QED BY <2>1, <2>2, <2>3
<1>4. \E k \in 0 .. frees : /\ k < frees => free[k].size >= n
                            /\ \A j \in 0 .. k - 1 : free[j].size < n
  BY <1>2, <1>3
<1> HIDE DEF T
<1> QED BY <1>4 DEF FirstFit

(* memman_free finds the place of an area among the free ones. *)
LEMMA PlaceOfFinds ==
  ASSUME NEW a \in Nat, TypeOK
  PROVE  /\ PlaceOf(a) \in 0 .. frees
         /\ PlaceOf(a) < frees => free[PlaceOf(a)].addr > a
         /\ \A j \in 0 .. PlaceOf(a) - 1 : free[j].addr <= a
<1> DEFINE T == {i \in 0 .. frees : i < frees => free[i].addr > a}
<1>1. frees \in Nat /\ T \in SUBSET (0 .. frees) /\ frees \in T
  BY DEF TypeOK
<1>2. PICK i \in T : \A j \in T : i <= j
  BY <1>1, Least
<1>3. \A j \in 0 .. i - 1 : free[j].addr <= a
  <2> SUFFICES ASSUME NEW j \in 0 .. i - 1
               PROVE  free[j].addr <= a
    OBVIOUS
  <2>1. j \in 0 .. frees /\ j < frees /\ j \in 0 .. frees - 1
    BY <1>1
  <2>2. j \notin T
    BY <1>2, <2>1
  <2>3. free[j].addr \in Nat
    BY <2>1 DEF TypeOK
  <2> QED BY <2>1, <2>2, <2>3
<1>4. \E k \in 0 .. frees : /\ k < frees => free[k].addr > a
                            /\ \A j \in 0 .. k - 1 : free[j].addr <= a
  BY <1>2, <1>3
<1> HIDE DEF T
<1> QED BY <1>4 DEF PlaceOf

(* Areas in order share no address. *)
LEMMA AreasApart ==
  ASSUME NEW n \in Nat, NEW f \in [0 .. n - 1 -> Areas], InOrder(f, n),
         NEW i \in 0 .. n - 1, NEW k \in 0 .. n - 1, k # i
  PROVE  Bytes(f[k].addr, f[k].size) \cap Bytes(f[i].addr, f[i].size) = {}
<1>1. f[k] \in Areas /\ f[i] \in Areas
  OBVIOUS
<1>2. k < i \/ i < k
  OBVIOUS
<1>3. End(f[k]) < f[i].addr \/ End(f[i]) < f[k].addr
  BY <1>2 DEF InOrder
<1> QED BY <1>1, <1>3 DEF Areas, Bytes, End

(* free[i] is dropped: the others stay in order, and its addresses go. *)
LEMMA WithoutKeeps ==
  ASSUME NEW n \in Nat, NEW i \in 0 .. n - 1,
         NEW f \in [0 .. n - 1 -> Areas], InOrder(f, n)
  PROVE  /\ Without(f, n, i) \in [0 .. n - 2 -> Areas]
         /\ InOrder(Without(f, n, i), n - 1)
         /\ BytesOfAll(Without(f, n, i), n - 1)
              = BytesOfAll(f, n) \ Bytes(f[i].addr, f[i].size)
<1> DEFINE g == Without(f, n, i)
           At(j) == IF j < i THEN j ELSE j + 1
<1>1. ASSUME NEW j \in 0 .. n - 2
      PROVE  At(j) \in 0 .. n - 1 /\ At(j) # i /\ g[j] = f[At(j)]
  BY DEF Without
<1>2. g \in [0 .. n - 2 -> Areas]
  BY <1>1 DEF Without
<1>3. ASSUME NEW j \in 0 .. n - 2, NEW k \in 0 .. n - 2, j < k
      PROVE  At(j) < At(k)
  BY <1>3
<1>4. ASSUME NEW k \in 0 .. n - 1, k # i
      PROVE  \E j \in 0 .. n - 2 : At(j) = k
  <2>1. CASE k < i
    BY <2>1
  <2>2. CASE k > i
    <3>1. k - 1 \in 0 .. n - 2 /\ At(k - 1) = k
      BY <2>2
    <3> QED BY <3>1
  <2> QED BY <1>4, <2>1, <2>2
<1>5. n - 1 - 1 = n - 2
  OBVIOUS
<1> HIDE DEF g, At
<1>6. InOrder(g, n - 1)
  <2>1. ASSUME NEW j \in 0 .. n - 2
        PROVE  g[j].size > 0
    BY <1>1 DEF InOrder
  <2>2. ASSUME NEW j \in 0 .. n - 2, NEW k \in 0 .. n - 2, j < k
        PROVE  End(g[j]) < g[k].addr
    <3>1. At(j) \in 0 .. n - 1 /\ At(k) \in 0 .. n - 1 /\ At(j) < At(k)
      BY <1>1, <1>3, <2>2
    <3>2. End(f[At(j)]) < f[At(k)].addr
      BY <3>1 DEF InOrder
    <3> QED BY <1>1, <3>2
  <2> QED BY <1>5, <2>1, <2>2 DEF InOrder
<1>7. ASSUME NEW k \in 0 .. n - 1, k # i
      PROVE  Bytes(f[k].addr, f[k].size) \cap Bytes(f[i].addr, f[i].size) = {}
  BY <1>7, AreasApart
<1>8. BytesOfAll(g, n - 1) = BytesOfAll(f, n) \ Bytes(f[i].addr, f[i].size)
  <2>1. ASSUME NEW x \in BytesOfAll(g, n - 1)
        PROVE  x \in BytesOfAll(f, n) /\ x \notin Bytes(f[i].addr, f[i].size)
    <3>1. PICK j \in 0 .. n - 2 : x \in Bytes(g[j].addr, g[j].size)
      BY <1>5 DEF BytesOfAll
    <3>2. x \in Bytes(f[At(j)].addr, f[At(j)].size) /\ At(j) \in 0 .. n - 1 /\ At(j) # i
      BY <1>1, <3>1
    <3> QED BY <1>7, <3>2 DEF BytesOfAll
  <2>2. ASSUME NEW x \in BytesOfAll(f, n), x \notin Bytes(f[i].addr, f[i].size)
        PROVE  x \in BytesOfAll(g, n - 1)
    <3>1. PICK k \in 0 .. n - 1 : x \in Bytes(f[k].addr, f[k].size)
      BY DEF BytesOfAll
    <3>2. PICK j \in 0 .. n - 2 : At(j) = k
      BY <1>4, <2>2, <3>1
    <3>3. x \in Bytes(g[j].addr, g[j].size)
      BY <1>1, <3>1, <3>2
    <3> QED BY <1>5, <3>3 DEF BytesOfAll
  <2> QED BY <2>1, <2>2
<1> QED BY <1>2, <1>6, <1>8 DEF g

(* free[i] is made larger, smaller or moved, and stays between its
   neighbours without touching them. *)
LEMMA ChangedKeeps ==
  ASSUME NEW f, NEW n, NEW i, NEW r, NEW g, Changed(f, n, i, r, g)
  PROVE  /\ g \in [0 .. n - 1 -> Areas]
         /\ InOrder(g, n)
         /\ BytesOfAll(g, n)
              = (BytesOfAll(f, n) \ Bytes(f[i].addr, f[i].size)) \cup Bytes(r.addr, r.size)
<1>0. /\ n \in Nat /\ i \in 0 .. n - 1
      /\ f \in [0 .. n - 1 -> Areas] /\ InOrder(f, n)
      /\ r \in Areas /\ r.size > 0 /\ Between(f, n, i, i + 1, r)
  BY DEF Changed
<1> USE <1>0
<1>1. g \in [0 .. n - 1 -> Areas] /\ g[i] = r
  BY DEF Changed
<1>2. \A k \in 0 .. n - 1 : k # i => g[k] = f[k]
  BY DEF Changed
<1>3. InOrder(g, n)
  <2>1. ASSUME NEW j \in 0 .. n - 1
        PROVE  g[j].size > 0
    BY <1>1, <1>2 DEF InOrder
  <2>2. ASSUME NEW j \in 0 .. n - 1, NEW k \in 0 .. n - 1, j < k
        PROVE  End(g[j]) < g[k].addr
    <3>1. CASE j = i
      <4>1. k \in i + 1 .. n - 1 /\ k # i
        BY <2>2, <3>1
      <4> QED BY <1>1, <1>2, <3>1, <4>1 DEF Between
    <3>2. CASE k = i
      <4>1. j \in 0 .. i - 1 /\ j # i
        BY <2>2, <3>2
      <4> QED BY <1>1, <1>2, <3>2, <4>1 DEF Between
    <3>3. CASE j # i /\ k # i
      <4>1. g[j] = f[j] /\ g[k] = f[k]
        BY <1>2, <3>3
      <4> QED BY <2>2, <4>1 DEF InOrder
    <3> QED BY <3>1, <3>2, <3>3
  <2> QED BY <2>1, <2>2 DEF InOrder
<1>4. ASSUME NEW k \in 0 .. n - 1, k # i
      PROVE  Bytes(f[k].addr, f[k].size) \cap Bytes(f[i].addr, f[i].size) = {}
  BY <1>4, AreasApart
<1>5. ASSUME NEW x \in BytesOfAll(g, n)
      PROVE  \/ x \in Bytes(r.addr, r.size)
             \/ x \in BytesOfAll(f, n) /\ x \notin Bytes(f[i].addr, f[i].size)
  <2>1. PICK k \in 0 .. n - 1 : x \in Bytes(g[k].addr, g[k].size)
    BY DEF BytesOfAll
  <2>2. CASE k = i
    BY <1>1, <2>1, <2>2
  <2>3. CASE k # i
    <3>1. x \in Bytes(f[k].addr, f[k].size)
      BY <1>2, <2>1, <2>3
    <3> QED BY <1>4, <2>3, <3>1 DEF BytesOfAll
  <2> QED BY <2>2, <2>3
<1>6. ASSUME NEW x \in Bytes(r.addr, r.size)
      PROVE  x \in BytesOfAll(g, n)
  BY <1>1 DEF BytesOfAll
<1>7. ASSUME NEW x \in BytesOfAll(f, n), x \notin Bytes(f[i].addr, f[i].size)
      PROVE  x \in BytesOfAll(g, n)
  <2>1. PICK k \in 0 .. n - 1 : x \in Bytes(f[k].addr, f[k].size)
    BY DEF BytesOfAll
  <2>2. k # i
    BY <1>7, <2>1
  <2>3. x \in Bytes(g[k].addr, g[k].size)
    BY <1>2, <2>1, <2>2
  <2> QED BY <2>3 DEF BytesOfAll
<1>8. BytesOfAll(g, n)
        = (BytesOfAll(f, n) \ Bytes(f[i].addr, f[i].size)) \cup Bytes(r.addr, r.size)
  BY <1>5, <1>6, <1>7
<1> QED BY <1>1, <1>3, <1>8

(* A new area at place i, between its neighbours without touching them. *)
LEMMA InsertedKeeps ==
  ASSUME NEW f, NEW n, NEW i, NEW r, NEW g, Inserted(f, n, i, r, g)
  PROVE  /\ g \in [0 .. n -> Areas]
         /\ InOrder(g, n + 1)
         /\ BytesOfAll(g, n + 1) = BytesOfAll(f, n) \cup Bytes(r.addr, r.size)
<1> DEFINE To(j) == IF j < i THEN j ELSE j + 1
<1>0. /\ n \in Nat /\ i \in 0 .. n
      /\ f \in [0 .. n - 1 -> Areas] /\ InOrder(f, n)
      /\ r \in Areas /\ r.size > 0 /\ Between(f, n, i, i, r)
  BY DEF Inserted
<1> USE <1>0
<1>1. ASSUME NEW j \in 0 .. n - 1
      PROVE  To(j) \in 0 .. n /\ To(j) # i /\ g[To(j)] = f[j]
  BY DEF Inserted, WithAt
<1>2. g[i] = r
  BY DEF Inserted, WithAt
<1>3. ASSUME NEW k \in 0 .. n, k # i
      PROVE  \E j \in 0 .. n - 1 : To(j) = k
  <2>1. CASE k < i
    BY <2>1
  <2>2. CASE k > i
    <3>1. k - 1 \in 0 .. n - 1 /\ To(k - 1) = k
      BY <2>2
    <3> QED BY <3>1
  <2> QED BY <1>3, <2>1, <2>2
<1>4. g \in [0 .. n -> Areas]
  <2>1. ASSUME NEW k \in 0 .. n
        PROVE  g[k] \in Areas
    <3>1. CASE k = i
      BY <1>2, <3>1
    <3>2. CASE k # i
      <4>1. PICK j \in 0 .. n - 1 : To(j) = k
        BY <1>3, <3>2
      <4> HIDE DEF To
      <4> QED BY <1>1, <4>1
    <3> QED BY <3>1, <3>2
  <2>2. g = [k \in 0 .. n |-> g[k]]
    BY DEF Inserted, WithAt
  <2> QED BY <2>1, <2>2
<1>5. \A j, k \in 0 .. n - 1 : To(j) < To(k) => j < k
  OBVIOUS
<1>6. \A j \in 0 .. n - 1 : (To(j) < i => j \in 0 .. i - 1) /\ (i < To(j) => j \in i .. n - 1)
  OBVIOUS
<1>7. n + 1 - 1 = n
  OBVIOUS
<1> HIDE DEF To
<1>8. InOrder(g, n + 1)
  <2>1. ASSUME NEW k \in 0 .. n
        PROVE  g[k].size > 0
    <3>1. CASE k = i
      BY <1>2, <3>1
    <3>2. CASE k # i
      <4>1. PICK j \in 0 .. n - 1 : To(j) = k
        BY <1>3, <3>2
      <4> QED BY <1>1, <4>1 DEF InOrder
    <3> QED BY <3>1, <3>2
  <2>2. ASSUME NEW k \in 0 .. n, NEW l \in 0 .. n, k < l
        PROVE  End(g[k]) < g[l].addr
    <3>1. CASE k = i
      <4>1. PICK j \in 0 .. n - 1 : To(j) = l
        BY <1>3, <2>2, <3>1
      <4>2. j \in i .. n - 1
        BY <1>6, <2>2, <3>1, <4>1
      <4> QED BY <1>1, <1>2, <3>1, <4>1, <4>2 DEF Between
    <3>2. CASE l = i
      <4>1. PICK j \in 0 .. n - 1 : To(j) = k
        BY <1>3, <2>2, <3>2
      <4>2. j \in 0 .. i - 1
        BY <1>6, <2>2, <3>2, <4>1
      <4> QED BY <1>1, <1>2, <3>2, <4>1, <4>2 DEF Between
    <3>3. CASE k # i /\ l # i
      <4>1. PICK j \in 0 .. n - 1 : To(j) = k
        BY <1>3, <3>3
      <4>2. PICK m \in 0 .. n - 1 : To(m) = l
        BY <1>3, <3>3
      <4>3. j < m
        BY <1>5, <2>2, <4>1, <4>2
      <4>4. End(f[j]) < f[m].addr
        BY <4>3 DEF InOrder
      <4> QED BY <1>1, <4>1, <4>2, <4>4
    <3> QED BY <3>1, <3>2, <3>3
  <2> QED BY <1>7, <2>1, <2>2 DEF InOrder
<1>9. ASSUME NEW x \in BytesOfAll(g, n + 1)
      PROVE  x \in BytesOfAll(f, n) \/ x \in Bytes(r.addr, r.size)
  <2>1. PICK k \in 0 .. n : x \in Bytes(g[k].addr, g[k].size)
    BY <1>7 DEF BytesOfAll
  <2>2. CASE k = i
    BY <1>2, <2>1, <2>2
  <2>3. CASE k # i
    <3>1. PICK j \in 0 .. n - 1 : To(j) = k
      BY <1>3, <2>3
    <3>2. x \in Bytes(f[j].addr, f[j].size)
      BY <1>1, <2>1, <3>1
    <3> QED BY <3>2 DEF BytesOfAll
  <2> QED BY <2>2, <2>3
<1>10. ASSUME NEW x \in BytesOfAll(f, n)
       PROVE  x \in BytesOfAll(g, n + 1)
  <2>1. PICK j \in 0 .. n - 1 : x \in Bytes(f[j].addr, f[j].size)
    BY DEF BytesOfAll
  <2>2. To(j) \in 0 .. n /\ x \in Bytes(g[To(j)].addr, g[To(j)].size)
    BY <1>1, <2>1
  <2> QED BY <1>7, <2>2 DEF BytesOfAll
<1>11. ASSUME NEW x \in Bytes(r.addr, r.size)
       PROVE  x \in BytesOfAll(g, n + 1)
  BY <1>2, <1>7 DEF BytesOfAll
<1>12. BytesOfAll(g, n + 1) = BytesOfAll(f, n) \cup Bytes(r.addr, r.size)
  BY <1>9, <1>10, <1>11
<1> QED BY <1>4, <1>8, <1>12

(* memman_alloc takes n bytes from the front of an area: order stays, and
   exactly these addresses are no longer free. *)
LEMMA TakenKeeps ==
  ASSUME IInv, NEW i \in 0 .. frees - 1, NEW n \in Nat \ {0},
         free[i].size >= n, Taken(i, n)
  PROVE  /\ frees' \in 0 .. frees
         /\ free' \in [0 .. frees' - 1 -> Areas]
         /\ InOrder(free', frees')
         /\ Bytes(free[i].addr, n) \subseteq FreeBytes
         /\ FreeBytes' = FreeBytes \ Bytes(free[i].addr, n)
<1>1. frees \in Nat /\ free \in [0 .. frees - 1 -> Areas] /\ InOrder(free, frees)
  BY DEF IInv, TypeOK, Areas
<1>2. free[i].addr \in Nat /\ free[i].size \in Nat
  BY <1>1 DEF Areas
<1>3. Bytes(free[i].addr, free[i].size) \subseteq BytesOfAll(free, frees)
  BY DEF BytesOfAll
<1>4. Bytes(free[i].addr, n) \subseteq Bytes(free[i].addr, free[i].size)
  BY <1>2 DEF Bytes
<1>5. FreeBytes = BytesOfAll(free, frees) /\ FreeBytes' = BytesOfAll(free', frees')
  BY DEF FreeBytes, BytesOfAll
<1>6. CASE free[i].size = n
  <2>1. frees' = frees - 1 /\ free' = Without(free, frees, i)
    BY <1>6 DEF Taken
  <2>2. frees' - 1 = frees - 2 /\ frees' \in 0 .. frees
    BY <1>1, <2>1
  <2>3. /\ free' \in [0 .. frees - 2 -> Areas]
        /\ InOrder(free', frees - 1)
        /\ BytesOfAll(free', frees - 1)
             = BytesOfAll(free, frees) \ Bytes(free[i].addr, free[i].size)
    BY <1>1, <2>1, WithoutKeeps
  <2> QED BY <1>3, <1>5, <1>6, <2>1, <2>2, <2>3
<1>7. CASE free[i].size # n
  <2> DEFINE r == Area(free[i].addr + n, free[i].size - n)
  <2>1. frees' = frees /\ free' = [free EXCEPT ![i] = r]
    BY <1>7 DEF Taken
  <2>2. r \in Areas /\ r.size > 0 /\ r.addr > free[i].addr /\ End(r) = End(free[i])
    BY <1>2, <1>7 DEF Areas, Area, End
  <2>3. Bytes(r.addr, r.size) = Bytes(free[i].addr, free[i].size) \ Bytes(free[i].addr, n)
    BY <1>2, <1>7 DEF Area, Bytes
  <2> HIDE DEF r
  <2>4. ASSUME NEW j \in 0 .. i - 1
        PROVE  End(free[j]) < r.addr
    <3>1. j \in 0 .. frees - 1 /\ j < i
      BY <1>1
    <3>2. End(free[j]) < free[i].addr
      BY <1>1, <3>1 DEF InOrder
    <3>3. End(free[j]) \in Nat /\ r.addr \in Nat
      BY <1>1, <2>2, <3>1 DEF Areas, End
    <3> QED BY <1>2, <2>2, <3>2, <3>3
  <2>5. ASSUME NEW j \in i + 1 .. frees - 1
        PROVE  End(r) < free[j].addr
    <3>1. j \in 0 .. frees - 1 /\ i < j
      BY <1>1
    <3> QED BY <1>1, <2>2, <3>1 DEF InOrder
  <2>6. /\ free' \in [0 .. frees - 1 -> Areas]
        /\ InOrder(free', frees)
        /\ BytesOfAll(free', frees)
             = (BytesOfAll(free, frees) \ Bytes(free[i].addr, free[i].size))
                 \cup Bytes(r.addr, r.size)
    <3>1. Between(free, frees, i, i + 1, r)
      BY <2>4, <2>5 DEF Between
    <3>2. frees \in Nat /\ r \in Areas /\ r.size > 0
      BY <1>1, <2>2
    <3>3. Changed(free, frees, i, r, free')
      BY <1>1, <2>1, <3>1, <3>2 DEF Changed
    <3> QED BY <3>3, ChangedKeeps
  <2>7. BytesOfAll(free', frees) = BytesOfAll(free, frees) \ Bytes(free[i].addr, n)
    BY <1>3, <1>4, <2>3, <2>6
  <2>8. frees' \in 0 .. frees
    BY <1>1, <2>1
  <2> QED BY <1>3, <1>4, <1>5, <2>1, <2>6, <2>7, <2>8
<1> QED BY <1>6, <1>7

(* memman_alloc_4k keeps the invariant. *)
LEMMA AllocKeeps ==
  ASSUME IInv, NEW n \in Sizes, Alloc4k(n),
         UNCHANGED <<maxfrees, losts, lostsize, lost>>
  PROVE  IInv'
<1> DEFINE i == FirstFit(Up(n))
<1>1. n \in Nat \ {0} /\ Up(n) \in Nat \ {0}
  BY UpPositive
<1>2. i \in 0 .. frees /\ (i < frees => free[i].size >= Up(n))
  BY <1>1, FirstFitFinds DEF IInv
<1>3. CASE i = frees
  <2>1. UNCHANGED <<frees, free, given, lost, maxfrees, losts, lostsize>> /\ result' = <<"alloc", 0, n>>
    BY <1>3 DEF Alloc4k
  <2>2. TypeOK'
    <3>1. result' \in {"alloc"} \X Nat \X Sizes
      BY <2>1
    <3> QED BY <2>1, <3>1 DEF IInv, TypeOK, Whole
  <2>3. InOrder(free, frees)' /\ Partition'
    <3>1. FreeBytes' = FreeBytes
      BY <2>1 DEF FreeBytes, Bytes
    <3>2. Partition'
      BY <2>1, <3>1 DEF IInv, Partition, Whole, Bytes, Up
    <3>3. InOrder(free, frees)'
      BY <2>1 DEF IInv, InOrder, End
    <3> QED BY <3>2, <3>3
  <2> QED BY <2>2, <2>3 DEF IInv
<1>4. CASE i # frees
  <2>1. /\ result' = <<"alloc", free[i].addr, n>>
        /\ given' = given \cup {<<free[i].addr, n>>}
        /\ Taken(i, Up(n))
    BY <1>4 DEF Alloc4k
  <2>2. i \in 0 .. frees - 1 /\ free[i].size >= Up(n) /\ frees \in 0 .. MaxFrees
    BY <1>2, <1>4 DEF IInv, TypeOK
  <2> HIDE DEF i
  <2>3. /\ frees' \in 0 .. frees
        /\ free' \in [0 .. frees' - 1 -> Areas]
        /\ InOrder(free', frees')
        /\ Bytes(free[i].addr, Up(n)) \subseteq FreeBytes
        /\ FreeBytes' = FreeBytes \ Bytes(free[i].addr, Up(n))
    BY <1>1, <2>1, <2>2, TakenKeeps
  <2>4. free[i].addr \in Nat
    BY <2>2 DEF IInv, TypeOK
  <2>5. free[i].addr \in Bytes(free[i].addr, Up(n))
    BY <1>1, <2>4 DEF Bytes
  <2>6. free[i].addr \in Whole
    BY <2>3, <2>5 DEF IInv, Partition
  <2>7. TypeOK'
    <3>1. /\ frees' \in 0 .. MaxFrees /\ maxfrees' \in frees' .. MaxFrees
          /\ losts' \in Nat /\ lostsize' \in Nat /\ lost' \subseteq Whole
      BY <2>2, <2>3 DEF IInv, TypeOK
    <3>2. given' \subseteq Whole \X Sizes
      BY <2>1, <2>6 DEF IInv, TypeOK
    <3>3. result' \in {"alloc"} \X Nat \X Sizes
      BY <2>1, <2>4
    <3> QED BY <2>3, <3>1, <3>2, <3>3 DEF TypeOK, Areas, Whole
  <2>8. Partition'
    <3> DEFINE B(h) == Bytes(h[1], Up(h[2]))
               new == <<free[i].addr, n>>
    <3>1. B(new) \subseteq FreeBytes /\ FreeBytes' = FreeBytes \ B(new)
      BY <2>3
    <3>2. given' = given \cup {new} /\ lost' = lost
      BY <2>1
    <3>3. /\ Whole = FreeBytes \cup lost \cup UNION {B(h) : h \in given}
          /\ FreeBytes \cap lost = {}
          /\ \A h \in given : B(h) \cap (FreeBytes \cup lost) = {}
          /\ \A h, k \in given : h # k => B(h) \cap B(k) = {}
      BY DEF IInv, Partition
    <3>4. Partition' <=>
            /\ Whole = FreeBytes' \cup lost' \cup UNION {B(h) : h \in given'}
            /\ FreeBytes' \cap lost' = {}
            /\ \A h \in given' : B(h) \cap (FreeBytes' \cup lost') = {}
            /\ \A h, k \in given' : h # k => B(h) \cap B(k) = {}
      BY DEF Partition, Whole, Bytes, Up
    <3> HIDE DEF B, new
    <3>5. UNION {B(h) : h \in given'} = B(new) \cup UNION {B(h) : h \in given}
      BY <3>2
    <3>6. Whole = FreeBytes' \cup lost' \cup UNION {B(h) : h \in given'}
      BY <3>1, <3>2, <3>3, <3>5
    <3>7. FreeBytes' \cap lost' = {}
      BY <3>1, <3>2, <3>3
    <3>8. \A h \in given' : B(h) \cap (FreeBytes' \cup lost') = {}
      BY <3>1, <3>2, <3>3
    <3>9. \A h, k \in given' : h # k => B(h) \cap B(k) = {}
      BY <3>1, <3>2, <3>3
    <3> QED BY <3>4, <3>6, <3>7, <3>8, <3>9
  <2> QED BY <2>3, <2>7, <2>8 DEF IInv
<1> QED BY <1>3, <1>4

(* Where an area that is given back lies among the free ones. *)
LEMMA FreeFits ==
  ASSUME IInv, NEW a \in Nat, NEW n \in Nat \ {0},
         Bytes(a, n) \cap FreeBytes = {}
  PROVE  PlaceOf(a) \in 0 .. frees /\ AtPlace(PlaceOf(a), a, n)
<1> DEFINE i == PlaceOf(a)
<1>1. /\ i \in 0 .. frees
      /\ i < frees => free[i].addr > a
      /\ \A j \in 0 .. i - 1 : free[j].addr <= a
  BY PlaceOfFinds DEF IInv
<1>2. frees \in Nat /\ \A j \in 0 .. frees - 1 : free[j].addr \in Nat /\ free[j].size \in Nat
  BY DEF IInv, TypeOK
<1>3. \A j \in 0 .. frees - 1 : Bytes(free[j].addr, free[j].size) \cap Bytes(a, n) = {}
  BY DEF FreeBytes
<1> HIDE DEF i
<1>4. ASSUME NEW j \in 0 .. i - 1
      PROVE  End(free[j]) <= a
  <2>1. j \in 0 .. frees - 1 /\ free[j].addr <= a
    BY <1>1, <1>2
  <2>2. a \in Bytes(a, n)
    BY DEF Bytes
  <2>3. a \notin Bytes(free[j].addr, free[j].size)
    BY <1>3, <2>1, <2>2
  <2> QED BY <1>2, <2>1, <2>3 DEF Bytes, End
<1>5. ASSUME NEW j \in i .. frees - 1
      PROVE  a + n <= free[j].addr
  <2>1. j \in 0 .. frees - 1 /\ i \in 0 .. frees - 1 /\ i < frees
    BY <1>1, <1>2
  <2>2. free[j].addr > a
    <3>1. CASE j = i
      BY <1>1, <2>1, <3>1
    <3>2. CASE j # i
      <4>1. i < j
        BY <1>1, <1>2, <3>2
      <4>2. End(free[i]) < free[j].addr
        BY <2>1, <4>1 DEF IInv, InOrder
      <4> QED BY <1>1, <1>2, <2>1, <4>2 DEF End
    <3> QED BY <3>1, <3>2
  <2>3. free[j].size > 0
    BY <2>1 DEF IInv, InOrder
  <2>4. free[j].addr \in Bytes(free[j].addr, free[j].size)
    BY <1>2, <2>1, <2>3 DEF Bytes
  <2>5. free[j].addr \notin Bytes(a, n)
    BY <1>3, <2>1, <2>4
  <2> QED BY <1>2, <2>1, <2>2, <2>5 DEF Bytes
<1>6. AtPlace(i, a, n)
  BY <1>4, <1>5 DEF AtPlace
<1> QED BY <1>1, <1>6 DEF i

(* The types of the free areas, for the lemmas on memman_free. *)
LEMMA FreeTypes ==
  ASSUME IInv
  PROVE  /\ frees \in Nat /\ maxfrees \in Nat /\ frees <= maxfrees /\ maxfrees <= MaxFrees
         /\ free \in [0 .. frees - 1 -> Areas]
         /\ InOrder(free, frees)
         /\ FreeBytes = BytesOfAll(free, frees)
         /\ \A j \in 0 .. frees - 1 :
              /\ free[j] \in Areas /\ free[j].addr \in Nat
              /\ free[j].size \in Nat /\ free[j].size > 0 /\ End(free[j]) \in Nat
<1>1. /\ frees \in Nat /\ maxfrees \in Nat /\ frees <= maxfrees /\ maxfrees <= MaxFrees
      /\ free \in [0 .. frees - 1 -> Areas]
  BY DEF IInv, TypeOK, Areas
<1>2. InOrder(free, frees)
  BY DEF IInv
<1>3. FreeBytes = BytesOfAll(free, frees)
  BY DEF FreeBytes, BytesOfAll
<1>4. ASSUME NEW j \in 0 .. frees - 1
      PROVE  /\ free[j] \in Areas /\ free[j].addr \in Nat
             /\ free[j].size \in Nat /\ free[j].size > 0 /\ End(free[j]) \in Nat
  <2>1. free[j] \in Areas
    BY <1>1
  <2>2. free[j].addr \in Nat /\ free[j].size \in Nat
    BY <2>1 DEF Areas
  <2>3. free[j].size > 0
    BY <1>2 DEF InOrder
  <2> QED BY <2>1, <2>2, <2>3 DEF End
<1> QED BY <1>1, <1>2, <1>3, <1>4

(* An area that does not touch the one in front of its place touches none of
   those in front. *)
LEMMA FrontApart ==
  ASSUME IInv, NEW a \in Nat, NEW n \in Nat \ {0}, NEW i \in 0 .. frees,
         AtPlace(i, a, n), ~JoinsFront(i, a)
  PROVE  \A j \in 0 .. i - 1 : End(free[j]) < a
<1> SUFFICES ASSUME NEW j \in 0 .. i - 1
             PROVE  End(free[j]) < a
  OBVIOUS
<1>1. frees \in Nat /\ j \in 0 .. frees - 1 /\ i - 1 \in 0 .. frees - 1 /\ i - 1 \in 0 .. i - 1
  BY FreeTypes
<1>2. End(free[i - 1]) \in Nat /\ End(free[j]) \in Nat /\ free[i - 1].addr \in Nat
  BY <1>1, FreeTypes
<1>3. End(free[i - 1]) < a
  <2>1. End(free[i - 1]) <= a
    BY <1>1 DEF AtPlace
  <2>2. End(free[i - 1]) # a
    BY <1>1 DEF JoinsFront
  <2> QED BY <1>2, <2>1, <2>2
<1>4. CASE j = i - 1
  BY <1>3, <1>4
<1>5. CASE j # i - 1
  <2>1. j < i - 1
    BY <1>1, <1>5
  <2>2. End(free[j]) < free[i - 1].addr
    BY <1>1, <2>1 DEF IInv, InOrder
  <2>3. free[i - 1].addr <= End(free[i - 1])
    BY <1>1, FreeTypes DEF End
  <2> QED BY <1>2, <1>3, <2>2, <2>3
<1> QED BY <1>4, <1>5

(* And one that does not touch the area at its place none of those behind. *)
LEMMA BackApart ==
  ASSUME IInv, NEW a \in Nat, NEW n \in Nat \ {0}, NEW i \in 0 .. frees,
         AtPlace(i, a, n), ~JoinsBack(i, a, n)
  PROVE  \A j \in i .. frees - 1 : a + n < free[j].addr
<1> SUFFICES ASSUME NEW j \in i .. frees - 1
             PROVE  a + n < free[j].addr
  OBVIOUS
<1>1. /\ frees \in Nat /\ j \in 0 .. frees - 1
      /\ i \in 0 .. frees - 1 /\ i \in i .. frees - 1 /\ i < frees
  BY FreeTypes
<1>2. /\ free[i].addr \in Nat /\ free[j].addr \in Nat
      /\ End(free[i]) \in Nat /\ free[i].addr <= End(free[i])
  BY <1>1, FreeTypes DEF End
<1>3. a + n < free[i].addr
  <2>1. a + n <= free[i].addr
    BY <1>1 DEF AtPlace
  <2>2. a + n # free[i].addr
    BY <1>1 DEF JoinsBack
  <2> QED BY <1>2, <2>1, <2>2
<1>4. CASE j = i
  BY <1>3, <1>4
<1>5. CASE j # i
  <2>1. i < j
    BY <1>1, <1>5
  <2>2. End(free[i]) < free[j].addr
    BY <1>1, <2>1 DEF IInv, InOrder
  <2> QED BY <1>2, <1>3, <2>2
<1> QED BY <1>4, <1>5

(* memman_free, no neighbour and a place left in the array. *)
LEMMA NewGrows ==
  ASSUME IInv, NEW a \in Nat, NEW n \in Nat \ {0}, NEW i \in 0 .. frees,
         AtPlace(i, a, n), FreeNew(i, a, n)
  PROVE  Grown(a, n)
<1> DEFINE r == Area(a, n)
<1>1. /\ ~JoinsFront(i, a) /\ ~JoinsBack(i, a, n) /\ frees < MaxFrees
      /\ frees' = frees + 1
      /\ maxfrees' = IF maxfrees < frees + 1 THEN frees + 1 ELSE maxfrees
      /\ free' = WithAt(free, frees, i, r)
  BY DEF FreeNew
<1>2. r \in Areas /\ r.size > 0 /\ r.addr = a /\ r.size = n /\ End(r) = a + n
  BY DEF Areas, Area, End
<1> HIDE DEF r
<1>3. Between(free, frees, i, i, r)
  BY <1>1, <1>2, FrontApart, BackApart DEF Between
<1>4. frees \in Nat /\ free \in [0 .. frees - 1 -> Areas] /\ InOrder(free, frees)
  BY FreeTypes
<1>5. /\ free' \in [0 .. frees -> Areas]
      /\ InOrder(free', frees + 1)
      /\ BytesOfAll(free', frees + 1) = BytesOfAll(free, frees) \cup Bytes(r.addr, r.size)
  <2>1. Inserted(free, frees, i, r, free')
    BY <1>1, <1>2, <1>3, <1>4 DEF Inserted
  <2> QED BY <2>1, InsertedKeeps
<1>6. frees' - 1 = frees /\ frees' \in 0 .. MaxFrees
  BY <1>1, <1>4
<1>7. maxfrees' \in Nat /\ frees' <= maxfrees' /\ maxfrees' <= MaxFrees
  BY <1>1, FreeTypes
<1>8. FreeBytes = BytesOfAll(free, frees) /\ FreeBytes' = BytesOfAll(free', frees')
  BY DEF FreeBytes, BytesOfAll
<1>9. /\ free' \in [0 .. frees' - 1 -> Areas] /\ InOrder(free', frees')
      /\ FreeBytes' = FreeBytes \cup Bytes(a, n)
  BY <1>1, <1>2, <1>5, <1>6, <1>8
<1> QED BY <1>6, <1>7, <1>9 DEF Grown

(* memman_free, joined with the area behind only. *)
LEMMA BackGrows ==
  ASSUME IInv, NEW a \in Nat, NEW n \in Nat \ {0}, NEW i \in 0 .. frees,
         AtPlace(i, a, n), FreeBack(i, a, n)
  PROVE  Grown(a, n)
<1> DEFINE r == Area(a, free[i].size + n)
<1>1. /\ ~JoinsFront(i, a) /\ JoinsBack(i, a, n)
      /\ free' = [free EXCEPT ![i] = r] /\ frees' = frees /\ maxfrees' = maxfrees
  BY DEF FreeBack
<1>2. i \in 0 .. frees - 1 /\ i < frees /\ a + n = free[i].addr
  BY <1>1, FreeTypes DEF JoinsBack
<1>3. free[i].addr \in Nat /\ free[i].size \in Nat
  BY <1>2, FreeTypes
<1>4. r \in Areas /\ r.size > 0 /\ r.addr = a /\ End(r) = End(free[i])
  BY <1>2, <1>3 DEF Areas, Area, End
<1>5. Bytes(r.addr, r.size) = Bytes(free[i].addr, free[i].size) \cup Bytes(a, n)
  BY <1>2, <1>3 DEF Area, Bytes
<1> HIDE DEF r
<1>6. frees \in Nat /\ free \in [0 .. frees - 1 -> Areas] /\ InOrder(free, frees)
  BY FreeTypes
<1>7. Between(free, frees, i, i + 1, r)
  <2>1. \A j \in 0 .. i - 1 : End(free[j]) < r.addr
    BY <1>1, <1>4, FrontApart
  <2>2. ASSUME NEW j \in i + 1 .. frees - 1
        PROVE  End(r) < free[j].addr
    <3>1. j \in 0 .. frees - 1 /\ i < j
      BY <1>2, <1>6
    <3> QED BY <1>2, <1>4, <1>6, <3>1 DEF InOrder
  <2> QED BY <2>1, <2>2 DEF Between
<1>8. /\ free' \in [0 .. frees - 1 -> Areas]
      /\ InOrder(free', frees)
      /\ BytesOfAll(free', frees)
           = (BytesOfAll(free, frees) \ Bytes(free[i].addr, free[i].size))
               \cup Bytes(r.addr, r.size)
  <2>1. Changed(free, frees, i, r, free')
    BY <1>1, <1>2, <1>4, <1>6, <1>7 DEF Changed
  <2> QED BY <2>1, ChangedKeeps
<1>9. Bytes(free[i].addr, free[i].size) \subseteq BytesOfAll(free, frees)
  BY <1>2 DEF BytesOfAll
<1>10. FreeBytes = BytesOfAll(free, frees) /\ FreeBytes' = BytesOfAll(free', frees')
  BY DEF FreeBytes, BytesOfAll
<1>11. free' \in [0 .. frees' - 1 -> Areas] /\ InOrder(free', frees')
  BY <1>1, <1>8
<1>12. FreeBytes' = FreeBytes \cup Bytes(a, n)
  BY <1>1, <1>5, <1>8, <1>9, <1>10
<1>13. /\ frees' \in 0 .. MaxFrees
       /\ maxfrees' \in Nat /\ frees' <= maxfrees' /\ maxfrees' <= MaxFrees
  BY <1>1, FreeTypes
<1> QED BY <1>11, <1>12, <1>13 DEF Grown
(* memman_free, joined with the area in front, and with the one behind if it
   touches too. *)
LEMMA FrontGrows ==
  ASSUME IInv, NEW a \in Nat, NEW n \in Nat \ {0}, NEW i \in 0 .. frees,
         AtPlace(i, a, n), FreeFront(i, a, n)
  PROVE  Grown(a, n)
<1>1. i > 0 /\ End(free[i - 1]) = a /\ maxfrees' = maxfrees
  BY DEF FreeFront, JoinsFront
<1>2. /\ frees \in Nat /\ i - 1 \in 0 .. frees - 1
      /\ free \in [0 .. frees - 1 -> Areas] /\ InOrder(free, frees)
  BY <1>1, FreeTypes
<1>3. free[i - 1].addr \in Nat /\ free[i - 1].size \in Nat /\ free[i - 1].size > 0
  BY <1>2, FreeTypes
<1>4. ASSUME NEW j \in 0 .. (i - 1) - 1
      PROVE  End(free[j]) < free[i - 1].addr
  <2>1. j \in 0 .. frees - 1 /\ j < i - 1
    BY <1>2
  <2> QED BY <1>2, <2>1 DEF InOrder
<1>5. FreeBytes = BytesOfAll(free, frees) /\ FreeBytes' = BytesOfAll(free', frees')
  BY DEF FreeBytes, BytesOfAll
<1>6. Bytes(free[i - 1].addr, free[i - 1].size) \subseteq BytesOfAll(free, frees)
  BY <1>2 DEF BytesOfAll
<1>7. CASE ~JoinsBack(i, a, n)
  <2> DEFINE r == Area(free[i - 1].addr, free[i - 1].size + n)
  <2>1. free' = [free EXCEPT ![i - 1].size = free[i - 1].size + n] /\ frees' = frees
    BY <1>7 DEF FreeFront
  <2>2. [free[i - 1] EXCEPT !.size = free[i - 1].size + n] = r
    <3>1. free[i - 1] \in Areas
      BY <1>2
    <3> QED BY <3>1 DEF Areas, Area
  <2>3. free' = [free EXCEPT ![i - 1] = r]
    BY <2>1, <2>2
  <2>4. r \in Areas /\ r.size > 0 /\ r.addr = free[i - 1].addr /\ End(r) = a + n
    BY <1>1, <1>3 DEF Areas, Area, End
  <2>5. Bytes(r.addr, r.size)
          = Bytes(free[i - 1].addr, free[i - 1].size) \cup Bytes(a, n)
    BY <1>1, <1>3 DEF Area, Bytes, End
  <2> HIDE DEF r
  <2>6. Between(free, frees, i - 1, (i - 1) + 1, r)
    <3>1. (i - 1) + 1 = i
      OBVIOUS
    <3>2. \A j \in i .. frees - 1 : End(r) < free[j].addr
      BY <1>7, <2>4, BackApart
    <3>3. \A j \in 0 .. (i - 1) - 1 : End(free[j]) < r.addr
      BY <1>4, <2>4
    <3> QED BY <3>1, <3>2, <3>3 DEF Between
  <2>7. /\ free' \in [0 .. frees - 1 -> Areas]
        /\ InOrder(free', frees)
        /\ BytesOfAll(free', frees)
             = (BytesOfAll(free, frees) \ Bytes(free[i - 1].addr, free[i - 1].size))
                 \cup Bytes(r.addr, r.size)
    <3>1. Changed(free, frees, i - 1, r, free')
      BY <1>2, <2>3, <2>4, <2>6 DEF Changed
    <3> QED BY <3>1, ChangedKeeps
  <2>8. FreeBytes' = FreeBytes \cup Bytes(a, n)
    BY <1>5, <1>6, <2>1, <2>5, <2>7
  <2>9. /\ frees' \in 0 .. MaxFrees
        /\ maxfrees' \in Nat /\ frees' <= maxfrees' /\ maxfrees' <= MaxFrees
    BY <1>1, <2>1, FreeTypes
  <2>10. free' \in [0 .. frees' - 1 -> Areas] /\ InOrder(free', frees')
    BY <2>1, <2>7
  <2> QED BY <2>8, <2>9, <2>10 DEF Grown
<1>8. CASE JoinsBack(i, a, n)
  <2> DEFINE w == Without(free, frees, i)
             r == Area(free[i - 1].addr, free[i - 1].size + n + free[i].size)
             e == [free EXCEPT ![i - 1].size = free[i - 1].size + n + free[i].size]
  <2>1. free' = Without(e, frees, i) /\ frees' = frees - 1
    BY <1>8 DEF FreeFront
  <2>2. i \in 0 .. frees - 1 /\ i < frees /\ a + n = free[i].addr
    BY <1>8, <1>2 DEF JoinsBack
  <2>3. free[i].addr \in Nat /\ free[i].size \in Nat /\ free[i].size > 0
    BY <2>2, FreeTypes
  <2>4. r \in Areas /\ r.size > 0 /\ r.addr = free[i - 1].addr /\ End(r) = End(free[i])
    BY <1>1, <1>3, <2>2, <2>3 DEF Areas, Area, End
  <2>5. Bytes(r.addr, r.size)
          = Bytes(free[i - 1].addr, free[i - 1].size)
              \cup Bytes(a, n) \cup Bytes(free[i].addr, free[i].size)
    BY <1>1, <1>3, <2>2, <2>3 DEF Area, Bytes, End
  <2>6. /\ w \in [0 .. frees - 2 -> Areas]
        /\ InOrder(w, frees - 1)
        /\ BytesOfAll(w, frees - 1)
             = BytesOfAll(free, frees) \ Bytes(free[i].addr, free[i].size)
    BY <1>2, <2>2, WithoutKeeps
  <2>7. /\ \A j \in 0 .. i - 1 : w[j] = free[j]
        /\ \A j \in i .. frees - 2 : w[j] = free[j + 1]
    BY <1>2, <2>2 DEF Without
  <2>8. free' = [w EXCEPT ![i - 1] = r]
    <3>1. e[i - 1] = r
      <4>1. free[i - 1] \in Areas
        BY <1>2
      <4> QED BY <1>2, <4>1 DEF Areas, Area
    <3>2. \A j \in 0 .. frees - 1 : j # i - 1 => e[j] = free[j]
      BY <1>2
    <3> HIDE DEF e, r
    <3>3. w = [j \in 0 .. frees - 2 |-> IF j < i THEN free[j] ELSE free[j + 1]]
      BY DEF Without
    <3>4. free' = [j \in 0 .. frees - 2 |-> IF j < i THEN e[j] ELSE e[j + 1]]
      BY <2>1 DEF Without
    <3> HIDE DEF w
    <3>5. ASSUME NEW j \in 0 .. frees - 2
          PROVE  free'[j] = [w EXCEPT ![i - 1] = r][j]
      <4>1. CASE j = i - 1
        BY <1>1, <1>2, <3>1, <3>3, <3>4, <4>1
      <4>2. CASE j < i - 1
        BY <1>1, <1>2, <3>2, <3>3, <3>4, <4>2
      <4>3. CASE j > i - 1
        BY <1>1, <1>2, <3>2, <3>3, <3>4, <4>3
      <4> QED BY <1>2, <4>1, <4>2, <4>3
    <3>6. [w EXCEPT ![i - 1] = r] = [j \in 0 .. frees - 2 |-> [w EXCEPT ![i - 1] = r][j]]
      BY <3>3
    <3>7. free' = [j \in 0 .. frees - 2 |-> free'[j]]
      BY <3>4
    <3> QED BY <3>5, <3>6, <3>7
  <2> HIDE DEF r, w, e
  <2>9. Between(w, frees - 1, i - 1, (i - 1) + 1, r)
    <3>1. (i - 1) + 1 = i /\ (frees - 1) - 1 = frees - 2
      BY <1>2
    <3>2. ASSUME NEW j \in i .. frees - 2
          PROVE  End(r) < w[j].addr
      <4>1. j + 1 \in 0 .. frees - 1 /\ i < j + 1
        BY <1>2
      <4>2. End(free[i]) < free[j + 1].addr
        BY <1>2, <2>2, <4>1 DEF InOrder
      <4> QED BY <2>4, <2>7, <4>2
    <3>3. ASSUME NEW j \in 0 .. (i - 1) - 1
          PROVE  End(w[j]) < r.addr
      <4>1. j \in 0 .. i - 1
        BY <1>2
      <4> QED BY <1>4, <2>4, <2>7, <4>1
    <3> QED BY <3>1, <3>2, <3>3 DEF Between
  <2>10. /\ free' \in [0 .. frees - 2 -> Areas]
         /\ InOrder(free', frees - 1)
         /\ BytesOfAll(free', frees - 1)
              = (BytesOfAll(w, frees - 1) \ Bytes(w[i - 1].addr, w[i - 1].size))
                  \cup Bytes(r.addr, r.size)
    <3>1. (frees - 1) - 1 = frees - 2 /\ frees - 1 \in Nat /\ i - 1 \in 0 .. frees - 2
      BY <1>1, <1>2, <2>2
    <3>2. Changed(w, frees - 1, i - 1, r, free')
      BY <2>4, <2>6, <2>8, <2>9, <3>1 DEF Changed
    <3> QED BY <3>1, <3>2, ChangedKeeps
  <2>11. w[i - 1] = free[i - 1]
    <3>1. i - 1 \in 0 .. i - 1
      BY <1>2
    <3> QED BY <2>7, <3>1
  <2>12. frees' - 1 = frees - 2
    BY <1>2, <2>1
  <2>13. Bytes(free[i].addr, free[i].size) \subseteq BytesOfAll(free, frees)
    BY <2>2 DEF BytesOfAll
  <2>14. FreeBytes' = FreeBytes \cup Bytes(a, n)
    BY <1>5, <1>6, <2>1, <2>5, <2>6, <2>10, <2>11, <2>13
  <2>15. /\ frees' \in 0 .. MaxFrees
         /\ maxfrees' \in Nat /\ frees' <= maxfrees' /\ maxfrees' <= MaxFrees
    BY <1>1, <2>1, <2>2, FreeTypes
  <2>16. free' \in [0 .. frees' - 1 -> Areas] /\ InOrder(free', frees')
    BY <2>1, <2>10, <2>12
  <2> QED BY <2>14, <2>15, <2>16 DEF Grown
<1> QED BY <1>7, <1>8

(* memman_free_4k keeps the invariant. *)
LEMMA FreeKeeps ==
  ASSUME IInv, NEW h \in given, Free4k(h)
  PROVE  IInv'
<1> DEFINE a == h[1]
           n == Up(h[2])
           i == PlaceOf(a)
           B(k) == Bytes(k[1], Up(k[2]))
<1>1. h[1] \in Whole /\ h[2] \in Sizes
  BY DEF IInv, TypeOK
<1>2. a \in Nat /\ n \in Nat \ {0}
  <2>1. a \in Nat
    BY <1>1 DEF Whole
  <2> QED BY <1>1, <2>1, UpPositive
<1>3. /\ Whole = FreeBytes \cup lost \cup UNION {B(k) : k \in given}
      /\ FreeBytes \cap lost = {}
      /\ \A k \in given : B(k) \cap (FreeBytes \cup lost) = {}
      /\ \A k, l \in given : k # l => B(k) \cap B(l) = {}
  BY DEF IInv, Partition
<1>4. B(h) = Bytes(a, n)
  OBVIOUS
<1>5. i \in 0 .. frees /\ AtPlace(i, a, n)
  <2>1. Bytes(a, n) \cap FreeBytes = {}
    BY <1>3, <1>4
  <2> HIDE DEF a, n
  <2> QED BY <1>2, <2>1, FreeFits
<1>6. /\ given' = given \ {h}
      /\ FreeFront(i, a, n) \/ FreeBack(i, a, n) \/ FreeNew(i, a, n) \/ FreeLost(i, a, n)
  BY DEF Free4k, MemmanFree
<1>7. Partition' <=>
        /\ Whole = FreeBytes' \cup lost' \cup UNION {B(k) : k \in given'}
        /\ FreeBytes' \cap lost' = {}
        /\ \A k \in given' : B(k) \cap (FreeBytes' \cup lost') = {}
        /\ \A k, l \in given' : k # l => B(k) \cap B(l) = {}
  BY DEF Partition, Whole, Bytes, Up
<1>8. given' \subseteq Whole \X Sizes
  BY <1>6 DEF IInv, TypeOK
<1> HIDE DEF a, n, i, B
<1>9. CASE FreeLost(i, a, n)
  <2>1. /\ losts' = losts + 1 /\ lostsize' = lostsize + n
        /\ lost' = lost \cup Bytes(a, n) /\ result' = <<"free", -1>>
        /\ UNCHANGED <<frees, free, maxfrees>>
    BY <1>9 DEF FreeLost, Bytes
  <2>2. lost' \subseteq Whole
    BY <1>3, <1>4, <2>1
  <2>3. TypeOK'
    <3>1. /\ frees' \in 0 .. MaxFrees /\ maxfrees' \in frees' .. MaxFrees
          /\ free' \in [0 .. frees' - 1 -> [addr : Nat, size : Nat]]
          /\ losts' \in Nat /\ lostsize' \in Nat
      BY <1>2, <2>1 DEF IInv, TypeOK
    <3>2. result' \in {"free"} \X {0, -1}
      BY <2>1
    <3> QED BY <1>8, <2>2, <3>1, <3>2 DEF TypeOK, Whole
  <2>4. FreeBytes' = FreeBytes /\ InOrder(free, frees)'
    <3>1. FreeBytes' = FreeBytes
      BY <2>1 DEF FreeBytes, Bytes
    <3>2. InOrder(free, frees)'
      BY <2>1 DEF IInv, InOrder, End
    <3> QED BY <3>1, <3>2
  <2>5. Partition'
    <3>1. Whole = FreeBytes' \cup lost' \cup UNION {B(k) : k \in given'}
      BY <1>3, <1>4, <1>6, <2>1, <2>4
    <3>2. FreeBytes' \cap lost' = {}
      BY <1>3, <1>4, <2>1, <2>4
    <3>3. \A k \in given' : B(k) \cap (FreeBytes' \cup lost') = {}
      BY <1>3, <1>4, <1>6, <2>1, <2>4
    <3>4. \A k, l \in given' : k # l => B(k) \cap B(l) = {}
      BY <1>3, <1>6
    <3> QED BY <1>7, <3>1, <3>2, <3>3, <3>4
  <2> QED BY <2>3, <2>4, <2>5 DEF IInv
<1>10. CASE FreeFront(i, a, n) \/ FreeBack(i, a, n) \/ FreeNew(i, a, n)
  <2>1. Grown(a, n)
    BY <1>2, <1>5, <1>10, FrontGrows, BackGrows, NewGrows
  <2>2. result' = <<"free", 0>> /\ UNCHANGED <<losts, lostsize, lost>>
    BY <1>10 DEF FreeFront, FreeBack, FreeNew
  <2>3. TypeOK'
    <3>1. /\ frees' \in 0 .. MaxFrees /\ maxfrees' \in frees' .. MaxFrees
          /\ free' \in [0 .. frees' - 1 -> [addr : Nat, size : Nat]]
      <4>1. frees' \in 0 .. MaxFrees /\ maxfrees' \in Nat
            /\ frees' <= maxfrees' /\ maxfrees' <= MaxFrees
        BY <2>1 DEF Grown
      <4>2. free' \in [0 .. frees' - 1 -> [addr : Nat, size : Nat]]
        BY <2>1 DEF Grown, Areas
      <4>3. maxfrees' \in frees' .. MaxFrees
        BY <4>1
      <4> QED BY <4>1, <4>2, <4>3
    <3>2. losts' \in Nat /\ lostsize' \in Nat /\ lost' \subseteq Whole
      BY <2>2 DEF IInv, TypeOK
    <3>3. result' \in {"free"} \X {0, -1}
      BY <2>2
    <3> QED BY <1>8, <3>1, <3>2, <3>3 DEF TypeOK, Whole
  <2>4. FreeBytes' = FreeBytes \cup Bytes(a, n) /\ InOrder(free', frees')
    BY <2>1 DEF Grown
  <2>5. Partition'
    <3>1. Whole = FreeBytes' \cup lost' \cup UNION {B(k) : k \in given'}
      BY <1>3, <1>4, <1>6, <2>2, <2>4
    <3>2. FreeBytes' \cap lost' = {}
      BY <1>3, <1>4, <2>2, <2>4
    <3>3. \A k \in given' : B(k) \cap (FreeBytes' \cup lost') = {}
      BY <1>3, <1>4, <1>6, <2>2, <2>4
    <3>4. \A k, l \in given' : k # l => B(k) \cap B(l) = {}
      BY <1>3, <1>6
    <3> QED BY <1>7, <3>1, <3>2, <3>3, <3>4
  <2> QED BY <2>3, <2>4, <2>5 DEF IInv
<1> QED BY <1>6, <1>9, <1>10

(* memman_init and the first memman_free establish the invariant. *)
LEMMA InitHolds ==
  ASSUME Init
  PROVE  IInv
<1>1. /\ frees = 1 /\ free = [i \in {0} |-> Area(Base, Total)] /\ maxfrees = 1
      /\ losts = 0 /\ lostsize = 0 /\ given = {} /\ lost = {} /\ result = <<"none", 0>>
  BY DEF Init
<1>2. 0 .. frees - 1 = {0} /\ free[0] = Area(Base, Total)
  BY <1>1
<1>3. TypeOK
  <2>1. free \in [{0} -> [addr : Nat, size : Nat]]
    BY <1>1 DEF Area
  <2> QED BY <1>1, <1>2, <2>1 DEF TypeOK
<1>4. InOrder(free, frees)
  BY <1>1, <1>2 DEF InOrder, Area
<1>5. FreeBytes = Whole
  BY <1>2 DEF FreeBytes, Bytes, Whole, Area
<1>6. Partition
  BY <1>1, <1>5 DEF Partition
<1> QED BY <1>3, <1>4, <1>6 DEF IInv

(* What leaves the memory manager alone keeps the invariant. *)
LEMMA StutterKeeps ==
  ASSUME IInv, UNCHANGED vars
  PROVE  IInv'
<1>1. UNCHANGED <<frees, free, maxfrees, losts, lostsize, given, lost, result>>
  BY DEF vars
<1>2. TypeOK'
  BY <1>1 DEF IInv, TypeOK, Whole
<1>3. FreeBytes' = FreeBytes
  BY <1>1 DEF FreeBytes, Bytes
<1>4. Partition'
  BY <1>1, <1>3 DEF IInv, Partition, Whole, Bytes, Up
<1>5. InOrder(free, frees)'
  BY <1>1 DEF IInv, InOrder, End
<1> QED BY <1>2, <1>4, <1>5 DEF IInv

(* Every state keeps the areas in order and every address in one place,
   through every memman_alloc_4k and memman_free_4k. *)
THEOREM MemmanInvariant == Spec => []IInv
<1>1. Init => IInv
  BY InitHolds
<1>2. IInv /\ [Next]_vars => IInv'
  <2> SUFFICES ASSUME IInv, [Next]_vars
               PROVE  IInv'
    OBVIOUS
  <2>1. ASSUME NEW n \in Sizes, Alloc4k(n), UNCHANGED <<maxfrees, losts, lostsize, lost>>
        PROVE  IInv'
    BY <2>1, AllocKeeps
  <2>2. ASSUME NEW h \in given, Free4k(h)
        PROVE  IInv'
    BY <2>2, FreeKeeps
  <2>3. CASE UNCHANGED vars
    BY <2>3, StutterKeeps
  <2> QED BY <2>1, <2>2, <2>3 DEF Next
<1> QED BY <1>1, <1>2, PTL DEF Spec

(* No area is empty and no two neighbours touch, whatever is given back and in
   whatever order. *)
THEOREM MemmanCoalesced == Spec => []Coalesced
<1>1. IInv => Coalesced
  <2> SUFFICES ASSUME IInv, NEW i \in 0 .. frees - 1
               PROVE  /\ free[i].size > 0
                      /\ i < frees - 1 => End(free[i]) < free[i + 1].addr
    BY DEF Coalesced
  <2>1. frees \in Nat
    BY DEF IInv, TypeOK
  <2>2. free[i].size > 0
    BY DEF IInv, InOrder
  <2>3. ASSUME i < frees - 1
        PROVE  End(free[i]) < free[i + 1].addr
    <3>1. i + 1 \in 0 .. frees - 1 /\ i < i + 1
      BY <2>1, <2>3
    <3> QED BY <3>1 DEF IInv, InOrder
  <2> QED BY <2>2, <2>3
<1> QED BY <1>1, MemmanInvariant, PTL

(* Every address is free, held by one caller or recorded as lost, and only one
   of them. *)
THEOREM MemmanPartition == Spec => []Partition
<1>1. IInv => Partition
  BY DEF IInv
<1> QED BY <1>1, MemmanInvariant, PTL
-----------------------------------------------------------------------------
(* A run of free addresses lies in one area: areas that touch are joined. *)
LEMMA RunInOneArea ==
  ASSUME IInv, NEW a \in FreeBytes, NEW m \in Nat \ {0}, Bytes(a, m) \subseteq FreeBytes
  PROVE  \E k \in 0 .. frees - 1 : m <= free[k].size
<1>1. PICK k \in 0 .. frees - 1 : a \in Bytes(free[k].addr, free[k].size)
  BY DEF FreeBytes
<1>2. /\ frees \in Nat /\ free[k].addr \in Nat /\ free[k].size \in Nat
      /\ End(free[k]) \in Nat
  BY FreeTypes
<1>3. a \in Nat /\ free[k].addr <= a /\ a < End(free[k])
  BY <1>1, <1>2 DEF Bytes, End
<1>4. ASSUME End(free[k]) < a + m
      PROVE  FALSE
  <2>1. End(free[k]) \in Bytes(a, m)
    BY <1>2, <1>3, <1>4 DEF Bytes
  <2>2. PICK l \in 0 .. frees - 1 : End(free[k]) \in Bytes(free[l].addr, free[l].size)
    BY <2>1 DEF FreeBytes
  <2>3. /\ free[l].addr \in Nat /\ free[l].size \in Nat /\ End(free[l]) \in Nat
        /\ free[l].addr <= End(free[k]) /\ End(free[k]) < End(free[l])
    <3>1. free[l].addr \in Nat /\ free[l].size \in Nat /\ End(free[l]) \in Nat
      BY FreeTypes
    <3> QED BY <1>2, <2>2, <3>1 DEF Bytes, End
  <2>4. l # k
    BY <1>2, <2>3
  <2>5. CASE k < l
    <3>1. End(free[k]) < free[l].addr
      BY <2>5 DEF IInv, InOrder
    <3> QED BY <1>2, <2>3, <3>1
  <2>6. CASE l < k
    <3>1. End(free[l]) < free[k].addr
      BY <2>6 DEF IInv, InOrder
    <3> QED BY <1>2, <1>3, <2>3, <3>1
  <2> QED BY <2>4, <2>5, <2>6
<1>5. a + m <= End(free[k])
  BY <1>2, <1>3, <1>4
<1>6. m <= free[k].size
  BY <1>2, <1>3, <1>5 DEF End
<1> QED BY <1>6

(* memman_alloc_4k does what the allocator promises: an area of addresses that
   were all free, or a failure when no run of free addresses is long enough. *)
LEMMA AllocImplements ==
  ASSUME IInv, NEW n \in Sizes, Alloc4k(n)
  PROVE  A!AAlloc \/ A!AFail
<1> DEFINE m == Up(n)
           i == FirstFit(m)
<1>1. m \in Nat \ {0}
  BY UpPositive
<1>2. /\ i \in 0 .. frees
      /\ i < frees => free[i].size >= m
      /\ \A j \in 0 .. i - 1 : free[j].size < m
  <2> HIDE DEF m
  <2> QED BY <1>1, FirstFitFinds DEF IInv
<1>3. [k \in Sizes |-> Up(k)][n] = m
  OBVIOUS
<1>4. CASE i = frees
  <2>1. result' = <<"alloc", 0, n>> /\ UNCHANGED <<frees, free, given>>
    BY <1>4 DEF Alloc4k
  <2> HIDE DEF i, m
  <2>2. ASSUME NEW a \in FreeBytes, Bytes(a, m) \subseteq FreeBytes
        PROVE  FALSE
    <3>1. PICK k \in 0 .. frees - 1 : m <= free[k].size
      BY <1>1, <2>2, RunInOneArea
    <3>2. free[k].size \in Nat /\ free[k].size < m
      BY <1>2, <1>4, <3>1, FreeTypes
    <3> QED BY <1>1, <3>1, <3>2
  <2>3. FreeBytes' = FreeBytes
    BY <2>1 DEF FreeBytes, Bytes
  <2>4. \A a \in FreeBytes : ~(a .. a + m - 1 \subseteq FreeBytes)
    BY <2>2 DEF Bytes
  <2> QED BY <1>3, <2>1, <2>3, <2>4 DEF A!AFail, A!Run
<1>5. CASE i # frees
  <2>1. /\ result' = <<"alloc", free[i].addr, n>>
        /\ given' = given \cup {<<free[i].addr, n>>}
        /\ Taken(i, m)
    BY <1>5 DEF Alloc4k
  <2>2. i \in 0 .. frees - 1 /\ free[i].size >= m
    BY <1>2, <1>5, FreeTypes
  <2> HIDE DEF i, m
  <2>3. /\ Bytes(free[i].addr, m) \subseteq FreeBytes
        /\ FreeBytes' = FreeBytes \ Bytes(free[i].addr, m)
    BY <1>1, <2>1, <2>2, TakenKeeps
  <2>4. free[i].addr \in Whole
    <3>1. free[i].addr \in Nat
      BY <2>2, FreeTypes
    <3>2. free[i].addr \in Bytes(free[i].addr, m)
      BY <1>1, <3>1 DEF Bytes
    <3> QED BY <2>3, <3>2 DEF IInv, Partition
  <2> QED BY <1>3, <2>1, <2>3, <2>4 DEF A!AAlloc, A!Run, Bytes
<1> QED BY <1>4, <1>5

(* memman_free_4k gives back the whole area, or says that it is lost. *)
LEMMA FreeImplements ==
  ASSUME IInv, NEW h \in given, Free4k(h)
  PROVE  A!AFree
<1> DEFINE a == h[1]
           n == Up(h[2])
           i == PlaceOf(a)
<1>1. h[1] \in Whole /\ h[2] \in Sizes
  BY DEF IInv, TypeOK
<1>2. a \in Nat /\ n \in Nat \ {0}
  <2>1. a \in Nat
    BY <1>1 DEF Whole
  <2> QED BY <1>1, <2>1, UpPositive
<1>3. Bytes(a, n) \cap FreeBytes = {}
  BY DEF IInv, Partition
<1>4. i \in 0 .. frees /\ AtPlace(i, a, n)
  <2> HIDE DEF a, n
  <2> QED BY <1>2, <1>3, FreeFits
<1>5. /\ given' = given \ {h}
      /\ FreeFront(i, a, n) \/ FreeBack(i, a, n) \/ FreeNew(i, a, n) \/ FreeLost(i, a, n)
  BY DEF Free4k, MemmanFree
<1>6. [k \in Sizes |-> Up(k)][h[2]] = n
  BY <1>1
<1> HIDE DEF a, n, i
<1>7. CASE FreeLost(i, a, n)
  <2>1. result' = <<"free", -1>> /\ UNCHANGED <<frees, free>>
    BY <1>7 DEF FreeLost
  <2>2. FreeBytes' = FreeBytes
    BY <2>1 DEF FreeBytes, Bytes
  <2> QED BY <1>5, <2>1, <2>2 DEF A!AFree
<1>8. CASE FreeFront(i, a, n) \/ FreeBack(i, a, n) \/ FreeNew(i, a, n)
  <2>1. Grown(a, n)
    BY <1>2, <1>4, <1>8, FrontGrows, BackGrows, NewGrows
  <2>2. result' = <<"free", 0>>
    BY <1>8 DEF FreeFront, FreeBack, FreeNew
  <2>3. FreeBytes' = FreeBytes \cup (h[1] .. h[1] + n - 1)
    BY <2>1 DEF Grown, Bytes, a
  <2> QED BY <1>5, <1>6, <2>2, <2>3 DEF A!AFree, A!Run
<1> QED BY <1>5, <1>7, <1>8

(* The memory manager implements the allocator, whatever the areas, sizes and
   the size of its array are: in particular no request fails while a run of
   free addresses is long enough for it. *)
THEOREM MemmanImplements == Spec => AllocatorSpec
<1>1. Init => A!AInit
  <2> SUFFICES ASSUME Init
               PROVE  A!AInit
    OBVIOUS
  <2>1. frees = 1 /\ free = [i \in {0} |-> Area(Base, Total)]
        /\ given = {} /\ result = <<"none", 0>>
    BY DEF Init
  <2>2. 0 .. frees - 1 = {0} /\ free[0] = Area(Base, Total)
    BY <2>1
  <2>3. FreeBytes = Whole
    BY <2>2 DEF FreeBytes, Bytes, Whole, Area
  <2> QED BY <2>1, <2>3 DEF A!AInit
<1>2. IInv /\ [Next]_vars => [A!AAlloc \/ A!AFail \/ A!AFree]_(A!avars)
  <2> SUFFICES ASSUME IInv, [Next]_vars
               PROVE  [A!AAlloc \/ A!AFail \/ A!AFree]_(A!avars)
    OBVIOUS
  <2>1. ASSUME NEW n \in Sizes, Alloc4k(n)
        PROVE  A!AAlloc \/ A!AFail
    BY <2>1, AllocImplements
  <2>2. ASSUME NEW h \in given, Free4k(h)
        PROVE  A!AFree
    BY <2>2, FreeImplements
  <2>3. CASE UNCHANGED vars
    <3>1. UNCHANGED <<frees, free, given, result>>
      BY <2>3 DEF vars
    <3>2. FreeBytes' = FreeBytes
      BY <3>1 DEF FreeBytes, Bytes
    <3> QED BY <3>1, <3>2 DEF A!avars
  <2> QED BY <2>1, <2>2, <2>3 DEF Next
<1> QED BY <1>1, <1>2, MemmanInvariant, PTL DEF Spec, AllocatorSpec, A!ASpec

-----------------------------------------------------------------------------
\* The heap.

\* The entries of malloc_map0 are the areas given, one for each.
TableInv ==
  /\ malloc_map \subseteq [addr : Nat, size : Sizes]
  /\ given = {<<e.addr, e.size>> : e \in malloc_map}
  /\ \A d, e \in malloc_map : d.addr = e.addr => d = e

\* The inductive invariant.  A task that was refused an area goes on with a
\* broken heap, of which nothing is said.
HInv == IInv /\ (broken = "no" => TableInv)

\* What a call of the heap may do to the memory manager and the table.
Kept == Next \/ UNCHANGED vars

(* A page is one of the sizes, and so is every request that is not small. *)
LEMMA AreaSizes == Page \in Sizes /\ \A n \in Requests : n > Limit => n \in Sizes
  BY HeapAssumption

(* An area that starts at a free address starts no area that is given. *)
LEMMA FreshAddress ==
  ASSUME IInv, TableInv, NEW a \in FreeBytes, NEW e \in malloc_map
  PROVE  e.addr # a
<1>1. e.addr \in Nat /\ e.size \in Sizes /\ <<e.addr, e.size>> \in given
  BY DEF TableInv
<1>2. Bytes(e.addr, Up(e.size)) \cap FreeBytes = {}
  <2> DEFINE h == <<e.addr, e.size>>
  <2>1. Bytes(h[1], Up(h[2])) \cap (FreeBytes \cup lost) = {}
    BY <1>1 DEF IInv, Partition
  <2> QED BY <2>1
<1>3. Up(e.size) \in Nat \ {0}
  BY <1>1, UpPositive
<1>4. e.addr \in Bytes(e.addr, Up(e.size))
  BY <1>1, <1>3 DEF Bytes
<1> QED BY <1>2, <1>4

(* malloc_4k: the area it is given is in the table, if there is room for it. *)
LEMMA Malloc4kKeeps ==
  ASSUME IInv, TableInv, NEW n \in Sizes, Malloc4k(n)
  PROVE  IInv' /\ Next /\ (~NoArea(n) => TableInv')
<1>1. Alloc4k(n) /\ UNCHANGED <<maxfrees, losts, lostsize, lost>>
  BY DEF Malloc4k
<1>2. Next /\ IInv'
  BY <1>1, AllocKeeps DEF Next
<1>3. ASSUME ~NoArea(n)
      PROVE  TableInv'
  <2> DEFINE i == FirstFit(Up(n))
             new == Area(free[i].addr, n)
  <2>1. i # frees
    BY <1>3 DEF NoArea
  <2>2. /\ result' = <<"alloc", free[i].addr, n>>
        /\ given' = given \cup {<<free[i].addr, n>>}
        /\ malloc_map' = malloc_map \cup {new}
    BY <1>1, <1>3, <2>1 DEF Alloc4k, Malloc4k
  <2>3. /\ i \in 0 .. frees - 1 /\ free[i].size > 0
        /\ free[i].addr \in Nat /\ free[i].size \in Nat
    <3>1. Up(n) \in Nat \ {0}
      BY UpPositive
    <3>2. i \in 0 .. frees
      <4>1. TypeOK
        BY DEF IInv
      <4> QED BY <3>1, <4>1, FirstFitFinds
    <3>3. i \in 0 .. frees - 1
      BY <2>1, <3>2, FreeTypes
    <3> HIDE DEF i
    <3> QED BY <3>3, FreeTypes
  <2> HIDE DEF i
  <2>4. free[i].addr \in FreeBytes
    BY <2>3 DEF FreeBytes, Bytes
  <2>5. new.addr = free[i].addr /\ new.size = n /\ new \in [addr : Nat, size : Sizes]
    BY <2>3 DEF Area
  <2> HIDE DEF new
  <2>6. malloc_map' \subseteq [addr : Nat, size : Sizes]
    BY <2>2, <2>5 DEF TableInv
  <2>7. given' = {<<e.addr, e.size>> : e \in malloc_map'}
    BY <2>2, <2>5 DEF TableInv
  <2>8. \A d \in malloc_map : d.addr # new.addr
    BY <2>4, <2>5, FreshAddress
  <2>9. \A d, e \in malloc_map' : d.addr = e.addr => d = e
    BY <2>2, <2>8 DEF TableInv
  <2> QED BY <2>6, <2>7, <2>9 DEF TableInv
<1> QED BY <1>2, <1>3

(* free_4k gives back the area whose entry it takes out of the table. *)
LEMMA FreeAreaKeeps ==
  ASSUME IInv, TableInv, NEW p, FreeArea(p)
  PROVE  IInv' /\ TableInv' /\ Kept
<1>1. CASE Entries(p) = {}
  <2>1. UNCHANGED <<vars, malloc_map>>
    BY <1>1 DEF FreeArea
  <2>2. IInv'
    BY <2>1, StutterKeeps
  <2>3. TableInv'
    BY <2>1 DEF TableInv, vars
  <2> QED BY <2>1, <2>2, <2>3 DEF Kept
<1>2. CASE Entries(p) # {}
  <2>1. PICK e \in Entries(p) : Free4k(<<p, e.size>>) /\ malloc_map' = malloc_map \ {e}
    BY <1>2 DEF FreeArea
  <2>2. e \in malloc_map /\ e.addr = p
    BY DEF Entries
  <2> DEFINE h == <<p, e.size>>
  <2>3. h \in given
    BY <2>2 DEF TableInv
  <2>4. given' = given \ {h}
    BY <2>1 DEF Free4k
  <2>5. Next
    BY <2>1, <2>3 DEF Next
  <2>6. IInv'
    BY <2>1, <2>3, FreeKeeps
  <2>7. \A d \in malloc_map : <<d.addr, d.size>> = h => d = e
    BY <2>2 DEF TableInv
  <2> HIDE DEF h
  <2>8. given' = {<<d.addr, d.size>> : d \in malloc_map'}
    <3>1. <<e.addr, e.size>> = h
      BY <2>2 DEF h
    <3> QED BY <2>1, <2>2, <2>4, <2>7, <3>1 DEF TableInv
  <2>9. malloc_map' \subseteq malloc_map
    BY <2>1
  <2>10. TableInv'
    BY <2>8, <2>9 DEF TableInv
  <2> QED BY <2>5, <2>6, <2>10 DEF Kept
<1> QED BY <1>1, <1>2

(* What leaves the memory manager and the table alone. *)
LEMMA QuietKeeps ==
  ASSUME IInv, TableInv, UNCHANGED <<vars, malloc_map>>
  PROVE  IInv' /\ TableInv' /\ Kept
<1>1. IInv'
  BY StutterKeeps
<1>2. TableInv'
  BY DEF TableInv, vars
<1> QED BY <1>1, <1>2 DEF Kept

(* malloc, with the realloc that calls it. *)
LEMMA NewBlockKeeps ==
  ASSUME IInv, TableInv, NEW n \in Requests, NewBlock(n)
  PROVE  IInv' /\ Kept /\ (~Fails(n) => TableInv')
<1>1. CASE n > Limit
  <2>1. Malloc4k(n) /\ n \in Sizes
    BY <1>1, AreaSizes DEF NewBlock, Large
  <2> QED BY <1>1, <2>1, Malloc4kKeeps DEF Kept, Fails
<1>2. CASE ~(n > Limit) /\ FirstRoom(n) # 0
  <2>1. UNCHANGED <<vars, malloc_map>>
    BY <1>2 DEF NewBlock, Cut
  <2> QED BY <2>1, QuietKeeps
<1>3. CASE ~(n > Limit) /\ FirstRoom(n) = 0
  <2>1. Malloc4k(Page)
    BY <1>3 DEF NewBlock, NewPage
  <2>2. ~Fails(n) => ~NoArea(Page)
    BY <1>3 DEF Fails
  <2> QED BY <2>1, <2>2, AreaSizes, Malloc4kKeeps DEF Kept
<1> QED BY <1>1, <1>2, <1>3

(* free, with the realloc that ends with it. *)
LEMMA FreeBlockKeeps ==
  ASSUME IInv, TableInv, NEW b, FreeBlock(b)
  PROVE  IInv' /\ TableInv' /\ Kept
<1>1. CASE b[1] % Page = 0
  BY <1>1, FreeAreaKeeps DEF FreeBlock
<1>2. CASE b[1] % Page # 0 /\ PageAt(b[1]) = {}
  <2>1. UNCHANGED <<vars, malloc_map>>
    BY <1>2 DEF FreeBlock
  <2> QED BY <2>1, QuietKeeps
<1>3. CASE b[1] % Page # 0 /\ PageAt(b[1]) # {}
  <2> DEFINE k == CHOOSE k \in PageAt(b[1]) : \A j \in PageAt(b[1]) : k <= j
  <2>1. FreeCut(k)
    BY <1>3 DEF FreeBlock
  <2> HIDE DEF k
  <2>2. CASE pages[k].count = 1
    BY <2>1, <2>2, FreeAreaKeeps DEF FreeCut
  <2>3. CASE pages[k].count # 1
    <3>1. UNCHANGED <<vars, malloc_map>>
      BY <2>1, <2>3 DEF FreeCut
    <3> QED BY <3>1, QuietKeeps
  <2> QED BY <2>2, <2>3
<1> QED BY <1>1, <1>2, <1>3

(* Every call keeps the invariant, and is a call or none of the memory
   manager. *)
LEMMA HNextKeeps ==
  ASSUME HInv, [HNext]_<<vars, heapVars>>
  PROVE  HInv' /\ Kept
<1>1. CASE UNCHANGED <<vars, heapVars>>
  <2>1. UNCHANGED vars /\ UNCHANGED <<malloc_map, broken>>
    BY <1>1 DEF heapVars
  <2>2. IInv'
    BY <2>1, StutterKeeps DEF HInv
  <2>3. (broken = "no" => TableInv)'
    BY <2>1 DEF HInv, TableInv, vars
  <2> QED BY <2>1, <2>2, <2>3 DEF HInv, Kept
<1>2. CASE HNext
  <2>1. broken = "no" /\ IInv /\ TableInv
    BY <1>2 DEF HNext, HInv
  <2>2. ASSUME NEW n \in Requests, Malloc(n)
        PROVE  HInv' /\ Kept
    <3>1. NewBlock(n) /\ broken' = IF Fails(n) THEN "no memory" ELSE broken
      BY <2>2 DEF Malloc
    <3>2. IInv' /\ Kept /\ (~Fails(n) => TableInv')
      BY <2>1, <3>1, NewBlockKeeps
    <3> QED BY <3>1, <3>2 DEF HInv
  <2>3. ASSUME NEW b \in live, Free(b)
        PROVE  HInv' /\ Kept
    <3>1. FreeBlock(b)
      BY <2>3 DEF Free
    <3>2. IInv' /\ TableInv' /\ Kept
      BY <2>1, <3>1, FreeBlockKeeps
    <3> QED BY <3>2 DEF HInv
  <2>4. ASSUME NEW b \in live, NEW n \in Requests, Realloc(b, n)
        PROVE  HInv' /\ Kept
    <3>1. NewBlock(n) /\ (Fails(n) => broken' = "no memory")
      BY <2>4 DEF Realloc
    <3>2. IInv' /\ Kept /\ (~Fails(n) => TableInv')
      BY <2>1, <3>1, NewBlockKeeps
    <3> QED BY <3>1, <3>2 DEF HInv
  <2>5. ASSUME ReallocEnd
        PROVE  HInv' /\ Kept
    <3>1. FreeBlock(moving)
      BY <2>5 DEF ReallocEnd
    <3>2. IInv' /\ TableInv' /\ Kept
      BY <2>1, <3>1, FreeBlockKeeps
    <3> QED BY <3>2 DEF HInv
  <2> QED BY <1>2, <2>2, <2>3, <2>4, <2>5 DEF HNext
<1> QED BY <1>1, <1>2

(* Every state of the heap has the memory manager in order and the table in
   step with it. *)
THEOREM HeapInvariant == HSpec => []HInv
<1>1. HInit => HInv
  <2> SUFFICES ASSUME HInit
               PROVE  HInv
    OBVIOUS
  <2>1. IInv
    BY InitHolds DEF HInit
  <2>2. TableInv
    BY DEF HInit, Init, TableInv
  <2> QED BY <2>1, <2>2 DEF HInv
<1>2. HInv /\ [HNext]_<<vars, heapVars>> => HInv'
  BY HNextKeeps
<1> QED BY <1>1, <1>2, PTL DEF HSpec

(* malloc_map0 records exactly the areas the memory manager has given, each
   once and with the size asked for. *)
THEOREM HeapTableIsGiven == HSpec => []TableIsGiven
<1>1. HInv => TableIsGiven
  BY DEF HInv, TableInv, TableIsGiven
<1> QED BY <1>1, HeapInvariant, PTL

(* The heap keeps its side of the contract of the memory manager: it gives
   back only what it was given, once, with its size. *)
THEOREM HeapKeepsContract == HSpec => MemmanSpec
<1>1. HInit => Init
  BY DEF HInit
<1>2. HInv /\ [HNext]_<<vars, heapVars>> => [Next]_vars
  BY HNextKeeps DEF Kept
<1> QED BY <1>1, <1>2, HeapInvariant, PTL DEF HSpec, MemmanSpec, Spec

(* So the areas of the heap are in order, no address is in two places, and no
   request is refused while there is a free run for it. *)
THEOREM HeapMemory == HSpec => []Coalesced /\ []Partition /\ AllocatorSpec
BY HeapKeepsContract, MemmanCoalesced, MemmanPartition, MemmanImplements, PTL DEF MemmanSpec

-----------------------------------------------------------------------------
\* The addresses where pages start.
PageStarts == {q * Page : q \in Nat}

(* Division with remainder. *)
LEMMA DivMod ==
  ASSUME NEW x \in Nat, NEW m \in Nat \ {0}
  PROVE  x \div m \in Nat /\ (x \div m) * m \in Nat /\ x - (x \div m) * m \in 0 .. m - 1
<1>1. x \div m \in Nat /\ x % m \in 0 .. m - 1
  OBVIOUS
<1>2. x = m * (x \div m) + (x % m)
  OBVIOUS
<1> DEFINE q == x \div m
           r == x % m
<1> HIDE DEF q, r
<1>3. q \in Nat /\ r \in 0 .. m - 1 /\ x = m * q + r
  BY <1>1, <1>2 DEF q, r
<1>4. m * q = q * m /\ q * m \in Nat
  BY <1>3
<1>5. x - q * m = r
  BY <1>3, <1>4
<1> QED BY <1>3, <1>4, <1>5 DEF q

(* A quotient is found by its remainder. *)
LEMMA DivIs ==
  ASSUME NEW q \in Nat, NEW m \in Nat \ {0}, NEW d \in 0 .. m - 1
  PROVE  (q * m + d) \div m = q /\ (q * m + d) % m = d /\ q * m \in Nat
<1>1. q * m \in Nat
  OBVIOUS
<1> QED BY <1>1

(* Products are ordered like their factors. *)
LEMMA Products ==
  ASSUME NEW a \in Nat, NEW b \in Nat, NEW m \in Nat \ {0}
  PROVE  /\ a * m \in Nat /\ b * m \in Nat
         /\ a < b => a * m + m <= b * m
         /\ a <= b => a * m <= b * m
<1>1. a * m \in Nat /\ b * m \in Nat
  OBVIOUS
<1>2. ASSUME a < b
      PROVE  a * m + m <= b * m
  <2> DEFINE c == b - a - 1
  <2>1. c \in Nat /\ b = a + 1 + c
    BY <1>2
  <2> HIDE DEF c
  <2> DEFINE X == a * m
             B == b * m
             C == c * m
  <2>2. X \in Nat /\ C \in Nat /\ B = X + m + C
    BY <2>1
  <2> HIDE DEF X, B, C
  <2>3. X + m <= B
    BY <2>2
  <2> QED BY <2>3 DEF X, B
<1>3. ASSUME a <= b
      PROVE  a * m <= b * m
  BY <1>1, <1>2, <1>3
<1> QED BY <1>1, <1>2, <1>3

(* Sizes and blocks are rounded up, by less than a page and in order. *)
LEMMA Rounded ==
  ASSUME NEW n \in Nat \ {0}
  PROVE  /\ Aligned(n) \in Nat /\ Aligned(n) >= n
         /\ Up(n) \in PageStarts /\ Up(n) >= n /\ Up(n) \in Nat \ {0}
<1>1. Align \in Nat \ {0}
  BY HeapAssumption
<1> DEFINE x == n + Align - 1
           y == n + Page - 1
<1>2. x \in Nat /\ y \in Nat
  BY <1>1
<1>3. (x \div Align) * Align \in Nat /\ x - (x \div Align) * Align \in 0 .. Align - 1
  <2> HIDE DEF x
  <2> QED BY <1>1, <1>2, DivMod
<1>4. /\ y \div Page \in Nat /\ (y \div Page) * Page \in Nat
      /\ y - (y \div Page) * Page \in 0 .. Page - 1
  <2> HIDE DEF y
  <2> QED BY <1>2, DivMod
<1>5. Aligned(n) = (x \div Align) * Align /\ Up(n) = (y \div Page) * Page
  BY DEF Aligned, Up
<1> DEFINE X == (x \div Align) * Align
           Y == (y \div Page) * Page
<1> HIDE DEF X, Y
<1>6. X \in Nat /\ x - X \in 0 .. Align - 1 /\ Y \in Nat /\ y - Y \in 0 .. Page - 1
      /\ Aligned(n) = X /\ Up(n) = Y
  BY <1>3, <1>4, <1>5 DEF X, Y
<1>7. X >= n /\ Y >= n
  BY <1>1, <1>6
<1>8. Y \in PageStarts
  BY <1>4 DEF Y, PageStarts
<1> QED BY <1>6, <1>7, <1>8

(* The places where pages start. *)
LEMMA Starts ==
  ASSUME NEW a \in PageStarts
  PROVE  /\ a \in Nat /\ a % Page = 0
         /\ \A d \in 1 .. Page - 1 : (a + d) % Page # 0
         /\ \A b \in PageStarts : a + b \in PageStarts
<1>1. PICK q \in Nat : a = q * Page
  BY DEF PageStarts
<1>2. a \in Nat /\ \A d \in 0 .. Page - 1 : (a + d) % Page = d
  BY <1>1, DivIs, Products
<1>3. a % Page = 0
  <2>1. 0 \in 0 .. Page - 1 /\ a + 0 = a
    BY <1>2
  <2> QED BY <1>2, <2>1
<1>4. ASSUME NEW d \in 1 .. Page - 1
      PROVE  (a + d) % Page # 0
  <2>1. d \in 0 .. Page - 1 /\ d # 0
    OBVIOUS
  <2> QED BY <1>2, <2>1
<1>5. ASSUME NEW b \in PageStarts
      PROVE  a + b \in PageStarts
  <2>1. PICK r \in Nat : b = r * Page
    BY DEF PageStarts
  <2>2. a + b = (q + r) * Page /\ q + r \in Nat
    BY <1>1, <2>1
  <2> QED BY <2>2 DEF PageStarts
<1> QED BY <1>2, <1>3, <1>4, <1>5

(* A page is rounded up to itself. *)
LEMMA UpPage == Up(Page) = Page
<1>1. 1 * Page + (Page - 1) = Page + Page - 1 /\ Page - 1 \in 0 .. Page - 1
  OBVIOUS
<1>2. (Page + Page - 1) \div Page = 1
  BY <1>1, DivIs
<1> QED BY <1>2 DEF Up

(* A small block fits in an empty page. *)
LEMMA SmallFits ==
  ASSUME NEW n \in Nat \ {0}, n <= Limit
  PROVE  Header + Aligned(n) <= Page
<1>1. Align \in Nat \ {0} /\ Limit \in Nat /\ Header \in Nat
  BY HeapAssumption
<1> DEFINE x == n + Align - 1
           y == Limit + Align - 1
           p == x \div Align
           q == y \div Align
<1>2. x \in Nat /\ y \in Nat /\ x <= y
  BY <1>1
<1> HIDE DEF x, y
<1>3. p \in Nat /\ q \in Nat /\ p * Align <= x /\ y < q * Align + Align
      /\ p * Align \in Nat /\ q * Align \in Nat
  <2>1. p \in Nat /\ p * Align \in Nat /\ x - p * Align \in 0 .. Align - 1
    BY <1>1, <1>2, DivMod
  <2>2. q \in Nat /\ q * Align \in Nat /\ y - q * Align \in 0 .. Align - 1
    BY <1>1, <1>2, DivMod
  <2> HIDE DEF p, q
  <2> DEFINE P == p * Align
             Q == q * Align
  <2> HIDE DEF P, Q
  <2>3. P \in Nat /\ x - P \in 0 .. Align - 1 /\ Q \in Nat /\ y - Q \in 0 .. Align - 1
    BY <2>1, <2>2 DEF P, Q
  <2>4. P <= x /\ y < Q + Align
    BY <1>1, <1>2, <2>3
  <2> QED BY <2>1, <2>2, <2>4 DEF P, Q
<1>4. Aligned(n) = p * Align
  BY DEF Aligned, p, x
<1>5. Header + q * Align <= Page
  BY HeapAssumption DEF q, y
<1> HIDE DEF p, q
<1>6. p <= q
  <2>1. q < p => q * Align + Align <= p * Align
    BY <1>1, <1>3, Products
  <2> DEFINE P == p * Align
             Q == q * Align
  <2>2. P \in Nat /\ Q \in Nat /\ P <= x /\ y < Q + Align /\ (q < p => Q + Align <= P)
    BY <1>3, <2>1
  <2> HIDE DEF P, Q
  <2> QED BY <1>1, <1>2, <1>3, <2>2
<1>7. p * Align <= q * Align
  BY <1>1, <1>3, <1>6, Products
<1> DEFINE P == p * Align
           Q == q * Align
<1>8. P \in Nat /\ Q \in Nat /\ P <= Q /\ Header + Q <= Page /\ Aligned(n) = P
  BY <1>3, <1>4, <1>5, <1>7
<1> HIDE DEF P, Q
<1> QED BY <1>1, <1>8

(* The pages of an area are inside it and cover it. *)
LEMMA PagesCover ==
  ASSUME NEW p \in Nat, NEW n \in Nat \ {0}
  PROVE  /\ PagesOf(p, n) \subseteq Bytes(p, Up(n))
         /\ \A a \in Bytes(p, Up(n)) : \E s \in PagesOf(p, n) : s <= a /\ a < s + Page
<1>1. PICK q \in Nat : Up(n) = q * Page
  BY Rounded DEF PageStarts
<1>2. Up(n) \div Page = q /\ Up(n) \in Nat
  <2>1. 0 \in 0 .. Page - 1 /\ q * Page + 0 = q * Page
    BY Products
  <2> QED BY <1>1, <2>1, DivIs
<1>3. PagesOf(p, n) = {p + i * Page : i \in 0 .. q - 1}
  BY <1>2 DEF PagesOf
<1>4. ASSUME NEW i \in 0 .. q - 1
      PROVE  p + i * Page \in Bytes(p, Up(n))
  <2>1. i * Page \in Nat /\ i * Page + Page <= q * Page
    BY Products
  <2> DEFINE I == i * Page
  <2>2. I \in Nat /\ I + Page <= Up(n)
    BY <1>1, <2>1
  <2> HIDE DEF I
  <2>3. p + I \in Bytes(p, Up(n))
    BY <1>2, <2>2 DEF Bytes
  <2> QED BY <2>3 DEF I
<1>5. ASSUME NEW a \in Bytes(p, Up(n))
      PROVE  \E s \in PagesOf(p, n) : s <= a /\ a < s + Page
  <2> DEFINE d == a - p
             i == d \div Page
             I == i * Page
  <2>1. d \in Nat /\ d < Up(n) /\ a = p + d
    BY <1>2 DEF Bytes
  <2> HIDE DEF d
  <2>2. i \in Nat /\ I \in Nat /\ d - I \in 0 .. Page - 1
    BY <2>1, DivMod
  <2> HIDE DEF i
  <2>3. q <= i => q * Page <= I
    BY <2>2, Products
  <2> HIDE DEF I
  <2>4. I <= d /\ d < I + Page
    BY <2>1, <2>2
  <2>5. ~ (q <= i)
    BY <1>1, <1>2, <2>1, <2>2, <2>3, <2>4
  <2>6. p + I \in PagesOf(p, n)
    BY <1>3, <2>2, <2>5 DEF I
  <2>7. p + I <= a /\ a < p + I + Page
    BY <2>1, <2>2, <2>4
  <2> QED BY <2>6, <2>7
<1> QED BY <1>3, <1>4, <1>5

-----------------------------------------------------------------------------
\* The free areas and those that are given start where pages do.
Starting(f, n) == \A j \in 0 .. n - 1 : f[j].addr \in PageStarts
AlignedInv == Starting(free, frees) /\ \A h \in given : h[1] \in PageStarts

(* memman_alloc_4k takes whole pages from the front of an area. *)
LEMMA AllocAligned ==
  ASSUME IInv, AlignedInv, NEW n \in Sizes, Alloc4k(n)
  PROVE  AlignedInv'
<1> DEFINE i == FirstFit(Up(n))
<1>1. Up(n) \in PageStarts /\ Up(n) \in Nat
  BY Rounded
<1>2. frees \in Nat /\ free \in [0 .. frees - 1 -> Areas] /\ i \in 0 .. frees
  <2>1. TypeOK
    BY DEF IInv
  <2> QED BY <1>1, <2>1, FreeTypes, FirstFitFinds
<1>3. CASE i = frees
  BY <1>3 DEF Alloc4k, AlignedInv, Starting
<1>4. CASE i # frees
  <2>1. given' = given \cup {<<free[i].addr, n>>} /\ Taken(i, Up(n))
    BY <1>4 DEF Alloc4k
  <2>2. i \in 0 .. frees - 1
    BY <1>2, <1>4
  <2> HIDE DEF i
  <2>3. free[i].addr \in PageStarts /\ free[i].addr + Up(n) \in PageStarts
    BY <1>1, <2>2, Starts DEF AlignedInv, Starting
  <2>4. \A h \in given' : h[1] \in PageStarts
    BY <2>1, <2>3 DEF AlignedInv
  <2>5. CASE free[i].size = Up(n)
    <3>1. frees' = frees - 1 /\ free' = Without(free, frees, i)
      BY <2>1, <2>5 DEF Taken
    <3>2. ASSUME NEW j \in 0 .. frees' - 1
          PROVE  free'[j].addr \in PageStarts
      <4>1. j \in 0 .. frees - 2
        BY <1>2, <3>1
      <4>2. free'[j] = IF j < i THEN free[j] ELSE free[j + 1]
        BY <3>1, <4>1 DEF Without
      <4>3. j \in 0 .. frees - 1 /\ j + 1 \in 0 .. frees - 1
        BY <1>2, <4>1
      <4> QED BY <4>2, <4>3 DEF AlignedInv, Starting
    <3> QED BY <2>4, <3>2 DEF AlignedInv, Starting
  <2>6. CASE free[i].size # Up(n)
    <3> DEFINE r == Area(free[i].addr + Up(n), free[i].size - Up(n))
    <3>1. frees' = frees /\ free' = [free EXCEPT ![i] = r]
      BY <2>1, <2>6 DEF Taken
    <3>2. r.addr \in PageStarts
      BY <2>3 DEF Area
    <3> HIDE DEF r
    <3>3. \A j \in 0 .. frees' - 1 : free'[j].addr \in PageStarts
      BY <1>2, <3>1, <3>2 DEF AlignedInv, Starting
    <3> QED BY <2>4, <3>3 DEF AlignedInv, Starting
  <2> QED BY <2>5, <2>6
<1> QED BY <1>3, <1>4

(* memman_free_4k joins areas or puts one among them. *)
LEMMA FreeAligned ==
  ASSUME IInv, AlignedInv, NEW h \in given, Free4k(h)
  PROVE  AlignedInv'
<1> DEFINE a == h[1]
           n == Up(h[2])
           i == PlaceOf(a)
<1>1. /\ given' = given \ {h}
      /\ FreeFront(i, a, n) \/ FreeBack(i, a, n) \/ FreeNew(i, a, n) \/ FreeLost(i, a, n)
  BY DEF Free4k, MemmanFree
<1>2. a \in PageStarts /\ a \in Nat
  BY Starts DEF AlignedInv
<1>3. /\ frees \in Nat /\ free \in [0 .. frees - 1 -> Areas] /\ i \in 0 .. frees
  <2>1. TypeOK
    BY DEF IInv
  <2> QED BY <1>2, <2>1, FreeTypes, PlaceOfFinds
<1> HIDE DEF a, n, i
<1> USE DEF AlignedInv, Starting
<1>4. \A g \in given' : g[1] \in PageStarts
  BY <1>1
<1>5. CASE FreeLost(i, a, n)
  BY <1>4, <1>5 DEF FreeLost
<1>6. CASE FreeNew(i, a, n)
  <2>1. frees' = frees + 1 /\ free' = WithAt(free, frees, i, Area(a, n))
    BY <1>6 DEF FreeNew
  <2>2. ASSUME NEW j \in 0 .. frees' - 1
        PROVE  free'[j].addr \in PageStarts
    <3>1. j \in 0 .. frees
      BY <1>3, <2>1
    <3>2. free'[j] = IF j < i THEN free[j] ELSE IF j = i THEN Area(a, n) ELSE free[j - 1]
      BY <2>1, <3>1 DEF WithAt
    <3>3. CASE j < i
      BY <1>3, <3>1, <3>2, <3>3
    <3>4. CASE j = i
      BY <1>2, <3>2, <3>4, <1>3 DEF Area
    <3>5. CASE j > i
      <4>1. j - 1 \in 0 .. frees - 1
        BY <1>3, <3>1, <3>5
      <4>2. free'[j] = free[j - 1]
        BY <1>3, <3>1, <3>2, <3>5
      <4> QED BY <4>1, <4>2
    <3> QED BY <1>3, <3>1, <3>3, <3>4, <3>5
  <2> QED BY <1>4, <2>2
<1>7. CASE FreeBack(i, a, n)
  <2> DEFINE r == Area(a, free[i].size + n)
  <2>1. frees' = frees /\ free' = [free EXCEPT ![i] = r]
    BY <1>7 DEF FreeBack
  <2>2. r.addr \in PageStarts
    BY <1>2 DEF Area
  <2> HIDE DEF r
  <2>3. \A j \in 0 .. frees' - 1 : free'[j].addr \in PageStarts
    BY <1>3, <2>1, <2>2
  <2> QED BY <1>4, <2>3
<1>8. CASE FreeFront(i, a, n)
  <2>1. i > 0 /\ i - 1 \in 0 .. frees - 1
    BY <1>3, <1>8 DEF FreeFront, JoinsFront
  <2>2. CASE JoinsBack(i, a, n)
    <3> DEFINE s == free[i - 1].size + n + free[i].size
               f == [free EXCEPT ![i - 1].size = s]
    <3>1. frees' = frees - 1 /\ free' = Without(f, frees, i)
      BY <1>8, <2>2 DEF FreeFront
    <3>2. \A j \in 0 .. frees - 1 : f[j].addr = free[j].addr
      <4> HIDE DEF s
      <4> QED BY <1>3, <2>1 DEF Areas
    <3> HIDE DEF f
    <3>3. ASSUME NEW j \in 0 .. frees' - 1
          PROVE  free'[j].addr \in PageStarts
      <4>1. j \in 0 .. frees - 2
        BY <1>3, <3>1
      <4>2. free'[j] = IF j < i THEN f[j] ELSE f[j + 1]
        BY <3>1, <4>1 DEF Without
      <4>3. j \in 0 .. frees - 1 /\ j + 1 \in 0 .. frees - 1
        BY <1>3, <4>1
      <4> QED BY <3>2, <4>2, <4>3
    <3> QED BY <1>4, <3>3
  <2>3. CASE ~JoinsBack(i, a, n)
    <3> DEFINE s == free[i - 1].size + n
    <3>1. frees' = frees /\ free' = [free EXCEPT ![i - 1].size = s]
      BY <1>8, <2>3 DEF FreeFront
    <3> HIDE DEF s
    <3>2. \A j \in 0 .. frees' - 1 : free'[j].addr = free[j].addr
      BY <1>3, <2>1, <3>1 DEF Areas
    <3> QED BY <1>4, <3>1, <3>2
  <2> QED BY <2>2, <2>3
<1> QED BY <1>1, <1>5, <1>6, <1>7, <1>8

(* A call of the memory manager or none. *)
LEMMA AlignedKept ==
  ASSUME IInv, AlignedInv, Kept
  PROVE  AlignedInv'
<1>1. CASE UNCHANGED vars
  BY <1>1 DEF vars, AlignedInv, Starting
<1>2. CASE Next
  BY <1>2, AllocAligned, FreeAligned DEF Next
<1> QED BY <1>1, <1>2 DEF Kept

LEMMA InitAligned ==
  ASSUME Init
  PROVE  AlignedInv
<1>1. frees = 1 /\ free[0].addr = Base /\ given = {}
  BY DEF Init, Area
<1>2. Base \in PageStarts
  <2>1. Base % Page = 0
    BY HeapAssumption
  <2> DEFINE q == Base \div Page
  <2>2. q \in Nat /\ Base = Page * q + (Base % Page)
    OBVIOUS
  <2> HIDE DEF q
  <2>3. Base = q * Page
    BY <2>1, <2>2
  <2> QED BY <2>2, <2>3 DEF PageStarts
<1> QED BY <1>1, <1>2 DEF AlignedInv, Starting

-----------------------------------------------------------------------------
PageRec == [addr : Nat, used : Nat, count : Nat]

\* The addresses of an entry of the table, and of the bytes of a page.
Span(e) == Bytes(e.addr, Up(e.size))
Holds(r, a) == r.addr <= a /\ a < r.addr + Page

\* The small block b lies behind the PageBlock of page r and in front of what
\* is still to be cut.
Lies(b, r) ==
  r.addr + Header <= b[1] /\ b[1] + Aligned(b[2]) <= r.addr + r.used

\* The entries M start where pages do and share no byte.
Apart(M) ==
  /\ M \subseteq [addr : PageStarts, size : Sizes]
  /\ \A d, e \in M : d # e => Span(d) \cap Span(e) = {}

\* A listed page is an area of the table, and counts its blocks among L.
PageGood(r, M, L) ==
  /\ Area(r.addr, Page) \in M
  /\ Header <= r.used /\ r.used <= Page
  /\ r.count = Cardinality({b \in L : Holds(r, b[1])}) /\ r.count > 0

\* A large block is an area of the table, no listed page; a small one lies in
\* one of the pages R.
BlockGood(b, R, M) ==
  /\ b \in Nat \X Requests
  /\ IF b[2] > Limit
     THEN Area(b[1], b[2]) \in M /\ \A r \in R : r.addr # b[1]
     ELSE \E r \in R : Lies(b, r)

\* The pages R, the entries M and the blocks L agree.
Blocks(R, M, L) ==
  /\ R \subseteq PageRec
  /\ \A r, s \in R : r.addr = s.addr => r = s
  /\ \A r \in R : PageGood(r, M, L)
  /\ IsFiniteSet(L)
  /\ \A b \in L : BlockGood(b, R, M)
  /\ \A b, c \in L : b # c => BytesOf(b) \cap BytesOf(c) = {}

(* An entry of a page is the page. *)
LEMMA PageSpan ==
  ASSUME NEW a \in Nat
  PROVE  /\ Span(Area(a, Page)) = Bytes(a, Page)
         /\ \A x \in Nat : x \in Bytes(a, Page) <=> (a <= x /\ x < a + Page)
<1>1. Span(Area(a, Page)) = Bytes(a, Page)
  BY UpPage DEF Span, Area
<1>2. \A x \in Nat : x \in Bytes(a, Page) <=> (a <= x /\ x < a + Page)
  BY DEF Bytes
<1> QED BY <1>1, <1>2

(* The sizes of blocks. *)
LEMMA BlockSizes ==
  ASSUME NEW n \in Requests
  PROVE  /\ n \in Nat \ {0} /\ Capacity(n) \in Nat \ {0}
         /\ n > Limit => Capacity(n) = Up(n)
         /\ ~(n > Limit) => Capacity(n) = Aligned(n) /\ Header + Aligned(n) <= Page
<1>1. n \in Nat \ {0} /\ Limit \in Nat
  BY HeapAssumption
<1>2. Aligned(n) \in Nat /\ Aligned(n) >= n /\ Up(n) \in Nat \ {0}
  BY <1>1, Rounded
<1>3. n <= Limit => Header + Aligned(n) <= Page
  BY <1>1, SmallFits
<1> QED BY <1>1, <1>2, <1>3 DEF Capacity

(* A block that lies in a page has its bytes in it, behind the PageBlock and
   in front of what is still to be cut. *)
LEMMA LiesIn ==
  ASSUME NEW b \in Nat \X Requests, ~(b[2] > Limit), NEW r \in PageRec, Lies(b, r),
         r.used <= Page
  PROVE  /\ BytesOf(b) \subseteq Bytes(r.addr, Page)
         /\ BytesOf(b) \cap Bytes(r.addr, Header) = {}
         /\ BytesOf(b) \cap Bytes(r.addr + r.used, Page) = {}
         /\ Holds(r, b[1])
         /\ b[1] - r.addr \in 1 .. Page - 1
<1> DEFINE n == Aligned(b[2])
<1>1. b[1] \in Nat /\ b[2] \in Requests /\ r.addr \in Nat /\ r.used \in Nat
      /\ Header \in Nat \ {0}
  BY HeapAssumption DEF PageRec
<1>2. n \in Nat \ {0} /\ Capacity(b[2]) = n
  BY <1>1, BlockSizes
<1>3. r.addr + Header <= b[1] /\ b[1] + n <= r.addr + r.used
  BY DEF Lies
<1>4. /\ BytesOf(b) = b[1] .. b[1] + n - 1
      /\ Bytes(r.addr, Page) = r.addr .. r.addr + Page - 1
      /\ Bytes(r.addr, Header) = r.addr .. r.addr + Header - 1
      /\ Bytes(r.addr + r.used, Page) = r.addr + r.used .. r.addr + r.used + Page - 1
  BY <1>2 DEF BytesOf, Bytes
<1> HIDE DEF n
<1>5. BytesOf(b) \subseteq Bytes(r.addr, Page)
  <2> SUFFICES ASSUME NEW x \in b[1] .. b[1] + n - 1
               PROVE  x \in r.addr .. r.addr + Page - 1
    BY <1>4
  <2> QED BY <1>1, <1>2, <1>3
<1>6. BytesOf(b) \cap Bytes(r.addr, Header) = {}
  <2> SUFFICES ASSUME NEW x \in b[1] .. b[1] + n - 1
               PROVE  x \notin r.addr .. r.addr + Header - 1
    BY <1>4
  <2> QED BY <1>1, <1>2, <1>3
<1>7. BytesOf(b) \cap Bytes(r.addr + r.used, Page) = {}
  <2> SUFFICES ASSUME NEW x \in b[1] .. b[1] + n - 1
               PROVE  x \notin r.addr + r.used .. r.addr + r.used + Page - 1
    BY <1>4
  <2> QED BY <1>1, <1>2, <1>3
<1>8. Holds(r, b[1]) /\ b[1] - r.addr \in 1 .. Page - 1
  BY <1>1, <1>2, <1>3 DEF Holds
<1> QED BY <1>5, <1>6, <1>7, <1>8

(* Every block is inside an entry of the table. *)
LEMMA HasHome ==
  ASSUME NEW R, NEW M, NEW L, Apart(M), Blocks(R, M, L), NEW b \in L
  PROVE  /\ b[1] \in Nat /\ b[2] \in Requests /\ b[1] \in BytesOf(b)
         /\ b = <<b[1], b[2]>>
         /\ b[2] > Limit => BytesOf(b) = Span(Area(b[1], b[2]))
         /\ ~(b[2] > Limit) =>
              \E r \in R : /\ Lies(b, r) /\ Holds(r, b[1])
                            /\ BytesOf(b) \subseteq Span(Area(r.addr, Page))
         /\ \E e \in M : BytesOf(b) \subseteq Span(e)
<1>1. BlockGood(b, R, M) /\ b \in Nat \X Requests
  BY DEF Blocks, BlockGood
<1>2. b[1] \in Nat /\ b[2] \in Requests /\ b = <<b[1], b[2]>>
  BY <1>1
<1>3. b[1] \in BytesOf(b)
  <2>1. Capacity(b[2]) \in Nat \ {0}
    BY <1>2, BlockSizes
  <2> QED BY <1>2, <2>1 DEF BytesOf, Bytes
<1>4. CASE b[2] > Limit
  <2>1. BytesOf(b) = Span(Area(b[1], b[2]))
    BY <1>2, <1>4, BlockSizes DEF BytesOf, Span, Area
  <2>2. Area(b[1], b[2]) \in M
    BY <1>1, <1>4 DEF BlockGood
  <2> QED BY <1>2, <1>3, <1>4, <2>1, <2>2
<1>5. CASE ~(b[2] > Limit)
  <2>1. PICK r \in R : Lies(b, r)
    BY <1>1, <1>5 DEF BlockGood
  <2>2. r \in PageRec /\ PageGood(r, M, L)
    BY DEF Blocks
  <2>3. r.used <= Page /\ Area(r.addr, Page) \in M
    BY <2>2 DEF PageGood
  <2>4. BytesOf(b) \subseteq Bytes(r.addr, Page) /\ Holds(r, b[1])
    BY <1>1, <1>5, <2>1, <2>2, <2>3, LiesIn
  <2>5. Span(Area(r.addr, Page)) = Bytes(r.addr, Page)
    BY <2>2, PageSpan DEF PageRec
  <2> QED BY <1>2, <1>3, <1>5, <2>1, <2>3, <2>4, <2>5
<1> QED BY <1>4, <1>5

(* Two pages hold no common address. *)
LEMMA PagesApart ==
  ASSUME NEW R, NEW M, NEW L, Apart(M), Blocks(R, M, L),
         NEW r \in R, NEW s \in R, NEW x \in Nat, Holds(r, x), Holds(s, x)
  PROVE  r = s
<1>1. r.addr \in Nat /\ s.addr \in Nat
  BY DEF Blocks, PageRec
<1>2. Area(r.addr, Page) \in M /\ Area(s.addr, Page) \in M
  BY DEF Blocks, PageGood
<1>3. x \in Span(Area(r.addr, Page)) /\ x \in Span(Area(s.addr, Page))
  BY <1>1, PageSpan DEF Holds
<1>4. Area(r.addr, Page) = Area(s.addr, Page)
  BY <1>2, <1>3 DEF Apart
<1>5. r.addr = s.addr
  BY <1>4 DEF Area
<1> QED BY <1>5 DEF Blocks

(* The blocks a page holds are the small ones that lie in it. *)
LEMMA HeldAre ==
  ASSUME NEW R, NEW M, NEW L, Apart(M), Blocks(R, M, L),
         NEW r \in R, NEW b \in L
  PROVE  Holds(r, b[1]) <=> (~(b[2] > Limit) /\ Lies(b, r))
<1>1. b[1] \in Nat /\ b[2] \in Requests /\ b[1] \in BytesOf(b)
  BY HasHome
<1>2. r.addr \in Nat /\ Area(r.addr, Page) \in M
  BY DEF Blocks, PageRec, PageGood
<1>3. CASE b[2] > Limit
  <2>1. BytesOf(b) = Span(Area(b[1], b[2]))
    BY <1>3, HasHome
  <2>2. Area(b[1], b[2]) \in M /\ r.addr # b[1]
    BY <1>3 DEF Blocks, BlockGood
  <2>3. Area(b[1], b[2]) # Area(r.addr, Page)
    BY <2>2 DEF Area
  <2>4. Holds(r, b[1]) => b[1] \in Span(Area(r.addr, Page))
    BY <1>1, <1>2, PageSpan DEF Holds
  <2>5. ~Holds(r, b[1])
    BY <1>1, <1>2, <2>1, <2>2, <2>3, <2>4 DEF Apart
  <2> QED BY <1>3, <2>5
<1>4. CASE ~(b[2] > Limit)
  <2>1. PICK s \in R : Lies(b, s) /\ Holds(s, b[1])
    BY <1>4, HasHome
  <2>2. Holds(r, b[1]) => r = s
    BY <1>1, <2>1, PagesApart
  <2>3. Lies(b, r) => Holds(r, b[1])
    <3>1. b \in Nat \X Requests /\ r \in PageRec /\ r.used <= Page
      BY DEF Blocks, BlockGood, PageGood
    <3> QED BY <1>4, <3>1, LiesIn
  <2> QED BY <1>4, <2>1, <2>2, <2>3
<1> QED BY <1>3, <1>4

-----------------------------------------------------------------------------
(* A block in a new entry shares no byte with a block there was. *)
LEMMA NewApart ==
  ASSUME NEW R, NEW M, NEW L, Apart(M), Blocks(R, M, L),
         NEW e, e \notin M, Apart(M \cup {e}), NEW b \in L
  PROVE  BytesOf(b) \cap Span(e) = {}
<1>1. PICK d \in M : BytesOf(b) \subseteq Span(d)
  BY HasHome
<1>2. d # e
  OBVIOUS
<1> QED BY <1>1, <1>2 DEF Apart

(* Two sets of blocks with the same blocks in a page. *)
LEMMA SameCount ==
  ASSUME NEW r, NEW M, NEW M2, NEW L, NEW L2, PageGood(r, M, L),
         Area(r.addr, Page) \in M2,
         {b \in L2 : Holds(r, b[1])} = {b \in L : Holds(r, b[1])}
  PROVE  PageGood(r, M2, L2)
  BY DEF PageGood

(* A large block is an entry of its own. *)
LEMMA LargeKeeps ==
  ASSUME NEW R, NEW M, NEW L, Apart(M), Blocks(R, M, L),
         NEW a \in Nat, NEW n \in Requests, n > Limit,
         Area(a, n) \notin M, \A d \in M : d.addr # a,
         Apart(M \cup {Area(a, n)})
  PROVE  Blocks(R, M \cup {Area(a, n)}, L \cup {<<a, n>>}) /\ <<a, n>> \notin L
<1> DEFINE b == <<a, n>>
           e == Area(a, n)
           M2 == M \cup {e}
           L2 == L \cup {b}
<1>0. b[1] = a /\ b[2] = n /\ e.addr = a /\ e.size = n
  BY DEF Area
<1>1. BytesOf(b) = Span(e) /\ a \in BytesOf(b)
  <2>1. Capacity(n) = Up(n) /\ Up(n) \in Nat \ {0}
    BY BlockSizes
  <2> QED BY <2>1 DEF BytesOf, Span, Area, Bytes
<1> HIDE DEF b, e
<1>2. \A c \in L : BytesOf(c) \cap BytesOf(b) = {}
  BY <1>1, NewApart DEF e
<1>3. b \notin L
  BY <1>1, <1>2
<1>4. ASSUME NEW r \in R
      PROVE  ~Holds(r, a) /\ r.addr # a
  <2>1. r.addr \in Nat /\ Area(r.addr, Page) \in M
    BY DEF Blocks, PageRec, PageGood
  <2>2. Area(r.addr, Page) # e /\ r.addr # a
    BY <2>1 DEF Area, e
  <2>3. Span(Area(r.addr, Page)) \cap Span(e) = {}
    BY <2>1, <2>2 DEF Apart, e
  <2>4. a \notin Span(Area(r.addr, Page))
    BY <1>1, <2>3
  <2> QED BY <2>1, <2>2, <2>4, PageSpan DEF Holds
<1>5. ASSUME NEW r \in R
      PROVE  PageGood(r, M2, L2)
  <2>1. PageGood(r, M, L) /\ Area(r.addr, Page) \in M2
    BY DEF Blocks, PageGood
  <2>2. {c \in L2 : Holds(r, c[1])} = {c \in L : Holds(r, c[1])}
    BY <1>0, <1>4
  <2> QED BY <2>1, <2>2, SameCount
<1>6. ASSUME NEW c \in L2
      PROVE  BlockGood(c, R, M2)
  <2>1. CASE c \in L
    BY <2>1 DEF Blocks, BlockGood
  <2>2. CASE c = b
    <3>1. b \in Nat \X Requests
      BY DEF b
    <3>2. Area(b[1], b[2]) \in M2
      BY <1>0 DEF e
    <3> QED BY <1>0, <1>4, <2>2, <3>1, <3>2 DEF BlockGood
  <2> QED BY <2>1, <2>2
<1>7. IsFiniteSet(L2)
  BY FS_AddElement DEF Blocks
<1>8. \A c, d \in L2 : c # d => BytesOf(c) \cap BytesOf(d) = {}
  BY <1>2 DEF Blocks
<1>9. R \subseteq PageRec /\ \A r, s \in R : r.addr = s.addr => r = s
  BY DEF Blocks
<1> HIDE DEF M2, L2
<1>10. Blocks(R, M2, L2)
  BY <1>5, <1>6, <1>7, <1>8, <1>9 DEF Blocks
<1> QED BY <1>3, <1>10 DEF M2, L2, b, e

\* The page r becomes s when a block of n bytes is cut from it.
CutTo(r, s, n) ==
  /\ ~(n > Limit) /\ Page - r.used >= Aligned(n)
  /\ s \in PageRec /\ s.addr = r.addr
  /\ s.used = r.used + Aligned(n) /\ s.count = r.count + 1

(* A small block is cut from the page r, which becomes s. *)
LEMMA CutKeeps ==
  ASSUME NEW R, NEW M, NEW L, Apart(M), Blocks(R, M, L),
         NEW r \in R, NEW s, NEW n \in Requests, CutTo(r, s, n)
  PROVE  /\ Blocks((R \ {r}) \cup {s}, M, L \cup {<<r.addr + r.used, n>>})
         /\ <<r.addr + r.used, n>> \notin L
<1> DEFINE a == r.addr + r.used
           b == <<a, n>>
           R2 == (R \ {r}) \cup {s}
           L2 == L \cup {b}
<1> USE DEF CutTo
<1>0. b[1] = a /\ b[2] = n
  OBVIOUS
<1>1. /\ r \in PageRec /\ r.addr \in Nat /\ r.used \in Nat /\ r.count \in Nat
      /\ Header <= r.used /\ r.used <= Page /\ r.count > 0
      /\ r.count = Cardinality({c \in L : Holds(r, c[1])})
      /\ Area(r.addr, Page) \in M
      /\ Header \in Nat \ {0}
  BY HeapAssumption DEF Blocks, PageRec, PageGood
<1>2. Aligned(n) \in Nat \ {0} /\ Capacity(n) = Aligned(n)
  BY BlockSizes
<1>3. a \in Nat /\ b \in Nat \X Requests
  BY <1>1
<1>4. s.used <= Page /\ Header <= s.used /\ Lies(b, s)
  BY <1>1, <1>2 DEF Lies
<1> HIDE DEF b
<1>5. BytesOf(b) \subseteq Bytes(r.addr, Page) /\ Holds(r, a) /\ a \in BytesOf(b)
  <2>1. BytesOf(b) \subseteq Bytes(s.addr, Page) /\ Holds(s, b[1])
    BY <1>0, <1>3, <1>4, LiesIn
  <2>2. a \in BytesOf(b)
    BY <1>0, <1>2, <1>3 DEF BytesOf, Bytes
  <2> QED BY <1>0, <2>1, <2>2 DEF Holds
<1>6. ASSUME NEW c \in L
      PROVE  BytesOf(c) \cap BytesOf(b) = {}
  <2>1. c \in Nat \X Requests
    BY DEF Blocks, BlockGood
  <2>2. CASE Holds(r, c[1])
    <3>1. ~(c[2] > Limit) /\ Lies(c, r)
      BY <2>2, HeldAre
    <3>2. BytesOf(c) \cap Bytes(a, Page) = {}
      BY <1>1, <2>1, <3>1, LiesIn
    <3>3. BytesOf(b) \subseteq Bytes(a, Page)
      <4>1. Aligned(n) <= Page
        BY <1>1, <1>2
      <4> QED BY <1>0, <1>2, <1>3, <4>1 DEF BytesOf, Bytes
    <3> QED BY <3>2, <3>3
  <2>3. CASE ~Holds(r, c[1])
    <3>1. PICK e \in M : BytesOf(c) \subseteq Span(e) /\ c[1] \in BytesOf(c)
      BY HasHome
    <3>2. Span(Area(r.addr, Page)) = Bytes(r.addr, Page)
      BY <1>1, PageSpan
    <3>3. c[1] \notin Bytes(r.addr, Page)
      BY <1>1, <2>1, <2>3, PageSpan DEF Holds
    <3>4. e # Area(r.addr, Page)
      BY <3>1, <3>2, <3>3
    <3> QED BY <1>1, <1>5, <3>1, <3>2, <3>4 DEF Apart
  <2> QED BY <2>2, <2>3
<1>7. b \notin L
  BY <1>5, <1>6
<1>8. IsFiniteSet(L) /\ IsFiniteSet(L2)
  BY FS_AddElement DEF Blocks
<1>9. PageGood(s, M, L2)
  <2> DEFINE H == {c \in L : Holds(r, c[1])}
             H2 == {c \in L2 : Holds(s, c[1])}
  <2>1. H2 = H \cup {b} /\ b \notin H
    BY <1>0, <1>5, <1>7 DEF Holds
  <2>2. IsFiniteSet(H)
    BY <1>8, FS_Subset
  <2> HIDE DEF H, H2
  <2>3. Cardinality(H2) = Cardinality(H) + 1
    BY <2>1, <2>2, FS_AddElement
  <2>4. s.count = Cardinality(H2) /\ s.count > 0
    BY <1>1, <2>3 DEF H
  <2> QED BY <1>1, <1>4, <2>4 DEF PageGood, H2
<1>10. ASSUME NEW q \in R2
       PROVE  PageGood(q, M, L2)
  <2>1. CASE q = s
    BY <1>9, <2>1
  <2>2. CASE q # s
    <3>1. q \in R /\ q # r
      BY <2>2
    <3>2. ~Holds(q, a)
      BY <1>3, <1>5, <3>1, PagesApart
    <3>3. {c \in L2 : Holds(q, c[1])} = {c \in L : Holds(q, c[1])}
      BY <1>0, <3>2
    <3>4. PageGood(q, M, L)
      BY <3>1 DEF Blocks
    <3>5. Area(q.addr, Page) \in M
      BY <3>4 DEF PageGood
    <3> QED BY <3>3, <3>4, <3>5, SameCount
  <2> QED BY <2>1, <2>2
<1>11. ASSUME NEW c \in L2
       PROVE  BlockGood(c, R2, M)
  <2>1. CASE c = b
    BY <1>0, <1>3, <1>4, <2>1 DEF BlockGood
  <2>2. CASE c \in L
    <3>1. BlockGood(c, R, M)
      BY <2>2 DEF Blocks
    <3>2. CASE c[2] > Limit
      <4>1. \A q \in R2 : q.addr # c[1]
        BY <3>1, <3>2 DEF BlockGood
      <4> QED BY <3>1, <3>2, <4>1 DEF BlockGood
    <3>3. CASE ~(c[2] > Limit)
      <4>1. PICK q \in R : Lies(c, q)
        BY <3>1, <3>3 DEF BlockGood
      <4>2. CASE q # r
        BY <3>1, <3>3, <4>1, <4>2 DEF BlockGood
      <4>3. CASE q = r
        <5>1. c \in Nat \X Requests
          BY <3>1 DEF BlockGood
        <5>2. Aligned(c[2]) \in Nat
          BY <3>3, <5>1, BlockSizes
        <5>3. Lies(c, s)
          BY <1>1, <1>2, <4>1, <4>3, <5>1, <5>2 DEF Lies
        <5> QED BY <3>1, <3>3, <5>3 DEF BlockGood
      <4> QED BY <4>2, <4>3
    <3> QED BY <3>2, <3>3
  <2> QED BY <2>1, <2>2
<1>12. \A c, d \in L2 : c # d => BytesOf(c) \cap BytesOf(d) = {}
  BY <1>6 DEF Blocks
<1>13. R2 \subseteq PageRec /\ \A p, q \in R2 : p.addr = q.addr => p = q
  BY DEF Blocks
<1> HIDE DEF R2, L2
<1>14. Blocks(R2, M, L2)
  BY <1>8, <1>10, <1>11, <1>12, <1>13 DEF Blocks
<1> QED BY <1>7, <1>14 DEF R2, L2, b

-----------------------------------------------------------------------------
\* The page s is new to the entries M, with a first block of n bytes.
PageWith(s, n, M) ==
  /\ ~(n > Limit)
  /\ s \in PageRec /\ s.used = Header + Aligned(n) /\ s.count = 1
  /\ Area(s.addr, Page) \notin M /\ \A d \in M : d.addr # s.addr
  /\ Apart(M \cup {Area(s.addr, Page)})

(* A new page s comes with its first block. *)
LEMMA PageKeeps ==
  ASSUME NEW R, NEW M, NEW L, Apart(M), Blocks(R, M, L),
         NEW s, NEW n \in Requests, PageWith(s, n, M)
  PROVE  /\ Blocks(R \cup {s}, M \cup {Area(s.addr, Page)}, L \cup {<<s.addr + Header, n>>})
         /\ \A r \in R : r.addr # s.addr
         /\ <<s.addr + Header, n>> \notin L
<1> DEFINE a == s.addr + Header
           b == <<a, n>>
           e == Area(s.addr, Page)
           R2 == R \cup {s}
           M2 == M \cup {e}
           L2 == L \cup {b}
<1> USE DEF PageWith
<1>0. b[1] = a /\ b[2] = n
  OBVIOUS
<1>1. s.addr \in Nat /\ Header \in Nat \ {0} /\ a \in Nat /\ b \in Nat \X Requests
  BY HeapAssumption DEF PageRec
<1>2. Aligned(n) \in Nat \ {0} /\ Capacity(n) = Aligned(n) /\ Header + Aligned(n) <= Page
  BY BlockSizes
<1>3. s.used <= Page /\ Header <= s.used /\ Lies(b, s)
  BY <1>1, <1>2 DEF Lies
<1>4. Span(e) = Bytes(s.addr, Page)
  BY <1>1, PageSpan
<1> HIDE DEF b
<1>5. BytesOf(b) \subseteq Span(e) /\ Holds(s, a) /\ a \in BytesOf(b)
  <2>1. BytesOf(b) \subseteq Bytes(s.addr, Page) /\ Holds(s, b[1])
    BY <1>0, <1>1, <1>3, LiesIn
  <2>2. a \in BytesOf(b)
    BY <1>0, <1>1, <1>2 DEF BytesOf, Bytes
  <2> QED BY <1>0, <1>4, <2>1, <2>2
<1> HIDE DEF e
<1>6. ASSUME NEW c \in L
      PROVE  BytesOf(c) \cap Span(e) = {} /\ ~Holds(s, c[1])
  <2>1. BytesOf(c) \cap Span(e) = {}
    BY NewApart DEF e
  <2>2. c[1] \in BytesOf(c) /\ c[1] \in Nat
    BY HasHome
  <2> QED BY <1>1, <1>4, <2>1, <2>2, PageSpan DEF Holds
<1>7. ASSUME NEW r \in R
      PROVE  r.addr # s.addr /\ ~Holds(r, a)
  <2>1. r.addr \in Nat /\ Area(r.addr, Page) \in M
    BY DEF Blocks, PageRec, PageGood
  <2>2. Area(r.addr, Page) # e /\ r.addr # s.addr
    BY <2>1 DEF Area, e
  <2>3. Span(Area(r.addr, Page)) \cap Span(e) = {}
    BY <2>1, <2>2 DEF Apart, e
  <2>4. a \notin Span(Area(r.addr, Page))
    BY <1>5, <2>3
  <2> QED BY <1>1, <2>1, <2>2, <2>4, PageSpan DEF Holds
<1>8. b \notin L
  BY <1>5, <1>6
<1>9. IsFiniteSet(L) /\ IsFiniteSet(L2)
  BY FS_AddElement DEF Blocks
<1>10. PageGood(s, M2, L2)
  <2> DEFINE H == {c \in L2 : Holds(s, c[1])}
  <2>1. H = {b}
    BY <1>0, <1>5, <1>6
  <2> HIDE DEF H
  <2>2. Cardinality(H) = 1
    BY <2>1, FS_Singleton
  <2>3. Area(s.addr, Page) \in M2
    BY DEF e
  <2>4. s.count = Cardinality(H) /\ s.count > 0
    BY <2>2
  <2> QED BY <1>3, <2>3, <2>4 DEF PageGood, H
<1>11. ASSUME NEW r \in R
       PROVE  PageGood(r, M2, L2)
  <2>1. PageGood(r, M, L) /\ Area(r.addr, Page) \in M2
    BY DEF Blocks, PageGood
  <2>2. {c \in L2 : Holds(r, c[1])} = {c \in L : Holds(r, c[1])}
    BY <1>0, <1>7
  <2> QED BY <2>1, <2>2, SameCount
<1>12. ASSUME NEW c \in L2
       PROVE  BlockGood(c, R2, M2)
  <2>1. CASE c = b
    BY <1>0, <1>1, <1>3, <2>1 DEF BlockGood
  <2>2. CASE c \in L
    <3>1. BlockGood(c, R, M)
      BY <2>2 DEF Blocks
    <3>2. CASE c[2] > Limit
      <4>1. Area(c[1], c[2]) \in M
        BY <3>1, <3>2 DEF BlockGood
      <4>2. s.addr # c[1]
        BY <4>1 DEF Area
      <4> QED BY <3>1, <3>2, <4>2 DEF BlockGood
    <3>3. CASE ~(c[2] > Limit)
      BY <3>1, <3>3 DEF BlockGood
    <3> QED BY <3>2, <3>3
  <2> QED BY <2>1, <2>2
<1>13. \A c, d \in L2 : c # d => BytesOf(c) \cap BytesOf(d) = {}
  BY <1>5, <1>6 DEF Blocks
<1>14. R2 \subseteq PageRec /\ \A p, q \in R2 : p.addr = q.addr => p = q
  BY <1>7 DEF Blocks
<1> HIDE DEF R2, M2, L2
<1>15. Blocks(R2, M2, L2)
  <2>1. \A r \in R2 : PageGood(r, M2, L2)
    BY <1>10, <1>11 DEF R2
  <2> QED BY <1>9, <2>1, <1>12, <1>13, <1>14 DEF Blocks
<1> QED BY <1>7, <1>8, <1>15 DEF R2, M2, L2, b, e

(* The blocks of a page when another one is given back. *)
LEMMA OthersHeld ==
  ASSUME NEW R, NEW M, NEW L, Apart(M), Blocks(R, M, L),
         NEW r \in R, NEW b \in L, ~Holds(r, b[1]), NEW M2, Area(r.addr, Page) \in M2
  PROVE  PageGood(r, M2, L \ {b})
<1>1. PageGood(r, M, L)
  BY DEF Blocks
<1>2. {c \in L \ {b} : Holds(r, c[1])} = {c \in L : Holds(r, c[1])}
  OBVIOUS
<1> QED BY <1>1, <1>2, SameCount

(* A large block goes with its entry. *)
LEMMA FreeLargeKeeps ==
  ASSUME NEW R, NEW M, NEW L, Apart(M), Blocks(R, M, L),
         NEW b \in L, b[2] > Limit
  PROVE  Blocks(R, M \ {Area(b[1], b[2])}, L \ {b})
<1> DEFINE e == Area(b[1], b[2])
           M2 == M \ {e}
           L2 == L \ {b}
<1>1. BytesOf(b) = Span(e) /\ b[1] \in BytesOf(b)
  BY HasHome
<1>2. \A r \in R : r.addr # b[1]
  BY DEF Blocks, BlockGood
<1>3. ASSUME NEW r \in R
      PROVE  PageGood(r, M2, L2)
  <2>1. Area(r.addr, Page) \in M /\ Area(r.addr, Page) # e
    BY <1>2 DEF Blocks, PageGood, Area
  <2>2. ~Holds(r, b[1])
    BY HeldAre
  <2> QED BY <2>1, <2>2, OthersHeld
<1>4. ASSUME NEW c \in L2
      PROVE  BlockGood(c, R, M2)
  <2>1. BlockGood(c, R, M) /\ c # b /\ c \in L
    BY DEF Blocks
  <2>2. CASE c[2] > Limit
    <3>1. BytesOf(c) = Span(Area(c[1], c[2])) /\ c[1] \in BytesOf(c)
      BY <2>1, <2>2, HasHome
    <3>2. Area(c[1], c[2]) # e
      BY <1>1, <2>1, <3>1 DEF Blocks
    <3> QED BY <2>1, <2>2, <3>2 DEF BlockGood
  <2>3. CASE ~(c[2] > Limit)
    BY <2>1, <2>3 DEF BlockGood
  <2> QED BY <2>2, <2>3
<1>5. IsFiniteSet(L2)
  BY FS_Subset DEF Blocks
<1> QED BY <1>3, <1>4, <1>5 DEF Blocks

(* A small block goes, and there are others in its page r, which becomes s. *)
LEMMA FreeCountKeeps ==
  ASSUME NEW R, NEW M, NEW L, Apart(M), Blocks(R, M, L),
         NEW b \in L, NEW r \in R, Holds(r, b[1]), r.count # 1,
         NEW s \in PageRec, s.addr = r.addr, s.used = r.used, s.count = r.count - 1
  PROVE  Blocks((R \ {r}) \cup {s}, M, L \ {b})
<1> DEFINE R2 == (R \ {r}) \cup {s}
           L2 == L \ {b}
<1>1. /\ r.addr \in Nat /\ r.count \in Nat /\ Header <= r.used /\ r.used <= Page
      /\ r.count > 0 /\ r.count = Cardinality({c \in L : Holds(r, c[1])})
      /\ Area(r.addr, Page) \in M
  BY DEF Blocks, PageRec, PageGood
<1>2. IsFiniteSet(L) /\ IsFiniteSet(L2)
  BY FS_Subset DEF Blocks
<1>3. PageGood(s, M, L2)
  <2> DEFINE H == {c \in L : Holds(r, c[1])}
             H2 == {c \in L2 : Holds(s, c[1])}
  <2>1. H2 = H \ {b} /\ b \in H
    BY DEF Holds
  <2>2. IsFiniteSet(H)
    BY <1>2, FS_Subset
  <2> HIDE DEF H, H2
  <2>3. Cardinality(H2) = Cardinality(H) - 1
    BY <2>1, <2>2, FS_RemoveElement
  <2>4. s.count = Cardinality(H2) /\ s.count > 0
    BY <1>1, <2>3 DEF H
  <2> QED BY <1>1, <2>4 DEF PageGood, H2
<1>4. ASSUME NEW q \in R2
      PROVE  PageGood(q, M, L2)
  <2>1. CASE q = s
    BY <1>3, <2>1
  <2>2. CASE q # s
    <3>1. q \in R /\ q # r
      BY <2>2
    <3>2. b[1] \in Nat
      BY HasHome
    <3>3. ~Holds(q, b[1])
      BY <3>1, <3>2, PagesApart
    <3>4. Area(q.addr, Page) \in M
      BY <3>1 DEF Blocks, PageGood
    <3> QED BY <3>1, <3>3, <3>4, OthersHeld
  <2> QED BY <2>1, <2>2
<1>5. ASSUME NEW c \in L2
      PROVE  BlockGood(c, R2, M)
  <2>1. BlockGood(c, R, M)
    BY DEF Blocks
  <2>2. CASE c[2] > Limit
    BY <2>1, <2>2 DEF BlockGood
  <2>3. CASE ~(c[2] > Limit)
    <3>1. PICK q \in R : Lies(c, q)
      BY <2>1, <2>3 DEF BlockGood
    <3>2. \E p \in R2 : Lies(c, p)
      BY <3>1 DEF Lies
    <3> QED BY <2>1, <2>3, <3>2 DEF BlockGood
  <2> QED BY <2>2, <2>3
<1>6. R2 \subseteq PageRec /\ \A p, q \in R2 : p.addr = q.addr => p = q
  BY DEF Blocks
<1>7. \A c, d \in L2 : c # d => BytesOf(c) \cap BytesOf(d) = {}
  BY DEF Blocks
<1> HIDE DEF R2, L2
<1>8. Blocks(R2, M, L2)
  BY <1>2, <1>4, <1>5, <1>6, <1>7 DEF Blocks
<1> QED BY <1>8 DEF R2, L2

(* The last block of the page r goes, and the page with it. *)
LEMMA FreePageKeeps ==
  ASSUME NEW R, NEW M, NEW L, Apart(M), Blocks(R, M, L),
         NEW b \in L, NEW r \in R, Holds(r, b[1]), r.count = 1
  PROVE  Blocks(R \ {r}, M \ {Area(r.addr, Page)}, L \ {b})
<1> DEFINE e == Area(r.addr, Page)
           R2 == R \ {r}
           M2 == M \ {e}
           L2 == L \ {b}
<1>1. IsFiniteSet(L) /\ IsFiniteSet(L2)
  BY FS_Subset DEF Blocks
<1>2. \A c \in L2 : ~Holds(r, c[1])
  <2> DEFINE H == {c \in L : Holds(r, c[1])}
  <2>1. IsFiniteSet(H) /\ Cardinality(H) = 1 /\ b \in H
    BY <1>1, FS_Subset DEF Blocks, PageGood
  <2> HIDE DEF H
  <2>2. PICK x : H = {x}
    BY <2>1, FS_Singleton
  <2>3. H = {b}
    BY <2>1, <2>2
  <2> QED BY <2>3 DEF H
<1>3. b[1] \in Nat
  BY HasHome
<1>4. ASSUME NEW q \in R2
      PROVE  PageGood(q, M2, L2)
  <2>1. q \in R /\ q # r
    OBVIOUS
  <2>2. ~Holds(q, b[1])
    BY <1>3, <2>1, PagesApart
  <2>3. Area(q.addr, Page) \in M /\ q.addr # r.addr
    BY <2>1 DEF Blocks, PageGood
  <2>4. Area(q.addr, Page) \in M2
    BY <2>3 DEF Area
  <2> QED BY <2>1, <2>2, <2>4, OthersHeld
<1>5. ASSUME NEW c \in L2
      PROVE  BlockGood(c, R2, M2)
  <2>1. BlockGood(c, R, M) /\ c \in L
    BY DEF Blocks
  <2>2. CASE c[2] > Limit
    <3>1. r.addr # c[1] /\ Area(c[1], c[2]) \in M
      BY <2>1, <2>2 DEF BlockGood
    <3>2. Area(c[1], c[2]) \in M2
      BY <3>1 DEF Area
    <3> QED BY <2>1, <2>2, <3>2 DEF BlockGood
  <2>3. CASE ~(c[2] > Limit)
    <3>1. PICK q \in R : Lies(c, q)
      BY <2>1, <2>3 DEF BlockGood
    <3>2. Holds(q, c[1])
      BY <2>1, <2>3, <3>1, HeldAre
    <3>3. q \in R2
      BY <1>2, <3>2
    <3> QED BY <2>1, <2>3, <3>1, <3>3 DEF BlockGood
  <2> QED BY <2>2, <2>3
<1>6. R2 \subseteq PageRec /\ \A p, q \in R2 : p.addr = q.addr => p = q
  BY DEF Blocks
<1>7. \A c, d \in L2 : c # d => BytesOf(c) \cap BytesOf(d) = {}
  BY DEF Blocks
<1> HIDE DEF R2, M2, L2
<1>8. Blocks(R2, M2, L2)
  BY <1>1, <1>4, <1>5, <1>6, <1>7 DEF Blocks
<1> QED BY <1>8 DEF R2, M2, L2

-----------------------------------------------------------------------------
\* A list of pages, all different.
Listed(P) ==
  /\ P \in Seq(PageRec)
  /\ \A j, k \in DOMAIN P : P[j].addr = P[k].addr => j = k

PageOf(a, u, c) == [addr |-> a, used |-> u, count |-> c]

PagesIn(P) == {P[k] : k \in DOMAIN P}

(* The record of a page. *)
LEMMA PageFields ==
  ASSUME NEW a \in Nat, NEW u \in Nat, NEW c \in Nat
  PROVE  /\ PageOf(a, u, c) \in PageRec /\ PageOf(a, u, c).addr = a
         /\ PageOf(a, u, c).used = u /\ PageOf(a, u, c).count = c
  BY DEF PageRec, PageOf

(* A page of the list changes, but for its address. *)
LEMMA ListChanges ==
  ASSUME NEW P, Listed(P), NEW k \in DOMAIN P, NEW s \in PageRec, s.addr = P[k].addr,
         NEW Q \in Seq(PageRec), DOMAIN Q = DOMAIN P, Q[k] = s,
         \A j \in DOMAIN P : j # k => Q[j] = P[j]
  PROVE  Listed(Q) /\ PagesIn(Q) = (PagesIn(P) \ {P[k]}) \cup {s}
<1>1. Listed(Q)
  BY DEF Listed
<1>2. \A j \in DOMAIN P : j # k => P[j] # P[k]
  BY DEF Listed
<1>3. PagesIn(Q) = (PagesIn(P) \ {P[k]}) \cup {s}
  BY <1>2 DEF PagesIn
<1> QED BY <1>1, <1>3

(* A page is put in front of the list. *)
LEMMA ListGrows ==
  ASSUME NEW P, Listed(P), NEW s \in PageRec, \A r \in PagesIn(P) : r.addr # s.addr
  PROVE  Listed(<<s>> \o P) /\ PagesIn(<<s>> \o P) = PagesIn(P) \cup {s}
<1> DEFINE Q == <<s>> \o P
<1>1. P \in Seq(PageRec) /\ Len(P) \in Nat /\ DOMAIN P = 1 .. Len(P)
  BY DEF Listed
<1>2. /\ Q \in Seq(PageRec) /\ DOMAIN Q = 1 .. Len(P) + 1 /\ Q[1] = s
      /\ \A j \in 2 .. Len(P) + 1 : Q[j] = P[j - 1]
  BY <1>1
<1> HIDE DEF Q
<1>3. \A j \in DOMAIN Q : j = 1 \/ (j \in 2 .. Len(P) + 1 /\ j - 1 \in DOMAIN P)
  BY <1>1, <1>2
<1>4. \A j \in DOMAIN P : j + 1 \in 2 .. Len(P) + 1 /\ j + 1 \in DOMAIN Q /\ (j + 1) - 1 = j
  BY <1>1, <1>2
<1>5. PagesIn(Q) = PagesIn(P) \cup {s}
  <2>1. PagesIn(Q) \subseteq PagesIn(P) \cup {s}
    BY <1>2, <1>3 DEF PagesIn
  <2>2. PagesIn(P) \subseteq PagesIn(Q)
    <3> SUFFICES ASSUME NEW j \in DOMAIN P
                 PROVE  P[j] \in PagesIn(Q)
      BY DEF PagesIn
    <3>1. Q[j + 1] = P[j] /\ j + 1 \in DOMAIN Q
      BY <1>2, <1>4
    <3> QED BY <3>1 DEF PagesIn
  <2>3. s \in PagesIn(Q)
    <3>1. 1 \in DOMAIN Q
      BY <1>1, <1>2
    <3> QED BY <1>2, <3>1 DEF PagesIn
  <2> QED BY <2>1, <2>2, <2>3
<1>6. ASSUME NEW i \in DOMAIN Q, NEW j \in DOMAIN Q, Q[i].addr = Q[j].addr
      PROVE  i = j
  <2>1. \A l \in DOMAIN P : P[l].addr # s.addr
    BY DEF PagesIn
  <2>2. CASE i = 1
    BY <1>2, <1>3, <1>6, <2>1, <2>2
  <2>3. CASE j = 1
    BY <1>2, <1>3, <1>6, <2>1, <2>3
  <2>4. CASE i # 1 /\ j # 1
    <3>1. i - 1 \in DOMAIN P /\ j - 1 \in DOMAIN P /\ i \in Int /\ j \in Int
          /\ Q[i] = P[i - 1] /\ Q[j] = P[j - 1]
      BY <1>2, <1>3, <2>4
    <3>2. i - 1 = j - 1
      BY <1>6, <3>1 DEF Listed
    <3> QED BY <3>1, <3>2
  <2> QED BY <2>2, <2>3, <2>4
<1> QED BY <1>2, <1>5, <1>6 DEF Listed, Q

(* A page leaves the list. *)
LEMMA ListDrops ==
  ASSUME NEW P, Listed(P), NEW k \in DOMAIN P
  PROVE  /\ Listed(SubSeq(P, 1, k - 1) \o SubSeq(P, k + 1, Len(P)))
         /\ PagesIn(SubSeq(P, 1, k - 1) \o SubSeq(P, k + 1, Len(P))) = PagesIn(P) \ {P[k]}
<1> DEFINE n == Len(P)
           F == SubSeq(P, 1, k - 1)
           B == SubSeq(P, k + 1, Len(P))
           Q == F \o B
<1>1. P \in Seq(PageRec) /\ n \in Nat /\ DOMAIN P = 1 .. n /\ k \in 1 .. n
  BY DEF Listed
<1>2. /\ F \in Seq(PageRec) /\ Len(F) = k - 1
      /\ \A j \in 1 .. k - 1 : F[j] = P[j]
  BY <1>1
<1>3. /\ B \in Seq(PageRec) /\ Len(B) = n - k
      /\ \A j \in 1 .. n - k : B[j] = P[j + k]
  BY <1>1
<1> HIDE DEF F, B
<1>4. Q \in Seq(PageRec) /\ Len(Q) = n - 1 /\ DOMAIN Q = 1 .. n - 1
  <2>0. F \in Seq(PageRec) /\ B \in Seq(PageRec)
    BY <1>2, <1>3
  <2>1. Q \in Seq(PageRec)
    BY <2>0
  <2>2. Len(Q) = Len(F) + Len(B)
    BY <2>0
  <2> HIDE DEF Q
  <2>3. DOMAIN Q = 1 .. Len(Q)
    BY <2>1
  <2>4. Len(Q) = n - 1
    BY <1>1, <1>2, <1>3, <2>2
  <2> QED BY <2>1, <2>3, <2>4
<1>5. \A j \in 1 .. n - 1 : Q[j] = IF j < k THEN P[j] ELSE P[j + 1]
  <2> SUFFICES ASSUME NEW j \in 1 .. n - 1
               PROVE  Q[j] = IF j < k THEN P[j] ELSE P[j + 1]
    OBVIOUS
  <2>1. CASE j < k
    <3>1. j \in 1 .. k - 1 /\ j <= Len(F)
      BY <1>1, <1>2, <2>1
    <3>2. Q[j] = F[j]
      BY <1>1, <1>2, <1>3, <3>1
    <3> QED BY <1>2, <2>1, <3>1, <3>2
  <2>2. CASE ~(j < k)
    <3>1. j - (k - 1) \in 1 .. n - k /\ j > Len(F)
      BY <1>1, <1>2, <2>2
    <3>2. Q[j] = B[j - (k - 1)]
      BY <1>1, <1>2, <1>3, <3>1
    <3>3. (j - (k - 1)) + k = j + 1
      BY <1>1
    <3> QED BY <1>3, <2>2, <3>1, <3>2, <3>3
  <2> QED BY <2>1, <2>2
<1> HIDE DEF Q
<1> DEFINE To(j) == IF j < k THEN j ELSE j + 1
<1>6. /\ \A j \in DOMAIN Q : To(j) \in DOMAIN P /\ To(j) # k /\ Q[j] = P[To(j)]
      /\ \A i, j \in DOMAIN Q : To(i) = To(j) => i = j
      /\ \A l \in DOMAIN P : l # k => \E j \in DOMAIN Q : To(j) = l
  <2>1. \A j \in DOMAIN Q : To(j) \in DOMAIN P /\ To(j) # k /\ Q[j] = P[To(j)]
    BY <1>1, <1>4, <1>5
  <2>2. \A i, j \in DOMAIN Q : To(i) = To(j) => i = j
    BY <1>1, <1>4
  <2>3. ASSUME NEW l \in DOMAIN P, l # k
        PROVE  \E j \in DOMAIN Q : To(j) = l
    <3>1. CASE l < k
      BY <1>1, <1>4, <3>1
    <3>2. CASE l > k
      <4>1. l - 1 \in DOMAIN Q /\ To(l - 1) = l
        BY <1>1, <1>4, <3>2
      <4> QED BY <4>1
    <3> QED BY <1>1, <2>3, <3>1, <3>2
  <2> QED BY <2>1, <2>2, <2>3
<1> HIDE DEF To
<1>7. Listed(Q)
  BY <1>4, <1>6 DEF Listed
<1>8. \A j \in DOMAIN P : j # k => P[j] # P[k]
  BY DEF Listed
<1>9. PagesIn(Q) = PagesIn(P) \ {P[k]}
  BY <1>6, <1>8 DEF PagesIn
<1> QED BY <1>7, <1>9 DEF Q, F, B

(* The first page with room is one. *)
LEMMA FirstRoomFinds ==
  ASSUME NEW n, Listed(pages), FirstRoom(n) # 0
  PROVE  FirstRoom(n) \in DOMAIN pages /\ Room(FirstRoom(n), n)
<1> DEFINE T == {k \in DOMAIN pages : Room(k, n)}
<1>1. Len(pages) \in Nat /\ DOMAIN pages = 1 .. Len(pages)
  BY DEF Listed
<1>2. T \in SUBSET (0 .. Len(pages)) /\ T # {}
  BY <1>1 DEF FirstRoom
<1>3. PICK x \in T : \A y \in T : x <= y
  <2> HIDE DEF T
  <2> QED BY <1>1, <1>2, Least
<1>4. \A j \in 1 .. x - 1 : ~Room(j, n)
  <2> SUFFICES ASSUME NEW j \in 1 .. x - 1, Room(j, n)
               PROVE  FALSE
    OBVIOUS
  <2>1. j \in DOMAIN pages /\ j < x
    BY <1>1, <1>3
  <2>2. j \in T
    BY <2>1
  <2> QED BY <1>1, <1>3, <2>1, <2>2
<1>5. \E k \in DOMAIN pages : Room(k, n) /\ \A j \in 1 .. k - 1 : ~Room(j, n)
  BY <1>3, <1>4
<1> QED BY <1>2, <1>5 DEF FirstRoom

\* The pages of every entry have frames.
Framed(M, F) == \A e \in M : PagesOf(e.addr, e.size) \subseteq F

(* The entries are apart because the areas given are. *)
LEMMA TableApart ==
  ASSUME NEW M, NEW G, M \subseteq [addr : Nat, size : Sizes],
         G = {<<e.addr, e.size>> : e \in M},
         \A h \in G : h[1] \in PageStarts,
         \A h, k \in G : h # k => Bytes(h[1], Up(h[2])) \cap Bytes(k[1], Up(k[2])) = {}
  PROVE  Apart(M)
<1>1. \A e \in M : e.addr \in PageStarts /\ e.size \in Sizes
  <2> SUFFICES ASSUME NEW e \in M
               PROVE  e.addr \in PageStarts /\ e.size \in Sizes
    OBVIOUS
  <2>1. <<e.addr, e.size>> \in G
    OBVIOUS
  <2> QED BY <2>1
<1>2. M \subseteq [addr : PageStarts, size : Sizes]
  BY <1>1
<1>3. ASSUME NEW d \in M, NEW e \in M, d # e
      PROVE  Span(d) \cap Span(e) = {}
  <2> DEFINE h == <<d.addr, d.size>>
             k == <<e.addr, e.size>>
  <2>1. h \in G /\ k \in G
    OBVIOUS
  <2>2. h # k
    BY <1>3
  <2>3. Bytes(h[1], Up(h[2])) \cap Bytes(k[1], Up(k[2])) = {}
    BY <2>1, <2>2
  <2> QED BY <2>3 DEF Span
<1> QED BY <1>2, <1>3 DEF Apart

(* An entry that is given back has its pages for itself. *)
LEMMA FrameLost ==
  ASSUME NEW M, NEW F, Apart(M), Framed(M, F), NEW d \in M
  PROVE  Framed(M \ {d}, F \ {d.addr})
<1> SUFFICES ASSUME NEW e \in M, e # d
             PROVE  PagesOf(e.addr, e.size) \subseteq F \ {d.addr}
  BY DEF Framed
<1>1. /\ d.addr \in Nat /\ d.size \in Nat \ {0} /\ e.addr \in Nat /\ e.size \in Nat \ {0}
  BY Starts DEF Apart
<1>2. d.addr \in Span(d)
  <2>1. Up(d.size) \in Nat \ {0}
    BY <1>1, Rounded
  <2> QED BY <1>1, <2>1 DEF Span, Bytes
<1>3. PagesOf(e.addr, e.size) \subseteq Span(e)
  BY <1>1, PagesCover DEF Span
<1>4. Span(e) \cap Span(d) = {}
  BY DEF Apart
<1> QED BY <1>2, <1>3, <1>4 DEF Framed

-----------------------------------------------------------------------------
\* The table, the listed pages, the blocks and the page table agree.
Layout ==
  /\ Apart(malloc_map)
  /\ Listed(pages)
  /\ Blocks(PagesIn(pages), malloc_map, live)
  /\ Framed(malloc_map, mapped)

\* The inductive invariant of the blocks.
LayoutInv ==
  /\ HInv /\ AlignedInv
  /\ broken = "no" => Layout /\ (moving # NoBlock => moving \in live)

(* malloc_4k enters a new area, and its pages have frames. *)
LEMMA NewEntry ==
  ASSUME IInv, TableInv, NEW n \in Sizes, Malloc4k(n), ~NoArea(n)
  PROVE  /\ result'[2] \in Nat
         /\ malloc_map' = malloc_map \cup {Area(result'[2], n)}
         /\ Area(result'[2], n) \notin malloc_map
         /\ \A d \in malloc_map : d.addr # result'[2]
         /\ mapped' = mapped \cup PagesOf(result'[2], n)
<1> DEFINE i == FirstFit(Up(n))
           a == result'[2]
<1>1. i # frees /\ Alloc4k(n)
  BY DEF NoArea, Malloc4k
<1>2. result' = <<"alloc", free[i].addr, n>>
  BY <1>1 DEF Alloc4k
<1>3. /\ malloc_map' = malloc_map \cup {Area(a, n)}
      /\ mapped' = mapped \cup PagesOf(a, n)
  BY DEF Malloc4k, Linked
<1>4. /\ i \in 0 .. frees - 1 /\ free[i].size > 0
      /\ free[i].addr \in Nat /\ free[i].size \in Nat
  <2>1. TypeOK /\ Up(n) \in Nat \ {0}
    BY UpPositive DEF IInv
  <2>2. i \in 0 .. frees
    BY <2>1, FirstFitFinds
  <2>3. i \in 0 .. frees - 1
    BY <1>1, <2>2, FreeTypes
  <2> HIDE DEF i
  <2> QED BY <2>3, FreeTypes
<1> HIDE DEF i
<1>5. a = free[i].addr /\ a \in Nat
  BY <1>2, <1>4
<1>6. a \in FreeBytes
  BY <1>4, <1>5 DEF FreeBytes, Bytes
<1> HIDE DEF a
<1>7. \A d \in malloc_map : d.addr # a
  BY <1>6, FreshAddress
<1>8. Area(a, n) \notin malloc_map
  <2>1. Area(a, n).addr = a
    BY DEF Area
  <2> QED BY <1>7, <2>1
<1> QED BY <1>3, <1>5, <1>7, <1>8 DEF a

(* The table stays apart when the manager and the table keep their order. *)
LEMMA ApartNext ==
  ASSUME IInv', TableInv', AlignedInv'
  PROVE  Apart(malloc_map')
<1>1. malloc_map' \subseteq [addr : Nat, size : Sizes]
  BY DEF TableInv
<1>2. given' = {<<e.addr, e.size>> : e \in malloc_map'}
  BY DEF TableInv
<1>3. \A h \in given' : h[1] \in PageStarts
  BY DEF AlignedInv, PageStarts
<1>4. \A h, k \in given' : h # k => Bytes(h[1], Up(h[2])) \cap Bytes(k[1], Up(k[2])) = {}
  BY DEF IInv, Partition, Bytes, Up
<1> QED BY <1>1, <1>2, <1>3, <1>4, TableApart

(* malloc, with the realloc that calls it. *)
LEMMA NewBlockLays ==
  ASSUME IInv, TableInv, Layout, NEW n \in Requests, NewBlock(n), ~Fails(n),
         Apart(malloc_map')
  PROVE  Layout' /\ live \subseteq live'
<1> DEFINE R == PagesIn(pages)
<1>0. /\ Apart(malloc_map) /\ Listed(pages) /\ Blocks(R, malloc_map, live)
      /\ Framed(malloc_map, mapped)
  BY DEF Layout
<1>1. CASE n > Limit
  <2> DEFINE a == result'[2]
  <2>1. Malloc4k(n) /\ ~NoArea(n) /\ n \in Sizes
    BY <1>1, AreaSizes DEF NewBlock, Large, Fails
  <2>2. live' = live \cup {<<a, n>>} /\ pages' = pages
    BY <1>1, <2>1 DEF NewBlock, Large
  <2>3. /\ a \in Nat /\ malloc_map' = malloc_map \cup {Area(a, n)}
        /\ Area(a, n) \notin malloc_map /\ \A d \in malloc_map : d.addr # a
        /\ mapped' = mapped \cup PagesOf(a, n)
    BY <2>1, NewEntry
  <2> HIDE DEF a, R
  <2>4. Blocks(R, malloc_map', live')
    BY <1>0, <1>1, <2>2, <2>3, LargeKeeps
  <2>5. Framed(malloc_map', mapped')
    BY <1>0, <2>3 DEF Framed, Area
  <2> QED BY <1>0, <2>2, <2>4, <2>5 DEF Layout, R
<1>2. CASE ~(n > Limit) /\ FirstRoom(n) # 0
  <2> DEFINE k == FirstRoom(n)
             r == pages[k]
             u == r.used + Aligned(n)
             c == r.count + 1
             s == PageOf(r.addr, u, c)
  <2>1. k \in DOMAIN pages /\ Room(k, n)
    BY <1>0, <1>2, FirstRoomFinds
  <2>2. Cut(k, n)
    BY <1>2 DEF NewBlock
  <2> HIDE DEF k
  <2>3. r \in PageRec /\ r \in R /\ pages \in Seq(PageRec)
    BY <1>0, <2>1 DEF Listed, PagesIn
  <2>4. Aligned(n) \in Nat /\ Page - r.used >= Aligned(n)
    BY <1>2, <2>1, BlockSizes DEF Room
  <2>5. /\ s \in PageRec /\ s.addr = r.addr /\ s.used = u /\ s.count = c
        /\ [[r EXCEPT !.used = u] EXCEPT !.count = c] = s
    <3> HIDE DEF r
    <3>1. r.used \in Nat /\ r.count \in Nat
      BY <2>3 DEF PageRec
    <3>2. u \in Nat /\ c \in Nat /\ r.addr \in Nat
      BY <2>3, <2>4, <3>1 DEF PageRec
    <3> HIDE DEF u, c
    <3>3. s \in PageRec /\ s.addr = r.addr /\ s.used = u /\ s.count = c
      BY <3>2, PageFields
    <3>4. r = [addr |-> r.addr, used |-> r.used, count |-> r.count]
      BY <2>3 DEF PageRec
    <3> DEFINE t == [r EXCEPT !.used = u]
    <3>5. t = [addr |-> r.addr, used |-> u, count |-> r.count]
      BY <3>4
    <3> HIDE DEF t
    <3>6. [t EXCEPT !.count = c] = s
      BY <3>5 DEF PageOf
    <3> QED BY <3>3, <3>6 DEF t
  <2>6. /\ pages' \in Seq(PageRec) /\ DOMAIN pages' = DOMAIN pages /\ pages'[k] = s
        /\ \A j \in DOMAIN pages : j # k => pages'[j] = pages[j]
    <3>1. pages' = [pages EXCEPT ![k].used = @ + Aligned(n), ![k].count = @ + 1]
      BY <2>2 DEF Cut
    <3>2. pages' = [pages EXCEPT ![k] = [[r EXCEPT !.used = u] EXCEPT !.count = c]]
      BY <2>1, <2>3, <3>1 DEF PageRec
    <3>3. pages' = [pages EXCEPT ![k] = s]
      BY <2>5, <3>2
    <3> HIDE DEF s
    <3> QED BY <2>1, <2>3, <2>5, <3>3
  <2>7. live' = live \cup {<<r.addr + r.used, n>>} /\ UNCHANGED <<malloc_map, mapped>>
    BY <2>2 DEF Cut
  <2> HIDE DEF s
  <2>8. Listed(pages') /\ PagesIn(pages') = (R \ {r}) \cup {s}
    <3>1. s.addr = pages[k].addr /\ s \in PageRec
      BY <2>5
    <3>2. Listed(pages') /\ PagesIn(pages') = (PagesIn(pages) \ {pages[k]}) \cup {s}
      BY <1>0, <2>1, <2>6, <3>1, ListChanges
    <3> QED BY <3>2
  <2> HIDE DEF r, R
  <2>9. Blocks((R \ {r}) \cup {s}, malloc_map, live')
    <3>1. CutTo(r, s, n)
      BY <1>2, <2>4, <2>5 DEF CutTo
    <3>2. Blocks((R \ {r}) \cup {s}, malloc_map, live \cup {<<r.addr + r.used, n>>})
      BY <1>0, <2>3, <3>1, CutKeeps
    <3> QED BY <2>7, <3>2
  <2> QED BY <1>0, <2>7, <2>8, <2>9 DEF Layout
<1>3. CASE ~(n > Limit) /\ FirstRoom(n) = 0
  <2> DEFINE p == result'[2]
             s == PageOf(p, Header + Aligned(n), 1)
  <2>1. Malloc4k(Page) /\ ~NoArea(Page) /\ Page \in Sizes
    BY <1>3, AreaSizes DEF NewBlock, NewPage, Fails
  <2>2. pages' = <<s>> \o pages /\ live' = live \cup {<<p + Header, n>>}
    BY <1>3, <2>1 DEF NewBlock, NewPage, PageOf
  <2>3. /\ p \in Nat /\ malloc_map' = malloc_map \cup {Area(p, Page)}
        /\ Area(p, Page) \notin malloc_map /\ \A d \in malloc_map : d.addr # p
        /\ mapped' = mapped \cup PagesOf(p, Page)
    BY <2>1, NewEntry
  <2> HIDE DEF p
  <2>4. s \in PageRec /\ s.addr = p /\ s.used = Header + Aligned(n) /\ s.count = 1
    <3>1. Header \in Nat /\ Aligned(n) \in Nat
      BY <1>3, BlockSizes, HeapAssumption
    <3> QED BY <2>3, <3>1 DEF PageRec, PageOf
  <2> HIDE DEF s, R
  <2>5. /\ Blocks(R \cup {s}, malloc_map', live')
        /\ \A r \in R : r.addr # s.addr
    <3>1. /\ Area(s.addr, Page) \notin malloc_map
          /\ \A d \in malloc_map : d.addr # s.addr
          /\ malloc_map' = malloc_map \cup {Area(s.addr, Page)}
          /\ live' = live \cup {<<s.addr + Header, n>>}
      BY <2>2, <2>3, <2>4
    <3>2. Apart(malloc_map \cup {Area(s.addr, Page)})
      BY <3>1
    <3>3. PageWith(s, n, malloc_map)
      BY <1>3, <2>4, <3>1, <3>2 DEF PageWith
    <3>4. /\ Blocks(R \cup {s}, malloc_map \cup {Area(s.addr, Page)},
                    live \cup {<<s.addr + Header, n>>})
          /\ \A r \in R : r.addr # s.addr
      BY <1>0, <3>3, PageKeeps
    <3> QED BY <3>1, <3>4
  <2>6. Listed(pages') /\ PagesIn(pages') = R \cup {s}
    BY <1>0, <2>2, <2>4, <2>5, ListGrows DEF R
  <2>7. Framed(malloc_map', mapped')
    BY <1>0, <2>3 DEF Framed, Area
  <2> QED BY <2>2, <2>5, <2>6, <2>7 DEF Layout
<1> QED BY <1>1, <1>2, <1>3

(* free_4k takes the entry of the area, and the page table loses its first
   page. *)
LEMMA EntryFreed ==
  ASSUME TableInv, NEW p, NEW n, Area(p, n) \in malloc_map, FreeArea(p)
  PROVE  /\ malloc_map' = malloc_map \ {Area(p, n)}
         /\ mapped' = mapped \ {Area(p, n).addr}
<1>1. Area(p, n).addr = p
  BY DEF Area
<1>2. Area(p, n) \in Entries(p)
  BY <1>1 DEF Entries
<1>3. PICK e \in Entries(p) : mapped' = mapped \ {p} /\ malloc_map' = malloc_map \ {e}
  BY <1>2 DEF FreeArea, UnlinkedOf
<1>4. e = Area(p, n)
  BY <1>1 DEF Entries, TableInv
<1> QED BY <1>1, <1>3, <1>4

(* free, with the realloc that ends with it. *)
LEMMA FreeBlockLays ==
  ASSUME IInv, TableInv, Layout, NEW b \in live, FreeBlock(b), Apart(malloc_map')
  PROVE  Layout'
<1> DEFINE R == PagesIn(pages)
<1>0. /\ Apart(malloc_map) /\ Listed(pages) /\ Blocks(R, malloc_map, live)
      /\ Framed(malloc_map, mapped)
  BY DEF Layout
<1>1. b[1] \in Nat /\ b[2] \in Requests /\ live' = live \ {b}
  BY <1>0, HasHome DEF FreeBlock
<1>2. CASE b[2] > Limit
  <2> DEFINE e == Area(b[1], b[2])
  <2>1. e \in malloc_map
    BY <1>0, <1>2 DEF Blocks, BlockGood
  <2>2. e.addr = b[1] /\ b[1] \in PageStarts
    BY <1>0, <2>1 DEF Area, Apart
  <2>3. FreeArea(b[1]) /\ pages' = pages
    BY <2>2, Starts DEF FreeBlock
  <2>4. malloc_map' = malloc_map \ {e} /\ mapped' = mapped \ {e.addr}
    BY <2>1, <2>3, EntryFreed
  <2>5. Framed(malloc_map', mapped')
    BY <1>0, <2>1, <2>4, FrameLost
  <2> HIDE DEF R
  <2>6. Blocks(R, malloc_map', live')
    BY <1>0, <1>1, <1>2, <2>4, FreeLargeKeeps
  <2> QED BY <1>0, <2>3, <2>5, <2>6 DEF Layout, R
<1>3. CASE ~(b[2] > Limit)
  <2>1. PICK r \in R : Lies(b, r) /\ Holds(r, b[1])
    BY <1>0, <1>3, HasHome
  <2>2. PICK k \in DOMAIN pages : r = pages[k]
    BY DEF PagesIn
  <2>3. r \in PageRec /\ r.addr \in Nat /\ r.count \in Nat
        /\ r.used <= Page /\ Area(r.addr, Page) \in malloc_map
    BY <1>0 DEF Blocks, PageRec, PageGood
  <2>4. b[1] % Page # 0
    <3> DEFINE d == b[1] - r.addr
    <3>1. d \in 1 .. Page - 1 /\ b[1] = r.addr + d
      <4>1. b \in Nat \X Requests
        BY <1>0 DEF Blocks, BlockGood
      <4>2. d \in 1 .. Page - 1
        BY <1>3, <2>1, <2>3, <4>1, LiesIn
      <4> QED BY <1>1, <2>3, <4>2
    <3>2. r.addr \in PageStarts
      <4>1. Area(r.addr, Page).addr = r.addr
        BY DEF Area
      <4> QED BY <1>0, <2>3, <4>1 DEF Apart
    <3> HIDE DEF d
    <3> QED BY <3>1, <3>2, Starts
  <2>5. PageAt(b[1]) = {k}
    <3>1. ASSUME NEW j \in DOMAIN pages, Holds(pages[j], b[1])
          PROVE  j = k
      <4>1. pages[j] \in R
        BY DEF PagesIn
      <4>2. pages[j] = r
        BY <1>0, <1>1, <2>1, <3>1, <4>1, PagesApart
      <4> QED BY <1>0, <2>2, <4>2 DEF Listed
    <3>2. k \in PageAt(b[1])
      BY <2>1, <2>2 DEF PageAt, Holds
    <3> QED BY <3>1, <3>2 DEF PageAt, Holds
  <2>6. FreeCut(k)
    <3>1. k \in Int
      BY <1>0 DEF Listed
    <3>2. (CHOOSE l \in {k} : \A j \in {k} : l <= j) = k
      BY <3>1
    <3> QED BY <2>4, <2>5, <3>2 DEF FreeBlock
  <2>7. CASE r.count = 1
    <3> DEFINE e == Area(r.addr, Page)
    <3>1. pages' = Dropped(k) /\ FreeArea(r.addr)
      BY <2>2, <2>6, <2>7 DEF FreeCut
    <3>2. malloc_map' = malloc_map \ {e} /\ mapped' = mapped \ {e.addr}
      BY <2>3, <3>1, EntryFreed
    <3>3. Framed(malloc_map', mapped')
      BY <1>0, <2>3, <3>2, FrameLost
    <3>4. Listed(pages') /\ PagesIn(pages') = R \ {r}
      BY <1>0, <2>2, <3>1, ListDrops DEF Dropped
    <3> HIDE DEF R
    <3>5. Blocks(R \ {r}, malloc_map', live')
      BY <1>0, <1>1, <2>1, <2>7, <3>2, FreePageKeeps
    <3> QED BY <3>3, <3>4, <3>5 DEF Layout
  <2>8. CASE r.count # 1
    <3> DEFINE c == r.count - 1
               s == PageOf(r.addr, r.used, c)
    <3>1. /\ pages' = [pages EXCEPT ![k].count = @ - 1]
          /\ UNCHANGED <<malloc_map, mapped>>
      BY <2>2, <2>6, <2>8 DEF FreeCut
    <3>2. r.count > 0
      BY <1>0 DEF Blocks, PageGood
    <3>3. /\ s \in PageRec /\ s.addr = r.addr /\ s.used = r.used /\ s.count = c
          /\ [r EXCEPT !.count = c] = s
      <4>1. c \in Nat /\ r.used \in Nat
        BY <2>3, <3>2 DEF PageRec
      <4> HIDE DEF c
      <4>2. s \in PageRec /\ s.addr = r.addr /\ s.used = r.used /\ s.count = c
        BY <2>3, <4>1, PageFields
      <4>3. r = [addr |-> r.addr, used |-> r.used, count |-> r.count]
        BY <2>3 DEF PageRec
      <4>4. [r EXCEPT !.count = c] = s
        BY <4>3 DEF PageOf
      <4> QED BY <4>2, <4>4
    <3>4. /\ pages' \in Seq(PageRec) /\ DOMAIN pages' = DOMAIN pages /\ pages'[k] = s
          /\ \A j \in DOMAIN pages : j # k => pages'[j] = pages[j]
      <4>1. pages' = [pages EXCEPT ![k] = [r EXCEPT !.count = c]]
        BY <2>2, <3>1
      <4>2. pages' = [pages EXCEPT ![k] = s]
        BY <3>3, <4>1
      <4>3. pages \in Seq(PageRec)
        BY <1>0 DEF Listed
      <4> HIDE DEF s
      <4> QED BY <3>3, <4>2, <4>3
    <3> HIDE DEF s
    <3>5. Listed(pages') /\ PagesIn(pages') = (R \ {r}) \cup {s}
      <4>1. s.addr = pages[k].addr /\ s \in PageRec
        BY <2>2, <3>3
      <4>2. Listed(pages') /\ PagesIn(pages') = (PagesIn(pages) \ {pages[k]}) \cup {s}
        BY <1>0, <3>4, <4>1, ListChanges
      <4> QED BY <2>2, <4>2
    <3> HIDE DEF R
    <3>6. Blocks((R \ {r}) \cup {s}, malloc_map, live')
      BY <1>0, <1>1, <2>1, <2>8, <3>3, FreeCountKeeps
    <3> QED BY <1>0, <3>1, <3>5, <3>6 DEF Layout
  <2> QED BY <2>7, <2>8
<1> QED BY <1>2, <1>3

-----------------------------------------------------------------------------
(* Every call of the heap keeps the layout. *)
LEMMA LayoutKept ==
  ASSUME LayoutInv, [HNext]_<<vars, heapVars>>
  PROVE  LayoutInv'
<1>1. HInv' /\ Kept
  BY HNextKeeps DEF LayoutInv
<1>2. IInv /\ AlignedInv /\ (broken = "no" => TableInv)
  BY DEF LayoutInv, HInv
<1>3. AlignedInv'
  BY <1>1, <1>2, AlignedKept
<1>4. broken' = "no" => Apart(malloc_map')
  <2>1. IInv' /\ (broken' = "no" => TableInv')
    BY <1>1 DEF HInv
  <2> QED BY <1>3, <2>1, ApartNext
<1> DEFINE Rest == Layout /\ (moving # NoBlock => moving \in live)
<1>5. CASE UNCHANGED <<vars, heapVars>>
  <2>1. Layout' <=> Layout
    BY <1>5 DEF Layout, heapVars
  <2>2. UNCHANGED <<live, moving, broken>>
    BY <1>5 DEF heapVars
  <2> QED BY <1>1, <1>3, <2>1, <2>2 DEF LayoutInv
<1>6. CASE HNext
  <2>1. broken = "no" /\ TableInv /\ Layout /\ (moving # NoBlock => moving \in live)
    BY <1>2, <1>6 DEF HNext, LayoutInv
  <2>2. ASSUME NEW n \in Requests, Malloc(n), moving = NoBlock
        PROVE  broken' = "no" => Rest'
    <3>1. /\ NewBlock(n) /\ moving' = moving
          /\ broken' = IF Fails(n) THEN "no memory" ELSE broken
      BY <2>2 DEF Malloc
    <3>2. broken' = "no" => ~Fails(n)
      BY <3>1
    <3> QED BY <1>2, <1>4, <2>1, <2>2, <3>1, <3>2, NewBlockLays
  <2>3. ASSUME NEW b \in live, Free(b), moving = NoBlock
        PROVE  broken' = "no" => Rest'
    <3>1. FreeBlock(b) /\ moving' = moving
      BY <2>3 DEF Free
    <3> QED BY <1>2, <1>4, <2>1, <2>3, <3>1, FreeBlockLays
  <2>4. ASSUME NEW b \in live, NEW n \in Requests, Realloc(b, n)
        PROVE  broken' = "no" => Rest'
    <3>1. NewBlock(n) /\ moving' = b /\ (Fails(n) => broken' = "no memory")
      BY <2>4 DEF Realloc
    <3>2. broken' = "no" => ~Fails(n)
      BY <3>1
    <3>3. broken' = "no" => Layout' /\ live \subseteq live'
      BY <1>2, <1>4, <2>1, <3>1, <3>2, NewBlockLays
    <3> QED BY <3>1, <3>3
  <2>5. ASSUME ReallocEnd, moving # NoBlock
        PROVE  broken' = "no" => Rest'
    <3>1. FreeBlock(moving) /\ moving' = NoBlock /\ moving \in live
      BY <2>1, <2>5 DEF ReallocEnd
    <3> QED BY <1>2, <1>4, <2>1, <3>1, FreeBlockLays
  <2>6. broken' = "no" => Rest'
    BY <1>6, <2>2, <2>3, <2>4, <2>5 DEF HNext
  <2> QED BY <1>1, <1>3, <2>6 DEF LayoutInv
<1> QED BY <1>5, <1>6

(* malloc_init establishes the layout: there are no blocks. *)
LEMMA LayoutInit ==
  ASSUME HInit
  PROVE  LayoutInv
<1>1. Init /\ malloc_map = {} /\ pages = <<>> /\ live = {} /\ moving = NoBlock
  BY DEF HInit
<1>2. HInv
  <2>1. IInv
    BY <1>1, InitHolds
  <2>2. TableInv
    BY <1>1 DEF Init, TableInv
  <2> QED BY <2>1, <2>2 DEF HInv
<1>3. AlignedInv
  BY <1>1, InitAligned
<1>4. Layout
  <2>1. Apart(malloc_map) /\ Framed(malloc_map, mapped)
    BY <1>1 DEF Apart, Framed
  <2>2. Listed(pages) /\ PagesIn(pages) = {}
    BY <1>1 DEF Listed, PagesIn
  <2>3. Blocks({}, malloc_map, live)
    <3>1. IsFiniteSet(live)
      BY <1>1, FS_EmptySet
    <3> QED BY <1>1, <3>1 DEF Blocks
  <2> QED BY <2>1, <2>2, <2>3 DEF Layout
<1> QED BY <1>1, <1>2, <1>3, <1>4 DEF LayoutInv

(* The blocks, the listed pages, the table and the page table agree in every
   state of a heap that was not broken by a request that was refused. *)
THEOREM HeapLayout == HSpec => []LayoutInv
<1>1. HInit => LayoutInv
  BY LayoutInit
<1>2. LayoutInv /\ [HNext]_<<vars, heapVars>> => LayoutInv'
  BY LayoutKept
<1> QED BY <1>1, <1>2, PTL DEF HSpec

(* No two blocks share a byte, and none shares one with the PageBlock at the
   start of a listed page, whatever is taken and given back in which order. *)
THEOREM HeapBlocksApart == HSpec => []BlocksApart
<1>1. LayoutInv => BlocksApart
  <2> SUFFICES ASSUME LayoutInv, broken = "no"
               PROVE  /\ \A b, c \in live : b # c => BytesOf(b) \cap BytesOf(c) = {}
                      /\ \A b \in live, k \in DOMAIN pages :
                           BytesOf(b) \cap Bytes(pages[k].addr, Header) = {}
    BY DEF BlocksApart
  <2> DEFINE R == PagesIn(pages)
  <2>1. Apart(malloc_map) /\ Listed(pages) /\ Blocks(R, malloc_map, live)
    BY DEF LayoutInv, Layout
  <2>2. \A b, c \in live : b # c => BytesOf(b) \cap BytesOf(c) = {}
    BY <2>1 DEF Blocks
  <2>3. ASSUME NEW b \in live, NEW k \in DOMAIN pages
        PROVE  BytesOf(b) \cap Bytes(pages[k].addr, Header) = {}
    <3> DEFINE r == pages[k]
    <3>1. r \in R
      BY DEF PagesIn
    <3> HIDE DEF r, R
    <3>2. /\ r \in PageRec /\ r.addr \in Nat /\ r.used \in Nat
          /\ Area(r.addr, Page) \in malloc_map /\ Header <= r.used /\ r.used <= Page
      BY <2>1, <3>1 DEF Blocks, PageGood, PageRec
    <3>3. CASE Holds(r, b[1])
      <4>1. ~(b[2] > Limit) /\ Lies(b, r) /\ b \in Nat \X Requests
        BY <2>1, <3>1, <3>3, HeldAre DEF Blocks, BlockGood
      <4>2. BytesOf(b) \cap Bytes(r.addr, Header) = {}
        BY <3>2, <4>1, LiesIn
      <4> QED BY <4>2 DEF r
    <3>4. CASE ~Holds(r, b[1])
      <4>1. b[1] \in Nat /\ b[1] \in BytesOf(b)
        BY <2>1, HasHome
      <4>2. PICK e \in malloc_map : BytesOf(b) \subseteq Span(e)
        BY <2>1, HasHome
      <4>3. Span(Area(r.addr, Page)) = Bytes(r.addr, Page) /\ b[1] \notin Bytes(r.addr, Page)
        BY <3>2, <3>4, <4>1, PageSpan DEF Holds
      <4>4. e # Area(r.addr, Page)
        BY <4>1, <4>2, <4>3
      <4>5. BytesOf(b) \cap Bytes(r.addr, Page) = {}
        BY <2>1, <3>2, <4>2, <4>3, <4>4 DEF Apart
      <4>6. Bytes(r.addr, Header) \subseteq Bytes(r.addr, Page)
        <5>1. Header \in Nat /\ Header <= Page
          BY <3>2, HeapAssumption
        <5> QED BY <3>2, <5>1 DEF Bytes
      <4> QED BY <4>5, <4>6 DEF r
    <3> QED BY <3>3, <3>4
  <2> QED BY <2>2, <2>3
<1> QED BY <1>1, HeapLayout, PTL

(* The count of a listed page is the number of its blocks that callers hold,
   none is listed without a block, and every small block is in one. *)
THEOREM HeapPagesCounted == HSpec => []PagesCounted
<1>1. LayoutInv => PagesCounted
  <2> SUFFICES ASSUME LayoutInv, broken = "no"
               PROVE  /\ \A k \in DOMAIN pages :
                           /\ pages[k].count = Cardinality({b \in live : In(b, k)})
                           /\ pages[k].count > 0
                      /\ \A b \in live : b[2] <= Limit => \E k \in DOMAIN pages : In(b, k)
    BY DEF PagesCounted
  <2> DEFINE R == PagesIn(pages)
  <2>1. Apart(malloc_map) /\ Listed(pages) /\ Blocks(R, malloc_map, live)
    BY DEF LayoutInv, Layout
  <2>2. ASSUME NEW k \in DOMAIN pages
        PROVE  /\ pages[k].count = Cardinality({b \in live : In(b, k)})
               /\ pages[k].count > 0
    <3>1. PageGood(pages[k], malloc_map, live)
      BY <2>1 DEF Blocks, PagesIn
    <3>2. {b \in live : In(b, k)} = {b \in live : Holds(pages[k], b[1])}
      BY DEF In, Holds
    <3> QED BY <3>1, <3>2 DEF PageGood
  <2>3. ASSUME NEW b \in live, b[2] <= Limit
        PROVE  \E k \in DOMAIN pages : In(b, k)
    <3>1. b[2] \in Nat /\ Limit \in Nat
      BY <2>1, HasHome, HeapAssumption
    <3>2. ~(b[2] > Limit)
      BY <2>3, <3>1
    <3>3. PICK r \in R : Holds(r, b[1])
      BY <2>1, <3>2, HasHome
    <3> QED BY <3>3 DEF PagesIn, In, Holds
  <2> QED BY <2>2, <2>3
<1> QED BY <1>1, HeapLayout, PTL

(* Every page of a block a caller holds has a frame, whatever pages
   memman_unlink_page_64_m unlinks. *)
THEOREM HeapLiveMapped == HSpec => []LiveMapped
<1>1. LayoutInv => LiveMapped
  <2> SUFFICES ASSUME LayoutInv, broken = "no", NEW b \in live, NEW a \in BytesOf(b)
               PROVE  \E p \in mapped : p <= a /\ a < p + Page
    BY DEF LiveMapped
  <2>1. /\ Apart(malloc_map) /\ Blocks(PagesIn(pages), malloc_map, live)
        /\ Framed(malloc_map, mapped)
    BY DEF LayoutInv, Layout
  <2>2. PICK e \in malloc_map : BytesOf(b) \subseteq Span(e)
    BY <2>1, HasHome
  <2>3. e.addr \in Nat /\ e.size \in Nat \ {0}
    BY <2>1, Starts DEF Apart
  <2>4. \E p \in PagesOf(e.addr, e.size) : p <= a /\ a < p + Page
    BY <2>2, <2>3, PagesCover DEF Span
  <2> QED BY <2>1, <2>4 DEF Framed
<1> QED BY <1>1, HeapLayout, PTL
=============================================================================
