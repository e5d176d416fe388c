--------------------------- MODULE DesktopProofs ---------------------------
(***************************************************************************)
(* Proofs about Desktop, for every number of consoles, rows and ids a      *)
(* desktop has room for, and a careful user (Careful = TRUE; what happens  *)
(* otherwise the model finds).                                             *)
(*                                                                         *)
(* Between any two calls of SHEET.C the stacks, heights and ids agree, the *)
(* map of each desktop names the topmost opaque sheet of every row, and    *)
(* every row of the screen shows what one of the desktops has there        *)
(* (House).  Each function of SHEET.C refreshes a part only; that it is    *)
(* enough follows from what a change of one sheet keeps (TopKept,          *)
(* GlassKept) at the rows and heights it leaves out.  On top of that,      *)
(* DesktopInv says where the mouse, the windows and the keys are.          *)
(***************************************************************************)
EXTENDS Desktop, FiniteSetTheorems, SequenceTheorems, WellFoundedInduction, TLAPS

USE DesktopAssumption

-----------------------------------------------------------------------------
\* Sequences and sets of numbers.

(* A sequence without its element at i. *)
LEMMA Removed ==
  ASSUME NEW S, NEW t \in Seq(S), NEW i \in 1 .. Len(t)
  PROVE  /\ RemoveAt(t, i) \in Seq(S) /\ Len(RemoveAt(t, i)) = Len(t) - 1
         /\ \A k \in 1 .. Len(t) - 1 : RemoveAt(t, i)[k] = IF k < i THEN t[k] ELSE t[k + 1]
<1> DEFINE n == Len(t)
           a == SubSeq(t, 1, i - 1)
           b == SubSeq(t, i + 1, n)
<1>1. n \in Nat /\ i \in 1 .. n
  OBVIOUS
<1>2. a \in Seq(S) /\ Len(a) = i - 1 /\ \A k \in 1 .. i - 1 : a[k] = t[k]
  BY SubSeqProperties
<1>3. b \in Seq(S) /\ Len(b) = n - i /\ \A k \in 1 .. n - i : b[k] = t[i + k]
  BY SubSeqProperties
<1>4. RemoveAt(t, i) = a \o b
  BY DEF RemoveAt
<1> HIDE DEF a, b, n
<1>5. /\ a \o b \in Seq(S)
      /\ Len(a \o b) = Len(a) + Len(b)
      /\ \A k \in 1 .. Len(a) + Len(b) : (a \o b)[k] = IF k <= Len(a) THEN a[k] ELSE b[k - Len(a)]
  BY <1>2, <1>3, ConcatProperties
<1> DEFINE r == a \o b
<1> HIDE DEF r
<1>6. /\ r \in Seq(S) /\ Len(r) = n - 1
      /\ \A k \in 1 .. n - 1 : r[k] = IF k <= i - 1 THEN a[k] ELSE b[k - (i - 1)]
  <2>1. Len(a) = i - 1 /\ Len(b) = n - i
    BY <1>2, <1>3
  <2>2. (i - 1) + (n - i) = n - 1
    BY <1>1
  <2> QED BY <1>5, <2>1, <2>2 DEF r
<1>7. ASSUME NEW k \in 1 .. n - 1
      PROVE  r[k] = IF k < i THEN t[k] ELSE t[k + 1]
  <2>1. CASE k < i
    <3>1. k <= i - 1 /\ k \in 1 .. i - 1
      BY <1>1, <2>1
    <3> QED BY <1>2, <1>6, <2>1, <3>1
  <2>2. CASE ~ (k < i)
    <3> DEFINE j == k - (i - 1)
    <3>1. j \in 1 .. n - i /\ i + j = k + 1 /\ ~ (k <= i - 1)
      BY <1>1, <2>2
    <3>2. r[k] = b[j]
      BY <1>6, <3>1
    <3> HIDE DEF j
    <3> QED BY <1>3, <2>2, <3>1, <3>2
  <2> QED BY <2>1, <2>2
<1> QED BY <1>4, <1>6, <1>7 DEF n, r

(* And with e before its element at i. *)
LEMMA Inserted ==
  ASSUME NEW S, NEW t \in Seq(S), NEW i \in 1 .. Len(t) + 1, NEW e \in S
  PROVE  /\ InsertAt(t, i, e) \in Seq(S) /\ Len(InsertAt(t, i, e)) = Len(t) + 1
         /\ \A k \in 1 .. Len(t) + 1 : InsertAt(t, i, e)[k] = IF k < i THEN t[k]
                                                              ELSE IF k = i THEN e ELSE t[k - 1]
<1> DEFINE n == Len(t)
           a == SubSeq(t, 1, i - 1)
           m == <<e>>
           b == SubSeq(t, i, n)
           c == a \o m
           r == c \o b
<1>1. n \in Nat /\ i \in 1 .. n + 1
  OBVIOUS
<1>2. a \in Seq(S) /\ Len(a) = i - 1 /\ \A k \in 1 .. i - 1 : a[k] = t[k]
  BY SubSeqProperties
<1>3. b \in Seq(S) /\ Len(b) = n - i + 1 /\ \A k \in 1 .. n - i + 1 : b[k] = t[i + k - 1]
  BY SubSeqProperties
<1>4. InsertAt(t, i, e) = r
  BY DEF InsertAt
<1>5. m \in Seq(S) /\ Len(m) = 1 /\ m[1] = e
  OBVIOUS
<1> HIDE DEF a, b, n, m
<1>6. /\ c \in Seq(S)
      /\ Len(c) = Len(a) + Len(m)
      /\ \A k \in 1 .. Len(a) + Len(m) : c[k] = IF k <= Len(a) THEN a[k] ELSE m[k - Len(a)]
  <2>1. a \in Seq(S) /\ m \in Seq(S)
    BY <1>2, <1>5
  <2>2. /\ a \o m \in Seq(S)
        /\ Len(a \o m) = Len(a) + Len(m)
        /\ \A k \in 1 .. Len(a) + Len(m) : (a \o m)[k] = IF k <= Len(a) THEN a[k] ELSE m[k - Len(a)]
    BY ONLY <2>1, ConcatProperties
  <2> QED BY ONLY <2>2 DEF c
<1> HIDE DEF c
<1>7. c \in Seq(S) /\ Len(c) = i /\ c[i] = e /\ \A k \in 1 .. i - 1 : c[k] = a[k]
  <2>1. Len(a) = i - 1 /\ Len(m) = 1 /\ i - 1 + 1 = i
    BY <1>1, <1>2, <1>5
  <2>2. i \in 1 .. i /\ ~ (i <= i - 1) /\ i - (i - 1) = 1
    BY <1>1
  <2>3. \A k \in 1 .. i : c[k] = IF k <= i - 1 THEN a[k] ELSE m[k - (i - 1)]
    BY <1>6, <2>1
  <2>4. c[i] = m[i - (i - 1)]
    BY <2>2, <2>3
  <2>5. c[i] = e
    BY <1>5, <2>2, <2>4
  <2>6. \A k \in 1 .. i - 1 : k \in 1 .. i /\ k <= i - 1
    BY <1>1
  <2> QED BY <1>6, <2>1, <2>3, <2>5, <2>6
<1>8. /\ r \in Seq(S)
      /\ Len(r) = Len(c) + Len(b)
      /\ \A k \in 1 .. Len(c) + Len(b) : r[k] = IF k <= Len(c) THEN c[k] ELSE b[k - Len(c)]
  <2>1. b \in Seq(S) /\ c \in Seq(S)
    BY <1>3, <1>7
  <2>2. /\ c \o b \in Seq(S)
        /\ Len(c \o b) = Len(c) + Len(b)
        /\ \A k \in 1 .. Len(c) + Len(b) : (c \o b)[k] = IF k <= Len(c) THEN c[k] ELSE b[k - Len(c)]
    BY ONLY <2>1, ConcatProperties
  <2> QED BY ONLY <2>2 DEF r
<1> HIDE DEF r
<1>9. /\ r \in Seq(S) /\ Len(r) = n + 1
      /\ \A k \in 1 .. n + 1 : r[k] = IF k <= i THEN c[k] ELSE b[k - i]
  <2>1. Len(c) = i /\ Len(b) = n - i + 1 /\ i + (n - i + 1) = n + 1
    BY <1>1, <1>3, <1>7
  <2> QED BY <1>8, <2>1
<1>10. ASSUME NEW k \in 1 .. n + 1
       PROVE  r[k] = IF k < i THEN t[k] ELSE IF k = i THEN e ELSE t[k - 1]
  <2>1. CASE k < i
    <3>1. k \in 1 .. i - 1 /\ k <= i
      BY <1>1, <2>1
    <3> QED BY <1>2, <1>7, <1>9, <2>1, <3>1
  <2>2. CASE k = i
    BY <1>1, <1>7, <1>9, <2>2
  <2>3. CASE k > i
    <3> DEFINE j == k - i
    <3>1. j \in 1 .. n - i + 1 /\ i + j - 1 = k - 1 /\ ~ (k <= i) /\ ~ (k < i) /\ k # i
      BY <1>1, <2>3
    <3>2. r[k] = b[j]
      BY <1>9, <3>1
    <3> HIDE DEF j
    <3> QED BY <1>3, <3>1, <3>2
  <2> QED BY <1>1, <2>1, <2>2, <2>3
<1> QED BY <1>4, <1>9, <1>10 DEF n

(* A set of numbers up to n has a smallest one. *)
LEMMA Least ==
  ASSUME NEW n \in Nat, NEW T \in SUBSET (0 .. n), T # {}
  PROVE  \E x \in T : \A y \in T : x <= y
<1> DEFINE D == {0 .. l - 1 : l \in T}
<1>1. T \subseteq Nat
  OBVIOUS
<1>2. D \subseteq FiniteSubsetsOf(Nat) /\ D # {}
  <2>1. ASSUME NEW l \in T
        PROVE  0 .. l - 1 \in FiniteSubsetsOf(Nat)
    <3>1. l \in Int /\ l - 1 \in Int /\ 0 .. l - 1 \in SUBSET Nat
      BY <1>1
    <3>2. IsFiniteSet(0 .. l - 1)
      BY <3>1, FS_Interval
    <3> QED BY <3>1, <3>2 DEF FiniteSubsetsOf
  <2>2. D # {}
    OBVIOUS
  <2> QED BY <2>1, <2>2
<1>3. PICK B \in D : \A C \in D : ~ (<<C, B>> \in StrictSubsetOrdering(Nat))
  BY <1>2, FS_StrictSubsetOrderingWellFounded, WFMin
<1>4. PICK x \in T : B = 0 .. x - 1
  OBVIOUS
<1>5. ASSUME NEW y \in T
      PROVE  ~ (y < x)
  <2>1. 0 .. y - 1 \in D
    OBVIOUS
  <2>2. ~ (0 .. y - 1 \subseteq 0 .. x - 1 /\ 0 .. y - 1 # 0 .. x - 1)
    <3>1. 0 .. y - 1 \in SUBSET Nat /\ 0 .. x - 1 \in SUBSET Nat
      BY <1>1
    <3>2. <<0 .. y - 1, 0 .. x - 1>> \notin StrictSubsetOrdering(Nat)
      BY <1>3, <1>4, <2>1
    <3> QED BY <3>1, <3>2 DEF StrictSubsetOrdering
  <2>3. CASE y < x
    <3>1. y \in 0 .. x - 1 /\ y \notin 0 .. y - 1
      BY <1>1, <2>3
    <3>2. 0 .. y - 1 \subseteq 0 .. x - 1
      BY <1>1, <2>3
    <3> QED BY <2>2, <3>1, <3>2
  <2> QED BY <2>3
<1>6. \A y \in T : x <= y
  BY <1>1, <1>5
<1> QED BY <1>6

(* The same for the largest. *)
LEMMA Greatest ==
  ASSUME NEW n \in Nat, NEW T \in SUBSET (0 .. n), T # {}
  PROVE  \E x \in T : \A y \in T : x >= y
<1> DEFINE D == {n - y : y \in T}
<1>1. D \in SUBSET (0 .. n) /\ D # {}
  <2>1. ASSUME NEW y \in T
        PROVE  n - y \in 0 .. n
    OBVIOUS
  <2>2. D # {}
    OBVIOUS
  <2> QED BY <2>1, <2>2
<1>2. PICK z \in D : \A y \in D : z <= y
  BY <1>1, Least
<1>3. PICK x \in T : z = n - x
  OBVIOUS
<1>4. ASSUME NEW y \in T
      PROVE  x >= y
  <2>1. n - y \in D
    OBVIOUS
  <2> QED BY <1>2, <1>3, <2>1
<1> QED BY <1>4

(* What Max and Min of a set of heights or ids are. *)
LEMMA MaxIs ==
  ASSUME NEW n \in Nat, NEW T \in SUBSET (0 .. n), T # {}
  PROVE  Max(T) \in T /\ \A y \in T : Max(T) >= y
BY Greatest DEF Max

(* So are Min and the smallest. *)
LEMMA MinIs ==
  ASSUME NEW n \in Nat, NEW T \in SUBSET (0 .. n), T # {}
  PROVE  Min(T) \in T /\ \A y \in T : Min(T) <= y
BY Least DEF Min

(* The three kinds of sheets, and what none of them is. *)
LEMMA Kinds ==
  /\ Ctls = {0, 1} /\ Ids = 0 .. MaxSid - 1 /\ Rows \subseteq Int
  /\ \A c \in Ctls : Back(c) \in Sheets /\ Back(c) \notin Consoles /\ Back(c) # Mouse
                     /\ Back(c) # None /\ Back(c) # Missed
                     /\ Back(c) \notin {Clear, Glass}
  /\ \A b \in Ctls, c \in Ctls : b # c => Back(b) # Back(c)
  /\ Mouse \in Sheets /\ Mouse \notin Consoles /\ Mouse # None /\ Mouse # Missed
  /\ None \notin Sheets /\ Missed \notin Sheets /\ Missed # None
  /\ \A s \in Sheets : s \in Consoles \/ s = Mouse \/ \E c \in Ctls : s = Back(c)
  /\ Consoles \subseteq Sheets
<1>1. \A b \in Ctls, c \in Ctls : b # c => Back(b) # Back(c)
  BY DEF Back
<1>2. \A c \in Ctls : Back(c) # Mouse
  BY DEF Back, Mouse
<1>3. \A c \in Ctls : Back(c) # Missed
  BY DEF Back, Missed
<1>4. Mouse # Missed
  BY DEF Mouse, Missed
<1>5. Ctls = {0, 1} /\ Ids = 0 .. MaxSid - 1 /\ Rows \subseteq Int
  BY DEF Ctls, Ids, Rows
<1>6. \A c \in Ctls : Back(c) \in Sheets /\ Back(c) \notin Consoles /\ Back(c) # None /\ Back(c) \notin {Clear, Glass}
  BY DEF Sheets
<1>7. Mouse \in Sheets /\ Mouse \notin Consoles /\ Mouse # None
  BY DEF Sheets
<1>8. None \notin Sheets
  BY DEF Sheets
<1>9. Missed \notin Sheets
  BY <1>3, <1>4 DEF Sheets
<1>10. Missed # None
  OBVIOUS
<1>11. \A s \in Sheets : s \in Consoles \/ s = Mouse \/ \E c \in Ctls : s = Back(c)
  BY DEF Sheets
<1>12. Consoles \subseteq Sheets
  BY DEF Sheets
<1> QED BY <1>1, <1>2, <1>3, <1>5, <1>6, <1>7, <1>8, <1>9, <1>10, <1>11, <1>12

(***************************************************************************)
(* The record of the sheets, field by field.                               *)
(***************************************************************************)
Keys == {"stack", "sid", "map", "vram", "height", "id", "ctl", "y", "buf", "used"}
Desk(x) == DOMAIN x = Keys /\ x = [k \in Keys |-> x[k]]

Typed(x) ==
  /\ Desk(x)
  /\ x.stack \in [Ctls -> Seq(Sheets)]
  /\ x.sid \in [Ctls -> [Ids -> Sheets \cup {None}]]
  /\ x.map = [c \in Ctls |-> [y \in Rows |-> x.map[c][y]]]
  /\ x.vram = [y \in Rows |-> x.vram[y]]
  /\ x.height \in [Sheets -> Int]
  /\ x.id \in [Sheets -> Ids]
  /\ x.ctl \in [Sheets -> Ctls]
  /\ x.y \in [Sheets -> Int]
  /\ x.buf = [s \in Sheets |-> x.buf[s]]
  /\ x.used \in [Sheets -> BOOLEAN]

(* Sheet s is in the stack of desktop c, by its own fields. *)
On(x, c, s) == s \in Sheets /\ x.height[s] >= 0 /\ x.ctl[s] = c

(* A stack lists the sheets on its desktop by height. *)
Placed(x) ==
  /\ \A c \in Ctls : \A k \in 1 .. Len(x.stack[c]) :
       x.height[x.stack[c][k]] = k - 1 /\ x.ctl[x.stack[c][k]] = c
  /\ \A s \in Sheets :
       /\ x.height[s] >= -1
       /\ x.height[s] >= 0 => /\ x.height[s] + 1 \in 1 .. Len(x.stack[x.ctl[s]])
                              /\ x.stack[x.ctl[s]][x.height[s] + 1] = s

(* A sheet on a desktop has an entry in its table of ids, *)
Named(x) == \A s \in Sheets : x.height[s] >= 0 => x.sid[x.ctl[s]][x.id[s]] = s

(* and the table has no other entry. *)
Listed(x) ==
  \A c \in Ctls, i \in Ids :
    x.sid[c][i] # None => On(x, c, x.sid[c][i]) /\ x.id[x.sid[c][i]] = i

(***************************************************************************)
(* What is seen at a row of a desktop.                                     *)
(***************************************************************************)
OpaqueIn(x, c, y, s) == On(x, c, s) /\ Covers(x, s, y) /\ Opaque(Cell(x, s, y))
GlassIn(x, c, y, s) == On(x, c, s) /\ Covers(x, s, y) /\ Cell(x, s, y) = Glass

(* s is the topmost opaque sheet; g is glass above s. *)
TopIn(x, c, y, s) ==
  OpaqueIn(x, c, y, s) /\ \A t \in Sheets : OpaqueIn(x, c, y, t) => x.height[t] <= x.height[s]
GlassOver(x, c, y, s, g) == GlassIn(x, c, y, g) /\ x.height[g] > x.height[s]

(* Sheet s paints row y: it is the topmost opaque one, or glass above it. *)
Paints(x, c, y, s) == \E w \in Sheets : TopIn(x, c, y, w) /\ (s = w \/ GlassOver(x, c, y, w, s))

(* The map names the topmost sheet, where there is one. *)
Mapped(x, c, y) == \A s \in Sheets : TopIn(x, c, y, s) => x.map[c][y] = x.id[s]

(* The screen shows what desktop c has at row y. *)
Shows(x, c, y) ==
  \E s \in Sheets :
    /\ TopIn(x, c, y, s)
    /\ x.vram[y] = Cell(x, s, y) \/ (x.vram[y] = Mix /\ \E g \in Sheets : GlassOver(x, c, y, s, g))

(* Something is opaque at every row. *)
Based(x, c) == \A y \in Rows : \E s \in Sheets : OpaqueIn(x, c, y, s)

-----------------------------------------------------------------------------
(* The places of a stack and the sheets on its desktop are one to one. *)
LEMMA Places ==
  ASSUME NEW x, Typed(x), Placed(x), NEW c \in Ctls
  PROVE  /\ Top(x, c) + 1 \in Nat /\ Top(x, c) + 1 = Len(x.stack[c])
         /\ \A h \in 0 .. Top(x, c) : /\ On(x, c, At(x, c, h)) /\ x.height[At(x, c, h)] = h
                                      /\ At(x, c, h) \in Sheets
         /\ \A s \in Sheets : On(x, c, s) => x.height[s] \in 0 .. Top(x, c) /\ At(x, c, x.height[s]) = s
<1>1. x.stack[c] \in Seq(Sheets) /\ Len(x.stack[c]) \in Nat
  BY DEF Typed
<1>2. Top(x, c) = Len(x.stack[c]) - 1
  BY DEF Top
<1>3. ASSUME NEW h \in 0 .. Top(x, c)
      PROVE  On(x, c, At(x, c, h)) /\ x.height[At(x, c, h)] = h /\ At(x, c, h) \in Sheets
  <2>1. h + 1 \in 1 .. Len(x.stack[c]) /\ h + 1 - 1 = h /\ h >= 0
    BY <1>1, <1>2
  <2>2. x.stack[c][h + 1] \in Sheets
    BY <1>1, <2>1
  <2>3. x.height[x.stack[c][h + 1]] = h /\ x.ctl[x.stack[c][h + 1]] = c
    BY <2>1 DEF Placed
  <2> QED BY <2>1, <2>2, <2>3 DEF On, At
<1>4. ASSUME NEW s \in Sheets, On(x, c, s)
      PROVE  x.height[s] \in 0 .. Top(x, c) /\ At(x, c, x.height[s]) = s
  <2>1. x.height[s] + 1 \in 1 .. Len(x.stack[c]) /\ x.stack[c][x.height[s] + 1] = s /\ x.height[s] \in Int
    <3>1. x.height[s] >= 0 /\ x.ctl[s] = c /\ x.height[s] \in Int
      BY <1>4 DEF On, Typed
    <3> QED BY <3>1 DEF Placed
  <2> QED BY <1>1, <1>2, <2>1 DEF At
<1> QED BY <1>1, <1>2, <1>3, <1>4

(* No two sheets of a desktop are at one height. *)
LEMMA SameHeight ==
  ASSUME NEW x, Typed(x), Placed(x), NEW c \in Ctls, NEW s \in Sheets, NEW t \in Sheets,
         On(x, c, s), On(x, c, t), x.height[s] = x.height[t]
  PROVE  s = t
BY Places

(* The topmost opaque sheet is there, is one, and is what OpaqueAt finds. *)
LEMMA TopExists ==
  ASSUME NEW x, Typed(x), Placed(x), NEW c \in Ctls, NEW y \in Rows, NEW b \in Sheets, OpaqueIn(x, c, y, b)
  PROVE  \E s \in Sheets : TopIn(x, c, y, s)
<1> DEFINE T == {h \in 0 .. Top(x, c) : OpaqueIn(x, c, y, At(x, c, h))}
           n == Top(x, c) + 1
<1>1. n \in Nat /\ T \in SUBSET (0 .. n)
  <2>1. n \in Nat
    BY Places
  <2>2. Top(x, c) = n - 1
    BY <2>1 DEF Top
  <2>3. 0 .. n - 1 \subseteq 0 .. n
    BY <2>1
  <2> QED BY <2>1, <2>2, <2>3
<1>2. \A t \in Sheets : OpaqueIn(x, c, y, t) => x.height[t] \in T /\ At(x, c, x.height[t]) = t
  BY Places DEF OpaqueIn
<1>3. T # {}
  BY <1>2
<1>4. PICK m \in T : \A h \in T : m >= h
  <2> HIDE DEF T, n
  <2> QED BY <1>1, <1>3, Greatest
<1>5. At(x, c, m) \in Sheets /\ x.height[At(x, c, m)] = m /\ OpaqueIn(x, c, y, At(x, c, m))
  BY Places
<1>6. TopIn(x, c, y, At(x, c, m))
  <2>1. ASSUME NEW t \in Sheets, OpaqueIn(x, c, y, t)
        PROVE  x.height[t] <= m
    <3>1. x.height[t] \in T /\ x.height[t] \in Int /\ m \in Int
      BY <1>2, <2>1 DEF Typed
    <3> QED BY <1>4, <3>1
  <2> QED BY <1>5, <2>1 DEF TopIn
<1> QED BY <1>5, <1>6

(* There is one topmost opaque sheet at most. *)
LEMMA OneTop ==
  ASSUME NEW x, Typed(x), Placed(x), NEW c \in Ctls, NEW y, NEW s \in Sheets, NEW t \in Sheets,
         TopIn(x, c, y, s), TopIn(x, c, y, t)
  PROVE  s = t
<1>1. x.height[s] <= x.height[t] /\ x.height[t] <= x.height[s] /\ x.height[s] \in Int /\ x.height[t] \in Int
  BY DEF TopIn, Typed
<1>2. On(x, c, s) /\ On(x, c, t)
  BY DEF TopIn, OpaqueIn
<1> QED BY <1>1, <1>2, SameHeight

-----------------------------------------------------------------------------
\* A refresh of the map,

(* Refreshing the map or the screen leaves the sheets alone. *)
SameSheets(x, z) ==
  /\ z.stack = x.stack /\ z.sid = x.sid /\ z.height = x.height /\ z.id = x.id
  /\ z.ctl = x.ctl /\ z.y = x.y /\ z.buf = x.buf /\ z.used = x.used

(* So everything is seen as before. *)
LEMMA SameSeen ==
  ASSUME NEW x, NEW z, SameSheets(x, z)
  PROVE  /\ \A c, s : On(z, c, s) <=> On(x, c, s)
         /\ \A c, y, s : OpaqueIn(z, c, y, s) <=> OpaqueIn(x, c, y, s)
         /\ \A c, y, s : GlassIn(z, c, y, s) <=> GlassIn(x, c, y, s)
         /\ \A c, y, s : TopIn(z, c, y, s) <=> TopIn(x, c, y, s)
         /\ \A c, y, s, g : GlassOver(z, c, y, s, g) <=> GlassOver(x, c, y, s, g)
         /\ \A c, y, s : Paints(z, c, y, s) <=> Paints(x, c, y, s)
         /\ \A s, y : Covers(z, s, y) <=> Covers(x, s, y)
         /\ \A s, y : Cell(z, s, y) = Cell(x, s, y)
         /\ \A c : Top(z, c) = Top(x, c)
         /\ \A c, h : At(z, c, h) = At(x, c, h)
         /\ Placed(x) => Placed(z)
         /\ Named(x) => Named(z)
         /\ Listed(x) => Listed(z)
         /\ \A c : Based(x, c) => Based(z, c)
<1> USE DEF SameSheets
<1>1. \A c, s : On(z, c, s) <=> On(x, c, s)
  BY DEF On
<1>2. /\ \A s, y : Covers(z, s, y) <=> Covers(x, s, y)
      /\ \A s, y : Cell(z, s, y) = Cell(x, s, y)
  BY DEF Covers, Cell
<1>3. \A c, y, s : OpaqueIn(z, c, y, s) <=> OpaqueIn(x, c, y, s)
  BY <1>1, <1>2 DEF OpaqueIn
<1>4. \A c, y, s : GlassIn(z, c, y, s) <=> GlassIn(x, c, y, s)
  BY <1>1, <1>2 DEF GlassIn
<1>5. \A c, y, s : TopIn(z, c, y, s) <=> TopIn(x, c, y, s)
  BY <1>3 DEF TopIn
<1>6. \A c, y, s, g : GlassOver(z, c, y, s, g) <=> GlassOver(x, c, y, s, g)
  BY <1>4 DEF GlassOver
<1>7. \A c, y, s : Paints(z, c, y, s) <=> Paints(x, c, y, s)
  BY <1>5, <1>6 DEF Paints
<1>8. /\ \A c : Top(z, c) = Top(x, c)
      /\ \A c, h : At(z, c, h) = At(x, c, h)
  BY DEF Top, At
<1>9. Placed(x) => Placed(z)
  BY DEF Placed
<1>10. Named(x) => Named(z)
  BY DEF Named
<1>11. Listed(x) => Listed(z)
  BY <1>1 DEF Listed
<1>12. \A c : Based(x, c) => Based(z, c)
  BY <1>3 DEF Based
<1> QED BY <1>1, <1>2, <1>3, <1>4, <1>5, <1>6, <1>7, <1>8, <1>9, <1>10, <1>11, <1>12

(* What a refresh of the map of c does to it. *)
MapIs(x, z, c, rows, h0) ==
  \A b \in Ctls, y \in Rows :
    z.map[b][y] = IF b = c /\ y \in rows /\ OpaqueAt(x, c, y, h0) # {}
                  THEN x.id[At(x, c, Max(OpaqueAt(x, c, y, h0)))] ELSE x.map[b][y]

(* sheet_refreshmap32 in these terms. *)
LEMMA RefreshmapIs ==
  ASSUME NEW x, Typed(x), NEW c \in Ctls, NEW rows, NEW h0
  PROVE  /\ Typed(Refreshmap(x, c, rows, h0))
         /\ SameSheets(x, Refreshmap(x, c, rows, h0))
         /\ Refreshmap(x, c, rows, h0).vram = x.vram
         /\ MapIs(x, Refreshmap(x, c, rows, h0), c, rows, h0)
<1> DEFINE r == [y \in Rows |-> IF y \in rows /\ OpaqueAt(x, c, y, h0) # {}
                                THEN x.id[At(x, c, Max(OpaqueAt(x, c, y, h0)))] ELSE x.map[c][y]]
           m == [x.map EXCEPT ![c] = r]
           z == Refreshmap(x, c, rows, h0)
<1>0. Desk(x) /\ x.map = [b \in Ctls |-> [y \in Rows |-> x.map[b][y]]]
  BY DEF Typed
<1>1. z = [x EXCEPT !.map = m]
  BY DEF Refreshmap
<1> HIDE DEF m, z
<1>2. /\ Desk(z) /\ z.map = m /\ z.vram = x.vram
      /\ z.stack = x.stack /\ z.sid = x.sid /\ z.height = x.height /\ z.id = x.id
      /\ z.ctl = x.ctl /\ z.y = x.y /\ z.buf = x.buf /\ z.used = x.used
  BY <1>0, <1>1 DEF Desk, Keys
<1>3. m = [b \in Ctls |-> IF b = c THEN r ELSE x.map[b]]
  BY <1>0 DEF m
<1>4. \A b \in Ctls, y \in Rows : m[b][y] = IF b = c THEN r[y] ELSE x.map[b][y]
  BY <1>3
<1>5. m = [b \in Ctls |-> [y \in Rows |-> m[b][y]]]
  <2>1. ASSUME NEW b \in Ctls
        PROVE  m[b] = [y \in Rows |-> m[b][y]]
    <3>1. CASE b = c
      BY <1>3, <3>1
    <3>2. CASE b # c
      <4>1. m[b] = x.map[b]
        BY <1>3, <3>2
      <4>2. x.map[b] = [y \in Rows |-> x.map[b][y]]
        BY <1>0
      <4> QED BY <4>1, <4>2
    <3> QED BY <3>1, <3>2
  <2> HIDE DEF r
  <2> QED BY <1>3, <2>1
<1>6. \A y \in Rows : r[y] = IF y \in rows /\ OpaqueAt(x, c, y, h0) # {}
                             THEN x.id[At(x, c, Max(OpaqueAt(x, c, y, h0)))] ELSE x.map[c][y]
  OBVIOUS
<1> HIDE DEF r
<1>7. MapIs(x, z, c, rows, h0)
  BY <1>2, <1>4, <1>6 DEF MapIs
<1>8. Typed(z)
  BY <1>2, <1>5 DEF Typed
<1> QED BY <1>2, <1>7, <1>8 DEF z, SameSheets

(* It makes no row wrong, and those right whose topmost opaque sheet is at *)
(* least as high as it starts.                                             *)
LEMMA RefreshmapMaps ==
  ASSUME NEW x, Typed(x), Placed(x), NEW c \in Ctls, NEW rows, NEW h0 \in Nat,
         NEW z, SameSheets(x, z), MapIs(x, z, c, rows, h0)
  PROVE  /\ \A b \in Ctls, y \in Rows : Mapped(x, b, y) => Mapped(z, b, y)
         /\ \A y \in rows \cap Rows, s \in Sheets :
              TopIn(x, c, y, s) /\ x.height[s] >= h0 => Mapped(z, c, y)
<1>1. ASSUME NEW y \in Rows, y \in rows, NEW s \in Sheets, TopIn(x, c, y, s), OpaqueAt(x, c, y, h0) # {}
      PROVE  z.map[c][y] = x.id[s]
  <2> DEFINE T == OpaqueAt(x, c, y, h0)
             n == Top(x, c) + 1
             m == Max(T)
  <2>1. n \in Nat /\ Top(x, c) = n - 1
    <3>1. n \in Nat
      BY Places
    <3> QED BY <3>1 DEF Top
  <2>2. T \in SUBSET (0 .. n)
    <3>1. T \in SUBSET (h0 .. n - 1)
      BY <2>1 DEF OpaqueAt
    <3>2. h0 .. n - 1 \subseteq 0 .. n
      BY <2>1
    <3> QED BY <3>1, <3>2
  <2>3. m \in T /\ \A h \in T : m >= h
    <3> HIDE DEF T, n
    <3> QED BY <1>1, <2>1, <2>2, MaxIs DEF T
  <2>4. m \in 0 .. Top(x, c) /\ m >= h0 /\ Covers(x, At(x, c, m), y) /\ Opaque(Cell(x, At(x, c, m), y))
    <3>1. m \in h0 .. n - 1 /\ Covers(x, At(x, c, m), y) /\ Opaque(Cell(x, At(x, c, m), y))
      <4> HIDE DEF m
      <4> QED BY <2>1, <2>3 DEF OpaqueAt
    <3> HIDE DEF m, n
    <3> QED BY <2>1, <3>1
  <2> DEFINE w == At(x, c, m)
  <2> HIDE DEF m, n
  <2>5. w \in Sheets /\ On(x, c, w) /\ x.height[w] = m
    BY <2>4, Places
  <2>6. OpaqueIn(x, c, y, w)
    BY <2>4, <2>5 DEF OpaqueIn
  <2>7. ASSUME NEW t \in Sheets, OpaqueIn(x, c, y, t)
        PROVE  x.height[t] <= m
    <3>1. x.height[t] \in 0 .. Top(x, c) /\ At(x, c, x.height[t]) = t
      BY <2>7, Places DEF OpaqueIn
    <3>2. CASE x.height[t] >= h0
      <4>1. x.height[t] \in h0 .. Top(x, c)
        BY <2>1, <3>1, <3>2
      <4>2. x.height[t] \in T
        BY <2>7, <3>1, <4>1 DEF OpaqueAt, OpaqueIn
      <4> HIDE DEF T
      <4> QED BY <2>3, <2>4, <3>1, <4>2
    <3>3. CASE ~ (x.height[t] >= h0)
      BY <2>1, <2>4, <3>1, <3>3
    <3> QED BY <3>2, <3>3
  <2>8. TopIn(x, c, y, w)
    BY <2>5, <2>6, <2>7 DEF TopIn
  <2>9. w = s
    <3> HIDE DEF w
    <3> QED BY <1>1, <2>5, <2>8, OneTop
  <2> QED BY <1>1, <2>9 DEF MapIs, m
<1>2. ASSUME NEW b \in Ctls, NEW y \in Rows, Mapped(x, b, y)
      PROVE  Mapped(z, b, y)
  <2>1. ASSUME NEW s \in Sheets, TopIn(z, b, y, s)
        PROVE  z.map[b][y] = z.id[s]
    <3>1. TopIn(x, b, y, s) /\ z.id = x.id
      BY <2>1, SameSeen DEF SameSheets
    <3>2. CASE b = c /\ y \in rows /\ OpaqueAt(x, c, y, h0) # {}
      BY <1>1, <3>1, <3>2
    <3>3. CASE ~ (b = c /\ y \in rows /\ OpaqueAt(x, c, y, h0) # {})
      <4>1. z.map[b][y] = x.map[b][y]
        BY <3>3 DEF MapIs
      <4> QED BY <1>2, <3>1, <4>1 DEF Mapped
    <3> QED BY <3>2, <3>3
  <2> QED BY <2>1 DEF Mapped
<1>3. ASSUME NEW y \in rows \cap Rows, NEW s \in Sheets, TopIn(x, c, y, s), x.height[s] >= h0
      PROVE  Mapped(z, c, y)
  <2>1. x.height[s] \in 0 .. Top(x, c) /\ At(x, c, x.height[s]) = s
    BY <1>3, Places DEF TopIn, OpaqueIn
  <2>2. x.height[s] \in h0 .. Top(x, c)
    BY <1>3, <2>1
  <2>3. x.height[s] \in OpaqueAt(x, c, y, h0)
    BY <1>3, <2>1, <2>2 DEF OpaqueAt, TopIn, OpaqueIn
  <2>4. z.map[c][y] = x.id[s]
    BY <1>1, <1>3, <2>3
  <2>5. ASSUME NEW t \in Sheets, TopIn(z, c, y, t)
        PROVE  t = s
    BY <1>3, <2>5, SameSeen, OneTop
  <2>6. z.id = x.id
    BY DEF SameSheets
  <2> QED BY <2>4, <2>5, <2>6 DEF Mapped
<1> QED BY <1>2, <1>3

-----------------------------------------------------------------------------
\* and of the screen.

(* The places from h0 to h1 whose sheet a refresh of the screen paints at y. *)
PaintersAt(x, c, y, h0, h1) ==
  {h \in h0 .. h1 : /\ Covers(x, At(x, c, h), y)
                    /\ x.map[c][y] = x.id[At(x, c, h)] \/ Glazes(x, c, At(x, c, h), y)}

(* What a refresh of the screen does to it. *)
PictureIs(x, z, c, rows, h0, h1) ==
  \A y \in Rows :
    z.vram[y] = IF y \in rows /\ PaintersAt(x, c, y, h0, h1) # {}
                THEN LET h == Max(PaintersAt(x, c, y, h0, h1))
                     IN IF x.map[c][y] = x.id[At(x, c, h)] THEN Cell(x, At(x, c, h), y) ELSE Mix
                ELSE x.vram[y]

(* sheet_refreshsub32 in these terms. *)
LEMMA RefreshsubIs ==
  ASSUME NEW x, Typed(x), NEW c \in Ctls, NEW rows, NEW h0, NEW h1
  PROVE  /\ Typed(Refreshsub(x, c, rows, h0, h1))
         /\ SameSheets(x, Refreshsub(x, c, rows, h0, h1))
         /\ Refreshsub(x, c, rows, h0, h1).map = x.map
         /\ PictureIs(x, Refreshsub(x, c, rows, h0, h1), c, rows, h0, h1)
<1> DEFINE v == [y \in Rows |->
                   IF y \in rows /\ PaintersAt(x, c, y, h0, h1) # {}
                   THEN LET h == Max(PaintersAt(x, c, y, h0, h1))
                        IN IF x.map[c][y] = x.id[At(x, c, h)] THEN Cell(x, At(x, c, h), y) ELSE Mix
                   ELSE x.vram[y]]
           z == Refreshsub(x, c, rows, h0, h1)
<1>0. Desk(x)
  BY DEF Typed
<1>1. z = [x EXCEPT !.vram = v]
  BY DEF Refreshsub, PaintersAt
<1>2. \A y \in Rows :
        v[y] = IF y \in rows /\ PaintersAt(x, c, y, h0, h1) # {}
               THEN LET h == Max(PaintersAt(x, c, y, h0, h1))
                    IN IF x.map[c][y] = x.id[At(x, c, h)] THEN Cell(x, At(x, c, h), y) ELSE Mix
               ELSE x.vram[y]
  OBVIOUS
<1>3. v = [y \in Rows |-> v[y]]
  OBVIOUS
<1> HIDE DEF v, z
<1>4. /\ Desk(z) /\ z.vram = v /\ z.map = x.map
      /\ z.stack = x.stack /\ z.sid = x.sid /\ z.height = x.height /\ z.id = x.id
      /\ z.ctl = x.ctl /\ z.y = x.y /\ z.buf = x.buf /\ z.used = x.used
  BY <1>0, <1>1 DEF Desk, Keys
<1>5. Typed(z)
  BY <1>3, <1>4 DEF Typed
<1>6. PictureIs(x, z, c, rows, h0, h1)
  BY <1>2, <1>4 DEF PictureIs
<1> QED BY <1>4, <1>5, <1>6 DEF z, SameSheets

(* On a desktop whose map is right they are those of the sheets that paint. *)
LEMMA PaintersAre ==
  ASSUME NEW x, Typed(x), Placed(x), Named(x), NEW c \in Ctls, NEW y \in Rows,
         NEW w \in Sheets, TopIn(x, c, y, w), Mapped(x, c, y),
         NEW h0 \in Nat, NEW h1 \in Int, h1 <= Top(x, c), NEW h \in h0 .. h1
  PROVE  /\ h \in PaintersAt(x, c, y, h0, h1) <=> Paints(x, c, y, At(x, c, h))
         /\ Paints(x, c, y, At(x, c, h)) =>
              (x.map[c][y] = x.id[At(x, c, h)] <=> At(x, c, h) = w)
<1> DEFINE s == At(x, c, h)
<1>0. Top(x, c) \in Int
  <2>1. Top(x, c) + 1 \in Nat
    BY Places
  <2>2. x.stack[c] \in Seq(Sheets)
    BY DEF Typed
  <2> QED BY <2>2 DEF Top
<1>1. h \in 0 .. Top(x, c)
  BY <1>0
<1>2. s \in Sheets /\ On(x, c, s) /\ x.height[s] = h
  BY <1>1, Places
<1> HIDE DEF s
<1>3. x.map[c][y] = x.id[w] /\ On(x, c, w)
  BY DEF Mapped, TopIn, OpaqueIn
<1>4. x.sid[c][x.id[w]] = w /\ x.sid[c][x.id[s]] = s
  BY <1>2, <1>3 DEF Named, On
<1>5. x.map[c][y] = x.id[s] <=> s = w
  BY <1>3, <1>4
<1>6. Glazes(x, c, s, y) <=> Cell(x, s, y) = Glass /\ x.height[s] >= x.height[w]
  BY <1>3, <1>4 DEF Glazes
<1>7. h \in PaintersAt(x, c, y, h0, h1) <=> Covers(x, s, y) /\ (s = w \/ Glazes(x, c, s, y))
  BY <1>5 DEF PaintersAt, s
<1>8. Covers(x, w, y) /\ Opaque(Cell(x, w, y))
  BY DEF TopIn, OpaqueIn
<1>9. GlassOver(x, c, y, w, s) <=> Covers(x, s, y) /\ s # w /\ Glazes(x, c, s, y)
  <2>1. Cell(x, s, y) = Glass => s # w
    BY <1>8 DEF Opaque
  <2>2. s # w => x.height[s] # x.height[w]
    BY <1>2, <1>3, SameHeight
  <2>3. x.height[s] \in Int /\ x.height[w] \in Int
    BY <1>2 DEF Typed
  <2> QED BY <1>2, <1>6, <2>1, <2>2, <2>3 DEF GlassOver, GlassIn
<1>10. Paints(x, c, y, s) <=> (s = w \/ GlassOver(x, c, y, w, s))
  BY OneTop DEF Paints
<1>11. h \in PaintersAt(x, c, y, h0, h1) <=> Paints(x, c, y, s)
  BY <1>7, <1>8, <1>9, <1>10
<1> QED BY <1>5, <1>11 DEF s

(* A refresh of the screen leaves a row or paints it right, and it paints  *)
(* the rows at which one of the places is that of a sheet that paints.      *)
LEMMA Painting ==
  ASSUME NEW x, Typed(x), Placed(x), Named(x), NEW c \in Ctls, NEW rows,
         NEW h0 \in Nat, NEW h1 \in Int, h1 <= Top(x, c),
         NEW z, SameSheets(x, z), PictureIs(x, z, c, rows, h0, h1),
         NEW y \in Rows, NEW w \in Sheets, TopIn(x, c, y, w), Mapped(x, c, y)
  PROVE  /\ z.vram[y] = x.vram[y] \/ Shows(z, c, y)
         /\ \A s \in Sheets :
              y \in rows /\ Paints(x, c, y, s) /\ x.height[s] \in h0 .. h1 => Shows(z, c, y)
<1> DEFINE T == PaintersAt(x, c, y, h0, h1)
           n == Top(x, c) + 1
           m == Max(T)
<1>1. n \in Nat /\ Top(x, c) = n - 1
  <2>1. n \in Nat
    BY Places
  <2> QED BY <2>1 DEF Top
<1>2. T \in SUBSET (0 .. n)
  <2>1. T \in SUBSET (h0 .. h1)
    BY DEF PaintersAt
  <2>2. h0 .. h1 \subseteq 0 .. n
    <3> HIDE DEF n
    <3> QED BY <1>1
  <2> QED BY <2>1, <2>2
<1>3. ASSUME y \in rows, T # {}
      PROVE  Shows(z, c, y)
  <2>1. m \in T /\ \A h \in T : m >= h
    <3> HIDE DEF T, n
    <3> QED BY <1>1, <1>2, <1>3, MaxIs DEF m
  <2> DEFINE s == At(x, c, m)
  <2>2. m \in h0 .. h1 /\ m \in 0 .. Top(x, c)
    <3>1. m \in h0 .. h1
      <4> HIDE DEF m
      <4> QED BY <2>1 DEF PaintersAt
    <3> HIDE DEF m, T, n
    <3> QED BY <1>1, <3>1
  <2>3. /\ Paints(x, c, y, s)
        /\ x.map[c][y] = x.id[s] <=> s = w
    <3> HIDE DEF m
    <3> QED BY <2>1, <2>2, PaintersAre
  <2>4. z.vram[y] = IF s = w THEN Cell(x, s, y) ELSE Mix
    <3>1. z.vram[y] = IF x.map[c][y] = x.id[s] THEN Cell(x, s, y) ELSE Mix
      BY <1>3 DEF PictureIs
    <3> HIDE DEF s
    <3> QED BY <2>3, <3>1
  <2> HIDE DEF m, T
  <2>5. s \in Sheets
    BY <2>2, Places
  <2> HIDE DEF s
  <2>6. TopIn(z, c, y, w) /\ Cell(z, w, y) = Cell(x, w, y)
    BY SameSeen
  <2>7. CASE s = w
    BY <2>4, <2>6, <2>7 DEF Shows
  <2>8. CASE s # w
    <3>1. GlassOver(x, c, y, w, s)
      BY <2>3, <2>8, OneTop DEF Paints
    <3>2. GlassOver(z, c, y, w, s)
      BY <3>1, SameSeen
    <3> QED BY <2>4, <2>5, <2>6, <2>8, <3>2 DEF Shows
  <2> QED BY <2>7, <2>8
<1>4. z.vram[y] = x.vram[y] \/ Shows(z, c, y)
  <2>1. CASE y \in rows /\ T # {}
    BY <1>3, <2>1
  <2>2. CASE ~ (y \in rows /\ T # {})
    BY <2>2 DEF PictureIs
  <2> QED BY <2>1, <2>2
<1>5. ASSUME NEW s \in Sheets, y \in rows, Paints(x, c, y, s), x.height[s] \in h0 .. h1
      PROVE  Shows(z, c, y)
  <2>1. On(x, c, s)
    BY <1>5 DEF Paints, TopIn, OpaqueIn, GlassOver, GlassIn
  <2>2. At(x, c, x.height[s]) = s
    BY <2>1, Places
  <2>3. x.height[s] \in T
    BY <1>5, <2>2, PaintersAre
  <2> QED BY <1>3, <1>5, <2>3
<1> QED BY <1>4, <1>5

(* With all places and all rows it is what is seen. *)
LEMMA PaintedAll ==
  ASSUME NEW x, Typed(x), Placed(x), Named(x), NEW c \in Ctls,
         NEW z, SameSheets(x, z), PictureIs(x, z, c, Rows, 0, Top(x, c)),
         NEW y \in Rows, NEW w \in Sheets, TopIn(x, c, y, w), Mapped(x, c, y)
  PROVE  z.vram[y] = IF \E g \in Sheets : GlassOver(z, c, y, w, g) THEN Mix ELSE Cell(z, w, y)
<1> DEFINE T == PaintersAt(x, c, y, 0, Top(x, c))
           n == Top(x, c) + 1
           m == Max(T)
           s == At(x, c, m)
<1>1. n \in Nat /\ Top(x, c) = n - 1 /\ Top(x, c) \in Int /\ Top(x, c) <= Top(x, c)
  <2>1. n \in Nat
    BY Places
  <2>2. x.stack[c] \in Seq(Sheets)
    BY DEF Typed
  <2> QED BY <2>1, <2>2 DEF Top
<1>2. T \in SUBSET (0 .. n)
  <2>1. T \in SUBSET (0 .. Top(x, c))
    BY DEF PaintersAt
  <2>2. 0 .. Top(x, c) \subseteq 0 .. n
    <3> HIDE DEF n
    <3> QED BY <1>1
  <2> QED BY <2>1, <2>2
<1>3. ASSUME NEW g \in Sheets, Paints(x, c, y, g)
      PROVE  x.height[g] \in T /\ At(x, c, x.height[g]) = g
  <2>1. On(x, c, g)
    BY <1>3 DEF Paints, TopIn, OpaqueIn, GlassOver, GlassIn
  <2>2. At(x, c, x.height[g]) = g /\ x.height[g] \in 0 .. Top(x, c)
    BY <2>1, Places
  <2> QED BY <1>1, <1>3, <2>2, PaintersAre
<1>4. Paints(x, c, y, w)
  BY DEF Paints
<1>5. m \in T /\ \A h \in T : m >= h
  <2>1. T # {}
    BY <1>3, <1>4
  <2> HIDE DEF T, n
  <2> QED BY <1>1, <1>2, <2>1, MaxIs DEF m
<1>6. m \in 0 .. Top(x, c)
  <2> HIDE DEF m
  <2> QED BY <1>5 DEF PaintersAt
<1>7. /\ Paints(x, c, y, s)
      /\ x.map[c][y] = x.id[s] <=> s = w
  <2> HIDE DEF m
  <2> QED BY <1>1, <1>5, <1>6, PaintersAre
<1>8. z.vram[y] = IF s = w THEN Cell(x, s, y) ELSE Mix
  <2>1. T # {}
    BY <1>5
  <2>2. z.vram[y] = IF x.map[c][y] = x.id[s] THEN Cell(x, s, y) ELSE Mix
    BY <2>1 DEF PictureIs
  <2> HIDE DEF s
  <2> QED BY <1>7, <2>2
<1>9. s \in Sheets /\ x.height[s] = m
  <2> HIDE DEF m
  <2> QED BY <1>6, Places
<1> HIDE DEF m, T, n, s
<1>10. s = w => ~ \E g \in Sheets : GlassOver(x, c, y, w, g)
  <2>1. ASSUME s = w, NEW g \in Sheets, GlassOver(x, c, y, w, g)
        PROVE  FALSE
    <3>1. Paints(x, c, y, g)
      BY <2>1 DEF Paints
    <3>2. m >= x.height[g]
      BY <1>3, <1>5, <3>1
    <3>3. x.height[g] > x.height[w] /\ x.height[g] \in Int /\ x.height[w] \in Int
      BY <2>1 DEF GlassOver, Typed
    <3> QED BY <1>9, <2>1, <3>2, <3>3
  <2> QED BY <2>1
<1>11. s # w => GlassOver(x, c, y, w, s)
  BY <1>7, OneTop DEF Paints
<1>12. Cell(z, w, y) = Cell(x, w, y) /\ \A g : GlassOver(z, c, y, w, g) <=> GlassOver(x, c, y, w, g)
  BY SameSeen
<1> QED BY <1>8, <1>9, <1>10, <1>11, <1>12

-----------------------------------------------------------------------------
\* A change of one sheet, and what it keeps.

(* From x to e only sheet s changes, and only desktop c: the others keep   *)
(* their fields and their order.                                           *)
Others(x, e, s) ==
  \A t \in Sheets : t # s =>
    /\ x.height[t] >= 0 <=> e.height[t] >= 0
    /\ e.ctl[t] = x.ctl[t] /\ e.y[t] = x.y[t] /\ e.buf[t] = x.buf[t] /\ e.id[t] = x.id[t]
Ordered(x, e, s, c) ==
  \A t \in Sheets, u \in Sheets : t # s /\ u # s =>
    /\ On(x, c, t) /\ On(x, c, u) => (x.height[t] < x.height[u] <=> e.height[t] < e.height[u])
    /\ x.ctl[t] # c => e.height[t] = x.height[t]
Moved(x, e, s, c) ==
  /\ Others(x, e, s) /\ Ordered(x, e, s, c)
  /\ \A b \in Ctls : b # c => ~ On(x, b, s) /\ ~ On(e, b, s)

(* The sheets but s cover and show what they did. *)
LEMMA OthersSeen ==
  ASSUME NEW x, NEW e, NEW s \in Sheets, NEW c \in Ctls, Moved(x, e, s, c),
         NEW t \in Sheets, t # s, NEW b \in Ctls, NEW y
  PROVE  /\ On(e, b, t) <=> On(x, b, t)
         /\ Covers(e, t, y) <=> Covers(x, t, y)
         /\ Cell(e, t, y) = Cell(x, t, y)
         /\ OpaqueIn(e, b, y, t) <=> OpaqueIn(x, b, y, t)
         /\ GlassIn(e, b, y, t) <=> GlassIn(x, b, y, t)
<1>1. /\ x.height[t] >= 0 <=> e.height[t] >= 0
      /\ e.ctl[t] = x.ctl[t] /\ e.y[t] = x.y[t] /\ e.buf[t] = x.buf[t]
  BY DEF Moved, Others
<1>2. On(e, b, t) <=> On(x, b, t)
  BY <1>1 DEF On
<1>3. (Covers(e, t, y) <=> Covers(x, t, y)) /\ Cell(e, t, y) = Cell(x, t, y)
  BY <1>1 DEF Covers, Cell
<1> QED BY <1>2, <1>3 DEF OpaqueIn, GlassIn

(* The other desktop is as it was. *)
LEMMA Elsewhere ==
  ASSUME NEW x, NEW e, NEW s \in Sheets, NEW c \in Ctls, Moved(x, e, s, c),
         NEW b \in Ctls, b # c, NEW y \in Rows
  PROVE  /\ Mapped(x, b, y) /\ e.map[b][y] = x.map[b][y] => Mapped(e, b, y)
         /\ Shows(x, b, y) /\ e.vram[y] = x.vram[y] => Shows(e, b, y)
<1>1. ~ On(x, b, s) /\ ~ On(e, b, s)
  BY DEF Moved
<1>2. \A t \in Sheets : On(x, b, t) => t # s /\ e.height[t] = x.height[t] /\ e.id[t] = x.id[t]
  BY <1>1 DEF Moved, Ordered, Others, On
<1>3. \A t \in Sheets : OpaqueIn(e, b, y, t) <=> OpaqueIn(x, b, y, t)
  BY <1>1, OthersSeen DEF OpaqueIn
<1>4. \A t \in Sheets : GlassIn(e, b, y, t) <=> GlassIn(x, b, y, t)
  BY <1>1, OthersSeen DEF GlassIn
<1>5. \A t \in Sheets : TopIn(e, b, y, t) <=> TopIn(x, b, y, t)
  BY <1>2, <1>3 DEF TopIn, OpaqueIn
<1>6. \A t \in Sheets, g \in Sheets : TopIn(x, b, y, t) => (GlassOver(e, b, y, t, g) <=> GlassOver(x, b, y, t, g))
  BY <1>2, <1>4 DEF GlassOver, GlassIn, TopIn, OpaqueIn
<1>7. \A t \in Sheets : TopIn(x, b, y, t) => Cell(e, t, y) = Cell(x, t, y)
  <2> SUFFICES ASSUME NEW t \in Sheets, TopIn(x, b, y, t)
               PROVE  Cell(e, t, y) = Cell(x, t, y)
    OBVIOUS
  <2>1. t # s
    BY <1>1 DEF TopIn, OpaqueIn
  <2> QED BY <2>1, OthersSeen
<1>8. Mapped(x, b, y) /\ e.map[b][y] = x.map[b][y] => Mapped(e, b, y)
  BY <1>2, <1>5 DEF Mapped, TopIn, OpaqueIn
<1>9. Shows(x, b, y) /\ e.vram[y] = x.vram[y] => Shows(e, b, y)
  BY <1>5, <1>6, <1>7 DEF Shows
<1> QED BY <1>8, <1>9

(* At row y the topmost sheet of e was so in x, and is glazed if it was. *)
TopKept(x, e, c, y) ==
  \A w \in Sheets : TopIn(e, c, y, w) =>
    TopIn(x, c, y, w) /\ e.id[w] = x.id[w] /\ Cell(e, w, y) = Cell(x, w, y)
GlassKept(x, e, c, y) ==
  \A w \in Sheets : TopIn(e, c, y, w) =>
    \A g \in Sheets : GlassOver(x, c, y, w, g) => GlassOver(e, c, y, w, g)

(* A row of the map is right where the topmost sheet is kept, *)
LEMMA KeptMaps ==
  ASSUME NEW x, NEW e, NEW c \in Ctls, NEW y \in Rows, TopKept(x, e, c, y), Mapped(x, c, y),
         e.map[c][y] = x.map[c][y]
  PROVE  Mapped(e, c, y)
BY DEF TopKept, Mapped

(* and a row of the screen where its glass is kept too. *)
LEMMA KeptShows ==
  ASSUME NEW x, Typed(x), Placed(x), NEW e, NEW c \in Ctls, NEW y \in Rows,
         TopKept(x, e, c, y), GlassKept(x, e, c, y), Shows(x, c, y),
         e.vram[y] = x.vram[y], NEW w \in Sheets, TopIn(e, c, y, w)
  PROVE  Shows(e, c, y)
<1>1. TopIn(x, c, y, w) /\ Cell(e, w, y) = Cell(x, w, y)
  BY DEF TopKept
<1>2. PICK s \in Sheets :
        /\ TopIn(x, c, y, s)
        /\ x.vram[y] = Cell(x, s, y) \/ (x.vram[y] = Mix /\ \E g \in Sheets : GlassOver(x, c, y, s, g))
  BY DEF Shows
<1>3. s = w
  BY <1>1, <1>2, OneTop
<1> QED BY <1>1, <1>2, <1>3 DEF Shows, GlassKept

(* So it is where the topmost sheet of e is another than s, and was above  *)
(* s wherever s is opaque, *)
LEMMA KeptOther ==
  ASSUME NEW x, Typed(x), NEW e, Typed(e), NEW s \in Sheets, NEW c \in Ctls, Moved(x, e, s, c),
         NEW y \in Rows, NEW w \in Sheets, TopIn(e, c, y, w), w # s,
         OpaqueIn(x, c, y, s) => x.height[s] < x.height[w]
  PROVE  /\ TopIn(x, c, y, w) /\ e.id[w] = x.id[w] /\ Cell(e, w, y) = Cell(x, w, y)
         /\ \A g \in Sheets : g # s /\ GlassOver(x, c, y, w, g) => GlassOver(e, c, y, w, g)
<1>1. OpaqueIn(e, c, y, w)
  BY DEF TopIn
<1>2. OpaqueIn(x, c, y, w) /\ On(x, c, w) /\ Cell(e, w, y) = Cell(x, w, y)
  BY <1>1, OthersSeen DEF OpaqueIn
<1>3. ASSUME NEW t \in Sheets, OpaqueIn(x, c, y, t)
      PROVE  x.height[t] <= x.height[w]
  <2>1. x.height[t] \in Int /\ x.height[w] \in Int
    BY DEF Typed
  <2>2. CASE t = s
    BY <1>3, <2>1, <2>2
  <2>3. CASE t # s
    <3>1. OpaqueIn(e, c, y, t) /\ On(x, c, t)
      BY <1>3, <2>3, OthersSeen DEF OpaqueIn
    <3>2. e.height[t] <= e.height[w]
      BY <3>1 DEF TopIn
    <3>3. x.height[w] < x.height[t] => e.height[w] < e.height[t]
      BY <1>2, <2>3, <3>1 DEF Moved, Ordered
    <3>4. e.height[t] \in Int /\ e.height[w] \in Int
      BY DEF Typed
    <3> QED BY <2>1, <3>2, <3>3, <3>4
  <2> QED BY <2>2, <2>3
<1>4. TopIn(x, c, y, w)
  BY <1>2, <1>3 DEF TopIn
<1>5. e.id[w] = x.id[w]
  BY DEF Moved, Others
<1>6. ASSUME NEW g \in Sheets, g # s, GlassOver(x, c, y, w, g)
      PROVE  GlassOver(e, c, y, w, g)
  <2>1. GlassIn(x, c, y, g) /\ On(x, c, g) /\ x.height[g] > x.height[w]
    BY <1>6 DEF GlassOver, GlassIn
  <2>2. x.height[w] < x.height[g]
    BY <2>1 DEF Typed
  <2>3. e.height[w] < e.height[g]
    BY <1>2, <1>6, <2>1, <2>2 DEF Moved, Ordered
  <2>4. GlassIn(e, c, y, g)
    BY <1>6, <2>1, OthersSeen
  <2> QED BY <2>3, <2>4 DEF GlassOver
<1> QED BY <1>2, <1>4, <1>5, <1>6

(* And where it is s itself, if s has not risen above another. *)
LEMMA KeptSelf ==
  ASSUME NEW x, Typed(x), NEW e, Typed(e), NEW s \in Sheets, NEW c \in Ctls, Moved(x, e, s, c),
         NEW y \in Rows, TopIn(e, c, y, s), On(x, c, s),
         e.y[s] = x.y[s], e.buf[s] = x.buf[s], e.id[s] = x.id[s],
         \A t \in Sheets : t # s /\ On(x, c, t) /\ x.height[t] > x.height[s] => e.height[t] > e.height[s]
  PROVE  /\ TopIn(x, c, y, s) /\ e.id[s] = x.id[s] /\ Cell(e, s, y) = Cell(x, s, y)
         /\ \A g \in Sheets : GlassOver(x, c, y, s, g) => GlassOver(e, c, y, s, g)
<1>1. Cell(e, s, y) = Cell(x, s, y) /\ (Covers(e, s, y) <=> Covers(x, s, y))
  BY DEF Cell, Covers
<1>2. OpaqueIn(x, c, y, s)
  BY <1>1 DEF TopIn, OpaqueIn
<1>3. ASSUME NEW t \in Sheets, OpaqueIn(x, c, y, t)
      PROVE  x.height[t] <= x.height[s]
  <2>1. x.height[t] \in Int /\ x.height[s] \in Int /\ e.height[t] \in Int /\ e.height[s] \in Int
    BY DEF Typed
  <2>2. CASE t = s
    BY <2>1, <2>2
  <2>3. CASE t # s
    <3>1. OpaqueIn(e, c, y, t) /\ On(x, c, t)
      BY <1>3, <2>3, OthersSeen DEF OpaqueIn
    <3>2. e.height[t] <= e.height[s]
      BY <3>1 DEF TopIn
    <3> QED BY <2>1, <2>3, <3>1, <3>2
  <2> QED BY <2>2, <2>3
<1>4. TopIn(x, c, y, s)
  BY <1>2, <1>3 DEF TopIn
<1>5. ASSUME NEW g \in Sheets, GlassOver(x, c, y, s, g)
      PROVE  GlassOver(e, c, y, s, g)
  <2>1. GlassIn(x, c, y, g) /\ On(x, c, g) /\ x.height[g] > x.height[s]
    BY <1>5 DEF GlassOver, GlassIn
  <2>2. g # s
    <3>1. x.height[s] \in Int
      BY DEF Typed
    <3> QED BY <2>1, <3>1
  <2>3. e.height[g] > e.height[s]
    BY <2>1, <2>2
  <2>4. GlassIn(e, c, y, g)
    BY <2>1, <2>2, OthersSeen
  <2> QED BY <2>3, <2>4 DEF GlassOver
<1> QED BY <1>1, <1>4, <1>5

-----------------------------------------------------------------------------

(* The maps are right; row y of the screen is right. *)
MapOk(x) == \A c \in Ctls, y \in Rows : Mapped(x, c, y)
RowOk(x, y) == \E c \in Ctls : Shows(x, c, y)

(* Where neither sheets nor the screen change, a row stays right, *)
LEMMA RowSame ==
  ASSUME NEW x, NEW z, SameSheets(x, z), NEW y \in Rows, z.vram[y] = x.vram[y]
  PROVE  /\ \A c \in Ctls : Shows(x, c, y) => Shows(z, c, y)
         /\ RowOk(x, y) => RowOk(z, y)
BY SameSeen DEF Shows, RowOk

(* and the maps where they do not change. *)
LEMMA MapSame ==
  ASSUME NEW x, NEW z, SameSheets(x, z), z.map = x.map
  PROVE  /\ \A c \in Ctls, y \in Rows : Mapped(x, c, y) => Mapped(z, c, y)
         /\ MapOk(x) => MapOk(z)
<1>1. z.id = x.id
  BY DEF SameSheets
<1>2. \A c \in Ctls, y \in Rows : Mapped(x, c, y) => Mapped(z, c, y)
  BY <1>1, SameSeen DEF Mapped
<1> QED BY <1>2 DEF MapOk

(* A record whose sheets, maps and screen are sound but for the rows that  *)
(* a refresh still has to paint.                                           *)
Drawable(x, c) == Typed(x) /\ Placed(x) /\ Named(x) /\ Based(x, c) /\ MapOk(x)

(* Row y is among those a refresh paints. *)
PaintedRow(x, c, rows, h0, h1, y) ==
  y \in rows /\ \E s \in Sheets : Paints(x, c, y, s) /\ x.height[s] \in h0 .. h1

(* A refresh of the screen keeps what is right and paints its rows. *)
LEMMA Redrawn ==
  ASSUME NEW x, NEW c \in Ctls, Drawable(x, c), NEW rows,
         NEW h0 \in Nat, NEW h1 \in Int, h1 <= Top(x, c),
         NEW z, z = Refreshsub(x, c, rows, h0, h1)
  PROVE  /\ SameSheets(x, z) /\ z.map = x.map
         /\ Drawable(z, c)
         /\ \A y \in Rows : RowOk(x, y) \/ PaintedRow(x, c, rows, h0, h1, y) => RowOk(z, y)
<1>1. /\ Typed(z) /\ SameSheets(x, z) /\ z.map = x.map
      /\ PictureIs(x, z, c, rows, h0, h1)
  BY RefreshsubIs DEF Drawable
<1>2. MapOk(z)
  BY <1>1, MapSame DEF Drawable
<1>3. Placed(z) /\ Named(z) /\ Based(z, c)
  BY <1>1, SameSeen DEF Drawable
<1>4. ASSUME NEW y \in Rows
      PROVE  RowOk(x, y) \/ PaintedRow(x, c, rows, h0, h1, y) => RowOk(z, y)
  <2>1. Typed(x) /\ Placed(x) /\ Named(x) /\ Mapped(x, c, y)
    BY DEF Drawable, MapOk
  <2>2. PICK w \in Sheets : TopIn(x, c, y, w)
    BY <2>1, TopExists DEF Drawable, Based
  <2>3. /\ z.vram[y] = x.vram[y] \/ Shows(z, c, y)
        /\ \A s \in Sheets :
             y \in rows /\ Paints(x, c, y, s) /\ x.height[s] \in h0 .. h1 => Shows(z, c, y)
    BY <1>1, <2>1, <2>2, Painting
  <2>4. z.vram[y] = x.vram[y] => (RowOk(x, y) => RowOk(z, y))
    BY <1>1, RowSame
  <2> QED BY <2>3, <2>4 DEF PaintedRow, RowOk
<1> QED BY <1>1, <1>2, <1>3, <1>4 DEF Drawable

(* After a change of sheet s the maps are right except at rows of c whose  *)
(* topmost sheet is not kept; so is the screen.                            *)
LEMMA ChangedMaps ==
  ASSUME NEW x, NEW e, NEW s \in Sheets, NEW c \in Ctls, Moved(x, e, s, c), MapOk(x), e.map = x.map
  PROVE  /\ \A b \in Ctls, y \in Rows : b # c => Mapped(e, b, y)
         /\ \A y \in Rows : TopKept(x, e, c, y) => Mapped(e, c, y)
BY Elsewhere, KeptMaps DEF MapOk

(* A row of the screen stays right where both are kept. *)
LEMMA ChangedRows ==
  ASSUME NEW x, Typed(x), Placed(x), NEW e, Typed(e), Placed(e), NEW s \in Sheets, NEW c \in Ctls,
         Moved(x, e, s, c), Based(e, c), e.vram = x.vram,
         NEW y \in Rows, TopKept(x, e, c, y), GlassKept(x, e, c, y), RowOk(x, y)
  PROVE  RowOk(e, y)
<1>1. PICK b \in Ctls : Shows(x, b, y)
  BY DEF RowOk
<1>2. CASE b # c
  BY <1>1, <1>2, Elsewhere DEF RowOk
<1>3. CASE b = c
  <2>1. PICK w \in Sheets : TopIn(e, c, y, w)
    BY TopExists DEF Based
  <2> QED BY <1>1, <1>3, <2>1, KeptShows DEF RowOk
<1> QED BY <1>2, <1>3

(* A change of s, a refresh of the map and one of the screen. *)
LEMMA Redraw ==
  ASSUME NEW x, Typed(x), Placed(x), MapOk(x),
         NEW e, Typed(e), Placed(e), Named(e), NEW s \in Sheets, NEW c \in Ctls,
         Moved(x, e, s, c), Based(e, c), e.vram = x.vram, e.map = x.map,
         NEW rows, NEW h0 \in Nat, NEW h1 \in Nat, NEW h2 \in Int, h2 <= Top(e, c),
         \A y \in Rows : \/ TopKept(x, e, c, y)
                         \/ y \in rows /\ \E w \in Sheets : TopIn(e, c, y, w) /\ e.height[w] >= h0,
         NEW z, z = Refreshsub(Refreshmap(e, c, rows, h0), c, rows, h1, h2)
  PROVE  /\ SameSheets(e, z) /\ Drawable(z, c)
         /\ \A y \in Rows :
              \/ PaintedRow(e, c, rows, h1, h2, y)
              \/ TopKept(x, e, c, y) /\ GlassKept(x, e, c, y) /\ RowOk(x, y)
              => RowOk(z, y)
<1> DEFINE m == Refreshmap(e, c, rows, h0)
<1>1. Typed(m) /\ SameSheets(e, m) /\ m.vram = e.vram /\ MapIs(e, m, c, rows, h0)
  BY RefreshmapIs
<1>1a. z = Refreshsub(m, c, rows, h1, h2)
  OBVIOUS
<1> HIDE DEF m
<1>2. /\ \A b \in Ctls, y \in Rows : Mapped(e, b, y) => Mapped(m, b, y)
      /\ \A y \in rows \cap Rows, w \in Sheets :
           TopIn(e, c, y, w) /\ e.height[w] >= h0 => Mapped(m, c, y)
  BY <1>1, RefreshmapMaps
<1>3. MapOk(m)
  <2>1. ASSUME NEW b \in Ctls, NEW y \in Rows
        PROVE  Mapped(m, b, y)
    <3>1. CASE b # c
      BY <1>2, <3>1, ChangedMaps
    <3>2. CASE b = c /\ TopKept(x, e, c, y)
      BY <1>2, <3>2, ChangedMaps
    <3>3. CASE b = c /\ ~ TopKept(x, e, c, y)
      BY <1>2, <3>3
    <3> QED BY <3>1, <3>2, <3>3
  <2> QED BY <2>1 DEF MapOk
<1>4. Drawable(m, c) /\ h2 <= Top(m, c)
  <2>1. Placed(m) /\ Named(m) /\ Based(m, c) /\ Top(m, c) = Top(e, c)
    BY <1>1, SameSeen
  <2> QED BY <1>1, <1>3, <2>1 DEF Drawable
<1>5. /\ SameSheets(m, z) /\ Drawable(z, c)
      /\ \A y \in Rows : RowOk(m, y) \/ PaintedRow(m, c, rows, h1, h2, y) => RowOk(z, y)
  BY <1>1a, <1>4, Redrawn
<1>6. SameSheets(e, z)
  BY <1>1, <1>5 DEF SameSheets
<1>7. ASSUME NEW y \in Rows, PaintedRow(e, c, rows, h1, h2, y)
      PROVE  RowOk(z, y)
  <2>1. m.height = e.height
    BY <1>1 DEF SameSheets
  <2>2. \A t : Paints(m, c, y, t) <=> Paints(e, c, y, t)
    BY <1>1, SameSeen
  <2>3. PaintedRow(m, c, rows, h1, h2, y)
    BY <1>7, <2>1, <2>2 DEF PaintedRow
  <2> QED BY <1>5, <2>3
<1>8. ASSUME NEW y \in Rows, TopKept(x, e, c, y), GlassKept(x, e, c, y), RowOk(x, y)
      PROVE  RowOk(z, y)
  <2>1. RowOk(e, y)
    BY <1>8, ChangedRows
  <2>2. RowOk(m, y)
    BY <1>1, <2>1, RowSame
  <2> QED BY <1>5, <2>2
<1> QED BY <1>5, <1>6, <1>7, <1>8

-----------------------------------------------------------------------------
\* Stacks and heights.

(* Everything but stacks, heights and the table of ids stays. *)
SameRest(x, e) ==
  /\ e.map = x.map /\ e.vram = x.vram
  /\ e.ctl = x.ctl /\ e.y = x.y /\ e.buf = x.buf /\ e.used = x.used

(* From lo to hi the places of stack q number the sheets as H says. *)
NumbersTo(q, lo, hi, H, K) ==
  \A t \in Sheets :
    /\ \A h \in lo .. hi : q[h + 1] = t => H[t] = h
    /\ (\A h \in lo .. hi : q[h + 1] # t) => H[t] = K[t]

(* The loops of sheet_updown that write the heights. *)
LEMMA NumberedIs ==
  ASSUME NEW x, Typed(x), NEW c \in Ctls, NEW lo \in Int, NEW hi \in Int,
         NEW H \in [Sheets -> Int], NumbersTo(x.stack[c], lo, hi, H, x.height),
         NEW e, e = Numbered(x, c, lo, hi)
  PROVE  Typed(e) /\ SameRest(x, e) /\ e.stack = x.stack /\ e.height = H /\ e.sid = x.sid /\ e.id = x.id
<1> DEFINE v == [s \in Sheets |-> IF \E h \in lo .. hi : At(x, c, h) = s
                                  THEN CHOOSE h \in lo .. hi : At(x, c, h) = s ELSE x.height[s]]
<1>1. e = [x EXCEPT !.height = v] /\ Desk(x)
  BY DEF Numbered, Typed
<1>2. v = H
  <2>1. ASSUME NEW s \in Sheets
        PROVE  v[s] = H[s]
    <3>1. CASE \E h \in lo .. hi : At(x, c, h) = s
      <4>1. v[s] = CHOOSE h \in lo .. hi : At(x, c, h) = s
        BY <3>1
      <4>2. v[s] \in lo .. hi /\ At(x, c, v[s]) = s
        BY <3>1, <4>1
      <4> QED BY <4>2 DEF NumbersTo, At
    <3>2. CASE ~ \E h \in lo .. hi : At(x, c, h) = s
      <4>1. \A h \in lo .. hi : x.stack[c][h + 1] # s
        BY <3>2 DEF At
      <4>2. H[s] = x.height[s]
        BY <4>1 DEF NumbersTo
      <4> QED BY <3>2, <4>2
    <3> QED BY <3>1, <3>2
  <2>2. DOMAIN v = Sheets /\ v = [s \in Sheets |-> v[s]]
    OBVIOUS
  <2> HIDE DEF v
  <2> QED BY <2>1, <2>2
<1> HIDE DEF v
<1>3. /\ Desk(e) /\ e.height = v /\ e.map = x.map /\ e.vram = x.vram
      /\ e.stack = x.stack /\ e.sid = x.sid /\ e.id = x.id
      /\ e.ctl = x.ctl /\ e.y = x.y /\ e.buf = x.buf /\ e.used = x.used
  BY <1>1 DEF Desk, Keys
<1> QED BY <1>2, <1>3 DEF Typed, SameRest

(* The stack of c is q and the heights are H. *)
Restacked(x, e, c, q, H) ==
  /\ Typed(e) /\ SameRest(x, e)
  /\ e.stack[c] = q /\ \A b \in Ctls : b # c => e.stack[b] = x.stack[b]
  /\ e.height = H

(* Stack q and heights H name the same places on desktop c. *)
Fits(x, c, q, H) ==
  /\ q \in Seq(Sheets)
  /\ \A k \in 1 .. Len(q) : H[q[k]] = k - 1 /\ x.ctl[q[k]] = c
  /\ \A t \in Sheets :
       /\ H[t] >= -1
       /\ H[t] >= 0 /\ x.ctl[t] = c => H[t] + 1 \in 1 .. Len(q) /\ q[H[t] + 1] = t
       /\ x.ctl[t] # c => H[t] = x.height[t]

(* A stack and heights that fit keep every sheet in its place. *)
LEMMA FitsPlaced ==
  ASSUME NEW x, Typed(x), Placed(x), NEW c \in Ctls, NEW q, NEW H, NEW e,
         Restacked(x, e, c, q, H), Fits(x, c, q, H)
  PROVE  Placed(e)
<1>1. e.height = H /\ e.ctl = x.ctl /\ e.stack[c] = q
  BY DEF Restacked, SameRest
<1>2. ASSUME NEW b \in Ctls, NEW k \in 1 .. Len(e.stack[b])
      PROVE  H[e.stack[b][k]] = k - 1 /\ x.ctl[e.stack[b][k]] = b
  <2>1. CASE b = c
    BY <1>1, <1>2, <2>1 DEF Fits
  <2>2. CASE b # c
    <3>1. e.stack[b] = x.stack[b] /\ x.stack[b] \in Seq(Sheets)
      BY <2>2 DEF Restacked, Typed
    <3>2. x.height[x.stack[b][k]] = k - 1 /\ x.ctl[x.stack[b][k]] = b /\ x.stack[b][k] \in Sheets
      BY <1>2, <3>1 DEF Placed
    <3>3. H[x.stack[b][k]] = k - 1
      BY <2>2, <3>2 DEF Fits
    <3> QED BY <3>1, <3>2, <3>3
  <2> QED BY <2>1, <2>2
<1>3. ASSUME NEW t \in Sheets
      PROVE  /\ H[t] >= -1
             /\ H[t] >= 0 => H[t] + 1 \in 1 .. Len(e.stack[x.ctl[t]]) /\ e.stack[x.ctl[t]][H[t] + 1] = t
  <2>1. H[t] >= -1
    BY DEF Fits
  <2>2. CASE x.ctl[t] = c
    BY <1>1, <2>1, <2>2 DEF Fits
  <2>3. CASE x.ctl[t] # c
    <3>1. e.stack[x.ctl[t]] = x.stack[x.ctl[t]]
      BY <2>3 DEF Restacked, Typed
    <3>2. H[t] = x.height[t]
      BY <2>3 DEF Fits
    <3> QED BY <2>1, <3>1, <3>2 DEF Placed
  <2> QED BY <2>2, <2>3
<1> QED BY <1>1, <1>2, <1>3 DEF Placed

-----------------------------------------------------------------------------
\* A sheet goes up or down.

(* Sheet s goes from height old to height h: the sheets between give way. *)
ShiftPlace(k, old, h) ==
  IF old < k /\ k <= h THEN k - 1 ELSE IF h <= k /\ k < old THEN k + 1 ELSE k
ShiftHeights(x, c, s, h) ==
  [t \in Sheets |-> IF t = s THEN h
                    ELSE IF On(x, c, t) THEN ShiftPlace(x.height[t], x.height[s], h)
                    ELSE x.height[t]]
ShiftStack(x, c, s, h) == InsertAt(RemoveAt(x.stack[c], x.height[s] + 1), h + 1, s)

(* What is at each height after s went to h. *)
LEMMA ShiftedStack ==
  ASSUME NEW x, Typed(x), Placed(x), NEW c \in Ctls, NEW s \in Sheets, On(x, c, s),
         NEW h \in 0 .. Top(x, c)
  PROVE  /\ ShiftStack(x, c, s, h) \in Seq(Sheets)
         /\ Len(ShiftStack(x, c, s, h)) = Top(x, c) + 1
         /\ \A p \in 0 .. Top(x, c) :
              ShiftStack(x, c, s, h)[p + 1] =
                IF p = h THEN s
                ELSE IF p < h /\ p >= x.height[s] THEN At(x, c, p + 1)
                ELSE IF p > h /\ p <= x.height[s] THEN At(x, c, p - 1)
                ELSE At(x, c, p)
<1> DEFINE st == x.stack[c]
           n == Top(x, c) + 1
           o == x.height[s]
           r == RemoveAt(st, o + 1)
           q == ShiftStack(x, c, s, h)
<1>1. st \in Seq(Sheets) /\ Len(st) = n /\ n \in Nat /\ Top(x, c) = n - 1
  <2>1. st \in Seq(Sheets)
    BY DEF Typed
  <2>2. n \in Nat /\ n = Len(st)
    BY Places
  <2> QED BY <2>1, <2>2 DEF Top
<1>2. o \in 0 .. n - 1 /\ h \in 0 .. n - 1
  BY <1>1, Places
<1>3. q = InsertAt(r, h + 1, s)
  BY DEF ShiftStack
<1> HIDE DEF st, n, o, q
<1>4. o + 1 \in 1 .. Len(st)
  BY <1>1, <1>2
<1>5. r \in Seq(Sheets) /\ Len(r) = n - 1
      /\ \A k \in 1 .. n - 1 : r[k] = IF k < o + 1 THEN st[k] ELSE st[k + 1]
  <2>1. /\ r \in Seq(Sheets) /\ Len(r) = Len(st) - 1
        /\ \A k \in 1 .. Len(st) - 1 : r[k] = IF k < o + 1 THEN st[k] ELSE st[k + 1]
    BY <1>1, <1>4, Removed
  <2> QED BY <1>1, <2>1
<1> HIDE DEF r
<1>6. h + 1 \in 1 .. Len(r) + 1
  BY <1>1, <1>2, <1>5
<1>7. /\ q \in Seq(Sheets) /\ Len(q) = n
      /\ \A k \in 1 .. n : q[k] = IF k < h + 1 THEN r[k] ELSE IF k = h + 1 THEN s ELSE r[k - 1]
  <2> DEFINE i == h + 1
             w == InsertAt(r, i, s)
  <2>0. i \in 1 .. Len(r) + 1
    BY <1>6
  <2> HIDE DEF i
  <2>1. /\ w \in Seq(Sheets) /\ Len(w) = Len(r) + 1
        /\ \A k \in 1 .. Len(r) + 1 : w[k] = IF k < i THEN r[k] ELSE IF k = i THEN s ELSE r[k - 1]
    <3>1. w \in Seq(Sheets)
      BY <1>5, <2>0, Inserted
    <3>2. Len(w) = Len(r) + 1
      BY <1>5, <2>0, Inserted
    <3>0. r \in Seq(Sheets)
      BY <1>5
    <3>3. ASSUME NEW k \in 1 .. Len(r) + 1
          PROVE  InsertAt(r, i, s)[k] = IF k < i THEN r[k] ELSE IF k = i THEN s ELSE r[k - 1]
      BY <2>0, <3>0, Inserted
    <3> QED BY <3>1, <3>2, <3>3
  <2>1a. q = w
    BY <1>3 DEF i
    <2>2. Len(r) + 1 = n
    BY <1>1, <1>5
  <2> QED BY <2>1, <2>1a, <2>2 DEF i
<1>8. \A p \in Int : At(x, c, p) = st[p + 1]
  BY DEF At, st
<1>9. ASSUME NEW p \in 0 .. n - 1
      PROVE  q[p + 1] = IF p = h THEN s
                        ELSE IF p < h /\ p >= o THEN At(x, c, p + 1)
                        ELSE IF p > h /\ p <= o THEN At(x, c, p - 1)
                        ELSE At(x, c, p)
  <2>0. p + 1 \in 1 .. n /\ p \in Int /\ (p - 1) + 1 = p /\ (p + 1) - 1 = p
    BY <1>1
  <2>1. CASE p = h
    BY <1>2, <1>7, <2>0, <2>1
  <2>2. CASE p < h
    <3>1. p + 1 \in 1 .. n - 1 /\ p + 1 < h + 1 /\ p # h /\ ~ (p > h)
      BY <1>1, <1>2, <2>2
    <3>2. q[p + 1] = r[p + 1]
      BY <1>7, <2>0, <3>1
    <3>3. CASE p >= o
      <4>1. ~ (p + 1 < o + 1)
        BY <1>2, <3>3
      <4>2. r[p + 1] = st[(p + 1) + 1]
        BY <1>5, <3>1, <4>1
      <4> QED BY <1>8, <2>2, <3>1, <3>2, <3>3, <4>2
    <3>4. CASE ~ (p >= o)
      <4>1. p + 1 < o + 1
        BY <1>2, <3>4
      <4>2. r[p + 1] = st[p + 1]
        BY <1>5, <3>1, <4>1
      <4> QED BY <1>8, <3>1, <3>2, <3>4, <4>2
    <3> QED BY <3>3, <3>4
  <2>3. CASE p > h
    <3>1. p \in 1 .. n - 1 /\ ~ (p + 1 < h + 1) /\ ~ (p + 1 = h + 1) /\ p # h /\ ~ (p < h)
      BY <1>1, <1>2, <2>3
    <3>2. q[p + 1] = r[p]
      <4>1. q[p + 1] = r[(p + 1) - 1]
        BY <1>7, <2>0, <3>1
      <4> QED BY <2>0, <4>1
    <3>3. CASE p <= o
      <4>1. p < o + 1
        BY <1>2, <3>3
      <4>2. r[p] = st[(p - 1) + 1]
        BY <1>5, <2>0, <3>1, <4>1
      <4> QED BY <1>8, <2>0, <2>3, <3>1, <3>2, <3>3, <4>2
    <3>4. CASE ~ (p <= o)
      <4>1. ~ (p < o + 1)
        BY <1>2, <3>4
      <4>2. r[p] = st[p + 1]
        BY <1>5, <3>1, <4>1
      <4> QED BY <1>8, <3>1, <3>2, <3>4, <4>2
    <3> QED BY <3>3, <3>4
  <2> QED BY <1>2, <2>0, <2>1, <2>2, <2>3
<1> QED BY <1>1, <1>7, <1>9 DEF n, o, q

(* The new stack and the new heights fit. *)
LEMMA ShiftFits ==
  ASSUME NEW x, Typed(x), Placed(x), NEW c \in Ctls, NEW s \in Sheets, On(x, c, s),
         NEW h \in 0 .. Top(x, c)
  PROVE  /\ ShiftHeights(x, c, s, h) \in [Sheets -> Int]
         /\ Fits(x, c, ShiftStack(x, c, s, h), ShiftHeights(x, c, s, h))
<1> DEFINE n == Top(x, c) + 1
           o == x.height[s]
           q == ShiftStack(x, c, s, h)
           H == ShiftHeights(x, c, s, h)
<1>1. n \in Nat /\ Top(x, c) = n - 1
  <2>1. n \in Nat
    BY Places
  <2> QED BY <2>1 DEF Top
<1>2. o \in 0 .. n - 1 /\ h \in 0 .. n - 1 /\ At(x, c, o) = s
  BY <1>1, Places
<1>3. /\ q \in Seq(Sheets) /\ Len(q) = n
      /\ \A p \in 0 .. n - 1 :
              q[p + 1] = IF p = h THEN s
                         ELSE IF p < h /\ p >= o THEN At(x, c, p + 1)
                         ELSE IF p > h /\ p <= o THEN At(x, c, p - 1)
                         ELSE At(x, c, p)
  BY <1>1, ShiftedStack
<1>4. /\ \A p \in 0 .. n - 1 : On(x, c, At(x, c, p)) /\ x.height[At(x, c, p)] = p /\ At(x, c, p) \in Sheets
      /\ \A t \in Sheets : On(x, c, t) => x.height[t] \in 0 .. n - 1 /\ At(x, c, x.height[t]) = t
  BY <1>1, Places
<1>5. \A t \in Sheets : H[t] = IF t = s THEN h
                               ELSE IF On(x, c, t) THEN ShiftPlace(x.height[t], o, h)
                               ELSE x.height[t]
  BY DEF ShiftHeights
<1>6. H = [t \in Sheets |-> H[t]] /\ \A t \in Sheets : x.height[t] \in Int /\ x.height[t] >= -1
  BY DEF ShiftHeights, Typed, Placed
<1> HIDE DEF n, o, q, H
<1>7. \A t \in Sheets : On(x, c, t) /\ t # s => x.height[t] # o
  BY <1>2, <1>4
<1>8. ASSUME NEW t \in Sheets
      PROVE  H[t] \in Int /\ H[t] >= -1
  BY <1>1, <1>2, <1>4, <1>5, <1>6 DEF ShiftPlace
<1>9. ASSUME NEW p \in 0 .. n - 1
      PROVE  H[q[p + 1]] = p /\ x.ctl[q[p + 1]] = c
  <2>1. CASE p = h
    BY <1>3, <1>5, <2>1 DEF On
  <2>2. CASE p < h /\ p >= o
    <3> DEFINE t == At(x, c, p + 1)
    <3>1. p + 1 \in 0 .. n - 1 /\ p # h
      BY <1>1, <1>2, <2>2
    <3>2. q[p + 1] = t
      BY <1>3, <2>2, <3>1
    <3>3. t \in Sheets /\ On(x, c, t) /\ x.height[t] = p + 1
      BY <1>4, <3>1
    <3>4. t # s
      BY <1>1, <1>2, <2>2, <3>3 DEF o
    <3>5. H[t] = ShiftPlace(p + 1, o, h)
      BY <1>5, <3>3, <3>4
    <3> HIDE DEF t
    <3>6. ShiftPlace(p + 1, o, h) = p
      BY <1>1, <1>2, <2>2 DEF ShiftPlace
    <3> QED BY <3>2, <3>3, <3>5, <3>6 DEF On
  <2>3. CASE p > h /\ p <= o
    <3> DEFINE t == At(x, c, p - 1)
    <3>1. p - 1 \in 0 .. n - 1 /\ p # h /\ ~ (p < h)
      BY <1>1, <1>2, <2>3
    <3>2. q[p + 1] = t
      BY <1>3, <2>3, <3>1
    <3>3. t \in Sheets /\ On(x, c, t) /\ x.height[t] = p - 1
      BY <1>4, <3>1
    <3>4. t # s
      BY <1>1, <1>2, <2>3, <3>3 DEF o
    <3>5. H[t] = ShiftPlace(p - 1, o, h)
      BY <1>5, <3>3, <3>4
    <3> HIDE DEF t
    <3>6. ShiftPlace(p - 1, o, h) = p
      BY <1>1, <1>2, <2>3 DEF ShiftPlace
    <3> QED BY <3>2, <3>3, <3>5, <3>6 DEF On
  <2>4. CASE p # h /\ ~ (p < h /\ p >= o) /\ ~ (p > h /\ p <= o)
    <3> DEFINE t == At(x, c, p)
    <3>2. q[p + 1] = t
      BY <1>3, <2>4
    <3>3. t \in Sheets /\ On(x, c, t) /\ x.height[t] = p
      BY <1>4
    <3>4. p # o
      BY <1>1, <1>2, <2>4
    <3>4a. t # s
      BY <3>3, <3>4 DEF o
    <3>5. H[t] = ShiftPlace(p, o, h)
      BY <1>5, <3>3, <3>4a
    <3> HIDE DEF t
    <3>6. ShiftPlace(p, o, h) = p
      BY <1>1, <1>2, <2>4 DEF ShiftPlace
    <3> QED BY <3>2, <3>3, <3>5, <3>6 DEF On
  <2> QED BY <1>1, <1>2, <2>1, <2>2, <2>3, <2>4
<1>10. ASSUME NEW t \in Sheets, H[t] >= 0, x.ctl[t] = c
       PROVE  H[t] + 1 \in 1 .. n /\ q[H[t] + 1] = t
  <2>1. CASE t = s
    BY <1>1, <1>2, <1>3, <1>5, <2>1
  <2>2. CASE t # s
    <3> DEFINE k == x.height[t]
               p == H[t]
    <3>1. On(x, c, t)
      BY <1>5, <1>6, <1>10, <2>2 DEF On
    <3>2. k \in 0 .. n - 1 /\ At(x, c, k) = t /\ k # o
      BY <1>4, <1>7, <2>2, <3>1
    <3>3. p = ShiftPlace(k, o, h)
      BY <1>5, <2>2, <3>1
    <3> HIDE DEF k, p
    <3>4. CASE o < k /\ k <= h
      <4>1. p = k - 1
        BY <3>3, <3>4 DEF ShiftPlace
      <4>2. p \in 0 .. n - 1 /\ p < h /\ p >= o /\ p # h /\ p + 1 = k
        BY <1>1, <1>2, <3>2, <3>4, <4>1
      <4>3. q[p + 1] = At(x, c, k)
        BY <1>3, <4>2
      <4> QED BY <1>1, <3>2, <4>2, <4>3 DEF p
    <3>5. CASE h <= k /\ k < o
      <4>1. p = k + 1
        BY <1>1, <1>2, <3>2, <3>3, <3>5 DEF ShiftPlace
      <4>2. p \in 0 .. n - 1 /\ p > h /\ p <= o /\ p # h /\ ~ (p < h) /\ p - 1 = k
        BY <1>1, <1>2, <3>2, <3>5, <4>1
      <4>3. q[p + 1] = At(x, c, k)
        BY <1>3, <4>2
      <4> QED BY <1>1, <3>2, <4>2, <4>3 DEF p
    <3>6. CASE ~ (o < k /\ k <= h) /\ ~ (h <= k /\ k < o)
      <4>1. p = k
        BY <3>3, <3>6 DEF ShiftPlace
      <4>2. p \in 0 .. n - 1 /\ p # h /\ ~ (p < h /\ p >= o) /\ ~ (p > h /\ p <= o)
        BY <1>1, <1>2, <3>2, <3>6, <4>1
      <4>3. q[p + 1] = At(x, c, k)
        BY <1>3, <4>1, <4>2
      <4> QED BY <1>1, <3>2, <4>2, <4>3 DEF p
    <3> QED BY <3>4, <3>5, <3>6
  <2> QED BY <2>1, <2>2
<1>11. H \in [Sheets -> Int]
  BY <1>6, <1>8
<1>12. ASSUME NEW t \in Sheets, x.ctl[t] # c
       PROVE  H[t] = x.height[t]
  <2>1. ~ On(x, c, t) /\ t # s
    BY <1>12 DEF On
  <2> QED BY <1>5, <2>1
<1>13. ASSUME NEW k \in 1 .. Len(q)
       PROVE  H[q[k]] = k - 1 /\ x.ctl[q[k]] = c
  <2> DEFINE p == k - 1
  <2>1. p \in 0 .. n - 1 /\ p + 1 = k
    BY <1>1, <1>3
  <2> HIDE DEF p
  <2>2. H[q[p + 1]] = p /\ x.ctl[q[p + 1]] = c
    BY <1>9, <2>1
  <2> QED BY <2>1, <2>2 DEF p
<1>14. Fits(x, c, q, H)
  BY <1>3, <1>8, <1>10, <1>12, <1>13 DEF Fits
<1> QED BY <1>11, <1>14 DEF q, H

(* The sheets of e are those of x after s went to height h of desktop c. *)
Shifted(x, e, s, c, h) ==
  /\ Restacked(x, e, c, ShiftStack(x, c, s, h), ShiftHeights(x, c, s, h))
  /\ e.sid = x.sid /\ e.id = x.id

(* The place of every sheet after s went to height h. *)
LEMMA ShiftedPlaces ==
  ASSUME NEW x, Typed(x), Placed(x), NEW c \in Ctls, NEW s \in Sheets, On(x, c, s),
         NEW h \in 0 .. Top(x, c), NEW e, Shifted(x, e, s, c, h)
  PROVE  /\ Typed(e) /\ Placed(e) /\ Top(e, c) = Top(x, c) /\ On(e, c, s) /\ e.height[s] = h
         /\ e.y = x.y /\ e.buf = x.buf /\ e.ctl = x.ctl /\ e.id = x.id /\ e.sid = x.sid
         /\ e.map = x.map /\ e.vram = x.vram /\ e.used = x.used
         /\ \A b \in Ctls, t \in Sheets : On(e, b, t) <=> On(x, b, t)
         /\ \A t \in Sheets : t # s /\ On(x, c, t) =>
              /\ x.height[t] \in 0 .. Top(x, c) /\ x.height[t] # x.height[s]
              /\ e.height[t] = ShiftPlace(x.height[t], x.height[s], h)
         /\ \A t \in Sheets : ~ On(x, c, t) => e.height[t] = x.height[t]
<1> DEFINE H == ShiftHeights(x, c, s, h)
           q == ShiftStack(x, c, s, h)
<1>1. Fits(x, c, q, H) /\ Len(q) = Top(x, c) + 1
  BY ShiftFits, ShiftedStack
<1>2. Restacked(x, e, c, q, H)
  BY DEF Shifted
<1> HIDE DEF q, H
<1>3. Placed(e)
  BY <1>1, <1>2, FitsPlaced
<1>4. Typed(e) /\ e.height = H /\ e.stack[c] = q /\ SameRest(x, e)
  BY <1>2 DEF Restacked
<1>5. Top(e, c) = Top(x, c)
  <2>1. Top(x, c) + 1 \in Nat
    BY Places
  <2>2. x.stack[c] \in Seq(Sheets)
    BY DEF Typed
  <2> QED BY <1>1, <1>4, <2>1, <2>2 DEF Top
<1>6. \A t \in Sheets : H[t] = IF t = s THEN h
                               ELSE IF On(x, c, t) THEN ShiftPlace(x.height[t], x.height[s], h)
                               ELSE x.height[t]
  BY DEF H, ShiftHeights
<1>7. ASSUME NEW t \in Sheets, t # s, On(x, c, t)
      PROVE  /\ x.height[t] \in 0 .. Top(x, c) /\ x.height[t] # x.height[s]
             /\ e.height[t] = ShiftPlace(x.height[t], x.height[s], h)
             /\ e.height[t] >= 0
  <2>1. x.height[t] \in 0 .. Top(x, c) /\ x.height[s] \in 0 .. Top(x, c)
    BY <1>7, Places
  <2>2. x.height[t] # x.height[s]
    BY <1>7, SameHeight
  <2>3. e.height[t] = ShiftPlace(x.height[t], x.height[s], h)
    BY <1>4, <1>6, <1>7
  <2> QED BY <2>1, <2>2, <2>3 DEF ShiftPlace
<1>8. ASSUME NEW t \in Sheets, ~ On(x, c, t)
      PROVE  e.height[t] = x.height[t]
  BY <1>4, <1>6, <1>8
<1>9. e.height[s] = h /\ h >= 0 /\ x.height[s] >= 0 /\ x.ctl[s] = c
  BY <1>4, <1>6 DEF On
<1>10. \A b \in Ctls, t \in Sheets : On(e, b, t) <=> On(x, b, t)
  <2>1. ASSUME NEW t \in Sheets
        PROVE  e.height[t] >= 0 <=> x.height[t] >= 0
    BY <1>7, <1>8, <1>9 DEF On
  <2> QED BY <1>4, <2>1 DEF On, SameRest
<1>11. On(e, c, s)
  BY <1>10
<1> QED BY <1>3, <1>4, <1>5, <1>7, <1>8, <1>9, <1>10, <1>11 DEF SameRest, Shifted

(* Only s changes its order with the others. *)
LEMMA ShiftedMoves ==
  ASSUME NEW x, Typed(x), Placed(x), NEW c \in Ctls, NEW s \in Sheets, On(x, c, s),
         NEW h \in 0 .. Top(x, c), NEW e, Shifted(x, e, s, c, h)
  PROVE  /\ Moved(x, e, s, c)
         /\ Named(x) => Named(e)
         /\ \A b \in Ctls : Based(x, b) => Based(e, b)
         /\ \A y : \A t \in Sheets : Cell(e, t, y) = Cell(x, t, y) /\ (Covers(e, t, y) <=> Covers(x, t, y))
<1>1. /\ e.y = x.y /\ e.buf = x.buf /\ e.ctl = x.ctl /\ e.id = x.id /\ e.sid = x.sid
      /\ \A b \in Ctls, t \in Sheets : On(e, b, t) <=> On(x, b, t)
      /\ \A t \in Sheets : t # s /\ On(x, c, t) =>
              /\ x.height[t] \in 0 .. Top(x, c) /\ x.height[t] # x.height[s]
              /\ e.height[t] = ShiftPlace(x.height[t], x.height[s], h)
      /\ \A t \in Sheets : ~ On(x, c, t) => e.height[t] = x.height[t]
  BY ShiftedPlaces
<1>2. x.ctl \in [Sheets -> Ctls] /\ x.ctl[s] = c /\ x.height[s] \in 0 .. Top(x, c)
  BY Places DEF On, Typed
<1>3. \A t \in Sheets : x.height[t] >= 0 <=> e.height[t] >= 0
  BY <1>1, <1>2 DEF On
<1>4. Others(x, e, s)
  BY <1>1, <1>3 DEF Others
<1>5. ASSUME NEW t \in Sheets, NEW u \in Sheets, t # s, u # s
      PROVE  /\ On(x, c, t) /\ On(x, c, u) => (x.height[t] < x.height[u] <=> e.height[t] < e.height[u])
             /\ x.ctl[t] # c => e.height[t] = x.height[t]
  <2>1. CASE On(x, c, t) /\ On(x, c, u)
    <3> DEFINE k == x.height[t]
               l == x.height[u]
               o == x.height[s]
    <3>1. /\ k \in 0 .. Top(x, c) /\ l \in 0 .. Top(x, c) /\ o \in 0 .. Top(x, c) /\ k # o /\ l # o
          /\ e.height[t] = ShiftPlace(k, o, h) /\ e.height[u] = ShiftPlace(l, o, h)
      BY <1>1, <1>2, <1>5, <2>1
    <3> HIDE DEF k, l, o
    <3>2. k < l <=> ShiftPlace(k, o, h) < ShiftPlace(l, o, h)
      BY <3>1 DEF ShiftPlace
    <3> QED BY <2>1, <3>1, <3>2 DEF k, l, On
  <2>2. x.ctl[t] # c => e.height[t] = x.height[t]
    BY <1>1 DEF On
  <2> QED BY <2>1, <2>2
<1>6. Moved(x, e, s, c)
  BY <1>1, <1>2, <1>4, <1>5 DEF Moved, Ordered, On
<1>7. Named(x) => Named(e)
  BY <1>1, <1>3 DEF Named
<1>8. \A y : \A t \in Sheets : Cell(e, t, y) = Cell(x, t, y) /\ (Covers(e, t, y) <=> Covers(x, t, y))
  BY <1>1 DEF Cell, Covers
<1>9. \A b \in Ctls : Based(x, b) => Based(e, b)
  BY <1>1, <1>8 DEF Based, OpaqueIn
<1> QED BY <1>6, <1>7, <1>8, <1>9

(* What a raise or a lowering leaves, drawn. *)
ShiftDone(x, z, s, c, h) ==
  /\ Drawable(z, c) /\ Top(z, c) = Top(x, c)
  /\ \A b \in Ctls : b # c => z.stack[b] = x.stack[b]
  /\ z.height = ShiftHeights(x, c, s, h)
  /\ z.sid = x.sid /\ z.id = x.id /\ z.ctl = x.ctl /\ z.y = x.y /\ z.buf = x.buf /\ z.used = x.used
  /\ \A y \in Rows : RowOk(x, y) => RowOk(z, y)

(* A refresh after the shift leaves that. *)
LEMMA ShiftDoneIs ==
  ASSUME NEW x, Typed(x), Placed(x), NEW c \in Ctls, NEW s \in Sheets, On(x, c, s),
         NEW h \in 0 .. Top(x, c), NEW e, Shifted(x, e, s, c, h),
         NEW z, SameSheets(e, z), Drawable(z, c), \A y \in Rows : RowOk(x, y) => RowOk(z, y)
  PROVE  ShiftDone(x, z, s, c, h)
<1>1. /\ Top(e, c) = Top(x, c) /\ e.y = x.y /\ e.buf = x.buf /\ e.ctl = x.ctl
      /\ e.id = x.id /\ e.sid = x.sid /\ e.used = x.used
  BY ShiftedPlaces
<1>2. e.height = ShiftHeights(x, c, s, h) /\ \A b \in Ctls : b # c => e.stack[b] = x.stack[b]
  BY DEF Shifted, Restacked
<1>3. Top(z, c) = Top(e, c)
  BY SameSeen
<1> QED BY <1>1, <1>2, <1>3 DEF ShiftDone, SameSheets

-----------------------------------------------------------------------------

(* sheet_updown to a greater height: drawing s alone is enough. *)
LEMMA RaiseIs ==
  ASSUME NEW x, NEW c \in Ctls, Drawable(x, c), NEW s \in Sheets, On(x, c, s),
         NEW h \in 0 .. Top(x, c), x.height[s] < h
  PROVE  ShiftDone(x, Raise(x, s, x.height[s], h), s, c, h)
<1> DEFINE o == x.height[s]
           q == ShiftStack(x, c, s, h)
           H == ShiftHeights(x, c, s, h)
           e0 == [x EXCEPT !.stack[c] = InsertAt(RemoveAt(@, o + 1), h + 1, s), !.height[s] = h]
           e == Numbered(e0, c, o, h - 1)
           z == Raise(x, s, o, h)
<1>0. Typed(x) /\ Placed(x) /\ Named(x) /\ Based(x, c) /\ MapOk(x) /\ Desk(x)
  BY DEF Drawable, Typed
<1>1. o \in 0 .. Top(x, c) /\ Top(x, c) \in Int /\ x.ctl[s] = c
  <2>1. o \in 0 .. Top(x, c)
    BY <1>0, Places
  <2>2. x.stack[c] \in Seq(Sheets)
    BY <1>0 DEF Typed
  <2> QED BY <2>1, <2>2 DEF Top, On
<1>2. z = Drawn(e, s)
  BY <1>1 DEF Raise
<1>3. /\ q \in Seq(Sheets) /\ H \in [Sheets -> Int]
      /\ \A p \in 0 .. Top(x, c) :
           q[p + 1] = IF p = h THEN s
                      ELSE IF p < h /\ p >= o THEN At(x, c, p + 1)
                      ELSE IF p > h /\ p <= o THEN At(x, c, p - 1)
                      ELSE At(x, c, p)
  BY <1>0, ShiftFits, ShiftedStack
<1>4. \A t \in Sheets : H[t] = IF t = s THEN h
                               ELSE IF On(x, c, t) THEN ShiftPlace(x.height[t], o, h)
                               ELSE x.height[t]
  BY DEF ShiftHeights
<1> DEFINE st == [x.stack EXCEPT ![c] = q]
           K == [x.height EXCEPT ![s] = h]
<1>5. /\ Desk(e0) /\ e0.stack = st /\ e0.height = K
      /\ e0.sid = x.sid /\ e0.map = x.map /\ e0.vram = x.vram
      /\ e0.id = x.id /\ e0.ctl = x.ctl /\ e0.y = x.y /\ e0.buf = x.buf /\ e0.used = x.used
  BY <1>0 DEF Desk, Keys, ShiftStack
<1> HIDE DEF e0, q, H
<1>6. Typed(e0)
  <2>1. e0.stack \in [Ctls -> Seq(Sheets)] /\ e0.height \in [Sheets -> Int]
    <3>1. x.stack \in [Ctls -> Seq(Sheets)] /\ x.height \in [Sheets -> Int] /\ h \in Int
      BY <1>0, <1>1 DEF Typed
    <3> QED BY <1>3, <1>5, <3>1
  <2>2. e0.map = [b \in Ctls |-> [y \in Rows |-> e0.map[b][y]]] /\ e0.vram = [y \in Rows |-> e0.vram[y]]
    BY <1>0, <1>5 DEF Typed
  <2> QED BY <1>0, <1>5, <2>1, <2>2 DEF Typed
<1>7. NumbersTo(e0.stack[c], o, h - 1, H, e0.height)
  <2>1. e0.stack[c] = q /\ \A t \in Sheets : e0.height[t] = IF t = s THEN h ELSE x.height[t]
    BY <1>0, <1>5 DEF Typed
  <2>2. ASSUME NEW p \in o .. h - 1
        PROVE  /\ q[p + 1] = At(x, c, p + 1) /\ On(x, c, q[p + 1]) /\ x.height[q[p + 1]] = p + 1
               /\ q[p + 1] # s
               /\ H[q[p + 1]] = p
    <3>1. p \in 0 .. Top(x, c) /\ p + 1 \in 0 .. Top(x, c) /\ p # h /\ p < h /\ p >= o /\ p + 1 # o
      BY <1>1
    <3>2. q[p + 1] = At(x, c, p + 1)
      BY <1>3, <3>1
    <3> DEFINE t == At(x, c, p + 1)
    <3>3. t \in Sheets /\ On(x, c, t) /\ x.height[t] = p + 1
      BY <1>0, <3>1, Places
    <3>4. t # s
      BY <3>1, <3>3
    <3> HIDE DEF t
    <3>5. H[t] = ShiftPlace(p + 1, o, h)
      BY <1>4, <3>3, <3>4
    <3>6. ShiftPlace(p + 1, o, h) = p
      BY <1>1, <3>1 DEF ShiftPlace
    <3> QED BY <3>2, <3>3, <3>4, <3>5, <3>6 DEF t
  <2>3. ASSUME NEW t \in Sheets, \A p \in o .. h - 1 : q[p + 1] # t
        PROVE  H[t] = e0.height[t]
    <3>1. CASE t = s
      BY <1>4, <2>1, <3>1
    <3>2. CASE t # s /\ ~ On(x, c, t)
      BY <1>4, <2>1, <3>2
    <3>3. CASE t # s /\ On(x, c, t)
      <4> DEFINE k == x.height[t]
      <4>1. k \in 0 .. Top(x, c) /\ At(x, c, k) = t /\ k # o
        BY <1>0, <3>3, Places, SameHeight
      <4>2. ~ (o < k /\ k <= h)
        <5>1. CASE o < k /\ k <= h
          <6>1. k - 1 \in o .. h - 1 /\ (k - 1) + 1 = k
            BY <1>1, <4>1, <5>1
          <6>2. q[(k - 1) + 1] = At(x, c, (k - 1) + 1)
            BY <2>2, <6>1
          <6> QED BY <2>3, <4>1, <6>1, <6>2
        <5> QED BY <5>1
      <4>3. ShiftPlace(k, o, h) = k
        BY <1>1, <4>1, <4>2 DEF ShiftPlace
      <4> QED BY <1>4, <2>1, <3>3, <4>3
    <3> QED BY <3>1, <3>2, <3>3
  <2> QED BY <2>1, <2>2, <2>3 DEF NumbersTo
<1>8. Typed(e) /\ SameRest(e0, e) /\ e.stack = e0.stack /\ e.height = H /\ e.sid = e0.sid /\ e.id = e0.id
  <2>1. o \in Int /\ h - 1 \in Int
    BY <1>1
  <2> HIDE DEF o
  <2> QED BY <1>3, <1>6, <1>7, <2>1, NumberedIs
<1> HIDE DEF e, z
<1>9. Shifted(x, e, s, c, h)
  <2>1. e.stack[c] = q /\ \A b \in Ctls : b # c => e.stack[b] = x.stack[b]
    BY <1>0, <1>5, <1>8 DEF Typed
  <2>2. SameRest(x, e) /\ e.sid = x.sid /\ e.id = x.id
    BY <1>5, <1>8 DEF SameRest
  <2> QED BY <1>8, <2>1, <2>2 DEF Shifted, Restacked, q, H
<1>10. /\ Typed(e) /\ Placed(e) /\ Top(e, c) = Top(x, c) /\ On(e, c, s) /\ e.height[s] = h
       /\ e.y = x.y /\ e.buf = x.buf /\ e.ctl = x.ctl /\ e.id = x.id
       /\ e.map = x.map /\ e.vram = x.vram
       /\ \A t \in Sheets : t # s /\ On(x, c, t) =>
              /\ x.height[t] \in 0 .. Top(x, c) /\ x.height[t] # o
              /\ e.height[t] = ShiftPlace(x.height[t], o, h)
  BY <1>0, <1>9, ShiftedPlaces
<1>11. /\ Moved(x, e, s, c) /\ Named(e) /\ Based(e, c)
       /\ \A y : \A t \in Sheets : Cell(e, t, y) = Cell(x, t, y) /\ (Covers(e, t, y) <=> Covers(x, t, y))
  BY <1>0, <1>9, ShiftedMoves
<1>12. z = Refreshsub(Refreshmap(e, c, Extent(e, s), h), c, Extent(e, s), h, h)
  BY <1>1, <1>2, <1>10 DEF Drawn
(* s only rises, so a row whose topmost sheet is another keeps it. *)
<1>13. ASSUME NEW y \in Rows, NEW w \in Sheets, TopIn(e, c, y, w), w # s
       PROVE  /\ TopIn(x, c, y, w) /\ e.id[w] = x.id[w] /\ Cell(e, w, y) = Cell(x, w, y)
              /\ \A g \in Sheets : g # s /\ GlassOver(x, c, y, w, g) => GlassOver(e, c, y, w, g)
              /\ GlassOver(x, c, y, w, s) => GlassOver(e, c, y, w, s)
  <2>1. On(x, c, w) /\ On(e, c, w)
    BY <1>13, <1>11, OthersSeen DEF TopIn, OpaqueIn
  <2>2. /\ x.height[w] \in 0 .. Top(x, c) /\ x.height[w] # o
        /\ e.height[w] = ShiftPlace(x.height[w], o, h)
    BY <1>10, <1>13, <2>1
  <2>3. OpaqueIn(x, c, y, s) => x.height[s] < x.height[w]
    <3>1. ASSUME OpaqueIn(x, c, y, s)
          PROVE  o < x.height[w]
      <4>1. OpaqueIn(e, c, y, s)
        BY <1>10, <1>11, <3>1 DEF OpaqueIn
      <4>2. h <= e.height[w]
        BY <1>10, <1>13, <4>1 DEF TopIn
      <4> QED BY <1>1, <2>2, <4>2 DEF ShiftPlace
    <3> QED BY <3>1
  <2>4. GlassOver(x, c, y, w, s) => GlassOver(e, c, y, w, s)
    <3>1. ASSUME GlassOver(x, c, y, w, s)
          PROVE  GlassOver(e, c, y, w, s)
      <4>1. o > x.height[w]
        BY <3>1 DEF GlassOver
      <4>2. h > e.height[w]
        BY <1>1, <2>2, <4>1 DEF ShiftPlace
      <4>3. GlassIn(e, c, y, s)
        BY <1>10, <1>11, <3>1 DEF GlassOver, GlassIn
      <4> QED BY <1>10, <4>2, <4>3 DEF GlassOver
    <3> QED BY <3>1
  <2> QED BY <1>0, <1>10, <1>11, <1>13, <2>3, <2>4, KeptOther
<1>14. ASSUME NEW y \in Rows
       PROVE  \/ y \in Extent(e, s) /\ TopIn(e, c, y, s)
              \/ TopKept(x, e, c, y) /\ GlassKept(x, e, c, y)
  <2>1. CASE TopIn(e, c, y, s)
    BY <2>1 DEF TopIn, OpaqueIn, Covers, Extent, Band
  <2>2. CASE ~ TopIn(e, c, y, s)
    <3>1. \A w \in Sheets : TopIn(e, c, y, w) => w # s
      BY <2>2
    <3>2. TopKept(x, e, c, y)
      BY <1>13, <3>1 DEF TopKept
    <3>3. GlassKept(x, e, c, y)
      BY <1>13, <3>1 DEF GlassKept
    <3> QED BY <3>2, <3>3
  <2> QED BY <2>1, <2>2
<1>15. \A y \in Rows :
         \/ TopKept(x, e, c, y)
         \/ y \in Extent(e, s) /\ \E w \in Sheets : TopIn(e, c, y, w) /\ e.height[w] >= h
  <2>1. e.height[s] >= h
    BY <1>10
  <2> QED BY <1>14, <2>1
<1>16. /\ SameSheets(e, z) /\ Drawable(z, c)
       /\ \A y \in Rows :
              \/ PaintedRow(e, c, Extent(e, s), h, h, y)
              \/ TopKept(x, e, c, y) /\ GlassKept(x, e, c, y) /\ RowOk(x, y)
              => RowOk(z, y)
  <2>1. h \in Nat /\ h \in Int /\ h <= Top(e, c)
    BY <1>1, <1>10
  <2> QED BY <1>0, <1>10, <1>11, <1>12, <1>15, <2>1, Redraw
<1>17. ASSUME NEW y \in Rows, RowOk(x, y)
       PROVE  RowOk(z, y)
  <2>1. CASE y \in Extent(e, s) /\ TopIn(e, c, y, s)
    <3>1. Paints(e, c, y, s)
      BY <2>1 DEF Paints
    <3>2. e.height[s] \in h .. h
      BY <1>1, <1>10
    <3> QED BY <1>16, <2>1, <3>1, <3>2 DEF PaintedRow
  <2> QED BY <1>14, <1>16, <1>17, <2>1
<1>18. ShiftDone(x, z, s, c, h)
  BY <1>0, <1>9, <1>16, <1>17, ShiftDoneIs
<1> QED BY <1>18 DEF z

(* The picture at row y is as it was. *)
Kept(x, e, c, y) == TopKept(x, e, c, y) /\ GlassKept(x, e, c, y)
(* Row y is one of rows, and its topmost sheet is at a height from h1 to h2. *)
Repaints(e, c, rows, h1, h2, y) ==
  y \in rows /\ \E w \in Sheets : TopIn(e, c, y, w) /\ e.height[w] \in h1 .. h2

(* A change of s and a refresh from one height, where the rows not painted are kept. *)
LEMMA RedrawKept ==
  ASSUME NEW x, Typed(x), Placed(x), MapOk(x),
         NEW e, Typed(e), Placed(e), Named(e), NEW s \in Sheets, NEW c \in Ctls,
         Moved(x, e, s, c), Based(e, c), e.vram = x.vram, e.map = x.map,
         NEW rows, NEW h1 \in Nat, NEW h2 \in Int, h2 <= Top(e, c), NEW h0 \in Nat, h0 <= h1,
         \A y \in Rows : Repaints(e, c, rows, h1, h2, y) \/ Kept(x, e, c, y),
         NEW z, z = Refreshsub(Refreshmap(e, c, rows, h0), c, rows, h1, h2)
  PROVE  /\ SameSheets(e, z) /\ Drawable(z, c)
         /\ \A y \in Rows : Repaints(e, c, rows, h1, h2, y) \/ RowOk(x, y) => RowOk(z, y)
<1>1. ASSUME NEW y \in Rows, Repaints(e, c, rows, h1, h2, y)
      PROVE  /\ y \in rows /\ \E w \in Sheets : TopIn(e, c, y, w) /\ e.height[w] >= h0
             /\ PaintedRow(e, c, rows, h1, h2, y)
  <2>1. PICK w \in Sheets : TopIn(e, c, y, w) /\ e.height[w] \in h1 .. h2
    BY <1>1 DEF Repaints
  <2>2. e.height[w] >= h0
    BY <2>1
  <2>3. Paints(e, c, y, w)
    BY <2>1 DEF Paints
  <2> QED BY <1>1, <2>1, <2>2, <2>3 DEF Repaints, PaintedRow
<1>2. \A y \in Rows :
        \/ TopKept(x, e, c, y)
        \/ y \in rows /\ \E w \in Sheets : TopIn(e, c, y, w) /\ e.height[w] >= h0
  BY <1>1 DEF Kept
<1>3. /\ SameSheets(e, z) /\ Drawable(z, c)
      /\ \A y \in Rows :
           \/ PaintedRow(e, c, rows, h1, h2, y)
           \/ TopKept(x, e, c, y) /\ GlassKept(x, e, c, y) /\ RowOk(x, y)
           => RowOk(z, y)
  BY <1>2, Redraw
<1> QED BY <1>1, <1>3 DEF Kept

(* sheet_updown to a smaller height: drawing what was above the new height is
   enough. *)
LEMMA LowerIs ==
  ASSUME NEW x, NEW c \in Ctls, Drawable(x, c), NEW s \in Sheets, On(x, c, s),
         NEW h \in 0 .. Top(x, c), h < x.height[s]
  PROVE  ShiftDone(x, Lower(x, s, x.height[s], h), s, c, h)
<1> DEFINE o == x.height[s]
           q == ShiftStack(x, c, s, h)
           H == ShiftHeights(x, c, s, h)
           e0 == [x EXCEPT !.stack[c] = InsertAt(RemoveAt(@, o + 1), h + 1, s), !.height[s] = h]
           e == Numbered(e0, c, h + 1, o)
           z == Lower(x, s, o, h)
<1>0. Typed(x) /\ Placed(x) /\ Named(x) /\ Based(x, c) /\ MapOk(x) /\ Desk(x)
  BY DEF Drawable, Typed
<1>1. o \in 0 .. Top(x, c) /\ Top(x, c) \in Int /\ x.ctl[s] = c
  <2>1. o \in 0 .. Top(x, c)
    BY <1>0, Places
  <2>2. x.stack[c] \in Seq(Sheets)
    BY <1>0 DEF Typed
  <2> QED BY <2>1, <2>2 DEF Top, On
<1>2. z = Refreshsub(Refreshmap(e, c, Extent(e, s), h + 1), c, Extent(e, s), h + 1, o)
  BY <1>1 DEF Lower
<1>3. /\ q \in Seq(Sheets) /\ H \in [Sheets -> Int]
      /\ \A p \in 0 .. Top(x, c) :
           q[p + 1] = IF p = h THEN s
                      ELSE IF p < h /\ p >= o THEN At(x, c, p + 1)
                      ELSE IF p > h /\ p <= o THEN At(x, c, p - 1)
                      ELSE At(x, c, p)
  BY <1>0, ShiftFits, ShiftedStack
<1>4. \A t \in Sheets : H[t] = IF t = s THEN h
                               ELSE IF On(x, c, t) THEN ShiftPlace(x.height[t], o, h)
                               ELSE x.height[t]
  BY DEF ShiftHeights
<1> DEFINE st == [x.stack EXCEPT ![c] = q]
           K == [x.height EXCEPT ![s] = h]
<1>5. /\ Desk(e0) /\ e0.stack = st /\ e0.height = K
      /\ e0.sid = x.sid /\ e0.map = x.map /\ e0.vram = x.vram
      /\ e0.id = x.id /\ e0.ctl = x.ctl /\ e0.y = x.y /\ e0.buf = x.buf /\ e0.used = x.used
  BY <1>0 DEF Desk, Keys, ShiftStack
<1> HIDE DEF e0, q, H
<1>6. Typed(e0)
  <2>1. e0.stack \in [Ctls -> Seq(Sheets)] /\ e0.height \in [Sheets -> Int]
    <3>1. x.stack \in [Ctls -> Seq(Sheets)] /\ x.height \in [Sheets -> Int] /\ h \in Int
      BY <1>0, <1>1 DEF Typed
    <3> QED BY <1>3, <1>5, <3>1
  <2>2. e0.map = [b \in Ctls |-> [y \in Rows |-> e0.map[b][y]]] /\ e0.vram = [y \in Rows |-> e0.vram[y]]
    BY <1>0, <1>5 DEF Typed
  <2> QED BY <1>0, <1>5, <2>1, <2>2 DEF Typed
<1>7. NumbersTo(e0.stack[c], h + 1, o, H, e0.height)
  <2>1. e0.stack[c] = q /\ \A t \in Sheets : e0.height[t] = IF t = s THEN h ELSE x.height[t]
    BY <1>0, <1>5 DEF Typed
  <2>2. ASSUME NEW p \in h + 1 .. o
        PROVE  /\ q[p + 1] = At(x, c, p - 1) /\ On(x, c, q[p + 1]) /\ x.height[q[p + 1]] = p - 1
               /\ q[p + 1] # s
               /\ H[q[p + 1]] = p
    <3>1. p \in 0 .. Top(x, c) /\ p - 1 \in 0 .. Top(x, c) /\ p # h /\ p > h /\ ~ (p < h) /\ p <= o /\ p - 1 # o
      BY <1>1
    <3>2. q[p + 1] = At(x, c, p - 1)
      BY <1>3, <3>1
    <3> DEFINE t == At(x, c, p - 1)
    <3>3. t \in Sheets /\ On(x, c, t) /\ x.height[t] = p - 1
      BY <1>0, <3>1, Places
    <3>4. t # s
      BY <3>1, <3>3
    <3> HIDE DEF t
    <3>5. H[t] = ShiftPlace(p - 1, o, h)
      BY <1>4, <3>3, <3>4
    <3>6. ShiftPlace(p - 1, o, h) = p
      BY <1>1, <3>1 DEF ShiftPlace
    <3> QED BY <3>2, <3>3, <3>4, <3>5, <3>6 DEF t
  <2>3. ASSUME NEW t \in Sheets, \A p \in h + 1 .. o : q[p + 1] # t
        PROVE  H[t] = e0.height[t]
    <3>1. CASE t = s
      BY <1>4, <2>1, <3>1
    <3>2. CASE t # s /\ ~ On(x, c, t)
      BY <1>4, <2>1, <3>2
    <3>3. CASE t # s /\ On(x, c, t)
      <4> DEFINE k == x.height[t]
      <4>1. k \in 0 .. Top(x, c) /\ At(x, c, k) = t /\ k # o
        BY <1>0, <3>3, Places, SameHeight
      <4>2. ~ (h <= k /\ k < o)
        <5>1. CASE h <= k /\ k < o
          <6>1. k + 1 \in h + 1 .. o /\ (k + 1) - 1 = k
            BY <1>1, <4>1, <5>1
          <6>2. q[(k + 1) + 1] = At(x, c, (k + 1) - 1)
            BY <2>2, <6>1
          <6> QED BY <2>3, <4>1, <6>1, <6>2
        <5> QED BY <5>1
      <4>3. ShiftPlace(k, o, h) = k
        BY <1>1, <4>1, <4>2 DEF ShiftPlace
      <4> QED BY <1>4, <2>1, <3>3, <4>3
    <3> QED BY <3>1, <3>2, <3>3
  <2> QED BY <2>1, <2>2, <2>3 DEF NumbersTo
<1>8. Typed(e) /\ SameRest(e0, e) /\ e.stack = e0.stack /\ e.height = H /\ e.sid = e0.sid /\ e.id = e0.id
  <2>1. o \in Int /\ h + 1 \in Int
    BY <1>1
  <2> HIDE DEF o
  <2> QED BY <1>3, <1>6, <1>7, <2>1, NumberedIs
<1> HIDE DEF e, z
<1>9. Shifted(x, e, s, c, h)
  <2>1. e.stack[c] = q /\ \A b \in Ctls : b # c => e.stack[b] = x.stack[b]
    BY <1>0, <1>5, <1>8 DEF Typed
  <2>2. SameRest(x, e) /\ e.sid = x.sid /\ e.id = x.id
    BY <1>5, <1>8 DEF SameRest
  <2> QED BY <1>8, <2>1, <2>2 DEF Shifted, Restacked, q, H
<1>10. /\ Typed(e) /\ Placed(e) /\ Top(e, c) = Top(x, c) /\ On(e, c, s) /\ e.height[s] = h
       /\ e.y = x.y /\ e.buf = x.buf /\ e.ctl = x.ctl /\ e.id = x.id
       /\ e.map = x.map /\ e.vram = x.vram
       /\ \A t \in Sheets : t # s /\ On(x, c, t) =>
              /\ x.height[t] \in 0 .. Top(x, c) /\ x.height[t] # o
              /\ e.height[t] = ShiftPlace(x.height[t], o, h)
  BY <1>0, <1>9, ShiftedPlaces
<1>11. /\ Moved(x, e, s, c) /\ Named(e) /\ Based(e, c)
       /\ \A y : \A t \in Sheets : Cell(e, t, y) = Cell(x, t, y) /\ (Covers(e, t, y) <=> Covers(x, t, y))
  BY <1>0, <1>9, ShiftedMoves
(* A topmost sheet outside the places that are painted has not changed its *)
(* order with s. *)
<1>12. ASSUME NEW y \in Rows, NEW w \in Sheets, TopIn(e, c, y, w), w # s,
              y \in Extent(e, s) => e.height[w] \notin h + 1 .. o
       PROVE  /\ TopIn(x, c, y, w) /\ e.id[w] = x.id[w] /\ Cell(e, w, y) = Cell(x, w, y)
              /\ \A g \in Sheets : g # s /\ GlassOver(x, c, y, w, g) => GlassOver(e, c, y, w, g)
              /\ GlassOver(x, c, y, w, s) => GlassOver(e, c, y, w, s)
  <2>1. On(x, c, w) /\ On(e, c, w)
    BY <1>12, <1>11, OthersSeen DEF TopIn, OpaqueIn
  <2>2. /\ x.height[w] \in 0 .. Top(x, c) /\ x.height[w] # o
        /\ e.height[w] = ShiftPlace(x.height[w], o, h)
    BY <1>10, <1>12, <2>1
  <2>3. Covers(x, s, y) => y \in Extent(e, s)
    BY <1>11 DEF Covers, Extent, Band
  <2>4. ASSUME OpaqueIn(x, c, y, s)
        PROVE  o < x.height[w]
    <3>1. OpaqueIn(e, c, y, s)
      BY <1>10, <1>11, <2>4 DEF OpaqueIn
    <3>2. h <= e.height[w]
      BY <1>10, <1>12, <3>1 DEF TopIn
    <3>3. e.height[w] \notin h + 1 .. o
      BY <1>12, <2>3, <2>4 DEF OpaqueIn
    <3> QED BY <1>1, <2>2, <3>2, <3>3 DEF ShiftPlace
  <2>5. ASSUME GlassOver(x, c, y, w, s)
        PROVE  GlassOver(e, c, y, w, s)
    <3>1. o > x.height[w]
      BY <2>5 DEF GlassOver
    <3>2. e.height[w] \notin h + 1 .. o
      BY <1>12, <2>3, <2>5 DEF GlassOver, GlassIn
    <3>3. h > e.height[w]
      BY <1>1, <2>2, <3>1, <3>2 DEF ShiftPlace
    <3>4. GlassIn(e, c, y, s)
      BY <1>10, <1>11, <2>5 DEF GlassOver, GlassIn
    <3> QED BY <1>10, <3>3, <3>4 DEF GlassOver
  <2> QED BY <1>0, <1>10, <1>11, <1>12, <2>4, <2>5, KeptOther
<1>13. ASSUME NEW y \in Rows, TopIn(e, c, y, s)
       PROVE  Kept(x, e, c, y)
  <2>1. \A t \in Sheets : t # s /\ On(x, c, t) /\ x.height[t] > x.height[s] => e.height[t] > e.height[s]
    BY <1>1, <1>10 DEF ShiftPlace
  <2>2. /\ TopIn(x, c, y, s) /\ e.id[s] = x.id[s] /\ Cell(e, s, y) = Cell(x, s, y)
        /\ \A g \in Sheets : GlassOver(x, c, y, s, g) => GlassOver(e, c, y, s, g)
    BY <1>0, <1>10, <1>11, <1>13, <2>1, KeptSelf
  <2>3. \A w \in Sheets : TopIn(e, c, y, w) => w = s
    BY <1>10, <1>13, OneTop
  <2> QED BY <2>2, <2>3 DEF Kept, TopKept, GlassKept
<1>14. ASSUME NEW y \in Rows
       PROVE  Repaints(e, c, Extent(e, s), h + 1, o, y) \/ Kept(x, e, c, y)
  <2>1. CASE TopIn(e, c, y, s)
    BY <1>13, <2>1
  <2>2. CASE ~ TopIn(e, c, y, s) /\ ~ Repaints(e, c, Extent(e, s), h + 1, o, y)
    <3>1. \A w \in Sheets : TopIn(e, c, y, w) =>
            w # s /\ (y \in Extent(e, s) => e.height[w] \notin h + 1 .. o)
      BY <2>2 DEF Repaints
    <3> QED BY <1>12, <3>1 DEF Kept, TopKept, GlassKept
  <2> QED BY <2>1, <2>2
<1>15. /\ SameSheets(e, z) /\ Drawable(z, c)
       /\ \A y \in Rows : Repaints(e, c, Extent(e, s), h + 1, o, y) \/ RowOk(x, y) => RowOk(z, y)
  <2> DEFINE l == h + 1
  <2>1. l \in Nat /\ o \in Int /\ o <= Top(e, c) /\ l <= l
    BY <1>1, <1>10
  <2>2. /\ \A y \in Rows : Repaints(e, c, Extent(e, s), l, o, y) \/ Kept(x, e, c, y)
        /\ z = Refreshsub(Refreshmap(e, c, Extent(e, s), l), c, Extent(e, s), l, o)
    BY <1>2, <1>14
  <2> HIDE DEF l, o
  <2>3. /\ SameSheets(e, z) /\ Drawable(z, c)
        /\ \A y \in Rows : Repaints(e, c, Extent(e, s), l, o, y) \/ RowOk(x, y) => RowOk(z, y)
    <3>1. l <= l /\ e.vram = x.vram /\ e.map = x.map /\ Typed(e) /\ Placed(e)
      BY <1>10, <2>1
    <3> DEFINE R == Extent(e, s)
    <3>2. /\ \A y \in Rows : Repaints(e, c, R, l, o, y) \/ Kept(x, e, c, y)
          /\ z = Refreshsub(Refreshmap(e, c, R, l), c, R, l, o)
      BY <2>2
    <3> HIDE DEF R
    <3>3. /\ SameSheets(e, z) /\ Drawable(z, c)
          /\ \A y \in Rows : Repaints(e, c, R, l, o, y) \/ RowOk(x, y) => RowOk(z, y)
      BY <1>0, <1>11, <2>1, <3>1, <3>2, RedrawKept
    <3> QED BY <3>3 DEF R
  <2> QED BY <2>3 DEF l
<1>16. ShiftDone(x, z, s, c, h)
  BY <1>0, <1>9, <1>15, ShiftDoneIs
<1> QED BY <1>16 DEF z

-----------------------------------------------------------------------------
\* A sheet goes out of sight.

(* Sheet s leaves the stack of c: those above come down. *)
HideHeights(x, c, s) ==
  [t \in Sheets |-> IF t = s THEN -1
                    ELSE IF On(x, c, t) /\ x.height[t] > x.height[s] THEN x.height[t] - 1
                    ELSE x.height[t]]
HideStack(x, c, s) == RemoveAt(x.stack[c], x.height[s] + 1)

(* The sheets of e are those of x after s went. *)
Hidden(x, e, s, c) ==
  /\ Restacked(x, e, c, HideStack(x, c, s), HideHeights(x, c, s))
  /\ e.sid = x.sid /\ e.id = x.id

(* What is at each height after s went. *)
LEMMA HiddenStack ==
  ASSUME NEW x, Typed(x), Placed(x), NEW c \in Ctls, NEW s \in Sheets, On(x, c, s)
  PROVE  /\ HideStack(x, c, s) \in Seq(Sheets)
         /\ Len(HideStack(x, c, s)) = Top(x, c)
         /\ \A p \in 0 .. Top(x, c) - 1 :
              HideStack(x, c, s)[p + 1] = IF p < x.height[s] THEN At(x, c, p) ELSE At(x, c, p + 1)
<1> DEFINE st == x.stack[c]
           n == Top(x, c) + 1
           o == x.height[s]
           r == HideStack(x, c, s)
<1>1. st \in Seq(Sheets) /\ Len(st) = n /\ n \in Nat /\ Top(x, c) = n - 1
  <2>1. st \in Seq(Sheets)
    BY DEF Typed
  <2>2. n \in Nat /\ n = Len(st)
    BY Places
  <2> QED BY <2>1, <2>2 DEF Top
<1>2. o \in 0 .. n - 1
  BY <1>1, Places
<1>3. r = RemoveAt(st, o + 1)
  BY DEF HideStack
<1>3a. \A p \in Int : At(x, c, p) = st[p + 1]
  BY DEF At
<1> HIDE DEF st, n, o, r
<1>4. o + 1 \in 1 .. Len(st)
  BY <1>1, <1>2
<1>5. r \in Seq(Sheets) /\ Len(r) = n - 1
      /\ \A k \in 1 .. n - 1 : r[k] = IF k < o + 1 THEN st[k] ELSE st[k + 1]
  <2> DEFINE w == RemoveAt(st, o + 1)
  <2>1. /\ w \in Seq(Sheets) /\ Len(w) = Len(st) - 1
        /\ \A k \in 1 .. Len(st) - 1 : w[k] = IF k < o + 1 THEN st[k] ELSE st[k + 1]
    BY <1>1, <1>4, Removed
  <2> QED BY <1>1, <1>3, <2>1
<1>6. ASSUME NEW p \in 0 .. n - 1 - 1
      PROVE  r[p + 1] = IF p < o THEN At(x, c, p) ELSE At(x, c, p + 1)
  <2>1. p + 1 \in 1 .. n - 1 /\ p \in Int /\ p + 1 \in Int /\ (p + 1 < o + 1 <=> p < o)
    BY <1>1, <1>2
  <2> QED BY <1>3a, <1>5, <2>1
<1> QED BY <1>1, <1>5, <1>6 DEF n, o, r

(* The place of every sheet after s went. *)
LEMMA HiddenPlaces ==
  ASSUME NEW x, Typed(x), Placed(x), NEW c \in Ctls, NEW s \in Sheets, On(x, c, s),
         NEW e, Hidden(x, e, s, c)
  PROVE  /\ Typed(e) /\ Placed(e) /\ Top(e, c) = Top(x, c) - 1 /\ e.height[s] = -1
         /\ e.y = x.y /\ e.buf = x.buf /\ e.ctl = x.ctl /\ e.id = x.id /\ e.sid = x.sid
         /\ e.map = x.map /\ e.vram = x.vram /\ e.used = x.used
         /\ \A b \in Ctls, t \in Sheets : On(e, b, t) <=> t # s /\ On(x, b, t)
         /\ \A t \in Sheets : t # s /\ On(x, c, t) =>
              /\ x.height[t] \in 0 .. Top(x, c) /\ x.height[t] # x.height[s]
              /\ e.height[t] = IF x.height[t] > x.height[s] THEN x.height[t] - 1 ELSE x.height[t]
         /\ \A t \in Sheets : ~ On(x, c, t) => e.height[t] = x.height[t]
<1> DEFINE H == HideHeights(x, c, s)
           q == HideStack(x, c, s)
           n == Top(x, c) + 1
           o == x.height[s]
<1>1. n \in Nat /\ Top(x, c) = n - 1 /\ Top(x, c) \in Int
  <2>1. n \in Nat
    BY Places
  <2>2. x.stack[c] \in Seq(Sheets)
    BY DEF Typed
  <2> QED BY <2>1, <2>2 DEF Top
<1>2. o \in 0 .. n - 1 /\ At(x, c, o) = s /\ x.ctl[s] = c
  BY <1>1, Places DEF On
<1>3. /\ q \in Seq(Sheets) /\ Len(q) = n - 1
      /\ \A p \in 0 .. n - 1 - 1 : q[p + 1] = IF p < o THEN At(x, c, p) ELSE At(x, c, p + 1)
  BY <1>1, HiddenStack
<1>4. /\ \A p \in 0 .. n - 1 : On(x, c, At(x, c, p)) /\ x.height[At(x, c, p)] = p /\ At(x, c, p) \in Sheets
      /\ \A t \in Sheets : On(x, c, t) => x.height[t] \in 0 .. n - 1 /\ At(x, c, x.height[t]) = t
  BY <1>1, Places
<1>5. \A t \in Sheets : H[t] = IF t = s THEN -1
                               ELSE IF On(x, c, t) /\ x.height[t] > o THEN x.height[t] - 1
                               ELSE x.height[t]
  BY DEF HideHeights
<1>6. H = [t \in Sheets |-> H[t]] /\ \A t \in Sheets : x.height[t] \in Int /\ x.height[t] >= -1
  BY DEF HideHeights, Typed, Placed
<1>7. Restacked(x, e, c, q, H) /\ e.sid = x.sid /\ e.id = x.id
  BY DEF Hidden
<1> HIDE DEF n, o, q, H
<1>8. \A t \in Sheets : H[t] \in Int /\ H[t] >= -1
  BY <1>1, <1>2, <1>4, <1>5, <1>6
<1>9. ASSUME NEW k \in 1 .. Len(q)
      PROVE  H[q[k]] = k - 1 /\ x.ctl[q[k]] = c
  <2> DEFINE p == k - 1
             j == IF p < o THEN p ELSE p + 1
             t == At(x, c, j)
  <2>1. p \in 0 .. n - 1 - 1 /\ p + 1 = k /\ j \in 0 .. n - 1 /\ j # o
    BY <1>1, <1>2, <1>3
  <2>2. q[k] = t
    <3>1. q[p + 1] = IF p < o THEN At(x, c, p) ELSE At(x, c, p + 1)
      BY <1>3, <2>1
    <3> HIDE DEF p
    <3> QED BY <2>1, <3>1
  <2>3. j > o => j - 1 = p
    BY <1>1, <1>2
  <2>4. ~ (j > o) => j = p
    BY <1>1, <1>2, <2>1
  <2> HIDE DEF j
  <2>5. t \in Sheets /\ On(x, c, t) /\ x.height[t] = j
    BY <1>4, <2>1
  <2> HIDE DEF t
  <2>6. t # s
    BY <2>1, <2>5 DEF o
  <2>7. H[t] = p
    <3> HIDE DEF p
    <3> QED BY <1>5, <2>3, <2>4, <2>5, <2>6
  <2> QED BY <2>2, <2>5, <2>7 DEF On
<1>10. ASSUME NEW t \in Sheets, H[t] >= 0, x.ctl[t] = c
       PROVE  H[t] + 1 \in 1 .. Len(q) /\ q[H[t] + 1] = t
  <2> DEFINE k == x.height[t]
             p == H[t]
  <2>1. t # s /\ On(x, c, t)
    BY <1>2, <1>4, <1>5, <1>6, <1>10 DEF On
  <2>2. k \in 0 .. n - 1 /\ At(x, c, k) = t /\ k # o
    BY <1>2, <1>4, <2>1
  <2>3. p = IF k > o THEN k - 1 ELSE k
    BY <1>5, <2>1
  <2> HIDE DEF p, k
  <2>4. p \in 0 .. n - 1 - 1 /\ (IF p < o THEN p ELSE p + 1) = k
    BY <1>1, <1>2, <2>2, <2>3
  <2>5. q[p + 1] = t
    BY <1>3, <2>2, <2>4
  <2>6. p + 1 \in 1 .. Len(q)
    BY <1>1, <1>3, <2>4
  <2> QED BY <2>5, <2>6 DEF p
<1>11. \A t \in Sheets : x.ctl[t] # c => H[t] = x.height[t]
  BY <1>2, <1>5 DEF On
<1>12. Fits(x, c, q, H)
  BY <1>3, <1>8, <1>9, <1>10, <1>11 DEF Fits
<1>13. Placed(e)
  BY <1>7, <1>12, FitsPlaced
<1>14. Typed(e) /\ e.height = H /\ e.stack[c] = q /\ SameRest(x, e)
  BY <1>7 DEF Restacked
<1>15. Top(e, c) = Top(x, c) - 1
  BY <1>1, <1>3, <1>14 DEF Top
<1>16. \A t \in Sheets : t # s /\ On(x, c, t) =>
              /\ x.height[t] \in 0 .. Top(x, c) /\ x.height[t] # x.height[s]
              /\ e.height[t] = IF x.height[t] > x.height[s] THEN x.height[t] - 1 ELSE x.height[t]
  BY <1>1, <1>2, <1>4, <1>5, <1>14 DEF o
<1>17. \A t \in Sheets : ~ On(x, c, t) => e.height[t] = x.height[t]
  BY <1>5, <1>14
<1>18. e.height[s] = -1
  BY <1>5, <1>14
<1>19. ASSUME NEW b \in Ctls, NEW t \in Sheets
       PROVE  On(e, b, t) <=> t # s /\ On(x, b, t)
  <2>1. e.ctl = x.ctl
    BY <1>14 DEF SameRest
  <2>2. CASE t = s
    BY <1>18, <2>2 DEF On
  <2>3. CASE t # s /\ On(x, c, t)
    <3>1. x.height[t] \in Int /\ x.height[s] \in Int /\ x.height[t] >= 0 /\ x.height[s] >= 0
      BY <1>6, <2>3 DEF On
    <3>2. e.height[t] >= 0
      BY <1>16, <2>3, <3>1
    <3> QED BY <2>1, <2>3, <3>1, <3>2 DEF On
  <2>4. CASE t # s /\ ~ On(x, c, t)
    BY <1>17, <2>1, <2>4 DEF On
  <2> QED BY <2>2, <2>3, <2>4
<1> QED BY <1>7, <1>13, <1>14, <1>15, <1>16, <1>17, <1>18, <1>19 DEF SameRest

(* The others keep their order. *)
LEMMA HiddenMoves ==
  ASSUME NEW x, Typed(x), Placed(x), NEW c \in Ctls, NEW s \in Sheets, On(x, c, s),
         NEW e, Hidden(x, e, s, c)
  PROVE  /\ Moved(x, e, s, c)
         /\ Named(x) => Named(e)
         /\ \A b \in Ctls, y \in Rows, t \in Sheets : t # s /\ OpaqueIn(x, b, y, t) => OpaqueIn(e, b, y, t)
         /\ \A y : \A t \in Sheets : Cell(e, t, y) = Cell(x, t, y) /\ (Covers(e, t, y) <=> Covers(x, t, y))
<1>1. /\ e.y = x.y /\ e.buf = x.buf /\ e.ctl = x.ctl /\ e.id = x.id /\ e.sid = x.sid
      /\ e.height[s] = -1
      /\ \A b \in Ctls, t \in Sheets : On(e, b, t) <=> t # s /\ On(x, b, t)
      /\ \A t \in Sheets : t # s /\ On(x, c, t) =>
              /\ x.height[t] \in 0 .. Top(x, c) /\ x.height[t] # x.height[s]
              /\ e.height[t] = IF x.height[t] > x.height[s] THEN x.height[t] - 1 ELSE x.height[t]
      /\ \A t \in Sheets : ~ On(x, c, t) => e.height[t] = x.height[t]
  BY HiddenPlaces
<1>2. x.ctl \in [Sheets -> Ctls] /\ x.ctl[s] = c /\ x.height[s] \in 0 .. Top(x, c)
  BY Places DEF On, Typed
<1>3. \A t \in Sheets : t # s => (x.height[t] >= 0 <=> e.height[t] >= 0)
  BY <1>1, <1>2 DEF On
<1>4. Others(x, e, s)
  BY <1>1, <1>3 DEF Others
<1>5. ASSUME NEW t \in Sheets, NEW u \in Sheets, t # s, u # s
      PROVE  /\ On(x, c, t) /\ On(x, c, u) => (x.height[t] < x.height[u] <=> e.height[t] < e.height[u])
             /\ x.ctl[t] # c => e.height[t] = x.height[t]
  <2>1. CASE On(x, c, t) /\ On(x, c, u)
    <3>1. x.height[t] < x.height[u] <=> e.height[t] < e.height[u]
      BY <1>1, <1>2, <1>5, <2>1
    <3> QED BY <2>1, <3>1 DEF On
  <2>2. x.ctl[t] # c => e.height[t] = x.height[t]
    BY <1>1 DEF On
  <2> QED BY <2>1, <2>2
<1>6. Moved(x, e, s, c)
  BY <1>1, <1>2, <1>4, <1>5 DEF Moved, Ordered, On
<1>7. Named(x) => Named(e)
  <2>1. \A t \in Sheets : e.height[t] >= 0 => x.height[t] >= 0
    BY <1>1, <1>3
  <2> QED BY <1>1, <2>1 DEF Named
<1>8. \A y : \A t \in Sheets : Cell(e, t, y) = Cell(x, t, y) /\ (Covers(e, t, y) <=> Covers(x, t, y))
  BY <1>1 DEF Cell, Covers
<1>9. \A b \in Ctls, y \in Rows, t \in Sheets : t # s /\ OpaqueIn(x, b, y, t) => OpaqueIn(e, b, y, t)
  BY <1>1, <1>8 DEF OpaqueIn
<1> QED BY <1>6, <1>7, <1>8, <1>9

(* The table of ids plays no part in what is seen. *)
SameButIds(x, z) ==
  /\ z.stack = x.stack /\ z.height = x.height /\ z.id = x.id /\ z.map = x.map /\ z.vram = x.vram
  /\ z.ctl = x.ctl /\ z.y = x.y /\ z.buf = x.buf /\ z.used = x.used

(* So a change of it keeps what is seen. *)
LEMMA IdsUnseen ==
  ASSUME NEW x, NEW z, SameButIds(x, z)
  PROVE  /\ Placed(x) => Placed(z)
         /\ \A c \in Ctls : Based(x, c) => Based(z, c)
         /\ MapOk(x) => MapOk(z)
         /\ \A y \in Rows : RowOk(x, y) => RowOk(z, y)
         /\ \A c : Top(z, c) = Top(x, c)
<1> USE DEF SameButIds
<1>1. \A c, s : On(z, c, s) <=> On(x, c, s)
  BY DEF On
<1>2. /\ \A s, y : Covers(z, s, y) <=> Covers(x, s, y)
      /\ \A s, y : Cell(z, s, y) = Cell(x, s, y)
  BY DEF Covers, Cell
<1>3. \A c, y, s : OpaqueIn(z, c, y, s) <=> OpaqueIn(x, c, y, s)
  BY <1>1, <1>2 DEF OpaqueIn
<1>4. \A c, y, s : GlassIn(z, c, y, s) <=> GlassIn(x, c, y, s)
  BY <1>1, <1>2 DEF GlassIn
<1>5. \A c, y, s : TopIn(z, c, y, s) <=> TopIn(x, c, y, s)
  BY <1>3 DEF TopIn
<1>6. \A c, y, s, g : GlassOver(z, c, y, s, g) <=> GlassOver(x, c, y, s, g)
  BY <1>4 DEF GlassOver
<1>7. Placed(x) => Placed(z)
  BY DEF Placed
<1>8. \A c \in Ctls : Based(x, c) => Based(z, c)
  BY <1>3 DEF Based
<1>9. MapOk(x) => MapOk(z)
  BY <1>5 DEF MapOk, Mapped
<1>10. \A y \in Rows : RowOk(x, y) => RowOk(z, y)
  BY <1>2, <1>5, <1>6 DEF RowOk, Shows
<1> QED BY <1>7, <1>8, <1>9, <1>10 DEF Top

(* What it leaves, drawn. *)
HideDone(x, z, s, c) ==
  /\ Drawable(z, c) /\ Top(z, c) = Top(x, c) - 1
  /\ \A b \in Ctls : b # c => z.stack[b] = x.stack[b]
  /\ z.height = HideHeights(x, c, s)
  /\ \A b \in Ctls, i \in Ids : z.sid[b][i] = IF b = c /\ i = x.id[s] THEN None ELSE x.sid[b][i]
  /\ z.id = x.id /\ z.ctl = x.ctl /\ z.y = x.y /\ z.buf = x.buf /\ z.used = x.used
  /\ \A y \in Rows : RowOk(x, y) => RowOk(z, y)

(* sheet_updown out of sight, on a desktop with something opaque under s. *)
LEMMA HideIs ==
  ASSUME NEW x, NEW c \in Ctls, Drawable(x, c), NEW s \in Sheets, On(x, c, s),
         \A y \in Rows : \E b \in Sheets : b # s /\ OpaqueIn(x, c, y, b)
  PROVE  HideDone(x, Hide(x, s, x.height[s]), s, c)
<1> DEFINE o == x.height[s]
           q == HideStack(x, c, s)
           H == HideHeights(x, c, s)
           e0 == [x EXCEPT !.stack[c] = RemoveAt(@, o + 1), !.height[s] = -1]
           e == Numbered(e0, c, o, Top(e0, c))
           p == Refreshsub(Refreshmap(e, c, Extent(e, s), 0), c, Extent(e, s), 0, o - 1)
           z == Hide(x, s, o)
<1>0. Typed(x) /\ Placed(x) /\ Named(x) /\ Based(x, c) /\ MapOk(x) /\ Desk(x)
  BY DEF Drawable, Typed
<1>1. o \in 0 .. Top(x, c) /\ Top(x, c) \in Int /\ x.ctl[s] = c
  <2>1. o \in 0 .. Top(x, c)
    BY <1>0, Places
  <2>2. x.stack[c] \in Seq(Sheets)
    BY <1>0 DEF Typed
  <2> QED BY <2>1, <2>2 DEF Top, On
<1>2. z = [p EXCEPT !.sid[c][p.id[s]] = None]
  BY <1>1 DEF Hide
<1>3. /\ q \in Seq(Sheets) /\ Len(q) = Top(x, c)
      /\ \A k \in 0 .. Top(x, c) - 1 : q[k + 1] = IF k < o THEN At(x, c, k) ELSE At(x, c, k + 1)
  BY <1>0, HiddenStack
<1>4. \A t \in Sheets : H[t] = IF t = s THEN -1
                               ELSE IF On(x, c, t) /\ x.height[t] > o THEN x.height[t] - 1
                               ELSE x.height[t]
  BY DEF HideHeights
<1>4a. H \in [Sheets -> Int]
  BY <1>0 DEF HideHeights, Typed
<1> DEFINE st == [x.stack EXCEPT ![c] = q]
           K == [x.height EXCEPT ![s] = -1]
<1>5. /\ Desk(e0) /\ e0.stack = st /\ e0.height = K
      /\ e0.sid = x.sid /\ e0.map = x.map /\ e0.vram = x.vram
      /\ e0.id = x.id /\ e0.ctl = x.ctl /\ e0.y = x.y /\ e0.buf = x.buf /\ e0.used = x.used
  BY <1>0 DEF Desk, Keys, HideStack
<1> HIDE DEF e0, q, H
<1>6. Typed(e0) /\ Top(e0, c) = Top(x, c) - 1
  <2>1. Typed(e0)
    BY <1>0, <1>1, <1>3, <1>5 DEF Typed
  <2>2. e0.stack[c] = q
    BY <1>0, <1>5 DEF Typed
  <2> QED BY <1>3, <2>1, <2>2 DEF Top
<1>7. NumbersTo(e0.stack[c], o, Top(x, c) - 1, H, e0.height)
  <2>1. e0.stack[c] = q /\ \A t \in Sheets : e0.height[t] = IF t = s THEN -1 ELSE x.height[t]
    BY <1>0, <1>5 DEF Typed
  <2>2. ASSUME NEW k \in o .. Top(x, c) - 1
        PROVE  /\ q[k + 1] = At(x, c, k + 1) /\ H[q[k + 1]] = k
    <3>1. k \in 0 .. Top(x, c) - 1 /\ k + 1 \in 0 .. Top(x, c) /\ ~ (k < o) /\ k + 1 # o /\ k + 1 > o /\ (k + 1) - 1 = k
      BY <1>1
    <3>2. q[k + 1] = At(x, c, k + 1)
      BY <1>3, <3>1
    <3> DEFINE t == At(x, c, k + 1)
    <3>3. t \in Sheets /\ On(x, c, t) /\ x.height[t] = k + 1
      BY <1>0, <3>1, Places
    <3>4. t # s
      BY <3>1, <3>3
    <3> HIDE DEF t
    <3>5. H[t] = k
      BY <1>4, <3>1, <3>3, <3>4
    <3> QED BY <3>2, <3>5 DEF t
  <2>3. ASSUME NEW t \in Sheets, \A k \in o .. Top(x, c) - 1 : q[k + 1] # t
        PROVE  H[t] = e0.height[t]
    <3>1. CASE t = s
      BY <1>4, <2>1, <3>1
    <3>2. CASE t # s /\ ~ On(x, c, t)
      BY <1>4, <2>1, <3>2
    <3>3. CASE t # s /\ On(x, c, t)
      <4> DEFINE k == x.height[t]
      <4>1. k \in 0 .. Top(x, c) /\ At(x, c, k) = t /\ k # o
        BY <1>0, <3>3, Places, SameHeight
      <4>2. ~ (k > o)
        <5>1. CASE k > o
          <6>1. k - 1 \in o .. Top(x, c) - 1 /\ (k - 1) + 1 = k
            BY <1>1, <4>1, <5>1
          <6>2. q[(k - 1) + 1] = At(x, c, (k - 1) + 1)
            BY <2>2, <6>1
          <6> QED BY <2>3, <4>1, <6>1, <6>2
        <5> QED BY <5>1
      <4> QED BY <1>4, <2>1, <3>3, <4>2
    <3> QED BY <3>1, <3>2, <3>3
  <2> QED BY <2>1, <2>2, <2>3 DEF NumbersTo
<1>8. Typed(e) /\ SameRest(e0, e) /\ e.stack = e0.stack /\ e.height = H /\ e.sid = e0.sid /\ e.id = e0.id
  <2> DEFINE l == Top(x, c) - 1
  <2>1. o \in Int /\ l \in Int /\ NumbersTo(e0.stack[c], o, l, H, e0.height) /\ e = Numbered(e0, c, o, l)
    BY <1>1, <1>6, <1>7
  <2> HIDE DEF o, l, e
  <2> QED BY <1>4a, <1>6, <2>1, NumberedIs
<1> HIDE DEF e, z
<1>9. Hidden(x, e, s, c)
  <2>1. e.stack[c] = q /\ \A b \in Ctls : b # c => e.stack[b] = x.stack[b]
    BY <1>0, <1>5, <1>8 DEF Typed
  <2>2. SameRest(x, e) /\ e.sid = x.sid /\ e.id = x.id
    BY <1>5, <1>8 DEF SameRest
  <2> QED BY <1>8, <2>1, <2>2 DEF Hidden, Restacked, q, H
<1>10. /\ Typed(e) /\ Placed(e) /\ Top(e, c) = Top(x, c) - 1 /\ e.height[s] = -1
       /\ e.y = x.y /\ e.buf = x.buf /\ e.ctl = x.ctl /\ e.id = x.id /\ e.sid = x.sid
       /\ e.map = x.map /\ e.vram = x.vram /\ e.used = x.used
       /\ \A b \in Ctls, t \in Sheets : On(e, b, t) <=> t # s /\ On(x, b, t)
       /\ \A t \in Sheets : t # s /\ On(x, c, t) =>
              /\ x.height[t] \in 0 .. Top(x, c) /\ x.height[t] # o
              /\ e.height[t] = IF x.height[t] > o THEN x.height[t] - 1 ELSE x.height[t]
  BY <1>0, <1>9, HiddenPlaces
<1>11. /\ Moved(x, e, s, c) /\ Named(e)
       /\ \A b \in Ctls, y \in Rows, t \in Sheets : t # s /\ OpaqueIn(x, b, y, t) => OpaqueIn(e, b, y, t)
       /\ \A y : \A t \in Sheets : Cell(e, t, y) = Cell(x, t, y) /\ (Covers(e, t, y) <=> Covers(x, t, y))
  BY <1>0, <1>9, HiddenMoves
<1>11a. Based(e, c)
  BY <1>11 DEF Based
<1>12. ASSUME NEW y \in Rows, NEW w \in Sheets, TopIn(e, c, y, w),
              y \in Extent(e, s) => e.height[w] \notin 0 .. o - 1
       PROVE  /\ TopIn(x, c, y, w) /\ e.id[w] = x.id[w] /\ Cell(e, w, y) = Cell(x, w, y)
              /\ \A g \in Sheets : GlassOver(x, c, y, w, g) => GlassOver(e, c, y, w, g)
  <2>1. w # s /\ On(x, c, w) /\ On(e, c, w)
    BY <1>12, <1>10 DEF TopIn, OpaqueIn
  <2>2. /\ x.height[w] \in 0 .. Top(x, c) /\ x.height[w] # o
        /\ e.height[w] = IF x.height[w] > o THEN x.height[w] - 1 ELSE x.height[w]
    BY <1>10, <2>1
  <2>3. Covers(x, s, y) => y \in Extent(e, s)
    BY <1>11 DEF Covers, Extent, Band
  <2>3a. Covers(x, s, y) => o < x.height[w]
    BY <1>1, <1>12, <2>2, <2>3
  <2>4. OpaqueIn(x, c, y, s) => x.height[s] < x.height[w]
    BY <2>3a DEF OpaqueIn
  <2>5. ~ GlassOver(x, c, y, w, s)
    <3>1. ASSUME GlassOver(x, c, y, w, s)
          PROVE  FALSE
      <4>1. o > x.height[w] /\ Covers(x, s, y)
        BY <3>1 DEF GlassOver, GlassIn
      <4> QED BY <1>1, <2>2, <2>3a, <4>1
    <3> QED BY <3>1
  <2> QED BY <1>0, <1>10, <1>11, <1>12, <2>1, <2>4, <2>5, KeptOther
<1>13. ASSUME NEW y \in Rows
       PROVE  Repaints(e, c, Extent(e, s), 0, o - 1, y) \/ Kept(x, e, c, y)
  <2>1. CASE ~ Repaints(e, c, Extent(e, s), 0, o - 1, y)
    <3>1. \A w \in Sheets : TopIn(e, c, y, w) =>
            (y \in Extent(e, s) => e.height[w] \notin 0 .. o - 1)
      BY <2>1 DEF Repaints
    <3> QED BY <1>12, <3>1 DEF Kept, TopKept, GlassKept
  <2> QED BY <2>1
<1> DEFINE l == o - 1
           R == Extent(e, s)
<1>14. /\ SameSheets(e, p) /\ Drawable(p, c)
       /\ \A y \in Rows : Repaints(e, c, R, 0, l, y) \/ RowOk(x, y) => RowOk(p, y)
  <2>1. 0 \in Nat /\ l \in Int /\ l <= Top(e, c) /\ 0 <= 0
    BY <1>1, <1>10
  <2>2. /\ \A y \in Rows : Repaints(e, c, R, 0, l, y) \/ Kept(x, e, c, y)
        /\ p = Refreshsub(Refreshmap(e, c, R, 0), c, R, 0, l)
    BY <1>13
  <2>3. Typed(e) /\ Placed(e) /\ e.vram = x.vram /\ e.map = x.map
    BY <1>10
  <2> HIDE DEF l, o, R, p
  <2> QED BY <1>0, <1>11, <1>11a, <2>1, <2>2, <2>3, RedrawKept
<1> HIDE DEF p
<1>15. Desk(p) /\ p.sid = x.sid /\ p.id = x.id /\ Typed(p)
  BY <1>10, <1>14 DEF Drawable, Typed, SameSheets
<1> DEFINE sd == [p.sid EXCEPT ![c][p.id[s]] = None]
<1>16. /\ Desk(z) /\ z.sid = sd
       /\ z.stack = p.stack /\ z.height = p.height /\ z.id = p.id /\ z.map = p.map /\ z.vram = p.vram
       /\ z.ctl = p.ctl /\ z.y = p.y /\ z.buf = p.buf /\ z.used = p.used
  BY <1>2, <1>15 DEF Desk, Keys
<1>17. /\ sd \in [Ctls -> [Ids -> Sheets \cup {None}]]
       /\ \A b \in Ctls, i \in Ids : sd[b][i] = IF b = c /\ i = x.id[s] THEN None ELSE x.sid[b][i]
  <2>1. p.sid \in [Ctls -> [Ids -> Sheets \cup {None}]] /\ p.id[s] \in Ids
    BY <1>15 DEF Typed
  <2> QED BY <1>15, <2>1
<1> HIDE DEF sd
<1>18. Typed(z)
  BY <1>15, <1>16, <1>17 DEF Typed
<1>19. SameButIds(p, z)
  BY <1>16 DEF SameButIds
<1>20. /\ Placed(z) /\ Based(z, c) /\ MapOk(z) /\ Top(z, c) = Top(p, c)
       /\ \A y \in Rows : RowOk(p, y) => RowOk(z, y)
  BY <1>14, <1>19, IdsUnseen DEF Drawable
<1>21. p.height = H /\ p.ctl = x.ctl /\ p.y = x.y /\ p.buf = x.buf /\ p.used = x.used /\ p.stack = e.stack
  BY <1>8, <1>10, <1>14 DEF SameSheets
<1>22. Named(z)
  <2>1. ASSUME NEW t \in Sheets, H[t] >= 0
        PROVE  z.sid[x.ctl[t]][x.id[t]] = t
    <3>1. x.height[t] >= 0 /\ t # s
      BY <1>1, <1>4, <1>0, <2>1 DEF Typed, On
    <3>2. x.sid[x.ctl[t]][x.id[t]] = t /\ x.sid[c][x.id[s]] = s
      BY <1>0, <1>1, <3>1 DEF Named, On
    <3>3. x.ctl[t] \in Ctls /\ x.id[t] \in Ids
      BY <1>0 DEF Typed
    <3> QED BY <1>16, <1>17, <3>1, <3>2, <3>3
  <2> QED BY <1>15, <1>16, <1>21, <2>1 DEF Named
<1>23. Top(p, c) = Top(x, c) - 1
  BY <1>10, <1>14, SameSeen
<1>24. \A b \in Ctls : b # c => z.stack[b] = x.stack[b]
  BY <1>9, <1>16, <1>21 DEF Hidden, Restacked
<1>25. HideDone(x, z, s, c)
  BY <1>14, <1>15, <1>16, <1>17, <1>18, <1>20, <1>21, <1>22, <1>23, <1>24 DEF HideDone, Drawable, H
<1> QED BY <1>25 DEF z

-----------------------------------------------------------------------------
\* A sheet is shown.

(* Sheet s enters the stack of c at height h: those from there go up. *)
ShowHeights(x, c, s, h) ==
  [t \in Sheets |-> IF t = s THEN h
                    ELSE IF On(x, c, t) /\ x.height[t] >= h THEN x.height[t] + 1
                    ELSE x.height[t]]
ShowStack(x, c, s, h) == InsertAt(x.stack[c], h + 1, s)

(* The id a sheet gets. *)
Free1(x, c) == Min(FreeIds(x, c))

(* A sheet that is out of sight, and its controller. *)
Off(x, c, s) == s \in Sheets /\ x.height[s] = -1 /\ x.ctl[s] = c

(* The sheets of e are those of x after s came, with an id. *)
Shown(x, e, s, c, h) ==
  /\ Restacked(x, e, c, ShowStack(x, c, s, h), ShowHeights(x, c, s, h))
  /\ \A b \in Ctls, i \in Ids : e.sid[b][i] = IF b = c /\ i = Free1(x, c) THEN s ELSE x.sid[b][i]
  /\ \A t \in Sheets : e.id[t] = IF t = s THEN Free1(x, c) ELSE x.id[t]

(* The smallest free id is free. *)
LEMMA FreeIdIs ==
  ASSUME NEW x, NEW c \in Ctls, FreeIds(x, c) # {}
  PROVE  Free1(x, c) \in Ids /\ x.sid[c][Free1(x, c)] = None
<1> DEFINE T == FreeIds(x, c)
<1>1. T \in SUBSET Ids
  BY DEF FreeIds
<1>2. T \in SUBSET (0 .. MaxSid)
  <2>1. Ids \subseteq 0 .. MaxSid
    BY DesktopAssumption, Kinds
  <2> QED BY <1>1, <2>1
<1>3. MaxSid \in Nat
  BY DesktopAssumption
<1>4. Min(T) \in T
  <2> HIDE DEF T
  <2> QED BY <1>2, <1>3, MinIs DEF T
<1>5. Free1(x, c) \in FreeIds(x, c)
  BY <1>4 DEF Free1
<1> QED BY <1>5 DEF FreeIds

(* What is at each height after s came. *)
LEMMA ShownStack ==
  ASSUME NEW x, Typed(x), Placed(x), NEW c \in Ctls, NEW s \in Sheets, NEW h \in 0 .. Top(x, c) + 1
  PROVE  /\ ShowStack(x, c, s, h) \in Seq(Sheets)
         /\ Len(ShowStack(x, c, s, h)) = Top(x, c) + 2
         /\ \A p \in 0 .. Top(x, c) + 1 :
              ShowStack(x, c, s, h)[p + 1] = IF p < h THEN At(x, c, p) ELSE IF p = h THEN s ELSE At(x, c, p - 1)
<1> DEFINE st == x.stack[c]
           n == Top(x, c) + 1
           r == ShowStack(x, c, s, h)
           i == h + 1
<1>1. st \in Seq(Sheets) /\ Len(st) = n /\ n \in Nat /\ Top(x, c) = n - 1 /\ h \in 0 .. n
  <2>1. st \in Seq(Sheets)
    BY DEF Typed
  <2>2. n \in Nat /\ n = Len(st)
    BY Places
  <2> QED BY <2>1, <2>2 DEF Top
<1>3. r = InsertAt(st, i, s)
  BY DEF ShowStack
<1>3a. \A p \in Int : At(x, c, p) = st[p + 1]
  BY DEF At
<1> HIDE DEF st, n, r
<1>4. i \in 1 .. Len(st) + 1
  BY <1>1
<1>4a. i = h + 1
  OBVIOUS
<1> HIDE DEF i
<1>5. r \in Seq(Sheets) /\ Len(r) = n + 1
      /\ \A k \in 1 .. n + 1 : r[k] = IF k < i THEN st[k] ELSE IF k = i THEN s ELSE st[k - 1]
  <2>0. st \in Seq(Sheets)
    BY <1>1
  <2>1. InsertAt(st, i, s) \in Seq(Sheets)
    BY <1>4, <2>0, Inserted
  <2>2. Len(InsertAt(st, i, s)) = Len(st) + 1
    BY <1>4, <2>0, Inserted
  <2>3. ASSUME NEW k \in 1 .. Len(st) + 1
        PROVE  InsertAt(st, i, s)[k] = IF k < i THEN st[k] ELSE IF k = i THEN s ELSE st[k - 1]
    BY <1>4, <2>0, Inserted
  <2> QED BY <1>1, <1>3, <2>1, <2>2, <2>3
<1>6. ASSUME NEW p \in 0 .. n
      PROVE  r[p + 1] = IF p < h THEN At(x, c, p) ELSE IF p = h THEN s ELSE At(x, c, p - 1)
  <2>1. p + 1 \in 1 .. n + 1 /\ p \in Int /\ p - 1 \in Int /\ (p + 1 < i <=> p < h) /\ (p + 1 = i <=> p = h)
        /\ (p + 1) - 1 = p /\ (p - 1) + 1 = p
    BY <1>1, <1>4a
  <2>2. r[p + 1] = IF p + 1 < i THEN st[p + 1] ELSE IF p + 1 = i THEN s ELSE st[(p + 1) - 1]
    BY <1>5, <2>1
  <2>3. At(x, c, p) = st[p + 1] /\ At(x, c, p - 1) = st[p]
    BY <1>3a, <2>1
  <2> QED BY <2>1, <2>2, <2>3
<1>7. Top(x, c) + 1 = n /\ Top(x, c) + 2 = n + 1
  BY <1>1
<1> QED BY <1>5, <1>6, <1>7 DEF r

(* The place of every sheet after s came. *)
LEMMA ShownPlaces ==
  ASSUME NEW x, Typed(x), Placed(x), NEW c \in Ctls, NEW s \in Sheets, Off(x, c, s),
         NEW h \in 0 .. Top(x, c) + 1, NEW e, Shown(x, e, s, c, h)
  PROVE  /\ Typed(e) /\ Placed(e) /\ Top(e, c) = Top(x, c) + 1 /\ e.height[s] = h
         /\ e.y = x.y /\ e.buf = x.buf /\ e.ctl = x.ctl
         /\ e.map = x.map /\ e.vram = x.vram /\ e.used = x.used
         /\ \A b \in Ctls, t \in Sheets : On(e, b, t) <=> On(x, b, t) \/ (t = s /\ b = c)
         /\ \A t \in Sheets : On(x, c, t) =>
              /\ x.height[t] \in 0 .. Top(x, c) /\ t # s
              /\ e.height[t] = IF x.height[t] >= h THEN x.height[t] + 1 ELSE x.height[t]
         /\ \A t \in Sheets : t # s /\ ~ On(x, c, t) => e.height[t] = x.height[t]
<1> DEFINE H == ShowHeights(x, c, s, h)
           q == ShowStack(x, c, s, h)
           n == Top(x, c) + 1
<1>1. n \in Nat /\ Top(x, c) = n - 1 /\ Top(x, c) \in Int /\ h \in 0 .. n
  <2>1. n \in Nat
    BY Places
  <2>2. x.stack[c] \in Seq(Sheets)
    BY DEF Typed
  <2> QED BY <2>1, <2>2 DEF Top
<1>3. /\ q \in Seq(Sheets) /\ Len(q) = n + 1
      /\ \A p \in 0 .. n : q[p + 1] = IF p < h THEN At(x, c, p) ELSE IF p = h THEN s ELSE At(x, c, p - 1)
  <2>1. /\ q \in Seq(Sheets) /\ Len(q) = Top(x, c) + 2
        /\ \A p \in 0 .. Top(x, c) + 1 :
             q[p + 1] = IF p < h THEN At(x, c, p) ELSE IF p = h THEN s ELSE At(x, c, p - 1)
    BY ShownStack
  <2> HIDE DEF q
  <2> QED BY <1>1, <2>1
<1>4. /\ \A p \in 0 .. n - 1 : On(x, c, At(x, c, p)) /\ x.height[At(x, c, p)] = p /\ At(x, c, p) \in Sheets
      /\ \A t \in Sheets : On(x, c, t) => x.height[t] \in 0 .. n - 1 /\ At(x, c, x.height[t]) = t
  BY <1>1, Places
<1>5. \A t \in Sheets : H[t] = IF t = s THEN h
                               ELSE IF On(x, c, t) /\ x.height[t] >= h THEN x.height[t] + 1
                               ELSE x.height[t]
  BY DEF ShowHeights
<1>6. H = [t \in Sheets |-> H[t]] /\ \A t \in Sheets : x.height[t] \in Int /\ x.height[t] >= -1
  BY DEF ShowHeights, Typed, Placed
<1>7. Restacked(x, e, c, q, H)
  BY DEF Shown
<1>7a. x.height[s] = -1 /\ x.ctl[s] = c /\ \A b \in Ctls : ~ On(x, b, s)
  BY DEF Off, On
<1> HIDE DEF n, q, H
<1>8. \A t \in Sheets : H[t] \in Int /\ H[t] >= -1
  BY <1>1, <1>4, <1>5, <1>6
<1>9. ASSUME NEW k \in 1 .. Len(q)
      PROVE  H[q[k]] = k - 1 /\ x.ctl[q[k]] = c
  <2> DEFINE p == k - 1
             j == IF p < h THEN p ELSE p - 1
             t == At(x, c, j)
  <2>1. p \in 0 .. n /\ p + 1 = k
    BY <1>1, <1>3
  <2>2. q[k] = IF p < h THEN At(x, c, p) ELSE IF p = h THEN s ELSE At(x, c, p - 1)
    <3>1. q[p + 1] = IF p < h THEN At(x, c, p) ELSE IF p = h THEN s ELSE At(x, c, p - 1)
      BY <1>3, <2>1
    <3> HIDE DEF p
    <3> QED BY <2>1, <3>1
  <2>3. CASE p = h
    <3>1. q[k] = s
      BY <1>1, <2>2, <2>3
    <3> QED BY <1>5, <1>7a, <2>3, <3>1
  <2>4. CASE p # h
    <3>1. q[k] = t
      BY <2>2, <2>4
    <3>2. j \in 0 .. n - 1 /\ (j >= h => j + 1 = p) /\ (~ (j >= h) => j = p)
      BY <1>1, <2>1, <2>4
    <3> HIDE DEF j
    <3>3. t \in Sheets /\ On(x, c, t) /\ x.height[t] = j
      BY <1>4, <3>2
    <3>4. t # s
      BY <1>7a, <3>3
    <3> HIDE DEF t
    <3>5. H[t] = p
      <4> HIDE DEF p
      <4> QED BY <1>5, <3>2, <3>3, <3>4
    <3> QED BY <3>1, <3>3, <3>5 DEF On
  <2> QED BY <2>3, <2>4
<1>10. ASSUME NEW t \in Sheets, H[t] >= 0, x.ctl[t] = c
       PROVE  H[t] + 1 \in 1 .. Len(q) /\ q[H[t] + 1] = t
  <2>1. CASE t = s
    <3>1. H[t] = h /\ h \in 0 .. n
      BY <1>1, <1>5, <2>1
    <3>2. q[h + 1] = s
      BY <1>1, <1>3
    <3> QED BY <1>1, <1>3, <2>1, <3>1, <3>2
  <2>2. CASE t # s
    <3> DEFINE k == x.height[t]
               p == H[t]
    <3>1. On(x, c, t)
      BY <1>4, <1>5, <1>6, <1>10, <2>2 DEF On
    <3>2. k \in 0 .. n - 1 /\ At(x, c, k) = t
      BY <1>4, <3>1
    <3>3. p = IF k >= h THEN k + 1 ELSE k
      BY <1>5, <2>2, <3>1
    <3> HIDE DEF p, k
    <3>4. p \in 0 .. n /\ p # h /\ (p < h => p = k) /\ (~ (p < h) => p - 1 = k)
      BY <1>1, <3>2, <3>3
    <3>5. q[p + 1] = t
      BY <1>3, <3>2, <3>4
    <3>6. p + 1 \in 1 .. Len(q)
      BY <1>1, <1>3, <3>4
    <3> QED BY <3>5, <3>6 DEF p
  <2> QED BY <2>1, <2>2
<1>11. \A t \in Sheets : x.ctl[t] # c => H[t] = x.height[t]
  BY <1>5, <1>7a DEF On
<1>12. Fits(x, c, q, H)
  BY <1>3, <1>8, <1>9, <1>10, <1>11 DEF Fits
<1>13. Placed(e)
  BY <1>7, <1>12, FitsPlaced
<1>14. Typed(e) /\ e.height = H /\ e.stack[c] = q /\ SameRest(x, e)
  BY <1>7 DEF Restacked
<1>15. Top(e, c) = Top(x, c) + 1
  <2>1. Top(e, c) = Len(q) - 1
    BY <1>14 DEF Top
  <2> QED BY <1>1, <1>3, <2>1
<1>16. \A t \in Sheets : On(x, c, t) =>
              /\ x.height[t] \in 0 .. Top(x, c) /\ t # s
              /\ e.height[t] = IF x.height[t] >= h THEN x.height[t] + 1 ELSE x.height[t]
  BY <1>1, <1>4, <1>5, <1>7a, <1>14
<1>17. \A t \in Sheets : t # s /\ ~ On(x, c, t) => e.height[t] = x.height[t]
  BY <1>5, <1>14
<1>18. e.height[s] = h /\ h >= 0
  BY <1>1, <1>5, <1>14
<1>19. ASSUME NEW b \in Ctls, NEW t \in Sheets
       PROVE  On(e, b, t) <=> On(x, b, t) \/ (t = s /\ b = c)
  <2>1. e.ctl = x.ctl
    BY <1>14 DEF SameRest
  <2>2. CASE t = s
    BY <1>7a, <1>18, <2>1, <2>2 DEF On
  <2>3. CASE t # s /\ On(x, c, t)
    <3>1. x.height[t] \in Int /\ x.height[t] >= 0
      BY <1>6, <2>3 DEF On
    <3>2. e.height[t] >= 0
      BY <1>16, <2>3, <3>1
    <3> QED BY <2>1, <2>3, <3>1, <3>2 DEF On
  <2>4. CASE t # s /\ ~ On(x, c, t)
    BY <1>17, <2>1, <2>4 DEF On
  <2> QED BY <2>2, <2>3, <2>4
<1> QED BY <1>13, <1>14, <1>15, <1>16, <1>17, <1>18, <1>19 DEF SameRest

(* The others keep their order. *)
LEMMA ShownMoves ==
  ASSUME NEW x, Typed(x), Placed(x), NEW c \in Ctls, NEW s \in Sheets, Off(x, c, s),
         NEW h \in 0 .. Top(x, c) + 1, FreeIds(x, c) # {}, NEW e, Shown(x, e, s, c, h)
  PROVE  /\ Moved(x, e, s, c)
         /\ Named(x) => Named(e)
         /\ \A b \in Ctls, y \in Rows, t \in Sheets : OpaqueIn(x, b, y, t) => OpaqueIn(e, b, y, t)
         /\ \A y : \A t \in Sheets : Cell(e, t, y) = Cell(x, t, y) /\ (Covers(e, t, y) <=> Covers(x, t, y))
<1>1. /\ e.y = x.y /\ e.buf = x.buf /\ e.ctl = x.ctl
      /\ \A b \in Ctls, t \in Sheets : On(e, b, t) <=> On(x, b, t) \/ (t = s /\ b = c)
      /\ \A t \in Sheets : On(x, c, t) =>
              /\ x.height[t] \in 0 .. Top(x, c) /\ t # s
              /\ e.height[t] = IF x.height[t] >= h THEN x.height[t] + 1 ELSE x.height[t]
      /\ \A t \in Sheets : t # s /\ ~ On(x, c, t) => e.height[t] = x.height[t]
  BY ShownPlaces
<1>2. x.ctl \in [Sheets -> Ctls] /\ x.ctl[s] = c /\ \A b \in Ctls : ~ On(x, b, s)
  BY DEF On, Typed, Off
<1>3. \A t \in Sheets : t # s => (x.height[t] >= 0 <=> e.height[t] >= 0)
  BY <1>1, <1>2 DEF On
<1>3a. /\ \A b \in Ctls, i \in Ids : e.sid[b][i] = IF b = c /\ i = Free1(x, c) THEN s ELSE x.sid[b][i]
       /\ \A t \in Sheets : e.id[t] = IF t = s THEN Free1(x, c) ELSE x.id[t]
  BY DEF Shown
<1>4. Others(x, e, s)
  BY <1>1, <1>3, <1>3a DEF Others
<1>5. ASSUME NEW t \in Sheets, NEW u \in Sheets, t # s, u # s
      PROVE  /\ On(x, c, t) /\ On(x, c, u) => (x.height[t] < x.height[u] <=> e.height[t] < e.height[u])
             /\ x.ctl[t] # c => e.height[t] = x.height[t]
  <2>1. CASE On(x, c, t) /\ On(x, c, u)
    <3>0. h \in Int
      <4>1. x.stack[c] \in Seq(Sheets)
        BY DEF Typed
      <4> QED BY <4>1 DEF Top
    <3>1. x.height[t] < x.height[u] <=> e.height[t] < e.height[u]
      BY <1>1, <1>5, <2>1, <3>0
    <3> QED BY <1>5, <2>1, <3>1 DEF On
  <2>2. x.ctl[t] # c => e.height[t] = x.height[t]
    BY <1>1, <1>5 DEF On
  <2> QED BY <2>1, <2>2
<1>6. Moved(x, e, s, c)
  BY <1>1, <1>2, <1>4, <1>5 DEF Moved, Ordered, On
<1>7. ASSUME Named(x)
      PROVE  Named(e)
  <2>0. Free1(x, c) \in Ids /\ x.sid[c][Free1(x, c)] = None
    BY FreeIdIs
  <2>1. ASSUME NEW t \in Sheets, e.height[t] >= 0
        PROVE  e.sid[e.ctl[t]][e.id[t]] = t
    <3>1. CASE t = s
      BY <1>1, <1>2, <1>3a, <2>0, <3>1
    <3>2. CASE t # s
      <4>1. x.sid[x.ctl[t]][x.id[t]] = t
        BY <1>3, <1>7, <2>1, <3>2 DEF Named
      <4>2. t # None /\ x.ctl[t] \in Ctls /\ x.id[t] \in Ids
        BY Kinds DEF Typed
      <4> QED BY <1>1, <1>3a, <2>0, <3>2, <4>1, <4>2
    <3> QED BY <3>1, <3>2
  <2> QED BY <2>1 DEF Named
<1>8. \A y : \A t \in Sheets : Cell(e, t, y) = Cell(x, t, y) /\ (Covers(e, t, y) <=> Covers(x, t, y))
  BY <1>1 DEF Cell, Covers
<1>9. \A b \in Ctls, y \in Rows, t \in Sheets : OpaqueIn(x, b, y, t) => OpaqueIn(e, b, y, t)
  BY <1>1, <1>8 DEF OpaqueIn
<1> QED BY <1>6, <1>7, <1>8, <1>9

(* What it leaves, drawn. *)
ShowDone(x, z, s, c, h) ==
  /\ Drawable(z, c) /\ Top(z, c) = Top(x, c) + 1
  /\ \A b \in Ctls : b # c => z.stack[b] = x.stack[b]
  /\ z.height = ShowHeights(x, c, s, h)
  /\ \A b \in Ctls, i \in Ids : z.sid[b][i] = IF b = c /\ i = Free1(x, c) THEN s ELSE x.sid[b][i]
  /\ \A t \in Sheets : z.id[t] = IF t = s THEN Free1(x, c) ELSE x.id[t]
  /\ z.ctl = x.ctl /\ z.y = x.y /\ z.buf = x.buf /\ z.used = x.used
  /\ \A y \in Rows : RowOk(x, y) => RowOk(z, y)

(* s covers row y with a colour, *)
Solid(x, s, y) == Covers(x, s, y) /\ Opaque(Cell(x, s, y))

(* sheet_updown of a sheet out of sight; one that is opaque everywhere on an empty
   desktop makes all rows right. *)
LEMMA ShowIs ==
  ASSUME NEW x, NEW c \in Ctls, Typed(x), Placed(x), Named(x), MapOk(x),
         NEW s \in Sheets, Off(x, c, s), NEW h \in 0 .. Top(x, c) + 1, FreeIds(x, c) # {},
         \A y \in Rows : Solid(x, s, y) \/ \E b \in Sheets : OpaqueIn(x, c, y, b)
  PROVE  /\ ShowDone(x, Show(x, s, h), s, c, h)
         /\ (\A y \in Rows : Solid(x, s, y) /\ \A t \in Sheets : ~ OpaqueIn(x, c, y, t)) =>
              \A y \in Rows : RowOk(Show(x, s, h), y)
<1> DEFINE n == Top(x, c) + 1
           i == Free1(x, c)
           q == ShowStack(x, c, s, h)
           H == ShowHeights(x, c, s, h)
           e0 == [x EXCEPT !.stack[c] = InsertAt(@, h + 1, s), !.height[s] = h,
                           !.sid[c][i] = s, !.id[s] = i]
           e == Numbered(e0, c, h + 1, Top(e0, c))
           z == Show(x, s, h)
<1>0. Desk(x)
  BY DEF Typed
<1>1. n \in Nat /\ h \in 0 .. n /\ h \in Int /\ x.height[s] = -1 /\ x.ctl[s] = c /\ i \in Ids
      /\ Top(x, c) = n - 1 /\ Top(x, c) + 1 = n
  <2>1. n \in Nat
    BY Places
  <2>2. x.stack[c] \in Seq(Sheets)
    BY DEF Typed
  <2>3. Top(x, c) = n - 1 /\ Top(x, c) + 1 = n /\ h \in 0 .. n /\ h \in Int
    BY <2>1, <2>2 DEF Top
  <2> QED BY <2>1, <2>3, FreeIdIs DEF Off
<1>2. z = Drawn(e, s)
  BY <1>1 DEF Show, Free1
<1>3. /\ q \in Seq(Sheets) /\ Len(q) = n + 1
      /\ \A p \in 0 .. n : q[p + 1] = IF p < h THEN At(x, c, p) ELSE IF p = h THEN s ELSE At(x, c, p - 1)
  <2>1. /\ q \in Seq(Sheets) /\ Len(q) = Top(x, c) + 2
        /\ \A p \in 0 .. Top(x, c) + 1 :
             q[p + 1] = IF p < h THEN At(x, c, p) ELSE IF p = h THEN s ELSE At(x, c, p - 1)
    BY ShownStack
  <2> HIDE DEF q, n
  <2> QED BY <1>1, <2>1
<1>4. \A t \in Sheets : H[t] = IF t = s THEN h
                               ELSE IF On(x, c, t) /\ x.height[t] >= h THEN x.height[t] + 1
                               ELSE x.height[t]
  BY DEF ShowHeights
<1>4a. H \in [Sheets -> Int]
  BY <1>1 DEF ShowHeights, Typed
<1> HIDE DEF i
<1> DEFINE st == [x.stack EXCEPT ![c] = q]
           K == [x.height EXCEPT ![s] = h]
           sd == [x.sid EXCEPT ![c][i] = s]
           J == [x.id EXCEPT ![s] = i]
<1>5. /\ Desk(e0) /\ e0.stack = st /\ e0.height = K /\ e0.sid = sd /\ e0.id = J
      /\ e0.map = x.map /\ e0.vram = x.vram
      /\ e0.ctl = x.ctl /\ e0.y = x.y /\ e0.buf = x.buf /\ e0.used = x.used
  BY <1>0 DEF Desk, Keys, ShowStack
<1> HIDE DEF e0, q, H
<1>5a. /\ sd \in [Ctls -> [Ids -> Sheets \cup {None}]]
       /\ \A b \in Ctls, k \in Ids : sd[b][k] = IF b = c /\ k = i THEN s ELSE x.sid[b][k]
       /\ J \in [Sheets -> Ids] /\ \A t \in Sheets : J[t] = IF t = s THEN i ELSE x.id[t]
  BY <1>1 DEF Typed
<1>5b. st \in [Ctls -> Seq(Sheets)] /\ K \in [Sheets -> Int]
  BY <1>1, <1>3 DEF Typed
<1> HIDE DEF sd, J
<1>6. Typed(e0) /\ Top(e0, c) = n
  <2>1. Typed(e0)
    <3> HIDE DEF st, K
    <3> QED BY <1>5, <1>5a, <1>5b DEF Typed
  <2>2. e0.stack[c] = q
    BY <1>5 DEF Typed
  <2>3. Top(e0, c) = Len(q) - 1
    BY <2>2 DEF Top
  <2> QED BY <1>1, <1>3, <2>1, <2>3
<1>7. NumbersTo(e0.stack[c], h + 1, n, H, e0.height)
  <2>1. e0.stack[c] = q /\ \A t \in Sheets : e0.height[t] = IF t = s THEN h ELSE x.height[t]
    BY <1>5 DEF Typed
  <2> HIDE DEF n
  <2>2. ASSUME NEW k \in h + 1 .. n
        PROVE  q[k + 1] = At(x, c, k - 1) /\ H[q[k + 1]] = k
    <3>1. k \in 0 .. n /\ k - 1 \in 0 .. Top(x, c) /\ ~ (k < h) /\ k # h /\ k - 1 >= h /\ (k - 1) + 1 = k
      BY <1>1
    <3>2. q[k + 1] = At(x, c, k - 1)
      BY <1>3, <3>1
    <3> DEFINE t == At(x, c, k - 1)
    <3>3. t \in Sheets /\ On(x, c, t) /\ x.height[t] = k - 1
      BY <3>1, Places
    <3>4. t # s
      BY <1>1, <3>1, <3>3
    <3> HIDE DEF t
    <3>5. H[t] = k
      BY <1>4, <3>1, <3>3, <3>4
    <3> QED BY <3>2, <3>5 DEF t
  <2>3. ASSUME NEW t \in Sheets, \A k \in h + 1 .. n : q[k + 1] # t
        PROVE  H[t] = e0.height[t]
    <3>1. CASE t = s
      BY <1>4, <2>1, <3>1
    <3>2. CASE t # s /\ ~ On(x, c, t)
      BY <1>4, <2>1, <3>2
    <3>3. CASE t # s /\ On(x, c, t)
      <4> DEFINE k == x.height[t]
      <4>1. k \in 0 .. Top(x, c) /\ At(x, c, k) = t
        BY <3>3, Places
      <4>2. ~ (k >= h)
        <5>1. CASE k >= h
          <6>1. k + 1 \in h + 1 .. n /\ (k + 1) - 1 = k
            BY <1>1, <4>1, <5>1
          <6>2. q[(k + 1) + 1] = At(x, c, (k + 1) - 1)
            BY <2>2, <6>1
          <6> QED BY <2>3, <4>1, <6>1, <6>2
        <5> QED BY <5>1
      <4> QED BY <1>4, <2>1, <3>3, <4>2
    <3> QED BY <3>1, <3>2, <3>3
  <2> QED BY <2>1, <2>2, <2>3 DEF NumbersTo
<1>8. Typed(e) /\ SameRest(e0, e) /\ e.stack = e0.stack /\ e.height = H /\ e.sid = e0.sid /\ e.id = e0.id
  <2> DEFINE l == h + 1
  <2>1. l \in Int /\ n \in Int /\ NumbersTo(e0.stack[c], l, n, H, e0.height) /\ e = Numbered(e0, c, l, n)
    BY <1>1, <1>6, <1>7
  <2> HIDE DEF l, n, e
  <2> QED BY <1>4a, <1>6, <2>1, NumberedIs
<1> HIDE DEF e, z
<1>9. Shown(x, e, s, c, h)
  <2>1. e.stack[c] = q /\ \A b \in Ctls : b # c => e.stack[b] = x.stack[b]
    BY <1>5, <1>8 DEF Typed
  <2>2. SameRest(x, e)
    BY <1>5, <1>8 DEF SameRest
  <2>3. e.sid = sd /\ e.id = J
    BY <1>5, <1>8
  <2> QED BY <1>5a, <1>8, <2>1, <2>2, <2>3 DEF Shown, Restacked, q, H, i
<1>10. /\ Typed(e) /\ Placed(e) /\ Top(e, c) = Top(x, c) + 1 /\ e.height[s] = h
       /\ e.y = x.y /\ e.buf = x.buf /\ e.ctl = x.ctl
       /\ e.map = x.map /\ e.vram = x.vram /\ e.used = x.used
       /\ \A b \in Ctls, t \in Sheets : On(e, b, t) <=> On(x, b, t) \/ (t = s /\ b = c)
       /\ \A t \in Sheets : On(x, c, t) => x.height[t] \in 0 .. Top(x, c) /\ t # s
  BY <1>9, ShownPlaces
<1>11. /\ Moved(x, e, s, c) /\ Named(e)
       /\ \A b \in Ctls, y \in Rows, t \in Sheets : OpaqueIn(x, b, y, t) => OpaqueIn(e, b, y, t)
       /\ \A y : \A t \in Sheets : Cell(e, t, y) = Cell(x, t, y) /\ (Covers(e, t, y) <=> Covers(x, t, y))
  BY <1>9, ShownMoves
<1>11a. Based(e, c)
  <2>1. ASSUME NEW y \in Rows
        PROVE  \E b \in Sheets : OpaqueIn(e, c, y, b)
    <3>1. CASE Solid(x, s, y)
      BY <1>10, <1>11, <3>1 DEF OpaqueIn, Solid
    <3> QED BY <1>11, <3>1
  <2> QED BY <2>1 DEF Based
<1>12. z = Refreshsub(Refreshmap(e, c, Extent(e, s), h), c, Extent(e, s), h, h)
  BY <1>1, <1>2, <1>10 DEF Drawn
(* s was not there, so a row whose topmost sheet is another keeps it. *)
<1>13. ASSUME NEW y \in Rows, NEW w \in Sheets, TopIn(e, c, y, w), w # s
       PROVE  /\ TopIn(x, c, y, w) /\ e.id[w] = x.id[w] /\ Cell(e, w, y) = Cell(x, w, y)
              /\ \A g \in Sheets : GlassOver(x, c, y, w, g) => GlassOver(e, c, y, w, g)
  <2>1. ~ On(x, c, s)
    BY <1>10
  <2>2. ~ OpaqueIn(x, c, y, s) /\ ~ GlassOver(x, c, y, w, s)
    BY <2>1 DEF OpaqueIn, GlassOver, GlassIn
  <2> QED BY <1>10, <1>11, <1>13, <2>2, KeptOther
<1>14. ASSUME NEW y \in Rows
       PROVE  Repaints(e, c, Extent(e, s), h, h, y) \/ Kept(x, e, c, y)
  <2>1. CASE TopIn(e, c, y, s)
    <3>1. y \in Extent(e, s)
      BY <2>1 DEF TopIn, OpaqueIn, Covers, Extent, Band
    <3>2. e.height[s] \in h .. h
      BY <1>1, <1>10
    <3> QED BY <2>1, <3>1, <3>2 DEF Repaints
  <2>2. CASE ~ TopIn(e, c, y, s)
    BY <1>13, <2>2 DEF Kept, TopKept, GlassKept
  <2> QED BY <2>1, <2>2
<1> DEFINE R == Extent(e, s)
<1>15. /\ SameSheets(e, z) /\ Drawable(z, c)
       /\ \A y \in Rows : Repaints(e, c, R, h, h, y) \/ RowOk(x, y) => RowOk(z, y)
  <2>1. h \in Nat /\ h \in Int /\ h <= Top(e, c) /\ h <= h
    BY <1>1, <1>10
  <2>2. /\ \A y \in Rows : Repaints(e, c, R, h, h, y) \/ Kept(x, e, c, y)
        /\ z = Refreshsub(Refreshmap(e, c, R, h), c, R, h, h)
    BY <1>12, <1>14
  <2>3. Typed(e) /\ Placed(e) /\ e.vram = x.vram /\ e.map = x.map
    BY <1>10
  <2> HIDE DEF R
  <2> QED BY <1>11, <1>11a, <2>1, <2>2, <2>3, RedrawKept
<1>16. z.height = H /\ z.ctl = x.ctl /\ z.y = x.y /\ z.buf = x.buf /\ z.used = x.used
       /\ z.stack = e.stack /\ z.sid = sd /\ z.id = J
  BY <1>5, <1>8, <1>10, <1>15 DEF SameSheets
<1>17. Top(z, c) = Top(x, c) + 1
  BY <1>10, <1>15, SameSeen
<1>18. \A b \in Ctls : b # c => z.stack[b] = x.stack[b]
  BY <1>9, <1>16 DEF Shown, Restacked
<1>19. ShowDone(x, z, s, c, h)
  BY <1>5a, <1>15, <1>16, <1>17, <1>18 DEF ShowDone, H, i
<1>20. ASSUME \A y \in Rows : Solid(x, s, y) /\ \A t \in Sheets : ~ OpaqueIn(x, c, y, t),
              NEW y \in Rows
       PROVE  RowOk(z, y)
  <2>1. \A w \in Sheets : TopIn(e, c, y, w) => w = s
    BY <1>13, <1>20 DEF TopIn
  <2>2. PICK b \in Sheets : OpaqueIn(e, c, y, b)
    BY <1>11a DEF Based
  <2>3. PICK w \in Sheets : TopIn(e, c, y, w)
    BY <1>10, <2>2, TopExists
  <2>4. TopIn(e, c, y, s)
    BY <2>1, <2>3
  <2>5. y \in R
    BY <2>4 DEF TopIn, OpaqueIn, Covers, Extent, Band
  <2>6. e.height[s] \in h .. h
    BY <1>1, <1>10
  <2>7. Repaints(e, c, R, h, h, y)
    BY <2>4, <2>5, <2>6 DEF Repaints
  <2> QED BY <1>15, <2>7
<1> QED BY <1>19, <1>20 DEF z

-----------------------------------------------------------------------------
\* A sheet slides, or is drawn on.

(* What a slide leaves, drawn. *)
SlideDone(x, z, s, c, y1) ==
  /\ Drawable(z, c) /\ z.y = [x.y EXCEPT ![s] = y1]
  /\ z.stack = x.stack /\ z.height = x.height /\ z.sid = x.sid /\ z.id = x.id
  /\ z.ctl = x.ctl /\ z.buf = x.buf /\ z.used = x.used
  /\ \A y \in Rows : RowOk(x, y) => RowOk(z, y)

(* sheet_slide: both places of s are painted. *)
LEMMA SlideIs ==
  ASSUME NEW x, NEW c \in Ctls, Drawable(x, c), NEW s \in Sheets, On(x, c, s), NEW y1 \in Int,
         \A y \in Rows : \E b \in Sheets : b # s /\ OpaqueIn(x, c, y, b)
  PROVE  SlideDone(x, Slide(x, s, y1), s, c, y1)
<1> DEFINE h == x.height[s]
           e == [x EXCEPT !.y[s] = y1]
           R0 == Extent(x, s)
           R1 == Extent(e, s)
           m1 == Refreshmap(e, c, R0, 0)
           m == Refreshmap(m1, c, R1, h)
           p == Refreshsub(m, c, R0, 0, h - 1)
           z == Slide(x, s, y1)
<1>0. Typed(x) /\ Placed(x) /\ Named(x) /\ Based(x, c) /\ MapOk(x) /\ Desk(x)
  BY DEF Drawable, Typed
<1>1. h \in 0 .. Top(x, c) /\ Top(x, c) \in Int /\ x.ctl[s] = c /\ h >= 0
  <2>1. h \in 0 .. Top(x, c)
    BY <1>0, Places
  <2>2. x.stack[c] \in Seq(Sheets)
    BY <1>0 DEF Typed
  <2> QED BY <2>1, <2>2 DEF Top, On
<1>2. z = Refreshsub(p, c, R1, h, h)
  BY <1>1 DEF Slide
<1> DEFINE Y == [x.y EXCEPT ![s] = y1]
<1>3. /\ Desk(e) /\ e.y = Y
      /\ e.stack = x.stack /\ e.sid = x.sid /\ e.map = x.map /\ e.vram = x.vram
      /\ e.height = x.height /\ e.id = x.id /\ e.ctl = x.ctl /\ e.buf = x.buf /\ e.used = x.used
  BY <1>0 DEF Desk, Keys
<1> HIDE DEF e
<1>4. Y \in [Sheets -> Int] /\ \A t \in Sheets : Y[t] = IF t = s THEN y1 ELSE x.y[t]
  BY <1>0 DEF Typed
<1> HIDE DEF Y
<1>5. Typed(e)
  BY <1>0, <1>3, <1>4 DEF Typed
<1>6. Placed(e) /\ Named(e)
  BY <1>0, <1>3 DEF Placed, Named
<1>7. /\ \A b, t : On(e, b, t) <=> On(x, b, t)
      /\ \A t \in Sheets : t # s => \A y : Cell(e, t, y) = Cell(x, t, y) /\ (Covers(e, t, y) <=> Covers(x, t, y))
  BY <1>3, <1>4 DEF On, Cell, Covers
<1>8. Moved(x, e, s, c)
  <2>1. Others(x, e, s)
    BY <1>3, <1>4 DEF Others
  <2>2. Ordered(x, e, s, c)
    BY <1>3 DEF Ordered
  <2>3. \A b \in Ctls : b # c => ~ On(x, b, s)
    BY <1>1 DEF On
  <2> QED BY <1>7, <2>1, <2>2, <2>3 DEF Moved
<1>9. Based(e, c)
  BY <1>7 DEF Based, OpaqueIn
<1>10. Top(e, c) = Top(x, c)
  BY <1>3 DEF Top
<1>11. \A y \in Rows : (Covers(x, s, y) => y \in R0) /\ (Covers(e, s, y) => y \in R1)
  BY DEF Covers, Extent, Band
(* A row that shows another sheet than s does so as before, but where s *)
(* was above it. *)
<1>12. ASSUME NEW y \in Rows, NEW w \in Sheets, TopIn(e, c, y, w), w # s,
              y \in R0 => e.height[w] >= h
       PROVE  /\ TopIn(x, c, y, w) /\ e.id[w] = x.id[w] /\ Cell(e, w, y) = Cell(x, w, y)
              /\ \A g \in Sheets : GlassOver(x, c, y, w, g) => GlassOver(e, c, y, w, g)
  <2>1. On(x, c, w) /\ On(e, c, w)
    BY <1>12, <1>7 DEF TopIn, OpaqueIn
  <2>2. x.height[w] # h /\ x.height[w] \in Int
    BY <1>0, <1>12, <2>1, SameHeight DEF Typed
  <2>3. OpaqueIn(x, c, y, s) => x.height[s] < x.height[w]
    <3>1. Covers(x, s, y) => h < x.height[w]
      BY <1>1, <1>3, <1>11, <1>12, <2>2
    <3> QED BY <3>1 DEF OpaqueIn
  <2>4. ~ GlassOver(x, c, y, w, s)
    <3>1. Covers(x, s, y) => h < x.height[w]
      BY <1>1, <1>3, <1>11, <1>12, <2>2
    <3> QED BY <1>1, <2>2, <3>1 DEF GlassOver, GlassIn
  <2> QED BY <1>0, <1>5, <1>8, <1>12, <2>3, <2>4, KeptOther
<1>13. ASSUME NEW y \in Rows
       PROVE  \/ y \in R1 /\ TopIn(e, c, y, s)
              \/ y \in R0 /\ \E w \in Sheets : TopIn(e, c, y, w) /\ e.height[w] \in 0 .. h - 1
              \/ Kept(x, e, c, y)
  <2>1. CASE TopIn(e, c, y, s)
    BY <1>11, <2>1 DEF TopIn, OpaqueIn
  <2>2. CASE ~ TopIn(e, c, y, s)
    <3>1. PICK b \in Sheets : OpaqueIn(e, c, y, b)
      BY <1>9 DEF Based
    <3>2. PICK w \in Sheets : TopIn(e, c, y, w)
      BY <1>5, <1>6, <3>1, TopExists
    <3>3. w # s
      BY <2>2, <3>2
    <3>4. e.height[w] \in Int /\ e.height[w] >= 0
      BY <1>5, <3>2 DEF Typed, TopIn, OpaqueIn, On
    <3>5. CASE y \in R0 /\ e.height[w] < h
      BY <1>1, <3>2, <3>4, <3>5
    <3>6. CASE ~ (y \in R0 /\ e.height[w] < h)
      <4>1. y \in R0 => e.height[w] >= h
        BY <1>1, <3>4, <3>6
      <4>2. \A v \in Sheets : TopIn(e, c, y, v) => v = w
        BY <1>5, <1>6, <3>2, OneTop
      <4> QED BY <1>12, <3>2, <3>3, <4>1, <4>2 DEF Kept, TopKept, GlassKept
    <3> QED BY <3>5, <3>6
  <2> QED BY <2>1, <2>2
(* The maps. *)
<1>14. /\ Typed(m1) /\ SameSheets(e, m1) /\ m1.vram = e.vram /\ MapIs(e, m1, c, R0, 0)
  BY <1>5, RefreshmapIs
<1> HIDE DEF m1
<1>15. /\ Typed(m) /\ SameSheets(m1, m) /\ m.vram = m1.vram /\ MapIs(m1, m, c, R1, h)
  BY <1>14, RefreshmapIs
<1> HIDE DEF m
<1>16. /\ \A b \in Ctls, y \in Rows : Mapped(e, b, y) => Mapped(m1, b, y)
       /\ \A y \in R0 \cap Rows, v \in Sheets : TopIn(e, c, y, v) /\ e.height[v] >= 0 => Mapped(m1, c, y)
  <2>1. 0 \in Nat
    OBVIOUS
  <2> HIDE DEF R0
  <2> QED BY <1>5, <1>6, <1>14, <2>1, RefreshmapMaps
<1>17. Placed(m1) /\ (\A y : TopIn(m1, c, y, s) <=> TopIn(e, c, y, s)) /\ m1.height = e.height
  BY <1>6, <1>14, SameSeen DEF SameSheets
<1>18. /\ \A b \in Ctls, y \in Rows : Mapped(m1, b, y) => Mapped(m, b, y)
       /\ \A y \in R1 \cap Rows, v \in Sheets : TopIn(m1, c, y, v) /\ m1.height[v] >= h => Mapped(m, c, y)
  <2>1. h \in Nat
    BY <1>1
  <2> HIDE DEF R1, h
  <2>2. Typed(m1) /\ Placed(m1) /\ SameSheets(m1, m) /\ MapIs(m1, m, c, R1, h)
    BY <1>14, <1>15, <1>17
  <2> QED BY <2>1, <2>2, RefreshmapMaps
<1>19. SameSheets(e, m)
  BY <1>14, <1>15 DEF SameSheets
<1>20. MapOk(m)
  <2>1. /\ \A b \in Ctls, y \in Rows : b # c => Mapped(e, b, y)
        /\ \A y \in Rows : TopKept(x, e, c, y) => Mapped(e, c, y)
    BY <1>0, <1>3, <1>8, ChangedMaps
  <2>2. ASSUME NEW y \in Rows
        PROVE  Mapped(m, c, y)
    <3>1. CASE y \in R1 /\ TopIn(e, c, y, s)
      <4>1. m1.height[s] >= h
        BY <1>1, <1>3, <1>17
      <4> QED BY <1>17, <1>18, <3>1, <4>1
    <3>2. CASE y \in R0 /\ \E w \in Sheets : TopIn(e, c, y, w) /\ e.height[w] \in 0 .. h - 1
      <4>1. PICK w \in Sheets : TopIn(e, c, y, w) /\ e.height[w] \in 0 .. h - 1
        BY <3>2
      <4>2. e.height[w] >= 0
        BY <1>1, <4>1
      <4> QED BY <1>16, <1>18, <3>2, <4>1, <4>2
    <3>3. CASE Kept(x, e, c, y)
      BY <1>16, <1>18, <2>1, <3>3 DEF Kept
    <3> QED BY <1>13, <3>1, <3>2, <3>3
  <2> QED BY <1>16, <1>18, <2>1, <2>2 DEF MapOk
<1>21. Drawable(m, c) /\ Top(m, c) = Top(x, c)
  BY <1>6, <1>9, <1>10, <1>15, <1>19, <1>20, SameSeen DEF Drawable
(* The screen. *)
<1> DEFINE l == h - 1
<1>22. /\ SameSheets(m, p) /\ Drawable(p, c)
       /\ \A y \in Rows : RowOk(m, y) \/ PaintedRow(m, c, R0, 0, l, y) => RowOk(p, y)
  <2>1. 0 \in Nat /\ l \in Int /\ l <= Top(m, c) /\ p = Refreshsub(m, c, R0, 0, l)
    BY <1>1, <1>21
  <2> HIDE DEF l, p, R0, h
  <2> QED BY <1>21, <2>1, Redrawn
<1> HIDE DEF p
<1>23. /\ SameSheets(p, z) /\ Drawable(z, c)
       /\ \A y \in Rows : RowOk(p, y) \/ PaintedRow(p, c, R1, h, h, y) => RowOk(z, y)
  <2>1. Top(p, c) = Top(x, c)
    BY <1>21, <1>22, SameSeen
  <2>2. h \in Nat /\ h \in Int /\ h <= Top(p, c)
    BY <1>1, <2>1
  <2> HIDE DEF z, R1, h
  <2> QED BY <1>2, <1>22, <2>2, Redrawn
<1>24. SameSheets(e, p)
  BY <1>19, <1>22 DEF SameSheets
<1>25. ASSUME NEW y \in Rows, RowOk(x, y)
       PROVE  RowOk(z, y)
  <2>1. CASE y \in R1 /\ TopIn(e, c, y, s)
    <3>1. Paints(p, c, y, s) /\ p.height[s] = h
      BY <1>3, <1>24, <2>1, SameSeen DEF SameSheets, Paints
    <3>2. p.height[s] \in h .. h
      BY <1>1, <3>1
    <3> QED BY <1>23, <2>1, <3>1, <3>2 DEF PaintedRow
  <2>2. CASE y \in R0 /\ \E w \in Sheets : TopIn(e, c, y, w) /\ e.height[w] \in 0 .. h - 1
    <3>1. PICK w \in Sheets : TopIn(e, c, y, w) /\ e.height[w] \in 0 .. h - 1
      BY <2>2
    <3>2. Paints(m, c, y, w) /\ m.height[w] = e.height[w]
      BY <1>19, <3>1, SameSeen DEF SameSheets, Paints
    <3>3. PaintedRow(m, c, R0, 0, h - 1, y)
      BY <2>2, <3>1, <3>2 DEF PaintedRow
    <3> QED BY <1>22, <1>23, <3>3
  <2>3. CASE Kept(x, e, c, y)
    <3>1. RowOk(e, y)
      BY <1>0, <1>3, <1>5, <1>6, <1>8, <1>9, <1>25, <2>3, ChangedRows DEF Kept
    <3>2. m.vram[y] = e.vram[y]
      BY <1>14, <1>15
    <3>3. RowOk(m, y)
      BY <1>19, <3>1, <3>2, RowSame
    <3> QED BY <1>22, <1>23, <3>3
  <2> QED BY <1>13, <2>1, <2>2, <2>3
<1>26. SameSheets(e, z)
  BY <1>23, <1>24 DEF SameSheets
<1>27. SlideDone(x, z, s, c, y1)
  BY <1>3, <1>23, <1>25, <1>26 DEF SlideDone, SameSheets, Y
<1> QED BY <1>27 DEF z

(* From x to e only a sheet changes that is out of sight. *)
OffChange(x, e, s) ==
  /\ e.stack = x.stack /\ e.height = x.height /\ e.sid = x.sid /\ e.id = x.id
  /\ e.map = x.map /\ e.vram = x.vram /\ x.height[s] < 0
  /\ \A t \in Sheets : t # s => e.ctl[t] = x.ctl[t] /\ e.y[t] = x.y[t] /\ e.buf[t] = x.buf[t]

(* Nothing of it is seen. *)
LEMMA OffUnseen ==
  ASSUME NEW x, NEW e, NEW s \in Sheets, OffChange(x, e, s), Typed(x), Placed(x)
  PROVE  /\ \A b : \A t \in Sheets : On(e, b, t) <=> On(x, b, t)
         /\ Placed(e)
         /\ Named(x) => Named(e)
         /\ Listed(x) => Listed(e)
         /\ MapOk(x) => MapOk(e)
         /\ \A y \in Rows : RowOk(x, y) => RowOk(e, y)
         /\ \A c : Top(e, c) = Top(x, c)
<1> USE DEF OffChange
<1>1. \A b : \A t \in Sheets : On(e, b, t) <=> On(x, b, t)
  <2>1. x.height[s] \in Int
    BY DEF Typed
  <2>2. ~ (x.height[s] >= 0)
    BY <2>1
  <2> QED BY <2>2 DEF On
<1>2. \A t \in Sheets : t # s =>
        /\ \A y : Covers(e, t, y) <=> Covers(x, t, y)
        /\ \A y : Cell(e, t, y) = Cell(x, t, y)
  BY DEF Covers, Cell
<1>2a. \A b : ~ On(x, b, s) /\ ~ On(e, b, s)
  BY <1>1 DEF On, Typed
<1>3. \A b, y : \A t \in Sheets : OpaqueIn(e, b, y, t) <=> OpaqueIn(x, b, y, t)
  BY <1>1, <1>2, <1>2a DEF OpaqueIn
<1>4. \A b, y : \A t \in Sheets : GlassIn(e, b, y, t) <=> GlassIn(x, b, y, t)
  BY <1>1, <1>2, <1>2a DEF GlassIn
<1>5. \A b, y : \A t \in Sheets : TopIn(e, b, y, t) <=> TopIn(x, b, y, t)
  BY <1>3 DEF TopIn
<1>6. \A b, y : \A t \in Sheets, g \in Sheets : GlassOver(e, b, y, t, g) <=> GlassOver(x, b, y, t, g)
  BY <1>4 DEF GlassOver
<1>7. Placed(e)
  <2>1. ASSUME NEW b \in Ctls, NEW k \in 1 .. Len(e.stack[b])
        PROVE  e.height[e.stack[b][k]] = k - 1 /\ e.ctl[e.stack[b][k]] = b
    <3>1. k \in 1 .. Len(x.stack[b]) /\ x.stack[b][k] \in Sheets
      <4>1. x.stack[b] \in Seq(Sheets)
        BY DEF Typed
      <4> QED BY <2>1, <4>1
    <3>2. x.height[x.stack[b][k]] = k - 1 /\ x.ctl[x.stack[b][k]] = b
      BY <3>1 DEF Placed
    <3>3. k - 1 >= 0
      <4>1. x.stack[b] \in Seq(Sheets)
        BY DEF Typed
      <4> QED BY <3>1, <4>1
    <3>4. x.stack[b][k] # s
      BY <3>2, <3>3
    <3> QED BY <3>1, <3>2, <3>4
  <2>2. ASSUME NEW t \in Sheets
        PROVE  /\ e.height[t] >= -1
               /\ e.height[t] >= 0 => /\ e.height[t] + 1 \in 1 .. Len(e.stack[e.ctl[t]])
                                      /\ e.stack[e.ctl[t]][e.height[t] + 1] = t
    <3>1. CASE t = s
      BY <3>1 DEF Placed, Typed
    <3>2. CASE t # s
      BY <3>2 DEF Placed
    <3> QED BY <3>1, <3>2
  <2> QED BY <2>1, <2>2 DEF Placed
<1>8. Named(x) => Named(e)
  <2>1. ASSUME Named(x), NEW t \in Sheets, e.height[t] >= 0
        PROVE  e.sid[e.ctl[t]][e.id[t]] = t
    <3>1. t # s
      BY <2>1 DEF Typed
    <3> QED BY <2>1, <3>1 DEF Named
  <2> QED BY <2>1 DEF Named
<1>9. Listed(x) => Listed(e)
  <2>1. ASSUME Listed(x), NEW b \in Ctls, NEW i \in Ids, e.sid[b][i] # None
        PROVE  On(e, b, e.sid[b][i]) /\ e.id[e.sid[b][i]] = i
    <3>1. On(x, b, x.sid[b][i]) /\ x.id[x.sid[b][i]] = i
      BY <2>1 DEF Listed
    <3>2. x.sid[b][i] \in Sheets
      BY <3>1 DEF On
    <3> QED BY <1>1, <3>1, <3>2
  <2> QED BY <2>1 DEF Listed
<1>10. MapOk(x) => MapOk(e)
  BY <1>5 DEF MapOk, Mapped
<1>11. \A y \in Rows : RowOk(x, y) => RowOk(e, y)
  <2>1. ASSUME NEW y \in Rows, RowOk(x, y)
        PROVE  RowOk(e, y)
    <3>1. PICK c \in Ctls : Shows(x, c, y)
      BY <2>1 DEF RowOk
    <3>2. PICK w \in Sheets : /\ TopIn(x, c, y, w)
                              /\ x.vram[y] = Cell(x, w, y) \/ (x.vram[y] = Mix /\ \E g \in Sheets : GlassOver(x, c, y, w, g))
      BY <3>1 DEF Shows
    <3>3. w # s
      BY <1>2a, <3>2 DEF TopIn, OpaqueIn
    <3> QED BY <1>2, <1>5, <1>6, <3>2, <3>3 DEF RowOk, Shows
  <2> QED BY <2>1
<1> QED BY <1>1, <1>7, <1>8, <1>9, <1>10, <1>11 DEF Top

-----------------------------------------------------------------------------

(* What drawing a cell leaves. *)
DrawDone(x, z, s, c, B) ==
  /\ Drawable(z, c) /\ z.buf = [x.buf EXCEPT ![s] = B]
  /\ z.stack = x.stack /\ z.height = x.height /\ z.sid = x.sid /\ z.id = x.id
  /\ z.ctl = x.ctl /\ z.y = x.y /\ z.used = x.used
  /\ \A y \in Rows : RowOk(x, y) => RowOk(z, y)

(* One opaque cell of a sheet gets another colour. *)
LEMMA DrawIs ==
  ASSUME NEW x, NEW c \in Ctls, Drawable(x, c), NEW s \in Sheets, On(x, c, s),
         NEW i \in Nat, NEW T, x.buf[s] \in Seq(T), i + 1 <= Len(x.buf[s]), NEW v \in T,
         Opaque(v), Opaque(x.buf[s][i + 1])
  PROVE  DrawDone(x, Refresh([x EXCEPT !.buf[s][i + 1] = v], s, i, i + 1), s, c,
                  [x.buf[s] EXCEPT ![i + 1] = v])
<1> DEFINE h == x.height[s]
           a == x.buf[s]
           B == [a EXCEPT ![i + 1] = v]
           e == [x EXCEPT !.buf[s][i + 1] = v]
           R == Band(x.y[s] + i, x.y[s] + (i + 1))
           z == Refresh(e, s, i, i + 1)
<1>0. Typed(x) /\ Placed(x) /\ Named(x) /\ Based(x, c) /\ MapOk(x) /\ Desk(x)
  BY DEF Drawable, Typed
<1>1. h \in 0 .. Top(x, c) /\ Top(x, c) \in Int /\ x.ctl[s] = c /\ h >= 0
  <2>1. h \in 0 .. Top(x, c)
    BY <1>0, Places
  <2>2. x.stack[c] \in Seq(Sheets)
    BY <1>0 DEF Typed
  <2> QED BY <2>1, <2>2 DEF Top, On
<1> DEFINE C == [x.buf EXCEPT ![s] = B]
<1>2. /\ Desk(e) /\ e.buf = C
      /\ e.stack = x.stack /\ e.sid = x.sid /\ e.map = x.map /\ e.vram = x.vram
      /\ e.height = x.height /\ e.id = x.id /\ e.ctl = x.ctl /\ e.y = x.y /\ e.used = x.used
  BY <1>0 DEF Desk, Keys
<1>3. a \in Seq(T) /\ Len(B) = Len(a) /\ \A k \in 1 .. Len(a) : B[k] = IF k = i + 1 THEN v ELSE a[k]
  OBVIOUS
<1>3a. Opaque(v) /\ Opaque(a[i + 1]) /\ i + 1 \in 1 .. Len(a) /\ Len(a) \in Nat
  OBVIOUS
<1> HIDE DEF e, B, a
<1>4. C = [t \in Sheets |-> C[t]] /\ C[s] = B /\ \A t \in Sheets : t # s => C[t] = x.buf[t]
  BY <1>0 DEF Typed
<1> HIDE DEF C
<1>5. Typed(e)
  <2>1. e.map = [b \in Ctls |-> [y \in Rows |-> e.map[b][y]]] /\ e.vram = [y \in Rows |-> e.vram[y]]
    BY <1>0, <1>2 DEF Typed
  <2>2. e.buf = [t \in Sheets |-> e.buf[t]]
    BY <1>2, <1>4
  <2> QED BY <1>0, <1>2, <2>1, <2>2 DEF Typed
<1>6. Placed(e) /\ Named(e)
  <2>1. Placed(e)
    BY <1>0, <1>2 DEF Placed
  <2>2. Named(e)
    BY <1>0, <1>2 DEF Named
  <2> QED BY <2>1, <2>2
<1>7. /\ \A b, t : On(e, b, t) <=> On(x, b, t)
      /\ \A t \in Sheets : t # s => \A y : Cell(e, t, y) = Cell(x, t, y)
      /\ \A t \in Sheets : \A y : Covers(e, t, y) <=> Covers(x, t, y)
  <2>1. \A b, t : On(e, b, t) <=> On(x, b, t)
    BY <1>2 DEF On
  <2>2. \A t \in Sheets : t # s => \A y : Cell(e, t, y) = Cell(x, t, y)
    BY <1>2, <1>4 DEF Cell
  <2>3. \A t \in Sheets : Len(e.buf[t]) = Len(x.buf[t])
    BY <1>2, <1>3, <1>4 DEF a
  <2>4. \A t \in Sheets : \A y : Covers(e, t, y) <=> Covers(x, t, y)
    BY <1>2, <2>3 DEF Covers
  <2> QED BY <2>1, <2>2, <2>4
<1>8. x.y[s] \in Int
  BY <1>0 DEF Typed
<1>9. ASSUME NEW y \in Rows, Covers(x, s, y)
      PROVE  /\ y \in R \/ Cell(e, s, y) = Cell(x, s, y)
             /\ Opaque(Cell(e, s, y)) <=> Opaque(Cell(x, s, y))
             /\ Cell(e, s, y) = Glass <=> Cell(x, s, y) = Glass
  <2> DEFINE k == y - x.y[s] + 1
  <2>1. k \in 1 .. Len(a) /\ y \in Int
    <3>1. y \in Int
      BY Kinds
    <3>2. x.y[s] <= y /\ y < x.y[s] + Len(a)
      BY <1>9 DEF Covers, a
    <3> DEFINE y0 == x.y[s]
               n == Len(a)
    <3>3. y0 \in Int /\ n \in Nat /\ y0 <= y /\ y < y0 + n
      BY <1>3a, <1>8, <3>2
    <3> HIDE DEF y0, n
    <3>4. y - y0 + 1 \in 1 .. n
      BY <3>1, <3>3
    <3> QED BY <3>1, <3>4 DEF y0, n
  <2>2. Cell(e, s, y) = B[k] /\ Cell(x, s, y) = a[k]
    BY <1>2, <1>4 DEF Cell, a
  <2>3. CASE k = i + 1
    <3>1. y \in R
      <4> DEFINE y0 == x.y[s]
      <4> HIDE DEF y0
      <4>1. y0 \in Int /\ y \in Int /\ y - y0 + 1 = i + 1
        BY <1>8, <2>1, <2>3 DEF y0
      <4>2. y0 + i <= y /\ y < y0 + (i + 1)
        BY <4>1
      <4> QED BY <4>2 DEF y0, Band
    <3>2. B[k] = v /\ a[k] = a[i + 1]
      BY <1>3, <2>1, <2>3
    <3>3. Cell(e, s, y) = v /\ Cell(x, s, y) = a[i + 1]
      BY <2>2, <3>2
    <3>4. Opaque(Cell(e, s, y)) /\ Opaque(Cell(x, s, y))
      BY <1>3a, <3>3
    <3>5. Cell(e, s, y) # Glass /\ Cell(x, s, y) # Glass
      BY <3>4 DEF Opaque
    <3> QED BY <3>1, <3>4, <3>5
  <2>4. CASE k # i + 1
    BY <1>3, <2>1, <2>2, <2>4
  <2> QED BY <2>3, <2>4
<1>10. \A b, y, t : y \in Rows /\ t \in Sheets =>
         /\ OpaqueIn(e, b, y, t) <=> OpaqueIn(x, b, y, t)
         /\ GlassIn(e, b, y, t) <=> GlassIn(x, b, y, t)
  BY <1>7, <1>9 DEF OpaqueIn, GlassIn
<1>11. \A b, y, t : y \in Rows /\ t \in Sheets => (TopIn(e, b, y, t) <=> TopIn(x, b, y, t))
  BY <1>2, <1>10 DEF TopIn
<1>12. \A b, y, t, g : y \in Rows /\ g \in Sheets => (GlassOver(e, b, y, t, g) <=> GlassOver(x, b, y, t, g))
  BY <1>2, <1>10 DEF GlassOver
<1>13. Based(e, c)
  BY <1>0, <1>10 DEF Based
<1>14. MapOk(e)
  BY <1>0, <1>2, <1>11 DEF MapOk, Mapped
<1>15. Drawable(e, c) /\ Top(e, c) = Top(x, c)
  BY <1>2, <1>5, <1>6, <1>13, <1>14 DEF Drawable, Top
<1>16. z = Refreshsub(e, c, R, h, h)
  BY <1>1, <1>2 DEF Refresh
<1> HIDE DEF z, R, h
<1>17. /\ SameSheets(e, z) /\ Drawable(z, c)
       /\ \A y \in Rows : RowOk(e, y) \/ PaintedRow(e, c, R, h, h, y) => RowOk(z, y)
  <2>1. h \in Nat /\ h \in Int /\ h <= Top(e, c)
    BY <1>1, <1>15
  <2> QED BY <1>15, <1>16, <2>1, Redrawn
(* A row that showed the cell is painted, if it showed this desktop; *)
<1>18. ASSUME NEW y \in Rows, RowOk(x, y)
       PROVE  RowOk(z, y)
  <2>1. PICK b \in Ctls : Shows(x, b, y)
    BY <1>18 DEF RowOk
  <2>2. PICK w \in Sheets :
          /\ TopIn(x, b, y, w)
          /\ x.vram[y] = Cell(x, w, y) \/ (x.vram[y] = Mix /\ \E g \in Sheets : GlassOver(x, b, y, w, g))
    BY <2>1 DEF Shows
  <2>3. CASE Cell(e, w, y) = Cell(x, w, y)
    <3>1. Shows(e, b, y)
      BY <1>2, <1>11, <1>12, <2>2, <2>3 DEF Shows
    <3> QED BY <1>17, <3>1 DEF RowOk
  <2>4. CASE Cell(e, w, y) # Cell(x, w, y)
    <3>1. w = s
      BY <1>7, <2>2, <2>4
    <3>2. b = c /\ Covers(x, s, y)
      BY <1>1, <2>2, <3>1 DEF TopIn, OpaqueIn, On
    <3>3. y \in R
      BY <1>9, <2>4, <3>1, <3>2
    <3>4. TopIn(e, c, y, s)
      BY <1>11, <2>2, <3>1, <3>2
    <3>5. Paints(e, c, y, s)
      BY <3>4 DEF Paints
    <3>6. e.height[s] \in h .. h
      BY <1>1, <1>2 DEF h
    <3> QED BY <1>17, <3>3, <3>5, <3>6 DEF PaintedRow
  <2> QED BY <2>3, <2>4
<1>19. DrawDone(x, z, s, c, B)
  BY <1>2, <1>17, <1>18 DEF DrawDone, SameSheets, C
<1> QED BY <1>19 DEF z, e, B, a

-----------------------------------------------------------------------------
\* The desktops between calls.

(* The backgrounds are at the bottom of their desktops, over all rows. *)
Backed(x) ==
  \A c \in Ctls : /\ x.height[Back(c)] = 0 /\ x.ctl[Back(c)] = c
                  /\ x.y[Back(c)] = 0 /\ x.buf[Back(c)] = BackBuf(c)

(* What holds of the sheets between any two calls of SHEET.C. *)
House(x) ==
  /\ Typed(x) /\ Placed(x) /\ Named(x) /\ Listed(x) /\ MapOk(x)
  /\ \A y \in Rows : RowOk(x, y)
  /\ Backed(x)

(* The sheets that come, go and move. *)
Furniture == Consoles \cup {Mouse}

(* All sheets but the backgrounds. *)
LEMMA FurnitureIs ==
  /\ Furniture \subseteq Sheets
  /\ \A s \in Furniture, c \in Ctls : s # Back(c)
  /\ \A s \in Sheets : (\A c \in Ctls : s # Back(c)) => s \in Furniture
BY DesktopAssumption, Kinds DEF Furniture

(* A background is opaque at every row. *)
LEMMA BackSeen ==
  ASSUME NEW x, Backed(x), NEW c \in Ctls, NEW y \in Rows
  PROVE  OpaqueIn(x, c, y, Back(c)) /\ Solid(x, Back(c), y) /\ On(x, c, Back(c))
<1> DEFINE b == Back(c)
<1>1. x.height[b] = 0 /\ x.ctl[b] = c /\ x.y[b] = 0 /\ x.buf[b] = BackBuf(c)
  BY DEF Backed
<1>2. b \in Sheets /\ b \notin {Clear, Glass}
  BY DesktopAssumption, Kinds
<1>3. y \in 0 .. ScreenRows - 1 /\ ScreenRows \in Nat
  BY DesktopAssumption DEF Rows
<1>4. Len(BackBuf(c)) = ScreenRows /\ BackBuf(c)[y + 1] = b
  BY <1>3 DEF BackBuf
<1>5. Covers(x, b, y)
  BY <1>1, <1>3, <1>4 DEF Covers
<1>6. Cell(x, b, y) = b
  BY <1>1, <1>3, <1>4 DEF Cell
<1> QED BY <1>1, <1>2, <1>5, <1>6 DEF OpaqueIn, Solid, Opaque, On

(* So under every other sheet there is something opaque, and all of them are above
   the background. *)
LEMMA HouseDraws ==
  ASSUME NEW x, House(x), NEW c \in Ctls
  PROVE  /\ Drawable(x, c)
         /\ \A s \in Furniture, y \in Rows : \E b \in Sheets : b # s /\ OpaqueIn(x, c, y, b)
         /\ \A t \in Sheets : On(x, c, t) => (t = Back(c) \/ (t \in Furniture /\ x.height[t] >= 1))
<1>1. Based(x, c)
  BY BackSeen, Kinds DEF House, Based
<1>2. Drawable(x, c)
  BY <1>1 DEF House, Drawable
<1>3. \A s \in Furniture, y \in Rows : \E b \in Sheets : b # s /\ OpaqueIn(x, c, y, b)
  BY BackSeen, FurnitureIs, Kinds DEF House
<1>4. ASSUME NEW t \in Sheets, On(x, c, t), t # Back(c)
      PROVE  t \in Furniture /\ x.height[t] >= 1
  <2>1. \A b \in Ctls : x.height[Back(b)] = 0 /\ x.ctl[Back(b)] = b /\ Back(b) \in Sheets
    BY Kinds DEF House, Backed
  <2>2. t \in Furniture
    BY <1>4, <2>1, FurnitureIs DEF On
  <2>3. On(x, c, Back(c)) /\ Typed(x) /\ Placed(x)
    BY <2>1 DEF On, House
  <2>4. x.height[t] # 0
    BY <1>4, <2>1, <2>3, SameHeight
  <2>5. x.height[t] \in Int /\ x.height[t] >= 0
    BY <1>4, <2>3 DEF Typed, On
  <2> QED BY <2>2, <2>4, <2>5
<1> QED BY <1>2, <1>3, <1>4

(* The consoles are few, with one or two sheets more too. *)
LEMMA ConsolesCount ==
  ASSUME NEW a, NEW b
  PROVE  /\ IsFiniteSet(Consoles \cup {a}) /\ IsFiniteSet((Consoles \cup {a}) \cup {b})
         /\ Cardinality(Consoles) \in Nat
         /\ Cardinality(Consoles \cup {a}) \in Nat
         /\ Cardinality(Consoles \cup {a}) <= Cardinality(Consoles) + 1
<1>1. IsFiniteSet(Consoles)
  BY DesktopAssumption
<1>2. Cardinality(Consoles) \in Nat
  BY <1>1, FS_CardinalityType
<1>3. IsFiniteSet(Consoles \cup {a})
      /\ Cardinality(Consoles \cup {a}) = IF a \in Consoles THEN Cardinality(Consoles) ELSE Cardinality(Consoles) + 1
  BY <1>1, FS_AddElement
<1>4. IsFiniteSet((Consoles \cup {a}) \cup {b})
  BY <1>3, FS_AddElement
<1> QED BY <1>2, <1>3, <1>4

(* A set that a finite set has room for is finite and no larger. *)
LEMMA Injected ==
  ASSUME NEW S, NEW T, IsFiniteSet(T), NEW f \in [S -> T],
         \A i \in S, j \in S : f[i] = f[j] => i = j
  PROVE  IsFiniteSet(S) /\ Cardinality(S) <= Cardinality(T)
<1>1. f \in Injection(S, T)
  BY DEF Injection, IsInjective
<1> QED BY <1>1, FS_Injection

(* A table of ids that lists only the sheets shown has room for another. *)
LEMMA IdIsFree ==
  ASSUME NEW x, Typed(x), Listed(x), NEW c \in Ctls, NEW s \in Furniture \cup {Back(c)}, Off(x, c, s),
         \A b \in Ctls : b # c => ~ On(x, c, Back(b))
  PROVE  FreeIds(x, c) # {}
<1> SUFFICES ASSUME FreeIds(x, c) = {}
             PROVE  FALSE
  OBVIOUS
<1> DEFINE U == (Consoles \cup {Mouse}) \cup {Back(c)}
           T == U \ {s}
           f == x.sid[c]
<1>1. \A i \in Ids : f[i] # None
  BY DEF FreeIds
<1>2. \A i \in Ids : On(x, c, f[i]) /\ x.id[f[i]] = i
  BY <1>1 DEF Listed
<1>3. ~ On(x, c, s)
  BY DEF Off, On
<1>4. \A i \in Ids : f[i] \in T
  <2>1. \A i \in Ids : f[i] \in Sheets /\ f[i] # s
    BY <1>2, <1>3 DEF On
  <2>2. ASSUME NEW i \in Ids
        PROVE  f[i] \in U
    <3>1. f[i] \in Consoles \/ f[i] = Mouse \/ \E b \in Ctls : f[i] = Back(b)
      BY <2>1, Kinds, DesktopAssumption
    <3>2. ASSUME NEW b \in Ctls, f[i] = Back(b)
          PROVE  b = c
      BY <1>2, <3>2
    <3> QED BY <3>1, <3>2
  <2> QED BY <2>1, <2>2
<1>5. f \in [Ids -> T]
  <2>1. x.sid[c] \in [Ids -> Sheets \cup {None}]
    BY DEF Typed
  <2> QED BY <1>4, <2>1
<1>6. IsFiniteSet(Consoles \cup {Mouse}) /\ IsFiniteSet(U) /\ Cardinality(Consoles) \in Nat
      /\ Cardinality(Consoles \cup {Mouse}) <= Cardinality(Consoles) + 1 /\ Cardinality(Consoles \cup {Mouse}) \in Nat
  BY ConsolesCount
<1>7. Cardinality(U) \in Nat /\ Cardinality(U) <= Cardinality(Consoles) + 2
  <2>1. Cardinality(U) = IF Back(c) \in Consoles \cup {Mouse} THEN Cardinality(Consoles \cup {Mouse})
                         ELSE Cardinality(Consoles \cup {Mouse}) + 1
    BY <1>6, FS_AddElement
  <2> QED BY <1>6, <2>1
<1>8. s \in U
  BY DEF Furniture
<1>9. IsFiniteSet(T) /\ Cardinality(T) = Cardinality(U) - 1
  <2>1. IsFiniteSet(U) /\ s \in U
    BY <1>6, <1>8
  <2> HIDE DEF U
  <2>2. IsFiniteSet(U \ {s}) /\ Cardinality(U \ {s}) = IF s \in U THEN Cardinality(U) - 1 ELSE Cardinality(U)
    BY <2>1, FS_RemoveElement
  <2> QED BY <2>1, <2>2
<1>10. \A i \in Ids, j \in Ids : f[i] = f[j] => i = j
  BY <1>2
<1> HIDE DEF T, f
<1>11. Cardinality(Ids) <= Cardinality(T)
  BY <1>5, <1>9, <1>10, Injected
<1>12. MaxSid \in Nat /\ Cardinality(Consoles) + 2 <= MaxSid
  BY DesktopAssumption
<1>13. Cardinality(Ids) = MaxSid
  <2> DEFINE l == MaxSid - 1
  <2>1. 0 \in Int /\ l \in Int
    BY <1>12
  <2>2. Cardinality(0 .. l) = IF 0 > l THEN 0 ELSE l - 0 + 1
    <3> HIDE DEF l
    <3> QED BY <2>1, FS_Interval
  <2>3. Ids = 0 .. l
    BY DEF Ids
  <2> QED BY <1>12, <2>2, <2>3
<1> HIDE DEF U
<1> QED BY <1>6, <1>7, <1>9, <1>11, <1>12, <1>13

(* And the height 254 is above every desktop without the mouse. *)
LEMMA TopBelow ==
  ASSUME NEW x, House(x), NEW c \in Ctls, ~ On(x, c, Mouse)
  PROVE  Top(x, c) + 1 <= 254
<1> DEFINE n == Top(x, c) + 1
           U == Consoles \cup {Back(c)}
           S == 0 .. Top(x, c)
           g == [h \in S |-> At(x, c, h)]
<1>0. Typed(x) /\ Placed(x)
  BY DEF House
<1>1. n \in Nat /\ Top(x, c) = n - 1 /\ Top(x, c) \in Int
  <2>1. n \in Nat
    BY <1>0, Places
  <2>2. x.stack[c] \in Seq(Sheets)
    BY <1>0 DEF Typed
  <2> QED BY <2>1, <2>2 DEF Top
<1>2. \A h \in S : At(x, c, h) \in Sheets /\ On(x, c, At(x, c, h)) /\ x.height[At(x, c, h)] = h
  BY <1>0, Places
<1>3. \A h \in S : At(x, c, h) \in U
  <2>1. \A t \in Sheets : On(x, c, t) => (t = Back(c) \/ t \in Furniture)
    BY HouseDraws
  <2> QED BY <1>2, <2>1 DEF Furniture
<1>4. g \in [S -> U]
  BY <1>3
<1>5. \A i \in S, j \in S : g[i] = g[j] => i = j
  BY <1>2
<1>6. IsFiniteSet(U) /\ Cardinality(U) \in Nat /\ Cardinality(U) <= Cardinality(Consoles) + 1 /\ Cardinality(Consoles) \in Nat
  BY ConsolesCount
<1>7. Cardinality(S) = n
  <2> DEFINE l == Top(x, c)
  <2>1. 0 \in Int /\ l \in Int
    BY <1>1
  <2>2. Cardinality(0 .. l) = IF 0 > l THEN 0 ELSE l - 0 + 1
    <3> HIDE DEF l
    <3> QED BY <2>1, FS_Interval
  <2> QED BY <1>1, <2>2
<1>8. Cardinality(S) <= Cardinality(U)
  <2> HIDE DEF S, g, U
  <2> QED BY <1>4, <1>5, <1>6, Injected
<1>9. Cardinality(Consoles) <= 253
  BY DesktopAssumption
<1> HIDE DEF U, S
<1> QED BY <1>1, <1>6, <1>7, <1>8, <1>9

(***************************************************************************)
(* The calls of SHEET.C on a console or the mouse keep the house in order. *)
(***************************************************************************)

(* Heights are integers. *)
LEMMA TopInt ==
  ASSUME NEW x, Typed(x), NEW c \in Ctls
  PROVE  Top(x, c) \in Int /\ \A t \in Sheets : x.height[t] \in Int
<1>1. x.stack[c] \in Seq(Sheets)
  BY DEF Typed
<1>2. Top(x, c) \in Int
  BY <1>1 DEF Top
<1>3. \A t \in Sheets : x.height[t] \in Int
  BY DEF Typed
<1> QED BY <1>2, <1>3

(* A sheet goes to a height between the background and the top. *)
ShiftedTo(x, z, s, c, h) ==
  /\ House(z) /\ Top(z, c) = Top(x, c) /\ \A b \in Ctls : Top(z, b) = Top(x, b)
  /\ z.ctl = x.ctl /\ z.y = x.y /\ z.buf = x.buf /\ z.used = x.used
  /\ \A t \in Sheets : z.height[t] >= 0 <=> x.height[t] >= 0
  /\ z.height[s] = h
  /\ x.height[Mouse] > h /\ x.height[Mouse] > x.height[s] => z.height[Mouse] = x.height[Mouse]
  /\ x.ctl[Mouse] # c => z.height[Mouse] = x.height[Mouse]

(* A shift above the background keeps the house in order. *)
LEMMA ShiftHouse ==
  ASSUME NEW x, House(x), NEW c \in Ctls, NEW s \in Furniture, On(x, c, s), x.height[s] >= 1,
         NEW h \in 1 .. Top(x, c), NEW z, ShiftDone(x, z, s, c, h)
  PROVE  ShiftedTo(x, z, s, c, h)
<1>0. Typed(x) /\ Placed(x) /\ Listed(x) /\ Backed(x) /\ s \in Sheets /\ Mouse \in Sheets
  BY FurnitureIs, Kinds DEF House
<1>1. /\ Drawable(z, c) /\ Top(z, c) = Top(x, c)
      /\ z.height = ShiftHeights(x, c, s, h)
      /\ z.sid = x.sid /\ z.id = x.id /\ z.ctl = x.ctl /\ z.y = x.y /\ z.buf = x.buf /\ z.used = x.used
      /\ \A y \in Rows : RowOk(x, y) => RowOk(z, y)
      /\ \A b \in Ctls : b # c => z.stack[b] = x.stack[b]
  BY DEF ShiftDone
<1>1a. Top(x, c) \in Int /\ \A t \in Sheets : x.height[t] \in Int
  BY <1>0, TopInt
<1>2. \A t \in Sheets : z.height[t] = IF t = s THEN h
                                      ELSE IF On(x, c, t) THEN ShiftPlace(x.height[t], x.height[s], h)
                                      ELSE x.height[t]
  BY <1>1 DEF ShiftHeights
<1>3. ASSUME NEW t \in Sheets
      PROVE  z.height[t] >= 0 <=> x.height[t] >= 0
  <2>1. CASE t = s
    BY <1>0, <1>2, <1>1a, <2>1
  <2>2. CASE t # s /\ On(x, c, t)
    <3>1. ShiftPlace(x.height[t], x.height[s], h) >= 0
      BY <1>0, <1>1a, <2>2 DEF ShiftPlace, On
    <3> QED BY <1>2, <2>2, <3>1 DEF On
  <2>3. CASE t # s /\ ~ On(x, c, t)
    BY <1>2, <2>3
  <2> QED BY <2>1, <2>2, <2>3
<1>4. \A b \in Ctls, t \in Sheets : On(z, b, t) <=> On(x, b, t)
  BY <1>1, <1>3 DEF On
<1>5. Listed(z)
  <2>1. ASSUME NEW b \in Ctls, NEW i \in Ids, z.sid[b][i] # None
        PROVE  On(z, b, z.sid[b][i]) /\ z.id[z.sid[b][i]] = i
    <3>1. On(x, b, x.sid[b][i]) /\ x.id[x.sid[b][i]] = i
      BY <1>0, <1>1, <2>1 DEF Listed
    <3>2. x.sid[b][i] \in Sheets
      BY <3>1 DEF On
    <3> QED BY <1>1, <1>4, <3>1, <3>2
  <2> QED BY <2>1 DEF Listed
<1>6. Backed(z)
  <2>1. ASSUME NEW b \in Ctls
        PROVE  z.height[Back(b)] = 0
    <3>1. Back(b) \in Sheets /\ Back(b) # s /\ x.height[Back(b)] = 0
      BY <1>0, Kinds, FurnitureIs DEF Backed
    <3>2. ShiftPlace(0, x.height[s], h) = 0
      BY <1>0, <1>1a DEF ShiftPlace
    <3> QED BY <1>2, <3>1, <3>2
  <2> QED BY <1>0, <1>1, <2>1 DEF Backed
<1>7. House(z)
  BY <1>1, <1>5, <1>6 DEF House, Drawable
<1>8. x.height[Mouse] > h /\ x.height[Mouse] > x.height[s] => z.height[Mouse] = x.height[Mouse]
  <2>1. ASSUME x.height[Mouse] > h, x.height[Mouse] > x.height[s]
        PROVE  z.height[Mouse] = x.height[Mouse]
    <3>1. Mouse # s
      BY <1>0, <1>1a, <2>1
    <3>2. ShiftPlace(x.height[Mouse], x.height[s], h) = x.height[Mouse]
      BY <1>0, <1>1a, <2>1 DEF ShiftPlace
    <3> QED BY <1>0, <1>2, <3>1, <3>2
  <2> QED BY <2>1
<1>9. x.ctl[Mouse] # c => z.height[Mouse] = x.height[Mouse]
  BY <1>0, <1>2 DEF On
<1>10. \A b \in Ctls : Top(z, b) = Top(x, b)
  BY <1>1 DEF Top
<1>11. z.height[s] = h
  BY <1>0, <1>2
<1> QED BY <1>1, <1>3, <1>7, <1>8, <1>9, <1>10, <1>11 DEF ShiftedTo

(* sheet_updown once the height asked for is cut to h. *)
LEMMA UpdownIs ==
  ASSUME NEW x, NEW s, NEW k, NEW h, NEW o, x.height[s] = o, Fitted(x, s, k) = h
  PROVE  Updown(x, s, k) = IF h < o THEN IF h >= 0 THEN Lower(x, s, o, h) ELSE Hide(x, s, o)
                           ELSE IF h > o THEN IF o >= 0 THEN Raise(x, s, o, h) ELSE Show(x, s, h)
                           ELSE x
BY DEF Updown

(* sheet_updown of a sheet that is shown, *)
LEMMA UpdownHouse ==
  ASSUME NEW x, House(x), NEW c \in Ctls, NEW s \in Furniture, On(x, c, s),
         NEW h \in 1 .. Top(x, c)
  PROVE  ShiftedTo(x, Updown(x, s, h), s, c, h)
<1> DEFINE z == Updown(x, s, h)
           o == x.height[s]
<1>0. /\ Typed(x) /\ Placed(x) /\ Drawable(x, c) /\ o >= 1 /\ s \in Sheets
      /\ Top(x, c) \in Int /\ o \in Int
  <2>1. Typed(x) /\ Placed(x) /\ Drawable(x, c) /\ o >= 1 /\ s \in Sheets
    BY HouseDraws, FurnitureIs DEF House
  <2> QED BY <2>1, TopInt
<1>1. x.ctl[s] = c
  BY DEF On
<1>2. z = IF h < o THEN Lower(x, s, o, h) ELSE IF h > o THEN Raise(x, s, o, h) ELSE x
  <2>1. h >= 0 /\ o >= 0 /\ Fitted(x, s, h) = h
    BY <1>0, <1>1 DEF Fitted
  <2> HIDE DEF o
  <2>2. z = IF h < o THEN IF h >= 0 THEN Lower(x, s, o, h) ELSE Hide(x, s, o)
            ELSE IF h > o THEN IF o >= 0 THEN Raise(x, s, o, h) ELSE Show(x, s, h)
            ELSE x
    BY <2>1, UpdownIs DEF o
  <2> QED BY ONLY <2>1, <2>2
<1>3. h \in 0 .. Top(x, c)
  BY <1>0
<1> HIDE DEF z
<1>4. CASE h < o
  <2>1. ShiftDone(x, Lower(x, s, o, h), s, c, h)
    BY <1>0, <1>3, <1>4, LowerIs
  <2> QED BY <1>0, <1>2, <1>4, <2>1, ShiftHouse DEF z
<1>5. CASE h > o
  <2>1. ShiftDone(x, Raise(x, s, o, h), s, c, h)
    BY <1>0, <1>3, <1>5, RaiseIs
  <2> QED BY <1>0, <1>2, <1>5, <2>1, ShiftHouse DEF z
<1>6. CASE h = o
  <2>1. z = x
    BY <1>0, <1>2, <1>6
  <2> QED BY <1>6, <2>1 DEF ShiftedTo, z
<1> QED BY <1>0, <1>4, <1>5, <1>6

-----------------------------------------------------------------------------
(* A sheet goes out of sight. *)
HiddenFrom(x, z, s, c) ==
  /\ House(z) /\ Top(z, c) = Top(x, c) - 1 /\ \A b \in Ctls : b # c => Top(z, b) = Top(x, b)
  /\ z.ctl = x.ctl /\ z.y = x.y /\ z.buf = x.buf /\ z.used = x.used
  /\ z.height[s] = -1
  /\ \A t \in Sheets : t # s => (z.height[t] >= 0 <=> x.height[t] >= 0)
  /\ x.ctl[Mouse] = c /\ x.height[Mouse] > x.height[s] => z.height[Mouse] = x.height[Mouse] - 1
  /\ x.ctl[Mouse] # c => z.height[Mouse] = x.height[Mouse]

(* sheet_updown out of sight, *)
LEMMA HideHouse ==
  ASSUME NEW x, House(x), NEW c \in Ctls, NEW s \in Furniture, On(x, c, s)
  PROVE  HiddenFrom(x, Updown(x, s, -1), s, c)
<1> DEFINE z == Updown(x, s, -1)
           o == x.height[s]
<1>0. /\ Typed(x) /\ Placed(x) /\ Listed(x) /\ Named(x) /\ Backed(x) /\ Drawable(x, c)
      /\ o >= 1 /\ s \in Sheets /\ Mouse \in Sheets
      /\ Top(x, c) \in Int /\ o \in Int /\ Top(x, c) >= 0
      /\ \A y \in Rows : \E b \in Sheets : b # s /\ OpaqueIn(x, c, y, b)
  <2>1. Typed(x) /\ Placed(x) /\ Listed(x) /\ Named(x) /\ Backed(x) /\ Drawable(x, c) /\ o >= 1 /\ s \in Sheets /\ Mouse \in Sheets
    BY HouseDraws, FurnitureIs, Kinds DEF House
  <2>2. Top(x, c) \in Int /\ o \in Int
    BY <2>1, TopInt
  <2>3. o \in 0 .. Top(x, c)
    BY <2>1, Places
  <2>4. \A y \in Rows : \E b \in Sheets : b # s /\ OpaqueIn(x, c, y, b)
    BY HouseDraws
  <2>5. Top(x, c) >= 0
    BY <2>2, <2>3
  <2> QED BY <2>1, <2>2, <2>4, <2>5
<1>1. x.ctl[s] = c
  BY DEF On
<1>2. z = Hide(x, s, o)
  <2>1. ~ (-1 >= 0) /\ -1 < o /\ Fitted(x, s, -1) = -1
    BY <1>0, <1>1 DEF Fitted
  <2> HIDE DEF o
  <2>2. z = IF -1 < o THEN IF -1 >= 0 THEN Lower(x, s, o, -1) ELSE Hide(x, s, o)
            ELSE IF -1 > o THEN IF o >= 0 THEN Raise(x, s, o, -1) ELSE Show(x, s, -1)
            ELSE x
    BY <2>1, UpdownIs DEF o
  <2> QED BY ONLY <2>1, <2>2
<1> HIDE DEF z
<1>3. HideDone(x, z, s, c)
  BY <1>0, <1>2, HideIs
<1>4. /\ Drawable(z, c) /\ Top(z, c) = Top(x, c) - 1
      /\ \A b \in Ctls : b # c => z.stack[b] = x.stack[b]
      /\ z.height = HideHeights(x, c, s)
      /\ \A b \in Ctls, i \in Ids : z.sid[b][i] = IF b = c /\ i = x.id[s] THEN None ELSE x.sid[b][i]
      /\ z.id = x.id /\ z.ctl = x.ctl /\ z.y = x.y /\ z.buf = x.buf /\ z.used = x.used
      /\ \A y \in Rows : RowOk(x, y) => RowOk(z, y)
  BY <1>3 DEF HideDone
<1>5. \A t \in Sheets : z.height[t] = IF t = s THEN -1
                                      ELSE IF On(x, c, t) /\ x.height[t] > o THEN x.height[t] - 1
                                      ELSE x.height[t]
  BY <1>4 DEF HideHeights
<1>6. \A t \in Sheets : t # s => (z.height[t] >= 0 <=> x.height[t] >= 0)
  <2>1. \A t \in Sheets : x.height[t] \in Int
    BY <1>0 DEF Typed
  <2> QED BY <1>0, <1>5, <2>1
<1>7. \A b \in Ctls, t \in Sheets : t # s => (On(z, b, t) <=> On(x, b, t))
  BY <1>4, <1>6 DEF On
<1>8. Listed(z)
  <2>1. ASSUME NEW b \in Ctls, NEW i \in Ids, z.sid[b][i] # None
        PROVE  On(z, b, z.sid[b][i]) /\ z.id[z.sid[b][i]] = i
    <3>1. z.sid[b][i] = x.sid[b][i] /\ ~ (b = c /\ i = x.id[s])
      BY <1>4, <2>1
    <3> DEFINE t == x.sid[b][i]
    <3>2. On(x, b, t) /\ x.id[t] = i
      BY <1>0, <2>1, <3>1 DEF Listed
    <3>3. t # s
      BY <1>1, <3>1, <3>2 DEF On
    <3>4. t \in Sheets
      BY <3>2 DEF On
    <3> QED BY <1>4, <1>7, <3>1, <3>2, <3>3, <3>4
  <2> QED BY <2>1 DEF Listed
<1>9. Backed(z)
  <2>1. ASSUME NEW b \in Ctls
        PROVE  z.height[Back(b)] = 0
    <3>1. Back(b) \in Sheets /\ Back(b) # s /\ x.height[Back(b)] = 0
      BY <1>0, Kinds, FurnitureIs DEF Backed
    <3> QED BY <1>0, <1>5, <3>1
  <2> QED BY <1>0, <1>4, <2>1 DEF Backed
<1>10. House(z)
  <2>1. \A y \in Rows : RowOk(x, y)
    BY DEF House
  <2> QED BY <1>4, <1>8, <1>9, <2>1 DEF House, Drawable
<1>11. x.ctl[Mouse] = c /\ x.height[Mouse] > o => z.height[Mouse] = x.height[Mouse] - 1
  <2>1. x.height[Mouse] \in Int
    BY <1>0 DEF Typed
  <2>2. x.ctl[Mouse] = c /\ x.height[Mouse] > o => On(x, c, Mouse) /\ Mouse # s
    BY <1>0, <2>1 DEF On
  <2> QED BY <1>0, <1>5, <2>2
<1>12. x.ctl[Mouse] # c => z.height[Mouse] = x.height[Mouse]
  BY <1>0, <1>1, <1>5 DEF On
<1>13. \A b \in Ctls : b # c => Top(z, b) = Top(x, b)
  BY <1>4 DEF Top
<1>14. z.height[s] = -1
  BY <1>0, <1>5
<1>15. HiddenFrom(x, z, s, c)
  BY <1>4, <1>6, <1>10, <1>11, <1>12, <1>13, <1>14 DEF HiddenFrom
<1> QED BY <1>15 DEF z

(* A sheet that is out of sight is shown at height h. *)
ShownAt(x, z, s, c, h) ==
  /\ House(z) /\ Top(z, c) = Top(x, c) + 1 /\ \A b \in Ctls : b # c => Top(z, b) = Top(x, b)
  /\ z.ctl = x.ctl /\ z.y = x.y /\ z.buf = x.buf /\ z.used = x.used
  /\ z.height[s] = h
  /\ \A t \in Sheets : t # s => (z.height[t] >= 0 <=> x.height[t] >= 0)
  /\ On(x, c, Mouse) /\ x.height[Mouse] >= h => z.height[Mouse] = x.height[Mouse] + 1
  /\ x.ctl[Mouse] # c => z.height[Mouse] = x.height[Mouse]

(* sheet_updown of one that is not; the height is cut at the top. *)
LEMMA ShowHouse ==
  ASSUME NEW x, House(x), NEW c \in Ctls, NEW s \in Furniture, Off(x, c, s),
         NEW k \in Nat, NEW h \in 1 .. Top(x, c) + 1, h = IF k > Top(x, c) + 1 THEN Top(x, c) + 1 ELSE k
  PROVE  ShownAt(x, Updown(x, s, k), s, c, h)
<1> DEFINE z == Updown(x, s, k)
<1>0. /\ Typed(x) /\ Placed(x) /\ Listed(x) /\ Named(x) /\ Backed(x) /\ MapOk(x)
      /\ s \in Sheets /\ Mouse \in Sheets /\ Top(x, c) \in Int
      /\ x.height[s] = -1 /\ x.ctl[s] = c
  <2>1. Typed(x) /\ Placed(x) /\ Listed(x) /\ Named(x) /\ Backed(x) /\ MapOk(x)
    BY DEF House
  <2>2. s \in Sheets /\ Mouse \in Sheets
    BY FurnitureIs, Kinds
  <2>3. Top(x, c) \in Int
    BY <2>1, TopInt
  <2> QED BY <2>1, <2>2, <2>3 DEF Off
<1>1. h \in 0 .. Top(x, c) + 1 /\ h >= 1 /\ h \in Int
  BY <1>0
<1>2. z = Show(x, s, h)
  <2>1. ~ (h < -1) /\ h > -1 /\ ~ (-1 >= 0) /\ Fitted(x, s, k) = h
    BY <1>0, <1>1 DEF Fitted
  <2> HIDE DEF z
  <2>2. z = IF h < -1 THEN IF h >= 0 THEN Lower(x, s, -1, h) ELSE Hide(x, s, -1)
            ELSE IF h > -1 THEN IF -1 >= 0 THEN Raise(x, s, -1, h) ELSE Show(x, s, h)
            ELSE x
    BY <1>0, <2>1, UpdownIs DEF z
  <2> QED BY ONLY <2>1, <2>2
<1> HIDE DEF z
<1>3. FreeIds(x, c) # {}
  <2>1. \A b \in Ctls : b # c => ~ On(x, c, Back(b))
    BY <1>0 DEF Backed, On
  <2> QED BY <1>0, <2>1, IdIsFree
<1>4. \A y \in Rows : Solid(x, s, y) \/ \E b \in Sheets : OpaqueIn(x, c, y, b)
  BY <1>0, BackSeen, Kinds
<1>5. ShowDone(x, z, s, c, h)
  BY <1>0, <1>1, <1>2, <1>3, <1>4, ShowIs
<1>6. /\ Drawable(z, c) /\ Top(z, c) = Top(x, c) + 1
      /\ \A b \in Ctls : b # c => z.stack[b] = x.stack[b]
      /\ z.height = ShowHeights(x, c, s, h)
      /\ \A b \in Ctls, i \in Ids : z.sid[b][i] = IF b = c /\ i = Free1(x, c) THEN s ELSE x.sid[b][i]
      /\ \A t \in Sheets : z.id[t] = IF t = s THEN Free1(x, c) ELSE x.id[t]
      /\ z.ctl = x.ctl /\ z.y = x.y /\ z.buf = x.buf /\ z.used = x.used
      /\ \A y \in Rows : RowOk(x, y) => RowOk(z, y)
  BY <1>5 DEF ShowDone
<1>7. \A t \in Sheets : z.height[t] = IF t = s THEN h
                                      ELSE IF On(x, c, t) /\ x.height[t] >= h THEN x.height[t] + 1
                                      ELSE x.height[t]
  BY <1>6 DEF ShowHeights
<1>8. \A t \in Sheets : t # s => (z.height[t] >= 0 <=> x.height[t] >= 0)
  <2>1. \A t \in Sheets : x.height[t] \in Int
    BY <1>0 DEF Typed
  <2> QED BY <1>1, <1>7, <2>1 DEF On
<1>9. \A b \in Ctls, t \in Sheets : t # s => (On(z, b, t) <=> On(x, b, t))
  BY <1>6, <1>8 DEF On
<1>10. On(z, c, s) /\ \A b \in Ctls : ~ On(x, b, s)
  <2>1. z.height[s] = h
    BY <1>0, <1>7
  <2> QED BY <1>0, <1>1, <1>6, <2>1 DEF On
<1>11. Listed(z)
  <2>1. ASSUME NEW b \in Ctls, NEW i \in Ids, z.sid[b][i] # None
        PROVE  On(z, b, z.sid[b][i]) /\ z.id[z.sid[b][i]] = i
    <3>1. CASE b = c /\ i = Free1(x, c)
      BY <1>0, <1>6, <1>10, <3>1
    <3>2. CASE ~ (b = c /\ i = Free1(x, c))
      <4> DEFINE t == x.sid[b][i]
      <4>1. z.sid[b][i] = t
        BY <1>6, <3>2
      <4>2. On(x, b, t) /\ x.id[t] = i
        BY <1>0, <2>1, <4>1 DEF Listed
      <4>3. t \in Sheets /\ t # s
        BY <1>10, <4>2 DEF On
      <4> QED BY <1>6, <1>9, <4>1, <4>2, <4>3
    <3> QED BY <3>1, <3>2
  <2> QED BY <2>1 DEF Listed
<1>12. Backed(z)
  <2>1. ASSUME NEW b \in Ctls
        PROVE  z.height[Back(b)] = 0
    <3>1. Back(b) \in Sheets /\ Back(b) # s /\ x.height[Back(b)] = 0
      BY <1>0, Kinds, FurnitureIs DEF Backed
    <3> QED BY <1>1, <1>7, <3>1
  <2> QED BY <1>0, <1>6, <2>1 DEF Backed
<1>13. House(z)
  <2>1. \A y \in Rows : RowOk(x, y)
    BY DEF House
  <2> QED BY <1>6, <1>11, <1>12, <2>1 DEF House, Drawable
<1>14. On(x, c, Mouse) /\ x.height[Mouse] >= h => z.height[Mouse] = x.height[Mouse] + 1
  BY <1>0, <1>7, <1>10
<1>15. x.ctl[Mouse] # c => z.height[Mouse] = x.height[Mouse]
  BY <1>0, <1>7 DEF On
<1>16. \A b \in Ctls : b # c => Top(z, b) = Top(x, b)
  BY <1>6 DEF Top
<1>17. z.height[s] = h
  BY <1>0, <1>7
<1>18. ShownAt(x, z, s, c, h)
  BY <1>6, <1>8, <1>13, <1>14, <1>15, <1>16, <1>17 DEF ShownAt
<1> QED BY <1>18 DEF z

-----------------------------------------------------------------------------
(* Heights, desktops and users stay. *)
SamePlaces(x, z) ==
  House(z) /\ z.stack = x.stack /\ z.height = x.height /\ z.ctl = x.ctl /\ z.used = x.used

(* A sheet out of sight changes. *)
LEMMA OffHouse ==
  ASSUME NEW x, House(x), NEW s \in Furniture, NEW e, OffChange(x, e, s), Typed(e)
  PROVE  House(e) /\ \A b \in Ctls : Top(e, b) = Top(x, b)
<1>0. Typed(x) /\ Placed(x) /\ Listed(x) /\ Named(x) /\ Backed(x) /\ MapOk(x) /\ \A y \in Rows : RowOk(x, y)
  BY DEF House
<1>1. s \in Sheets /\ \A b \in Ctls : Back(b) # s /\ Back(b) \in Sheets
  BY FurnitureIs, Kinds
<1>2. /\ Placed(e) /\ Named(e) /\ Listed(e) /\ MapOk(e) /\ \A y \in Rows : RowOk(e, y)
      /\ \A b : Top(e, b) = Top(x, b)
  BY <1>0, <1>1, OffUnseen
<1>3. Backed(e)
  BY <1>0, <1>1 DEF Backed, OffChange
<1> QED BY <1>2, <1>3 DEF House

(* sheet_slide, whether the sheet is shown or not. *)
LEMMA SlideHouse ==
  ASSUME NEW x, House(x), NEW s \in Furniture, NEW y1 \in Int
  PROVE  SamePlaces(x, Slide(x, s, y1)) /\ Slide(x, s, y1).buf = x.buf
<1> DEFINE z == Slide(x, s, y1)
           c == x.ctl[s]
<1>0. Typed(x) /\ Placed(x) /\ Listed(x) /\ Named(x) /\ Backed(x) /\ MapOk(x) /\ \A y \in Rows : RowOk(x, y)
  BY DEF House
<1>1. s \in Sheets /\ \A b \in Ctls : Back(b) # s /\ Back(b) \in Sheets
  BY FurnitureIs, Kinds
<1>2. c \in Ctls /\ x.height[s] \in Int
  BY <1>0, <1>1 DEF Typed
<1>3. CASE x.height[s] >= 0
  <2>1. On(x, c, s)
    BY <1>1, <1>3 DEF On
  <2> HIDE DEF c, z
  <2>2. Drawable(x, c) /\ \A y \in Rows : \E b \in Sheets : b # s /\ OpaqueIn(x, c, y, b)
    BY <1>2, HouseDraws
  <2>3. SlideDone(x, z, s, c, y1)
    BY <1>1, <1>2, <2>1, <2>2, SlideIs DEF z
  <2>4. /\ Drawable(z, c) /\ z.y = [x.y EXCEPT ![s] = y1]
        /\ z.stack = x.stack /\ z.height = x.height /\ z.sid = x.sid /\ z.id = x.id
        /\ z.ctl = x.ctl /\ z.buf = x.buf /\ z.used = x.used
        /\ \A y \in Rows : RowOk(x, y) => RowOk(z, y)
    BY <2>3 DEF SlideDone
  <2>5. \A t \in Sheets : t # s => z.y[t] = x.y[t]
    BY <1>0, <2>4 DEF Typed
  <2>6. Backed(z)
    BY <1>0, <1>1, <2>4, <2>5 DEF Backed
  <2>7. Listed(z)
    BY <1>0, <2>4 DEF Listed, On
  <2> QED BY <1>0, <2>4, <2>6, <2>7 DEF SamePlaces, House, Drawable, z
<1>4. CASE ~ (x.height[s] >= 0)
  <2> DEFINE e == [x EXCEPT !.y[s] = y1]
             Y == [x.y EXCEPT ![s] = y1]
  <2>0. z = e
    BY <1>4 DEF Slide
  <2>1. /\ Desk(e) /\ e.y = Y
        /\ e.stack = x.stack /\ e.sid = x.sid /\ e.map = x.map /\ e.vram = x.vram
        /\ e.height = x.height /\ e.id = x.id /\ e.ctl = x.ctl /\ e.buf = x.buf /\ e.used = x.used
    BY <1>0 DEF Typed, Desk, Keys
  <2> HIDE DEF e, z
  <2>2. Y \in [Sheets -> Int] /\ \A t \in Sheets : t # s => Y[t] = x.y[t]
    BY <1>0 DEF Typed
  <2> HIDE DEF Y
  <2>3. Typed(e)
    BY <1>0, <2>1, <2>2 DEF Typed
  <2>4. x.height[s] < 0
    BY <1>2, <1>4
  <2>5. OffChange(x, e, s)
    BY <2>1, <2>2, <2>4 DEF OffChange
  <2>6. House(e)
    BY <2>3, <2>5, OffHouse
  <2> QED BY <2>0, <2>1, <2>6 DEF SamePlaces, z
<1> QED BY <1>3, <1>4

(* A console draws. *)
DrawnBy(x, z, s, B) == SamePlaces(x, z) /\ z.buf = [x.buf EXCEPT ![s] = B]

(* sheet_refresh after an opaque cell was drawn. *)
LEMMA DrawHouse ==
  ASSUME NEW x, House(x), NEW s \in Furniture, x.height[s] >= 0,
         NEW i \in Nat, NEW T, x.buf[s] \in Seq(T), i + 1 <= Len(x.buf[s]), NEW v \in T,
         Opaque(v), Opaque(x.buf[s][i + 1])
  PROVE  DrawnBy(x, Refresh([x EXCEPT !.buf[s][i + 1] = v], s, i, i + 1), s, [x.buf[s] EXCEPT ![i + 1] = v])
<1> DEFINE z == Refresh([x EXCEPT !.buf[s][i + 1] = v], s, i, i + 1)
           B == [x.buf[s] EXCEPT ![i + 1] = v]
           c == x.ctl[s]
<1>0. Typed(x) /\ Placed(x) /\ Listed(x) /\ Named(x) /\ Backed(x) /\ MapOk(x) /\ \A y \in Rows : RowOk(x, y)
  BY DEF House
<1>1. s \in Sheets /\ \A b \in Ctls : Back(b) # s /\ Back(b) \in Sheets
  BY FurnitureIs, Kinds
<1>2. c \in Ctls /\ On(x, c, s)
  BY <1>0, <1>1 DEF Typed, On
<1> HIDE DEF c
<1>3. Drawable(x, c)
  BY <1>2, HouseDraws
<1>4. DrawDone(x, z, s, c, B)
  BY <1>1, <1>2, <1>3, DrawIs
<1> HIDE DEF z, B
<1>5. /\ Drawable(z, c) /\ z.buf = [x.buf EXCEPT ![s] = B]
      /\ z.stack = x.stack /\ z.height = x.height /\ z.sid = x.sid /\ z.id = x.id
      /\ z.ctl = x.ctl /\ z.y = x.y /\ z.used = x.used
      /\ \A y \in Rows : RowOk(x, y) => RowOk(z, y)
  BY <1>4 DEF DrawDone
<1>6. \A t \in Sheets : t # s => z.buf[t] = x.buf[t]
  BY <1>0, <1>5 DEF Typed
<1>7. Backed(z)
  BY <1>0, <1>1, <1>5, <1>6 DEF Backed
<1>8. Listed(z)
  BY <1>0, <1>5 DEF Listed, On
<1> QED BY <1>0, <1>5, <1>7, <1>8 DEF DrawnBy, SamePlaces, House, Drawable, z, B

(* A sheet goes to the top of desktop c, from wherever it is. *)
MovedTo(x, z, s, c) ==
  /\ House(z) /\ z.buf = x.buf /\ z.used = x.used
  /\ z.ctl = [x.ctl EXCEPT ![s] = c]
  /\ \A t \in Sheets : z.height[t] >= 0 <=> x.height[t] >= 0
  /\ z.height[s] = Top(z, c)
  /\ Top(z, c) = IF x.ctl[s] = c THEN Top(x, c) ELSE Top(x, c) + 1

(* A desktop has its background at least. *)
LEMMA BackBelow ==
  ASSUME NEW x, House(x), NEW c \in Ctls
  PROVE  Top(x, c) \in Int /\ Top(x, c) >= 0
<1>1. Typed(x) /\ Placed(x) /\ Back(c) \in Sheets /\ x.height[Back(c)] = 0 /\ x.ctl[Back(c)] = c
  BY Kinds DEF House, Backed
<1>2. On(x, c, Back(c))
  BY <1>1 DEF On
<1>3. 0 \in 0 .. Top(x, c)
  BY <1>1, <1>2, Places
<1> QED BY <1>1, <1>3, TopInt

(* What Alt+Fn does with a sheet. *)
LEMMA MoveHouse ==
  ASSUME NEW x, House(x), NEW s \in Furniture, x.height[s] >= 0, NEW c \in Ctls, NEW k \in Nat,
         k >= (IF x.ctl[s] = c THEN Top(x, c) ELSE Top(x, c) + 1) \/ (s = Mouse /\ k = 254)
  PROVE  MovedTo(x, MoveTo(x, s, c, k), s, c)
<1> DEFINE b == x.ctl[s]
           a == Updown(x, s, -1)
           e == [a EXCEPT !.ctl[s] = c]
           n == Top(e, c) + 1
           z == MoveTo(x, s, c, k)
<1>0. Typed(x) /\ s \in Sheets
  BY FurnitureIs DEF House
<1>1. b \in Ctls /\ On(x, b, s)
  BY <1>0 DEF Typed, On
<1>2. z = Updown(e, s, k)
  BY DEF MoveTo
<1>3. HiddenFrom(x, a, s, b)
  <2> HIDE DEF b
  <2> QED BY <1>1, HideHouse
<1>4. /\ House(a) /\ Top(a, b) = Top(x, b) - 1 /\ \A i \in Ctls : i # b => Top(a, i) = Top(x, i)
      /\ a.ctl = x.ctl /\ a.y = x.y /\ a.buf = x.buf /\ a.used = x.used
      /\ a.height[s] = -1
      /\ \A t \in Sheets : t # s => (a.height[t] >= 0 <=> x.height[t] >= 0)
  <2> HIDE DEF b, a
  <2> QED BY <1>3 DEF HiddenFrom
<1> HIDE DEF a, z
<1>5. Typed(a) /\ Desk(a)
  BY <1>4 DEF House, Typed
<1> DEFINE C == [a.ctl EXCEPT ![s] = c]
<1>6. /\ Desk(e) /\ e.ctl = C
      /\ e.stack = a.stack /\ e.sid = a.sid /\ e.map = a.map /\ e.vram = a.vram
      /\ e.height = a.height /\ e.id = a.id /\ e.y = a.y /\ e.buf = a.buf /\ e.used = a.used
  BY <1>5 DEF Desk, Keys
<1> HIDE DEF e
<1>7. C \in [Sheets -> Ctls] /\ C[s] = c /\ \A t \in Sheets : t # s => C[t] = a.ctl[t]
  BY <1>0, <1>5 DEF Typed
<1>7a. C = [x.ctl EXCEPT ![s] = c]
  BY <1>4
<1> HIDE DEF C
<1>8. Typed(e)
  BY <1>5, <1>6, <1>7 DEF Typed
<1>9. OffChange(a, e, s)
  BY <1>4, <1>6, <1>7 DEF OffChange
<1>10. House(e) /\ \A i \in Ctls : Top(e, i) = Top(a, i)
  BY <1>4, <1>8, <1>9, OffHouse
<1>11. Off(e, c, s)
  BY <1>0, <1>4, <1>6, <1>7 DEF Off
<1>12. n = IF b = c THEN Top(x, c) ELSE Top(x, c) + 1
  <2>1. Top(x, c) \in Int
    BY <1>0, TopInt
  <2> HIDE DEF b
  <2> QED BY <1>4, <1>10, <2>1
<1>13. Top(e, c) \in Int /\ Top(e, c) >= 0
  BY <1>10, BackBelow
<1>14. k >= n
  <2>1. CASE s = Mouse /\ k = 254
    <3>1. ~ On(e, c, Mouse)
      BY <1>11, <2>1 DEF Off, On
    <3>2. n <= 254
      BY <1>10, <3>1, TopBelow
    <3> QED BY <1>13, <2>1, <3>2
  <2> QED BY <1>12, <2>1
<1>15. ShownAt(e, z, s, c, n)
  <2>1. n \in 1 .. Top(e, c) + 1 /\ n = IF k > Top(e, c) + 1 THEN Top(e, c) + 1 ELSE k
    BY <1>13, <1>14
  <2> HIDE DEF n
  <2> QED BY <1>2, <1>10, <1>11, <2>1, ShowHouse
<1>16. /\ House(z) /\ Top(z, c) = Top(e, c) + 1
       /\ z.ctl = e.ctl /\ z.y = e.y /\ z.buf = e.buf /\ z.used = e.used
       /\ z.height[s] = n
       /\ \A t \in Sheets : t # s => (z.height[t] >= 0 <=> e.height[t] >= 0)
  BY <1>15 DEF ShownAt
<1>17. \A t \in Sheets : z.height[t] >= 0 <=> x.height[t] >= 0
  BY <1>4, <1>6, <1>13, <1>16
<1>18. MovedTo(x, z, s, c)
  BY <1>4, <1>6, <1>7a, <1>12, <1>16, <1>17 DEF MovedTo
<1> QED BY <1>18 DEF z

-----------------------------------------------------------------------------
(* A background is shown on its empty desktop. *)
Empty(x, c) == x.stack[c] = <<>>

(* All of a house but the backgrounds and the picture. *)
Ready(x) == Typed(x) /\ Placed(x) /\ Named(x) /\ Listed(x) /\ MapOk(x)

(* A background on its empty desktop makes it a desktop in order. *)
LEMMA ShowBack ==
  ASSUME NEW x, Ready(x), NEW c \in Ctls, Empty(x, c), Off(x, c, Back(c)),
         x.y[Back(c)] = 0, x.buf[Back(c)] = BackBuf(c)
  PROVE  LET z == Updown(x, Back(c), 0)
         IN /\ Ready(z) /\ \A y \in Rows : RowOk(z, y)
            /\ Top(z, c) = 0 /\ \A b \in Ctls : b # c => z.stack[b] = x.stack[b]
            /\ z.height = [x.height EXCEPT ![Back(c)] = 0]
            /\ z.ctl = x.ctl /\ z.y = x.y /\ z.buf = x.buf /\ z.used = x.used
<1> DEFINE s == Back(c)
           z == Updown(x, s, 0)
<1>0. Typed(x) /\ Placed(x) /\ Named(x) /\ Listed(x) /\ MapOk(x)
  BY DEF Ready
<1>1. s \in Sheets /\ s \in Furniture \cup {Back(c)} /\ s \notin {Clear, Glass}
  BY Kinds
<1>2. Top(x, c) = -1 /\ x.height[s] = -1 /\ x.ctl[s] = c
  BY DEF Empty, Top, Off
<1>3. \A t \in Sheets : ~ On(x, c, t)
  BY <1>0, <1>2, Places
<1>4. ASSUME NEW y \in Rows
      PROVE  Solid(x, s, y) /\ \A t \in Sheets : ~ OpaqueIn(x, c, y, t)
  <2>1. y \in 0 .. ScreenRows - 1 /\ ScreenRows \in Nat
    BY DesktopAssumption DEF Rows
  <2>2. Len(BackBuf(c)) = ScreenRows /\ BackBuf(c)[y + 1] = s
    BY <2>1 DEF BackBuf
  <2>3. Covers(x, s, y)
    BY <2>1, <2>2 DEF Covers
  <2>4. Cell(x, s, y) = s
    BY <2>1, <2>2 DEF Cell
  <2> QED BY <1>1, <1>3, <2>3, <2>4 DEF Solid, Opaque, OpaqueIn
<1>5. FreeIds(x, c) # {}
  BY <1>0, <1>1, <1>3, Kinds, IdIsFree
<1>6. z = Show(x, s, 0)
  <2>1. ~ (0 < -1) /\ 0 > -1 /\ ~ (-1 >= 0) /\ Fitted(x, s, 0) = 0
    BY <1>2 DEF Fitted
  <2>2. z = IF 0 < -1 THEN IF 0 >= 0 THEN Lower(x, s, -1, 0) ELSE Hide(x, s, -1)
            ELSE IF 0 > -1 THEN IF -1 >= 0 THEN Raise(x, s, -1, 0) ELSE Show(x, s, 0)
            ELSE x
    BY <1>2, <2>1, UpdownIs
  <2> QED BY ONLY <2>1, <2>2
<1> HIDE DEF s, z
<1>7. ShowDone(x, z, s, c, 0) /\ \A y \in Rows : RowOk(z, y)
  <2>1. 0 \in 0 .. Top(x, c) + 1
    BY <1>2
  <2>2. Off(x, c, s)
    BY DEF s
  <2> QED BY <1>0, <1>1, <1>4, <1>5, <1>6, <2>1, <2>2, ShowIs
<1>8. /\ Drawable(z, c) /\ Top(z, c) = Top(x, c) + 1
      /\ \A b \in Ctls : b # c => z.stack[b] = x.stack[b]
      /\ z.height = ShowHeights(x, c, s, 0)
      /\ \A b \in Ctls, i \in Ids : z.sid[b][i] = IF b = c /\ i = Free1(x, c) THEN s ELSE x.sid[b][i]
      /\ \A t \in Sheets : z.id[t] = IF t = s THEN Free1(x, c) ELSE x.id[t]
      /\ z.ctl = x.ctl /\ z.y = x.y /\ z.buf = x.buf /\ z.used = x.used
  BY <1>7 DEF ShowDone
<1>9. z.height = [x.height EXCEPT ![s] = 0]
  <2>1. x.height \in [Sheets -> Int]
    BY <1>0 DEF Typed
  <2>2. \A t \in Sheets : ShowHeights(x, c, s, 0)[t] = IF t = s THEN 0 ELSE x.height[t]
    BY <1>3 DEF ShowHeights
  <2>3. ShowHeights(x, c, s, 0) = [t \in Sheets |-> ShowHeights(x, c, s, 0)[t]]
    BY DEF ShowHeights
  <2> QED BY <1>8, <2>1, <2>2, <2>3
<1>10. Listed(z)
  <2>1. ASSUME NEW b \in Ctls, NEW i \in Ids, z.sid[b][i] # None
        PROVE  On(z, b, z.sid[b][i]) /\ z.id[z.sid[b][i]] = i
    <3>1. CASE b = c /\ i = Free1(x, c)
      <4>1. z.height[s] = 0
        BY <1>0, <1>1, <1>9 DEF Typed
      <4> QED BY <1>1, <1>2, <1>8, <3>1, <4>1 DEF On
    <3>2. CASE ~ (b = c /\ i = Free1(x, c))
      <4> DEFINE t == x.sid[b][i]
      <4>1. z.sid[b][i] = t
        BY <1>8, <3>2
      <4>2. On(x, b, t) /\ x.id[t] = i
        BY <1>0, <2>1, <4>1 DEF Listed
      <4>3. t \in Sheets /\ t # s
        BY <1>2, <4>2 DEF On
      <4>4. z.height[t] = x.height[t]
        BY <1>0, <1>9, <4>3 DEF Typed
      <4> QED BY <1>8, <4>1, <4>2, <4>3, <4>4 DEF On
    <3> QED BY <3>1, <3>2
  <2> QED BY <2>1 DEF Listed
<1>11. Top(z, c) = 0
  BY <1>2, <1>8
<1>12. Ready(z)
  BY <1>8, <1>10 DEF Ready, Drawable
<1> QED BY <1>7, <1>8, <1>9, <1>11, <1>12 DEF s, z

-----------------------------------------------------------------------------
\* The inductive invariant, and the start.

(* What a console's buffer may show, and what it does. *)
Drawing(c) == {Glass, Body(c, 0), Body(c, 1)}
BufOk(a, c) ==
  /\ a \in Seq(Drawing(c)) /\ Len(a) = BodyRows + 1
  /\ \A i \in 1 .. BodyRows : a[i + 1] \in {Body(c, 0), Body(c, 1)}

(* The sheets when desktop p is shown, with the mouse on top of it. *)
Desks(x, p) ==
  /\ House(x)
  /\ \A s \in Sheets : x.used[s] <=> x.height[s] >= 0
  /\ \A c \in Consoles : x.used[c] => BufOk(x.buf[c], c)
  /\ x.height[Mouse] = Top(x, p) /\ x.ctl[Mouse] = p

(***************************************************************************)
(* The inductive invariant.  A window is being slid, or may be, only when  *)
(* the variable sht is one; and a careful user holds only the window that  *)
(* has the keys.                                                           *)
(***************************************************************************)
Slidable == (slid \/ mmy # -1) => sht \in Consoles
HoldsFocus == held \in Consoles /\ d.used[held] => d.ctl[held] = point /\ keywin = held

DesktopInv ==
  /\ point \in Ctls /\ Desks(d, point)
  /\ my \in Int /\ newy \in Int /\ mmy \in Int /\ slid \in BOOLEAN
  /\ held \in Consoles \cup {None, Missed} /\ sht \in Consoles \cup {None}
  /\ Slidable /\ HoldsFocus /\ FocusShown

(* What HariMain starts from. *)
LEMMA BlankIs ==
  /\ Typed(Blank) /\ Blank.stack = [c \in Ctls |-> <<>>]
  /\ Blank.sid = [c \in Ctls |-> [i \in Ids |-> None]]
  /\ Blank.height = [s \in Sheets |-> -1] /\ Blank.ctl = [s \in Sheets |-> 0]
  /\ Blank.y = [s \in Sheets |-> 0] /\ Blank.buf = [s \in Sheets |-> <<>>]
  /\ Blank.used = [s \in Sheets |-> FALSE]
<1>1. Desk(Blank)
  BY DEF Blank, Desk, Keys
<1>2. Blank.stack \in [Ctls -> Seq(Sheets)] /\ Blank.sid \in [Ctls -> [Ids -> Sheets \cup {None}]]
  BY DEF Blank
<1>3. /\ Blank.map = [c \in Ctls |-> [y \in Rows |-> Blank.map[c][y]]]
      /\ Blank.vram = [y \in Rows |-> Blank.vram[y]]
      /\ Blank.buf = [s \in Sheets |-> Blank.buf[s]]
  BY DEF Blank
<1>4. 0 \in Ids /\ 0 \in Ctls /\ -1 \in Int
  <2>1. MaxSid \in Nat /\ Cardinality(Consoles) \in Nat /\ Cardinality(Consoles) + 2 <= MaxSid
    BY DesktopAssumption, FS_CardinalityType
  <2> QED BY <2>1 DEF Ids, Ctls
<1>5. /\ Blank.height \in [Sheets -> Int] /\ Blank.id \in [Sheets -> Ids] /\ Blank.ctl \in [Sheets -> Ctls]
      /\ Blank.y \in [Sheets -> Int] /\ Blank.used \in [Sheets -> BOOLEAN]
  BY <1>4 DEF Blank
<1>6. Typed(Blank)
  BY <1>1, <1>2, <1>3, <1>5 DEF Typed
<1> QED BY <1>6 DEF Blank

(* sheet_alloc *)
Alloced(x, e, s, c, a) ==
  /\ Typed(e) /\ e.stack = x.stack /\ e.sid = x.sid /\ e.id = x.id /\ e.y = x.y
  /\ e.map = x.map /\ e.vram = x.vram
  /\ e.height = [x.height EXCEPT ![s] = -1] /\ e.ctl = [x.ctl EXCEPT ![s] = c]
  /\ e.buf = [x.buf EXCEPT ![s] = a] /\ e.used = [x.used EXCEPT ![s] = TRUE]

(* What sheet_alloc does in these terms. *)
LEMMA AllocIs ==
  ASSUME NEW x, Typed(x), NEW s \in Sheets, NEW c \in Ctls, NEW a
  PROVE  Alloced(x, Alloc(x, s, c, a), s, c, a)
<1> DEFINE e == Alloc(x, s, c, a)
           H == [x.height EXCEPT ![s] = -1]
           C == [x.ctl EXCEPT ![s] = c]
           B == [x.buf EXCEPT ![s] = a]
           U == [x.used EXCEPT ![s] = TRUE]
<1>1. /\ Desk(e) /\ e.stack = x.stack /\ e.sid = x.sid /\ e.id = x.id /\ e.y = x.y
      /\ e.map = x.map /\ e.vram = x.vram
      /\ e.height = H /\ e.ctl = C /\ e.buf = B /\ e.used = U
  BY DEF Alloc, Typed, Desk, Keys
<1>2. H \in [Sheets -> Int] /\ C \in [Sheets -> Ctls] /\ B = [t \in Sheets |-> B[t]] /\ U \in [Sheets -> BOOLEAN]
  <2>1. -1 \in Int
    OBVIOUS
  <2> QED BY <2>1 DEF Typed
<1> HIDE DEF H, C, B, U, e
<1>3. Typed(e)
  <2>1. e.map = [b \in Ctls |-> [y \in Rows |-> e.map[b][y]]] /\ e.vram = [y \in Rows |-> e.vram[y]]
    BY <1>1 DEF Typed
  <2>2. e.stack \in [Ctls -> Seq(Sheets)] /\ e.sid \in [Ctls -> [Ids -> Sheets \cup {None}]]
        /\ e.id \in [Sheets -> Ids] /\ e.y \in [Sheets -> Int]
    BY <1>1 DEF Typed
  <2> QED BY <1>1, <1>2, <2>1, <2>2 DEF Typed
<1> QED BY <1>1, <1>3 DEF Alloced, H, C, B, U, e

(* The two backgrounds and the mouse are desktops in order. *)
LEMMA InitInv == Init => DesktopInv
<1> SUFFICES ASSUME Init
             PROVE  DesktopInv
  OBVIOUS
<1> DEFINE b0 == Alloc(Blank, Back(0), 0, BackBuf(0))
           b1 == Alloc(b0, Back(1), 1, BackBuf(1))
           m == Alloc(b1, Mouse, 0, <<Mouse, Clear>>)
           u == Updown(m, Back(1), 0)
           v == Updown(u, Back(0), 0)
           w == Updown(v, Mouse, 1)
<1>1. d = w
  BY DEF Init
<1>2. /\ 0 \in Ctls /\ 1 \in Ctls /\ Ctls = {0, 1} /\ 0 # 1
      /\ Back(0) \in Sheets /\ Back(1) \in Sheets /\ Mouse \in Sheets /\ Mouse \in Furniture
      /\ Back(0) # Back(1) /\ Back(0) # Mouse /\ Back(1) # Mouse
      /\ Back(0) \notin Consoles /\ Back(1) \notin Consoles /\ Mouse \notin Consoles
  BY Kinds DEF Ctls, Furniture
<1>3. /\ Typed(b0) /\ b0.stack = Blank.stack /\ b0.sid = Blank.sid /\ b0.y = Blank.y
      /\ b0.height = [Blank.height EXCEPT ![Back(0)] = -1] /\ b0.ctl = [Blank.ctl EXCEPT ![Back(0)] = 0]
      /\ b0.buf = [Blank.buf EXCEPT ![Back(0)] = BackBuf(0)]
      /\ b0.used = [Blank.used EXCEPT ![Back(0)] = TRUE]
  <2>1. Alloced(Blank, b0, Back(0), 0, BackBuf(0))
    BY <1>2, BlankIs, AllocIs
  <2> HIDE DEF b0
  <2> QED BY <2>1 DEF Alloced
<1> HIDE DEF b0
<1>4. /\ Typed(b1) /\ b1.stack = b0.stack /\ b1.sid = b0.sid /\ b1.y = b0.y
      /\ b1.height = [b0.height EXCEPT ![Back(1)] = -1] /\ b1.ctl = [b0.ctl EXCEPT ![Back(1)] = 1]
      /\ b1.buf = [b0.buf EXCEPT ![Back(1)] = BackBuf(1)]
      /\ b1.used = [b0.used EXCEPT ![Back(1)] = TRUE]
  <2>1. Alloced(b0, b1, Back(1), 1, BackBuf(1))
    BY <1>2, <1>3, AllocIs
  <2> HIDE DEF b1
  <2> QED BY <2>1 DEF Alloced
<1> HIDE DEF b1
<1>5. /\ Typed(m) /\ m.stack = b1.stack /\ m.sid = b1.sid /\ m.y = b1.y
      /\ m.height = [b1.height EXCEPT ![Mouse] = -1] /\ m.ctl = [b1.ctl EXCEPT ![Mouse] = 0]
      /\ m.buf = [b1.buf EXCEPT ![Mouse] = <<Mouse, Clear>>]
      /\ m.used = [b1.used EXCEPT ![Mouse] = TRUE]
  <2>1. Alloced(b1, m, Mouse, 0, <<Mouse, Clear>>)
    BY <1>2, <1>4, AllocIs
  <2> HIDE DEF m
  <2> QED BY <2>1 DEF Alloced
<1> HIDE DEF m
<1>6. /\ \A c \in Ctls : m.stack[c] = <<>>
      /\ \A c \in Ctls, i \in Ids : m.sid[c][i] = None
      /\ \A s \in Sheets : m.height[s] = -1 /\ m.y[s] = 0
      /\ m.ctl[Back(0)] = 0 /\ m.ctl[Back(1)] = 1 /\ m.ctl[Mouse] = 0
      /\ m.buf[Back(0)] = BackBuf(0) /\ m.buf[Back(1)] = BackBuf(1)
      /\ \A s \in Sheets : m.used[s] <=> s \notin Consoles
  <2>1. \A c \in Ctls : m.stack[c] = <<>>
    BY <1>3, <1>4, <1>5, BlankIs
  <2>2. \A c \in Ctls, i \in Ids : m.sid[c][i] = None
    BY <1>3, <1>4, <1>5, BlankIs
  <2>3. \A s \in Sheets : m.height[s] = -1 /\ m.y[s] = 0
    BY <1>3, <1>4, <1>5, BlankIs
  <2>4. m.ctl[Back(0)] = 0 /\ m.ctl[Back(1)] = 1 /\ m.ctl[Mouse] = 0
    BY <1>2, <1>3, <1>4, <1>5, BlankIs
  <2>5. m.buf[Back(0)] = BackBuf(0) /\ m.buf[Back(1)] = BackBuf(1)
    BY <1>2, <1>3, <1>4, <1>5, BlankIs
  <2>6. \A s \in Sheets : m.used[s] <=> s = Back(0) \/ s = Back(1) \/ s = Mouse
    BY <1>2, <1>3, <1>4, <1>5, BlankIs
  <2>7. \A s \in Sheets : s \notin Consoles <=> s = Back(0) \/ s = Back(1) \/ s = Mouse
    BY <1>2, Kinds
  <2> QED BY <2>1, <2>2, <2>3, <2>4, <2>5, <2>6, <2>7
<1>7. Ready(m)
  <2>1. \A c : \A s \in Sheets : ~ On(m, c, s)
    BY <1>6 DEF On
  <2>2. Placed(m)
    BY <1>6 DEF Placed
  <2>3. Named(m) /\ Listed(m)
    BY <1>6 DEF Named, Listed
  <2>4. MapOk(m)
    BY <2>1 DEF MapOk, Mapped, TopIn, OpaqueIn
  <2> QED BY <1>5, <2>2, <2>3, <2>4 DEF Ready
<1>8. /\ Ready(u) /\ Top(u, 1) = 0 /\ u.stack[0] = m.stack[0]
      /\ u.height = [m.height EXCEPT ![Back(1)] = 0]
      /\ u.ctl = m.ctl /\ u.y = m.y /\ u.buf = m.buf /\ u.used = m.used
  <2>1. Off(m, 1, Back(1)) /\ Empty(m, 1) /\ m.y[Back(1)] = 0 /\ m.buf[Back(1)] = BackBuf(1)
    BY <1>2, <1>6 DEF Off, Empty
  <2> QED BY <1>2, <1>7, <2>1, ShowBack
<1> HIDE DEF u
<1>9. m.height \in [Sheets -> Int]
  BY <1>5 DEF Typed
<1>10. /\ Ready(v) /\ \A y \in Rows : RowOk(v, y)
       /\ Top(v, 0) = 0 /\ v.height = [u.height EXCEPT ![Back(0)] = 0]
       /\ v.ctl = u.ctl /\ v.y = u.y /\ v.buf = u.buf /\ v.used = u.used
  <2>1. Off(u, 0, Back(0)) /\ Empty(u, 0) /\ u.y[Back(0)] = 0 /\ u.buf[Back(0)] = BackBuf(0)
    BY <1>2, <1>6, <1>8, <1>9 DEF Off, Empty
  <2> QED BY <1>2, <1>8, <2>1, ShowBack
<1> HIDE DEF v
<1>11. \A s \in Sheets : v.height[s] = IF s = Back(0) \/ s = Back(1) THEN 0 ELSE -1
  BY <1>2, <1>6, <1>8, <1>9, <1>10
<1>12. House(v)
  <2>1. Backed(v)
    BY <1>2, <1>6, <1>8, <1>10, <1>11 DEF Backed
  <2> QED BY <1>10, <2>1 DEF House, Ready
<1>13. ShownAt(v, w, Mouse, 0, 1)
  <2>1. Off(v, 0, Mouse)
    BY <1>2, <1>6, <1>8, <1>10, <1>11 DEF Off
  <2>2. 1 \in Nat /\ 1 \in 1 .. Top(v, 0) + 1 /\ 1 = IF 1 > Top(v, 0) + 1 THEN Top(v, 0) + 1 ELSE 1
    BY <1>10
  <2> QED BY <1>2, <1>12, <2>1, <2>2, ShowHouse
<1> HIDE DEF w
<1>14. /\ House(w) /\ Top(w, 0) = Top(v, 0) + 1 /\ w.ctl = v.ctl /\ w.used = v.used /\ w.height[Mouse] = 1
       /\ \A t \in Sheets : t # Mouse => (w.height[t] >= 0 <=> v.height[t] >= 0)
  BY <1>13 DEF ShownAt
<1>15. \A s \in Sheets : w.used[s] <=> s \notin Consoles
  BY <1>6, <1>8, <1>10, <1>14
<1>16. \A s \in Sheets : w.used[s] <=> w.height[s] >= 0
  <2>1. \A s \in Sheets : s \notin Consoles <=> s = Back(0) \/ s = Back(1) \/ s = Mouse
    BY <1>2, Kinds
  <2> QED BY <1>2, <1>11, <1>14, <1>15, <2>1
<1>17. Top(w, 0) = 1 /\ w.ctl[Mouse] = 0
  BY <1>6, <1>8, <1>10, <1>14
<1>18. Desks(w, 0)
  BY <1>2, <1>14, <1>15, <1>16, <1>17, Kinds DEF Desks
<1>19. /\ point = 0 /\ my = 0 /\ held = None /\ mmy = -1 /\ newy = 0 /\ slid = FALSE /\ sht = None /\ keywin = None
  BY DEF Init
<1>20. None \notin Consoles
  BY DesktopAssumption, Kinds
<1>21. Slidable
  BY <1>19 DEF Slidable
<1>22. HoldsFocus
  BY <1>19, <1>20 DEF HoldsFocus
<1>23. FocusShown
  BY <1>19 DEF FocusShown
<1>24. Desks(d, point) /\ point \in Ctls
  BY <1>1, <1>2, <1>18, <1>19
<1>25. my \in Int /\ newy \in Int /\ mmy \in Int /\ slid \in BOOLEAN
  <2>1. 0 \in Int /\ -1 \in Int
    OBVIOUS
  <2>2. my \in Int /\ newy \in Int /\ mmy \in Int
    BY <1>19, <2>1
  <2>3. slid \in BOOLEAN
    BY <1>19
  <2> QED BY <2>2, <2>3
<1>26. held \in Consoles \cup {None, Missed} /\ sht \in Consoles \cup {None}
  BY <1>19
<1> HIDE DEF w
<1> QED BY <1>21, <1>22, <1>23, <1>24, <1>25, <1>26 DEF DesktopInv

-----------------------------------------------------------------------------
\* What handlers do to the sheets.

(* Between the background and the mouse there are consoles. *)
LEMMA DesksTop ==
  ASSUME NEW p \in Ctls, NEW x, Desks(x, p)
  PROVE  /\ Top(x, p) \in Int /\ Top(x, p) >= 1 /\ On(x, p, Mouse)
         /\ \A h \in 1 .. Top(x, p) - 1 :
              /\ At(x, p, h) \in Consoles /\ On(x, p, At(x, p, h)) /\ x.height[At(x, p, h)] = h
              /\ x.used[At(x, p, h)] /\ x.ctl[At(x, p, h)] = p
         /\ \A c \in Consoles : On(x, p, c) => x.height[c] \in 1 .. Top(x, p) - 1 /\ At(x, p, x.height[c]) = c
<1>0. House(x) /\ Typed(x) /\ Placed(x) /\ x.height[Mouse] = Top(x, p) /\ x.ctl[Mouse] = p
      /\ \A s \in Sheets : x.used[s] <=> x.height[s] >= 0
  BY DEF Desks, House
<1>1. Top(x, p) \in Int /\ Top(x, p) >= 0
  BY <1>0, BackBelow
<1>2. Mouse \in Sheets /\ Mouse # Back(p) /\ Mouse \notin Consoles /\ Consoles \subseteq Sheets
      /\ \A c \in Consoles : c # Back(p)
  BY Kinds
<1>3. On(x, p, Mouse)
  BY <1>0, <1>1, <1>2 DEF On
<1>4. \A t \in Sheets : On(x, p, t) => (t = Back(p) \/ (t \in Furniture /\ x.height[t] >= 1))
  BY <1>0, HouseDraws
<1>5. Top(x, p) >= 1
  BY <1>0, <1>2, <1>3, <1>4
<1>6. ASSUME NEW h \in 1 .. Top(x, p) - 1
      PROVE  /\ At(x, p, h) \in Consoles /\ On(x, p, At(x, p, h)) /\ x.height[At(x, p, h)] = h
             /\ x.used[At(x, p, h)] /\ x.ctl[At(x, p, h)] = p
  <2> DEFINE t == At(x, p, h)
  <2>1. h \in 0 .. Top(x, p) /\ h # 0 /\ h # Top(x, p) /\ h >= 0
    BY <1>1
  <2>2. t \in Sheets /\ On(x, p, t) /\ x.height[t] = h
    BY <1>0, <2>1, Places
  <2>3. x.height[Back(p)] = 0
    BY <1>0 DEF House, Backed
  <2>4. t # Back(p) /\ t # Mouse
    BY <1>0, <2>1, <2>2, <2>3
  <2>5. t \in Consoles
    BY <1>4, <2>2, <2>4 DEF Furniture
  <2> QED BY <1>0, <2>1, <2>2, <2>5 DEF On
<1>7. ASSUME NEW c \in Consoles, On(x, p, c)
      PROVE  x.height[c] \in 1 .. Top(x, p) - 1 /\ At(x, p, x.height[c]) = c
  <2>1. x.height[c] \in 0 .. Top(x, p) /\ At(x, p, x.height[c]) = c
    BY <1>0, <1>2, <1>7, Places
  <2>2. x.height[c] >= 1
    BY <1>2, <1>4, <1>7
  <2>3. x.height[c] # Top(x, p)
    BY <1>0, <1>2, <1>3, <1>7, SameHeight
  <2> QED BY <1>1, <2>1, <2>2, <2>3
<1> QED BY <1>1, <1>3, <1>5, <1>6, <1>7

(* The sheets stay on their desktops. *)
Steady(x, z, p) == Desks(z, p) /\ z.ctl = x.ctl /\ z.used = x.used

(* A slide of a window or the mouse. *)
LEMMA DesksSlide ==
  ASSUME NEW p \in Ctls, NEW x, Desks(x, p), NEW s \in Furniture, NEW y1 \in Int
  PROVE  Steady(x, Slide(x, s, y1), p)
<1> DEFINE z == Slide(x, s, y1)
<1>1. House(x)
  BY DEF Desks
<1>2. SamePlaces(x, z) /\ z.buf = x.buf
  BY <1>1, SlideHouse
<1> HIDE DEF z
<1>3. House(z) /\ z.stack = x.stack /\ z.height = x.height /\ z.ctl = x.ctl /\ z.used = x.used
  BY <1>2 DEF SamePlaces
<1>4. Top(z, p) = Top(x, p)
  BY <1>3 DEF Top
<1> QED BY <1>2, <1>3, <1>4 DEF Desks, Steady, z

(* A window rises under the mouse. *)
LEMMA DesksRaise ==
  ASSUME NEW p \in Ctls, NEW x, Desks(x, p), NEW s \in Consoles, On(x, p, s)
  PROVE  Steady(x, Updown(x, s, Top(x, p) - 1), p)
<1> DEFINE h == Top(x, p) - 1
           z == Updown(x, s, h)
<1>1. House(x) /\ s \in Furniture /\ x.height[Mouse] = Top(x, p) /\ x.ctl[Mouse] = p
      /\ (\A t \in Sheets : x.used[t] <=> x.height[t] >= 0)
      /\ \A c \in Consoles : x.used[c] => BufOk(x.buf[c], c)
  BY DEF Desks, Furniture
<1>2. x.height[s] \in 1 .. h /\ Top(x, p) \in Int /\ h \in 1 .. Top(x, p)
  <2>1. x.height[s] \in 1 .. Top(x, p) - 1 /\ Top(x, p) \in Int
    BY DesksTop
  <2> QED BY <2>1
<1>3. ShiftedTo(x, z, s, p, h)
  <2> HIDE DEF h
  <2> QED BY <1>1, <1>2, UpdownHouse
<1> HIDE DEF z
<1>4. /\ House(z) /\ Top(z, p) = Top(x, p)
      /\ z.ctl = x.ctl /\ z.buf = x.buf /\ z.used = x.used
      /\ \A t \in Sheets : z.height[t] >= 0 <=> x.height[t] >= 0
      /\ x.height[Mouse] > h /\ x.height[Mouse] > x.height[s] => z.height[Mouse] = x.height[Mouse]
  BY <1>3 DEF ShiftedTo
<1>5. z.height[Mouse] = x.height[Mouse]
  BY <1>1, <1>2, <1>4
<1> QED BY <1>1, <1>4, <1>5 DEF Desks, Steady, z

(* Consoles draw opaque cells. *)
LEMMA BodyOpaque ==
  ASSUME NEW c \in Consoles, NEW v \in {Body(c, 0), Body(c, 1)}
  PROVE  v \in Drawing(c) /\ Opaque(v)
BY DesktopAssumption DEF Drawing, Opaque

(* A console draws, on whatever desktop it is. *)
LEMMA DesksDraw ==
  ASSUME NEW p \in Ctls, NEW x, Desks(x, p), NEW c \in Consoles, x.used[c], NEW i \in 1 .. BodyRows
  PROVE  Steady(x, Refresh([x EXCEPT !.buf[c][i + 1] = Body(c, 1 - @[2])], c, i, i + 1), p)
<1> DEFINE v == Body(c, 1 - x.buf[c][i + 1][2])
           z == Refresh([x EXCEPT !.buf[c][i + 1] = Body(c, 1 - @[2])], c, i, i + 1)
           B == [x.buf[c] EXCEPT ![i + 1] = v]
<1>1. /\ House(x) /\ c \in Furniture /\ c \in Sheets /\ x.height[c] >= 0
      /\ (\A t \in Sheets : x.used[t] <=> x.height[t] >= 0)
      /\ (\A t \in Consoles : x.used[t] => BufOk(x.buf[t], t))
      /\ x.height[Mouse] = Top(x, p) /\ x.ctl[Mouse] = p
  BY Kinds DEF Desks, Furniture
<1>2. /\ x.buf[c] \in Seq(Drawing(c)) /\ Len(x.buf[c]) = BodyRows + 1
      /\ \A k \in 1 .. BodyRows : x.buf[c][k + 1] \in {Body(c, 0), Body(c, 1)}
  BY <1>1 DEF BufOk
<1>3. i \in Nat /\ i + 1 <= Len(x.buf[c]) /\ BodyRows \in Nat
  BY <1>2, DesktopAssumption
<1>4. v \in {Body(c, 0), Body(c, 1)}
  <2>1. x.buf[c][i + 1] = <<c, 0>> \/ x.buf[c][i + 1] = <<c, 1>>
    BY <1>2 DEF Body
  <2>2. x.buf[c][i + 1][2] = 0 \/ x.buf[c][i + 1][2] = 1
    BY <2>1
  <2>3. 1 - x.buf[c][i + 1][2] = 1 \/ 1 - x.buf[c][i + 1][2] = 0
    BY <2>2
  <2> QED BY <2>3 DEF Body
<1>5. v \in Drawing(c) /\ Opaque(v) /\ Opaque(x.buf[c][i + 1])
  BY <1>2, <1>4, BodyOpaque
<1>6. z = Refresh([x EXCEPT !.buf[c][i + 1] = v], c, i, i + 1)
  OBVIOUS
<1> HIDE DEF v, z
<1>7. SamePlaces(x, z) /\ z.buf = [x.buf EXCEPT ![c] = B]
  <2> DEFINE T == Drawing(c)
  <2>1. x.buf[c] \in Seq(T) /\ v \in T
    BY <1>2, <1>5
  <2> HIDE DEF T
  <2>2. DrawnBy(x, Refresh([x EXCEPT !.buf[c][i + 1] = v], c, i, i + 1), c, [x.buf[c] EXCEPT ![i + 1] = v])
    BY <1>1, <1>3, <1>5, <2>1, DrawHouse
  <2> QED BY <1>6, <2>2 DEF DrawnBy
<1>8. House(z) /\ z.stack = x.stack /\ z.height = x.height /\ z.ctl = x.ctl /\ z.used = x.used
  BY <1>7 DEF SamePlaces
<1>9. Top(z, p) = Top(x, p)
  BY <1>8 DEF Top
<1>10. BufOk(B, c)
  <2>1. B \in Seq(Drawing(c)) /\ Len(B) = BodyRows + 1
    BY <1>2, <1>3, <1>5
  <2>2. ASSUME NEW k \in 1 .. BodyRows
        PROVE  B[k + 1] \in {Body(c, 0), Body(c, 1)}
    <3>1. k + 1 \in 1 .. Len(x.buf[c])
      BY <1>2, <1>3
    <3>2. B[k + 1] = IF k + 1 = i + 1 THEN v ELSE x.buf[c][k + 1]
      BY <1>2, <3>1
    <3> QED BY <1>2, <1>4, <3>2
  <2> QED BY <2>1, <2>2 DEF BufOk
<1>11. \A t \in Consoles : z.used[t] => BufOk(z.buf[t], t)
  <2>1. x.buf = [t \in Sheets |-> x.buf[t]]
    BY <1>1 DEF House, Typed
  <2>2. \A t \in Sheets : z.buf[t] = IF t = c THEN B ELSE x.buf[t]
    <3> HIDE DEF B
    <3> QED BY <1>1, <1>7, <2>1
  <2>3. Consoles \subseteq Sheets
    BY Kinds
  <2> HIDE DEF B
  <2> QED BY <1>1, <1>8, <1>10, <2>2, <2>3
<1>12. Desks(z, p)
  BY <1>1, <1>8, <1>9, <1>11 DEF Desks
<1> QED BY <1>8, <1>12 DEF Steady, z

(* Console c has left. *)
Exited(x, z, p, c) == Desks(z, p) /\ z.ctl = x.ctl /\ z.used = [x.used EXCEPT ![c] = FALSE]

(* A console leaves. *)
LEMMA DesksExit ==
  ASSUME NEW p \in Ctls, NEW x, Desks(x, p), NEW c \in Consoles, x.used[c]
  PROVE  Exited(x, Free(x, c), p, c)
<1> DEFINE b == x.ctl[c]
           e == Updown(x, c, -1)
           z == Free(x, c)
<1>1. /\ House(x) /\ Typed(x) /\ c \in Furniture /\ c \in Sheets /\ x.height[c] >= 0
      /\ (\A t \in Sheets : x.used[t] <=> x.height[t] >= 0)
      /\ (\A t \in Consoles : x.used[t] => BufOk(x.buf[t], t))
      /\ x.height[Mouse] = Top(x, p) /\ x.ctl[Mouse] = p
      /\ c # Mouse /\ Consoles \subseteq Sheets /\ Mouse \in Sheets
  BY Kinds DEF Desks, Furniture, House
<1>2. b \in Ctls /\ On(x, b, c)
  BY <1>1 DEF Typed, On
<1>3. HiddenFrom(x, e, c, b)
  <2> HIDE DEF b
  <2> QED BY <1>1, <1>2, HideHouse
<1> HIDE DEF e
<1>4. /\ House(e) /\ Top(e, b) = Top(x, b) - 1 /\ \A i \in Ctls : i # b => Top(e, i) = Top(x, i)
      /\ e.ctl = x.ctl /\ e.y = x.y /\ e.buf = x.buf /\ e.used = x.used
      /\ e.height[c] = -1
      /\ \A t \in Sheets : t # c => (e.height[t] >= 0 <=> x.height[t] >= 0)
      /\ x.ctl[Mouse] = b /\ x.height[Mouse] > x.height[c] => e.height[Mouse] = x.height[Mouse] - 1
      /\ x.ctl[Mouse] # b => e.height[Mouse] = x.height[Mouse]
  <2> HIDE DEF b
  <2> QED BY <1>3 DEF HiddenFrom
<1>5. z = [e EXCEPT !.used[c] = FALSE]
  BY <1>1 DEF Free, e
<1> HIDE DEF z
<1> DEFINE U == [e.used EXCEPT ![c] = FALSE]
<1>6. Typed(e) /\ Desk(e)
  BY <1>4 DEF House, Typed
<1>7. /\ Desk(z) /\ z.used = U
      /\ z.stack = e.stack /\ z.sid = e.sid /\ z.map = e.map /\ z.vram = e.vram
      /\ z.height = e.height /\ z.id = e.id /\ z.ctl = e.ctl /\ z.y = e.y /\ z.buf = e.buf
  BY <1>5, <1>6 DEF Desk, Keys
<1>8. U \in [Sheets -> BOOLEAN] /\ U[c] = FALSE /\ \A t \in Sheets : t # c => (U[t] <=> x.used[t])
  BY <1>1, <1>4, <1>6 DEF Typed
<1>8a. U = [x.used EXCEPT ![c] = FALSE]
  BY <1>4
<1> HIDE DEF U
<1>9. Typed(z)
  BY <1>6, <1>7, <1>8 DEF Typed
<1>10. OffChange(e, z, c)
  BY <1>4, <1>7 DEF OffChange
<1>11. House(z) /\ \A i \in Ctls : Top(z, i) = Top(e, i)
  BY <1>1, <1>4, <1>9, <1>10, OffHouse
<1>12. \A t \in Sheets : z.used[t] <=> z.height[t] >= 0
  BY <1>1, <1>4, <1>7, <1>8
<1>13. \A t \in Consoles : z.used[t] => BufOk(z.buf[t], t)
  BY <1>1, <1>4, <1>7, <1>8
<1>14. z.height[Mouse] = Top(z, p)
  <2>1. CASE b = p
    <3>1. On(x, p, c)
      BY <1>2, <2>1
    <3>2. x.height[c] \in 1 .. Top(x, p) - 1 /\ Top(x, p) \in Int
      BY <3>1, DesksTop
    <3>3. x.height[Mouse] > x.height[c]
      BY <1>1, <3>2
    <3> HIDE DEF b
    <3> QED BY <1>1, <1>4, <1>7, <1>11, <2>1, <3>3
  <2>2. CASE b # p
    <3> HIDE DEF b
    <3> QED BY <1>1, <1>4, <1>7, <1>11, <2>2
  <2> QED BY <2>1, <2>2
<1>15. Desks(z, p)
  BY <1>1, <1>4, <1>7, <1>11, <1>12, <1>13, <1>14 DEF Desks
<1> QED BY <1>4, <1>7, <1>8a, <1>15 DEF Exited, z

(* A new console's buffer. *)
LEMMA ConsoleBufOk ==
  ASSUME NEW c
  PROVE  BufOk(ConsoleBuf(c), c)
<1> DEFINE T == Drawing(c)
           r == [i \in 1 .. BodyRows |-> Body(c, 0)]
<1>1. BodyRows \in Nat
  BY DesktopAssumption
<1>2. Glass \in T /\ Body(c, 0) \in T
  BY DEF Drawing
<1>3. <<Glass>> \in Seq(T) /\ r \in Seq(T) /\ Len(r) = BodyRows
  <2> HIDE DEF T
  <2>1. <<Glass>> \in Seq(T)
    BY <1>2
  <2>2. r \in Seq(T) /\ Len(r) = BodyRows
    BY <1>1, <1>2
  <2> QED BY <2>1, <2>2
<1>4. ConsoleBuf(c) = <<Glass>> \o r
  BY DEF ConsoleBuf
<1>5. ASSUME NEW i \in 1 .. BodyRows
      PROVE  (<<Glass>> \o r)[i + 1] = Body(c, 0)
  <2>1. r[i] = Body(c, 0)
    OBVIOUS
  <2> HIDE DEF r, T
  <2>2. i + 1 \in 1 .. Len(<<Glass>>) + Len(r) /\ ~ (i + 1 <= Len(<<Glass>>)) /\ (i + 1) - Len(<<Glass>>) = i
    BY <1>1, <1>3
  <2>3. (<<Glass>> \o r)[i + 1] = r[(i + 1) - Len(<<Glass>>)]
    BY <1>3, <2>2
  <2> QED BY <2>1, <2>2, <2>3
<1>6. <<Glass>> \o r \in Seq(T) /\ Len(<<Glass>> \o r) = BodyRows + 1
  <2> HIDE DEF r, T
  <2>1. <<Glass>> \o r \in Seq(T)
    BY <1>3
  <2>2. Len(<<Glass>> \o r) = Len(<<Glass>>) + Len(r)
    BY <1>3
  <2>3. Len(<<Glass>>) = 1
    OBVIOUS
  <2> QED BY <1>1, <1>3, <2>1, <2>2, <2>3
<1> QED BY <1>4, <1>5, <1>6 DEF BufOk

(* Console c has come to desktop p. *)
Opened(x, z, p, c) ==
  Desks(z, p) /\ z.ctl = [x.ctl EXCEPT ![c] = p] /\ z.used = [x.used EXCEPT ![c] = TRUE]

(* A new console comes under the mouse. *)
LEMMA DesksOpen ==
  ASSUME NEW p \in Ctls, NEW x, Desks(x, p), NEW c \in Consoles, ~ x.used[c]
  PROVE  LET a == Alloc(x, c, p, ConsoleBuf(c))
         IN Opened(x, Updown(Slide(a, c, OpenRow), c, Top(a, p)), p, c)
<1> DEFINE a == Alloc(x, c, p, ConsoleBuf(c))
           s == Slide(a, c, OpenRow)
           h == Top(a, p)
           z == Updown(s, c, h)
<1>1. /\ House(x) /\ Typed(x) /\ c \in Furniture /\ c \in Sheets
      /\ (\A t \in Sheets : x.used[t] <=> x.height[t] >= 0)
      /\ (\A t \in Consoles : x.used[t] => BufOk(x.buf[t], t))
      /\ x.height[Mouse] = Top(x, p) /\ x.ctl[Mouse] = p
      /\ c # Mouse /\ Consoles \subseteq Sheets /\ Mouse \in Sheets
  BY Kinds DEF Desks, Furniture, House
<1>2. x.height[c] < 0 /\ x.height[c] = -1 /\ x.height \in [Sheets -> Int]
  <2>1. x.height \in [Sheets -> Int] /\ x.height[c] >= -1
    BY <1>1 DEF House, Placed, Typed
  <2> QED BY <1>1, <2>1
<1>3. Alloced(x, a, c, p, ConsoleBuf(c))
  BY <1>1, AllocIs
<1> HIDE DEF a
<1>4. /\ Typed(a) /\ a.stack = x.stack /\ a.sid = x.sid /\ a.id = x.id /\ a.y = x.y
      /\ a.map = x.map /\ a.vram = x.vram
      /\ a.height = [x.height EXCEPT ![c] = -1] /\ a.ctl = [x.ctl EXCEPT ![c] = p]
      /\ a.buf = [x.buf EXCEPT ![c] = ConsoleBuf(c)] /\ a.used = [x.used EXCEPT ![c] = TRUE]
  BY <1>3 DEF Alloced
<1>5. /\ a.height = x.height /\ a.ctl[c] = p /\ a.buf[c] = ConsoleBuf(c) /\ a.used[c]
      /\ \A t \in Sheets : t # c => a.ctl[t] = x.ctl[t] /\ a.buf[t] = x.buf[t] /\ (a.used[t] <=> x.used[t])
  <2>1. a.height = x.height
    BY <1>2, <1>4
  <2>2. a.ctl[c] = p /\ \A t \in Sheets : t # c => a.ctl[t] = x.ctl[t]
    BY <1>1, <1>4 DEF Typed
  <2>3. a.buf[c] = ConsoleBuf(c) /\ \A t \in Sheets : t # c => a.buf[t] = x.buf[t]
    BY <1>1, <1>4 DEF Typed
  <2>4. a.used[c] /\ \A t \in Sheets : t # c => (a.used[t] <=> x.used[t])
    BY <1>1, <1>4 DEF Typed
  <2> QED BY <2>1, <2>2, <2>3, <2>4
<1>6. OffChange(x, a, c)
  BY <1>2, <1>4, <1>5 DEF OffChange
<1>7. House(a) /\ Top(a, p) = Top(x, p)
  BY <1>1, <1>4, <1>6, OffHouse
<1>8. SamePlaces(a, s) /\ s.buf = a.buf
  BY <1>1, <1>7, DesktopAssumption, SlideHouse
<1> HIDE DEF s
<1>9. House(s) /\ s.stack = a.stack /\ s.height = x.height /\ s.ctl = a.ctl /\ s.used = a.used /\ s.buf = a.buf
  BY <1>5, <1>8 DEF SamePlaces
<1>10. Top(s, p) = h /\ h = Top(x, p) /\ Top(x, p) \in Int /\ Top(x, p) >= 1
  BY <1>7, <1>9, DesksTop DEF Top
<1>11. Off(s, p, c)
  BY <1>1, <1>2, <1>5, <1>9 DEF Off
<1>12. ShownAt(s, z, c, p, h)
  <2>1. h \in Nat /\ h \in 1 .. Top(s, p) + 1 /\ h = IF h > Top(s, p) + 1 THEN Top(s, p) + 1 ELSE h
    BY <1>10
  <2> HIDE DEF h
  <2> QED BY <1>1, <1>9, <1>11, <2>1, ShowHouse
<1> HIDE DEF z, h
<1>13. /\ House(z) /\ Top(z, p) = Top(s, p) + 1
       /\ z.ctl = s.ctl /\ z.buf = s.buf /\ z.used = s.used
       /\ z.height[c] = h
       /\ \A t \in Sheets : t # c => (z.height[t] >= 0 <=> s.height[t] >= 0)
       /\ On(s, p, Mouse) /\ s.height[Mouse] >= h => z.height[Mouse] = s.height[Mouse] + 1
  BY <1>12 DEF ShownAt
<1>14. z.height[Mouse] = Top(z, p)
  <2>1. On(s, p, Mouse)
    BY <1>1, <1>5, <1>9, <1>10 DEF On
  <2> QED BY <1>1, <1>9, <1>10, <1>13, <2>1
<1>15. \A t \in Sheets : z.used[t] <=> z.height[t] >= 0
  BY <1>1, <1>5, <1>9, <1>10, <1>13
<1>16. \A t \in Consoles : z.used[t] => BufOk(z.buf[t], t)
  BY <1>1, <1>5, <1>9, <1>13, ConsoleBufOk
<1>17. Desks(z, p)
  BY <1>1, <1>5, <1>9, <1>13, <1>14, <1>15, <1>16 DEF Desks
<1> QED BY <1>4, <1>9, <1>13, <1>17 DEF Opened, z, h, s, a

(* At every row the screen is what is seen of desktop c. *)
Shown1(z, c) ==
  \A y \in Rows, w \in Sheets : TopIn(z, c, y, w) =>
    z.vram[y] = IF \E g \in Sheets : GlassOver(z, c, y, w, g) THEN Mix ELSE Cell(z, w, y)

(* Painting the whole screen. *)
LEMMA RepaintHouse ==
  ASSUME NEW x, House(x), NEW c \in Ctls
  PROVE  SamePlaces(x, Repainted(x, c)) /\ Repainted(x, c).buf = x.buf /\ Shown1(Repainted(x, c), c)
<1> DEFINE z == Repainted(x, c)
<1>1. Typed(x) /\ Placed(x) /\ Named(x) /\ MapOk(x) /\ Drawable(x, c) /\ Top(x, c) \in Int
      /\ Listed(x) /\ Backed(x) /\ \A y \in Rows : RowOk(x, y)
  BY HouseDraws, TopInt DEF House
<1>2. z = Refreshsub(x, c, Rows, 0, Top(x, c))
  BY DEF Repainted
<1>3. SameSheets(x, z) /\ z.map = x.map /\ PictureIs(x, z, c, Rows, 0, Top(x, c))
  BY <1>1, <1>2, RefreshsubIs
<1>4. Drawable(z, c) /\ \A y \in Rows : RowOk(x, y) => RowOk(z, y)
  <2>1. 0 \in Nat /\ Top(x, c) <= Top(x, c)
    BY <1>1
  <2> HIDE DEF z
  <2> QED BY <1>1, <1>2, <2>1, Redrawn
<1> HIDE DEF z
<1>5. Listed(z)
  BY <1>1, <1>3, SameSeen
<1>6. Backed(z)
  BY <1>1, <1>3 DEF Backed, SameSheets
<1>7. House(z)
  BY <1>1, <1>4, <1>5, <1>6 DEF House, Drawable
<1>8. ASSUME NEW y \in Rows, NEW w \in Sheets, TopIn(z, c, y, w)
      PROVE  z.vram[y] = IF \E g \in Sheets : GlassOver(z, c, y, w, g) THEN Mix ELSE Cell(z, w, y)
  <2>1. TopIn(x, c, y, w)
    BY <1>3, <1>8, SameSeen
  <2>2. Mapped(x, c, y)
    BY <1>1 DEF MapOk
  <2> QED BY <1>1, <1>3, <2>1, <2>2, PaintedAll
<1> QED BY <1>3, <1>7, <1>8 DEF SamePlaces, SameSheets, Shown1, z

(* The mouse goes to desktop c, and c is painted. *)
MouseMoved(x, z, c) ==
  Desks(z, c) /\ Shown1(z, c) /\ z.used = x.used /\ \A t \in Consoles : z.ctl[t] = x.ctl[t]

(* The mouse goes to another desktop, *)
LEMMA DesksMouse ==
  ASSUME NEW x, House(x), x.height[Mouse] >= 0, NEW c \in Ctls,
         \A t \in Sheets : x.used[t] <=> x.height[t] >= 0,
         \A t \in Consoles : x.used[t] => BufOk(x.buf[t], t)
  PROVE  MouseMoved(x, Repainted(MoveTo(x, Mouse, c, 254), c), c)
<1> DEFINE e == MoveTo(x, Mouse, c, 254)
           z == Repainted(e, c)
<1>1. Mouse \in Furniture /\ Mouse \in Sheets /\ Mouse \notin Consoles /\ Consoles \subseteq Sheets /\ 254 \in Nat
      /\ x.ctl \in [Sheets -> Ctls]
  BY Kinds DEF Furniture, House, Typed
<1>2. MovedTo(x, e, Mouse, c)
  BY <1>1, MoveHouse
<1> HIDE DEF e
<1>3. /\ House(e) /\ e.buf = x.buf /\ e.used = x.used
      /\ e.ctl = [x.ctl EXCEPT ![Mouse] = c]
      /\ \A t \in Sheets : e.height[t] >= 0 <=> x.height[t] >= 0
      /\ e.height[Mouse] = Top(e, c)
  BY <1>2 DEF MovedTo
<1>4. SamePlaces(e, z) /\ z.buf = e.buf /\ Shown1(z, c)
  BY <1>3, RepaintHouse
<1> HIDE DEF z
<1>5. House(z) /\ z.stack = e.stack /\ z.height = e.height /\ z.ctl = e.ctl /\ z.used = e.used
  BY <1>4 DEF SamePlaces
<1>6. Top(z, c) = Top(e, c)
  BY <1>5 DEF Top
<1>7. z.ctl[Mouse] = c /\ \A t \in Consoles : z.ctl[t] = x.ctl[t]
  BY <1>1, <1>3, <1>5
<1>8. Desks(z, c)
  BY <1>3, <1>4, <1>5, <1>6, <1>7 DEF Desks
<1> QED BY <1>3, <1>4, <1>5, <1>7, <1>8 DEF MouseMoved, z, e

(* Sheet s and the mouse are on desktop c, and c is painted. *)
Switched(x, z, c, s) == Desks(z, c) /\ Shown1(z, c) /\ z.used = x.used /\ z.ctl[s] = c

(* So it is with the window held. *)
LEMMA DesksSwitch ==
  ASSUME NEW p \in Ctls, NEW x, Desks(x, p), NEW c \in Ctls, NEW s \in Consoles, x.used[s]
  PROVE  Switched(x, Repainted(MoveTo(MoveTo(x, s, c, Top(x, c) + 1), Mouse, c, 254), c), c, s)
<1> DEFINE k == Top(x, c) + 1
           w == MoveTo(x, s, c, k)
           z == Repainted(MoveTo(w, Mouse, c, 254), c)
<1>1. /\ House(x) /\ s \in Furniture /\ s \in Sheets /\ s # Mouse /\ x.height[s] >= 0
      /\ (\A t \in Sheets : x.used[t] <=> x.height[t] >= 0)
      /\ (\A t \in Consoles : x.used[t] => BufOk(x.buf[t], t))
      /\ Mouse \in Sheets /\ x.ctl \in [Sheets -> Ctls] /\ x.used = x.used
  BY Kinds DEF Desks, Furniture, House, Typed
<1>1a. x.height[Mouse] >= 0
  BY DesksTop DEF On
<1>2. Top(x, c) \in Int /\ Top(x, c) >= 0
  BY <1>1, BackBelow
<1>3. MovedTo(x, w, s, c)
  <2>1. k \in Nat /\ k >= (IF x.ctl[s] = c THEN Top(x, c) ELSE Top(x, c) + 1)
    BY <1>2
  <2> HIDE DEF k
  <2> QED BY <1>1, <2>1, MoveHouse
<1> HIDE DEF w
<1>4. /\ House(w) /\ w.buf = x.buf /\ w.used = x.used
      /\ w.ctl = [x.ctl EXCEPT ![s] = c]
      /\ \A t \in Sheets : w.height[t] >= 0 <=> x.height[t] >= 0
  BY <1>3 DEF MovedTo
<1>5. w.height[Mouse] >= 0
  BY <1>1, <1>1a, <1>4
<1>6. Desks(z, c) /\ Shown1(z, c) /\ z.used = w.used /\ \A t \in Consoles : z.ctl[t] = w.ctl[t]
  <2>1. \A t \in Sheets : w.used[t] <=> w.height[t] >= 0
    BY <1>1, <1>4
  <2>2. \A t \in Consoles : w.used[t] => BufOk(w.buf[t], t)
    BY <1>1, <1>4
  <2>3. MouseMoved(w, z, c)
    BY <1>4, <1>5, <2>1, <2>2, DesksMouse
  <2> HIDE DEF z
  <2> QED BY <2>3 DEF MouseMoved
<1>7. w.ctl[s] = c
  BY <1>1, <1>4
<1> QED BY <1>4, <1>6, <1>7 DEF Switched, w

-----------------------------------------------------------------------------
(* What the properties of Desktop say, in these terms. *)
LEMMA Seen ==
  ASSUME NEW x, Typed(x), Placed(x), NEW c \in Ctls, NEW y \in Rows, NEW w \in Sheets, TopIn(x, c, y, w)
  PROVE  /\ OpaqueAt(x, c, y, 0) # {} /\ At(x, c, Max(OpaqueAt(x, c, y, 0))) = w
         /\ Colour(x, c, y) = Cell(x, w, y)
         /\ Glazed(x, c, y) <=> \E g \in Sheets : GlassOver(x, c, y, w, g)
<1> DEFINE T == OpaqueAt(x, c, y, 0)
           m == Max(T)
           k == x.height[w]
           n == Top(x, c)
<1>1. n \in Int /\ k \in 0 .. n /\ At(x, c, k) = w /\ On(x, c, w)
  BY TopInt, Places DEF TopIn, OpaqueIn
<1>2. \A h \in 0 .. n : At(x, c, h) \in Sheets /\ On(x, c, At(x, c, h)) /\ x.height[At(x, c, h)] = h
  BY Places
<1>3. k \in T
  BY <1>1 DEF OpaqueAt, TopIn, OpaqueIn
<1>4. T \subseteq 0 .. n
  BY DEF OpaqueAt
<1>5. \A h \in T : h <= k
  <2>1. ASSUME NEW h \in T
        PROVE  h <= k
    <3>1. h \in 0 .. n /\ Covers(x, At(x, c, h), y) /\ Opaque(Cell(x, At(x, c, h), y))
      BY DEF OpaqueAt
    <3>2. OpaqueIn(x, c, y, At(x, c, h)) /\ At(x, c, h) \in Sheets /\ x.height[At(x, c, h)] = h
      BY <1>2, <3>1 DEF OpaqueIn
    <3> QED BY <3>2 DEF TopIn
  <2> QED BY <2>1
<1>6. m = k
  <2>1. n \in Nat /\ T \in SUBSET (0 .. n) /\ T # {}
    BY <1>1, <1>3, <1>4
  <2>2. Max(T) \in T /\ \A i \in T : Max(T) >= i
    <3> HIDE DEF T, n
    <3> QED BY <2>1, MaxIs
  <2>3. m >= k /\ m <= k /\ m \in 0 .. n
    BY <1>3, <1>4, <1>5, <2>2
  <2> HIDE DEF m, k, n
  <2> QED BY <1>1, <2>3
<1>7. At(x, c, m) = w
  BY <1>1, <1>6
<1>8. Colour(x, c, y) = Cell(x, w, y)
  BY <1>7 DEF Colour
<1>9. Glazed(x, c, y) <=> \E h \in k + 1 .. n : Covers(x, At(x, c, h), y) /\ Cell(x, At(x, c, h), y) = Glass
  BY <1>6 DEF Glazed
<1>10. ASSUME NEW h \in k + 1 .. n, Covers(x, At(x, c, h), y), Cell(x, At(x, c, h), y) = Glass
       PROVE  \E g \in Sheets : GlassOver(x, c, y, w, g)
  <2>1. h \in 0 .. n /\ h > k
    BY <1>1
  <2>2. GlassOver(x, c, y, w, At(x, c, h)) /\ At(x, c, h) \in Sheets
    BY <1>2, <1>10, <2>1 DEF GlassOver, GlassIn
  <2> QED BY <2>2
<1>11. ASSUME NEW g \in Sheets, GlassOver(x, c, y, w, g)
       PROVE  \E h \in k + 1 .. n : Covers(x, At(x, c, h), y) /\ Cell(x, At(x, c, h), y) = Glass
  <2>1. On(x, c, g) /\ Covers(x, g, y) /\ Cell(x, g, y) = Glass /\ x.height[g] > k
    BY <1>11 DEF GlassOver, GlassIn
  <2>2. x.height[g] \in 0 .. n /\ At(x, c, x.height[g]) = g
    BY <2>1, Places
  <2>3. x.height[g] \in k + 1 .. n
    BY <1>1, <2>1, <2>2
  <2> QED BY <2>1, <2>2, <2>3
<1>12. Glazed(x, c, y) <=> \E g \in Sheets : GlassOver(x, c, y, w, g)
  BY <1>9, <1>10, <1>11
<1> QED BY <1>3, <1>7, <1>8, <1>12

-----------------------------------------------------------------------------
\* The keys and the window held.

(* Keys go to a console of desktop p, or to one that has gone. *)
Keyed(x, p, k) == k # None => k \in Consoles /\ (x.used[k] => x.ctl[k] = p)

(* A window held is on desktop p and has the keys. *)
Grips(x, p, k, s) == s \in Consoles /\ x.used[s] => x.ctl[s] = p /\ k = s

(* A console with a desktop is on it, above the background. *)
LEMMA ConsoleOn ==
  ASSUME NEW p \in Ctls, NEW x, Desks(x, p), NEW c \in Consoles, x.used[c], x.ctl[c] = p
  PROVE  On(x, p, c) /\ x.height[c] >= 1
<1>1. On(x, p, c)
  BY Kinds DEF Desks, On
<1>2. x.height[c] \in 1 .. Top(x, p) - 1
  BY <1>1, DesksTop
<1>3. Top(x, p) \in Int
  BY DesksTop
<1> QED BY <1>1, <1>2, <1>3

(* After the test for a key_win that is gone, keys go to an open window or none. *)
LEMMA FocusIs ==
  ASSUME DesktopInv
  PROVE  /\ Focus # None => Focus \in Consoles /\ d.used[Focus] /\ On(d, point, Focus)
         /\ keywin \in Consoles /\ d.used[keywin] => Focus = keywin
<1>1. point \in Ctls /\ Desks(d, point) /\ FocusShown
  BY DEF DesktopInv
<1>1a. None \notin Consoles
  BY Kinds
<1>2. CASE keywin # None /\ ~ d.used[keywin]
  <2>1. Top(d, point) \in Int /\ Top(d, point) >= 1
    BY <1>1, DesksTop
  <2>2. CASE Top(d, point) = 1
    BY <1>2, <2>2 DEF Focus
  <2>3. CASE Top(d, point) # 1
    <3> DEFINE h == Top(d, point) - 1
    <3>1. h \in 1 .. Top(d, point) - 1
      BY <2>1, <2>3
    <3>2. Focus = At(d, point, h)
      BY <1>2, <2>3 DEF Focus
    <3> HIDE DEF h
    <3>3. At(d, point, h) \in Consoles /\ On(d, point, At(d, point, h)) /\ d.used[At(d, point, h)]
      BY <1>1, <3>1, DesksTop
    <3> QED BY <1>2, <3>2, <3>3
  <2> QED BY <2>2, <2>3
<1>3. CASE ~ (keywin # None /\ ~ d.used[keywin])
  <2>1. Focus = keywin
    BY <1>3 DEF Focus
  <2>2. keywin # None => keywin \in Consoles /\ d.used[keywin] /\ d.ctl[keywin] = point
    BY <1>1, <1>3 DEF FocusShown
  <2> QED BY <1>1, <2>1, <2>2, ConsoleOn
<1> QED BY <1>2, <1>3

(* The search among the windows finds one, or keeps sht. *)
LEMMA SearchedIs ==
  ASSUME DesktopInv, NEW y \in Rows
  PROVE  /\ Searched(y) \in Consoles \cup {None}
         /\ sht \in Consoles => Searched(y) \in Consoles
         /\ HitsAt(y) # {} => Searched(y) \in Consoles /\ On(d, point, Searched(y))
<1>1. point \in Ctls /\ Desks(d, point) /\ sht \in Consoles \cup {None}
  BY DEF DesktopInv
<1>2. Top(d, point) \in Int /\ Top(d, point) >= 1
  BY <1>1, DesksTop
<1> DEFINE n == Top(d, point)
           T == HitsAt(y)
<1>3. CASE T # {}
  <2>1. T \subseteq 1 .. n - 1
    BY DEF HitsAt
  <2>2. n \in Nat /\ T \in SUBSET (0 .. n)
    BY <1>2, <2>1
  <2>3. Max(T) \in T
    <3> HIDE DEF T, n
    <3> QED BY <1>3, <2>2, MaxIs
  <2>4. Max(T) \in 1 .. Top(d, point) - 1
    BY <2>1, <2>3
  <2>5. Searched(y) = At(d, point, Max(T))
    BY <1>3 DEF Searched
  <2> DEFINE h == Max(T)
  <2>6. At(d, point, h) \in Consoles /\ On(d, point, At(d, point, h))
    <3>1. h \in 1 .. Top(d, point) - 1
      BY <2>4
    <3> HIDE DEF h
    <3> QED BY <1>1, <3>1, DesksTop
  <2> QED BY <2>5, <2>6
<1>4. CASE T = {}
  <2>1. CASE Top(d, point) > 1
    <3>1. 1 \in 1 .. Top(d, point) - 1
      BY <1>2, <2>1
    <3>2. At(d, point, 1) \in Consoles
      BY <1>1, <3>1, DesksTop
    <3>3. Searched(y) = At(d, point, 1)
      BY <1>4, <2>1 DEF Searched
    <3> QED BY <1>4, <3>2, <3>3
  <2>2. CASE ~ (Top(d, point) > 1)
    <3>1. Searched(y) = sht
      BY <1>4, <2>2 DEF Searched
    <3> QED BY <1>1, <1>4, <3>1
  <2> QED BY <2>1, <2>2
<1> QED BY <1>3, <1>4

(* The invariant after a step, from its parts. *)
LEMMA InvIs ==
  ASSUME point' \in Ctls, Desks(d', point'),
         my' \in Int, newy' \in Int, mmy' \in Int, slid' \in BOOLEAN,
         held' \in Consoles \cup {None, Missed}, sht' \in Consoles \cup {None},
         Slidable', Grips(d', point', keywin', held'), Keyed(d', point', keywin')
  PROVE  DesktopInv'
<1>1. FocusShown'
  <2>1. ASSUME keywin' # None
        PROVE  keywin' \in Consoles /\ (d'.used[keywin'] => d'.height[keywin'] >= 1 /\ d'.ctl[keywin'] = point')
    BY <2>1, ConsoleOn DEF Keyed
  <2> QED BY <2>1 DEF FocusShown
<1>2. HoldsFocus'
  BY DEF HoldsFocus, Grips
<1> QED BY <1>1, <1>2 DEF DesktopInv

(* What the invariant says, for the steps below. *)
LEMMA InvParts ==
  ASSUME DesktopInv
  PROVE  /\ point \in Ctls /\ Desks(d, point)
         /\ my \in Int /\ newy \in Int /\ mmy \in Int /\ slid \in BOOLEAN
         /\ held \in Consoles \cup {None, Missed} /\ sht \in Consoles \cup {None}
         /\ (slid \/ mmy # -1) => sht \in Consoles
         /\ Grips(d, point, keywin, held) /\ Keyed(d, point, keywin)
         /\ Grips(d, point, Focus, held) /\ Keyed(d, point, Focus)
         /\ None \notin Consoles /\ Missed \notin Consoles /\ Missed # None
         /\ Consoles \subseteq Furniture /\ Mouse \in Furniture
<1>1. Grips(d, point, keywin, held)
  BY DEF DesktopInv, HoldsFocus, Grips
<1>2. Keyed(d, point, keywin)
  BY DEF DesktopInv, FocusShown, Keyed
<1>3. Grips(d, point, Focus, held)
  BY <1>1, FocusIs DEF Grips
<1>4. Keyed(d, point, Focus)
  BY FocusIs DEF Keyed, On
<1>5. None \notin Consoles /\ Missed \notin Consoles /\ Missed # None /\ Consoles \subseteq Furniture /\ Mouse \in Furniture
  BY Kinds DEF Furniture
<1> QED BY <1>1, <1>2, <1>3, <1>4, <1>5 DEF DesktopInv, Slidable

(* While the sheets stay on their desktops, so do the keys and the window held. *)
LEMMA SteadyKeys ==
  ASSUME NEW x, NEW z, NEW p, Steady(x, z, p), NEW k, NEW s
  PROVE  /\ Keyed(x, p, k) => Keyed(z, p, k)
         /\ Grips(x, p, k, s) => Grips(z, p, k, s)
BY DEF Steady, Keyed, Grips

-----------------------------------------------------------------------------
\* The actions.

(* Rows are integers. *)
LEMMA RowsInt == \A y \in Rows : y \in Int
BY DEF Rows

(* The sheets after a step that moves none to another desktop. *)
LEMMA SteadyInv ==
  ASSUME DesktopInv, Steady(d, d', point), point' = point,
         my' \in Int, newy' \in Int, mmy' \in Int, slid' \in BOOLEAN,
         held' \in Consoles \cup {None, Missed}, sht' \in Consoles \cup {None},
         (slid' \/ mmy' # -1) => sht' \in Consoles,
         Grips(d, point, keywin', held'), Keyed(d, point, keywin')
  PROVE  DesktopInv'
<1>1. point' \in Ctls
  BY DEF DesktopInv
<1>2. Desks(d', point')
  BY DEF Steady
<1>3. Slidable'
  BY DEF Slidable
<1>4. Grips(d', point', keywin', held') /\ Keyed(d', point', keywin')
  BY SteadyKeys
<1> QED BY <1>1, <1>2, <1>3, <1>4, InvIs

(* Such is a step that changes no sheet. *)
LEMMA SteadySame ==
  ASSUME DesktopInv, UNCHANGED d
  PROVE  Steady(d, d', point)
<1>1. Desks(d, point)
  BY DEF DesktopInv
<1>2. d' = d
  OBVIOUS
<1> QED BY <1>1, <1>2 DEF Steady

(* Every action keeps the invariant.  The button is up: a slide that waits is drawn, *)
LEMMA MouseUpInv ==
  ASSUME DesktopInv, NEW y \in Rows, MouseUp(y)
  PROVE  DesktopInv'
<1>1. /\ point \in Ctls /\ Desks(d, point)
      /\ newy \in Int /\ mmy \in Int /\ slid \in BOOLEAN
      /\ (slid \/ mmy # -1) => sht \in Consoles
      /\ Keyed(d, point, Focus)
      /\ None \notin Consoles /\ Consoles \subseteq Furniture
  BY InvParts
<1>2. /\ my' = y /\ sht' = Searched(y) /\ held' = None /\ mmy' = -1 /\ slid' = FALSE
      /\ d' = (IF slid THEN Slide(d, sht', newy) ELSE d)
      /\ keywin' = Focus /\ newy' = newy /\ point' = point
  BY DEF MouseUp, Packet
<1>3. sht' \in Consoles \cup {None} /\ (sht \in Consoles => sht' \in Consoles)
  BY <1>2, SearchedIs
<1>4. Steady(d, d', point)
  <2>1. CASE slid
    <3>1. d' = Slide(d, sht', newy)
      BY <1>2, <2>1
    <3>2. sht' \in Furniture
      BY <1>1, <1>3, <2>1
    <3> QED BY <1>1, <3>1, <3>2, DesksSlide
  <2>2. CASE ~ slid
    BY <1>2, <2>2, SteadySame
  <2> QED BY <2>1, <2>2
<1>5. my' \in Int /\ newy' \in Int /\ mmy' \in Int
  <2>1. -1 \in Int
    OBVIOUS
  <2> QED BY <1>1, <1>2, <2>1, RowsInt
<1>6. Grips(d, point, keywin', held')
  BY <1>1, <1>2 DEF Grips
<1>7. held' \in Consoles \cup {None, Missed} /\ slid' \in BOOLEAN /\ ~ (slid' \/ mmy' # -1)
      /\ Keyed(d, point, keywin')
  BY <1>1, <1>2
<1> QED BY <1>2, <1>3, <1>4, <1>5, <1>6, <1>7, SteadyInv

(* the button is down beside every window, *)
LEMMA MouseMissInv ==
  ASSUME DesktopInv, NEW y \in Rows, MouseMiss(y)
  PROVE  DesktopInv'
<1>1. /\ newy \in Int /\ mmy \in Int /\ slid \in BOOLEAN
      /\ (slid \/ mmy # -1) => sht \in Consoles
      /\ Keyed(d, point, Focus) /\ Missed \notin Consoles
  BY InvParts
<1>2. /\ my' = y /\ sht' = Searched(y) /\ held' = Missed /\ mmy' = mmy /\ slid' = slid
      /\ UNCHANGED d /\ keywin' = Focus /\ newy' = newy /\ point' = point
  BY DEF MouseMiss, Packet
<1>3. sht' \in Consoles \cup {None} /\ (sht \in Consoles => sht' \in Consoles)
  BY <1>2, SearchedIs
<1>4. Steady(d, d', point)
  BY <1>2, SteadySame
<1>5. my' \in Int /\ newy' \in Int /\ mmy' \in Int
  BY <1>1, <1>2, RowsInt
<1>6. Grips(d, point, keywin', held')
  BY <1>1, <1>2 DEF Grips
<1>7. held' \in Consoles \cup {None, Missed} /\ slid' \in BOOLEAN /\ ((slid' \/ mmy' # -1) => sht' \in Consoles)
      /\ Keyed(d, point, keywin')
  BY <1>1, <1>2, <1>3
<1> QED BY <1>2, <1>3, <1>4, <1>5, <1>6, <1>7, SteadyInv

(* or on one, which rises with the first packet, *)
LEMMA MouseHitInv ==
  ASSUME DesktopInv, NEW y \in Rows, MouseHit(y)
  PROVE  DesktopInv'
<1> DEFINE s == Searched(y)
<1>1. /\ point \in Ctls /\ Desks(d, point)
      /\ newy \in Int /\ mmy \in Int /\ slid \in BOOLEAN
      /\ held \in Consoles \cup {None, Missed}
      /\ Grips(d, point, Focus, held) /\ Keyed(d, point, Focus)
      /\ None \notin Consoles
  BY InvParts
<1>2. /\ HitsAt(y) # {} /\ my' = y /\ sht' = s
      /\ d' = (IF held = None THEN Grabbed(s) ELSE d)
      /\ keywin' = (IF held = None THEN s ELSE Focus)
      /\ held' = (IF held = None THEN s ELSE held)
      /\ (mmy' = y /\ newy' = d.y[s]) \/ (mmy' = mmy /\ newy' = newy)
      /\ point' = point /\ slid' = slid
  BY DEF MouseHit, Packet
<1>3. s \in Consoles /\ On(d, point, s)
  BY <1>2, SearchedIs
<1> HIDE DEF s
<1>4. Steady(d, d', point)
  <2>1. CASE held = None
    <3>1. d' = Updown(d, s, Top(d, point) - 1)
      BY <1>2, <2>1 DEF Grabbed
    <3> QED BY <1>1, <1>3, <3>1, DesksRaise
  <2>2. CASE held # None
    BY <1>2, <2>2, SteadySame
  <2> QED BY <2>1, <2>2
<1>5. my' \in Int /\ newy' \in Int /\ mmy' \in Int
  <2>1. d.y \in [Sheets -> Int] /\ s \in Sheets
    BY <1>1, <1>3, Kinds DEF Desks, House, Typed
  <2>2. d.y[s] \in Int
    BY <2>1
  <2> QED BY <1>1, <1>2, <2>2, RowsInt
<1>6. Grips(d, point, keywin', held') /\ Keyed(d, point, keywin')
  <2>1. CASE held = None
    <3>1. keywin' = s /\ held' = s /\ d.ctl[s] = point
      BY <1>2, <1>3, <2>1 DEF On
    <3> QED BY <1>3, <3>1 DEF Grips, Keyed
  <2>2. CASE held # None
    BY <1>1, <1>2, <2>2
  <2> QED BY <2>1, <2>2
<1>7. held' \in Consoles \cup {None, Missed} /\ slid' \in BOOLEAN /\ sht' \in Consoles
  BY <1>1, <1>2, <1>3
<1> QED BY <1>2, <1>4, <1>5, <1>6, <1>7, SteadyInv

(* or a window is dragged. *)
LEMMA MouseDragInv ==
  ASSUME DesktopInv, NEW y \in Rows, MouseDrag(y)
  PROVE  DesktopInv'
<1>1. /\ newy \in Int /\ mmy \in Int /\ held \in Consoles \cup {None, Missed}
      /\ (slid \/ mmy # -1) => sht \in Consoles
      /\ Grips(d, point, Focus, held) /\ Keyed(d, point, Focus)
  BY InvParts
<1>2. /\ mmy # -1 /\ my' = y /\ sht' = Searched(y) /\ held' = held /\ mmy' = y /\ slid' = TRUE
      /\ UNCHANGED d /\ keywin' = Focus /\ newy' = newy + (y - mmy) /\ point' = point
  BY DEF MouseDrag, Packet
<1>3. sht' \in Consoles
  BY <1>1, <1>2, SearchedIs
<1>4. Steady(d, d', point)
  BY <1>2, SteadySame
<1>5. my' \in Int /\ newy' \in Int /\ mmy' \in Int
  <2>1. y \in Int
    BY RowsInt
  <2>2. newy + (y - mmy) \in Int
    BY <1>1, <2>1
  <2> QED BY <1>2, <2>1, <2>2
<1>6. held' \in Consoles \cup {None, Missed} /\ slid' \in BOOLEAN
      /\ Grips(d, point, keywin', held') /\ Keyed(d, point, keywin')
  BY <1>1, <1>2
<1> QED BY <1>2, <1>3, <1>4, <1>5, <1>6, SteadyInv

(* The FIFO is empty: the mouse, *)
LEMMA DrawMouseInv ==
  ASSUME DesktopInv, DrawMouse
  PROVE  DesktopInv'
<1>1. /\ point \in Ctls /\ Desks(d, point)
      /\ my \in Int /\ newy \in Int /\ mmy \in Int /\ slid \in BOOLEAN
      /\ held \in Consoles \cup {None, Missed} /\ sht \in Consoles \cup {None}
      /\ (slid \/ mmy # -1) => sht \in Consoles
      /\ Grips(d, point, keywin, held) /\ Keyed(d, point, keywin)
      /\ Mouse \in Furniture
  BY InvParts
<1>2. /\ d' = Slide(d, Mouse, my)
      /\ my' = my /\ sht' = sht /\ held' = held /\ mmy' = mmy /\ slid' = slid
      /\ keywin' = keywin /\ newy' = newy /\ point' = point
  BY DEF DrawMouse
<1>3. Steady(d, d', point)
  BY <1>1, <1>2, DesksSlide
<1>4. /\ my' \in Int /\ newy' \in Int /\ mmy' \in Int /\ slid' \in BOOLEAN
      /\ held' \in Consoles \cup {None, Missed} /\ sht' \in Consoles \cup {None}
      /\ (slid' \/ mmy' # -1) => sht' \in Consoles
      /\ Grips(d, point, keywin', held') /\ Keyed(d, point, keywin')
  BY <1>1, <1>2
<1> QED BY <1>2, <1>3, <1>4, SteadyInv

(* and then the window. *)
LEMMA DrawWindowInv ==
  ASSUME DesktopInv, DrawWindow
  PROVE  DesktopInv'
<1>1. /\ point \in Ctls /\ Desks(d, point)
      /\ my \in Int /\ newy \in Int /\ mmy \in Int
      /\ held \in Consoles \cup {None, Missed} /\ sht \in Consoles \cup {None}
      /\ (slid \/ mmy # -1) => sht \in Consoles
      /\ Grips(d, point, keywin, held) /\ Keyed(d, point, keywin)
      /\ Consoles \subseteq Furniture
  BY InvParts
<1>2. /\ slid /\ d' = Slide(d, sht, newy)
      /\ my' = my /\ sht' = sht /\ held' = held /\ mmy' = mmy /\ slid' = FALSE
      /\ keywin' = keywin /\ newy' = newy /\ point' = point
  BY DEF DrawWindow
<1>3. sht \in Furniture /\ sht' \in Consoles
  BY <1>1, <1>2
<1>4. Steady(d, d', point)
  BY <1>1, <1>2, <1>3, DesksSlide
<1>5. /\ my' \in Int /\ newy' \in Int /\ mmy' \in Int /\ slid' \in BOOLEAN
      /\ held' \in Consoles \cup {None, Missed}
      /\ Grips(d, point, keywin', held') /\ Keyed(d, point, keywin')
  BY <1>1, <1>2
<1> QED BY <1>2, <1>3, <1>4, <1>5, SteadyInv

(* What a key or a console leaves alone. *)
LEMMA MouseVars ==
  ASSUME DesktopInv, UNCHANGED mousevars
  PROVE  /\ my' \in Int /\ newy' \in Int /\ mmy' \in Int /\ slid' \in BOOLEAN
         /\ held' \in Consoles \cup {None, Missed} /\ sht' \in Consoles \cup {None}
         /\ held' = held
         /\ (slid' \/ mmy' # -1) => sht' \in Consoles
BY DEF DesktopInv, Slidable, mousevars

(* Shift+F2. *)
LEMMA OpenConsoleInv ==
  ASSUME Careful = TRUE, DesktopInv, NEW c \in Consoles, OpenConsole(c)
  PROVE  DesktopInv'
<1> DEFINE a == Alloc(d, c, point, ConsoleBuf(c))
           z == Updown(Slide(a, c, OpenRow), c, Top(a, point))
<1>1. point \in Ctls /\ Desks(d, point) /\ None \notin Consoles
  BY InvParts
<1>2. /\ held = None /\ ~ d.used[c] /\ d' = z
      /\ keywin' = c /\ point' = point /\ UNCHANGED mousevars
  BY DEF OpenConsole, CarefulKey
<1>3. Opened(d, z, point, c)
  BY <1>1, <1>2, DesksOpen
<1> HIDE DEF z
<1>4. /\ Desks(d', point) /\ d'.ctl = [d.ctl EXCEPT ![c] = point]
      /\ d'.used = [d.used EXCEPT ![c] = TRUE]
  BY <1>2, <1>3 DEF Opened
<1>5. d'.ctl[c] = point
  <2>1. d.ctl \in [Sheets -> Ctls] /\ c \in Sheets
    BY <1>1, Kinds DEF Desks, House, Typed
  <2> QED BY <1>4, <2>1
<1>6. /\ my' \in Int /\ newy' \in Int /\ mmy' \in Int /\ slid' \in BOOLEAN
      /\ held' \in Consoles \cup {None, Missed} /\ sht' \in Consoles \cup {None}
      /\ held' = None
      /\ (slid' \/ mmy' # -1) => sht' \in Consoles
  BY <1>2, MouseVars
<1>7. Slidable'
  BY <1>6 DEF Slidable
<1>8. Grips(d', point', keywin', held')
  BY <1>1, <1>6 DEF Grips
<1>9. Keyed(d', point', keywin')
  BY <1>2, <1>5 DEF Keyed
<1>10. point' \in Ctls /\ Desks(d', point')
  BY <1>1, <1>2, <1>4
<1> QED BY <1>6, <1>7, <1>8, <1>9, <1>10, InvIs

(* A console leaves: the window held or with the keys may be its own. *)
LEMMA ConsoleExitInv ==
  ASSUME DesktopInv, NEW c \in Consoles, ConsoleExit(c)
  PROVE  DesktopInv'
<1> DEFINE z == Free(d, c)
<1>1. point \in Ctls /\ Desks(d, point) /\ Grips(d, point, keywin, held) /\ Keyed(d, point, keywin)
      /\ Consoles \subseteq Sheets
  BY InvParts, Kinds
<1>2. d.used[c] /\ d' = z /\ keywin' = keywin /\ point' = point /\ UNCHANGED mousevars
  BY DEF ConsoleExit
<1>3. Exited(d, z, point, c)
  BY <1>1, <1>2, DesksExit
<1> HIDE DEF z
<1>4. Desks(d', point) /\ d'.ctl = d.ctl /\ d'.used = [d.used EXCEPT ![c] = FALSE]
  BY <1>2, <1>3 DEF Exited
<1>5. \A t \in Consoles : d'.used[t] => d.used[t]
  <2>1. d.used \in [Sheets -> BOOLEAN]
    BY <1>1 DEF Desks, House, Typed
  <2> QED BY <1>1, <1>2, <1>4, <2>1
<1>6. /\ my' \in Int /\ newy' \in Int /\ mmy' \in Int /\ slid' \in BOOLEAN
      /\ held' \in Consoles \cup {None, Missed} /\ sht' \in Consoles \cup {None}
      /\ held' = held
      /\ (slid' \/ mmy' # -1) => sht' \in Consoles
  BY <1>2, MouseVars
<1>7. Slidable'
  BY <1>6 DEF Slidable
<1>8. Grips(d', point', keywin', held')
  BY <1>1, <1>2, <1>4, <1>5, <1>6 DEF Grips
<1>9. Keyed(d', point', keywin')
  BY <1>1, <1>2, <1>4, <1>5 DEF Keyed
<1>10. point' \in Ctls /\ Desks(d', point')
  BY <1>1, <1>2, <1>4
<1> QED BY <1>6, <1>7, <1>8, <1>9, <1>10, InvIs

(* A console draws. *)
LEMMA ConsoleDrawInv ==
  ASSUME DesktopInv, NEW c \in Consoles, NEW i \in 1 .. BodyRows, ConsoleDraw(c, i)
  PROVE  DesktopInv'
<1> DEFINE z == Refresh([d EXCEPT !.buf[c][i + 1] = Body(c, 1 - @[2])], c, i, i + 1)
<1>1. point \in Ctls /\ Desks(d, point) /\ Grips(d, point, keywin, held) /\ Keyed(d, point, keywin)
  BY InvParts
<1>2. d.used[c] /\ d' = z /\ keywin' = keywin /\ point' = point /\ UNCHANGED mousevars
  BY DEF ConsoleDraw
<1>3. Steady(d, z, point)
  BY <1>1, <1>2, DesksDraw
<1> HIDE DEF z
<1>4. Steady(d, d', point)
  BY <1>2, <1>3
<1>5. /\ my' \in Int /\ newy' \in Int /\ mmy' \in Int /\ slid' \in BOOLEAN
      /\ held' \in Consoles \cup {None, Missed} /\ sht' \in Consoles \cup {None}
      /\ held' = held
      /\ (slid' \/ mmy' # -1) => sht' \in Consoles
  BY <1>2, MouseVars
<1>6. Grips(d, point, keywin', held') /\ Keyed(d, point, keywin')
  BY <1>1, <1>2, <1>5
<1> QED BY <1>2, <1>4, <1>5, <1>6, SteadyInv

(* F11 raises a window, if there is one. *)
LEMMA KeyF11Inv ==
  ASSUME Careful = TRUE, DesktopInv, KeyF11
  PROVE  DesktopInv'
<1> DEFINE s == At(d, point, 1)
<1>1. point \in Ctls /\ Desks(d, point) /\ Grips(d, point, Focus, held) /\ Keyed(d, point, Focus)
  BY InvParts
<1>2. /\ Top(d, point) > 1 /\ d' = Updown(d, s, Top(d, point) - 1)
      /\ keywin' = Focus /\ point' = point /\ UNCHANGED mousevars
  BY DEF KeyF11, CarefulF11
<1>3. s \in Consoles /\ On(d, point, s)
  <2>1. Top(d, point) \in Int
    BY <1>1, DesksTop
  <2>2. 1 \in 1 .. Top(d, point) - 1
    BY <1>2, <2>1
  <2> QED BY <1>1, <2>2, DesksTop
<1> HIDE DEF s
<1>4. Steady(d, d', point)
  BY <1>1, <1>2, <1>3, DesksRaise
<1>5. /\ my' \in Int /\ newy' \in Int /\ mmy' \in Int /\ slid' \in BOOLEAN
      /\ held' \in Consoles \cup {None, Missed} /\ sht' \in Consoles \cup {None}
      /\ held' = held
      /\ (slid' \/ mmy' # -1) => sht' \in Consoles
  BY <1>2, MouseVars
<1>6. Grips(d, point, keywin', held') /\ Keyed(d, point, keywin')
  BY <1>1, <1>2, <1>5
<1> QED BY <1>2, <1>4, <1>5, <1>6, SteadyInv

(* The next window of Tab is on the desktop shown. *)
LEMMA BelowIs ==
  ASSUME NEW p \in Ctls, Desks(d, p), p = point, NEW s \in Consoles, On(d, p, s)
  PROVE  Below(s) \in Consoles /\ d.ctl[Below(s)] = p
<1> DEFINE j == d.height[s] - 1
           h == IF j = 0 THEN Top(d, p) - 1 ELSE j
<1>1. Top(d, p) \in Int
  BY DesksTop
<1>2. d.height[s] \in 1 .. Top(d, p) - 1
  BY DesksTop
<1>3. h \in 1 .. Top(d, p) - 1
  BY <1>1, <1>2
<1>4. Below(s) = At(d, p, h)
  BY DEF Below
<1> HIDE DEF h
<1>5. At(d, p, h) \in Consoles /\ d.ctl[At(d, p, h)] = p
  BY <1>3, DesksTop
<1> QED BY <1>4, <1>5

(* Tab. *)
LEMMA KeyTabInv ==
  ASSUME Careful = TRUE, DesktopInv, KeyTab
  PROVE  DesktopInv'
<1>1. point \in Ctls /\ Desks(d, point) /\ None \notin Consoles
  BY InvParts
<1>2. /\ held = None /\ UNCHANGED d /\ Focus # None
      /\ keywin' = Below(Focus) /\ point' = point /\ UNCHANGED mousevars
  BY DEF KeyTab, CarefulKey
<1>3. Focus \in Consoles /\ On(d, point, Focus)
  BY <1>2, FocusIs
<1>4. keywin' \in Consoles /\ d.ctl[keywin'] = point
  BY <1>1, <1>2, <1>3, BelowIs
<1>5. Steady(d, d', point)
  BY <1>2, SteadySame
<1>6. /\ my' \in Int /\ newy' \in Int /\ mmy' \in Int /\ slid' \in BOOLEAN
      /\ held' \in Consoles \cup {None, Missed} /\ sht' \in Consoles \cup {None}
      /\ held' = None
      /\ (slid' \/ mmy' # -1) => sht' \in Consoles
  BY <1>2, MouseVars
<1>7. Grips(d, point, keywin', held') /\ Keyed(d, point, keywin')
  BY <1>1, <1>4, <1>6 DEF Grips, Keyed
<1> QED BY <1>2, <1>5, <1>6, <1>7, SteadyInv

(* Alt+Fn: the new desktop with what a careful user takes along. *)
LEMMA SwitchIs ==
  ASSUME Careful = TRUE, DesktopInv, NEW c \in Ctls, SwitchDesktop(c)
  PROVE  Desks(d', c) /\ Shown1(d', c) /\ Grips(d', c, keywin', held) /\ Keyed(d', c, keywin')
<1> DEFINE w == IF held = None THEN d ELSE MoveTo(d, held, c, Top(d, c) + 1)
           z == Repainted(MoveTo(w, Mouse, c, 254), c)
<1>1. /\ point \in Ctls /\ Desks(d, point) /\ held \in Consoles \cup {None, Missed}
      /\ Grips(d, point, keywin, held) /\ None \notin Consoles /\ Consoles \subseteq Sheets
  BY InvParts, Kinds
<1>2. held # Missed /\ (held \in Sheets => d.used[held]) /\ d' = z
      /\ keywin' = (IF held = None THEN None ELSE Focus)
  BY DEF SwitchDesktop, CarefulSwitch
<1>3. CASE held = None
  <2>1. House(d) /\ (\A t \in Sheets : d.used[t] <=> d.height[t] >= 0)
        /\ \A t \in Consoles : d.used[t] => BufOk(d.buf[t], t)
    BY <1>1 DEF Desks
  <2>2. d.height[Mouse] >= 0
    BY <1>1, DesksTop DEF On
  <2>3. MouseMoved(d, Repainted(MoveTo(d, Mouse, c, 254), c), c)
    BY <2>1, <2>2, DesksMouse
  <2>4. d' = Repainted(MoveTo(d, Mouse, c, 254), c)
    BY <1>2, <1>3
  <2>5. Desks(d', c) /\ Shown1(d', c)
    BY <2>3, <2>4 DEF MouseMoved
  <2>6. keywin' = None
    BY <1>2, <1>3
  <2> QED BY <1>1, <1>3, <2>5, <2>6 DEF Grips, Keyed
<1>4. CASE held # None
  <2> DEFINE e == Repainted(MoveTo(MoveTo(d, held, c, Top(d, c) + 1), Mouse, c, 254), c)
  <2>1. held \in Consoles /\ d.used[held]
    BY <1>1, <1>2, <1>4
  <2>2. Switched(d, e, c, held)
    BY <1>1, <2>1, DesksSwitch
  <2>3. d' = e
    BY <1>2, <1>4
  <2> HIDE DEF e
  <2>4. Desks(d', c) /\ Shown1(d', c) /\ d'.ctl[held] = c
    BY <2>2, <2>3 DEF Switched
  <2>5. keywin = held
    BY <1>1, <2>1 DEF Grips
  <2>6. keywin' = held
    BY <1>2, <1>4, <2>1, <2>5, FocusIs
  <2> QED BY <2>1, <2>4, <2>6 DEF Grips, Keyed
<1> QED BY <1>3, <1>4

(* Alt+Fn. *)
LEMMA SwitchDesktopInv ==
  ASSUME Careful = TRUE, DesktopInv, NEW c \in Ctls, SwitchDesktop(c)
  PROVE  DesktopInv'
<1>1. Desks(d', c) /\ Grips(d', c, keywin', held) /\ Keyed(d', c, keywin')
  BY SwitchIs
<1>2. point' = c /\ UNCHANGED mousevars
  BY DEF SwitchDesktop
<1>3. /\ my' \in Int /\ newy' \in Int /\ mmy' \in Int /\ slid' \in BOOLEAN
      /\ held' \in Consoles \cup {None, Missed} /\ sht' \in Consoles \cup {None}
      /\ held' = held
      /\ (slid' \/ mmy' # -1) => sht' \in Consoles
  BY <1>2, MouseVars
<1>4. Slidable'
  BY <1>3 DEF Slidable
<1>5. /\ point' \in Ctls /\ Desks(d', point')
      /\ Grips(d', point', keywin', held') /\ Keyed(d', point', keywin')
  BY <1>1, <1>2, <1>3
<1> QED BY <1>3, <1>4, <1>5, InvIs

(* Nothing happens. *)
LEMMA StutterInv ==
  ASSUME DesktopInv, UNCHANGED vars
  PROVE  DesktopInv'
BY DEF vars, mousevars, DesktopInv, Slidable, HoldsFocus, FocusShown

-----------------------------------------------------------------------------
\* The properties.

(* No sequence of keys, packets, draws and exits breaks the invariant, for a careful
   user. *)
THEOREM DesktopSound ==
  ASSUME Careful = TRUE
  PROVE  Spec => []DesktopInv
<1>1. Init => DesktopInv
  BY InitInv
<1>2. DesktopInv /\ [Next]_vars => DesktopInv'
  <2> SUFFICES ASSUME DesktopInv, [Next]_vars
               PROVE  DesktopInv'
    OBVIOUS
  <2>1. CASE \E y \in Rows : MouseUp(y) \/ MouseMiss(y) \/ MouseHit(y) \/ MouseDrag(y)
    BY <2>1, MouseUpInv, MouseMissInv, MouseHitInv, MouseDragInv
  <2>2. CASE DrawMouse
    BY <2>2, DrawMouseInv
  <2>3. CASE DrawWindow
    BY <2>3, DrawWindowInv
  <2>4. CASE \E c \in Consoles : OpenConsole(c) \/ ConsoleExit(c)
    BY <2>4, OpenConsoleInv, ConsoleExitInv
  <2>5. CASE \E c \in Consoles, i \in 1 .. BodyRows : ConsoleDraw(c, i)
    BY <2>5, ConsoleDrawInv
  <2>6. CASE KeyF11
    BY <2>6, KeyF11Inv
  <2>7. CASE KeyTab
    BY <2>7, KeyTabInv
  <2>8. CASE \E c \in Ctls : SwitchDesktop(c)
    BY <2>8, SwitchDesktopInv
  <2>9. CASE UNCHANGED vars
    BY <2>9, StutterInv
  <2> QED BY <2>1, <2>2, <2>3, <2>4, <2>5, <2>6, <2>7, <2>8, <2>9 DEF Next
<1> QED BY <1>1, <1>2, PTL DEF Spec

(* What the invariant says of the sheets. *)
LEMMA InvHouse ==
  ASSUME DesktopInv
  PROVE  /\ Typed(d) /\ Placed(d) /\ Named(d) /\ Listed(d) /\ MapOk(d)
         /\ \A y \in Rows : RowOk(d, y)
         /\ \A s \in Sheets : d.used[s] <=> d.height[s] >= 0
         /\ \A c \in Ctls, y \in Rows : \E w \in Sheets : TopIn(d, c, y, w)
<1>1. House(d) /\ \A s \in Sheets : d.used[s] <=> d.height[s] >= 0
  BY DEF DesktopInv, Desks
<1>2. Typed(d) /\ Placed(d) /\ Named(d) /\ Listed(d) /\ MapOk(d) /\ \A y \in Rows : RowOk(d, y)
  BY <1>1 DEF House
<1>3. ASSUME NEW c \in Ctls, NEW y \in Rows
      PROVE  \E w \in Sheets : TopIn(d, c, y, w)
  <2>1. Back(c) \in Sheets /\ OpaqueIn(d, c, y, Back(c))
    BY <1>1, BackSeen, Kinds DEF House
  <2> QED BY <1>2, <2>1, TopExists
<1> QED BY <1>1, <1>2, <1>3

(* The invariant has Stacked, *)
LEMMA InvStacked == DesktopInv => Stacked
<1> SUFFICES ASSUME DesktopInv
             PROVE  Stacked
  OBVIOUS
<1>1. Typed(d) /\ Placed(d) /\ Named(d) /\ Listed(d) /\ \A s \in Sheets : d.used[s] <=> d.height[s] >= 0
  BY InvHouse
<1>2. ASSUME NEW s \in Sheets, d.height[s] >= 0
      PROVE  /\ d.height[s] <= Top(d, d.ctl[s]) /\ At(d, d.ctl[s], d.height[s]) = s
             /\ d.sid[d.ctl[s]][d.id[s]] = s
             /\ d.used[s]
  <2> DEFINE b == d.ctl[s]
  <2>1. b \in Ctls /\ On(d, b, s)
    BY <1>1, <1>2 DEF Typed, On
  <2>2. d.height[s] \in 0 .. Top(d, b) /\ At(d, b, d.height[s]) = s
    BY <1>1, <2>1, Places
  <2>3. d.sid[b][d.id[s]] = s
    BY <1>1, <1>2 DEF Named
  <2> QED BY <1>1, <1>2, <2>2, <2>3
<1>3. ASSUME NEW s \in Sheets, NEW c \in Ctls, NEW h \in 0 .. Top(d, c), At(d, c, h) = s
      PROVE  d.height[s] >= 0 /\ d.ctl[s] = c
  <2>1. On(d, c, At(d, c, h))
    BY <1>1, Places
  <2> QED BY <1>3, <2>1 DEF On
<1>4. ASSUME NEW s \in Sheets, NEW c \in Ctls, NEW i \in Ids, d.sid[c][i] = s
      PROVE  d.height[s] >= 0 /\ d.ctl[s] = c
  <2>1. s # None
    BY Kinds
  <2>2. On(d, c, d.sid[c][i])
    BY <1>1, <1>4, <2>1 DEF Listed
  <2> QED BY <1>4, <2>2 DEF On
<1> QED BY <1>2, <1>3, <1>4 DEF Stacked

(* MapTop, as the map of a row has the id of its topmost opaque sheet, *)
LEMMA InvMapTop == DesktopInv => MapTop
<1> SUFFICES ASSUME DesktopInv, NEW c \in Ctls, NEW y \in Rows
             PROVE  /\ OpaqueAt(d, c, y, 0) # {}
                    /\ d.map[c][y] = d.id[At(d, c, Max(OpaqueAt(d, c, y, 0)))]
  BY DEF MapTop
<1>1. Typed(d) /\ Placed(d) /\ MapOk(d)
  BY InvHouse
<1>2. PICK w \in Sheets : TopIn(d, c, y, w)
  BY InvHouse
<1>3. OpaqueAt(d, c, y, 0) # {} /\ At(d, c, Max(OpaqueAt(d, c, y, 0))) = w
  BY <1>1, <1>2, Seen
<1>4. d.map[c][y] = d.id[w]
  BY <1>1, <1>2 DEF MapOk, Mapped
<1> QED BY <1>3, <1>4

(* Screen, *)
LEMMA InvScreen == DesktopInv => Screen
<1> SUFFICES ASSUME DesktopInv, NEW y \in Rows
             PROVE  \E c \in Ctls : d.vram[y] = Colour(d, c, y) \/ (d.vram[y] = Mix /\ Glazed(d, c, y))
  BY DEF Screen
<1>1. Typed(d) /\ Placed(d) /\ RowOk(d, y)
  BY InvHouse
<1>2. PICK c \in Ctls : Shows(d, c, y)
  BY <1>1 DEF RowOk
<1>3. PICK w \in Sheets : /\ TopIn(d, c, y, w)
                          /\ d.vram[y] = Cell(d, w, y) \/ (d.vram[y] = Mix /\ \E g \in Sheets : GlassOver(d, c, y, w, g))
  BY <1>2 DEF Shows
<1>4. Colour(d, c, y) = Cell(d, w, y) /\ (Glazed(d, c, y) <=> \E g \in Sheets : GlassOver(d, c, y, w, g))
  BY <1>1, <1>3, Seen
<1> QED BY <1>3, <1>4

(* and FocusShown. *)
LEMMA InvFocusShown == DesktopInv => FocusShown
BY DEF DesktopInv

(* Heights, stacks and tables of ids agree: after any shows, hides, raises and
   changes of desktop every sheet that is shown has its place, its entry and its
   desktop (sheet_updown and what calls it). *)
THEOREM DesktopStacked ==
  ASSUME Careful = TRUE
  PROVE  Spec => []Stacked
BY DesktopSound, InvStacked, PTL

(* The map of each desktop names the topmost opaque sheet at every row, although
   every change refreshes a part of it only (sheet_refreshmap32). *)
THEOREM DesktopMapTop ==
  ASSUME Careful = TRUE
  PROVE  Spec => []MapTop
BY DesktopSound, InvMapTop, PTL

(* No row of the screen is stale (sheet_refreshsub32 and its callers). *)
THEOREM DesktopScreen ==
  ASSUME Careful = TRUE
  PROVE  Spec => []Screen
BY DesktopSound, InvScreen, PTL

(* Keys go to a console of the desktop shown, or to one that has just left. *)
THEOREM DesktopFocusShown ==
  ASSUME Careful = TRUE
  PROVE  Spec => []FocusShown
BY DesktopSound, InvFocusShown, PTL

(* The screen is what is seen of the desktop shown. *)
ShowsAll == \A y \in Rows : d'.vram[y] = IF Glazed(d', point', y) THEN Mix ELSE Colour(d', point', y)

(* Only Alt+Fn changes the desktop shown. *)
LEMMA OnlySwitch ==
  ASSUME [Next]_vars, point' # point
  PROVE  \E c \in Ctls : SwitchDesktop(c)
BY DEF Next, vars, MouseUp, MouseMiss, MouseHit, MouseDrag, DrawMouse, DrawWindow, OpenConsole,
       ConsoleExit, ConsoleDraw, KeyF11, KeyTab

(* And then every row is what is seen of the new one. *)
LEMMA SwitchShown ==
  ASSUME Careful = TRUE, DesktopInv, DesktopInv', [Next]_vars, point' # point
  PROVE  ShowsAll
<1>1. PICK c \in Ctls : SwitchDesktop(c)
  BY OnlySwitch
<1>2. Shown1(d', c)
  BY <1>1, SwitchIs
<1>3. point' = c
  BY <1>1 DEF SwitchDesktop
<1>4. Desks(d', c)
  BY <1>1, SwitchIs
<1>5. House(d')
  BY <1>4 DEF Desks
<1>6. Typed(d') /\ Placed(d') /\ Backed(d')
  BY <1>5 DEF House
<1>7. ASSUME NEW y \in Rows
      PROVE  d'.vram[y] = IF Glazed(d', c, y) THEN Mix ELSE Colour(d', c, y)
  <2>1. Back(c) \in Sheets /\ OpaqueIn(d', c, y, Back(c))
    BY <1>6, BackSeen, Kinds
  <2>2. PICK w \in Sheets : TopIn(d', c, y, w)
    BY <1>6, <2>1, TopExists
  <2>3. Colour(d', c, y) = Cell(d', w, y) /\ (Glazed(d', c, y) <=> \E g \in Sheets : GlassOver(d', c, y, w, g))
    BY <1>6, <2>2, Seen
  <2>4. d'.vram[y] = IF \E g \in Sheets : GlassOver(d', c, y, w, g) THEN Mix ELSE Cell(d', w, y)
    BY <1>2, <2>2 DEF Shown1
  <2> QED BY <2>3, <2>4
<1> QED BY <1>3, <1>7 DEF ShowsAll

(* Alt+Fn leaves nothing of the other desktop on the screen. *)
THEOREM DesktopSwitchShows ==
  ASSUME Careful = TRUE
  PROVE  Spec => SwitchShows
<1>1. DesktopInv /\ DesktopInv' /\ [Next]_vars => [point' # point => ShowsAll]_vars
  BY SwitchShown
<1>2. DesktopInv /\ DesktopInv' /\ [Next]_vars =>
        [point' # point =>
           \A y \in Rows :
             d'.vram[y] = IF Glazed(d', point', y) THEN Mix ELSE Colour(d', point', y)]_vars
  BY <1>1 DEF ShowsAll
<1> QED BY <1>2, DesktopSound, PTL DEF Spec, SwitchShows

=============================================================================
