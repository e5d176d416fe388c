------------------------------- MODULE Memman -------------------------------
(***************************************************************************)
(* The memory manager of MEMORY.C: an array of free areas in the order of  *)
(* their addresses, from which memman_alloc takes the first that is large  *)
(* enough and to which memman_free gives an area back, joined with its     *)
(* neighbours.  When the array is full the area is lost.                   *)
(*                                                                         *)
(* The callers here are those of memman_alloc_4k and memman_free_4k, which *)
(* round a size up to whole pages, and they give back what they were given.*)
(* API 9 and 10 do the same with 16 bytes in the place of a page.          *)
(***************************************************************************)
EXTENDS Integers, FiniteSets

CONSTANTS
  Base, Total,  \* the area HariMain hands to memman_free after memman_init
  Page,         \* the unit the sizes are rounded up to
  Sizes,        \* the sizes callers ask for
  MaxFrees      \* MEMMAN_FREES

ASSUME MemmanAssumption ==
  /\ Base \in Nat \ {0} /\ Total \in Nat \ {0} /\ Page \in Nat \ {0}
  /\ Sizes \subseteq Nat \ {0}
  /\ MaxFrees \in Nat \ {0}

VARIABLES
  frees,     \* man->frees
  free,      \* man->free, as far as it is in use
  maxfrees,  \* man->maxfrees
  losts,     \* man->losts
  lostsize,  \* man->lostsize
  given,     \* the areas callers hold, as <<address, size asked for>>
  lost,      \* the addresses memman_free could not record
  result     \* the last call, what it returned and the size it asked for

vars == <<frees, free, maxfrees, losts, lostsize, given, lost, result>>

Area(a, n) == [addr |-> a, size |-> n]

\* memman_init and the first memman_free.
Init ==
  /\ frees = 1 /\ free = [i \in {0} |-> Area(Base, Total)]
  /\ maxfrees = 1
  /\ losts = 0 /\ lostsize = 0
  /\ given = {} /\ lost = {} /\ result = <<"none", 0>>

-----------------------------------------------------------------------------
\* free[i] is dropped and the areas behind it move up.
Without(f, n, i) == [j \in 0 .. n - 2 |-> IF j < i THEN f[j] ELSE f[j + 1]]

\* The areas from place i on move back and free[i] is new.
WithAt(f, n, i, r) ==
  [j \in 0 .. n |-> IF j < i THEN f[j] ELSE IF j = i THEN r ELSE f[j - 1]]

\* (size + 0xfff) & ~0xfff
Up(n) == ((n + Page - 1) \div Page) * Page

\* The place of the first area of at least n bytes, frees if there is none.
FirstFit(n) ==
  CHOOSE i \in 0 .. frees :
    /\ i < frees => free[i].size >= n
    /\ \A j \in 0 .. i - 1 : free[j].size < n

\* n bytes are taken from the front of free[i].
Taken(i, n) ==
  IF free[i].size = n
  THEN frees' = frees - 1 /\ free' = Without(free, frees, i)
  ELSE /\ free' = [free EXCEPT ![i] = Area(@.addr + n, @.size - n)]
       /\ UNCHANGED frees

\* Mutant of Alloc4k: a request that is as large as an area fails.
Alloc4kLarger(n) ==
  LET fits == {i \in 0 .. frees - 1 : free[i].size > Up(n)}
  IN  IF fits = {}
      THEN result' = <<"alloc", 0, n>> /\ UNCHANGED <<frees, free, given>>
      ELSE LET i == CHOOSE i \in fits : \A j \in fits : i <= j
           IN  /\ result' = <<"alloc", free[i].addr, n>>
               /\ given' = given \cup {<<free[i].addr, n>>}
               /\ Taken(i, Up(n))

\* memman_alloc_4k and the memman_alloc it calls.
Alloc4k(n) ==
  LET i == FirstFit(Up(n))
  IN  IF i = frees
      THEN result' = <<"alloc", 0, n>> /\ UNCHANGED <<frees, free, given>>
      ELSE /\ result' = <<"alloc", free[i].addr, n>>
           /\ given' = given \cup {<<free[i].addr, n>>}
           /\ Taken(i, Up(n))

-----------------------------------------------------------------------------
End(r) == r.addr + r.size

\* The place of the first area behind address a, frees if there is none.
PlaceOf(a) ==
  CHOOSE i \in 0 .. frees :
    /\ i < frees => free[i].addr > a
    /\ \A j \in 0 .. i - 1 : free[j].addr <= a

\* The area at a of n bytes touches the area in front of place i, or at it.
JoinsFront(i, a) == i > 0 /\ End(free[i - 1]) = a
JoinsBack(i, a, n) == i < frees /\ a + n = free[i].addr

\* Mutant of FreeFront: the area behind is not looked at.
FreeFrontOnly(i, a, n) ==
  /\ JoinsFront(i, a)
  /\ free' = [free EXCEPT ![i - 1].size = @ + n]
  /\ result' = <<"free", 0>>
  /\ UNCHANGED <<frees, maxfrees, losts, lostsize, lost>>

\* Joined with the area in front, and with the one behind if it touches too.
FreeFront(i, a, n) ==
  /\ JoinsFront(i, a)
  /\ LET size == free[i - 1].size + n
     IN  IF JoinsBack(i, a, n)
         THEN /\ frees' = frees - 1
              /\ free' = Without([free EXCEPT ![i - 1].size = size + free[i].size],
                                 frees, i)
         ELSE free' = [free EXCEPT ![i - 1].size = size] /\ UNCHANGED frees
  /\ result' = <<"free", 0>>
  /\ UNCHANGED <<maxfrees, losts, lostsize, lost>>

\* Joined with the area behind only.
FreeBack(i, a, n) ==
  /\ ~JoinsFront(i, a) /\ JoinsBack(i, a, n)
  /\ free' = [free EXCEPT ![i] = Area(a, @.size + n)]
  /\ result' = <<"free", 0>>
  /\ UNCHANGED <<frees, maxfrees, losts, lostsize, lost>>

\* An area of its own.
FreeNew(i, a, n) ==
  /\ ~JoinsFront(i, a) /\ ~JoinsBack(i, a, n) /\ frees < MaxFrees
  /\ frees' = frees + 1
  /\ maxfrees' = IF maxfrees < frees + 1 THEN frees + 1 ELSE maxfrees
  /\ free' = WithAt(free, frees, i, Area(a, n))
  /\ result' = <<"free", 0>>
  /\ UNCHANGED <<losts, lostsize, lost>>

\* No place in the array: the area is lost.
FreeLost(i, a, n) ==
  /\ ~JoinsFront(i, a) /\ ~JoinsBack(i, a, n) /\ frees >= MaxFrees
  /\ losts' = losts + 1
  /\ lostsize' = lostsize + n
  /\ lost' = lost \cup (a .. a + n - 1)
  /\ result' = <<"free", -1>>
  /\ UNCHANGED <<frees, free, maxfrees>>

\* memman_free
MemmanFree(a, n) ==
  LET i == PlaceOf(a)
  IN  FreeFront(i, a, n) \/ FreeBack(i, a, n) \/ FreeNew(i, a, n) \/ FreeLost(i, a, n)

\* Mutant of Free4k: the size is not rounded up.
Free4kExact(h) ==
  /\ given' = given \ {h}
  /\ MemmanFree(h[1], h[2])

\* memman_free_4k of an area some caller holds.
Free4k(h) ==
  /\ given' = given \ {h}
  /\ MemmanFree(h[1], Up(h[2]))

Next ==
  \/ \E n \in Sizes : Alloc4k(n) /\ UNCHANGED <<maxfrees, losts, lostsize, lost>>
  \/ \E h \in given : Free4k(h)

Spec == Init /\ [][Next]_vars

-----------------------------------------------------------------------------
Whole == Base .. Base + Total - 1

Bytes(a, n) == a .. a + n - 1

\* The addresses of the free areas.
FreeBytes == UNION {Bytes(free[i].addr, free[i].size) : i \in 0 .. frees - 1}

(* The fields have their types and frees never passes the end of the array. *)
TypeOK ==
  /\ frees \in 0 .. MaxFrees /\ maxfrees \in frees .. MaxFrees
  /\ free \in [0 .. frees - 1 -> [addr : Nat, size : Nat]]
  /\ losts \in Nat /\ lostsize \in Nat
  /\ given \subseteq Whole \X Sizes
  /\ lost \subseteq Whole
  /\ result \in {<<"none", 0>>} \cup ({"alloc"} \X Nat \X Sizes) \cup ({"free"} \X {0, -1})

(* The free areas are in order, none is empty and no two touch: memman_free
   joins an area with both its neighbours, whichever of them are free. *)
Coalesced ==
  \A i \in 0 .. frees - 1 :
    /\ free[i].size > 0
    /\ i < frees - 1 => End(free[i]) < free[i + 1].addr

(* No address is in two places: an area handed out overlaps neither a free
   area nor another one handed out, and nothing disappears except what
   memman_free reported as lost. *)
Partition ==
  /\ Whole = FreeBytes \cup lost \cup UNION {Bytes(h[1], Up(h[2])) : h \in given}
  /\ FreeBytes \cap lost = {}
  /\ \A h \in given : Bytes(h[1], Up(h[2])) \cap (FreeBytes \cup lost) = {}
  /\ \A h, k \in given :
       h # k => Bytes(h[1], Up(h[2])) \cap Bytes(k[1], Up(k[2])) = {}

A == INSTANCE Allocator WITH
  unused <- FreeBytes,
  areas <- given,
  answer <- result,
  Rounded <- [n \in Sizes |-> Up(n)]

(* memman_alloc_4k and memman_free_4k implement the allocator: in particular
   a request for n bytes fails only when no run of free addresses is as long
   as n rounded up, although memman_alloc looks at one area at a time. *)
AllocatorSpec == A!ASpec
=============================================================================
