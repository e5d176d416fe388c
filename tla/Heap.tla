-------------------------------- MODULE Heap --------------------------------
(***************************************************************************)
(* malloc, free and realloc of stdfunc.c, as a console uses them (SQLite   *)
(* and the FAT32 code), over the memory manager of the task (Memman) and   *)
(* the page table.  A block of more than Limit bytes is an area of whole   *)
(* pages, recorded in the table malloc_map0.  Smaller blocks are cut from  *)
(* the front of pages that page_list_head lists; a page is given back when *)
(* its last block is.  The calls of one task come one after the other.     *)
(***************************************************************************)
EXTENDS Memman, Sequences

CONSTANTS
  Align,     \* 8, to which the size of a small block is rounded up
  Header,    \* sizeof(PageBlock), in front of the blocks of a page
  Limit,     \* 4000, the size of the largest small block
  Requests,  \* the sizes callers ask for
  TableSize, \* the entries of malloc_map0
  MaxLive    \* a bound: the blocks callers hold at once

ASSUME HeapAssumption ==
  /\ Align \in Nat \ {0} /\ Header \in Nat \ {0} /\ Limit \in Nat
  /\ Header + ((Limit + Align - 1) \div Align) * Align <= Page
  /\ Requests \subseteq Nat \ {0}
  /\ Sizes = {Page} \cup {n \in Requests : n > Limit}
  /\ TableSize \in Nat \ {0} /\ MaxLive \in Nat \ {0}
  /\ Base % Page = 0

VARIABLES
  malloc_map,  \* the entries of malloc_map0 in use; their places do not matter
  pages,       \* the PageBlocks from page_list_head on
  mapped,      \* the pages of the heap the page table has frames for
  live,        \* the blocks callers hold, as <<pointer, size asked for>>
  moving,      \* the block a realloc under way has still to free, or NoBlock
  broken       \* what went wrong where the code goes on with a broken heap

heapVars == <<malloc_map, pages, mapped, live, moving, broken>>

NoBlock == <<0, 0>>

\* malloc_init, after memman_init.
HInit ==
  /\ Init
  /\ malloc_map = {}
  /\ pages = <<>>
  /\ mapped = {}
  /\ live = {} /\ moving = NoBlock
  /\ broken = "no"

-----------------------------------------------------------------------------
\* The pages of an area of n bytes at p: (size + 0xfff) >> 12 of them.
PagesOf(p, n) == {p + i * Page : i \in 0 .. (Up(n) \div Page) - 1}

\* Mutant of Linked: the last, partly used page is left out.
LinkedWhole(p, n) == {p + i * Page : i \in 0 .. (n \div Page) - 1}

\* memman_link_page_64_m
Linked(p, n) == PagesOf(p, n)

\* memman_unlink_page_64_m.  linear_address & 0xf...f000 + i * 0x1000 takes
\* the sum first: i = 0 is the first page, any other i a page at the bottom
\* of the address space, where no heap is.
UnlinkedOf(p, n) == {p}

\* The memory manager has no area of n bytes, or the table no entry.
NoArea(n) == FirstFit(Up(n)) = frees \/ Cardinality(malloc_map) = TableSize

\* malloc_4k, whose pointer is then result[2].  It enters and maps the area
\* whatever the pointer is, and of its callers only malloc tests it.
Malloc4k(n) ==
  /\ Alloc4k(n) /\ UNCHANGED <<maxfrees, losts, lostsize, lost>>
  /\ IF NoArea(n) THEN UNCHANGED <<malloc_map, mapped>>
     ELSE /\ mapped' = mapped \cup Linked(result'[2], n)
          /\ malloc_map' = malloc_map \cup {Area(result'[2], n)}

\* The entries for address p.
Entries(p) == {e \in malloc_map : e.addr = p}

\* Mutant of FreeArea: the entry stays.
FreeAreaKeepsEntry(p) ==
  IF Entries(p) = {}
  THEN UNCHANGED <<vars, malloc_map, mapped>>
  ELSE \E e \in Entries(p) :
         /\ Free4k(<<p, e.size>>)
         /\ mapped' = mapped \ UnlinkedOf(p, e.size)
         /\ UNCHANGED malloc_map

\* free_4k.  There is one entry for p at most (TableIsGiven).
FreeArea(p) ==
  IF Entries(p) = {}
  THEN UNCHANGED <<vars, malloc_map, mapped>>
  ELSE \E e \in Entries(p) :
         /\ Free4k(<<p, e.size>>)
         /\ mapped' = mapped \ UnlinkedOf(p, e.size)
         /\ malloc_map' = malloc_map \ {e}

-----------------------------------------------------------------------------
\* (size + 7) & ~7
Aligned(n) == ((n + Align - 1) \div Align) * Align

Room(k, n) == Page - pages[k].used >= Aligned(n)

\* The first listed page with room for n bytes, 0 if there is none.
FirstRoom(n) ==
  IF \A k \in DOMAIN pages : ~Room(k, n) THEN 0
  ELSE CHOOSE k \in DOMAIN pages : Room(k, n) /\ \A j \in 1 .. k - 1 : ~Room(j, n)

\* Mutant of Cut: the block is not counted.
CutUncounted(k, n) ==
  /\ pages' = [pages EXCEPT ![k].used = @ + Aligned(n)]
  /\ live' = live \cup {<<pages[k].addr + pages[k].used, n>>}
  /\ UNCHANGED <<vars, malloc_map, mapped>>

\* A block is cut from the front of page k.
Cut(k, n) ==
  /\ pages' = [pages EXCEPT ![k].used = @ + Aligned(n), ![k].count = @ + 1]
  /\ live' = live \cup {<<pages[k].addr + pages[k].used, n>>}
  /\ UNCHANGED <<vars, malloc_map, mapped>>

\* Mutant of NewPage: the first block is not added to what is used.
NewPageUnused(n) ==
  /\ Malloc4k(Page)
  /\ IF NoArea(Page) THEN UNCHANGED <<pages, live>>
     ELSE LET p == result'[2]
          IN  /\ pages' = <<[addr |-> p, used |-> Header, count |-> 1]>> \o pages
              /\ live' = live \cup {<<p + Header, n>>}

\* A new page at the head of the list, with its first block.
NewPage(n) ==
  /\ Malloc4k(Page)
  /\ IF NoArea(Page) THEN UNCHANGED <<pages, live>>
     ELSE LET p == result'[2]
          IN  /\ pages' = <<[addr |-> p, used |-> Header + Aligned(n), count |-> 1]>>
                            \o pages
              /\ live' = live \cup {<<p + Header, n>>}

Large(n) ==
  /\ Malloc4k(n)
  /\ live' = IF NoArea(n) THEN live ELSE live \cup {<<result'[2], n>>}
  /\ UNCHANGED pages

\* malloc and, for the blocks it cannot give, whether it fails.
NewBlock(n) ==
  IF n > Limit THEN Large(n)
  ELSE IF FirstRoom(n) # 0 THEN Cut(FirstRoom(n), n) ELSE NewPage(n)

Fails(n) == IF n > Limit THEN NoArea(n) ELSE FirstRoom(n) = 0 /\ NoArea(Page)

Malloc(n) ==
  /\ Cardinality(live) < MaxLive
  /\ NewBlock(n)
  /\ broken' = IF Fails(n) THEN "no memory" ELSE broken
  /\ UNCHANGED moving

\* The places of the listed page that holds address a.
PageAt(a) == {k \in DOMAIN pages : pages[k].addr <= a /\ a < pages[k].addr + Page}

Dropped(k) == SubSeq(pages, 1, k - 1) \o SubSeq(pages, k + 1, Len(pages))

\* A block of page k is given back, and with the last one the page.
FreeCut(k) ==
  IF pages[k].count = 1
  THEN pages' = Dropped(k) /\ FreeArea(pages[k].addr)
  ELSE /\ pages' = [pages EXCEPT ![k].count = @ - 1]
       /\ UNCHANGED <<vars, malloc_map, mapped>>

\* What free does for the block b: a pointer to the start of a page is an
\* area, any other is looked for in the listed pages.
FreeBlock(b) ==
  /\ live' = live \ {b}
  /\ IF b[1] % Page = 0 THEN FreeArea(b[1]) /\ UNCHANGED pages
     ELSE IF PageAt(b[1]) = {}
          THEN UNCHANGED <<vars, malloc_map, mapped, pages>>
          ELSE FreeCut(CHOOSE k \in PageAt(b[1]) : \A j \in PageAt(b[1]) : k <= j)

Free(b) ==
  /\ FreeBlock(b)
  /\ UNCHANGED <<moving, broken>>

-----------------------------------------------------------------------------
\* How many bytes realloc copies out of a small block at p.  It takes
\* allocated_size - p, a difference of a size and an address in 32 bits, for
\* the size of the block: a small number in the first page of the heap, whose
\* address is a multiple of 2^32, and a huge one in any other.
Copied(b, n) ==
  IF b[1] % Page = 0 THEN b[2]
  ELSE LET k == CHOOSE k \in PageAt(b[1]) : TRUE
           old == pages[k].used - (b[1] - Base)
       IN  IF 0 <= old /\ old < n THEN old ELSE n

\* The bytes a block of n bytes may use.
Capacity(n) == IF n > Limit THEN Up(n) ELSE Aligned(n)

\* realloc up to its call of free: a new block, and the old one copied to it.
Realloc(b, n) ==
  /\ NewBlock(n)
  /\ broken' =
       IF Fails(n) THEN "no memory"
       ELSE IF Copied(b, n) > Capacity(n) THEN "written behind a block"
       ELSE IF \E a \in {b[1], b[1] + Copied(b, n) - 1} : ~\E p \in mapped' :
                 p <= a /\ a < p + Page
       THEN "read behind the heap" ELSE broken
  /\ moving' = b

\* Its end.
ReallocEnd ==
  /\ FreeBlock(moving)
  /\ moving' = NoBlock
  /\ UNCHANGED broken

HNext ==
  /\ broken = "no"
  /\ IF moving # NoBlock THEN ReallocEnd
     ELSE \/ \E n \in Requests : Malloc(n)
          \/ \E b \in live : Free(b)
          \/ \E b \in live, n \in Requests : Realloc(b, n)

HSpec == HInit /\ [][HNext]_<<vars, heapVars>>

-----------------------------------------------------------------------------
\* The bytes from which block b was cut.
BytesOf(b) == Bytes(b[1], Capacity(b[2]))

\* The listed page of a small block.
In(b, k) == pages[k].addr <= b[1] /\ b[1] < pages[k].addr + Page

(* malloc_map0 records exactly the areas the memory manager has given, each
   once and with the size asked for: free_4k gives back what malloc_4k took,
   and nothing else. *)
TableIsGiven ==
  broken = "no" =>
    /\ given = {<<e.addr, e.size>> : e \in malloc_map}
    /\ \A d, e \in malloc_map : d.addr = e.addr => d = e

(* No two blocks share a byte, and no block shares one with the PageBlock at
   the start of a listed page: small blocks, areas and pages, taken and given
   back in any order, never overlap. *)
BlocksApart ==
  broken = "no" =>
    /\ \A b, c \in live : b # c => BytesOf(b) \cap BytesOf(c) = {}
    /\ \A b \in live, k \in DOMAIN pages :
         BytesOf(b) \cap Bytes(pages[k].addr, Header) = {}

(* The count of a listed page is the number of its blocks that callers hold,
   and every small block they hold is in one: the page goes with its last
   block, neither before nor never. *)
PagesCounted ==
  broken = "no" =>
    /\ \A k \in DOMAIN pages :
         pages[k].count = Cardinality({b \in live : In(b, k)}) /\ pages[k].count > 0
    /\ \A b \in live : b[2] <= Limit => \E k \in DOMAIN pages : In(b, k)

(* Every page of a block that a caller holds has a frame, although
   memman_unlink_page_64_m unlinks other pages than it is asked to. *)
LiveMapped ==
  broken = "no" =>
    \A b \in live : \A a \in BytesOf(b) :
      \E p \in mapped : p <= a /\ a < p + Page

(* The heap keeps the contract of the memory manager: it gives back what it
   was given, once, with its size. *)
MemmanSpec == Spec
=============================================================================
