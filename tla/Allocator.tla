----------------------------- MODULE Allocator -----------------------------
(***************************************************************************)
(* What the memory manager of MEMORY.C promises its callers: an area is    *)
(* contiguous and wholly unused, and a request fails only when no unused   *)
(* run of bytes is long enough.  Memory that could not be recorded is lost *)
(* for good.                                                               *)
(***************************************************************************)
EXTENDS Integers

CONSTANTS
  Whole,    \* the addresses managed
  Sizes,    \* the sizes asked for
  Rounded   \* the size an area really has, a function of the one asked for

VARIABLES
  unused,  \* the addresses nobody uses
  areas,   \* what callers hold, as <<address, size asked for>>
  answer   \* the last call, what it returned and the size it asked for

avars == <<unused, areas, answer>>

\* The addresses of an area of n bytes at a.
Run(a, n) == a .. a + n - 1

AInit == unused = Whole /\ areas = {} /\ answer = <<"none", 0>>

AAlloc ==
  \E a \in Whole, n \in Sizes :
    /\ Run(a, Rounded[n]) \subseteq unused
    /\ unused' = unused \ Run(a, Rounded[n])
    /\ areas' = areas \cup {<<a, n>>}
    /\ answer' = <<"alloc", a, n>>

\* A request for n bytes fails: no unused run is long enough for it.
AFail ==
  \E n \in Sizes :
    /\ \A a \in unused : ~(Run(a, Rounded[n]) \subseteq unused)
    /\ answer' = <<"alloc", 0, n>>
    /\ UNCHANGED <<unused, areas>>

\* A caller gives an area back, and is told when the memory is lost.
AFree ==
  \E h \in areas :
    /\ areas' = areas \ {h}
    /\ \/ unused' = unused \cup Run(h[1], Rounded[h[2]]) /\ answer' = <<"free", 0>>
       \/ answer' = <<"free", -1>> /\ UNCHANGED unused

ASpec == AInit /\ [][AAlloc \/ AFail \/ AFree]_avars
=============================================================================
