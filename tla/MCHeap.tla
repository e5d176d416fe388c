------------------------------- MODULE MCHeap -------------------------------
(* Four pages of six units, of which a PageBlock takes two, and one that is
   not whole.  The requests give small blocks of two and of four units, and an
   area of two pages, the second of them hardly used. *)
EXTENDS Heap

MCSizes == {6, 7}
MCRequests == {1, 3, 7}
=============================================================================
