----------------------------- MODULE MCDesktop -----------------------------
(* Two consoles of a title and one more row on a screen of two rows. *)
EXTENDS Desktop, TLC

CONSTANTS cons1, cons2

MCConsoles == {cons1, cons2}
Symmetry == Permutations(MCConsoles)

(* States that differ only in what is written before it is read again are
   the same: the fields of a sheet that is not in use, my while no move
   waits, new_wy and sht while nothing is dragged and no slide waits. *)
Live(f, blank) == [s \in Sheets |-> IF d.used[s] THEN f[s] ELSE blank]
Dragging == mmy # -1 \/ slid
View ==
  << [d EXCEPT !.y = Live(@, 0), !.buf = Live(@, <<>>), !.id = Live(@, 0), !.ctl = Live(@, 0)],
     point, moved, held, header, mmy, slid, keywin,
     IF moved THEN my ELSE 0,
     IF Dragging THEN <<newy, sht>> ELSE <<>> >>
=============================================================================
