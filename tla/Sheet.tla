------------------------------- MODULE Sheet -------------------------------
(***************************************************************************)
(* SHEET.C: the windows ("sheets") of a desktop are a stack; map holds,    *)
(* for every pixel, the id of the topmost sheet that is opaque there, and  *)
(* a refresh paints a part of the screen from the map.  Several desktops   *)
(* (controllers) paint into one video memory.                              *)
(*                                                                         *)
(* The functions are operators on a record d, because a handler of         *)
(* HariMain calls several of them (module Desktop):                        *)
(*   stack[c]   ctl->sheets[0..top]          sid[c]    ctl->sid            *)
(*   map[c]     ctl->map                     vram      the screen          *)
(*   height[s], id[s], ctl[s], y[s], buf[s], used[s]   fields of sheet s   *)
(* The screen is one column of rows: a row of every rectangle.  A cell of  *)
(* buf is Clear (col_inv), Glass (alpha > 0) or a colour.                  *)
(***************************************************************************)
EXTENDS Integers, SequencesExt

CONSTANTS
  Ctls,        \* the controllers
  Sheets,      \* sheets0, the sheets all controllers share
  ScreenRows,  \* ctl->ysize
  MaxSid,      \* length of ctl->sid: 256
  Clear, Glass,\* cells that are not opaque
  Mix,         \* a pixel some glass was blended into
  None         \* the null pointer

Opaque(cell) == cell \notin {Clear, Glass}
Rows == 0 .. ScreenRows - 1
Ids == 0 .. MaxSid - 1

\* The rows a caller asks for, cut at the edges of the screen.
Band(from, to) == {y \in Rows : from <= y /\ y < to}

Top(d, c) == Len(d.stack[c]) - 1
At(d, c, h) == d.stack[c][h + 1]

Covers(d, s, y) == d.y[s] <= y /\ y < d.y[s] + Len(d.buf[s])
Cell(d, s, y) == d.buf[s][y - d.y[s] + 1]
Extent(d, s) == Band(d.y[s], d.y[s] + Len(d.buf[s]))

-----------------------------------------------------------------------------
\* The heights from h0 up whose sheet is opaque at row y.
OpaqueAt(d, c, y, h0) ==
  {h \in h0 .. Top(d, c) :
     Covers(d, At(d, c, h), y) /\ Opaque(Cell(d, At(d, c, h), y))}

\* sheet_refreshmap32(ctl, rows, h0)
Refreshmap(d, c, rows, h0) ==
  [d EXCEPT !.map[c] = [y \in Rows |->
     LET hs == OpaqueAt(d, c, y, h0)
     IN IF y \in rows /\ hs # {} THEN d.id[At(d, c, Max(hs))] ELSE @[y]]]

\* Mutant of Glazes: glass is blended from below as well.
GlazesAny(d, c, s, y) == Cell(d, s, y) = Glass

\* Whether sheet s blends its glass into row y: not from below the topmost
\* opaque sheet.
Glazes(d, c, s, y) ==
  /\ Cell(d, s, y) = Glass
  /\ d.height[s] >= d.height[d.sid[c][d.map[c][y]]]

\* sheet_refreshsub32(ctl, rows, h0, h1): of the sheets that paint a row,
\* the last one stays.
Refreshsub(d, c, rows, h0, h1) ==
  LET Mine(h, y) == d.map[c][y] = d.id[At(d, c, h)]
      Painters(y) ==
        {h \in h0 .. h1 : /\ Covers(d, At(d, c, h), y)
                          /\ Mine(h, y) \/ Glazes(d, c, At(d, c, h), y)}
      Painted(y) ==
        LET h == Max(Painters(y))
        IN IF Mine(h, y) THEN Cell(d, At(d, c, h), y) ELSE Mix
  IN [d EXCEPT !.vram = [y \in Rows |->
        IF y \in rows /\ Painters(y) # {} THEN Painted(y) ELSE @[y]]]

-----------------------------------------------------------------------------
\* Mutant of Numbered: the last place is left out.
NumberedShort(d, c, lo, hi) ==
  [d EXCEPT !.height = [s \in Sheets |->
     IF \E h \in lo .. hi - 1 : At(d, c, h) = s
     THEN CHOOSE h \in lo .. hi - 1 : At(d, c, h) = s ELSE @[s]]]

\* sheets[h]->height = h for the places lo..hi of the stack of c.
Numbered(d, c, lo, hi) ==
  [d EXCEPT !.height = [s \in Sheets |->
     IF \E h \in lo .. hi : At(d, c, h) = s
     THEN CHOOSE h \in lo .. hi : At(d, c, h) = s ELSE @[s]]]

\* sheet_updown, from height old down to h >= 0.
Lower(d, s, old, h) ==
  LET c == d.ctl[s]
      e == Numbered([d EXCEPT !.stack[c] = InsertAt(RemoveAt(@, old + 1), h + 1, s),
                              !.height[s] = h], c, h + 1, old)
      m == Refreshmap(e, c, Extent(e, s), h + 1)
  IN Refreshsub(m, c, Extent(e, s), h + 1, old)

\* Mutant of Hide: the map is refreshed from the height the sheet had.
HideFromOld(d, s, old) ==
  LET c == d.ctl[s]
      e == [d EXCEPT !.stack[c] = RemoveAt(@, old + 1), !.height[s] = -1]
      n == Numbered(e, c, old, Top(e, c))
      p == Refreshsub(Refreshmap(n, c, Extent(n, s), old), c, Extent(n, s), 0, old - 1)
  IN [p EXCEPT !.sid[c][p.id[s]] = None]

\* sheet_updown, from height old out of sight.
Hide(d, s, old) ==
  LET c == d.ctl[s]
      e == [d EXCEPT !.stack[c] = RemoveAt(@, old + 1), !.height[s] = -1]
      n == Numbered(e, c, old, Top(e, c))
      p == Refreshsub(Refreshmap(n, c, Extent(n, s), 0), c, Extent(n, s), 0, old - 1)
  IN [p EXCEPT !.sid[c][p.id[s]] = None]

\* Both ways up end with this: the map and the picture of s alone.
Drawn(d, s) ==
  LET c == d.ctl[s]
      m == Refreshmap(d, c, Extent(d, s), d.height[s])
  IN Refreshsub(m, c, Extent(d, s), d.height[s], d.height[s])

\* sheet_updown, from height old up to h.
Raise(d, s, old, h) ==
  LET c == d.ctl[s]
  IN Drawn(Numbered([d EXCEPT !.stack[c] = InsertAt(RemoveAt(@, old + 1), h + 1, s),
                              !.height[s] = h], c, old, h - 1), s)

FreeIds(d, c) == {i \in Ids : d.sid[c][i] = None}

\* sheet_updown, a hidden sheet to height h; without a free id the height
\* is set and the sheet stays out of the stack.
Show(d, s, h) ==
  LET c == d.ctl[s]
      i == Min(FreeIds(d, c))
      e == [d EXCEPT !.stack[c] = InsertAt(@, h + 1, s), !.height[s] = h,
                     !.sid[c][i] = s, !.id[s] = i]
  IN IF FreeIds(d, c) = {} THEN [d EXCEPT !.height[s] = h]
     ELSE Drawn(Numbered(e, c, h + 1, Top(e, c)), s)

\* The height sheet_updown makes of the one it is asked for.
Fitted(d, s, height) ==
  LET top1 == Top(d, d.ctl[s]) + 1
  IN IF height > top1 THEN top1 ELSE IF height < -1 THEN -1 ELSE height

\* sheet_updown(s, height)
Updown(d, s, height) ==
  LET old == d.height[s]
      h == Fitted(d, s, height)
  IN IF h < old
     THEN IF h >= 0 THEN Lower(d, s, old, h) ELSE Hide(d, s, old)
     ELSE IF h > old
          THEN IF old >= 0 THEN Raise(d, s, old, h) ELSE Show(d, s, h)
          ELSE d

-----------------------------------------------------------------------------
\* sheet_alloc for controller c, with the buffer of sheet_setbuf
Alloc(d, s, c, buf) ==
  [d EXCEPT !.used[s] = TRUE, !.height[s] = -1, !.ctl[s] = c, !.buf[s] = buf]

\* sheet_refresh of the offsets from..to-1 of s
Refresh(d, s, from, to) ==
  IF d.height[s] >= 0
  THEN Refreshsub(d, d.ctl[s], Band(d.y[s] + from, d.y[s] + to), d.height[s], d.height[s])
  ELSE d

\* Mutant of Slide: the place the sheet leaves is not painted again.
SlideTrail(d, s, y) ==
  LET c == d.ctl[s]
      h == d.height[s]
      e == [d EXCEPT !.y[s] = y]
      m == Refreshmap(Refreshmap(e, c, Extent(d, s), 0), c, Extent(e, s), h)
  IN IF h >= 0 THEN Refreshsub(m, c, Extent(e, s), h, h) ELSE e

\* sheet_slide(s, y)
Slide(d, s, y) ==
  LET c == d.ctl[s]
      h == d.height[s]
      e == [d EXCEPT !.y[s] = y]
      m == Refreshmap(Refreshmap(e, c, Extent(d, s), 0), c, Extent(e, s), h)
  IN IF h >= 0
     THEN Refreshsub(Refreshsub(m, c, Extent(d, s), 0, h - 1), c, Extent(e, s), h, h)
     ELSE e

\* sheet_free(s)
Free(d, s) ==
  LET e == IF d.height[s] >= 0 THEN Updown(d, s, -1) ELSE d
  IN [e EXCEPT !.used[s] = FALSE]
=============================================================================
