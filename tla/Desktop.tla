------------------------------ MODULE Desktop ------------------------------
(***************************************************************************)
(* What HariMain does with the sheets: the mouse packets and the keys      *)
(* Shift+F2 (new console), F11 (bottom window up), Tab (next window) and   *)
(* Alt+Fn (other desktop, taking a held window along), the delayed slides  *)
(* when its FIFO is empty, and the consoles drawing and leaving.           *)
(*                                                                         *)
(* The column of Sheet is a vertical one through the title bars; the first *)
(* row of a window is its title.  Horizontally every window is hit.        *)
(***************************************************************************)
EXTENDS Integers, Sequences, FiniteSets

CONSTANTS
  Consoles,    \* sheets of consoles
  ScreenRows,
  BodyRows,    \* rows of a console under its title
  MaxSid,
  OpenRow,     \* sheet_slide(key_win, 32, 32)
  Careful,     \* TRUE iff the user keeps to CarefulKey and CarefulSwitch
  Clear, Glass, Mix, None

Ctls == {0, 1}
Back(c) == <<"back", c>>
Mouse == <<"mouse">>
Sheets == Consoles \cup {Back(c) : c \in Ctls} \cup {Mouse}
Missed == <<"missed">>           \* -1 in the code: sheet_mouse_on after a press beside every window

\* What a row of a fresh console shows, and after drawing a second time.
Body(c, n) == <<c, n>>

\* A desktop has an id for every sheet it can show, and the height 254 that
\* Alt+Fn asks for is above them.
ASSUME DesktopAssumption ==
  /\ ScreenRows \in Nat \ {0} /\ BodyRows \in Nat
  /\ MaxSid \in Nat /\ OpenRow \in Int /\ Careful \in BOOLEAN
  /\ IsFiniteSet(Consoles)
  /\ Cardinality(Consoles) + 2 <= MaxSid /\ Cardinality(Consoles) <= 253
  /\ Consoles \cap ({Back(c) : c \in Ctls} \cup {Mouse, Missed, None}) = {}
  /\ None \notin {Back(c) : c \in Ctls} \cup {Mouse, Missed}
  /\ {Back(c) : c \in Ctls} \cap {Clear, Glass} = {}
  /\ \A c \in Consoles, n \in {0, 1} : Body(c, n) \notin {Clear, Glass}

INSTANCE Sheet

VARIABLES
  d,          \* the sheets, see module Sheet
  point,      \* shtctl_point, the desktop shown
  my,         \* the mouse
  moved,      \* TRUE iff new_my waits to be drawn
  held,       \* sheet_mouse_on
  header,     \* TRUE iff mouse_on_header = 0
  mmy,        \* the mouse at the last packet of a drag, or -1
  newy,       \* new_wy
  slid,       \* TRUE iff new_wx and new_wy wait to be drawn
  sht,        \* HariMain's variable sht
  keywin      \* key_win

mousevars == <<my, moved, held, header, mmy, newy, slid, sht>>
vars == <<d, point, mousevars, keywin>>

\* A console when it opens: the title is glass.
ConsoleBuf(c) == <<Glass>> \o [i \in 1 .. BodyRows |-> Body(c, 0)]

Blank ==
  [stack |-> [c \in Ctls |-> <<>>],
   sid |-> [c \in Ctls |-> [i \in Ids |-> None]],
   map |-> [c \in Ctls |-> [y \in Rows |-> 0]],
   vram |-> [y \in Rows |-> Mix],
   height |-> [s \in Sheets |-> -1], id |-> [s \in Sheets |-> 0],
   ctl |-> [s \in Sheets |-> 0], y |-> [s \in Sheets |-> 0],
   buf |-> [s \in Sheets |-> <<>>], used |-> [s \in Sheets |-> FALSE]]

BackBuf(c) == [i \in 1 .. ScreenRows |-> Back(c)]

\* HariMain up to its loop: both backgrounds, then the mouse.
Init ==
  /\ d = LET b0 == Alloc(Blank, Back(0), 0, BackBuf(0))
             b1 == Alloc(b0, Back(1), 1, BackBuf(1))
             m == Alloc(b1, Mouse, 0, <<Mouse, Clear>>)
         IN Updown(Updown(Updown(m, Back(1), 0), Back(0), 0), Mouse, 1)
  /\ point = 0
  /\ my = 0 /\ moved = FALSE
  /\ held = None /\ header = TRUE
  /\ mmy = -1 /\ newy = 0 /\ slid = FALSE
  /\ sht = None
  /\ keywin = None

-----------------------------------------------------------------------------
\* The test before every event: a key_win that is gone is replaced.
Focus ==
  IF keywin # None /\ ~d.used[keywin]
  THEN IF Top(d, point) = 1 THEN None ELSE At(d, point, Top(d, point) - 1)
  ELSE keywin

\* The heights between background and mouse whose sheet is hit at row y.
HitsAt(y) ==
  {h \in 1 .. Top(d, point) - 1 :
     /\ Covers(d, At(d, point, h), y)
     /\ Cell(d, At(d, point, h), y) # Clear}

\* What the search through the windows leaves in sht.
Searched(y) ==
  IF HitsAt(y) # {} THEN At(d, point, Max(HitsAt(y)))
  ELSE IF Top(d, point) > 1 THEN At(d, point, 1)
  ELSE sht

Packet(y) == my' = y /\ moved' = TRUE /\ sht' = Searched(y)

\* A mouse packet with the button up ends a drag.
MouseUp(y) ==
  /\ Packet(y)
  /\ held' = None /\ header' = TRUE
  /\ mmy' = -1
  /\ d' = IF slid THEN Slide(d, sht', newy) ELSE d
  /\ slid' = FALSE
  /\ keywin' = Focus
  /\ UNCHANGED <<newy, point>>

\* Button down, no drag yet, beside every window.
MouseMiss(y) ==
  /\ mmy = -1 /\ HitsAt(y) = {}
  /\ Packet(y)
  /\ held' = Missed
  /\ keywin' = Focus
  /\ UNCHANGED <<d, point, header, mmy, newy, slid>>

\* A window that is clicked rises under the mouse.
Grabbed(s) == Updown(d, s, Top(d, point) - 1)

\* Button down, no drag yet, on window s.  Only the first packet raises it
\* and decides whether it was taken by its title.
MouseHit(y) ==
  LET s == Searched(y)
      first == held = None
  IN /\ mmy = -1 /\ HitsAt(y) # {}
     /\ Packet(y)
     /\ d' = IF first THEN Grabbed(s) ELSE d
     /\ keywin' = IF first THEN s ELSE Focus
     /\ header' = IF first THEN y = d.y[s] ELSE header
     /\ held' = IF first THEN s ELSE held
     /\ IF header' THEN mmy' = y /\ newy' = d.y[s] ELSE UNCHANGED <<mmy, newy>>
     /\ UNCHANGED <<point, slid>>

\* Button down during a drag.
MouseDrag(y) ==
  /\ mmy # -1
  /\ Packet(y)
  /\ newy' = newy + (y - mmy)
  /\ mmy' = y /\ slid' = TRUE
  /\ keywin' = Focus
  /\ UNCHANGED <<d, point, held, header>>

\* The FIFO is empty: the mouse is drawn, and only then the window.
DrawMouse ==
  /\ moved
  /\ d' = Slide(d, Mouse, my)
  /\ moved' = FALSE
  /\ UNCHANGED <<point, my, held, header, mmy, newy, slid, sht, keywin>>

DrawWindow ==
  /\ ~moved /\ slid
  /\ d' = Slide(d, sht, newy)
  /\ slid' = FALSE
  /\ UNCHANGED <<point, my, moved, held, header, mmy, newy, sht, keywin>>

-----------------------------------------------------------------------------
\* What a careful user does: no key but Alt+Fn while the button is down, no
\* F11 without a window, and Alt+Fn only with nothing or an open window held.
CarefulKey == Careful => held = None
CarefulF11 == Careful => Top(d, point) > 1
CarefulSwitch == (Careful /\ held \in Sheets) => d.used[held]

\* Shift+F2: open_console, sheet_slide, sheet_updown.
OpenConsole(c) ==
  /\ CarefulKey
  /\ ~d.used[c]
  /\ LET a == Alloc(d, c, point, ConsoleBuf(c))
     IN d' = Updown(Slide(a, c, OpenRow), c, Top(a, point))
  /\ keywin' = c
  /\ UNCHANGED <<point, mousevars>>

\* F11: the window on the background rises under the mouse.
KeyF11 ==
  /\ CarefulKey /\ CarefulF11
  /\ d' = Updown(d, At(d, point, 1), Top(d, point) - 1)
  /\ keywin' = Focus
  /\ UNCHANGED <<point, mousevars>>

\* Mutant of Below: the background is not skipped.
BelowAny(s) == At(d, point, d.height[s] - 1)

\* The window under s, or the topmost one under the lowest.
Below(s) ==
  LET j == d.height[s] - 1
  IN At(d, point, IF j = 0 THEN Top(d, point) - 1 ELSE j)

KeyTab ==
  /\ CarefulKey
  /\ Focus # None
  /\ d.height[Focus] \in 1 .. Top(d, point) + 1
  /\ keywin' = Below(Focus)
  /\ UNCHANGED <<d, point, mousevars>>

\* sheet s goes out of sight and comes back on controller c at height h.
MoveTo(e, s, c, h) == Updown([Updown(e, s, -1) EXCEPT !.ctl[s] = c], s, h)

\* Mutant of Repainted: the background is taken to be there already.
RepaintedWindows(e, c) == Refreshsub(e, c, Rows, 1, Top(e, c))

\* The whole screen is painted from the map of c.
Repainted(e, c) == Refreshsub(e, c, Rows, 0, Top(e, c))

\* Alt+Fn: desktop c is shown, with the mouse and the window held, if any;
\* then the whole screen is painted.
SwitchDesktop(c) ==
  /\ held # Missed
  /\ CarefulSwitch
  /\ LET w == IF held = None THEN d ELSE MoveTo(d, held, c, Top(d, c) + 1)
         e == MoveTo(w, Mouse, c, 254)
     IN d' = Repainted(e, c)
  /\ keywin' = IF held = None THEN None ELSE Focus
  /\ point' = c
  /\ UNCHANGED mousevars

-----------------------------------------------------------------------------
\* Console c draws on a row of its body and refreshes it, on whatever
\* desktop it is.
ConsoleDraw(c, i) ==
  /\ d.used[c] /\ d.height[c] >= 0
  /\ d' = Refresh([d EXCEPT !.buf[c][i + 1] = Body(c, 1 - @[2])], c, i, i + 1)
  /\ UNCHANGED <<point, mousevars, keywin>>

\* cmd_exit, after the command or the data 4 of an X click.
ConsoleExit(c) ==
  /\ d.used[c] /\ d.height[c] >= 0
  /\ d' = Free(d, c)
  /\ UNCHANGED <<point, mousevars, keywin>>

Next ==
  \/ \E y \in Rows : MouseUp(y) \/ MouseMiss(y) \/ MouseHit(y) \/ MouseDrag(y)
  \/ DrawMouse \/ DrawWindow
  \/ \E c \in Consoles : OpenConsole(c) \/ ConsoleExit(c)
  \/ \E c \in Consoles, i \in 1 .. BodyRows : ConsoleDraw(c, i)
  \/ KeyF11 \/ KeyTab
  \/ \E c \in Ctls : SwitchDesktop(c)

Spec == Init /\ [][Next]_vars

-----------------------------------------------------------------------------
\* Every sheet of a stack has its place as height, the stack's desktop as
\* controller and an entry of its own in the table of ids, and a sheet with
\* a height is in a stack: through shows, hides, raises and changes of the
\* desktop (sheet_updown, SHEET.C:408-474; Alt+Fn, BOOTPACK.C:536-561).
Stacked ==
  \A s \in Sheets :
    /\ d.height[s] >= 0 =>
         /\ d.height[s] <= Top(d, d.ctl[s]) /\ At(d, d.ctl[s], d.height[s]) = s
         /\ d.sid[d.ctl[s]][d.id[s]] = s
         /\ d.used[s]
    /\ \A c \in Ctls :
         /\ (\E h \in 0 .. Top(d, c) : At(d, c, h) = s) => d.height[s] >= 0 /\ d.ctl[s] = c
         /\ (\E i \in Ids : d.sid[c][i] = s) => d.height[s] >= 0 /\ d.ctl[s] = c

\* The map of each desktop names at every row the topmost opaque sheet,
\* although every change refreshes only a part of it and from some height
\* up (sheet_refreshmap32, SHEET.C:136-174).
MapTop ==
  \A c \in Ctls, y \in Rows :
    LET hs == OpaqueAt(d, c, y, 0)
    IN hs # {} /\ d.map[c][y] = d.id[At(d, c, Max(hs))]

\* The topmost opaque sheet of desktop c at row y, and whether there is
\* glass above it.
Colour(e, c, y) == Cell(e, At(e, c, Max(OpaqueAt(e, c, y, 0))), y)
Glazed(e, c, y) ==
  \E h \in Max(OpaqueAt(e, c, y, 0)) + 1 .. Top(e, c) :
    Covers(e, At(e, c, h), y) /\ Cell(e, At(e, c, h), y) = Glass

\* No row of the screen is stale: it shows what one of the desktops has
\* there now, or has under its glass.  The desktop need not be the one
\* shown, because consoles draw on a hidden desktop too (the test in
\* CONSOLE.C:297 is commented out), and a refresh of a sheet paints over
\* the glass above it.
Screen ==
  \A y \in Rows : \E c \in Ctls :
    d.vram[y] = Colour(d, c, y) \/ (d.vram[y] = Mix /\ Glazed(d, c, y))

\* Alt+Fn leaves nothing of the other desktop on the screen, and nothing of
\* the place a window or the mouse had before (BOOTPACK.C:559, which paints
\* the whole screen without refreshing the map).
SwitchShows ==
  [][point' # point =>
       \A y \in Rows :
         d'.vram[y] = IF Glazed(d', point', y) THEN Mix ELSE Colour(d', point', y)]_vars

\* Keys go to a console on the desktop shown, or to one that has just left
\* and is replaced before the next key (BOOTPACK.C:457-464).
FocusShown ==
  keywin # None =>
    /\ keywin \in Consoles
    /\ d.used[keywin] => d.height[keywin] >= 1 /\ d.ctl[keywin] = point

\* After a press beside every window "no sheet is hit any more until the
\* button is released" (BOOTPACK.C:711): none is dragged.
MissedHoldsNothing == held = Missed => mmy = -1
=============================================================================
