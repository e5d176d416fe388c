---------------------------- MODULE ConsoleInput ----------------------------
(***************************************************************************)
(* How a console gets its input: the console task, the application it      *)
(* runs, which reads the same FIFO through API 15 and 28, the cursor       *)
(* timer, whose data come through that FIFO too, and HariMain, which sends *)
(* keys, mouse events and clicks on the X of a window.                     *)
(*                                                                         *)
(* The FIFO is the bounded queue that Fifo implements and the timer is one *)
(* of Timer.  A step of the task is what it does between io_cli and io_sti *)
(* or what it does with a datum afterwards; interrupts and HariMain come   *)
(* between the steps.                                                      *)
(***************************************************************************)
EXTENDS Integers, Sequences, FiniteSets

CONSTANTS
  Cap,        \* the size of task->fifo
  MouseCap,   \* the size of task->fifom
  Clicks      \* TRUE iff the X of the application's window is clicked

ASSUME ConsoleInputAssumption ==
  /\ Cap \in Nat \ {0} /\ MouseCap \in Nat \ {0}
  /\ Clicks \in BOOLEAN

\* The data of the FIFO by what they mean: a tick of the cursor timer (0 and
\* 1), a key (256 to 511), a click on the X of the console (4), a mouse event.
CURSOR == "cursor"
KEY == "key"
CLOSE == "close"
MOUSE == "mouse"
Kinds == {CURSOR, KEY, CLOSE, MOUSE}

\* What fifo32_get returns when there is nothing, -1.
NOTHING == "nothing"

VARIABLES
  fifo,   \* the data in task->fifo, oldest first
  over,   \* FLAGS_OVERRUN of task->fifo
  mouse,  \* the number of entries in task->fifom
  timer,  \* TRUE iff cons->timer runs
  sht,    \* TRUE iff cons->sht # 0
  mode,   \* whose loop runs: the console's or an application's
  wait,   \* eax # 0 in the application's call: sleep until there are data
  pc,     \* where the task is
  datum,  \* i, the datum it works on
  stray,  \* TRUE once an application's call took a datum from an empty FIFO
  crash   \* what went wrong where the code goes on with a broken system

vars == <<fifo, over, mouse, timer, sht, mode, wait, pc, datum, stray, crash>>

Init ==
  /\ fifo = <<>> /\ over = FALSE
  /\ mouse = 0
  /\ timer = TRUE
  /\ sht = TRUE
  /\ mode = "console" /\ wait = FALSE
  /\ pc = "loop" /\ datum = NOTHING
  /\ stray = FALSE /\ crash = "no"

-----------------------------------------------------------------------------
\* Mutant of Put: the owner is not woken.
PutNoWake(d) ==
  IF Len(fifo) < Cap
  THEN fifo' = Append(fifo, d) /\ UNCHANGED <<over, pc>>
  ELSE over' = TRUE /\ UNCHANGED <<fifo, pc>>

\* fifo32_put, with the task_run that wakes the owner.
Put(d) ==
  IF Len(fifo) < Cap
  THEN /\ fifo' = Append(fifo, d)
       /\ pc' = IF pc = "sleep" THEN "woken" ELSE pc
       /\ UNCHANGED over
  ELSE over' = TRUE /\ UNCHANGED <<fifo, pc>>

\* The timer interrupt when the cursor timer goes off.
CursorTick ==
  /\ timer /\ timer' = FALSE
  /\ Put(CURSOR)
  /\ UNCHANGED <<mouse, sht, mode, wait, datum, stray, crash>>

\* HariMain passes a key on.
KeyPressed ==
  /\ sht
  /\ Put(KEY)
  /\ UNCHANGED <<mouse, timer, sht, mode, wait, datum, stray, crash>>

\* HariMain: a click on the X of the console's window.
CloseClicked ==
  /\ sht
  /\ Put(CLOSE)
  /\ UNCHANGED <<mouse, timer, sht, mode, wait, datum, stray, crash>>

\* HariMain: the mouse is over a window of the task.  The position goes to
\* fifom, the event to fifo; a full fifom makes HariMain write through -1.
MouseMoved ==
  /\ sht
  /\ IF mouse < MouseCap
     THEN /\ mouse' = mouse + 1 /\ UNCHANGED crash
          /\ Put(MOUSE)
     ELSE crash' = "write through -1" /\ UNCHANGED <<mouse, fifo, over, pc>>
  /\ UNCHANGED <<timer, sht, mode, wait, datum, stray>>

\* HariMain: a click on the X of the application's window wakes the task with
\* task_run, and puts nothing.
AppClicked ==
  /\ Clicks /\ mode = "app" /\ pc = "sleep"
  /\ pc' = "woken"
  /\ UNCHANGED <<fifo, over, mouse, timer, sht, mode, wait, datum, stray, crash>>

-----------------------------------------------------------------------------
\* fifo32_get, after which the task works on the datum.
Get ==
  /\ pc' = "handle"
  /\ IF fifo = <<>> THEN datum' = NOTHING /\ UNCHANGED fifo
     ELSE datum' = Head(fifo) /\ fifo' = Tail(fifo)

\* The top of both loops, with data.
Take ==
  /\ pc = "loop" /\ fifo # <<>>
  /\ Get
  /\ UNCHANGED <<over, mouse, timer, sht, mode, wait, stray, crash>>

\* The top of both loops without data: task_sleep, but a call that does not
\* wait returns -1 to the application.
Sleep ==
  /\ pc = "loop" /\ fifo = <<>>
  /\ pc' = IF mode = "app" /\ ~wait THEN "compute" ELSE "sleep"
  /\ UNCHANGED <<fifo, over, mouse, timer, sht, mode, wait, datum, stray, crash>>

\* Mutant of Return: the console sleeps again without a look at the FIFO.
ReturnToSleep ==
  /\ pc = "woken"
  /\ IF mode = "console" THEN pc' = "sleep" /\ UNCHANGED <<fifo, datum, stray>>
     ELSE Get /\ stray' = (stray \/ fifo = <<>>)
  /\ UNCHANGED <<over, mouse, timer, sht, mode, wait, crash>>

\* task_sleep returns.  The console starts its loop again, the API takes a
\* datum without another test.
Return ==
  /\ pc = "woken"
  /\ IF mode = "console" THEN pc' = "loop" /\ UNCHANGED <<fifo, datum, stray>>
     ELSE Get /\ stray' = (stray \/ fifo = <<>>)
  /\ UNCHANGED <<over, mouse, timer, sht, mode, wait, crash>>

\* Mutant of HandleCursor: the API leaves the timer alone.
HandleCursorConsole ==
  /\ pc = "handle" /\ datum \in {CURSOR, NOTHING}
  /\ timer' = (timer \/ (sht /\ mode = "console"))
  /\ crash' = IF sht /\ timer THEN "timer set twice" ELSE crash
  /\ pc' = "loop"
  /\ UNCHANGED <<fifo, over, mouse, sht, mode, wait, datum, stray>>

\* i <= 1: timer_settime of the cursor timer.  When it runs already, the list
\* of timers gets a cycle.
HandleCursor ==
  /\ pc = "handle" /\ datum \in {CURSOR, NOTHING}
  /\ timer' = (timer \/ sht)
  /\ crash' = IF sht /\ timer THEN "timer set twice" ELSE crash
  /\ pc' = "loop"
  /\ UNCHANGED <<fifo, over, mouse, sht, mode, wait, datum, stray>>

\* A key ends the application's call.  In the console it may start an
\* application.
HandleKey ==
  /\ pc = "handle" /\ datum = KEY
  /\ \/ mode = "app" /\ pc' = "compute" /\ UNCHANGED mode
     \/ mode = "console" /\ pc' = "loop" /\ UNCHANGED mode
     \/ mode = "console" /\ pc' = "compute" /\ mode' = "app"
  /\ UNCHANGED <<fifo, over, mouse, timer, sht, wait, datum, stray, crash>>

\* The X of the console: the console ends (cmd_exit).  Under an application
\* only the window goes; a second click reads through cons->sht = 0.
HandleClose ==
  /\ pc = "handle" /\ datum = CLOSE
  /\ timer' = FALSE
  /\ IF mode = "console"
     THEN pc' = "gone" /\ sht' = FALSE /\ UNCHANGED crash
     ELSE /\ pc' = "loop"
          /\ sht' = FALSE
          /\ crash' = IF sht THEN crash ELSE "no window"
  /\ UNCHANGED <<fifo, over, mouse, mode, wait, datum, stray>>

\* Mutant of HandleMouse: one event takes all the entries.
HandleMouseAll ==
  /\ pc = "handle" /\ datum = MOUSE
  /\ mouse' = 0
  /\ pc' \in IF mode = "app" THEN {"loop", "compute"} ELSE {"loop"}
  /\ UNCHANGED <<fifo, over, timer, sht, mode, wait, datum, stray, crash>>

\* A mouse event: fifo_mouse_get.  API 28 returns it, the others go on.
HandleMouse ==
  /\ pc = "handle" /\ datum = MOUSE
  /\ IF mouse > 0 THEN mouse' = mouse - 1 /\ UNCHANGED crash
     ELSE crash' = "read through -1" /\ UNCHANGED mouse
  /\ pc' \in IF mode = "app" THEN {"loop", "compute"} ELSE {"loop"}
  /\ UNCHANGED <<fifo, over, timer, sht, mode, wait, datum, stray>>

\* The application calls API 15 or 28, waiting or not.
AppCall ==
  /\ pc = "compute"
  /\ wait' \in BOOLEAN
  /\ pc' = "loop"
  /\ UNCHANGED <<fifo, over, mouse, timer, sht, mode, datum, stray, crash>>

\* The application ends.  Its console ends with it when its window is gone.
AppEnd ==
  /\ pc = "compute"
  /\ mode' = "console"
  /\ pc' = IF sht THEN "loop" ELSE "gone"
  /\ UNCHANGED <<fifo, over, mouse, timer, sht, wait, datum, stray, crash>>

-----------------------------------------------------------------------------
TaskStep ==
  \/ Take \/ Sleep \/ Return
  \/ HandleCursor \/ HandleKey \/ HandleClose \/ HandleMouse

Next ==
  /\ crash = "no" /\ pc # "gone"
  /\ \/ CursorTick \/ KeyPressed \/ CloseClicked \/ MouseMoved \/ AppClicked
     \/ TaskStep
     \/ AppCall \/ AppEnd

\* The console task gets the processor again and again: its level is served
\* round robin, and the level above it, HariMain's, sleeps between events.
Spec == Init /\ [][Next]_vars /\ WF_vars(crash = "no" /\ pc # "gone" /\ TaskStep)

-----------------------------------------------------------------------------
(* Every variable has its type and the FIFOs their size. *)
TypeOK ==
  /\ fifo \in Seq(Kinds) /\ Len(fifo) <= Cap
  /\ over \in BOOLEAN
  /\ mouse \in 0 .. MouseCap
  /\ timer \in BOOLEAN /\ sht \in BOOLEAN /\ wait \in BOOLEAN /\ stray \in BOOLEAN
  /\ mode \in {"console", "app"}
  /\ pc \in {"loop", "sleep", "woken", "handle", "compute", "gone"}
  /\ datum \in Kinds \cup {NOTHING}
  /\ crash \in {"no", "timer set twice", "no window",
                "write through -1", "read through -1"}

(* The task never sleeps while its FIFO holds data, whether the console's
   loop or the API's put it to sleep. *)
NoSleepOnData == pc = "sleep" => fifo = <<>>

\* How often d is in a sequence, and in the FIFO.
Occurs(c, d) == Cardinality({i \in DOMAIN c : c[i] = d})
Count(d) == Occurs(fifo, d)
Handling(d) == pc = "handle" /\ datum = d
One(b) == IF b THEN 1 ELSE 0

(* The cursor timer is in one place: it runs, or its datum is in the FIFO, or
   its datum is being worked on.  So the console and the API never set it
   twice, and while no datum was lost the cursor never stops blinking, however
   the two loops take turns.  It ends when a click on the X of an application's
   window wakes a call without a datum, which HandleCursor then takes for one
   of the timer's (stray). *)
CursorOnce ==
  crash = "no" /\ sht /\ ~stray =>
    LET n == One(timer) + Count(CURSOR) + One(Handling(CURSOR))
    IN  n <= 1 /\ (~over => n = 1)

(* Every mouse event still to be read has its entry in fifom, also after
   events were lost to a full FIFO, so fifo_mouse_get never returns -1, which
   the loops would read through. *)
MouseHasEntry ==
  crash = "no" => mouse >= Count(MOUSE) + One(Handling(MOUSE))

(* Data for the console are taken: no wakeup is lost between the test of the
   FIFO and task_sleep. *)
DataTaken ==
  (mode = "console" /\ fifo # <<>>)
    ~> (pc \in {"handle", "gone"} \/ mode = "app" \/ crash # "no")
=============================================================================
