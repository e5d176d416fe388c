---------------------------- MODULE UnmaskedPut ----------------------------
(***************************************************************************)
(* fifo32_put and the task_run it calls, statement by statement, as        *)
(* HariMain executes them for a key, for the focus and for the mouse that  *)
(* leaves a window: with interrupts enabled.  The timer interrupt puts     *)
(* into the same FIFO (the cursor timer of console A) or wakes another     *)
(* console of the same level (B).  Fifo and Mtask take these calls as one  *)
(* step, which is right for callers that mask interrupts; this module      *)
(* shows what becomes of those that do not.                                *)
(*                                                                         *)
(* The compiler is called with -O0: x++ is a read and a write.  HariMain's *)
(* level is served before the consoles', so they run only when it sleeps.  *)
(***************************************************************************)
EXTENDS Integers, FiniteSets, Sequences, SequencesExt

CONSTANTS
  Size     \* fifo->size of A's FIFO

Consoles == {"A", "B"}

VARIABLES
  p, free,   \* of A's FIFO
  held,      \* the data put into A's FIFO and not taken yet
  data,      \* TRUE iff B's FIFO has data
  list,      \* level->tasks up to running, of the consoles' level
  awake,     \* the consoles whose task->flags is 2
  pc, reg    \* HariMain's next statement and the register it counts in

fifovars == <<p, free, held>>
levelvars == <<list, awake>>
vars == <<p, free, held, data, list, awake, pc, reg>>

Init ==
  /\ p = 0 /\ free = Size /\ held = 0
  /\ data = FALSE
  /\ list = <<>> /\ awake = {}
  /\ pc = "idle" /\ reg = 0

-----------------------------------------------------------------------------
\* if (fifo->p == fifo->size) fifo->p = 0
Wrap(i) == IF i = Size THEN 0 ELSE i

\* fifo->free--
Stored(f) == f - 1

\* task_run of a console, in one piece.
Woken(c) ==
  IF c \in awake THEN UNCHANGED levelvars
  ELSE list' = Append(list, c) /\ awake' = awake \cup {c}

\* The cursor timer of A: a put in the interrupt, in one piece.
CursorTickA ==
  /\ IF free = 0 THEN UNCHANGED <<p, free, held, list, awake>>
     ELSE /\ p' = Wrap(p + 1)
          /\ free' = Stored(free)
          /\ held' = held + 1
          /\ Woken("A")
  /\ UNCHANGED <<data, pc, reg>>

\* The cursor timer of B.
CursorTickB ==
  /\ data' = TRUE
  /\ Woken("B")
  /\ UNCHANGED <<p, free, held, pc, reg>>

-----------------------------------------------------------------------------
\* HariMain's fifo32_put to A.
Test ==
  /\ pc = "idle" /\ free # 0
  /\ pc' = "store"
  /\ UNCHANGED <<p, free, held, data, list, awake, reg>>

Store ==
  /\ pc = "store"
  /\ held' = held + 1
  /\ pc' = "read p"
  /\ UNCHANGED <<p, free, data, list, awake, reg>>

ReadP ==
  /\ pc = "read p" /\ reg' = p
  /\ pc' = "write p"
  /\ UNCHANGED <<p, free, held, data, list, awake>>

WriteP ==
  /\ pc = "write p" /\ p' = reg + 1
  /\ pc' = "wrap p"
  /\ UNCHANGED <<free, held, data, list, awake, reg>>

WrapP ==
  /\ pc = "wrap p" /\ p' = Wrap(p)
  /\ pc' = "read free"
  /\ UNCHANGED <<free, held, data, list, awake, reg>>

ReadFree ==
  /\ pc = "read free" /\ reg' = free
  /\ pc' = "write free"
  /\ UNCHANGED <<p, free, held, data, list, awake>>

WriteFree ==
  /\ pc = "write free" /\ free' = Stored(reg)
  /\ pc' = IF "A" \in awake THEN "idle" ELSE "place"
  /\ UNCHANGED <<p, held, data, list, awake, reg>>

\* task_add: tl->tasks[tl->running] = task, which reg = running stands for.
Place ==
  /\ pc = "place" /\ reg' = Len(list)
  /\ pc' = "count"
  /\ UNCHANGED <<p, free, held, data, list, awake>>

\* tl->running++.  A console the interrupt added to the same place stays there.
\* Then either the place behind it, whatever the array holds there, counts as
\* running too, or the interrupt came between the read and the write of running
\* and only one addition counts.
Count ==
  /\ pc = "count"
  /\ list' \in IF Len(list) = reg THEN {Append(list, "A")}
               ELSE {Append(list, "stale"), SubSeq(list, 1, reg + 1)}
  /\ pc' = "flags"
  /\ UNCHANGED <<p, free, held, data, awake, reg>>

\* task->flags = 2
Flags ==
  /\ pc = "flags" /\ awake' = awake \cup {"A"}
  /\ pc' = "idle"
  /\ UNCHANGED <<p, free, held, data, list, reg>>

HariMain ==
  \/ Test \/ Store \/ ReadP \/ WriteP \/ WrapP \/ ReadFree \/ WriteFree
  \/ Place \/ Count \/ Flags

-----------------------------------------------------------------------------
\* A runs: a datum is taken, or the task sleeps.
RunA ==
  /\ pc = "idle" /\ "A" \in Range(list)
  /\ IF free # Size
     THEN free' = free + 1 /\ held' = held - 1 /\ UNCHANGED levelvars
     ELSE list' = Remove(list, "A") /\ awake' = awake \ {"A"}
          /\ UNCHANGED <<free, held>>
  /\ UNCHANGED <<p, data, pc, reg>>

RunB ==
  /\ pc = "idle" /\ "B" \in Range(list)
  /\ IF data THEN data' = FALSE /\ UNCHANGED levelvars
     ELSE list' = Remove(list, "B") /\ awake' = awake \ {"B"} /\ UNCHANGED data
  /\ UNCHANGED <<p, free, held, pc, reg>>

Next == CursorTickA \/ CursorTickB \/ HariMain \/ RunA \/ RunB

Spec == Init /\ [][Next]_vars

-----------------------------------------------------------------------------
(* fifo32_status "reports how much data has gathered" (FIFO.C:60) and running
   is "the number of tasks running on this level" (BOOTPACK.H:692): whenever
   HariMain is outside fifo32_put, size - free is what was put and not taken,
   and the level's array up to running holds each running task once. *)
Counted ==
  pc = "idle" =>
    /\ Size - free = held
    /\ Len(list) = Cardinality(awake) /\ Range(list) = awake
=============================================================================
