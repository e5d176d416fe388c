---------------------------- MODULE BoundedQueue ----------------------------
(***************************************************************************)
(* What a FIFO of the kernel promises to the code that uses it, whatever   *)
(* array it keeps its data in: the data come out in the order they went    *)
(* in, nothing is lost except what is refused when the queue is full, a    *)
(* refusal is reported and remembered, and a successful put leaves the     *)
(* task that owns the queue running.                                       *)
(***************************************************************************)
EXTENDS Sequences, Integers

CONSTANTS
  Capacity,  \* how many data the queue holds
  Data       \* the values that are queued

VARIABLES
  queue,     \* the data put and not yet taken, oldest first
  overrun,   \* TRUE once a put was refused
  awake,     \* TRUE iff the owner task runs
  ret        \* what the last operation returned

qvars == <<queue, overrun, awake, ret>>

QInit ==
  /\ queue = << >>
  /\ overrun = FALSE
  /\ awake = TRUE
  /\ ret = 0

\* A put is accepted while there is room, and wakes the owner.
PutAccepted(d) ==
  /\ Len(queue) < Capacity
  /\ queue' = Append(queue, d)
  /\ awake' = TRUE
  /\ ret' = 0
  /\ UNCHANGED overrun

\* A put on a full queue is refused; the queue stays as it is.
PutRefused ==
  /\ Len(queue) = Capacity
  /\ overrun' = TRUE
  /\ ret' = -1
  /\ UNCHANGED <<queue, awake>>

Take ==
  /\ queue # << >>
  /\ ret' = Head(queue)
  /\ queue' = Tail(queue)
  /\ UNCHANGED <<overrun, awake>>

TakeNothing ==
  /\ queue = << >>
  /\ ret' = -1
  /\ UNCHANGED <<queue, overrun, awake>>

\* How many data are queued.
Count ==
  /\ ret' = Len(queue)
  /\ UNCHANGED <<queue, overrun, awake>>

\* The owner gives up the processor only when it has nothing to take.
OwnerSleeps ==
  /\ awake /\ queue = << >>
  /\ awake' = FALSE
  /\ UNCHANGED <<queue, overrun, ret>>

\* Anybody may wake the owner.
OwnerWoken ==
  /\ ~awake
  /\ awake' = TRUE
  /\ UNCHANGED <<queue, overrun, ret>>

QNext ==
  \/ \E d \in Data : PutAccepted(d)
  \/ PutRefused \/ Take \/ TakeNothing \/ Count
  \/ OwnerSleeps \/ OwnerWoken

QSpec == QInit /\ [][QNext]_qvars
=============================================================================
