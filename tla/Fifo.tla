-------------------------------- MODULE Fifo --------------------------------
(***************************************************************************)
(* The FIFO of 32-bit data of FIFO.C: a ring buffer, a write position p, a *)
(* read position q, the number of free places and an overrun flag, with a  *)
(* task that fifo32_put wakes.  Interrupt handlers put and tasks get; each *)
(* call is one step here because both run with interrupts disabled.        *)
(* UnmaskedPut drops that assumption.                                      *)
(***************************************************************************)
EXTENDS Integers

CONSTANTS
  Size,     \* fifo->size, the places of the buffer
  Data,     \* the data put by the callers
  HasTask   \* FALSE iff fifo->task is 0, as for keycmd in HariMain

ASSUME FifoAssumption ==
  /\ Size \in Nat \ {0}
  /\ Data \subseteq Int
  /\ HasTask \in BOOLEAN

Index == 0 .. Size - 1

\* task->flags of the task that owns the FIFO.
SLEEPING == 1
RUNNING == 2

VARIABLES
  buf,    \* fifo->buf
  p, q,   \* fifo->p, fifo->q
  free,   \* fifo->free
  flags,  \* fifo->flags, of which only FLAGS_OVERRUN exists
  tflags, \* fifo->task->flags
  ret     \* what the last call returned

vars == <<buf, p, q, free, flags, tflags, ret>>

FLAGS_OVERRUN == 1

\* fifo32_init: the buffer is fresh memory, so it holds anything.
Init ==
  /\ buf \in [Index -> Data]
  /\ p = 0 /\ q = 0
  /\ free = Size
  /\ flags = 0
  /\ tflags = RUNNING
  /\ ret = 0

\* fifo->p++ and fifo->q++ with their wrap to 0.
Step(i) == IF i + 1 = Size THEN 0 ELSE i + 1

\* fifo32_put on a full buffer.
PutFull ==
  /\ free = 0
  /\ flags' = FLAGS_OVERRUN
  /\ ret' = -1
  /\ UNCHANGED <<buf, p, q, free, tflags>>

\* Mutant of Put: the owner is not woken.
PutNoWake(d) ==
  /\ free # 0
  /\ buf' = [buf EXCEPT ![p] = d]
  /\ p' = Step(p)
  /\ free' = free - 1
  /\ ret' = 0
  /\ UNCHANGED <<q, flags, tflags>>

\* fifo32_put with room: it stores the data and task_run wakes the owner.
Put(d) ==
  /\ free # 0
  /\ buf' = [buf EXCEPT ![p] = d]
  /\ p' = Step(p)
  /\ free' = free - 1
  /\ tflags' = IF HasTask THEN RUNNING ELSE tflags
  /\ ret' = 0
  /\ UNCHANGED <<q, flags>>

\* fifo32_get on an empty buffer.
GetEmpty ==
  /\ free = Size
  /\ ret' = -1
  /\ UNCHANGED <<buf, p, q, free, flags, tflags>>

\* Mutant of Get: the data are read after q moved on.
GetLate ==
  /\ free # Size
  /\ q' = Step(q)
  /\ ret' = buf[Step(q)]
  /\ free' = free + 1
  /\ UNCHANGED <<buf, p, flags, tflags>>

\* fifo32_get with data.
Get ==
  /\ free # Size
  /\ ret' = buf[q]
  /\ q' = Step(q)
  /\ free' = free + 1
  /\ UNCHANGED <<buf, p, flags, tflags>>

Status ==
  /\ ret' = Size - free
  /\ UNCHANGED <<buf, p, q, free, flags, tflags>>

\* The owner's loop (console_task, mainloop): with interrupts disabled it
\* reads the status and sleeps when there is nothing.
Sleep ==
  /\ HasTask /\ tflags = RUNNING
  /\ Size - free = 0
  /\ tflags' = SLEEPING
  /\ UNCHANGED <<buf, p, q, free, flags, ret>>

\* task_run by somebody else, as the X button does in HariMain.
Wake ==
  /\ tflags = SLEEPING
  /\ tflags' = RUNNING
  /\ UNCHANGED <<buf, p, q, free, flags, ret>>

Next ==
  \/ \E d \in Data : Put(d)
  \/ PutFull \/ Get \/ GetEmpty \/ Status
  \/ Sleep \/ Wake

Spec == Init /\ [][Next]_vars

-----------------------------------------------------------------------------
\* The place that is i places after first on the ring.
Place(first, i) == IF first + i < Size THEN first + i ELSE first + i - Size

\* The n data of buffer b that start at place first.
RingSeq(b, first, n) == [i \in 1 .. n |-> b[Place(first, i - 1)]]

Used == Size - free

\* The data in the FIFO, oldest first.
Contents == RingSeq(buf, q, Used)

\* Every variable has its C type and the positions stay inside the buffer.
TypeOK ==
  /\ buf \in [Index -> Data]
  /\ p \in Index /\ q \in Index
  /\ free \in 0 .. Size
  /\ flags \in {0, FLAGS_OVERRUN}
  /\ tflags \in {SLEEPING, RUNNING}
  /\ ret \in Int

(* The write position is always free places behind the read position: the
   three fields fifo32_put and fifo32_get update separately never disagree
   about which places hold data. *)
RingInv == p = (IF Used = Size THEN q ELSE Place(q, Used))

(* No lost wakeup: the owner never sleeps while its FIFO holds data
   (fifo32_put calls task_run, the loops test the status before task_sleep). *)
NoSleepOnData == tflags = SLEEPING => Used = 0

\* Without an owner nobody sleeps on the FIFO.
NoOwner == ~HasTask => tflags = RUNNING

IInv == TypeOK /\ RingInv /\ NoSleepOnData /\ NoOwner

Queue == INSTANCE BoundedQueue WITH
  Capacity <- Size,
  queue    <- Contents,
  overrun  <- (flags = FLAGS_OVERRUN),
  awake    <- (tflags = RUNNING)

(* The ring buffer implements the bounded queue: order is kept across the
   wrap of p and q, nothing is overwritten before it is read, -1 is returned
   exactly when the queue is full (put) or empty (get), and the status is the
   number of data stored. *)
QueueSpec == Queue!QSpec
=============================================================================
