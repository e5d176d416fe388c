----------------------------- MODULE TimerQueue -----------------------------
(***************************************************************************)
(* What the timers of TIMER.C promise, with absolute times that never wrap *)
(* and without a list: a timer that was set goes off at the first tick at  *)
(* or after its due time, unless it is cancelled first.  Setting a timer   *)
(* takes a while: the due time is fixed after the tick was asked for, from *)
(* the clock's words, and the timer is pending only after that.  One timer *)
(* is the scheduler's, and is set again whenever it goes off.              *)
(***************************************************************************)
EXTENDS Integers, FiniteSets, Sequences

CONSTANTS
  Timers,     \* the timers that can be set
  TaskTimer,  \* the scheduler's
  Timeouts,   \* the waits callers ask for
  Word        \* the ticks in a word of the clock

VARIABLES
  time,      \* ticks since the start
  asking,    \* timers that are being set, each with the tick it is asked for
  fixed,     \* timers whose due time is fixed but which are not pending yet
  pending,   \* the timers that were set and did not go off
  due,       \* when each goes off
  fired      \* the timers that went off in the last step, in order

tvars == <<time, asking, fixed, pending, due, fired>>

TInit ==
  /\ time = 0
  /\ asking = {} /\ fixed = {}
  /\ pending = {TaskTimer}
  /\ due \in [Timers -> Int]
  /\ fired = <<>>

\* The orders in which the timers of E may go off: by due time.
Orders(E) ==
  {s \in [1 .. Cardinality(E) -> E] :
     \A i, j \in 1 .. Cardinality(E) :
       i < j => s[i] # s[j] /\ due[s[i]] <= due[s[j]]}

\* The interrupt.  How long the scheduler's next slice is, is not promised.
TTick ==
  LET expired == {t \in pending : due[t] <= time + 1}
  IN  /\ time' = time + 1
      /\ fired' \in Orders(expired \ {TaskTimer})
      /\ pending' = (pending \ expired) \cup ({TaskTimer} \cap expired)
      /\ \A t \in Timers \ ({TaskTimer} \cap expired) : due'[t] = due[t]
      /\ UNCHANGED <<asking, fixed>>

\* Nobody is setting t, and it is not pending.
Idle(t) == t \notin fixed \cup pending /\ \A a \in asking : a[1] # t

\* A wait begins now.
TAsk(t, wait) ==
  /\ Idle(t)
  /\ asking' = asking \cup {<<t, time + wait>>}
  /\ \A u \in Timers \ {t} : due'[u] = due[u]
  /\ fired' = <<>>
  /\ UNCHANGED <<time, fixed, pending>>

\* The tick that has the place in the clock's present word which tick x has
\* in its own: x itself, or whole words off.
InWord(x) == ((time \div Word) * Word) + (x % Word)

TFix(a) ==
  /\ asking' = asking \ {a}
  /\ fixed' = fixed \cup {a[1]}
  /\ due' = [due EXCEPT ![a[1]] = InWord(a[2])]
  /\ fired' = <<>>
  /\ UNCHANGED <<time, pending>>

TSet(t) ==
  /\ fixed' = fixed \ {t}
  /\ pending' = pending \cup {t}
  /\ fired' = <<>>
  /\ UNCHANGED <<time, asking, due>>

TCancel(T) ==
  /\ pending' = pending \ T
  /\ fired' = <<>>
  /\ UNCHANGED <<time, asking, fixed, due>>

\* Allocating, initialising and freeing timers that are not pending.
TOther ==
  /\ fired' = <<>>
  /\ UNCHANGED <<time, asking, fixed, pending, due>>

TNext ==
  \/ TTick
  \/ \E t \in Timers \ {TaskTimer} : \E wait \in Timeouts : TAsk(t, wait)
  \/ \E a \in asking : TFix(a)
  \/ \E t \in fixed : TSet(t)
  \/ \E T \in SUBSET (Timers \ {TaskTimer}) : TCancel(T)
  \/ TOther

TSpec == TInit /\ [][TNext]_tvars
=============================================================================
