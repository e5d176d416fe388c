------------------------------- MODULE Timer -------------------------------
(***************************************************************************)
(* The timers of TIMER.C: a pool, a list of the running ones sorted by     *)
(* their time, which ends at a sentinel that never goes off, a cached time *)
(* of the head of the list, and a counter in two words that the timer      *)
(* interrupt steps.  The functions disable interrupts only while they work *)
(* on the list, so timer_alloc is two steps and timer_settime three: each  *)
(* task that uses timers has a place in the call it is making.             *)
(***************************************************************************)
EXTENDS Integers, SequencesExt

CONSTANTS
  MaxTimer,   \* MAX_TIMER, the size of the pool timerctl->timers0
  Fifos,      \* the tasks that use timers, each with its FIFO
  Word,       \* 2^32, the values of one word of the counter
  Timeouts,   \* the waits callers ask for, in ticks
  Slice,      \* the priority of the tasks: the ticks of their time slice
  Careful,    \* TRUE iff no task sets or frees a timer it set that still runs
  Undisturbed,  \* TRUE iff no task allocates a timer, and no application's
                \* timers are cancelled, between timer_alloc and timer_init
                \* of another
  MaxTime     \* bound: ticks explored

ASSUME TimerAssumption ==
  /\ MaxTimer \in Nat /\ MaxTimer >= 2
  /\ Word \in Nat /\ Word >= 2
  /\ Timeouts \subseteq 0 .. Word - 1
  /\ Slice \in 1 .. Word - 1
  /\ Careful \in BOOLEAN /\ Undisturbed \in BOOLEAN
  /\ MaxTime \in 0 .. Word * (Word - 1) - 1

Timers == 0 .. MaxTimer - 1
Sentinel == 0     \* the timer init_pit allocates
TaskTimer == 1    \* task_timer, which task_init allocates next

NoTimer == -1
NoFifo == "no fifo"

FLAGS_FREE == 0
FLAGS_ALLOC == 1
FLAGS_USING == 2

VARIABLES
  count,    \* <<timerctl->count64, timerctl->count>>
  next,     \* <<timerctl->next64, timerctl->next>>
  t0,       \* timerctl->t0, the head of the list
  nxt,      \* timer->next
  timeout,  \* <<timer->timeout64, timer->timeout>>
  flags,    \* timer->flags
  flags2,   \* timer->flags2 # 0: timer_cancelall may take it
  fifo,     \* timer->fifo
  fired,    \* the timers whose data the last step put, in order
  held,     \* the timers each task has a pointer to
  pc,       \* how far each task is in its call
  timer,    \* the timer the call is for
  tick      \* history: the tick a timer_settime is asked for

tables == <<count, next, t0, nxt, timeout, flags, flags2, fifo, fired>>
calls == <<held, pc, timer, tick>>
vars == <<tables, calls>>

\* Between calls; timer_alloc found a timer, returned it; timer_settime wrote
\* the low word, and the high word with the flags.
Places == {"ready", "found", "fresh", "low", "high"}

\* The tick a pair of words stands for.
Wide(c) == c[1] * Word + c[2]

Never == <<Word - 1, Word - 1>>

\* timers compare the high words, then the low words.
Leq(a, b) == a[1] < b[1] \/ (a[1] = b[1] /\ a[2] <= b[2])

\* The counter after a tick, which carries into the high word.
Tock(c) == IF c[2] + 1 = Word THEN <<c[1] + 1, 0>> ELSE <<c[1], c[2] + 1>>

-----------------------------------------------------------------------------
\* A list is a record of its head and the next fields.  Path(L)[k] is the
\* timer k places behind the head.
Path(L) ==
  LET p[k \in 0 .. MaxTimer] ==
        IF k = 0 THEN L.t0
        ELSE LET t == p[k - 1] IN IF t = NoTimer THEN NoTimer ELSE L.nxt[t]
  IN  p

Before(n) == 0 .. n - 1

\* The first place on L whose timer goes off no earlier than at time at: the
\* place timer_settime inserts at.
PlaceFor(L, at, to) ==
  CHOOSE k \in 0 .. MaxTimer :
    /\ Leq(at, to[Path(L)[k]])
    /\ \A j \in Before(k) : ~Leq(at, to[Path(L)[j]])

\* Mutant of Linked: every timer becomes the head.
LinkedFront(L, t, to) == [L EXCEPT !.t0 = t, !.nxt[t] = L.t0]

\* The list after timer_settime put timer t in, whose times are to.
Linked(L, t, to) ==
  LET k == PlaceFor(L, to[t], to)
      p == Path(L)
  IN  IF k = 0 THEN [L EXCEPT !.t0 = t, !.nxt[t] = L.t0]
      ELSE [L EXCEPT !.nxt[p[k - 1]] = t, !.nxt[t] = p[k]]

\* The list after timer_cancel took timer t out.
Unlinked(L, t) ==
  IF t = L.t0 THEN [L EXCEPT !.t0 = L.nxt[t]]
  ELSE LET k == CHOOSE k \in 1 .. MaxTimer :
                  Path(L)[k] = t /\ \A j \in 1 .. k - 1 : Path(L)[j] # t
       IN  [L EXCEPT !.nxt[Path(L)[k - 1]] = L.nxt[t]]

List == [t0 |-> t0, nxt |-> nxt]
SetList(L) == t0' = L.t0 /\ nxt' = L.nxt

-----------------------------------------------------------------------------
\* init_pit, then task_init, which allocates and sets task_timer.
Init ==
  /\ count = <<0, 0>>
  /\ timeout = [t \in Timers |-> CASE t = TaskTimer -> <<0, Slice>>
                                   [] t = Sentinel  -> Never
                                   [] OTHER         -> <<0, 0>>]
  /\ next = <<0, Slice>>
  /\ t0 = TaskTimer
  /\ nxt = [t \in Timers |-> IF t = TaskTimer THEN Sentinel ELSE NoTimer]
  /\ flags = [t \in Timers |->
               IF t \in {Sentinel, TaskTimer} THEN FLAGS_USING ELSE FLAGS_FREE]
  /\ flags2 = [t \in Timers |-> FALSE]
  /\ fifo = [t \in Timers |-> NoFifo]
  /\ fired = <<>>
  /\ held = [f \in Fifos |-> {}]
  /\ pc = [f \in Fifos |-> "ready"]
  /\ timer = [f \in Fifos |-> NoTimer]
  /\ tick = [f \in Fifos |-> 0]

\* Task f goes from place p to place q of a call for timer t.
Goes(f, p, q, t) ==
  /\ pc[f] = p
  /\ pc' = [pc EXCEPT ![f] = q]
  /\ timer' = [timer EXCEPT ![f] = IF q = "ready" THEN NoTimer ELSE t]
  /\ fired' = <<>>

Quiet(f) == Undisturbed => \A g \in Fifos \ {f} : pc[g] \notin {"found", "fresh"}

\* timer_alloc reads flags 0.  As tasks may free timers during the search,
\* any free timer may be the one it finds.
TimerFound(f, t) ==
  /\ flags[t] = FLAGS_FREE /\ Quiet(f)
  /\ Goes(f, "ready", "found", t)
  /\ UNCHANGED <<count, next, t0, nxt, timeout, flags, flags2, fifo, held, tick>>

\* timer_alloc takes the timer it found, for the kernel (auto FALSE) or for
\* API 16, which lets timer_cancelall take it when the application ends.
TimerAlloc(f, auto) ==
  /\ Goes(f, "found", "fresh", timer[f])
  /\ flags' = [flags EXCEPT ![timer[f]] = FLAGS_ALLOC]
  /\ flags2' = [flags2 EXCEPT ![timer[f]] = auto]
  /\ held' = [held EXCEPT ![f] = @ \cup {timer[f]}]
  /\ UNCHANGED <<count, next, t0, nxt, timeout, fifo, tick>>

\* timer_init of a timer just allocated, or of an older one.
TimerInit(f, t) ==
  /\ t \in held[f]
  /\ \/ Goes(f, "fresh", "ready", t) /\ t = timer[f]
     \/ Goes(f, "ready", "ready", t)
  /\ fifo' = [fifo EXCEPT ![t] = f]
  /\ UNCHANGED <<count, next, t0, nxt, timeout, flags, flags2, held, tick>>

\* A careful task knows the timers it set and got no datum of.
MayUse(f, t) == Careful => ~(flags[t] = FLAGS_USING /\ fifo[t] = f)

\* timer_settime with a wait of d ticks adds it to the low word of the
\* counter.  A carry is lost.
SettimeLow(f, t, d) ==
  /\ t \in held[f] /\ MayUse(f, t)
  /\ Goes(f, "ready", "low", t)
  /\ timeout' = [timeout EXCEPT ![t] = <<@[1], (count[2] + d) % Word>>]
  /\ tick' = [tick EXCEPT ![f] = Wide(count) + d]
  /\ UNCHANGED <<count, next, t0, nxt, flags, flags2, fifo, held>>

\* It reads the high word, perhaps some interrupts later, and sets the flags.
SettimeHigh(f) ==
  /\ Goes(f, "low", "high", timer[f])
  /\ timeout' = [timeout EXCEPT ![timer[f]] = <<count[1], @[2]>>]
  /\ flags' = [flags EXCEPT ![timer[f]] = FLAGS_USING]
  /\ tick' = [tick EXCEPT ![f] = 0]
  /\ UNCHANGED <<count, next, t0, nxt, flags2, fifo, held>>

\* It puts the timer on the list, with interrupts disabled.
SettimeLink(f) ==
  LET t == timer[f]
      L == Linked(List, t, timeout)
  IN  /\ Goes(f, "high", "ready", t)
      /\ SetList(L)
      /\ next' = IF L.t0 = t THEN timeout[t] ELSE next
      /\ UNCHANGED <<count, timeout, flags, flags2, fifo, held, tick>>

\* The timers that can be reached from the head of the list.
Listed == {Path(List)[k] : k \in 0 .. MaxTimer} \ {NoTimer}

\* timer_cancel of a running timer of the kernel; it does nothing to one that
\* does not run.  The machine stops if it searches the list for a timer that
\* is not there.
TimerCancel(f, t) ==
  /\ pc[f] = "ready" /\ t \in held[f] /\ ~flags2[t]
  /\ flags[t] = FLAGS_USING /\ t \in Listed
  /\ LET L == Unlinked(List, t)
     IN  /\ SetList(L)
         /\ next' = IF t = t0 THEN timeout[L.t0] ELSE next
  /\ flags' = [flags EXCEPT ![t] = FLAGS_ALLOC]
  /\ fired' = <<>>
  /\ UNCHANGED <<count, timeout, flags2, fifo, calls>>

\* timer_free leaves the list alone.
TimerFree(f, t) ==
  /\ t \in held[f] /\ MayUse(f, t)
  /\ Goes(f, "ready", "ready", t)
  /\ flags' = [flags EXCEPT ![t] = FLAGS_FREE]
  /\ held' = [held EXCEPT ![f] = @ \ {t}]
  /\ UNCHANGED <<count, next, t0, nxt, timeout, flags2, fifo, tick>>

\* The timers timer_cancelall takes, by their FIFO and not by who holds them.
Taken(f) == {t \in Timers : flags[t] # FLAGS_FREE /\ flags2[t] /\ fifo[t] = f}

\* Mutant of TimerCancelall: running timers are freed but stay on the list.
TimerCancelallFrees(f) ==
  /\ Taken(f) # {} /\ Quiet(f)
  /\ Goes(f, "ready", "ready", NoTimer)
  /\ flags' = [t \in Timers |-> IF t \in Taken(f) THEN FLAGS_FREE ELSE flags[t]]
  /\ held' = [held EXCEPT ![f] = @ \ Taken(f)]
  /\ UNCHANGED <<count, next, t0, nxt, timeout, flags2, fifo, tick>>

\* timer_cancelall of the timers of FIFO f when an application ends: in the
\* order of the pool, each is cancelled and freed.
TimerCancelall(f) ==
  LET after[k \in 0 .. MaxTimer] ==
        IF k = 0 THEN List
        ELSE IF k - 1 \in Taken(f) /\ flags[k - 1] = FLAGS_USING
             THEN Unlinked(after[k - 1], k - 1)
             ELSE after[k - 1]
      L == after[MaxTimer]
  IN  /\ Taken(f) # {} /\ Quiet(f)
      /\ \A t \in Taken(f) : flags[t] = FLAGS_USING => t \in Listed
      /\ Goes(f, "ready", "ready", NoTimer)
      /\ SetList(L)
      /\ next' = IF L.t0 # t0 THEN timeout[L.t0] ELSE next
      /\ flags' = [t \in Timers |-> IF t \in Taken(f) THEN FLAGS_FREE ELSE flags[t]]
      /\ held' = [held EXCEPT ![f] = @ \ Taken(f)]
      /\ UNCHANGED <<count, timeout, flags2, fifo, tick>>

-----------------------------------------------------------------------------
\* Mutant of TimedOut: a timer goes off one tick late.
TimedOutLate(t, c) == timeout[t] # Never /\ ~Leq(c, timeout[t])

\* The timer interrupt's test of a timer at counter c.
TimedOut(t, c) == timeout[t] # Never /\ Leq(timeout[t], c)

\* The places the interrupt's loop passes: it stops at the first timer that
\* has not timed out.
Passed(c) ==
  CHOOSE k \in 0 .. MaxTimer :
    /\ ~TimedOut(Path(List)[k], c)
    /\ \A j \in Before(k) : TimedOut(Path(List)[j], c)

\* The first k timers on path p put their data, but task_timer has none.
Puts(p, k) ==
  LET s == [j \in 1 .. k |-> p[j - 1]]
  IN  IF \E i \in 1 .. k : s[i] = TaskTimer
      THEN RemoveAt(s, CHOOSE i \in 1 .. k : s[i] = TaskTimer)
      ELSE s

\* inthandler20 when the cached time has not come.
TickEarly ==
  /\ ~Leq(next, Tock(count))
  /\ count' = Tock(count)
  /\ fired' = <<>>
  /\ UNCHANGED <<next, t0, nxt, timeout, flags, flags2, fifo>>

\* Mutant of Tick: task_switch is called before the head is stored.
TickSwitchFirst ==
  LET c    == Tock(count)
      k    == Passed(c)
      gone == {Path(List)[j] : j \in Before(k)}
      rest == [List EXCEPT !.t0 = Path(List)[k]]
      at   == <<c[1], (c[2] + Slice) % Word>>
      to   == [timeout EXCEPT ![TaskTimer] = at]
  IN  /\ Leq(next, c)
      /\ count' = c
      /\ fired' = Puts(Path(List), k)
      /\ timeout' = IF TaskTimer \in gone THEN to ELSE timeout
      /\ SetList(rest)
      /\ next' = timeout[rest.t0]
      /\ flags' = [t \in Timers |-> IF t \in gone THEN FLAGS_ALLOC ELSE flags[t]]
      /\ UNCHANGED <<flags2, fifo>>

\* inthandler20 when it has: the timers that timed out leave the list, their
\* data are put, and if task_timer is one of them task_switch sets it again.
Tick ==
  LET c    == Tock(count)
      k    == Passed(c)
      gone == {Path(List)[j] : j \in Before(k)}
      rest == [List EXCEPT !.t0 = Path(List)[k]]
      off  == [t \in Timers |-> IF t \in gone THEN FLAGS_ALLOC ELSE flags[t]]
      at   == <<c[1], (c[2] + Slice) % Word>>
      to   == [timeout EXCEPT ![TaskTimer] = at]
  IN  /\ Leq(next, c)
      /\ count' = c
      /\ fired' = Puts(Path(List), k)
      /\ UNCHANGED <<flags2, fifo>>
      /\ IF TaskTimer \in gone
         THEN LET L == Linked(rest, TaskTimer, to)
              IN  /\ timeout' = to
                  /\ SetList(L)
                  /\ next' = to[L.t0]
                  /\ flags' = [off EXCEPT ![TaskTimer] = FLAGS_USING]
         ELSE /\ SetList(rest)
              /\ next' = timeout[rest.t0]
              /\ flags' = off
              /\ UNCHANGED timeout

-----------------------------------------------------------------------------
\* The timers other than the kernel's own two.
Clients == Timers \ {Sentinel, TaskTimer}

Next ==
  \/ /\ Wide(count) < MaxTime
     /\ TickEarly \/ Tick
     /\ UNCHANGED calls
  \/ \E f \in Fifos :
       \/ \E t \in Clients :
            \/ TimerFound(f, t)
            \/ TimerInit(f, t)
            \/ \E d \in Timeouts : SettimeLow(f, t, d)
            \/ TimerCancel(f, t)
            \/ TimerFree(f, t)
       \/ \E auto \in BOOLEAN : TimerAlloc(f, auto)
       \/ SettimeHigh(f)
       \/ SettimeLink(f)
       \/ TimerCancelall(f)

Spec == Init /\ [][Next]_vars

-----------------------------------------------------------------------------
\* The list is a chain of different timers, sorted by time, that ends at the
\* sentinel.
ListSorted ==
  LET p == Path(List)
  IN  \E n \in 0 .. MaxTimer - 1 :
        /\ p[n] = Sentinel /\ nxt[Sentinel] = NoTimer
        /\ \A j, k \in 0 .. n : j < k => p[j] # p[k] /\ Leq(timeout[p[j]], timeout[p[k]])

\* The timers a timer_settime is about to put on the list.
BeingSet == {timer[f] : f \in {g \in Fifos : pc[g] = "high"}}

\* The timers on the list are those in use, but for these.
ListedUsing == Listed = {t \in Timers : flags[t] = FLAGS_USING} \ BeingSet

(* The list of timers is sorted and complete: the loops of timer_settime and
   of the interrupt, which test neither for its end nor for a cycle nor the
   flags of what they meet, always end and see every timer in use once. *)
TimerList == ListSorted /\ ListedUsing

(* The interrupt does not test the flags of the timers on the list: "all the
   timers of timers are in operation" (TIMER.C:139).  That holds only while
   calls of timer_alloc do not overlap. *)
ListedInUse == \A t \in Listed : flags[t] = FLAGS_USING

(* task_timer always runs: task_switch sets it in the interrupt in which it
   goes off, on the list that interrupt just cut. *)
TaskTimerRuns == TaskTimer \in Listed /\ flags[TaskTimer] = FLAGS_USING

Queue == INSTANCE TimerQueue WITH
  Timers  <- Timers \ {Sentinel},
  time    <- Wide(count),
  asking  <- {<<timer[f], tick[f]>> : f \in {g \in Fifos : pc[g] = "low"}},
  fixed   <- BeingSet,
  pending <- {t \in Timers \ {Sentinel} : flags[t] = FLAGS_USING} \ BeingSet,
  due     <- [t \in Timers \ {Sentinel} |-> Wide(timeout[t])]

(* The list implements timers with absolute times: once set, each goes off at
   the first tick at or after its due time, in order, once, and never after it
   was cancelled, also when the counter carries into its high word.  The due
   time is the tick asked for if that lies in the word of the counter in which
   timer_settime reads the high half, and otherwise is whole words off. *)
TimerSpec == Queue!TSpec
=============================================================================
