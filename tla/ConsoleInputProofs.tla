------------------------- MODULE ConsoleInputProofs -------------------------
(***************************************************************************)
(* Proofs about the input of a console for FIFOs of every size: no wakeup  *)
(* is lost, the cursor timer is never set twice, and every mouse event has *)
(* its entry in fifom.                                                     *)
(***************************************************************************)
EXTENDS ConsoleInput, SequenceTheorems, FiniteSetTheorems, FunctionTheorems, TLAPS

USE ConsoleInputAssumption

-----------------------------------------------------------------------------
(* A datum occurs a finite number of times. *)
LEMMA OccursNat ==
  ASSUME NEW c \in Seq(Kinds), NEW d
  PROVE  Occurs(c, d) \in Nat /\ IsFiniteSet({i \in DOMAIN c : c[i] = d})
<1>1. DOMAIN c = 1 .. Len(c) /\ Len(c) \in Nat
  OBVIOUS
<1>2. IsFiniteSet(1 .. Len(c))
  BY <1>1, FS_Interval
<1>3. IsFiniteSet({i \in DOMAIN c : c[i] = d})
  BY <1>1, <1>2, FS_Subset
<1> QED BY <1>3, FS_CardinalityType DEF Occurs

(* fifo32_put adds one occurrence of what it puts. *)
LEMMA OccursAppend ==
  ASSUME NEW c \in Seq(Kinds), NEW e \in Kinds, NEW d
  PROVE  Occurs(Append(c, e), d) = Occurs(c, d) + One(e = d)
<1> DEFINE s == Append(c, e)
           S == {i \in DOMAIN c : c[i] = d}
           T == {i \in DOMAIN s : s[i] = d}
           n == Len(c) + 1
<1>1. /\ DOMAIN c = 1 .. Len(c) /\ Len(c) \in Nat /\ DOMAIN s = 1 .. n
      /\ \A i \in 1 .. Len(c) : s[i] = c[i]
      /\ s[n] = e
  OBVIOUS
<1>2. IsFiniteSet(S) /\ Cardinality(S) \in Nat
  BY OccursNat DEF Occurs
<1>3. CASE e = d
  <2>1. T = S \cup {n} /\ n \notin S
    BY <1>1, <1>3
  <2> HIDE DEF S, T
  <2>2. Cardinality(T) = Cardinality(S) + 1
    BY <1>2, <2>1, FS_AddElement
  <2> QED BY <1>3, <2>2 DEF Occurs, One, S, T
<1>4. CASE e # d
  <2>1. T = S
    BY <1>1, <1>4
  <2>2. Occurs(s, d) = Cardinality(T) /\ Occurs(c, d) = Cardinality(S)
    BY DEF Occurs
  <2> HIDE DEF s, S, T
  <2>3. Occurs(s, d) = Occurs(c, d) /\ Occurs(c, d) \in Nat
    BY <1>2, <2>1, <2>2
  <2>4. Occurs(s, d) = Occurs(c, d) + One(e = d)
    BY <1>4, <2>3 DEF One
  <2> QED BY <2>4 DEF s
<1> QED BY <1>3, <1>4

(* fifo32_get takes one occurrence of what it returns. *)
LEMMA OccursTail ==
  ASSUME NEW c \in Seq(Kinds), c # << >>, NEW d
  PROVE  Occurs(c, d) = Occurs(Tail(c), d) + One(Head(c) = d)
<1> DEFINE s == Tail(c)
           S == {i \in DOMAIN c : c[i] = d}
           R == {i \in DOMAIN c : c[i] = d /\ i # 1}
           T == {i \in DOMAIN s : s[i] = d}
           f == [i \in T |-> i + 1]
<1>1. /\ DOMAIN c = 1 .. Len(c) /\ Len(c) \in Nat /\ Len(c) > 0
      /\ DOMAIN s = 1 .. Len(c) - 1
      /\ \A i \in 1 .. Len(c) - 1 : s[i] = c[i + 1]
      /\ Head(c) = c[1] /\ s \in Seq(Kinds)
  <2>1. s \in Seq(Kinds) /\ Len(s) = Len(c) - 1 /\ \A i \in 1 .. Len(s) : s[i] = c[i + 1]
    BY HeadTailProperties
  <2>2. Len(c) \in Nat /\ Len(c) > 0
    BY EmptySeq
  <2> QED BY <2>1, <2>2
<1>2. IsFiniteSet(S) /\ Cardinality(S) \in Nat /\ IsFiniteSet(T) /\ Cardinality(T) \in Nat
  BY <1>1, OccursNat DEF Occurs
<1>3. Cardinality(T) = Cardinality(R)
  <2>1. f \in [T -> R]
    BY <1>1
  <2>2. \A i, j \in T : f[i] = f[j] => i = j
    BY <1>1
  <2>3. ASSUME NEW k \in R
        PROVE  \E i \in T : f[i] = k
    <3>1. k - 1 \in T /\ f[k - 1] = k
      BY <1>1
    <3> QED BY <3>1
  <2>4. f \in Bijection(T, R)
    <3> HIDE DEF f, T, R
    <3> QED BY <2>1, <2>2, <2>3, Fun_IsBij
  <2>5. ExistsBijection(T, R)
    BY <2>4 DEF ExistsBijection
  <2> HIDE DEF f, T, R
  <2> QED BY <1>2, <2>5, FS_Bijection
<1>4. CASE Head(c) = d
  <2>1. R = S \ {1} /\ 1 \in S
    BY <1>1, <1>4
  <2> HIDE DEF R, S, T
  <2>2. Cardinality(R) = Cardinality(S) - 1
    BY <1>2, <2>1, FS_RemoveElement
  <2>3. Cardinality(S) = Cardinality(T) + 1
    BY <1>2, <1>3, <2>2
  <2> QED BY <1>4, <2>3 DEF Occurs, One, S, T
<1>5. CASE Head(c) # d
  <2>1. R = S
    BY <1>1, <1>5
  <2>2. Occurs(s, d) = Cardinality(T) /\ Occurs(c, d) = Cardinality(S)
    BY DEF Occurs
  <2> HIDE DEF s, R, S, T
  <2>3. Occurs(c, d) = Occurs(s, d) /\ Occurs(s, d) \in Nat
    BY <1>2, <1>3, <2>1, <2>2
  <2>4. Occurs(c, d) = Occurs(s, d) + One(Head(c) = d)
    BY <1>5, <2>3 DEF One
  <2> QED BY <2>4 DEF s
<1> QED BY <1>4, <1>5
-----------------------------------------------------------------------------
(* The kinds of data are different. *)
LEMMA KindsDiffer ==
  /\ CURSOR \in Kinds /\ KEY \in Kinds /\ CLOSE \in Kinds /\ MOUSE \in Kinds
  /\ NOTHING \notin Kinds
  /\ CURSOR # KEY /\ CURSOR # CLOSE /\ CURSOR # MOUSE /\ KEY # CLOSE /\ KEY # MOUSE
  /\ CLOSE # MOUSE
BY DEF Kinds, NOTHING, CURSOR, KEY, CLOSE, MOUSE

\* The terms of the two sums: the ticks and events in the FIFO, the one that
\* is worked on, and the timer that runs.
Ticks == Count(CURSOR)
Events == Count(MOUSE)
TickInHand == One(Handling(CURSOR))
EventInHand == One(Handling(MOUSE))
Running == One(timer)

\* The parts of the inductive invariant.
Fits == fifo \in Seq(Kinds) /\ Len(fifo) <= Cap
Room == mouse \in Nat /\ mouse <= MouseCap
Flags ==
  /\ over \in BOOLEAN /\ timer \in BOOLEAN /\ sht \in BOOLEAN
  /\ wait \in BOOLEAN /\ stray \in BOOLEAN
Places ==
  /\ mode \in {"console", "app"}
  /\ pc \in {"loop", "sleep", "woken", "handle", "compute", "gone"}
  /\ datum \in Kinds \cup {NOTHING}
  /\ crash \in {"no", "timer set twice", "no window",
                "write through -1", "read through -1"}
OneTick ==
  crash = "no" /\ sht /\ ~stray =>
    /\ Running + Ticks + TickInHand <= 1
    /\ ~over => Running + Ticks + TickInHand = 1
Entries == crash = "no" => mouse >= Events + EventInHand
NoDatum == pc = "handle" /\ datum = NOTHING => stray

\* The inductive invariant.  Only a stray call works on no datum at all.
IInv ==
  /\ Fits /\ Room /\ Flags /\ Places
  /\ NoSleepOnData /\ OneTick /\ Entries /\ NoDatum

(* The terms are numbers, and the last three 0 or 1. *)
LEMMA Numbers ==
  ASSUME Fits
  PROVE  /\ Ticks \in Nat /\ Events \in Nat
         /\ TickInHand = 0 \/ TickInHand = 1
         /\ EventInHand = 0 \/ EventInHand = 1
         /\ Running = 0 \/ Running = 1
<1>1. Ticks \in Nat /\ Events \in Nat
  BY OccursNat DEF Fits, Ticks, Events, Count
<1>2. \A b : One(b) = 0 \/ One(b) = 1
  BY DEF One
<1> QED BY <1>1, <1>2 DEF TickInHand, EventInHand, Running

\* What is worked on is not touched by a put.
SameInHand == TickInHand' = TickInHand /\ EventInHand' = EventInHand

(* fifo32_put of d leaves a FIFO that fits, never a sleeping task with data,
   and counts d if it was not lost. *)
LEMMA PutKeeps ==
  ASSUME Fits, Places, Flags, NoSleepOnData, NEW d \in Kinds, Put(d), datum' = datum
  PROVE  /\ Fits' /\ over' \in BOOLEAN /\ NoSleepOnData'
         /\ pc' \in {"loop", "sleep", "woken", "handle", "compute", "gone"}
         /\ pc' = "handle" <=> pc = "handle"
         /\ SameInHand
         /\ d # CURSOR => Ticks' = Ticks
         /\ d # MOUSE => Events' = Events
         /\ ~over' => ~over
         /\ d = CURSOR => \/ Ticks' = Ticks + 1 /\ (~over' <=> ~over)
                          \/ Ticks' = Ticks /\ over'
         /\ d = MOUSE => Events' = Events \/ Events' = Events + 1
<1> USE KindsDiffer
<1>1. fifo \in Seq(Kinds) /\ Len(fifo) \in Nat /\ Len(fifo) <= Cap
  <2>1. fifo \in Seq(Kinds) /\ Len(fifo) <= Cap
    BY DEF Fits
  <2> QED BY <2>1
<1>2. pc' = "handle" <=> pc = "handle"
  BY DEF Put
<1>3. SameInHand
  BY <1>2 DEF SameInHand, TickInHand, EventInHand, One, Handling
<1>4. pc' \in {"loop", "sleep", "woken", "handle", "compute", "gone"}
  BY DEF Put, Places
<1>5. Ticks \in Nat /\ Events \in Nat
  BY Numbers
<1>6. CASE Len(fifo) < Cap
  <2>1. /\ fifo' = Append(fifo, d) /\ over' = over
        /\ pc' = IF pc = "sleep" THEN "woken" ELSE pc
    BY <1>6 DEF Put
  <2>2. fifo' \in Seq(Kinds) /\ Len(fifo') <= Cap
    BY <1>1, <1>6, <2>1
  <2>3. NoSleepOnData'
    BY <2>1 DEF NoSleepOnData
  <2>4. Ticks' = Ticks + One(d = CURSOR) /\ Events' = Events + One(d = MOUSE)
    BY <1>1, <2>1, OccursAppend DEF Ticks, Events, Count
  <2>5. \A b \in BOOLEAN : One(b) = IF b THEN 1 ELSE 0
    BY DEF One
  <2>6. /\ d # CURSOR => Ticks' = Ticks
        /\ d # MOUSE => Events' = Events
        /\ d = CURSOR => Ticks' = Ticks + 1
        /\ d = MOUSE => Events' = Events + 1
    <3>1. /\ d # CURSOR => One(d = CURSOR) = 0
          /\ d = CURSOR => One(d = CURSOR) = 1
          /\ d # MOUSE => One(d = MOUSE) = 0
          /\ d = MOUSE => One(d = MOUSE) = 1
      BY DEF One
    <3> QED BY <1>5, <2>4, <3>1
  <2>7. over' \in BOOLEAN /\ (~over' <=> ~over)
    BY <2>1 DEF Flags
  <2> QED BY <1>2, <1>3, <1>4, <2>2, <2>3, <2>6, <2>7 DEF Fits
<1>7. CASE ~(Len(fifo) < Cap)
  <2>1. over' = TRUE /\ fifo' = fifo /\ pc' = pc
    BY <1>7 DEF Put
  <2>2. Fits' /\ NoSleepOnData'
    BY <2>1 DEF Fits, NoSleepOnData
  <2>3. Ticks' = Ticks /\ Events' = Events
    BY <2>1 DEF Ticks, Events, Count
  <2> QED BY <1>2, <1>3, <1>4, <2>1, <2>2, <2>3
<1> QED BY <1>6, <1>7

-----------------------------------------------------------------------------
(* The cursor timer goes off: the tick moves from the timer to the FIFO. *)
LEMMA TickKeeps ==
  ASSUME IInv, CursorTick
  PROVE  IInv'
<1>1. Fits /\ Room /\ Flags /\ Places /\ NoSleepOnData /\ OneTick /\ Entries /\ NoDatum
  BY DEF IInv
<1>2. /\ timer /\ timer' = FALSE /\ Put(CURSOR) /\ datum' = datum
      /\ UNCHANGED <<mouse, sht, mode, wait, datum, stray, crash>>
  BY DEF CursorTick
<1>3. /\ Fits' /\ over' \in BOOLEAN /\ NoSleepOnData'
      /\ pc' \in {"loop", "sleep", "woken", "handle", "compute", "gone"}
      /\ pc' = "handle" <=> pc = "handle"
      /\ SameInHand
      /\ Events' = Events
      /\ ~over' => ~over
      /\ \/ Ticks' = Ticks + 1 /\ (~over' <=> ~over)
         \/ Ticks' = Ticks /\ over'
  BY <1>1, <1>2, PutKeeps, KindsDiffer
<1>4. Room' /\ Flags' /\ Places' /\ NoDatum'
  BY <1>1, <1>2, <1>3 DEF Room, Flags, Places, NoDatum
<1>5. Entries'
  BY <1>1, <1>2, <1>3 DEF Entries, SameInHand
<1>6. Running = 1 /\ Running' = 0
  BY <1>2 DEF Running, One
<1>7. OneTick'
  BY <1>1, <1>2, <1>3, <1>6, Numbers DEF OneTick, SameInHand
<1> QED BY <1>3, <1>4, <1>5, <1>7 DEF IInv

(* HariMain puts a key or a click on the X of the console. *)
LEMMA HariMainPutKeeps ==
  ASSUME IInv, KeyPressed \/ CloseClicked
  PROVE  IInv'
<1>1. Fits /\ Room /\ Flags /\ Places /\ NoSleepOnData /\ OneTick /\ Entries /\ NoDatum
  BY DEF IInv
<1>2. PICK d \in {KEY, CLOSE} :
        Put(d) /\ UNCHANGED <<mouse, timer, sht, mode, wait, datum, stray, crash>>
  BY DEF KeyPressed, CloseClicked
<1>3. d \in Kinds /\ d # CURSOR /\ d # MOUSE /\ datum' = datum
  BY <1>2, KindsDiffer
<1>4. /\ Fits' /\ over' \in BOOLEAN /\ NoSleepOnData'
      /\ pc' \in {"loop", "sleep", "woken", "handle", "compute", "gone"}
      /\ pc' = "handle" <=> pc = "handle"
      /\ SameInHand
      /\ Events' = Events /\ Ticks' = Ticks
      /\ ~over' => ~over
  BY <1>1, <1>2, <1>3, PutKeeps
<1>5. Room' /\ Flags' /\ Places' /\ NoDatum'
  BY <1>1, <1>2, <1>4 DEF Room, Flags, Places, NoDatum
<1>6. Running' = Running
  BY <1>2 DEF Running
<1>7. Entries' /\ OneTick'
  BY <1>1, <1>2, <1>4, <1>6 DEF Entries, OneTick, SameInHand
<1> QED BY <1>4, <1>5, <1>7 DEF IInv

(* The mouse: the entry goes to fifom before the event goes to the FIFO. *)
LEMMA MovedKeeps ==
  ASSUME IInv, MouseMoved
  PROVE  IInv'
<1>1. Fits /\ Room /\ Flags /\ Places /\ NoSleepOnData /\ OneTick /\ Entries /\ NoDatum
  BY DEF IInv
<1>2. Running' = Running
  BY DEF MouseMoved, Running
<1>3. CASE mouse < MouseCap
  <2>1. /\ mouse' = mouse + 1 /\ Put(MOUSE) /\ datum' = datum
        /\ UNCHANGED <<timer, sht, mode, wait, datum, stray, crash>>
    BY <1>3 DEF MouseMoved
  <2>2. /\ Fits' /\ over' \in BOOLEAN /\ NoSleepOnData'
        /\ pc' \in {"loop", "sleep", "woken", "handle", "compute", "gone"}
        /\ pc' = "handle" <=> pc = "handle"
        /\ SameInHand
        /\ Ticks' = Ticks
        /\ ~over' => ~over
        /\ Events' = Events \/ Events' = Events + 1
    BY <1>1, <2>1, PutKeeps, KindsDiffer
  <2>3. mouse' \in Nat /\ mouse' <= MouseCap
    BY <1>1, <1>3, <2>1 DEF Room
  <2>4. Flags' /\ Places' /\ NoDatum'
    BY <1>1, <2>1, <2>2 DEF Flags, Places, NoDatum
  <2>5. OneTick'
    BY <1>1, <1>2, <2>1, <2>2 DEF OneTick, SameInHand
  <2>6. Entries'
    BY <1>1, <2>1, <2>2, Numbers DEF Entries, SameInHand, Room
  <2> QED BY <2>2, <2>3, <2>4, <2>5, <2>6 DEF IInv, Room
<1>4. CASE ~(mouse < MouseCap)
  <2>1. /\ crash' = "write through -1"
        /\ UNCHANGED <<mouse, fifo, over, pc, timer, sht, mode, wait, datum, stray>>
    BY <1>4 DEF MouseMoved
  <2>2. Fits' /\ Room' /\ Flags' /\ NoSleepOnData' /\ NoDatum'
    BY <1>1, <2>1 DEF Fits, Room, Flags, NoSleepOnData, NoDatum
  <2>3. Places'
    BY <1>1, <2>1 DEF Places
  <2>4. OneTick' /\ Entries'
    BY <2>1 DEF OneTick, Entries
  <2> QED BY <2>2, <2>3, <2>4 DEF IInv
<1> QED BY <1>3, <1>4

-----------------------------------------------------------------------------
(* A get, when the task worked on nothing before: what it takes from the FIFO
   is what it works on next, and there is nothing only when it is stray. *)
LEMMA TakeKeeps ==
  ASSUME IInv, Get, pc # "handle", fifo = << >> => stray', stray => stray',
         stray' \in BOOLEAN, UNCHANGED <<over, mouse, timer, sht, mode, wait, crash>>
  PROVE  IInv'
<1> USE KindsDiffer
<1>1. Fits /\ Room /\ Flags /\ Places /\ NoSleepOnData /\ OneTick /\ Entries /\ NoDatum
  BY DEF IInv
<1>2. fifo \in Seq(Kinds) /\ Len(fifo) \in Nat /\ Len(fifo) <= Cap /\ pc' = "handle"
  <2>1. fifo \in Seq(Kinds) /\ Len(fifo) <= Cap /\ pc' = "handle"
    BY <1>1 DEF Fits, Get
  <2> QED BY <2>1
<1>3. TickInHand = 0 /\ EventInHand = 0 /\ Running' = Running
  BY DEF TickInHand, EventInHand, One, Handling, Running
<1>4. /\ Fits' /\ datum' \in Kinds \cup {NOTHING} /\ (datum' = NOTHING => fifo = << >>)
      /\ Ticks' + TickInHand' = Ticks /\ Events' + EventInHand' = Events
  <2>1. CASE fifo = << >>
    <3>1. datum' = NOTHING /\ fifo' = fifo
      BY <2>1 DEF Get
    <3>2. TickInHand' = 0 /\ EventInHand' = 0
      BY <3>1 DEF TickInHand, EventInHand, One, Handling
    <3>3. Ticks' = Ticks /\ Events' = Events
      BY <3>1 DEF Ticks, Events, Count
    <3>4. Fits'
      BY <1>1, <3>1 DEF Fits
    <3> QED BY <1>1, <2>1, <3>1, <3>2, <3>3, <3>4, Numbers
  <2>2. CASE fifo # << >>
    <3>1. datum' = Head(fifo) /\ fifo' = Tail(fifo)
      BY <2>2 DEF Get
    <3>2. Tail(fifo) \in Seq(Kinds) /\ Len(Tail(fifo)) = Len(fifo) - 1
      BY <1>2, <2>2, HeadTailProperties
    <3>3. Head(fifo) \in Kinds
      BY <1>2, <2>2, HeadTailProperties
    <3>4. Fits'
      <4>1. Len(Tail(fifo)) <= Cap
        BY <1>2, <3>2
      <4> QED BY <3>1, <3>2, <4>1 DEF Fits
    <3>5. /\ Ticks = Occurs(Tail(fifo), CURSOR) + One(Head(fifo) = CURSOR)
          /\ Events = Occurs(Tail(fifo), MOUSE) + One(Head(fifo) = MOUSE)
      BY <1>2, <2>2, OccursTail DEF Ticks, Events, Count
    <3>6. Ticks' = Occurs(Tail(fifo), CURSOR) /\ Events' = Occurs(Tail(fifo), MOUSE)
      BY <3>1 DEF Ticks, Events, Count
    <3>7. /\ TickInHand' = One(Head(fifo) = CURSOR)
          /\ EventInHand' = One(Head(fifo) = MOUSE)
      BY <1>2, <3>1 DEF TickInHand, EventInHand, One, Handling
    <3>8. datum' \in Kinds /\ datum' # NOTHING
      BY <3>1, <3>3
    <3> QED BY <3>4, <3>5, <3>6, <3>7, <3>8
  <2> QED BY <2>1, <2>2
<1>5. Room' /\ Flags' /\ NoSleepOnData' /\ NoDatum'
  BY <1>1, <1>2, <1>4 DEF Room, Flags, NoSleepOnData, NoDatum
<1>6. Places'
  BY <1>1, <1>2, <1>4 DEF Places
<1>7. Entries'
  BY <1>1, <1>3, <1>4, Numbers DEF Entries
<1>8. OneTick'
  <2>1. Ticks \in Nat
    BY <1>1, Numbers
  <2>2. Running \in Nat
    BY DEF Running, One
  <2>3. ~stray' => ~stray
    OBVIOUS
  <2>4. Ticks' \in Nat /\ TickInHand' \in Nat
    BY <1>4, OccursNat DEF Fits, Ticks, Count, TickInHand, One
  <2>5. Running' + Ticks' + TickInHand' = Running + Ticks + TickInHand
    <3>1. Ticks = Ticks' + TickInHand' /\ TickInHand = 0 /\ Running' = Running
      BY <1>3, <1>4
    <3> QED BY <2>1, <2>2, <2>4, <3>1
  <2> QED BY <1>1, <2>3, <2>5 DEF OneTick
<1> QED BY <1>4, <1>5, <1>6, <1>7, <1>8 DEF IInv

(* The steps that leave the FIFO, the timer and the datum alone. *)
LEMMA OtherKeeps ==
  ASSUME IInv, UNCHANGED <<fifo, over, mouse, timer, sht, datum, stray, crash>>,
         mode' \in {"console", "app"}, wait' \in BOOLEAN,
         pc' \in {"loop", "sleep", "woken", "compute", "gone"},
         pc' = "sleep" => fifo = << >>,
         pc = "handle" => datum = KEY
  PROVE  IInv'
<1>1. Fits /\ Room /\ Flags /\ Places /\ NoSleepOnData /\ OneTick /\ Entries /\ NoDatum
  BY DEF IInv
<1>2. Fits' /\ Room' /\ Flags' /\ NoSleepOnData' /\ NoDatum'
  BY <1>1 DEF Fits, Room, Flags, NoSleepOnData, NoDatum
<1>3. Places'
  BY <1>1 DEF Places
<1>4. /\ TickInHand' = 0 /\ EventInHand' = 0 /\ TickInHand = 0 /\ EventInHand = 0
      /\ Running' = Running
  BY KindsDiffer DEF TickInHand, EventInHand, Running, Handling, One
<1>5. Ticks' = Ticks /\ Events' = Events
  BY DEF Ticks, Events, Count
<1>6. OneTick' /\ Entries'
  BY <1>1, <1>4, <1>5 DEF OneTick, Entries
<1> QED BY <1>2, <1>3, <1>6 DEF IInv

(* A tick in hand goes back to the timer, which does not run then. *)
LEMMA CursorKeeps ==
  ASSUME IInv, HandleCursor
  PROVE  IInv'
<1>1. Fits /\ Room /\ Flags /\ Places /\ NoSleepOnData /\ OneTick /\ Entries /\ NoDatum
  BY DEF IInv
<1>2. /\ pc = "handle" /\ datum \in {CURSOR, NOTHING} /\ timer' = (timer \/ sht)
      /\ crash' = IF sht /\ timer THEN "timer set twice" ELSE crash
      /\ pc' = "loop"
      /\ UNCHANGED <<fifo, over, mouse, sht, mode, wait, datum, stray>>
  BY DEF HandleCursor
<1>3. timer' \in BOOLEAN
  BY <1>1, <1>2 DEF Flags
<1>4. Fits' /\ Room' /\ Flags' /\ NoSleepOnData' /\ NoDatum'
  BY <1>1, <1>2, <1>3 DEF Fits, Room, Flags, NoSleepOnData, NoDatum
<1>5. Places'
  <2>1. crash' = "timer set twice" \/ crash' = crash
    BY <1>2
  <2> QED BY <1>1, <1>2, <2>1 DEF Places
<1>6. Ticks' = Ticks /\ Events' = Events
  BY <1>2 DEF Ticks, Events, Count
<1>7. TickInHand' = 0 /\ EventInHand' = 0 /\ EventInHand = 0
  BY <1>2, KindsDiffer DEF TickInHand, EventInHand, Handling, One
<1>8. Entries'
  <2>1. crash' = "no" => crash = "no"
    BY <1>2
  <2> QED BY <1>1, <1>2, <1>6, <1>7, <2>1 DEF Entries
<1>9. OneTick'
  <2>1. ASSUME crash' = "no", sht', ~stray'
        PROVE  /\ Running' + Ticks' + TickInHand' <= 1
               /\ ~over' => Running' + Ticks' + TickInHand' = 1
    <3>1. crash = "no" /\ sht /\ ~stray /\ ~timer /\ timer'
      BY <1>2, <2>1
    <3>2. datum = CURSOR
      BY <1>1, <1>2, <3>1 DEF NoDatum
    <3>3. TickInHand = 1
      BY <1>2, <3>2 DEF TickInHand, Handling, One
    <3>4. Running = 0 /\ Running' = 1
      BY <3>1 DEF Running, One
    <3>5. Running + Ticks + TickInHand <= 1 /\ (~over => Running + Ticks + TickInHand = 1)
      BY <1>1, <3>1 DEF OneTick
    <3>6. Ticks \in Nat
      BY <1>1, Numbers
    <3>7. ~over' <=> ~over
      BY <1>2
    <3> QED BY <1>6, <1>7, <3>3, <3>4, <3>5, <3>6, <3>7
  <2> QED BY <2>1 DEF OneTick
<1> QED BY <1>4, <1>5, <1>8, <1>9 DEF IInv

(* A click on the X of the console. *)
LEMMA CloseKeeps ==
  ASSUME IInv, HandleClose
  PROVE  IInv'
<1>1. Fits /\ Room /\ Flags /\ Places /\ NoSleepOnData /\ OneTick /\ Entries /\ NoDatum
  BY DEF IInv
<1>2. /\ pc = "handle" /\ datum = CLOSE /\ timer' = FALSE /\ sht' = FALSE
      /\ pc' = "loop" \/ pc' = "gone"
      /\ crash' = crash \/ crash' = "no window"
      /\ UNCHANGED <<fifo, over, mouse, mode, wait, datum, stray>>
  BY DEF HandleClose
<1>3. Fits' /\ Room' /\ Flags' /\ NoSleepOnData' /\ NoDatum'
  BY <1>1, <1>2 DEF Fits, Room, Flags, NoSleepOnData, NoDatum
<1>4. Places'
  BY <1>1, <1>2 DEF Places
<1>5. EventInHand' = 0 /\ EventInHand = 0 /\ Events' = Events
  BY <1>2, KindsDiffer DEF Handling, One, Count, EventInHand, Events
<1>6. Entries'
  <2>1. crash' = "no" => crash = "no"
    BY <1>2
  <2> QED BY <1>1, <1>2, <1>5, <2>1 DEF Entries
<1>7. OneTick'
  BY <1>2 DEF OneTick
<1> QED BY <1>3, <1>4, <1>6, <1>7 DEF IInv

(* An event in hand takes its entry. *)
LEMMA MouseKeeps ==
  ASSUME IInv, HandleMouse
  PROVE  IInv'
<1>1. Fits /\ Room /\ Flags /\ Places /\ NoSleepOnData /\ OneTick /\ Entries /\ NoDatum
  BY DEF IInv
<1>2. /\ pc = "handle" /\ datum = MOUSE
      /\ mouse > 0 => mouse' = mouse - 1 /\ crash' = crash
      /\ ~(mouse > 0) => crash' = "read through -1" /\ mouse' = mouse
      /\ pc' = "loop" \/ pc' = "compute"
      /\ UNCHANGED <<fifo, over, timer, sht, mode, wait, datum, stray>>
  BY DEF HandleMouse
<1>3. Room'
  <2>1. mouse \in Nat /\ mouse <= MouseCap
    BY <1>1 DEF Room
  <2>2. mouse' \in Nat /\ mouse' <= mouse
    <3>1. (mouse > 0 /\ mouse' = mouse - 1) \/ mouse' = mouse
      BY <1>2
    <3>2. CASE mouse > 0 /\ mouse' = mouse - 1
      BY <2>1, <3>2
    <3>3. CASE mouse' = mouse
      BY <2>1, <3>3
    <3> QED BY <3>1, <3>2, <3>3
  <2>3. MouseCap \in Nat
    OBVIOUS
  <2> QED BY <2>1, <2>2, <2>3 DEF Room
<1>4. Fits' /\ Flags' /\ NoSleepOnData' /\ NoDatum'
  BY <1>1, <1>2 DEF Fits, Flags, NoSleepOnData, NoDatum
<1>5. Places'
  <2>1. crash' = crash \/ crash' = "read through -1"
    BY <1>2
  <2> QED BY <1>1, <1>2, <2>1 DEF Places
<1>6. /\ EventInHand = 1 /\ EventInHand' = 0 /\ TickInHand = 0 /\ TickInHand' = 0
      /\ Running' = Running
  BY <1>2, KindsDiffer DEF Handling, One, EventInHand, TickInHand, Running
<1>7. Ticks' = Ticks /\ Events' = Events
  BY <1>2 DEF Count, Ticks, Events
<1>8. crash' = "no" => crash = "no" /\ mouse' = mouse - 1
  <2>1. crash' = "no" => mouse > 0
    BY <1>2
  <2> QED BY <1>2, <2>1
<1>9. Entries'
  <2>1. mouse \in Nat /\ Events \in Nat
    BY <1>1, Numbers DEF Room
  <2> QED BY <1>1, <1>6, <1>7, <1>8, <2>1 DEF Entries
<1>10. OneTick'
  BY <1>1, <1>2, <1>6, <1>7, <1>8 DEF OneTick
<1> QED BY <1>3, <1>4, <1>5, <1>9, <1>10 DEF IInv

-----------------------------------------------------------------------------
(* Every state of a console's input satisfies the invariant, however the
   interrupts, HariMain, the console and its application take turns. *)
THEOREM ConsoleInputInvariant == Spec => []IInv
<1>1. Init => IInv
  <2> SUFFICES ASSUME Init
               PROVE  IInv
    OBVIOUS
  <2>1. /\ fifo = << >> /\ over = FALSE /\ timer = TRUE /\ mouse = 0 /\ pc = "loop"
        /\ sht = TRUE /\ mode = "console" /\ wait = FALSE /\ datum = NOTHING
        /\ stray = FALSE /\ crash = "no"
    BY DEF Init
  <2>2. << >> \in Seq(Kinds) /\ Len(<< >>) = 0
    OBVIOUS
  <2>3. Fits
    BY <2>1, <2>2 DEF Fits
  <2>4. Room
    BY <2>1 DEF Room
  <2>5. Flags
    BY <2>1 DEF Flags
  <2>6. NoSleepOnData /\ NoDatum
    BY <2>1 DEF NoSleepOnData, NoDatum
  <2>7. \A d : Count(d) = 0
    <3>1. \A d : {i \in DOMAIN fifo : fifo[i] = d} = {}
      BY <2>1
    <3> QED BY <3>1, FS_EmptySet DEF Count, Occurs
  <2>8. Ticks = 0 /\ Events = 0
    BY <2>7 DEF Ticks, Events
  <2>9. Running = 1 /\ TickInHand = 0 /\ EventInHand = 0
    BY <2>1 DEF Running, TickInHand, EventInHand, Handling, One
  <2>10. OneTick /\ Entries
    BY <2>1, <2>8, <2>9 DEF OneTick, Entries
  <2>11. Places
    BY <2>1 DEF Places
  <2> QED BY <2>3, <2>4, <2>10, <2>11, <2>5, <2>6 DEF IInv
<1>2. IInv /\ [Next]_vars => IInv'
  <2> SUFFICES ASSUME IInv, [Next]_vars
               PROVE  IInv'
    OBVIOUS
  <2>1. Flags /\ Places /\ NoSleepOnData
    BY DEF IInv
  <2>2. mode \in {"console", "app"} /\ wait \in BOOLEAN /\ stray \in BOOLEAN
    BY <2>1 DEF Flags, Places
  <2>3. CASE CursorTick
    BY <2>3, TickKeeps
  <2>4. CASE KeyPressed \/ CloseClicked
    BY <2>4, HariMainPutKeeps
  <2>5. CASE MouseMoved
    BY <2>5, MovedKeeps
  <2>6. CASE AppClicked
    BY <2>2, <2>6, OtherKeeps DEF AppClicked
  <2>7. CASE Take
    BY <2>2, <2>7, TakeKeeps DEF Take
  <2>8. CASE Sleep
    BY <2>2, <2>8, OtherKeeps DEF Sleep
  <2>9. CASE Return /\ mode = "console"
    BY <2>2, <2>9, OtherKeeps DEF Return
  <2>10. CASE Return /\ mode # "console"
    <3>1. Get /\ pc # "handle" /\ stray' = (stray \/ fifo = << >>)
          /\ UNCHANGED <<over, mouse, timer, sht, mode, wait, crash>>
      BY <2>10 DEF Return
    <3>2. stray' \in BOOLEAN
      BY <2>2, <3>1
    <3> QED BY <3>1, <3>2, TakeKeeps
  <2>11. CASE HandleCursor
    BY <2>11, CursorKeeps
  <2>12. CASE HandleKey
    <3>1. /\ pc = "handle" /\ datum = KEY
          /\ UNCHANGED <<fifo, over, mouse, timer, sht, wait, datum, stray, crash>>
          /\ pc' \in {"loop", "compute"} /\ mode' \in {"console", "app"}
      BY <2>2, <2>12 DEF HandleKey
    <3> QED BY <2>2, <3>1, OtherKeeps
  <2>13. CASE HandleClose
    BY <2>13, CloseKeeps
  <2>14. CASE HandleMouse
    BY <2>14, MouseKeeps
  <2>15. CASE AppCall
    BY <2>2, <2>15, OtherKeeps DEF AppCall
  <2>16. CASE AppEnd
    BY <2>2, <2>16, OtherKeeps DEF AppEnd
  <2>17. CASE UNCHANGED vars
    <3>1. UNCHANGED <<fifo, over, mouse, timer, sht, mode, wait, pc, datum, stray, crash>>
      BY <2>17 DEF vars
    <3>2. Fits' /\ Room' /\ Flags' /\ NoSleepOnData' /\ NoDatum'
      BY <3>1 DEF IInv, Fits, Room, Flags, NoSleepOnData, NoDatum
    <3>3. Places'
      BY <3>1 DEF IInv, Places
    <3>4. /\ Ticks' = Ticks /\ Events' = Events /\ Running' = Running
          /\ TickInHand' = TickInHand /\ EventInHand' = EventInHand
      BY <3>1 DEF Ticks, Events, Running, TickInHand, EventInHand, Count, Handling
    <3>5. OneTick' /\ Entries'
      BY <3>1, <3>4 DEF IInv, OneTick, Entries
    <3> QED BY <3>2, <3>5, <3>3 DEF IInv
  <2> QED BY <2>3, <2>4, <2>5, <2>6, <2>7, <2>8, <2>9, <2>10, <2>11, <2>12, <2>13,
             <2>14, <2>15, <2>16, <2>17 DEF Next, TaskStep
<1> QED BY <1>1, <1>2, PTL DEF Spec

(* Every variable has its type, and no FIFO more data than places. *)
THEOREM ConsoleTypeOK == Spec => []TypeOK
<1>1. IInv => TypeOK
  <2>1. Room => mouse \in 0 .. MouseCap
    BY DEF Room
  <2> QED BY <2>1 DEF IInv, Fits, Flags, Places, TypeOK
<1> QED BY <1>1, ConsoleInputInvariant, PTL

(* Neither loop sleeps while the FIFO holds data. *)
THEOREM ConsoleNoSleepOnData == Spec => []NoSleepOnData
<1>1. IInv => NoSleepOnData
  BY DEF IInv
<1> QED BY <1>1, ConsoleInputInvariant, PTL

(* The cursor timer is in one place, so it is never set while it runs. *)
THEOREM ConsoleCursorOnce == Spec => []CursorOnce
<1>1. IInv => CursorOnce
  BY DEF IInv, OneTick, CursorOnce, Ticks, Running, TickInHand
<1> QED BY <1>1, ConsoleInputInvariant, PTL

(* fifo_mouse_get never finds fifom empty. *)
THEOREM ConsoleMouseHasEntry == Spec => []MouseHasEntry
<1>1. IInv => MouseHasEntry
  BY DEF IInv, Entries, MouseHasEntry, Events, EventInHand
<1> QED BY <1>1, ConsoleInputInvariant, PTL
=============================================================================
