--------------------------- MODULE KeyboardProofs ---------------------------
(***************************************************************************)
(* Proofs about the FIFO for every buffer size, every set of data, and     *)
(* with or without an owner task: its invariants, and that the ring buffer *)
(* implements the bounded queue.  Then about HariMain and the keyboard,    *)
(* which talk through it, for every size of the FIFO and of keycmd, any    *)
(* number of presses and of bytes that are asked for again.                *)
(***************************************************************************)
EXTENDS Keyboard, SequenceTheorems, FiniteSetTheorems, TLAPS

USE FifoAssumption

-----------------------------------------------------------------------------
\* The FIFO.

(* Every reachable state is well typed, the three ring fields agree, and the
   owner never sleeps while data wait (fifo32_init, _put, _get, _status). *)
THEOREM FifoInvariant == Spec => []IInv
<1> USE DEF IInv, TypeOK, RingInv, NoSleepOnData, NoOwner, Index, Used, Place,
            SLEEPING, RUNNING, FLAGS_OVERRUN
<1>1. Init => IInv
  BY DEF Init
<1>2. IInv /\ [Next]_vars => IInv'
  <2> SUFFICES ASSUME IInv, [Next]_vars
               PROVE  IInv'
    OBVIOUS
  <2>1. ASSUME NEW d \in Data, Put(d)
        PROVE  IInv'
    <3>1. TypeOK'
      BY <2>1 DEF Put, Step
    <3>2. RingInv'
      BY <2>1 DEF Put, Step
    <3>3. NoSleepOnData' /\ NoOwner'
      BY <2>1 DEF Put
    <3> QED BY <3>1, <3>2, <3>3
  <2>2. CASE PutFull
    BY <2>2 DEF PutFull
  <2>3. CASE Get
    BY <2>3 DEF Get, Step
  <2>4. CASE GetEmpty
    BY <2>4 DEF GetEmpty
  <2>5. CASE Status
    BY <2>5 DEF Status
  <2>6. CASE Sleep
    BY <2>6 DEF Sleep
  <2>7. CASE Wake
    BY <2>7 DEF Wake
  <2>8. CASE UNCHANGED vars
    BY <2>8 DEF vars
  <2> QED
    BY <2>1, <2>2, <2>3, <2>4, <2>5, <2>6, <2>7, <2>8 DEF Next
<1>3. QED
  BY <1>1, <1>2, PTL DEF Spec

(* The data of a ring buffer form a sequence of the expected length. *)
LEMMA RingSeqType ==
  ASSUME NEW b \in [Index -> Data], NEW first \in Index, NEW n \in 0 .. Size
  PROVE  /\ RingSeq(b, first, n) \in Seq(Data)
         /\ Len(RingSeq(b, first, n)) = n
         /\ \A i \in 1 .. n : RingSeq(b, first, n)[i] = b[Place(first, i - 1)]
<1>1. ASSUME NEW i \in 1 .. n
      PROVE  Place(first, i - 1) \in Index
  BY DEF Place, Index
<1>2. RingSeq(b, first, n) \in [1 .. n -> Data]
  BY <1>1 DEF RingSeq
<1>3. RingSeq(b, first, n) \in Seq(Data) /\ Len(RingSeq(b, first, n)) = n
  BY <1>2, SeqDef
<1> QED
  BY <1>3 DEF RingSeq

(* Writing the place behind the newest data, as fifo32_put does, appends to
   the sequence and disturbs none of the data stored. *)
LEMMA RingAppend ==
  ASSUME NEW b \in [Index -> Data], NEW first \in Index,
         NEW n \in 0 .. Size - 1, NEW d \in Data
  PROVE  RingSeq([b EXCEPT ![Place(first, n)] = d], first, n + 1)
           = Append(RingSeq(b, first, n), d)
<1> DEFINE c == [b EXCEPT ![Place(first, n)] = d]
           s == RingSeq(b, first, n)
           t == RingSeq(c, first, n + 1)
<1>1. Place(first, n) \in Index
  BY DEF Place, Index
<1>2. c \in [Index -> Data]
  BY <1>1
<1>3. /\ s \in Seq(Data) /\ Len(s) = n
      /\ \A i \in 1 .. n : s[i] = b[Place(first, i - 1)]
  BY RingSeqType
<1>4. n + 1 \in 0 .. Size
  OBVIOUS
<1>5. /\ t \in Seq(Data) /\ Len(t) = n + 1
      /\ \A i \in 1 .. n + 1 : t[i] = c[Place(first, i - 1)]
  BY <1>2, <1>4, RingSeqType
<1>6. ASSUME NEW i \in 1 .. n
      PROVE  c[Place(first, i - 1)] = b[Place(first, i - 1)]
  <2>1. Place(first, i - 1) \in Index /\ Place(first, i - 1) # Place(first, n)
    BY DEF Place, Index
  <2> QED BY <1>1, <2>1
<1>7. c[Place(first, n)] = d
  BY <1>1
<1> HIDE DEF c, s, t
<1>8. \A i \in 1 .. n : t[i] = s[i]
  BY <1>3, <1>5, <1>6
<1>9. t[n + 1] = d
  <2>1. n + 1 - 1 = n /\ n + 1 \in 1 .. n + 1
    OBVIOUS
  <2>2. t[n + 1] = c[Place(first, n + 1 - 1)]
    BY <1>5, <2>1
  <2> QED BY <1>7, <2>1, <2>2
<1>10. /\ Append(s, d) \in Seq(Data) /\ Len(Append(s, d)) = n + 1
       /\ \A i \in 1 .. n : Append(s, d)[i] = s[i]
       /\ Append(s, d)[n + 1] = d
  BY <1>3
<1>11. \A i \in 1 .. n + 1 : t[i] = Append(s, d)[i]
  BY <1>8, <1>9, <1>10
<1>12. t = Append(s, d)
  BY <1>5, <1>10, <1>11, SeqEqual
<1> QED BY <1>12 DEF c, s, t

(* Moving q on, as fifo32_get does, removes the oldest data. *)
LEMMA RingTail ==
  ASSUME NEW b \in [Index -> Data], NEW first \in Index, NEW n \in 1 .. Size
  PROVE  /\ RingSeq(b, first, n) # << >>
         /\ Head(RingSeq(b, first, n)) = b[first]
         /\ RingSeq(b, Step(first), n - 1) = Tail(RingSeq(b, first, n))
<1> DEFINE s == RingSeq(b, first, n)
           t == RingSeq(b, Step(first), n - 1)
<1>1. /\ s \in Seq(Data) /\ Len(s) = n
      /\ \A i \in 1 .. n : s[i] = b[Place(first, i - 1)]
  BY RingSeqType
<1>2. Step(first) \in Index /\ n - 1 \in 0 .. Size
  BY DEF Step, Index
<1>3. /\ t \in Seq(Data) /\ Len(t) = n - 1
      /\ \A i \in 1 .. n - 1 : t[i] = b[Place(Step(first), i - 1)]
  BY <1>2, RingSeqType
<1>4. ASSUME NEW i \in 1 .. n - 1
      PROVE  t[i] = s[i + 1]
  <2>1. Place(Step(first), i - 1) = Place(first, i + 1 - 1)
    BY DEF Place, Step, Index
  <2> QED BY <1>1, <1>3, <2>1
<1>5. s[1] = b[first]
  <2>1. Place(first, 1 - 1) = first
    BY DEF Place, Index
  <2> QED BY <1>1, <2>1
<1> HIDE DEF s, t
<1>6. s # << >>
  BY <1>1, EmptySeq
<1>7. Head(s) = s[1]
  BY <1>1, <1>6
<1>8. t = Tail(s)
  BY <1>1, <1>3, <1>4, <1>6, HeadTailProperties, SeqEqual
<1> QED BY <1>5, <1>6, <1>7, <1>8 DEF s, t

(* The contents of the FIFO: a sequence whose length is the status. *)
LEMMA ContentsProperties ==
  ASSUME TypeOK
  PROVE  /\ Contents \in Seq(Data)
         /\ Len(Contents) = Used
         /\ Used \in 0 .. Size
<1>1. Used \in 0 .. Size
  BY DEF TypeOK, Used
<1> QED BY <1>1, RingSeqType DEF Contents, TypeOK

LEMMA PutAppends ==
  ASSUME IInv, NEW d \in Data, Put(d)
  PROVE  Contents' = Append(Contents, d)
<1>1. Used \in 0 .. Size - 1 /\ Used' = Used + 1
  BY DEF IInv, TypeOK, Put, Used
<1>2. p = Place(q, Used)
  BY <1>1 DEF IInv, RingInv
<1>3. buf' = [buf EXCEPT ![Place(q, Used)] = d] /\ q' = q
  BY <1>2 DEF Put
<1>4. Contents' = RingSeq(buf', q', Used')
  BY DEF Contents, RingSeq, Place
<1> QED BY <1>1, <1>3, <1>4, RingAppend DEF Contents, IInv, TypeOK

LEMMA GetTakes ==
  ASSUME IInv, Get
  PROVE  /\ Contents # << >>
         /\ ret' = Head(Contents)
         /\ Contents' = Tail(Contents)
<1>1. Used \in 1 .. Size /\ Used' = Used - 1
  BY DEF IInv, TypeOK, Get, Used
<1>2. buf' = buf /\ q' = Step(q) /\ ret' = buf[q]
  BY DEF Get
<1>3. Contents' = RingSeq(buf', q', Used')
  BY DEF Contents, RingSeq, Place
<1> QED BY <1>1, <1>2, <1>3, RingTail DEF Contents, IInv, TypeOK

(* The ring buffer of FIFO.C is a bounded queue: nothing is lost, overtaken
   or handed out twice, whatever the size of the buffer. *)
THEOREM FifoIsAQueue == Spec => QueueSpec
<1> USE DEF SLEEPING, RUNNING, FLAGS_OVERRUN
<1>1. Init => Queue!QInit
  <2> SUFFICES ASSUME Init PROVE Queue!QInit
    OBVIOUS
  <2>1. TypeOK
    BY DEF Init, TypeOK, Index
  <2>2. Used = 0
    BY DEF Init, Used
  <2>3. Contents = << >>
    BY <2>1, <2>2, ContentsProperties, EmptySeq
  <2> QED BY <2>3 DEF Init, Queue!QInit
<1>2. IInv /\ IInv' /\ [Next]_vars => [Queue!QNext]_(Queue!qvars)
  <2> SUFFICES ASSUME IInv, IInv', [Next]_vars
               PROVE  [Queue!QNext]_(Queue!qvars)
    OBVIOUS
  <2>1. TypeOK /\ TypeOK'
    BY DEF IInv
  <2>2. Contents \in Seq(Data) /\ Len(Contents) = Used /\ Used \in 0 .. Size
    BY <2>1, ContentsProperties
  <2>3. Contents = << >> <=> Used = 0
    BY <2>2, EmptySeq
  <2>4. buf' = buf /\ q' = q /\ free' = free => Contents' = Contents
    BY DEF Contents, RingSeq, Place, Used
  <2>5. ASSUME NEW d \in Data, Put(d)
        PROVE  Queue!PutAccepted(d)
    <3>1. Contents' = Append(Contents, d)
      BY <2>1, <2>5, PutAppends
    <3>2. Len(Contents) < Size
      BY <2>1, <2>2, <2>5 DEF Put, Used, TypeOK
    <3>3. tflags' = RUNNING
      BY <2>5 DEF Put, IInv, NoOwner
    <3> QED BY <2>5, <3>1, <3>2, <3>3 DEF Put, Queue!PutAccepted
  <2>6. CASE PutFull
    BY <2>1, <2>2, <2>4, <2>6 DEF PutFull, Queue!PutRefused, Used, TypeOK, Queue!QNext
  <2>7. CASE Get
    BY <2>1, <2>7, GetTakes DEF Get, Queue!Take, Queue!QNext
  <2>8. CASE GetEmpty
    BY <2>1, <2>3, <2>4, <2>8 DEF GetEmpty, Queue!TakeNothing, Queue!QNext, Used, TypeOK
  <2>9. CASE Status
    BY <2>2, <2>4, <2>9 DEF Status, Queue!Count, Queue!QNext, Used
  <2>10. CASE Sleep
    BY <2>3, <2>4, <2>10 DEF Sleep, Queue!OwnerSleeps, Queue!QNext, Used
  <2>11. CASE Wake
    BY <2>4, <2>11 DEF Wake, Queue!OwnerWoken, Queue!QNext
  <2>12. CASE UNCHANGED vars
    BY <2>4, <2>12 DEF vars, Queue!qvars
  <2> QED
    BY <2>5, <2>6, <2>7, <2>8, <2>9, <2>10, <2>11, <2>12 DEF Next, Queue!QNext
<1>3. QED
  BY <1>1, <1>2, FifoInvariant, PTL DEF Spec, QueueSpec, Queue!QSpec

(* No lost wakeup, for every size: whenever the owner sleeps its FIFO is
   empty. *)
THEOREM FifoNoSleepOnData == Spec => []NoSleepOnData
BY FifoInvariant, PTL DEF IInv

-----------------------------------------------------------------------------
\* The dialogue with the keyboard.

USE KeyboardAssumption

kvars == <<vars, main, outside>>

\* The bytes for the keyboard.
Bytes == {LED} \cup {Lights(S) : S \in SUBSET Locks}

\* The datum e is in the sequence c.
Has(c, e) == \E i \in 1 .. Len(c) : c[i] = e

\* One answer at most is in the sequence c, or none.
NoAnswer(c) == ~Has(c, ACK) /\ ~Has(c, RESEND)
OneAnswer(c) ==
  \A i, j \in 1 .. Len(c) :
    c[i] \in {ACK, RESEND} /\ c[j] \in {ACK, RESEND} => i = j

\* The answer e is what HariMain works on, or on its way.
InHand(e) == pc = "handle" /\ datum = e
Coming(e) == InHand(e) \/ Has(Contents, e)

KTypes ==
  /\ pc \in {"top", "test", "handle"}
  /\ keycmd \in Seq(Bytes) /\ Len(keycmd) <= KeycmdSize
  /\ keycmd_wait \in Bytes \cup {NONE} /\ wire \in Bytes \cup {NONE}
  /\ key_leds \subseteq Locks /\ option \in BOOLEAN

\* One byte at most is without its answer, the one HariMain waits for.
OneByte ==
  /\ OneAnswer(Contents)
  /\ InHand(ACK) \/ InHand(RESEND) => NoAnswer(Contents)
  /\ wire # NONE => wire = keycmd_wait /\ ~Coming(ACK) /\ ~Coming(RESEND)
  /\ keycmd_wait = NONE => ~Coming(ACK) /\ ~Coming(RESEND)
  /\ NothingLost /\ keycmd_wait # NONE => wire # NONE \/ Coming(ACK) \/ Coming(RESEND)

\* Lights in keycmd have KEYCMD_LED in front of them, or it was the last byte
\* sent.
Pairs ==
  /\ \A i \in 2 .. Len(keycmd) : keycmd[i] # LED => keycmd[i - 1] = LED
  /\ keycmd # << >> /\ keycmd[1] # LED
       => keycmd_wait = LED \/ (keycmd_wait = NONE /\ option)
  /\ keycmd_wait = LED /\ Coming(ACK) => option
  /\ keycmd_wait \notin {LED, NONE} /\ (wire # NONE \/ Coming(RESEND)) => option

\* HariMain has sent what it could when it tests its FIFO.
Sent ==
  /\ pc = "test" => keycmd = << >> \/ keycmd_wait # NONE
  /\ tflags = SLEEPING => pc = "top" /\ (keycmd = << >> \/ keycmd_wait # NONE)

KInv == KTypes /\ OneByte /\ Pairs /\ Sent

-----------------------------------------------------------------------------
(* What is in a sequence after a datum is appended. *)
LEMMA HasAppend ==
  ASSUME NEW c \in Seq(Data), NEW d \in Data
  PROVE  /\ \A e : Has(Append(c, d), e) <=> Has(c, e) \/ d = e
         /\ OneAnswer(c) /\ (d \in {ACK, RESEND} => NoAnswer(c)) => OneAnswer(Append(c, d))
<1> DEFINE s == Append(c, d)
<1>1. /\ Len(c) \in Nat /\ Len(s) = Len(c) + 1
      /\ \A i \in 1 .. Len(c) : s[i] = c[i]
      /\ s[Len(c) + 1] = d
  OBVIOUS
<1> HIDE DEF s
<1>2. ASSUME NEW e
      PROVE  Has(s, e) <=> Has(c, e) \/ d = e
  <2>1. ASSUME Has(s, e)
        PROVE  Has(c, e) \/ d = e
    <3>1. PICK i \in 1 .. Len(s) : s[i] = e
      BY <2>1 DEF Has
    <3>2. i \in 1 .. Len(c) \/ i = Len(c) + 1
      BY <1>1
    <3> QED BY <1>1, <3>1, <3>2 DEF Has
  <2>2. ASSUME Has(c, e)
        PROVE  Has(s, e)
    <3>1. PICK i \in 1 .. Len(c) : c[i] = e
      BY <2>2 DEF Has
    <3>2. i \in 1 .. Len(s) /\ s[i] = e
      BY <1>1, <3>1
    <3> QED BY <3>2 DEF Has
  <2>3. ASSUME d = e
        PROVE  Has(s, e)
    <3>1. Len(c) + 1 \in 1 .. Len(s) /\ s[Len(c) + 1] = e
      BY <1>1, <2>3
    <3> QED BY <3>1 DEF Has
  <2> QED BY <2>1, <2>2, <2>3
<1>3. ASSUME OneAnswer(c), d \in {ACK, RESEND} => NoAnswer(c)
      PROVE  OneAnswer(s)
  <2> SUFFICES ASSUME NEW i \in 1 .. Len(s), NEW j \in 1 .. Len(s),
                      s[i] \in {ACK, RESEND}, s[j] \in {ACK, RESEND}
               PROVE  i = j
    BY DEF OneAnswer
  <2>1. CASE i \in 1 .. Len(c) /\ j \in 1 .. Len(c)
    BY <1>1, <1>3, <2>1 DEF OneAnswer
  <2>2. CASE i = Len(c) + 1 /\ j = Len(c) + 1
    BY <2>2
  <2>3. ASSUME d \in {ACK, RESEND}
        PROVE  \A k \in 1 .. Len(c) : c[k] \notin {ACK, RESEND}
    BY <1>3, <2>3 DEF NoAnswer, Has
  <2>4. CASE i \in 1 .. Len(c) /\ j = Len(c) + 1
    BY <1>1, <2>3, <2>4
  <2>5. CASE i = Len(c) + 1 /\ j \in 1 .. Len(c)
    BY <1>1, <2>3, <2>5
  <2> QED BY <1>1, <2>1, <2>2, <2>4, <2>5
<1> QED BY <1>2, <1>3 DEF s

(* And after the first is taken. *)
LEMMA HasTail ==
  ASSUME NEW c \in Seq(Data), c # << >>
  PROVE  /\ \A e : Has(c, e) <=> Head(c) = e \/ Has(Tail(c), e)
         /\ OneAnswer(c) => OneAnswer(Tail(c))
         /\ OneAnswer(c) /\ Head(c) \in {ACK, RESEND} => NoAnswer(Tail(c))
<1> DEFINE s == Tail(c)
<1>1. /\ Len(c) \in Nat /\ Len(c) > 0 /\ Len(s) = Len(c) - 1
      /\ \A i \in 1 .. Len(s) : s[i] = c[i + 1]
      /\ Head(c) = c[1]
  <2>1. s \in Seq(Data) /\ Len(s) = Len(c) - 1 /\ \A i \in 1 .. Len(s) : s[i] = c[i + 1]
    BY HeadTailProperties
  <2>2. Len(c) \in Nat /\ Len(c) > 0
    BY EmptySeq
  <2> QED BY <2>1, <2>2
<1> HIDE DEF s
<1>2. ASSUME NEW e
      PROVE  Has(c, e) <=> Head(c) = e \/ Has(s, e)
  <2>1. ASSUME Has(c, e)
        PROVE  Head(c) = e \/ Has(s, e)
    <3>1. PICK i \in 1 .. Len(c) : c[i] = e
      BY <2>1 DEF Has
    <3>2. CASE i = 1
      BY <1>1, <3>1, <3>2
    <3>3. CASE i # 1
      <4>1. i - 1 \in 1 .. Len(s) /\ s[i - 1] = e
        BY <1>1, <3>1, <3>3
      <4> QED BY <4>1 DEF Has
    <3> QED BY <3>2, <3>3
  <2>2. ASSUME Head(c) = e
        PROVE  Has(c, e)
    <3>1. 1 \in 1 .. Len(c)
      BY <1>1
    <3> QED BY <1>1, <2>2, <3>1 DEF Has
  <2>3. ASSUME Has(s, e)
        PROVE  Has(c, e)
    <3>1. PICK i \in 1 .. Len(s) : s[i] = e
      BY <2>3 DEF Has
    <3>2. i + 1 \in 1 .. Len(c) /\ c[i + 1] = e
      BY <1>1, <3>1
    <3> QED BY <3>2 DEF Has
  <2> QED BY <2>1, <2>2, <2>3
<1>3. ASSUME OneAnswer(c)
      PROVE  OneAnswer(s)
  <2> SUFFICES ASSUME NEW i \in 1 .. Len(s), NEW j \in 1 .. Len(s),
                      s[i] \in {ACK, RESEND}, s[j] \in {ACK, RESEND}
               PROVE  i = j
    BY DEF OneAnswer
  <2>1. i + 1 \in 1 .. Len(c) /\ j + 1 \in 1 .. Len(c)
    BY <1>1
  <2>2. i + 1 = j + 1
    BY <1>1, <1>3, <2>1 DEF OneAnswer
  <2> QED BY <2>2
<1>4. ASSUME OneAnswer(c), Head(c) \in {ACK, RESEND}
      PROVE  NoAnswer(s)
  <2>1. ASSUME NEW i \in 1 .. Len(s)
        PROVE  s[i] \notin {ACK, RESEND}
    <3>1. i + 1 \in 1 .. Len(c) /\ 1 \in 1 .. Len(c) /\ i + 1 # 1
      BY <1>1
    <3> QED BY <1>1, <1>4, <3>1 DEF OneAnswer
  <2> QED BY <2>1 DEF NoAnswer, Has
<1> QED BY <1>2, <1>3, <1>4 DEF s
(* What an interrupt does to the FIFO of HariMain. *)
LEMMA InterruptPuts ==
  ASSUME IInv, NEW d \in Data, Interrupt(d)
  PROVE  /\ \/ /\ flags' = flags
               /\ \A e : Has(Contents', e) <=> Has(Contents, e) \/ d = e
            \/ /\ ~NothingLost'
               /\ \A e : Has(Contents', e) <=> Has(Contents, e)
         /\ OneAnswer(Contents) /\ (d \in {ACK, RESEND} => NoAnswer(Contents))
              => OneAnswer(Contents')
         /\ tflags' = SLEEPING => tflags = SLEEPING
<1>1. Contents \in Seq(Data)
  BY ContentsProperties DEF IInv
<1>2. CASE Put(d)
  <2>1. Contents' = Append(Contents, d)
    BY <1>2, PutAppends
  <2>2. flags' = flags /\ (tflags' = SLEEPING => tflags = SLEEPING)
    BY <1>2 DEF Put, SLEEPING, RUNNING
  <2> QED BY <1>1, <2>1, <2>2, HasAppend
<1>3. CASE PutFull
  <2>1. Contents' = Contents
    BY <1>3 DEF PutFull, Contents, RingSeq, Place, Used
  <2>2. ~NothingLost' /\ tflags' = tflags
    BY <1>3 DEF PutFull, NothingLost
  <2> QED BY <2>1, <2>2
<1> QED BY <1>2, <1>3 DEF Interrupt

(* What HariMain takes out of it. *)
LEMMA GetReads ==
  ASSUME IInv, Get
  PROVE  /\ \A e : Has(Contents, e) <=> ret' = e \/ Has(Contents', e)
         /\ OneAnswer(Contents) => OneAnswer(Contents')
         /\ OneAnswer(Contents) /\ ret' \in {ACK, RESEND} => NoAnswer(Contents')
<1>1. Contents \in Seq(Data) /\ Contents # << >>
  BY ContentsProperties, GetTakes DEF IInv
<1>2. ret' = Head(Contents) /\ Contents' = Tail(Contents)
  BY GetTakes
<1> QED BY <1>1, <1>2, HasTail

(* The bytes for the keyboard and the data of the FIFO are distinct. *)
LEMMA BytesDiffer ==
  /\ LED # NONE /\ LED \in Bytes /\ NONE \notin Bytes
  /\ \A b \in Bytes : b # LED => b[1] = "lights" /\ b # NONE
  /\ \A b \in Bytes \cup {NONE} : b[1] = "lights" => b \notin {LED, NONE}
  /\ \A S \in SUBSET Locks : Lights(S) \in Bytes /\ Lights(S) # LED
BY DEF Bytes, LED, NONE, Lights

LEMMA DataDiffer ==
  /\ ACK \in Data /\ RESEND \in Data /\ BYTE \in Data /\ Locks \subseteq Data
  /\ ACK # RESEND /\ BYTE \notin {ACK, RESEND} /\ BYTE \notin Locks
  /\ \A l \in Locks : l \notin {ACK, RESEND}
  /\ 0 \notin {ACK, RESEND}
<1>1. /\ ACK # RESEND /\ BYTE \notin {ACK, RESEND} /\ BYTE \notin Locks
      /\ \A l \in Locks : l \notin {ACK, RESEND}
      /\ 0 \notin {ACK, RESEND}
  BY DEF ACK, RESEND, BYTE
<1> QED BY <1>1

-----------------------------------------------------------------------------
(* HariMain and the interrupts do to the FIFO what Fifo says. *)
LEMMA StepIsFifo ==
  ASSUME [KNext]_kvars
  PROVE  [Next]_vars
<1> USE DataDiffer DEF Next
<1>1. ASSUME NEW l \in Locks, PressLock(l) PROVE Next
  BY <1>1 DEF PressLock, Interrupt
<1>2. CASE OtherByte
  BY <1>2 DEF OtherByte, Interrupt
<1>3. CASE Accept
  BY <1>3 DEF Accept, Interrupt
<1>4. CASE Refuse
  BY <1>4 DEF Refuse, Interrupt
<1>5. CASE Send
  BY <1>5 DEF Send
<1>6. CASE GoToSleep
  BY <1>6 DEF GoToSleep
<1>7. CASE Take
  BY <1>7 DEF Take
<1>8. CASE Handle
  BY <1>8 DEF Handle
<1>9. CASE UNCHANGED kvars
  BY <1>9 DEF kvars
<1> QED BY <1>1, <1>2, <1>3, <1>4, <1>5, <1>6, <1>7, <1>8, <1>9 DEF KNext, HariMain

(* A datum that is no answer changes nothing of what is due. *)
LEMMA OtherDatum ==
  ASSUME IInv, KInv, NEW d \in Data \ {ACK, RESEND}, Interrupt(d),
         UNCHANGED <<main, wire, option>>
  PROVE  KInv'
<1>1. UNCHANGED <<pc, datum, keycmd, keycmd_wait, key_leds, wire, option>>
  BY DEF main
<1>2. /\ Has(Contents', ACK) <=> Has(Contents, ACK)
      /\ Has(Contents', RESEND) <=> Has(Contents, RESEND)
      /\ OneAnswer(Contents) => OneAnswer(Contents')
      /\ NothingLost' => NothingLost
      /\ tflags' = SLEEPING => tflags = SLEEPING
  BY InterruptPuts DEF NothingLost
<1>3. KTypes'
  BY <1>1 DEF KInv, KTypes
<1>4. OneByte'
  BY <1>1, <1>2 DEF KInv, OneByte, NoAnswer, InHand, Coming
<1>5. Pairs'
  BY <1>1, <1>2 DEF KInv, Pairs, InHand, Coming
<1>6. Sent'
  BY <1>1, <1>2 DEF KInv, Sent
<1> QED BY <1>3, <1>4, <1>5, <1>6 DEF KInv

(* The keyboard answers the byte HariMain waits for. *)
LEMMA AnswerKeeps ==
  ASSUME IInv, KInv, NEW d \in {ACK, RESEND}, Interrupt(d),
         wire # NONE, wire' = NONE, UNCHANGED main,
         option' \in BOOLEAN,
         d = ACK => option' = (wire = LED),
         d = RESEND => option' = option
  PROVE  KInv'
<1>1. UNCHANGED <<pc, datum, keycmd, keycmd_wait, key_leds>>
  BY DEF main
<1>2. /\ wire = keycmd_wait
      /\ ~InHand(ACK) /\ ~InHand(RESEND) /\ ~Has(Contents, ACK) /\ ~Has(Contents, RESEND)
  BY DEF KInv, OneByte, Coming
<1>3. /\ Has(Contents', ACK) => d = ACK
      /\ Has(Contents', RESEND) => d = RESEND
      /\ OneAnswer(Contents')
      /\ NothingLost' => Has(Contents', d)
      /\ tflags' = SLEEPING => tflags = SLEEPING
  <2>1. d \in Data
    BY DataDiffer
  <2>2. OneAnswer(Contents) /\ NoAnswer(Contents)
    BY <1>2 DEF KInv, OneByte, NoAnswer
  <2> QED BY <1>2, <2>1, <2>2, InterruptPuts
<1>4. ~InHand(ACK)' /\ ~InHand(RESEND)'
  BY <1>1, <1>2 DEF InHand
<1>5. KTypes'
  BY <1>1 DEF KInv, KTypes
<1>6. OneByte'
  <2>1. OneAnswer(Contents)' /\ wire' = NONE /\ ~(InHand(ACK) \/ InHand(RESEND))'
    BY <1>3, <1>4
  <2>2. keycmd_wait' # NONE
    BY <1>1, <1>2
  <2>3. NothingLost' => Coming(ACK)' \/ Coming(RESEND)'
    BY <1>3 DEF Coming
  <2> QED BY <2>1, <2>2, <2>3 DEF OneByte
<1>7. Pairs'
  <2>1. keycmd_wait' = LED /\ Coming(ACK)' => option'
    BY <1>1, <1>2, <1>3, <1>4 DEF Coming
  <2>2. keycmd_wait' \notin {LED, NONE} /\ (wire' # NONE \/ Coming(RESEND)') => option'
    BY <1>1, <1>2, <1>3, <1>4, DataDiffer DEF Coming, KInv, Pairs
  <2>3. keycmd_wait # NONE
    BY <1>2
  <2>4. keycmd # << >> /\ keycmd[1] # LED => keycmd_wait = LED
    BY <2>3 DEF KInv, Pairs
  <2>5. \A i \in 2 .. Len(keycmd) : keycmd[i] # LED => keycmd[i - 1] = LED
    BY DEF KInv, Pairs
  <2> QED BY <1>1, <2>1, <2>2, <2>4, <2>5 DEF Pairs
<1>8. Sent'
  BY <1>1, <1>3 DEF KInv, Sent
<1> QED BY <1>5, <1>6, <1>7, <1>8 DEF KInv

(* HariMain sends the oldest byte of keycmd when no answer is awaited. *)
LEMMA SendKeeps ==
  ASSUME KInv, Send
  PROVE  KInv'
<1>1. /\ pc = "top" /\ pc' = "test" /\ tflags = RUNNING
      /\ UNCHANGED <<datum, key_leds, option>> /\ UNCHANGED vars
  BY DEF Send
<1>2. Contents' = Contents /\ flags' = flags /\ tflags' = tflags
  BY <1>1 DEF vars, Contents, RingSeq, Place, Used
<1>3. ~InHand(ACK) /\ ~InHand(RESEND) /\ ~InHand(ACK)' /\ ~InHand(RESEND)'
  BY <1>1 DEF InHand
<1>4. CASE keycmd # << >> /\ keycmd_wait = NONE
  <2>1. keycmd_wait' = Head(keycmd) /\ wire' = Head(keycmd) /\ keycmd' = Tail(keycmd)
    BY <1>4 DEF Send
  <2>2. /\ keycmd \in Seq(Bytes) /\ Len(keycmd) \in Nat /\ Len(keycmd) > 0
        /\ Head(keycmd) = keycmd[1] /\ Head(keycmd) \in Bytes
        /\ Tail(keycmd) \in Seq(Bytes) /\ Len(Tail(keycmd)) = Len(keycmd) - 1
        /\ \A i \in 1 .. Len(Tail(keycmd)) : Tail(keycmd)[i] = keycmd[i + 1]
    <3>1. keycmd \in Seq(Bytes)
      BY DEF KInv, KTypes
    <3>2. Len(keycmd) \in Nat /\ Len(keycmd) > 0 /\ 1 \in 1 .. Len(keycmd)
      BY <1>4, <3>1, EmptySeq
    <3>3. Head(keycmd) = keycmd[1] /\ keycmd[1] \in Bytes
      BY <3>1, <3>2
    <3>4. /\ Tail(keycmd) \in Seq(Bytes) /\ Len(Tail(keycmd)) = Len(keycmd) - 1
          /\ \A i \in 1 .. Len(Tail(keycmd)) : Tail(keycmd)[i] = keycmd[i + 1]
      BY <1>4, <3>1, HeadTailProperties
    <3> QED BY <3>1, <3>2, <3>3, <3>4
  <2>3. KTypes'
    <3>1. Len(keycmd') <= KeycmdSize
      BY <2>1, <2>2 DEF KInv, KTypes
    <3>2. keycmd' \in Seq(Bytes) /\ keycmd_wait' \in Bytes /\ wire' \in Bytes
      BY <2>1, <2>2
    <3> QED BY <1>1, <3>1, <3>2 DEF KInv, KTypes
  <2>4. OneByte'
    <3>1. keycmd_wait' # NONE /\ wire' # NONE /\ wire' = keycmd_wait'
      BY <2>1, <2>2, BytesDiffer
    <3>2. ~Has(Contents, ACK) /\ ~Has(Contents, RESEND) /\ OneAnswer(Contents)
      BY <1>4 DEF KInv, OneByte, Coming
    <3> QED BY <1>2, <1>3, <3>1, <3>2 DEF OneByte, Coming
  <2>5. Pairs'
    <3>1. /\ \A i \in 2 .. Len(keycmd) : keycmd[i] # LED => keycmd[i - 1] = LED
          /\ keycmd[1] # LED => option
      BY <1>4, BytesDiffer DEF KInv, Pairs
    <3>2. ASSUME NEW i \in 2 .. Len(Tail(keycmd)), Tail(keycmd)[i] # LED
          PROVE  Tail(keycmd)[i - 1] = LED
      <4>1. /\ i + 1 \in 2 .. Len(keycmd) /\ keycmd[i + 1] # LED
            /\ i - 1 \in 1 .. Len(Tail(keycmd)) /\ (i - 1) + 1 = i /\ (i + 1) - 1 = i
        BY <2>2, <3>2
      <4>2. keycmd[i] = LED
        BY <3>1, <4>1
      <4> QED BY <2>2, <4>1, <4>2
    <3>3. ASSUME Tail(keycmd) # << >>, Tail(keycmd)[1] # LED
          PROVE  keycmd[1] = LED
      <4>1. Len(Tail(keycmd)) > 0
        BY <2>2, <3>3, EmptySeq
      <4>2. 1 \in 1 .. Len(Tail(keycmd)) /\ 2 \in 2 .. Len(keycmd) /\ 2 - 1 = 1 /\ 1 + 1 = 2
        BY <2>2, <4>1
      <4>3. keycmd[2] # LED
        BY <2>2, <3>3, <4>2
      <4> QED BY <3>1, <4>2, <4>3
    <3>4. ~Has(Contents, ACK)
      BY <1>4 DEF KInv, OneByte, Coming
    <3>5. keycmd_wait' = LED /\ Coming(ACK)' => option'
      BY <1>2, <1>3, <3>4 DEF Coming
    <3>6. keycmd_wait' # LED => option'
      BY <1>1, <2>1, <2>2, <3>1
    <3> QED BY <2>1, <2>2, <3>2, <3>3, <3>5, <3>6 DEF Pairs
  <2>6. Sent'
    <3>1. keycmd_wait' # NONE
      BY <2>1, <2>2, BytesDiffer
    <3>2. tflags' # SLEEPING
      BY <1>1, <1>2 DEF SLEEPING, RUNNING
    <3> QED BY <3>1, <3>2 DEF Sent
  <2> QED BY <2>3, <2>4, <2>5, <2>6 DEF KInv
<1>5. CASE ~(keycmd # << >> /\ keycmd_wait = NONE)
  <2>1. UNCHANGED <<keycmd_wait, wire, keycmd>>
    BY <1>5 DEF Send
  <2>2. KTypes'
    BY <1>1, <2>1 DEF KInv, KTypes
  <2>3. OneByte'
    BY <1>2, <1>3, <2>1 DEF KInv, OneByte, Coming, NothingLost
  <2>4. Pairs'
    BY <1>1, <1>2, <1>3, <2>1 DEF KInv, Pairs, Coming
  <2>5. Sent'
    BY <1>1, <1>2, <1>5, <2>1 DEF Sent, SLEEPING, RUNNING
  <2> QED BY <2>2, <2>3, <2>4, <2>5 DEF KInv
<1> QED BY <1>4, <1>5
(* HariMain sleeps, or takes a datum that it then works on. *)
LEMMA SleepKeeps ==
  ASSUME KInv, GoToSleep
  PROVE  KInv'
<1>1. /\ pc = "test" /\ pc' = "top" /\ UNCHANGED <<buf, p, q, free, flags, ret>>
      /\ UNCHANGED <<datum, keycmd, keycmd_wait, key_leds, wire, option>>
  BY DEF GoToSleep, Sleep, outside
<1>2. Contents' = Contents /\ flags' = flags
  BY <1>1 DEF Contents, RingSeq, Place, Used
<1>3. ~InHand(ACK) /\ ~InHand(RESEND) /\ ~InHand(ACK)' /\ ~InHand(RESEND)'
  BY <1>1 DEF InHand
<1>4. KTypes'
  BY <1>1 DEF KInv, KTypes
<1>5. OneByte'
  BY <1>1, <1>2, <1>3 DEF KInv, OneByte, Coming, NothingLost
<1>6. Pairs'
  BY <1>1, <1>2, <1>3 DEF KInv, Pairs, Coming
<1>7. Sent'
  BY <1>1 DEF KInv, Sent
<1> QED BY <1>4, <1>5, <1>6, <1>7 DEF KInv

LEMMA TakeKeeps ==
  ASSUME IInv, KInv, Take
  PROVE  KInv'
<1>1. /\ pc = "test" /\ pc' = "handle" /\ tflags = RUNNING /\ Get /\ datum' = ret'
      /\ UNCHANGED <<keycmd, keycmd_wait, key_leds, wire, option>>
  BY DEF Take, outside
<1>2. flags' = flags /\ tflags' = tflags
  BY <1>1 DEF Get
<1>3. /\ Has(Contents, ACK) <=> datum' = ACK \/ Has(Contents', ACK)
      /\ Has(Contents, RESEND) <=> datum' = RESEND \/ Has(Contents', RESEND)
      /\ OneAnswer(Contents')
      /\ datum' \in {ACK, RESEND} => NoAnswer(Contents')
  BY <1>1, GetReads DEF KInv, OneByte
<1>4. /\ Coming(ACK)' <=> Coming(ACK)
      /\ Coming(RESEND)' <=> Coming(RESEND)
  BY <1>1, <1>3 DEF Coming, InHand
<1>5. KTypes'
  BY <1>1 DEF KInv, KTypes
<1>6. OneByte'
  <2>1. InHand(ACK)' \/ InHand(RESEND)' => NoAnswer(Contents)'
    BY <1>1, <1>3 DEF InHand
  <2>2. OneAnswer(Contents)'
    BY <1>3
  <2> QED BY <1>1, <1>2, <1>4, <2>1, <2>2 DEF KInv, OneByte, NothingLost
<1>7. Pairs'
  BY <1>1, <1>4 DEF KInv, Pairs
<1>8. Sent'
  BY <1>1, <1>2 DEF Sent, SLEEPING, RUNNING
<1> QED BY <1>5, <1>6, <1>7, <1>8 DEF KInv

(* The two puts into keycmd add KEYCMD_LED and then the lights, or as much of
   them as there is room for. *)
LEMMA PutTwoAdds ==
  ASSUME KTypes, NEW on \in Bytes, PutTwo(on)
  PROVE  /\ keycmd' \in Seq(Bytes) /\ Len(keycmd') <= KeycmdSize
         /\ Len(keycmd') >= Len(keycmd)
         /\ \A i \in 1 .. Len(keycmd) : keycmd'[i] = keycmd[i]
         /\ Len(keycmd') > Len(keycmd) => keycmd'[Len(keycmd) + 1] = LED
         /\ Len(keycmd') <= Len(keycmd) + 2
<1> DEFINE room == KeycmdSize - Len(keycmd)
           m == IF room < 2 THEN room ELSE 2
           added == SubSeq(<<LED, on>>, 1, m)
<1>1. /\ keycmd \in Seq(Bytes) /\ Len(keycmd) \in Nat /\ Len(keycmd) <= KeycmdSize
      /\ KeycmdSize \in Nat
  BY DEF KTypes
<1>2. keycmd' = keycmd \o added
  BY DEF PutTwo
<1>3. m \in 0 .. 2 /\ Len(keycmd) + m <= KeycmdSize
  BY <1>1
<1> HIDE DEF m
<1>4. <<LED, on>> \in Seq(Bytes) /\ Len(<<LED, on>>) = 2 /\ <<LED, on>>[1] = LED
  BY BytesDiffer
<1>5. /\ added \in Seq(Bytes) /\ Len(added) = m
      /\ m > 0 => added[1] = LED
  BY <1>3, <1>4
<1> HIDE DEF added
<1>6. /\ keycmd' \in Seq(Bytes) /\ Len(keycmd') = Len(keycmd) + m
      /\ \A i \in 1 .. Len(keycmd) : keycmd'[i] = keycmd[i]
  BY <1>1, <1>2, <1>3, <1>5
<1>7. m > 0 => keycmd'[Len(keycmd) + 1] = LED
  <2> SUFFICES ASSUME m > 0
               PROVE  keycmd'[Len(keycmd) + 1] = LED
    OBVIOUS
  <2>1. Len(keycmd) + 1 \in Len(keycmd) + 1 .. Len(keycmd) + Len(added)
    BY <1>1, <1>3, <1>5
  <2>2. keycmd'[Len(keycmd) + 1] = added[Len(keycmd) + 1 - Len(keycmd)]
    BY <1>1, <1>2, <1>5, <2>1
  <2>3. Len(keycmd) + 1 - Len(keycmd) = 1
    BY <1>1
  <2> QED BY <1>5, <2>2, <2>3
<1> QED BY <1>1, <1>3, <1>6, <1>7

(* HariMain works on a datum. *)
LEMMA HandleKeeps ==
  ASSUME KInv, Handle
  PROVE  KInv'
<1>1. /\ pc = "handle" /\ pc' = "top" /\ datum' = 0 /\ UNCHANGED option
      /\ UNCHANGED vars
      /\ HandleLock \/ HandleAck \/ HandleResend \/ HandleOther
  BY DEF Handle
<1>2. Contents' = Contents /\ flags' = flags /\ tflags' = tflags
  BY <1>1 DEF vars, Contents, RingSeq, Place, Used
<1>3. ~InHand(ACK)' /\ ~InHand(RESEND)'
  BY <1>1 DEF InHand
<1>4. tflags # SLEEPING
  BY <1>1 DEF KInv, Sent
<1>5. Sent'
  BY <1>1, <1>2, <1>4 DEF Sent
<1>6. OneAnswer(Contents)' /\ (NothingLost' <=> NothingLost)
  BY <1>2 DEF KInv, OneByte, NothingLost
<1>7. ASSUME ~InHand(ACK), ~InHand(RESEND), UNCHANGED <<keycmd_wait, wire>>
      PROVE  OneByte'
  BY <1>2, <1>3, <1>6, <1>7 DEF KInv, OneByte, Coming
<1>8. CASE HandleLock
  <2>1. /\ datum \in Locks /\ key_leds' = Toggled(key_leds, datum)
        /\ PutTwo(Lights(key_leds')) /\ UNCHANGED <<keycmd_wait, wire>>
    BY <1>8 DEF HandleLock
  <2>2. ~InHand(ACK) /\ ~InHand(RESEND)
    BY <2>1, DataDiffer DEF InHand
  <2>3. key_leds' \in SUBSET Locks
    BY <2>1 DEF Toggled, KInv, KTypes
  <2>4. Lights(key_leds') \in Bytes /\ KTypes
    BY <2>3, BytesDiffer DEF KInv
  <2>5. /\ keycmd' \in Seq(Bytes) /\ Len(keycmd') <= KeycmdSize
        /\ Len(keycmd') >= Len(keycmd)
        /\ \A i \in 1 .. Len(keycmd) : keycmd'[i] = keycmd[i]
        /\ Len(keycmd') > Len(keycmd) => keycmd'[Len(keycmd) + 1] = LED
        /\ Len(keycmd') <= Len(keycmd) + 2
    BY <2>1, <2>4, PutTwoAdds
  <2>6. KTypes'
    BY <1>1, <2>1, <2>3, <2>5 DEF KInv, KTypes
  <2>7. Pairs'
    <3>1. Len(keycmd) \in Nat /\ Len(keycmd') \in Nat
      BY <2>4, <2>5 DEF KTypes
    <3>2. ASSUME NEW i \in 2 .. Len(keycmd'), keycmd'[i] # LED
          PROVE  keycmd'[i - 1] = LED
      <4>1. CASE i <= Len(keycmd)
        <5>1. i \in 2 .. Len(keycmd) /\ i \in 1 .. Len(keycmd) /\ i - 1 \in 1 .. Len(keycmd)
          BY <3>1, <4>1
        <5> QED BY <2>5, <3>2, <5>1 DEF KInv, Pairs
      <4>2. CASE i > Len(keycmd)
        <5>1. Len(keycmd') > Len(keycmd)
          BY <3>1, <4>2
        <5>2. i # Len(keycmd) + 1
          BY <2>5, <3>2, <5>1
        <5>3. i - 1 = Len(keycmd) + 1
          BY <2>5, <3>1, <4>2, <5>2
        <5> QED BY <2>5, <5>1, <5>3
      <4> QED BY <3>1, <4>1, <4>2
    <3>3. ASSUME keycmd' # << >>, keycmd'[1] # LED
          PROVE  keycmd # << >> /\ keycmd[1] # LED
      <4>1. Len(keycmd') > 0
        BY <2>5, <3>1, <3>3, EmptySeq
      <4>2. CASE Len(keycmd) = 0
        <5>1. keycmd'[0 + 1] = LED
          BY <2>5, <4>1, <4>2
        <5> QED BY <3>3, <5>1
      <4>3. CASE Len(keycmd) # 0
        <5>1. 1 \in 1 .. Len(keycmd) /\ Len(keycmd) > 0
          BY <3>1, <4>3
        <5>2. keycmd # << >>
          BY <2>4, <4>3, EmptySeq DEF KTypes
        <5> QED BY <2>5, <3>3, <5>1, <5>2
      <4> QED BY <4>2, <4>3
    <3>4. keycmd' # << >> /\ keycmd'[1] # LED
            => keycmd_wait' = LED \/ (keycmd_wait' = NONE /\ option')
      BY <1>1, <2>1, <3>3 DEF KInv, Pairs
    <3>5. /\ Coming(ACK)' => Coming(ACK)
          /\ Coming(RESEND)' => Coming(RESEND)
      BY <1>2, <1>3 DEF Coming
    <3>6. /\ keycmd_wait' = LED /\ Coming(ACK)' => option'
          /\ keycmd_wait' \notin {LED, NONE} /\ (wire' # NONE \/ Coming(RESEND)') => option'
      BY <1>1, <2>1, <3>5 DEF KInv, Pairs
    <3> QED BY <3>2, <3>4, <3>6 DEF Pairs
  <2> QED BY <1>5, <1>7, <2>1, <2>2, <2>6, <2>7 DEF KInv
<1>9. CASE HandleAck
  <2>1. /\ datum = ACK /\ keycmd_wait' = NONE
        /\ UNCHANGED <<keycmd, key_leds, wire>>
    BY <1>9 DEF HandleAck
  <2>2. InHand(ACK) /\ NoAnswer(Contents) /\ wire = NONE
    <3>1. InHand(ACK)
      BY <1>1, <2>1 DEF InHand
    <3> QED BY <3>1 DEF KInv, OneByte, Coming
  <2>3. KTypes'
    BY <1>1, <2>1 DEF KInv, KTypes
  <2>4. OneByte'
    BY <1>2, <1>3, <1>6, <2>1, <2>2 DEF OneByte, NoAnswer, Coming
  <2>5. Pairs'
    <3>1. keycmd # << >> /\ keycmd[1] # LED => option
      <4>1. keycmd_wait = LED => option
        BY <2>2 DEF KInv, Pairs, Coming
      <4> QED BY <4>1 DEF KInv, Pairs
    <3>2. \A i \in 2 .. Len(keycmd) : keycmd[i] # LED => keycmd[i - 1] = LED
      BY DEF KInv, Pairs
    <3> QED BY <1>1, <2>1, <3>1, <3>2, BytesDiffer DEF Pairs
  <2> QED BY <1>5, <2>3, <2>4, <2>5 DEF KInv
<1>10. CASE HandleResend
  <2>1. /\ datum = RESEND /\ wire' = keycmd_wait
        /\ UNCHANGED <<keycmd, keycmd_wait, key_leds>>
    BY <1>10 DEF HandleResend
  <2>2. InHand(RESEND) /\ NoAnswer(Contents) /\ keycmd_wait # NONE
    <3>1. InHand(RESEND)
      BY <1>1, <2>1 DEF InHand
    <3> QED BY <3>1 DEF KInv, OneByte, Coming
  <2>3. KTypes'
    BY <1>1, <2>1 DEF KInv, KTypes
  <2>4. OneByte'
    BY <1>2, <1>3, <1>6, <2>1, <2>2 DEF OneByte, NoAnswer, Coming
  <2>5. Pairs'
    <3>1. keycmd_wait \notin {LED, NONE} => option
      BY <2>2 DEF KInv, Pairs, Coming
    <3>2. ~Coming(ACK)'
      BY <1>2, <1>3, <2>2 DEF NoAnswer, Coming
    <3> QED BY <1>1, <2>1, <3>1, <3>2 DEF KInv, Pairs
  <2> QED BY <1>5, <2>3, <2>4, <2>5 DEF KInv
<1>11. CASE HandleOther
  <2>1. datum = BYTE /\ UNCHANGED <<keycmd, keycmd_wait, key_leds, wire>>
    BY <1>11 DEF HandleOther
  <2>2. ~InHand(ACK) /\ ~InHand(RESEND)
    BY <2>1, DataDiffer DEF InHand
  <2>3. KTypes'
    BY <1>1, <2>1 DEF KInv, KTypes
  <2>4. Pairs'
    BY <1>1, <1>2, <1>3, <2>1, <2>2 DEF KInv, Pairs, Coming
  <2> QED BY <1>5, <1>7, <2>1, <2>2, <2>3, <2>4 DEF KInv
<1> QED BY <1>1, <1>8, <1>9, <1>10, <1>11

(* HariMain starts with nothing sent and the lights to be set. *)
LEMMA KInitHolds ==
  ASSUME KInit
  PROVE  KInv
<1>1. /\ Init /\ pc = "top" /\ datum = 0 /\ key_leds \in SUBSET Locks
      /\ keycmd = <<LED, Lights(key_leds)>> /\ keycmd_wait = NONE
      /\ wire = NONE /\ option = FALSE
  BY DEF KInit
<1>2. Contents = << >>
  <2>1. TypeOK /\ Used = 0
    BY <1>1 DEF Init, TypeOK, Index, SLEEPING, RUNNING, Used
  <2> QED BY <2>1, ContentsProperties, EmptySeq
<1>3. ~Has(Contents, ACK) /\ ~Has(Contents, RESEND) /\ OneAnswer(Contents)
  BY <1>2 DEF Has, OneAnswer
<1>4. /\ keycmd \in Seq(Bytes) /\ Len(keycmd) = 2
      /\ keycmd[1] = LED /\ keycmd[2] = Lights(key_leds)
  BY <1>1, BytesDiffer
<1>5. KTypes
  <2>1. Len(keycmd) <= KeycmdSize
    BY <1>4
  <2>2. pc \in {"top", "test", "handle"} /\ option \in BOOLEAN /\ key_leds \subseteq Locks
    BY <1>1
  <2>3. keycmd_wait = NONE /\ wire = NONE /\ keycmd \in Seq(Bytes)
    BY <1>1, <1>4
  <2> QED BY <2>1, <2>2, <2>3 DEF KTypes
<1>6. OneByte
  BY <1>1, <1>3 DEF OneByte, InHand, Coming
<1>7. Pairs
  <2>1. \A i \in 2 .. Len(keycmd) : i = 2 /\ i - 1 = 1
    BY <1>4
  <2> QED BY <1>1, <1>4, <2>1, BytesDiffer DEF Pairs
<1>8. Sent
  BY <1>1 DEF Sent, Init, SLEEPING, RUNNING
<1> QED BY <1>5, <1>6, <1>7, <1>8 DEF KInv

LEMMA KNextKeeps ==
  ASSUME IInv, KInv, [KNext]_kvars
  PROVE  KInv'
<1>1. ASSUME NEW l \in Locks, PressLock(l)
      PROVE  KInv'
  BY <1>1, OtherDatum, DataDiffer DEF PressLock
<1>2. CASE OtherByte
  BY <1>2, OtherDatum, DataDiffer DEF OtherByte, outside
<1>3. CASE Accept
  <2>1. /\ Interrupt(ACK) /\ wire # NONE /\ wire' = NONE /\ UNCHANGED main
        /\ option' = (wire = LED)
    BY <1>3 DEF Accept
  <2>2. option' \in BOOLEAN
    BY <2>1
  <2> QED BY <2>1, <2>2, AnswerKeeps, DataDiffer
<1>4. CASE Refuse
  <2>1. /\ Interrupt(RESEND) /\ wire # NONE /\ wire' = NONE /\ UNCHANGED main
        /\ option' = option
    BY <1>4 DEF Refuse
  <2>2. option' \in BOOLEAN
    BY <2>1 DEF KInv, KTypes
  <2> QED BY <2>1, <2>2, AnswerKeeps, DataDiffer
<1>5. CASE UNCHANGED kvars
  <2>1. UNCHANGED <<vars, pc, datum, keycmd, keycmd_wait, key_leds, wire, option>>
    BY <1>5 DEF kvars, main, outside
  <2>2. Contents' = Contents /\ flags' = flags /\ tflags' = tflags
    BY <2>1 DEF vars, Contents, RingSeq, Place, Used
  <2> QED BY <2>1, <2>2 DEF KInv, KTypes, OneByte, Pairs, Sent, Coming, InHand, NothingLost
<1> QED BY <1>1, <1>2, <1>3, <1>4, <1>5, SendKeeps, SleepKeeps, TakeKeeps, HandleKeeps
        DEF KNext, HariMain

-----------------------------------------------------------------------------
(* HariMain and both interrupt handlers use the FIFO as Fifo says, so what is
   proved of the FIFO holds here. *)
THEOREM KeyboardUsesFifo == KSpec => FifoSpec
<1>1. KInit => Init
  BY DEF KInit
<1>2. [KNext]_kvars => [Next]_vars
  BY StepIsFifo
<1> QED BY <1>1, <1>2, PTL DEF KSpec, FifoSpec, Spec, kvars

(* No datum of the keyboard or the mouse is overtaken or lost unless refused,
   and HariMain never sleeps while one is in its FIFO. *)
THEOREM KeyboardFifo == KSpec => QueueSpec /\ []NoSleepOnData
BY KeyboardUsesFifo, FifoIsAQueue, FifoNoSleepOnData, PTL DEF FifoSpec

(* Every state of HariMain and the keyboard satisfies the invariant. *)
THEOREM KeyboardInvariant == KSpec => []KInv
<1>1. KInit => KInv
  BY KInitHolds
<1>2. IInv /\ KInv /\ [KNext]_kvars => KInv'
  BY KNextKeeps
<1>3. KSpec => []IInv
  BY KeyboardUsesFifo, FifoInvariant, PTL DEF FifoSpec
<1> QED BY <1>1, <1>2, <1>3, PTL DEF KSpec, kvars

(* The keyboard gets lights only when it expects them, whatever is refused by
   a full keycmd and whatever is sent again. *)
THEOREM KeyboardValueAfterLed == KSpec => []ValueAfterLed
<1>1. KInv => ValueAfterLed
  <2> SUFFICES ASSUME KInv, wire[1] = "lights"
               PROVE  option
    BY DEF ValueAfterLed
  <2>1. wire \in Bytes \cup {NONE}
    BY DEF KInv, KTypes
  <2>2. wire \notin {LED, NONE}
    BY <2>1, BytesDiffer
  <2>3. wire = keycmd_wait
    BY <2>2 DEF KInv, OneByte
  <2> QED BY <2>2, <2>3 DEF KInv, Pairs
<1> QED BY <1>1, KeyboardInvariant, PTL

(* HariMain never sleeps with a byte in keycmd that it could send. *)
THEOREM KeyboardNoSleepOnCommand == KSpec => []NoSleepOnCommand
<1>1. KInv => NoSleepOnCommand
  BY DEF KInv, Sent, NoSleepOnCommand
<1> QED BY <1>1, KeyboardInvariant, PTL

(* HariMain waits for an answer exactly when one is due. *)
THEOREM KeyboardAnswerDue == KSpec => []AnswerDue
<1>1. IInv /\ KInv => AnswerDue
  <2> SUFFICES ASSUME IInv, KInv
               PROVE  AnswerDue
    OBVIOUS
  <2> DEFINE T == {i \in DOMAIN Contents : Contents[i] \in {ACK, RESEND}}
             hand == IF pc = "handle" /\ datum \in {ACK, RESEND} THEN 1 ELSE 0
             w == IF wire # NONE THEN 1 ELSE 0
  <2>1. Contents \in Seq(Data) /\ DOMAIN Contents = 1 .. Len(Contents)
    BY ContentsProperties DEF IInv
  <2>2. T = {} <=> NoAnswer(Contents)
    BY <2>1 DEF NoAnswer, Has
  <2>3. \A i, j \in T : i = j
    BY <2>1 DEF KInv, OneByte, OneAnswer
  <2>4. Answers = Cardinality(T) + hand
    BY DEF Answers
  <2>5. hand = 1 <=> InHand(ACK) \/ InHand(RESEND)
    BY DEF InHand
  <2> HIDE DEF T
  <2>6. CASE T = {}
    <3>1. Cardinality(T) = 0
      BY <2>6, FS_EmptySet
    <3>2. Answers + w = hand + w
      BY <2>4, <3>1
    <3>3. NoAnswer(Contents)
      BY <2>2, <2>6
    <3>4. hand = 1 => w = 0 /\ keycmd_wait # NONE
      BY <2>5 DEF KInv, OneByte, Coming
    <3>5. w = 1 => keycmd_wait # NONE
      BY DEF KInv, OneByte
    <3>6. NothingLost /\ keycmd_wait # NONE => w = 1 \/ hand = 1
      BY <2>5, <3>3 DEF KInv, OneByte, Coming, NoAnswer
    <3>7. hand \in {0, 1} /\ w \in {0, 1}
      OBVIOUS
    <3>8. Answers + w <= (IF keycmd_wait # NONE THEN 1 ELSE 0)
      BY <3>2, <3>4, <3>5, <3>7
    <3>9. NothingLost /\ keycmd_wait # NONE => Answers + w = 1
      BY <3>2, <3>4, <3>6, <3>7
    <3> QED BY <3>8, <3>9 DEF AnswerDue
  <2>7. CASE T # {}
    <3>1. PICK i \in T : T = {i}
      BY <2>3, <2>7
    <3>2. Cardinality(T) = 1
      BY <3>1, FS_Singleton
    <3>3. ~NoAnswer(Contents)
      BY <2>2, <2>7
    <3>4. hand = 0 /\ w = 0 /\ keycmd_wait # NONE
      BY <2>5, <3>3 DEF KInv, OneByte, Coming, NoAnswer
    <3>5. Answers + w = 1
      BY <2>4, <3>2, <3>4
    <3> QED BY <3>4, <3>5 DEF AnswerDue
  <2> QED BY <2>6, <2>7
<1>2. KSpec => []IInv
  BY KeyboardUsesFifo, FifoInvariant, PTL DEF FifoSpec
<1> QED BY <1>1, <1>2, KeyboardInvariant, PTL
=============================================================================
