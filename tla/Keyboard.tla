------------------------------ MODULE Keyboard ------------------------------
(***************************************************************************)
(* HariMain and the devices it listens to and talks with: its loop         *)
(* around the FIFO that both interrupt handlers fill, the commands that    *)
(* set the lights of the keyboard, and the states of the lock keys.        *)
(*                                                                         *)
(* The FIFO of HariMain is Fifo; keycmd, which no task owns, is the        *)
(* bounded queue that Fifo implements.  What the data then do to windows   *)
(* and consoles is in Desktop and ConsoleInput.                            *)
(***************************************************************************)
EXTENDS Fifo, Sequences, FiniteSets

CONSTANTS
  Locks,       \* the make codes of the lock keys, of CapsLock ... ScrollLock
  KeycmdSize,  \* the places of keycmd
  MaxPresses,  \* a bound: how often a lock key goes down
  MaxErrors    \* a bound: how often the keyboard asks for a byte again

\* What the keyboard answers, as HariMain gets it from the FIFO.
ACK == 256 + 250
RESEND == 256 + 254

\* Any datum the loop only passes on: another key, a byte of the mouse.
BYTE == 512

ASSUME KeyboardAssumption ==
  /\ HasTask
  /\ Locks \subseteq {256 + 58, 256 + 69, 256 + 70}
  /\ Data = Locks \cup {ACK, RESEND, BYTE}
  /\ KeycmdSize \in Nat \ {0, 1}
  /\ MaxPresses \in Nat /\ MaxErrors \in Nat

\* A byte for the keyboard: the command KEYCMD_LED, or the lights as the set
\* of the lock keys that are on.
LED == <<"led", {}>>
Lights(S) == <<"lights", S>>
NONE == <<"none", {}>>

VARIABLES
  pc, datum,              \* where HariMain is, and i, what it works on
  keycmd, keycmd_over,    \* the data in keycmd, oldest first; its FLAGS_OVERRUN
  keycmd_wait,            \* the byte whose answer is awaited, NONE for -1
  key_leds,               \* the lock keys that are on, as HariMain knows
  wire, option, lights,   \* keyboard: a byte on its way, whether it expects the
                          \* lights after LED, the lights it shows
  locks,                  \* the lock keys that are on, as the user knows
  presses, errors         \* how many there were

main == <<pc, datum, keycmd, keycmd_over, keycmd_wait, key_leds>>
outside == <<wire, option, lights, locks, presses, errors>>

\* HariMain before its loop: the lights are to be set first.  What the buffer
\* holds before the first put is never read.
KInit ==
  /\ Init /\ \A i \in Index : buf[i] = BYTE
  /\ pc = "top" /\ datum = 0
  /\ key_leds \in SUBSET Locks
  /\ keycmd = <<LED, Lights(key_leds)>> /\ keycmd_over = FALSE
  /\ keycmd_wait = NONE
  /\ wire = NONE /\ option = FALSE /\ lights \in SUBSET Locks
  /\ locks = key_leds
  /\ presses = 0 /\ errors = 0

-----------------------------------------------------------------------------
\* The environment.  Each byte that arrives is put by inthandler21 or
\* inthandler2c.
Interrupt(d) == Put(d) \/ PutFull

Toggled(S, l) == IF l \in S THEN S \ {l} ELSE S \cup {l}

PressLock(l) ==
  /\ presses < MaxPresses /\ presses' = presses + 1
  /\ locks' = Toggled(locks, l)
  /\ Interrupt(l)
  /\ UNCHANGED <<main, wire, option, lights, errors>>

OtherByte ==
  /\ Interrupt(BYTE)
  /\ UNCHANGED <<main, outside>>

\* The keyboard takes the byte it was sent.
Accept ==
  /\ wire # NONE /\ (wire = LED \/ option)
  /\ option' = (wire = LED)
  /\ lights' = IF wire = LED THEN lights ELSE wire[2]
  /\ Interrupt(ACK)
  /\ wire' = NONE
  /\ UNCHANGED <<main, locks, presses, errors>>

\* The byte was garbled, or is no command.
Refuse ==
  /\ wire # NONE
  /\ IF wire = LED \/ option
     THEN errors < MaxErrors /\ errors' = errors + 1
     ELSE UNCHANGED errors
  /\ Interrupt(RESEND)
  /\ wire' = NONE
  /\ UNCHANGED <<main, option, lights, locks, presses>>

-----------------------------------------------------------------------------
\* Mutant of Send: it does not wait for the answer.
SendEarly ==
  /\ pc = "top" /\ tflags = RUNNING
  /\ pc' = "test"
  /\ IF keycmd # <<>>
     THEN /\ keycmd_wait' = Head(keycmd) /\ wire' = Head(keycmd)
          /\ keycmd' = Tail(keycmd)
     ELSE UNCHANGED <<keycmd_wait, wire, keycmd>>
  /\ UNCHANGED <<vars, datum, keycmd_over, key_leds,
                 option, lights, locks, presses, errors>>

\* The top of the loop: a byte is sent when no answer is awaited.
Send ==
  /\ pc = "top" /\ tflags = RUNNING
  /\ pc' = "test"
  /\ IF keycmd # <<>> /\ keycmd_wait = NONE
     THEN /\ keycmd_wait' = Head(keycmd) /\ wire' = Head(keycmd)
          /\ keycmd' = Tail(keycmd)
     ELSE UNCHANGED <<keycmd_wait, wire, keycmd>>
  /\ UNCHANGED <<vars, datum, keycmd_over, key_leds,
                 option, lights, locks, presses, errors>>

\* Nothing to do: task_sleep, from which the loop starts again.
GoToSleep ==
  /\ pc = "test" /\ Sleep
  /\ pc' = "top"
  /\ UNCHANGED <<datum, keycmd, keycmd_over, keycmd_wait, key_leds, outside>>

Take ==
  /\ pc = "test" /\ tflags = RUNNING
  /\ Get /\ datum' = ret'
  /\ pc' = "handle"
  /\ UNCHANGED <<keycmd, keycmd_over, keycmd_wait, key_leds, outside>>

\* Mutant of PutTwo: the lights are put before the command.
PutTwoReversed(on) ==
  LET room == KeycmdSize - Len(keycmd)
  IN  /\ keycmd' = keycmd \o SubSeq(<<on, LED>>, 1, IF room < 2 THEN room ELSE 2)
      /\ keycmd_over' = (keycmd_over \/ room < 2)

\* fifo32_put of KEYCMD_LED and then of the lights, into keycmd.
PutTwo(on) ==
  LET room == KeycmdSize - Len(keycmd)
  IN  /\ keycmd' = keycmd \o SubSeq(<<LED, on>>, 1, IF room < 2 THEN room ELSE 2)
      /\ keycmd_over' = (keycmd_over \/ room < 2)

HandleLock ==
  /\ datum \in Locks
  /\ key_leds' = Toggled(key_leds, datum)
  /\ PutTwo(Lights(key_leds'))
  /\ UNCHANGED <<keycmd_wait, wire>>

HandleAck ==
  /\ datum = ACK
  /\ keycmd_wait' = NONE
  /\ UNCHANGED <<keycmd, keycmd_over, key_leds, wire>>

\* Mutant of HandleResend: the byte is given up.
HandleResendGivesUp ==
  /\ datum = RESEND
  /\ keycmd_wait' = NONE
  /\ UNCHANGED <<keycmd, keycmd_over, key_leds, wire>>

HandleResend ==
  /\ datum = RESEND
  /\ wire' = keycmd_wait
  /\ UNCHANGED <<keycmd, keycmd_over, keycmd_wait, key_leds>>

\* What it does to windows and consoles is not this module's.
HandleOther ==
  /\ datum = BYTE
  /\ UNCHANGED <<keycmd, keycmd_over, keycmd_wait, key_leds, wire>>

\* Mutant of Handle: the loop goes on behind the place where it sends.
HandleOnly ==
  /\ pc = "handle" /\ pc' = "test" /\ datum' = 0
  /\ HandleLock \/ HandleAck \/ HandleResend \/ HandleOther
  /\ UNCHANGED <<vars, option, lights, locks, presses, errors>>

Handle ==
  /\ pc = "handle" /\ pc' = "top" /\ datum' = 0
  /\ HandleLock \/ HandleAck \/ HandleResend \/ HandleOther
  /\ UNCHANGED <<vars, option, lights, locks, presses, errors>>

HariMain == Send \/ GoToSleep \/ Take \/ Handle

KNext ==
  \/ HariMain
  \/ \E l \in Locks : PressLock(l)
  \/ OtherByte \/ Accept \/ Refuse

\* HariMain is alone on the highest level (task_run at BOOTPACK.C:320), and
\* the keyboard answers what it is sent.
KSpec ==
  /\ KInit /\ [][KNext]_<<vars, main, outside>>
  /\ WF_<<vars, main, outside>>(HariMain)
  /\ WF_<<vars, main, outside>>(Accept \/ Refuse)

-----------------------------------------------------------------------------
\* No datum was ever refused.
NothingLost == flags # FLAGS_OVERRUN

\* How many answers are in the FIFO or being handled.
Answers ==
  Cardinality({i \in DOMAIN Contents : Contents[i] \in {ACK, RESEND}})
    + (IF pc = "handle" /\ datum \in {ACK, RESEND} THEN 1 ELSE 0)

(* HariMain waits for an answer exactly when one is due: the byte is still on
   the wire or its one answer is on its way.  So it never sends a byte while
   the keyboard has not answered the last, and never takes an answer for
   another byte's.  An answer lost to a full FIFO leaves it waiting for ever:
   there is no timeout. *)
AnswerDue ==
  LET due == Answers + (IF wire # NONE THEN 1 ELSE 0)
  IN  /\ due <= (IF keycmd_wait # NONE THEN 1 ELSE 0)
      /\ NothingLost /\ keycmd_wait # NONE => due = 1

(* The keyboard gets the lights only when it expects them, also after keycmd
   was full and a put of a pair was refused, and after bytes were sent again.
   Lights taken for a command would be refused for ever. *)
ValueAfterLed == wire[1] = "lights" => option

(* HariMain never sleeps with a byte it could send: keycmd has no task to
   wake, so only the order of the tests in the loop ensures it. *)
NoSleepOnCommand == tflags = SLEEPING => keycmd = <<>> \/ keycmd_wait # NONE

(* When the lock keys rest, and nothing was lost, the lights end up showing
   them: every change of key_leds reaches the keyboard, whatever it asks to
   have again and whatever comes between. *)
LedsFollow ==
  <>[](lights = locks \/ ~NothingLost \/ keycmd_over)

(* HariMain and the interrupts use the FIFO as Fifo says. *)
FifoSpec == Spec
=============================================================================
