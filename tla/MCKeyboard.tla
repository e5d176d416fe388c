----------------------------- MODULE MCKeyboard -----------------------------
(* One lock key; a FIFO and a command queue of three places, so that both
   overflow, keycmd between the two bytes of a pair too. *)
EXTENDS Keyboard

MCLocks == {256 + 58}
MCData == MCLocks \cup {ACK, RESEND, BYTE}
=============================================================================
