------------------------------ MODULE MCTimer ------------------------------
(* Two timers of callers beside the sentinel and task_timer, and a counter
   whose low word wraps once. *)
EXTENDS Timer

MCTimeouts == {0, 1, 2}
MCFifos == {"console", "app"}
=============================================================================
