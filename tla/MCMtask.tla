------------------------------ MODULE MCMtask ------------------------------
(* HariMain, idle and two more tasks on four levels.  A task may share the
   level of HariMain, so that tasks are removed in front of, at and behind
   the cursor of a level of three, or run below it, as consoles do. *)
EXTENDS Mtask

MCRunLevels == {1, 2}
=============================================================================
