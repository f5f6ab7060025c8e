--------------------------- MODULE MC_ActiveTask ---------------------------
(* One active task with its clients. *)
EXTENDS ActiveTask
=============================================================================
