------------------------- MODULE MCTaskScheduler -------------------------
(* TLC instance of TaskScheduler. *)
EXTENDS TaskScheduler
=============================================================================
