---------------------------- MODULE MCTaskBoard ----------------------------
(* TLC instance of TaskBoard. *)
EXTENDS TaskBoard
=============================================================================
