--------------------------- MODULE MCTeamRuntime ---------------------------
(* TLC instance of TeamRuntime. *)
EXTENDS TeamRuntime
=============================================================================
