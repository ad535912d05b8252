-------------------------- MODULE MCCycleDetection --------------------------
(* TLC instance of CycleDetection: every graph over Node, self-loops too. *)
EXTENDS CycleDetection
=============================================================================
