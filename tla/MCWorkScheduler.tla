---------------------------- MODULE MCWorkScheduler ----------------------------
(* TLC instance of WorkScheduler: a chat and other work, of one generation of *)
(* the session or of two.                                                     *)
EXTENDS WorkScheduler
=============================================================================
