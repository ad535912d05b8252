---------------------------- MODULE MCSqlTaskDao ----------------------------
(* TLC instance of SqlTaskDao. *)
EXTENDS SqlTaskDao

=============================================================================
