-------------------------- MODULE MCMemberRecovery --------------------------
(* TLC instance of MemberRecovery. *)
EXTENDS MemberRecovery
=============================================================================
