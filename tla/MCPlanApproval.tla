-------------------------- MODULE MCPlanApproval --------------------------
(* TLC instance of PlanApproval. *)
EXTENDS PlanApproval
=============================================================================
