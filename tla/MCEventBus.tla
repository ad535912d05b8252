------------------------------ MODULE MCEventBus ------------------------------
(* TLC instance of EventBus: a member with one poller. *)
EXTENDS EventBus
MC_PollKind == {"poll_mailbox"}
=============================================================================
