--------------------------- MODULE PlanApproval ---------------------------
(***************************************************************************)
(* Plans of members in plan mode (tools/task_manager.go): SubmitPlan,       *)
(* ApprovePlan and Complete of several processes over the task board, whose *)
(* operations are those of TaskBoard, and over index.json, which each call  *)
(* reads, changes and writes back without a lock.  Writing truncates the    *)
(* file first, and a reader in between sees no valid JSON; what two         *)
(* overlapping writes leave of the longer one is left out.                  *)
(*                                                                          *)
(* A call takes the board's row and the index in one step where it reads    *)
(* both before it writes either.  Each plan is submitted once.              *)
(***************************************************************************)
EXTENDS Naturals

CONSTANTS Task, Member, NoOne, Plan, NoPlan

VARIABLES status, assignee, deps, resolved,  \* the board
          author, subject,  \* the member and the task of each plan; rigid
          file,      \* "absent", "torn" or "whole"
          index,     \* what the file holds when whole: records and latest_plan_id
          told,      \* plans the leader was told of
          submits,   \* the SubmitPlan call of each plan
          review,    \* the leader's ApprovePlan call
          closing,   \* the Complete call of each task
          decided    \* how often ApprovePlan succeeded for each plan

Board == INSTANCE TaskBoard
board == <<status, assignee, deps, resolved>>
files == <<author, subject, file, index, told>>
vars == <<board, files, submits, review, closing, decided>>

Empty == [record |-> [p \in Plan |-> "none"], latest |-> [t \in Task |-> NoPlan]]
Out == [pc |-> "out", seen |-> Empty]
NoReview == [pc |-> "out", seen |-> Empty, plan |-> NoPlan, approved |-> FALSE]

Init ==
  /\ author \in [Plan -> Member] /\ subject \in [Plan -> Task]
  /\ status = [t \in Task |-> "pending"] /\ assignee = [t \in Task |-> NoOne]
  /\ deps = {} /\ resolved = {}
  /\ file = "absent" /\ index = Empty /\ told = {}
  /\ submits = [p \in Plan |-> Out] /\ review = NoReview
  /\ closing = [t \in Task |-> Out] /\ decided = [p \in Plan |-> 0]

\* writePlanIndex takes an index it cannot load for an empty one.
Loaded == IF file = "whole" THEN index ELSE Empty

\* writePlanIndex: the record becomes the latest plan of its task.
WithRecord(i, p, decision) ==
  [record |-> [i.record EXCEPT ![p] = decision],
   latest |-> [i.latest EXCEPT ![subject[p]] = p]]

Truncate == file' = "torn" /\ UNCHANGED index
Write(i) == file' = "whole" /\ index' = i
SameFile == UNCHANGED <<file, index>>

-----------------------------------------------------------------------------
(* SubmitPlan. *)

SubmitBegins(p) ==
  LET t == subject[p] IN
  /\ submits[p].pc = "out"
  /\ \/ status[t] = "pending"
     \/ status[t] = "claimed" /\ assignee[t] = author[p]
  /\ submits' = [submits EXCEPT ![p].pc = IF status[t] = "pending" THEN "claiming" ELSE "loading"]
  /\ SameFile /\ UNCHANGED <<board, told>>

SubmitClaims(p) ==
  LET t == subject[p] IN
  /\ submits[p].pc = "claiming"
  /\ \/ Board!ClaimTask(t, author[p]) /\ submits' = [submits EXCEPT ![p].pc = "loading"]
     \/ /\ status[t] # "pending" \/ assignee[t] # NoOne
        /\ UNCHANGED board
        /\ submits' = [submits EXCEPT ![p].pc = "ended"]
  /\ SameFile /\ UNCHANGED told

\* The record is written before the leader is told, and once more after it, to add
\* the id of the message.
SubmitLoads(p) ==
  /\ submits[p].pc \in {"loading", "notified"}
  /\ submits' = [submits EXCEPT ![p] =
       [pc |-> IF @.pc = "loading" THEN "opening" ELSE "reopening", seen |-> Loaded]]
  /\ SameFile /\ UNCHANGED <<board, told>>

SubmitTruncates(p) ==
  /\ submits[p].pc \in {"opening", "reopening"} /\ Truncate
  /\ submits' = [submits EXCEPT ![p].pc = IF @ = "opening" THEN "writing" ELSE "rewriting"]
  /\ UNCHANGED <<board, told>>

SubmitWrites(p) ==
  /\ submits[p].pc \in {"writing", "rewriting"}
  /\ Write(WithRecord(submits[p].seen, p, "pending"))
  /\ \E next \in IF submits[p].pc = "writing" THEN {"notified", "ended"} ELSE {"ended"} :
       /\ submits' = [submits EXCEPT ![p] = [Out EXCEPT !.pc = next]]
       /\ told' = IF next = "notified" THEN told \cup {p} ELSE told
  /\ UNCHANGED board

SubmitPlan(p) ==
  /\ SubmitBegins(p) \/ SubmitClaims(p) \/ SubmitLoads(p) \/ SubmitTruncates(p) \/ SubmitWrites(p)
  /\ UNCHANGED <<author, subject, review, closing, decided>>

-----------------------------------------------------------------------------
(* ApprovePlan. *)

ReviewBegins(p) ==
  LET t == subject[p] IN
  /\ review.pc = "out" /\ p \in told /\ file = "whole"
  /\ index.record[p] = "pending" /\ index.latest[t] = p
  /\ status[t] = "claimed" /\ assignee[t] # NoOne
  /\ \E approved \in BOOLEAN :
       review' = [pc |-> IF approved THEN "approving" ELSE "loading",
                  seen |-> Empty, plan |-> p, approved |-> approved]
  /\ SameFile /\ UNCHANGED <<board, decided>>

\* The transition on the board checks the status and nothing else.
ReviewApproves ==
  LET t == subject[review.plan] IN
  /\ review.pc = "approving"
  /\ \/ Board!ApprovePlanTask(t) /\ review' = [review EXCEPT !.pc = "loading"]
     \/ status[t] # "claimed" /\ UNCHANGED board /\ review' = NoReview
  /\ SameFile /\ UNCHANGED decided

\* updatePlanIndex gives up if it cannot load the index, whatever the board did.
ReviewLoads ==
  /\ review.pc = "loading"
  /\ review' = IF file = "whole" THEN [review EXCEPT !.pc = "opening", !.seen = index] ELSE NoReview
  /\ SameFile /\ UNCHANGED <<board, decided>>

ReviewTruncates ==
  /\ review.pc = "opening" /\ Truncate
  /\ review' = [review EXCEPT !.pc = "writing"]
  /\ UNCHANGED <<board, decided>>

ReviewWrites ==
  /\ review.pc = "writing"
  /\ Write([review.seen EXCEPT !.record[review.plan] =
              IF review.approved THEN "approve" ELSE "reject"])
  /\ decided' = [decided EXCEPT ![review.plan] = @ + 1]
  /\ review' = NoReview
  /\ UNCHANGED board

ApprovePlan ==
  /\ \/ \E p \in Plan : ReviewBegins(p)
     \/ ReviewApproves \/ ReviewLoads \/ ReviewTruncates \/ ReviewWrites
  /\ UNCHANGED <<author, subject, told, submits, closing>>

-----------------------------------------------------------------------------
(* Complete, and a task taken back. *)

CompleteBegins(t) ==
  /\ closing[t].pc = "out" /\ status[t] = "plan_approved" /\ Board!CompleteTask(t)
  /\ closing' = [closing EXCEPT ![t].pc = "loading"]
  /\ SameFile

\* The latest plan gets a new record, without a decision.
CompleteLoads(t) ==
  /\ closing[t].pc = "loading"
  /\ closing' = [closing EXCEPT ![t] =
       IF file = "whole" /\ index.latest[t] # NoPlan THEN [pc |-> "opening", seen |-> Loaded]
       ELSE [Out EXCEPT !.pc = "ended"]]
  /\ SameFile /\ UNCHANGED board

CompleteTruncates(t) ==
  /\ closing[t].pc = "opening" /\ Truncate
  /\ closing' = [closing EXCEPT ![t].pc = "writing"]
  /\ UNCHANGED board

CompleteWrites(t) ==
  /\ closing[t].pc = "writing"
  /\ Write(WithRecord(closing[t].seen, closing[t].seen.latest[t], "completed"))
  /\ closing' = [closing EXCEPT ![t] = [Out EXCEPT !.pc = "ended"]]
  /\ UNCHANGED board

Complete(t) ==
  /\ CompleteBegins(t) \/ CompleteLoads(t) \/ CompleteTruncates(t) \/ CompleteWrites(t)
  /\ UNCHANGED <<author, subject, told, submits, review, decided>>

Reset(t) == Board!ResetTask(t) /\ UNCHANGED <<files, submits, review, closing, decided>>

Next ==
  \/ \E p \in Plan : SubmitPlan(p)
  \/ ApprovePlan
  \/ \E t \in Task : Complete(t) \/ Reset(t)

Spec == Init /\ [][Next]_vars
-----------------------------------------------------------------------------
\* A decision is taken once: approving a plan that was decided fails.
DecidedOnce == \A p \in Plan : decided[p] <= 1
=============================================================================
