----------------------------- MODULE TaskBoard -----------------------------
(***************************************************************************)
(* The task board of an agent team: the rows of the tables team_task and   *)
(* team_task_dependency of one session, and the operations of TaskDao that *)
(* the team's tools reach (internal/agent_teams/tools/database).           *)
(*                                                                         *)
(* Every operation is one database transaction (sql_task_dao.go) or one    *)
(* critical section of the mutex of the memory backend (memory_impl.go),   *)
(* so it is one action here.  An operation the code refuses, and one it    *)
(* answers idempotently without a write, changes nothing and is a          *)
(* stuttering step.                                                        *)
(***************************************************************************)
EXTENDS DependencyGraph

CONSTANTS
    Task,    \* the task ids that may ever be used
    Member,  \* the member names a task may be assigned to
    NoOne    \* the NULL assignee

ASSUME NoOneAssumption == NoOne \notin Member

VARIABLES
    status,    \* column status of team_task; "absent" when there is no row
    assignee,  \* column assignee of team_task
    deps,      \* the keys <<task_id, depends_on_task_id>> of the edge rows
    resolved   \* the edge rows whose column resolved is 1

vars == <<status, assignee, deps, resolved>>

-----------------------------------------------------------------------------
(* The status machine (fsm/transitions.go).                                *)

TaskStatus ==
    {"pending", "claimed", "plan_approved", "completed", "cancelled", "blocked"}

Terminal == {"completed", "cancelled"}
Waiting == {"pending", "blocked"}
InProgress == {"claimed", "plan_approved"}

TaskTransitions ==
    [pending       |-> {"claimed", "blocked", "cancelled"},
     claimed       |-> {"plan_approved", "completed", "cancelled", "blocked", "pending"},
     plan_approved |-> {"completed", "pending", "cancelled"},
     blocked       |-> {"pending", "cancelled"},
     completed     |-> {},
     cancelled     |-> {}]

Exists(t) == status[t] # "absent"

IsValidTaskTransition(t, target) ==
    Exists(t) /\ target \in TaskTransitions[status[t]]

-----------------------------------------------------------------------------
(* Helpers of the transactions.                                            *)

\* The upstream tasks of t whose edge row still has resolved = 0.
Unresolved(d, r, t) == Upstream(Task, d \ r, t)

\* refreshStatusInTx: recompute pending/blocked of the given tasks from
\* their unresolved counts; a task in any other status is left alone.
RefreshStatus(st, d, r, ids) ==
    [t \in Task |->
        IF t \in ids /\ st[t] \in Waiting
        THEN IF Unresolved(d, r, t) = {} THEN "pending" ELSE "blocked"
        ELSE st[t]]

\* Variants with a mistake: no refresh at the end, and an upsert of the flags
\* where the code updates the existing rows.
TerminateTasksNoRefresh(C, target) ==
    /\ resolved' = resolved \cup {e \in deps : e[2] \in C}
    /\ status' = [t \in Task |-> IF t \in C THEN target ELSE status[t]]
    /\ UNCHANGED <<assignee, deps>>

TerminateTasksUpsert(C, target) ==
    LET r == resolved \cup (Task \X C)
    IN  /\ resolved' = r
        /\ status' = RefreshStatus([t \in Task |-> IF t \in C THEN target ELSE status[t]],
                                   deps, r, Downstream(Task, deps, C))
        /\ UNCHANGED <<assignee, deps>>

\* terminateTaskInTx for each task of C: set the status, mark every edge
\* onto it resolved, refresh the tasks downstream of it.
TerminateTasks(C, target) ==
    LET closed == [t \in Task |-> IF t \in C THEN target ELSE status[t]]
        r      == resolved \cup {e \in deps : e[2] \in C}
    IN  /\ resolved' = r
        /\ status' = RefreshStatus(closed, deps, r, Downstream(Task, deps, C))
        /\ UNCHANGED <<assignee, deps>>

-----------------------------------------------------------------------------
(* The operations.                                                         *)

\* A conflict on the primary key is refused.
CreateTask(t) ==
    /\ ~ Exists(t)
    /\ status' = [status EXCEPT ![t] = "pending"]
    /\ UNCHANGED <<assignee, deps, resolved>>

\* The checks of the pipeline, each after its variants: dependencies of a task
\* in progress are accepted; the cycle check sees the new edges only; an edge onto
\* a finished task starts unresolved.
AcceptsUntilFinished(st) == st \in Waiting \cup InProgress
AcceptsDependencies(st) == st \in Waiting

CheckedNew(edges) == edges
CheckedEdges(edges) == deps \cup edges

StartsUnresolved(st) == FALSE
InitialResolved(st) == st \in Terminal

\* The five steps of the pipeline; a step that fails rolls all of them back.
MutateDependencyGraph(new, initial, edges) ==
    LET staged   == [t \in Task |-> IF t \in new THEN initial ELSE status[t]]
        newEdges == edges \ deps
        d        == deps \cup newEdges
        r        == resolved \cup {e \in newEdges : InitialResolved(staged[e[2]])}
    IN  /\ \A t \in new : ~ Exists(t)
        /\ \A e \in edges : AcceptsDependencies(staged[e[1]]) /\ staged[e[2]] # "absent"
        /\ Acyclic(Task, CheckedEdges(edges))
        /\ deps' = d
        /\ resolved' = r
        /\ status' = RefreshStatus(staged, d, r, new \cup Sources(Task, newEdges))
        /\ UNCHANGED assignee

AddTaskWithBidirectionalDependencies(t, initial, dependencies, dependents) ==
    MutateDependencyGraph({t}, initial,
        ({t} \X dependencies) \cup (dependents \X {t}))

\* Variants: a claim that looks at the status only, or at the assignee only.
ClaimTaskAgain(t, m) ==
    /\ status[t] \in {"pending", "claimed"}
    /\ status' = [status EXCEPT ![t] = "claimed"]
    /\ assignee' = [assignee EXCEPT ![t] = m]
    /\ UNCHANGED <<deps, resolved>>

ClaimTaskBlocked(t, m) ==
    /\ status[t] \in Waiting /\ assignee[t] = NoOne
    /\ status' = [status EXCEPT ![t] = "claimed"]
    /\ assignee' = [assignee EXCEPT ![t] = m]
    /\ UNCHANGED <<deps, resolved>>

ClaimTask(t, m) ==
    /\ IsValidTaskTransition(t, "claimed")
    /\ assignee[t] = NoOne
    /\ status' = [status EXCEPT ![t] = "claimed"]
    /\ assignee' = [assignee EXCEPT ![t] = m]
    /\ UNCHANGED <<deps, resolved>>

\* Variant: the assignee is left in the row.
ResetTaskKeepsAssignee(t) ==
    /\ status[t] = "claimed"
    /\ status' = [status EXCEPT ![t] = "pending"]
    /\ UNCHANGED <<assignee, deps, resolved>>

\* Only a claimed task is reset, although the table would allow
\* plan_approved -> pending as well.
ResetTask(t) ==
    /\ status[t] = "claimed"
    /\ IsValidTaskTransition(t, "pending")
    /\ status' = [status EXCEPT ![t] = "pending"]
    /\ assignee' = [assignee EXCEPT ![t] = NoOne]
    /\ UNCHANGED <<deps, resolved>>

ApprovePlanTask(t) ==
    /\ IsValidTaskTransition(t, "plan_approved")
    /\ status' = [status EXCEPT ![t] = "plan_approved"]
    /\ UNCHANGED <<assignee, deps, resolved>>

CompleteTask(t) ==
    /\ IsValidTaskTransition(t, "completed")
    /\ TerminateTasks({t}, "completed")

CancelTask(t) ==
    /\ IsValidTaskTransition(t, "cancelled")
    /\ TerminateTasks({t}, "cancelled")

\* The loop over the candidates in one transaction.  A task whose assignee
\* is skipped is kept; an unassigned task is never skipped, because skip
\* holds names of human members.
CancelAllTasks(skip) ==
    LET candidates == {t \in Task : Exists(t) /\ status[t] \notin Terminal}
        victims    == {t \in candidates : assignee[t] \notin skip}
    IN  /\ victims # {}
        /\ TerminateTasks(victims, "cancelled")

-----------------------------------------------------------------------------
(* What the tools call (task_manager.go): a new task without dependencies, *)
(* with dependencies, or in front of other tasks; new dependencies of an   *)
(* existing task; and the claims and outcomes of the members.              *)

Add(t, dependencies) ==
    \/ dependencies = {} /\ CreateTask(t)
    \/ dependencies # {} /\ MutateDependencyGraph({t}, "pending", {t} \X dependencies)

AddWithPriority(t, dependencies, dependents) ==
    AddTaskWithBidirectionalDependencies(t,
        IF dependencies = {} THEN "pending" ELSE "blocked", dependencies, dependents)

AddDependencies(t, dependencies) ==
    /\ dependencies # {}
    /\ MutateDependencyGraph({}, "pending", {t} \X dependencies)

Init ==
    /\ status = [t \in Task |-> "absent"]
    /\ assignee = [t \in Task |-> NoOne]
    /\ deps = {}
    /\ resolved = {}

Next ==
    \/ \E t \in Task :
        \/ \E D \in SUBSET Task : Add(t, D)
        \/ \E D, B \in SUBSET Task : AddWithPriority(t, D, B)
        \/ \E D \in SUBSET Task : AddDependencies(t, D)
        \/ \E m \in Member : ClaimTask(t, m)
        \/ ResetTask(t)
        \/ ApprovePlanTask(t)
        \/ CompleteTask(t)
        \/ CancelTask(t)
    \/ \E skip \in SUBSET Member : CancelAllTasks(skip)

Spec == Init /\ [][Next]_vars

\* Liveness is conditional on the members: some member eventually claims a
\* task that stays claimable, and a task that is in somebody's hands again
\* and again is eventually completed.  Nothing is assumed of the leader.
Fairness ==
    \A t \in Task :
        /\ WF_vars(\E m \in Member : ClaimTask(t, m))
        /\ SF_vars(CompleteTask(t))

LiveSpec == Spec /\ Fairness

-----------------------------------------------------------------------------
(* Properties.                                                             *)

\* The columns hold what the schema allows, and only edge rows are resolved.
TypeOK ==
    /\ status \in [Task -> TaskStatus \cup {"absent"}]
    /\ assignee \in [Task -> Member \cup {NoOne}]
    /\ deps \subseteq Task \X Task
    /\ resolved \subseteq deps

\* No lost and no premature unblocking: a waiting task is blocked exactly
\* while one of its upstream tasks is open.  The flag resolved, the status of
\* the upstream task and the status of the downstream task are three rows
\* written by different statements of terminateTaskInTx, refreshStatusInTx
\* and the graph mutation.
BlockedIffUpstreamOpen ==
    \A t \in Task : status[t] \in Waiting =>
        (status[t] = "blocked" <=>
            \E u \in Upstream(Task, deps, t) : status[u] \notin Terminal)

\* The cached flag of an edge agrees with the upstream task it caches, also
\* for an edge added after that task ended (checkCycleAndComputeNewEdgesInTx).
ResolvedIffUpstreamTerminal ==
    \A e \in deps : e \in resolved <=> status[e[2]] \in Terminal

\* Work respects the dependencies: a task in progress or completed has no
\* open upstream task, whatever dependencies were added since it was created
\* (the reject statuses of loadEndpointsAndValidateInTx).
WorkFollowsDependencies ==
    \A t \in Task : status[t] \in InProgress \cup {"completed"} =>
        \A u \in Upstream(Task, deps, t) : status[u] \in Terminal

\* A task has an owner exactly while it is in progress or completed; one
\* that went back to the board has none, or ClaimTask would refuse it for ever.
OwnedIffStarted ==
    \A t \in Task :
        /\ status[t] \in InProgress \cup {"completed"} => assignee[t] # NoOne
        /\ status[t] \in Waiting \cup {"absent"} => assignee[t] = NoOne

\* The dependency rows never form a cycle, and they only name existing tasks.
DependenciesAcyclic ==
    /\ Acyclic(Task, deps)
    /\ \A e \in deps : Exists(e[1]) /\ Exists(e[2])

\* The board is never stuck: while a task is open, some open task is not
\* blocked, so there is always one a member can claim or finish.
NeverAllBlocked ==
    (\E t \in Task : Exists(t) /\ status[t] \notin Terminal) =>
        \E t \in Task : status[t] \in {"pending"} \cup InProgress

\* An owner keeps the task until the task ends or goes back to the board:
\* no step hands a task in progress to another member.
NoTaskIsStolen ==
    [][\A t \in Task : (status[t] \in InProgress /\ status'[t] \in InProgress)
            => assignee'[t] = assignee[t]]_vars

\* Whatever ended stays as it ended, with the edges that waited for it
\* resolved; batch cancellation and late graph changes included.
TerminalIsFinal ==
    [][/\ \A t \in Task : status[t] \in Terminal => status'[t] = status[t]
       /\ deps \subseteq deps' /\ resolved \subseteq resolved']_vars

\* A task that was claimable becomes blocked only in a step that gives it a
\* new open dependency; finishing other tasks never blocks it.
OnlyNewEdgesBlock ==
    [][\A t \in Task : (status[t] = "pending" /\ status'[t] = "blocked")
            => \E u \in Task : <<t, u>> \in deps' \ deps /\ status'[u] \notin Terminal]_vars

\* Under Fairness every task put on the board ends: no wakeup of a blocked
\* task is lost, and the leader cannot starve it for ever with new edges.
EveryTaskEnds ==
    \A t \in Task : Exists(t) ~> status[t] \in Terminal

-----------------------------------------------------------------------------
(* The refinement: the board implements DependencyOrder.  Blocked and      *)
(* pending are both "waiting"; approving a plan is invisible.              *)

PhaseOf ==
    [absent        |-> "unknown",
     pending       |-> "waiting",
     blocked       |-> "waiting",
     claimed       |-> "working",
     plan_approved |-> "working",
     completed     |-> "done",
     cancelled     |-> "dropped"]

Order == INSTANCE DependencyOrder WITH
    phase  <- [t \in Task |-> PhaseOf[status[t]]],
    needs  <- deps,
    worker <- assignee

\* Every behaviour of the board is one of DependencyOrder: a claim finds all
\* upstream tasks over although ClaimTask looks at no dependency row at all.
ImplementsOrder == Order!Spec
=============================================================================
