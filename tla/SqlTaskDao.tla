----------------------------- MODULE SqlTaskDao -----------------------------
(***************************************************************************)
(* The SQLite backend of the task board (sql_task_dao.go), statement by    *)
(* statement.  Every operation runs in a transaction of its own connection *)
(* (sql_engine.go: WAL mode, five connections, no _txlock, so BEGIN is     *)
(* deferred).  A transaction that starts with a SELECT reads a snapshot    *)
(* and becomes the writer at its first write; SQLite refuses that write at *)
(* once, without waiting, when another transaction is the writer or has    *)
(* committed since the snapshot.  The operations on single rows and the    *)
(* termination of tasks drop the error of each statement and go on; the    *)
(* graph mutation returns it and rolls back.                               *)
(*                                                                         *)
(* A call that its first SELECT refuses changes nothing and is left out.   *)
(***************************************************************************)
EXTENDS DependencyGraph, Sequences

CONSTANTS
    Task, Member,
    NoOne   \* the NULL assignee, and nobody holding the write lock

ASSUME NobodyAssumption == NoOne \notin Member

VARIABLES
    refusals, \* fixed: graph mutations that will be refused are attempted
    db,      \* the committed tables
    writer,  \* the member whose transaction holds the write lock
    draft,   \* the tables as the writer sees them; db when there is none
    call     \* the DAO call each member is in

vars == <<refusals, db, writer, draft, call>>

TB == INSTANCE TaskBoard WITH
    status <- db.status, assignee <- db.assignee,
    deps <- db.deps, resolved <- db.resolved

Idle == [op |-> "none"]

Running(m) == call[m].op # "none"

Call(op, t, todo) ==
    [op |-> op, task |-> t, todo |-> todo, stale |-> FALSE, ok |-> TRUE]

-----------------------------------------------------------------------------
(* The statements of the transactions, and what each does to the tables.   *)

SetRow(t, st, owner) == [kind |-> "row", task |-> t, status |-> st, owner |-> owner]
SetStatus(t, st) == [kind |-> "status", task |-> t, status |-> st]
Resolve(t) == [kind |-> "resolve", task |-> t]
Refresh(t) == [kind |-> "refresh", task |-> t]
AddEdges(edges, new) == [kind |-> "edges", edges |-> edges, new |-> new]

TerminateTask(t, target) == <<SetStatus(t, target), Resolve(t), Refresh(t)>>

\* loadEndpointsAndValidateInTx and checkCycleAndComputeNewEdgesInTx, which
\* run before the first write of the edges.
Valid(tables, edges) ==
    /\ \A e \in edges :
        tables.status[e[1]] \in TB!Waiting /\ tables.status[e[2]] # "absent"
    /\ Acyclic(Task, tables.deps \cup edges)

Refreshed(tables, ids) ==
    [tables EXCEPT !.status =
        TB!RefreshStatus(@, tables.deps, tables.resolved, ids)]

WithEdges(tables, edges, new) ==
    LET newEdges == edges \ tables.deps
        closed   == {e \in newEdges : tables.status[e[2]] \in TB!Terminal}
    IN  Refreshed([tables EXCEPT !.deps = @ \cup newEdges, !.resolved = @ \cup closed],
                  new \cup Sources(Task, newEdges))

Apply(tables, s) ==
    CASE s.kind = "row" ->
            [tables EXCEPT !.status[s.task] = s.status, !.assignee[s.task] = s.owner]
      [] s.kind = "status" ->
            [tables EXCEPT !.status[s.task] = s.status]
      [] s.kind = "resolve" ->
            [tables EXCEPT !.resolved = @ \cup {e \in tables.deps : e[2] = s.task}]
      [] s.kind = "refresh" ->
            Refreshed(tables, Downstream(Task, tables.deps, {s.task}))
      [] s.kind = "edges" ->
            WithEdges(tables, s.edges, s.new)

-----------------------------------------------------------------------------
(* The first statement of each operation.                                  *)

Begin(m, op, t, todo) ==
    /\ ~ Running(m)
    /\ call' = [call EXCEPT ![m] = Call(op, t, todo)]
    /\ UNCHANGED <<refusals, db, writer, draft>>

ClaimTask(m, t) ==
    /\ TB!IsValidTaskTransition(t, "claimed") /\ db.assignee[t] = NoOne
    /\ Begin(m, "claim", t, <<SetRow(t, "claimed", m)>>)

ResetTask(m, t) ==
    /\ db.status[t] = "claimed"
    /\ Begin(m, "reset", t, <<SetRow(t, "pending", NoOne)>>)

ApprovePlanTask(m, t) ==
    /\ TB!IsValidTaskTransition(t, "plan_approved")
    /\ Begin(m, "approve", t, <<SetStatus(t, "plan_approved")>>)

CompleteTask(m, t) ==
    /\ TB!IsValidTaskTransition(t, "completed")
    /\ Begin(m, "complete", t, TerminateTask(t, "completed"))

CancelTask(m, t) ==
    /\ TB!IsValidTaskTransition(t, "cancelled")
    /\ Begin(m, "cancel", t, TerminateTask(t, "cancelled"))

AddDependencies(m, t, dependencies) ==
    /\ dependencies # {} /\ Valid(db, {t} \X dependencies)
    /\ Begin(m, "add_edges", t, <<AddEdges({t} \X dependencies, {})>>)

\* MutateDependencyGraph with a new task starts with an INSERT, which waits
\* for the write lock, so what follows reads nothing stale.  Every refusal,
\* by the primary key or by the validation, is rolled back.
AddTask(m, t, dependencies) ==
    LET free   == db.status[t] = "absent"
        staged == IF free THEN [db EXCEPT !.status[t] = "pending"] ELSE db
        edges  == {t} \X dependencies
        ok     == free /\ Valid(staged, edges)
    IN  /\ ~ Running(m) /\ writer = NoOne
        /\ refusals \/ ok
        /\ writer' = m
        /\ draft' = staged
        /\ call' = [call EXCEPT ![m] =
                IF ok THEN Call("add", t, <<AddEdges(edges, {t})>>)
                      ELSE [Call("add", t, <<>>) EXCEPT !.ok = FALSE]]
        /\ UNCHANGED <<refusals, db>>

-----------------------------------------------------------------------------
(* The later statements and the end of the transaction.                    *)

View(m) == IF writer = m THEN draft ELSE db

\* Variant: the lock is all that counts, an old snapshot is no obstacle.
GrantedWhenFree(m) == writer \in {m, NoOne}

\* SQLite lets m write: it is the writer, or becomes it with a fresh snapshot.
Granted(m) == writer = m \/ (writer = NoOne /\ ~ call[m].stale)

Done(m, ok) ==
    call' = [call EXCEPT ![m].todo = Tail(@), ![m].ok = ok]

\* A refresh that finds every status right and a mutation whose edges all
\* exist write nothing; an UPDATE takes the write lock even on no rows.
Writes(m, s) == s.kind \in {"refresh", "edges"} => Apply(View(m), s) # View(m)

Execute(m, s) ==
    IF Writes(m, s) /\ Granted(m)
    THEN writer' = m /\ draft' = Apply(View(m), s)
    ELSE UNCHANGED <<writer, draft>>

\* Variant: a refused statement is retried until SQLite accepts it.
ExecuteUncheckedWaits(m) ==
    /\ Running(m) /\ call[m].todo # <<>> /\ Granted(m)
    /\ LET s == Head(call[m].todo)
       IN  s.kind # "edges" /\ Execute(m, s)
    /\ Done(m, TRUE)
    /\ UNCHANGED <<refusals, db>>

\* A statement whose error is dropped when SQLite refuses it.
ExecuteUnchecked(m) ==
    /\ Running(m) /\ call[m].todo # <<>>
    /\ LET s == Head(call[m].todo)
       IN  s.kind # "edges" /\ Execute(m, s)
    /\ Done(m, TRUE)
    /\ UNCHANGED <<refusals, db>>

\* The graph mutation returns the error of a write and rolls back.
ExecuteChecked(m) ==
    /\ Running(m) /\ call[m].todo # <<>>
    /\ LET s == Head(call[m].todo)
       IN  /\ s.kind = "edges"
           /\ Execute(m, s)
           /\ Done(m, Writes(m, s) => Granted(m))
    /\ UNCHANGED <<refusals, db>>

\* Variant: the snapshots of the others survive a commit.
ReturnKeepsSnapshots(m) ==
    LET result == IF writer = m /\ call[m].ok THEN draft ELSE db
    IN  /\ Running(m) /\ call[m].todo = <<>>
        /\ db' = result
        /\ writer' = IF writer = m THEN NoOne ELSE writer
        /\ draft' = IF writer = m THEN result ELSE draft
        /\ call' = [call EXCEPT ![m] = Idle]
        /\ UNCHANGED refusals

\* COMMIT, or ROLLBACK after a failed mutation, and the return of the call.
\* A commit that changed the tables makes every open snapshot stale.
Return(m) ==
    LET result == IF writer = m /\ call[m].ok THEN draft ELSE db
    IN  /\ Running(m) /\ call[m].todo = <<>>
        /\ db' = result
        /\ writer' = IF writer = m THEN NoOne ELSE writer
        /\ draft' = IF writer = m THEN result ELSE draft
        /\ call' = [n \in Member |->
                CASE n = m -> Idle
                  [] n # m /\ call[n].op # "none" /\ result # db ->
                        [call[n] EXCEPT !.stale = TRUE]
                  [] OTHER -> call[n]]
        /\ UNCHANGED refusals

Init ==
    /\ refusals \in BOOLEAN
    /\ db = [status   |-> [t \in Task |-> "absent"],
             assignee |-> [t \in Task |-> NoOne],
             deps     |-> {},
             resolved |-> {}]
    /\ writer = NoOne
    /\ draft = db
    /\ call = [m \in Member |-> Idle]

Next ==
    \E m \in Member :
        \/ \E t \in Task :
            \/ ClaimTask(m, t)
            \/ ResetTask(m, t)
            \/ ApprovePlanTask(m, t)
            \/ CompleteTask(m, t)
            \/ CancelTask(m, t)
            \/ \E D \in SUBSET Task : AddDependencies(m, t, D) \/ AddTask(m, t, D)
        \/ ExecuteUnchecked(m)
        \/ ExecuteChecked(m)
        \/ Return(m)

\* A goroutine inside a call goes on; nobody is obliged to make calls.
Spec ==
    /\ Init /\ [][Next]_vars
    /\ \A m \in Member :
        WF_vars(ExecuteUnchecked(m)) /\ WF_vars(ExecuteChecked(m)) /\ WF_vars(Return(m))

-----------------------------------------------------------------------------
(* Properties.                                                             *)

\* Two mutations that are each free of cycles do not make one together.
StaysAcyclic == TB!DependenciesAcyclic

\* No two transactions wait for each other: every call returns.
CallsReturn == \A m \in Member : Running(m) ~> ~ Running(m)

\* When no mutation is rolled back, and nobody else writes the file, a transaction is all
\* or nothing and the database implements the atomic operations of TaskBoard.
ImplementsBoard == TB!Init /\ [][refusals \/ TB!Next]_db

\* What the callers rely on: a claim that returned true is in the table.
ClaimReplyIsHonest ==
    [][\A m \in Member : call[m].op = "claim" /\ call[m].ok /\ call'[m] = Idle =>
            /\ db'.status[call[m].task] = "claimed"
            /\ db'.assignee[call[m].task] = m]_vars
=============================================================================
