-------------------------- MODULE TaskBoardProofs --------------------------
(***************************************************************************)
(* Theorems about TaskBoard, for every set of tasks and members.           *)
(***************************************************************************)
EXTENDS TaskBoard, TLAPS

\* The inductive invariant.  BlockedIffUpstreamOpen is not inductive alone:
\* refreshStatusInTx reads the resolved flags, so the flags must be right;
\* WorkFollowsDependencies needs it at ClaimTask, which reads no edge.
IInv ==
    /\ TypeOK
    /\ ResolvedIffUpstreamTerminal
    /\ BlockedIffUpstreamOpen
    /\ WorkFollowsDependencies
    /\ OwnedIffStarted
    /\ DependenciesAcyclic

-----------------------------------------------------------------------------

\* RefreshStatus returns a status for every task.
LEMMA RefreshStatusType ==
    ASSUME NEW st \in [Task -> TaskStatus \cup {"absent"}], NEW d, NEW r, NEW ids
    PROVE  RefreshStatus(st, d, r, ids) \in [Task -> TaskStatus \cup {"absent"}]
  BY DEF RefreshStatus, Waiting, TaskStatus

\* It leaves alone a task that is not asked for or does not wait.
LEMMA RefreshStatusKeeps ==
    ASSUME NEW st, NEW d, NEW r, NEW ids, NEW t \in Task,
           t \notin ids \/ st[t] \notin Waiting
    PROVE  RefreshStatus(st, d, r, ids)[t] = st[t]
  BY DEF RefreshStatus

\* A waiting task it is asked for gets the status its unresolved edges call for.
IsRefreshed(st, d, r, t) ==
    /\ st[t] \in Waiting
    /\ st[t] = "blocked" <=> \E u \in Task : <<t, u>> \in d /\ <<t, u>> \notin r

LEMMA RefreshStatusSets ==
    ASSUME NEW st, NEW d, NEW r, NEW ids, NEW t \in ids, t \in Task,
           st[t] \in Waiting
    PROVE  IsRefreshed(RefreshStatus(st, d, r, ids), d, r, t)
  BY DEF IsRefreshed, RefreshStatus, Unresolved, Upstream, Waiting

\* An empty board satisfies the invariant.
LEMMA InitIInv == Init => IInv
  <1> SUFFICES ASSUME Init PROVE IInv
    OBVIOUS
  <1>1. Acyclic(Task, {})
    BY DEF Acyclic
  <1> QED
    BY <1>1 DEF Init, IInv, TypeOK, ResolvedIffUpstreamTerminal,
         BlockedIffUpstreamOpen, WorkFollowsDependencies, OwnedIffStarted,
         DependenciesAcyclic, Waiting, InProgress, Upstream, Exists

\* Under the invariant, the open upstream tasks are those of unresolved edges.
LEMMA BlockedByFlags ==
    ASSUME IInv, NEW t \in Task, status[t] \in Waiting
    PROVE  status[t] = "blocked"
            <=> \E u \in Task : <<t, u>> \in deps /\ <<t, u>> \notin resolved
  <1>1. \A u \in Task : <<t, u>> \in deps
            => (<<t, u>> \in resolved <=> status[u] \in Terminal)
    BY DEF IInv, ResolvedIffUpstreamTerminal
  <1> QED
    BY <1>1 DEF IInv, BlockedIffUpstreamOpen, Upstream

-----------------------------------------------------------------------------
(* Ending tasks: CompleteTask, CancelTask and CancelAllTasks.              *)

\* Ending a set of open tasks (completed only from a status in progress)
\* keeps the invariant: flags, refreshed statuses and order stay consistent.
LEMMA TerminateIInv ==
    ASSUME IInv, NEW C \in SUBSET Task, NEW target \in Terminal,
           \A t \in C : status[t] \in Waiting \cup InProgress,
           target = "completed" => \A t \in C : status[t] \in InProgress,
           TerminateTasks(C, target)
    PROVE  IInv'
  <1> DEFINE closed == [t \in Task |-> IF t \in C THEN target ELSE status[t]]
             r == resolved \cup {e \in deps : e[2] \in C}
             ids == Downstream(Task, deps, C)
  <1> USE DEF Terminal, Waiting, InProgress
  <1>1. /\ resolved' = r
        /\ status' = RefreshStatus(closed, deps, r, ids)
        /\ deps' = deps /\ assignee' = assignee
    BY DEF TerminateTasks
  <1>2. closed \in [Task -> TaskStatus \cup {"absent"}]
    BY DEF IInv, TypeOK, TaskStatus
  <1>3. \A t, u \in Task : <<t, u>> \in deps =>
            (<<t, u>> \in r <=> <<t, u>> \in resolved \/ u \in C)
    OBVIOUS
  <1>4. TypeOK'
    BY <1>1, <1>2, RefreshStatusType DEF IInv, TypeOK
  <1>5. ASSUME NEW t \in Task, t \in C
        PROVE  status'[t] = target
    BY <1>1, <1>5, RefreshStatusKeeps
  <1>6. ASSUME NEW t \in Task, t \notin C, status[t] \notin Waiting
        PROVE  status'[t] = status[t]
    BY <1>1, <1>6, RefreshStatusKeeps
  <1>7. ASSUME NEW t \in Task, t \notin C, status[t] \in Waiting
        PROVE  /\ status'[t] \in Waiting
               /\ status'[t] = "blocked"
                    <=> \E u \in Task : <<t, u>> \in deps /\ <<t, u>> \notin r
    <2>1. closed[t] = status[t] /\ closed[t] \in Waiting
      BY <1>7
    <2>2. CASE t \in ids
      <3> HIDE DEF closed, r, ids
      <3>1. IsRefreshed(RefreshStatus(closed, deps, r, ids), deps, r, t)
        BY <1>7, <2>1, <2>2, RefreshStatusSets
      <3>2. IsRefreshed(status', deps, r, t)
        BY <1>1, <3>1
      <3> QED
        BY <3>2 DEF IsRefreshed
    <2>3. CASE t \notin ids
      <3>1. status'[t] = status[t]
        BY <1>1, <2>1, <2>3, RefreshStatusKeeps
      <3>2. \A u \in Task : <<t, u>> \in deps => u \notin C
        BY <2>3 DEF Downstream
      <3> QED
        BY <3>1, <3>2, <1>3, <1>7, BlockedByFlags
    <2> QED
      BY <2>2, <2>3
  <1>8. \A u \in Task : status'[u] \in Terminal <=> status[u] \in Terminal \/ u \in C
    BY <1>5, <1>6, <1>7
  <1>9. ResolvedIffUpstreamTerminal'
    <2> SUFFICES ASSUME NEW e \in deps
                 PROVE  e \in r <=> status'[e[2]] \in Terminal
      BY <1>1 DEF ResolvedIffUpstreamTerminal
    <2>1. e[2] \in Task /\ (e \in resolved <=> status[e[2]] \in Terminal)
      BY DEF IInv, TypeOK, ResolvedIffUpstreamTerminal
    <2> QED
      BY <2>1, <1>8
  <1>10. BlockedIffUpstreamOpen'
    <2> SUFFICES ASSUME NEW t \in Task, status'[t] \in Waiting
                 PROVE  status'[t] = "blocked"
                          <=> \E u \in Task : <<t, u>> \in deps /\ status'[u] \notin Terminal
      BY <1>1 DEF BlockedIffUpstreamOpen, Upstream
    <2>1. t \notin C /\ status[t] \in Waiting
      BY <1>5, <1>6
    <2>2. \A u \in Task : <<t, u>> \in deps => (<<t, u>> \in r <=> status'[u] \in Terminal)
      BY <1>1, <1>9 DEF ResolvedIffUpstreamTerminal
    <2> QED
      BY <1>7, <2>1, <2>2
  <1>11. WorkFollowsDependencies'
    <2> SUFFICES ASSUME NEW t \in Task, status'[t] \in InProgress \cup {"completed"},
                        NEW u \in Task, <<t, u>> \in deps
                 PROVE  status'[u] \in Terminal
      BY <1>1 DEF WorkFollowsDependencies, Upstream
    <2>1. status[t] \in InProgress \cup {"completed"}
      BY <1>5, <1>6, <1>7
    <2>2. status[u] \in Terminal
      BY <2>1 DEF IInv, WorkFollowsDependencies, Upstream
    <2> QED
      BY <2>2, <1>8
  <1>12. OwnedIffStarted'
    <2> SUFFICES ASSUME NEW t \in Task
                 PROVE  /\ status'[t] \in InProgress \cup {"completed"} => assignee[t] # NoOne
                        /\ status'[t] \in Waiting \cup {"absent"} => assignee[t] = NoOne
      BY <1>1 DEF OwnedIffStarted
    <2> QED
      BY <1>5, <1>6, <1>7 DEF IInv, OwnedIffStarted
  <1>13. DependenciesAcyclic'
    <2> SUFFICES ASSUME NEW e \in deps
                 PROVE  status'[e[1]] # "absent" /\ status'[e[2]] # "absent"
      BY <1>1 DEF IInv, DependenciesAcyclic, Exists
    <2>1. /\ e[1] \in Task /\ e[2] \in Task
          /\ status[e[1]] # "absent" /\ status[e[2]] # "absent"
      BY DEF IInv, TypeOK, DependenciesAcyclic, Exists
    <2> QED
      BY <2>1, <1>5, <1>6, <1>7
  <1> QED
    BY <1>4, <1>9, <1>10, <1>11, <1>12, <1>13 DEF IInv

-----------------------------------------------------------------------------
(* Changing the graph: new tasks and new edges in one transaction.         *)

\* A graph mutation that commits keeps the invariant, new tasks and edges onto
\* finished tasks included.
LEMMA MutateIInv ==
    ASSUME IInv, NEW new \in SUBSET Task, NEW initial \in Waiting,
           NEW edges \in SUBSET (Task \X Task),
           MutateDependencyGraph(new, initial, edges)
    PROVE  IInv'
  <1> DEFINE staged == [t \in Task |-> IF t \in new THEN initial ELSE status[t]]
             newEdges == edges \ deps
             d == deps \cup newEdges
             r == resolved \cup {e \in newEdges : staged[e[2]] \in Terminal}
             ids == new \cup Sources(Task, newEdges)
  <1> USE DEF Terminal, Waiting, InProgress
  <1>1. /\ deps' = d /\ resolved' = r /\ assignee' = assignee
        /\ status' = RefreshStatus(staged, d, r, ids)
        /\ \A t \in new : status[t] = "absent"
        /\ \A e \in edges : staged[e[1]] \in Waiting /\ staged[e[2]] # "absent"
        /\ Acyclic(Task, d)
    <2>1. deps \cup edges = d
      OBVIOUS
    <2> QED
      BY <2>1 DEF MutateDependencyGraph, Exists, AcceptsDependencies, CheckedEdges,
         InitialResolved, Waiting, Terminal
  <1>2. staged \in [Task -> TaskStatus \cup {"absent"}]
    BY DEF IInv, TypeOK, TaskStatus
  <1>3. TypeOK'
    <2>1. RefreshStatus(staged, d, r, ids) \in [Task -> TaskStatus \cup {"absent"}]
      BY <1>2, RefreshStatusType
    <2>2. d \subseteq Task \X Task /\ r \subseteq d
      BY DEF IInv, TypeOK
    <2> HIDE DEF staged, d, r, ids
    <2> QED
      BY <1>1, <2>1, <2>2 DEF IInv, TypeOK
  <1>4. ASSUME NEW t \in Task, staged[t] \notin Waiting
        PROVE  status'[t] = staged[t]
    BY <1>1, <1>4, RefreshStatusKeeps
  <1>5. ASSUME NEW t \in Task, staged[t] \in Waiting
        PROVE  /\ status'[t] \in Waiting
               /\ status'[t] = "blocked"
                    <=> \E u \in Task : <<t, u>> \in d /\ <<t, u>> \notin r
    <2>1. CASE t \in ids
      <3> HIDE DEF staged, d, r, ids
      <3>1. IsRefreshed(RefreshStatus(staged, d, r, ids), d, r, t)
        BY <1>5, <2>1, RefreshStatusSets
      <3>2. IsRefreshed(status', d, r, t)
        BY <1>1, <3>1
      <3> QED
        BY <1>1, <3>2 DEF IsRefreshed
    <2>2. CASE t \notin ids
      <3>1. staged[t] = status[t] /\ status[t] \in Waiting
        <4>1. t \notin new
          BY <2>2
        <4> QED
          BY <1>5, <4>1
      <3>2. status'[t] = status[t]
        <4> HIDE DEF staged, d, r, ids
        <4>1. RefreshStatus(staged, d, r, ids)[t] = staged[t]
          BY <2>2, RefreshStatusKeeps
        <4> QED
          BY <1>1, <3>1, <4>1
      <3>3. \A u \in Task : <<t, u>> \notin newEdges
        BY <2>2 DEF Sources
      <3>4. \A u \in Task : /\ <<t, u>> \in d <=> <<t, u>> \in deps
                            /\ <<t, u>> \in r <=> <<t, u>> \in resolved
        BY <3>3
      <3> QED
        BY <3>1, <3>2, <3>4, BlockedByFlags
    <2> QED
      BY <2>1, <2>2
  <1>6. \A u \in Task : status'[u] \in Terminal <=> staged[u] \in Terminal
    BY <1>4, <1>5
  <1>7. ResolvedIffUpstreamTerminal'
    <2> SUFFICES ASSUME NEW e \in d
                 PROVE  e \in r <=> status'[e[2]] \in Terminal
      BY <1>1 DEF ResolvedIffUpstreamTerminal
    <2>1. e[2] \in Task
      BY DEF IInv, TypeOK
    <2>2. CASE e \in deps
      <3>1. e \in resolved <=> status[e[2]] \in Terminal
        BY <2>2 DEF IInv, ResolvedIffUpstreamTerminal
      <3>2. status[e[2]] # "absent"
        BY <2>2 DEF IInv, DependenciesAcyclic, Exists
      <3>3. staged[e[2]] = status[e[2]]
        BY <1>1, <2>1, <3>2
      <3> QED
        BY <1>6, <2>1, <2>2, <3>1, <3>3
    <2>3. CASE e \in newEdges
      <3>1. e \notin resolved
        BY <2>3 DEF IInv, TypeOK
      <3> QED
        BY <1>6, <2>1, <2>3, <3>1
    <2> QED
      BY <2>2, <2>3
  <1>8. BlockedIffUpstreamOpen'
    <2> SUFFICES ASSUME NEW t \in Task, status'[t] \in Waiting
                 PROVE  status'[t] = "blocked"
                          <=> \E u \in Task : <<t, u>> \in d /\ status'[u] \notin Terminal
      BY <1>1 DEF BlockedIffUpstreamOpen, Upstream
    <2>1. staged[t] \in Waiting
      BY <1>4
    <2>2. \A u \in Task : <<t, u>> \in d => (<<t, u>> \in r <=> status'[u] \in Terminal)
      BY <1>1, <1>7 DEF ResolvedIffUpstreamTerminal
    <2> QED
      BY <1>5, <2>1, <2>2
  <1>9. WorkFollowsDependencies'
    <2> SUFFICES ASSUME NEW t \in Task, status'[t] \in InProgress \cup {"completed"},
                        NEW u \in Task, <<t, u>> \in d
                 PROVE  status'[u] \in Terminal
      BY <1>1 DEF WorkFollowsDependencies, Upstream
    <2>1. staged[t] = status'[t] /\ staged[t] \notin Waiting
      BY <1>4, <1>5
    <2>2. t \notin new /\ status[t] = status'[t]
      BY <2>1
    <2>3. <<t, u>> \in deps
      BY <1>1, <2>1
    <2>4. status[u] \in Terminal
      BY <2>2, <2>3 DEF IInv, WorkFollowsDependencies, Upstream
    <2>5. staged[u] = status[u]
      BY <1>1, <2>4
    <2> QED
      BY <1>6, <2>4, <2>5
  <1>10. OwnedIffStarted'
    <2> SUFFICES ASSUME NEW t \in Task
                 PROVE  /\ status'[t] \in InProgress \cup {"completed"} => assignee[t] # NoOne
                        /\ status'[t] \in Waiting \cup {"absent"} => assignee[t] = NoOne
      BY <1>1 DEF OwnedIffStarted
    <2> QED
      BY <1>1, <1>4, <1>5 DEF IInv, OwnedIffStarted
  <1>11. DependenciesAcyclic'
    <2> SUFFICES ASSUME NEW e \in d
                 PROVE  status'[e[1]] # "absent" /\ status'[e[2]] # "absent"
      BY <1>1 DEF DependenciesAcyclic, Exists
    <2>1. /\ e[1] \in Task /\ e[2] \in Task
          /\ staged[e[1]] # "absent" /\ staged[e[2]] # "absent"
      BY <1>1 DEF IInv, TypeOK, DependenciesAcyclic, Exists
    <2> QED
      BY <2>1, <1>4, <1>5
  <1> QED
    BY <1>3, <1>7, <1>8, <1>9, <1>10, <1>11 DEF IInv

-----------------------------------------------------------------------------
(* The operations on a single row.                                         *)

\* So does the creation of a task without dependencies.
LEMMA CreateIInv ==
    ASSUME IInv, NEW t \in Task, CreateTask(t)
    PROVE  IInv'
  <1> USE DEF Terminal, Waiting, InProgress
  <1>1. /\ status[t] = "absent" /\ status' = [status EXCEPT ![t] = "pending"]
        /\ assignee' = assignee /\ deps' = deps /\ resolved' = resolved
    BY DEF CreateTask, Exists
  <1>2. \A e \in deps : /\ e[1] \in Task /\ e[2] \in Task
                        /\ e[1] # t /\ e[2] # t
                        /\ status'[e[1]] = status[e[1]] /\ status'[e[2]] = status[e[2]]
    BY <1>1 DEF IInv, TypeOK, DependenciesAcyclic, Exists
  <1>3. \A u \in Task : <<t, u>> \notin deps
    BY <1>2
  <1>4. TypeOK'
    BY <1>1 DEF IInv, TypeOK, TaskStatus
  <1>5. ResolvedIffUpstreamTerminal'
    BY <1>1, <1>2 DEF IInv, ResolvedIffUpstreamTerminal
  <1>6. BlockedIffUpstreamOpen'
    BY <1>1, <1>2, <1>3 DEF IInv, TypeOK, BlockedIffUpstreamOpen, Upstream
  <1>7. WorkFollowsDependencies'
    BY <1>1, <1>2, <1>3 DEF IInv, TypeOK, WorkFollowsDependencies, Upstream
  <1>8. OwnedIffStarted'
    BY <1>1 DEF IInv, TypeOK, OwnedIffStarted
  <1>9. DependenciesAcyclic'
    BY <1>1, <1>2 DEF IInv, DependenciesAcyclic, Exists
  <1> QED
    BY <1>4, <1>5, <1>6, <1>7, <1>8, <1>9 DEF IInv

\* A move between open statuses that does not involve "blocked": a claim, a
\* reset, a plan approval.  What makes the claim safe is the premise that no
\* upstream task is open, which pending implies under the invariant.
LEMMA MoveIInv ==
    ASSUME IInv, NEW t \in Task, NEW target \in {"pending", "claimed", "plan_approved"},
           status[t] \in {"pending", "claimed", "plan_approved"},
           status' = [status EXCEPT ![t] = target],
           assignee' \in [Task -> Member \cup {NoOne}],
           \A x \in Task \ {t} : assignee'[x] = assignee[x],
           assignee'[t] = NoOne <=> target = "pending",
           deps' = deps, resolved' = resolved
    PROVE  IInv'
  <1> USE DEF Terminal, Waiting, InProgress
  <1>1. \A x \in Task : x # t => status'[x] = status[x]
    BY DEF IInv, TypeOK
  <1>2. status'[t] = target
    BY DEF IInv, TypeOK
  <1>3. \A u \in Task : <<t, u>> \in deps => status[u] \in Terminal
    BY DEF IInv, BlockedIffUpstreamOpen, WorkFollowsDependencies, Upstream
  <1>4. \A x \in Task : status'[x] \in Terminal <=> status[x] \in Terminal
    BY <1>1, <1>2
  <1>5. TypeOK'
    BY DEF IInv, TypeOK, TaskStatus
  <1>6. ResolvedIffUpstreamTerminal'
    BY <1>4 DEF IInv, TypeOK, ResolvedIffUpstreamTerminal
  <1>7. BlockedIffUpstreamOpen'
    BY <1>1, <1>2, <1>3, <1>4 DEF IInv, BlockedIffUpstreamOpen, Upstream
  <1>8. WorkFollowsDependencies'
    BY <1>1, <1>2, <1>3, <1>4 DEF IInv, WorkFollowsDependencies, Upstream
  <1>9. OwnedIffStarted'
    BY <1>1, <1>2 DEF IInv, OwnedIffStarted
  <1>10. DependenciesAcyclic'
    BY <1>1, <1>2 DEF IInv, TypeOK, DependenciesAcyclic, Exists
  <1> QED
    BY <1>5, <1>6, <1>7, <1>8, <1>9, <1>10 DEF IInv

\* ClaimTask is such a move, although it reads no dependency row.
LEMMA ClaimIInv ==
    ASSUME IInv, NEW t \in Task, NEW m \in Member, ClaimTask(t, m)
    PROVE  IInv'
  <1>1. status[t] = "pending"
    BY DEF ClaimTask, IsValidTaskTransition, Exists, TaskTransitions, IInv, TypeOK, TaskStatus
  <1>2. m # NoOne
    BY NoOneAssumption
  <1>3. /\ assignee' \in [Task -> Member \cup {NoOne}] /\ assignee'[t] = m
        /\ \A x \in Task \ {t} : assignee'[x] = assignee[x]
    BY DEF ClaimTask, IInv, TypeOK
  <1> QED
    BY <1>1, <1>2, <1>3, MoveIInv DEF ClaimTask

\* ResetTask is such a move, because it clears the assignee.
LEMMA ResetIInv ==
    ASSUME IInv, NEW t \in Task, ResetTask(t)
    PROVE  IInv'
  <1>1. /\ assignee' \in [Task -> Member \cup {NoOne}] /\ assignee'[t] = NoOne
        /\ \A x \in Task \ {t} : assignee'[x] = assignee[x]
    BY DEF ResetTask, IInv, TypeOK
  <1> QED
    BY <1>1, MoveIInv DEF ResetTask

\* ApprovePlanTask is such a move: a claimed task keeps its assignee.
LEMMA ApproveIInv ==
    ASSUME IInv, NEW t \in Task, ApprovePlanTask(t)
    PROVE  IInv'
  <1>1. status[t] = "claimed"
    BY DEF ApprovePlanTask, IsValidTaskTransition, Exists, TaskTransitions, IInv, TypeOK, TaskStatus
  <1>2. assignee[t] # NoOne
    BY <1>1 DEF IInv, OwnedIffStarted, InProgress
  <1> QED
    BY <1>1, <1>2, MoveIInv DEF ApprovePlanTask, IInv, TypeOK

-----------------------------------------------------------------------------
(* The step, and the theorems.                                             *)

\* Every call of the tools that changes the graph is an instance of
\* CreateTask or MutateDependencyGraph.
LEMMA GraphCalls ==
    ASSUME NEW t \in Task, NEW D \in SUBSET Task, NEW B \in SUBSET Task
    PROVE  /\ Add(t, D) => CreateTask(t)
                \/ MutateDependencyGraph({t}, "pending", {t} \X D)
           /\ AddWithPriority(t, D, B) => \E initial \in Waiting :
                MutateDependencyGraph({t}, initial, ({t} \X D) \cup (B \X {t}))
           /\ AddDependencies(t, D) =>
                MutateDependencyGraph({}, "pending", {t} \X D)
  BY DEF Add, AddWithPriority, AddDependencies, AddTaskWithBidirectionalDependencies, Waiting

\* Every step of the board keeps the invariant.
LEMMA StepIInv == IInv /\ [Next]_vars => IInv'
  <1> SUFFICES ASSUME IInv, [Next]_vars
               PROVE  IInv'
    OBVIOUS
  <1>1. ASSUME NEW t \in Task, NEW D \in SUBSET Task, Add(t, D)
        PROVE  IInv'
    <2>1. CASE CreateTask(t)
      BY <2>1, CreateIInv
    <2>2. CASE MutateDependencyGraph({t}, "pending", {t} \X D)
      BY <2>2, MutateIInv DEF Waiting
    <2> QED
      BY <1>1, <2>1, <2>2, GraphCalls
  <1>2. ASSUME NEW t \in Task, NEW D \in SUBSET Task, NEW B \in SUBSET Task,
               AddWithPriority(t, D, B)
        PROVE  IInv'
    <2>1. PICK initial \in Waiting :
            MutateDependencyGraph({t}, initial, ({t} \X D) \cup (B \X {t}))
      BY <1>2, GraphCalls
    <2>2. ({t} \X D) \cup (B \X {t}) \in SUBSET (Task \X Task)
      OBVIOUS
    <2> QED
      BY <2>1, <2>2, MutateIInv
  <1>3. ASSUME NEW t \in Task, NEW D \in SUBSET Task, AddDependencies(t, D)
        PROVE  IInv'
    <2>1. MutateDependencyGraph({}, "pending", {t} \X D)
      BY <1>3 DEF AddDependencies
    <2>2. {} \in SUBSET Task /\ {t} \X D \in SUBSET (Task \X Task)
      OBVIOUS
    <2> QED
      BY <2>1, <2>2, MutateIInv DEF Waiting
  <1>4. ASSUME NEW t \in Task, NEW m \in Member, ClaimTask(t, m)
        PROVE  IInv'
    BY <1>4, ClaimIInv
  <1>5. ASSUME NEW t \in Task, ResetTask(t)
        PROVE  IInv'
    BY <1>5, ResetIInv
  <1>6. ASSUME NEW t \in Task, ApprovePlanTask(t)
        PROVE  IInv'
    BY <1>6, ApproveIInv
  <1>7. ASSUME NEW t \in Task, CompleteTask(t)
        PROVE  IInv'
    <2>1. status[t] \in InProgress
      BY <1>7 DEF CompleteTask, IsValidTaskTransition, Exists, TaskTransitions,
           InProgress, IInv, TypeOK, TaskStatus
    <2> QED
      BY <1>7, <2>1, TerminateIInv DEF CompleteTask, Terminal
  <1>8. ASSUME NEW t \in Task, CancelTask(t)
        PROVE  IInv'
    <2>1. status[t] \in Waiting \cup InProgress
      BY <1>8 DEF CancelTask, IsValidTaskTransition, Exists, TaskTransitions,
           Waiting, InProgress, IInv, TypeOK, TaskStatus
    <2> QED
      BY <1>8, <2>1, TerminateIInv DEF CancelTask, Terminal
  <1>9. ASSUME NEW skip \in SUBSET Member, CancelAllTasks(skip)
        PROVE  IInv'
    <2> DEFINE victims == {t \in {u \in Task : Exists(u) /\ status[u] \notin Terminal} :
                             assignee[t] \notin skip}
    <2>1. \A t \in victims : status[t] \in Waiting \cup InProgress
      BY DEF Exists, Terminal, Waiting, InProgress, IInv, TypeOK, TaskStatus
    <2>2. victims \in SUBSET Task /\ TerminateTasks(victims, "cancelled")
      BY <1>9 DEF CancelAllTasks
    <2> HIDE DEF victims
    <2> QED
      BY <2>1, <2>2, TerminateIInv DEF Terminal
  <1>10. CASE UNCHANGED vars
    BY <1>10 DEF vars, IInv, TypeOK, ResolvedIffUpstreamTerminal,
       BlockedIffUpstreamOpen, WorkFollowsDependencies, OwnedIffStarted,
       DependenciesAcyclic, Exists, Upstream
  <1> QED
    BY <1>1, <1>2, <1>3, <1>4, <1>5, <1>6, <1>7, <1>8, <1>9, <1>10 DEF Next

\* The inductive invariant holds in every reachable state of the board, for
\* any number of tasks and members.
THEOREM BoardInvariant == Spec => []IInv
  BY InitIInv, StepIInv, PTL DEF Spec

\* Type correctness of the rows.
THEOREM TypeCorrect == Spec => []TypeOK
  <1>1. IInv => TypeOK
    BY DEF IInv
  <1> QED
    BY BoardInvariant, <1>1, PTL

\* No lost and no premature unblocking, on a board of any size.
THEOREM BlockedExactly == Spec => []BlockedIffUpstreamOpen
  <1>1. IInv => BlockedIffUpstreamOpen
    BY DEF IInv
  <1> QED
    BY BoardInvariant, <1>1, PTL

\* No member works on, or has completed, a task with an open upstream task.
THEOREM WorkInOrder == Spec => []WorkFollowsDependencies
  <1>1. IInv => WorkFollowsDependencies
    BY DEF IInv
  <1> QED
    BY BoardInvariant, <1>1, PTL

\* The cached flag of an edge is never stale, on a board of any size.
THEOREM FlagsAgree == Spec => []ResolvedIffUpstreamTerminal
  <1>1. IInv => ResolvedIffUpstreamTerminal
    BY DEF IInv
  <1> QED
    BY BoardInvariant, <1>1, PTL

\* No task is left with an owner it does not work for, and none is worked on
\* without an owner: every waiting task can be claimed once it is pending.
THEOREM OwnersMatchStatus == Spec => []OwnedIffStarted
  <1>1. IInv => OwnedIffStarted
    BY DEF IInv
  <1> QED
    BY BoardInvariant, <1>1, PTL

\* The dependency rows never form a cycle, whatever edges the calls add.
THEOREM GraphStaysAcyclic == Spec => []DependenciesAcyclic
  <1>1. IInv => DependenciesAcyclic
    BY DEF IInv
  <1> QED
    BY BoardInvariant, <1>1, PTL

\* The board is never stuck behind its own dependencies: take the open tasks
\* as the set S of Acyclic; the member it yields has no open upstream task,
\* so it is not blocked.
THEOREM AlwaysWorkable == Spec => []NeverAllBlocked
  <1>1. ASSUME IInv PROVE NeverAllBlocked
    <2> DEFINE S == {t \in Task : Exists(t) /\ status[t] \notin Terminal}
    <2> SUFFICES ASSUME S # {}
                 PROVE  \E t \in Task : status[t] \in {"pending"} \cup InProgress
      BY DEF NeverAllBlocked
    <2>1. PICK t \in S : \A u \in S : <<t, u>> \notin deps
      BY <1>1 DEF IInv, DependenciesAcyclic, Acyclic
    <2>2. \A u \in Task : <<t, u>> \in deps => status[u] \in Terminal
      BY <1>1, <2>1 DEF IInv, DependenciesAcyclic, Exists
    <2>3. status[t] # "blocked"
      BY <1>1, <2>2 DEF IInv, BlockedIffUpstreamOpen, Upstream, Waiting
    <2> QED
      BY <1>1, <2>3 DEF IInv, TypeOK, TaskStatus, Exists, Terminal, InProgress
  <1> QED
    BY BoardInvariant, <1>1, PTL

-----------------------------------------------------------------------------
(* What a step may never do.                                               *)

\* A claim only touches an unowned pending task, and every other operation
\* leaves the assignees alone or returns the task to the board.
LEMMA StepKeepsOwners ==
    ASSUME IInv, Next, NEW t \in Task,
           status[t] \in InProgress, status'[t] \in InProgress
    PROVE  assignee'[t] = assignee[t]
  <1>1. ASSUME NEW u \in Task, NEW m \in Member, ClaimTask(u, m)
        PROVE  assignee'[t] = assignee[t]
    <2>1. status[u] = "pending"
      BY <1>1 DEF ClaimTask, IsValidTaskTransition, Exists, TaskTransitions, IInv, TypeOK, TaskStatus
    <2> QED
      BY <1>1, <2>1 DEF ClaimTask, InProgress, IInv, TypeOK
  <1>2. ASSUME NEW u \in Task, ResetTask(u)
        PROVE  assignee'[t] = assignee[t]
    BY <1>2 DEF ResetTask, InProgress, IInv, TypeOK
  <1>3. ASSUME NEW u \in Task, CreateTask(u) \/ ApprovePlanTask(u)
        PROVE  assignee' = assignee
    BY <1>3 DEF CreateTask, ApprovePlanTask
  <1>4. ASSUME NEW new, NEW initial, NEW edges, MutateDependencyGraph(new, initial, edges)
        PROVE  assignee' = assignee
    BY <1>4 DEF MutateDependencyGraph
  <1>5. ASSUME NEW C, NEW target, TerminateTasks(C, target)
        PROVE  assignee' = assignee
    BY <1>5 DEF TerminateTasks
  <1>6. ASSUME NEW u \in Task, NEW D \in SUBSET Task, Add(u, D) \/ AddDependencies(u, D)
        PROVE  assignee' = assignee
    BY <1>3, <1>4, <1>6 DEF Add, AddDependencies
  <1>7. ASSUME NEW u \in Task, NEW D \in SUBSET Task, NEW B \in SUBSET Task,
               AddWithPriority(u, D, B)
        PROVE  assignee' = assignee
    BY <1>4, <1>7 DEF AddWithPriority, AddTaskWithBidirectionalDependencies
  <1>8. ASSUME NEW u \in Task, CompleteTask(u) \/ CancelTask(u)
        PROVE  assignee' = assignee
    BY <1>5, <1>8 DEF CompleteTask, CancelTask
  <1>9. ASSUME NEW skip \in SUBSET Member, CancelAllTasks(skip)
        PROVE  assignee' = assignee
    BY <1>5, <1>9 DEF CancelAllTasks
  <1> QED
    BY <1>1, <1>2, <1>3, <1>6, <1>7, <1>8, <1>9 DEF Next

\* A graph mutation keeps ended tasks as they are and only adds rows.
LEMMA MutateKeepsTerminal ==
    ASSUME IInv, NEW new, NEW initial, NEW edges,
           MutateDependencyGraph(new, initial, edges)
    PROVE  /\ \A t \in Task : status[t] \in Terminal => status'[t] = status[t]
           /\ deps \subseteq deps' /\ resolved \subseteq resolved'
  <1> DEFINE staged   == [t \in Task |-> IF t \in new THEN initial ELSE status[t]]
             newEdges == edges \ deps
             d        == deps \cup newEdges
             r        == resolved \cup {e \in newEdges : staged[e[2]] \in Terminal}
             ids      == new \cup Sources(Task, newEdges)
  <1>1. /\ \A t \in new : ~ Exists(t)
        /\ status' = RefreshStatus(staged, d, r, ids)
        /\ deps' = d /\ resolved' = r
    BY DEF MutateDependencyGraph, AcceptsDependencies, InitialResolved, Waiting, Terminal
  <1>2. ASSUME NEW t \in Task, status[t] \in Terminal
        PROVE  staged[t] = status[t]
    BY <1>1, <1>2 DEF Exists, Terminal
  <1>3. deps \subseteq d /\ resolved \subseteq r
    OBVIOUS
  <1> HIDE DEF staged, d, r, ids
  <1>4. ASSUME NEW t \in Task, status[t] \in Terminal
        PROVE  status'[t] = status[t]
    <2>1. staged[t] \notin Waiting
      BY <1>2, <1>4 DEF Terminal, Waiting
    <2> QED
      BY <1>1, <1>2, <1>4, <2>1, RefreshStatusKeeps
  <1> QED
    BY <1>1, <1>3, <1>4

\* Ending open tasks keeps the tasks that ended before.
LEMMA TerminateKeepsTerminal ==
    ASSUME IInv, NEW C \in SUBSET Task, NEW target,
           \A t \in C : status[t] \notin Terminal,
           TerminateTasks(C, target)
    PROVE  /\ \A t \in Task : status[t] \in Terminal => status'[t] = status[t]
           /\ deps \subseteq deps' /\ resolved \subseteq resolved'
  <1> DEFINE closed == [t \in Task |-> IF t \in C THEN target ELSE status[t]]
             r      == resolved \cup {e \in deps : e[2] \in C}
             ids    == Downstream(Task, deps, C)
  <1>1. /\ status' = RefreshStatus(closed, deps, r, ids)
        /\ resolved' = r /\ deps' = deps
    BY DEF TerminateTasks
  <1>2. resolved \subseteq r
    OBVIOUS
  <1>3. ASSUME NEW t \in Task, status[t] \in Terminal
        PROVE  closed[t] = status[t] /\ closed[t] \notin Waiting
    BY <1>3 DEF Terminal, Waiting
  <1> HIDE DEF closed, r, ids
  <1>4. ASSUME NEW t \in Task, status[t] \in Terminal
        PROVE  status'[t] = status[t]
    BY <1>1, <1>3, <1>4, RefreshStatusKeeps
  <1> QED
    BY <1>1, <1>2, <1>4

\* No step changes how a task ended or forgets a dependency.
LEMMA StepKeepsTerminal ==
    ASSUME IInv, Next
    PROVE  /\ \A t \in Task : status[t] \in Terminal => status'[t] = status[t]
           /\ deps \subseteq deps' /\ resolved \subseteq resolved'
  <1> DEFINE Kept == /\ \A t \in Task : status[t] \in Terminal => status'[t] = status[t]
                     /\ deps \subseteq deps' /\ resolved \subseteq resolved'
  <1>1. ASSUME NEW u \in Task, CreateTask(u)
        PROVE  Kept
    BY <1>1 DEF CreateTask, Exists, Terminal, IInv, TypeOK
  <1>2. ASSUME NEW u \in Task,
               \/ \E D \in SUBSET Task : Add(u, D)
               \/ \E D, B \in SUBSET Task : AddWithPriority(u, D, B)
               \/ \E D \in SUBSET Task : AddDependencies(u, D)
        PROVE  Kept
    <2> HIDE DEF Kept
    <2>1. ASSUME NEW new, NEW initial, NEW edges, MutateDependencyGraph(new, initial, edges)
          PROVE  Kept
      BY <2>1, MutateKeepsTerminal DEF Kept
    <2>2. CASE \E D \in SUBSET Task : Add(u, D)
      BY <1>1, <2>1, <2>2 DEF Add
    <2>3. CASE \E D, B \in SUBSET Task : AddWithPriority(u, D, B)
      BY <2>1, <2>3 DEF AddWithPriority, AddTaskWithBidirectionalDependencies
    <2>4. CASE \E D \in SUBSET Task : AddDependencies(u, D)
      BY <2>1, <2>4 DEF AddDependencies
    <2> QED
      BY <1>2, <2>2, <2>3, <2>4
  <1>3. ASSUME NEW u \in Task,
               (\E m \in Member : ClaimTask(u, m)) \/ ResetTask(u) \/ ApprovePlanTask(u)
        PROVE  Kept
    <2>1. status[u] \notin Terminal
      BY <1>3 DEF ClaimTask, ResetTask, ApprovePlanTask, IsValidTaskTransition, Exists,
         TaskTransitions, Terminal, IInv, TypeOK, TaskStatus
    <2>2. \A t \in Task : t # u => status'[t] = status[t]
      BY <1>3 DEF ClaimTask, ResetTask, ApprovePlanTask, IInv, TypeOK
    <2>3. deps' = deps /\ resolved' = resolved
      BY <1>3 DEF ClaimTask, ResetTask, ApprovePlanTask
    <2> QED
      BY <2>1, <2>2, <2>3
  <1>4. ASSUME NEW u \in Task, CompleteTask(u) \/ CancelTask(u)
        PROVE  Kept
    <2>1. status[u] \notin Terminal
      BY <1>4 DEF CompleteTask, CancelTask, IsValidTaskTransition, Exists,
         TaskTransitions, Terminal, IInv, TypeOK, TaskStatus
    <2>2. \E target : TerminateTasks({u}, target)
      BY <1>4 DEF CompleteTask, CancelTask
    <2> QED
      BY <2>1, <2>2, TerminateKeepsTerminal
  <1>5. ASSUME NEW skip \in SUBSET Member, CancelAllTasks(skip)
        PROVE  Kept
    <2> DEFINE victims == {t \in {u \in Task : Exists(u) /\ status[u] \notin Terminal} :
                             assignee[t] \notin skip}
    <2>1. victims \in SUBSET Task /\ \A t \in victims : status[t] \notin Terminal
      OBVIOUS
    <2>2. TerminateTasks(victims, "cancelled")
      BY <1>5 DEF CancelAllTasks
    <2> HIDE DEF victims
    <2> QED
      BY <2>1, <2>2, TerminateKeepsTerminal
  <1> HIDE DEF Kept
  <1>6. Kept
    BY <1>2, <1>3, <1>4, <1>5 DEF Next
  <1> QED
    BY <1>6 DEF Kept

\* A member keeps the task it works on, in every behaviour of the board.
THEOREM OwnersKept == Spec => NoTaskIsStolen
  <1>1. IInv /\ [Next]_vars =>
          [\A t \in Task : (status[t] \in InProgress /\ status'[t] \in InProgress)
                => assignee'[t] = assignee[t]]_vars
    BY StepKeepsOwners
  <1> QED
    BY <1>1, BoardInvariant, PTL DEF Spec, NoTaskIsStolen

\* Ended tasks stay ended and no dependency row is lost or reopened.
THEOREM EndIsFinal == Spec => TerminalIsFinal
  <1>1. IInv /\ [Next]_vars =>
          [/\ \A t \in Task : status[t] \in Terminal => status'[t] = status[t]
           /\ deps \subseteq deps' /\ resolved \subseteq resolved']_vars
    BY StepKeepsTerminal
  <1> QED
    BY <1>1, BoardInvariant, PTL DEF Spec, TerminalIsFinal

\* A task that becomes blocked waits for something open; it was claimable, so nothing
\* it waited for was open, and what has ended stays ended: the edge is new.
LEMMA NewEdgeBlocks ==
    ASSUME IInv, IInv', Next, NEW t \in Task, status[t] = "pending", status'[t] = "blocked"
    PROVE  \E u \in Task : <<t, u>> \in deps' \ deps /\ status'[u] \notin Terminal
  <1>1. PICK u \in Task : <<t, u>> \in deps' /\ status'[u] \notin Terminal
    BY DEF IInv, BlockedIffUpstreamOpen, Upstream, Waiting
  <1>2. ASSUME <<t, u>> \in deps
        PROVE  FALSE
    <2>1. status[u] \in Terminal
      BY <1>2 DEF IInv, BlockedIffUpstreamOpen, Upstream, Waiting
    <2> QED
      BY <1>1, <2>1, StepKeepsTerminal
  <1> QED
    BY <1>1, <1>2

\* Finishing, resetting and cancelling never block a task, on a board of any size: only
\* a new dependency does.
THEOREM BlockedByNewEdges == Spec => OnlyNewEdgesBlock
  <1>1. IInv /\ IInv' /\ [Next]_vars =>
          [\A t \in Task : (status[t] = "pending" /\ status'[t] = "blocked")
                => \E u \in Task : <<t, u>> \in deps' \ deps /\ status'[u] \notin Terminal]_vars
    BY NewEdgeBlocks
  <1> QED
    BY <1>1, BoardInvariant, PTL DEF Spec, OnlyNewEdgesBlock

-----------------------------------------------------------------------------
(* The refinement of DependencyOrder.                                      *)

\* The statuses seen through the mapping.
LEMMA PhaseFact ==
    ASSUME NEW s \in TaskStatus \cup {"absent"}
    PROVE  /\ PhaseOf[s] = "unknown" <=> s = "absent"
           /\ PhaseOf[s] = "waiting" <=> s \in Waiting
           /\ PhaseOf[s] = "working" <=> s \in InProgress
           /\ PhaseOf[s] = "done" <=> s = "completed"
           /\ PhaseOf[s] = "dropped" <=> s = "cancelled"
  BY DEF PhaseOf, TaskStatus, Waiting, InProgress

\* The mapped variable.
phase == [t \in Task |-> PhaseOf[status[t]]]

\* Writing one status moves one phase.
LEMMA PhaseOfMove ==
    ASSUME TypeOK, NEW t \in Task, NEW target,
           status' = [status EXCEPT ![t] = target]
    PROVE  phase' = [phase EXCEPT ![t] = PhaseOf[target]]
  <1>1. \A x \in Task : status'[x] = IF x = t THEN target ELSE status[x]
    BY DEF TypeOK
  <1>2. [phase EXCEPT ![t] = PhaseOf[target]]
          = [x \in Task |-> IF x = t THEN PhaseOf[target] ELSE PhaseOf[status[x]]]
    BY DEF phase
  <1>3. phase' = [x \in Task |-> PhaseOf[status'[x]]]
    BY DEF phase
  <1>4. \A x \in Task : PhaseOf[status'[x]]
                        = IF x = t THEN PhaseOf[target] ELSE PhaseOf[status[x]]
    BY <1>1
  <1> QED
    BY <1>2, <1>3, <1>4

\* A graph mutation is a Submit of the abstract specification.
LEMMA MutateIsSubmit ==
    ASSUME IInv, IInv', NEW new \in SUBSET Task, NEW initial \in Waiting,
           NEW edges \in SUBSET (Task \X Task),
           MutateDependencyGraph(new, initial, edges)
    PROVE  Order!Submit(new, edges)
  <1> DEFINE staged == [t \in Task |-> IF t \in new THEN initial ELSE status[t]]
             newEdges == edges \ deps
             d == deps \cup newEdges
             r == resolved \cup {e \in newEdges : staged[e[2]] \in Terminal}
             ids == new \cup Sources(Task, newEdges)
  <1>1. /\ deps' = d /\ assignee' = assignee
        /\ status' = RefreshStatus(staged, d, r, ids)
        /\ \A t \in new : status[t] = "absent"
        /\ \A e \in edges : staged[e[1]] \in Waiting /\ staged[e[2]] # "absent"
        /\ Acyclic(Task, d)
    <2>1. deps \cup edges = d
      OBVIOUS
    <2> QED
      BY <2>1 DEF MutateDependencyGraph, Exists, AcceptsDependencies, CheckedEdges,
         InitialResolved, Waiting, Terminal
  <1>2. d = deps \cup edges
    OBVIOUS
  <1>3. \A t \in Task : /\ status[t] \in TaskStatus \cup {"absent"}
                        /\ status'[t] \in TaskStatus \cup {"absent"}
    BY DEF IInv, TypeOK
  <1>4. ASSUME NEW t \in Task
        PROVE  PhaseOf[status'[t]] = IF t \in new THEN "waiting" ELSE PhaseOf[status[t]]
    <2>1. CASE staged[t] \in Waiting /\ t \in ids
      <3>1. status'[t] \in Waiting
        <4> HIDE DEF staged, d, r, ids
        <4>1. IsRefreshed(status', d, r, t)
          BY <1>1, <2>1, RefreshStatusSets
        <4> QED
          BY <4>1 DEF IsRefreshed
      <3>2. t \in new \/ status[t] \in Waiting
        BY <2>1
      <3> QED
        BY <1>3, <3>1, <3>2, PhaseFact
    <2>2. CASE ~ (staged[t] \in Waiting /\ t \in ids)
      <3>1. status'[t] = staged[t]
        <4> HIDE DEF staged, d, r, ids
        <4> QED
          BY <1>1, <2>2, RefreshStatusKeeps
      <3> QED
        BY <2>2, <3>1
    <2> QED
      BY <2>1, <2>2
  <1>5. phase' = [t \in Task |-> IF t \in new THEN "waiting" ELSE phase[t]]
    BY <1>4 DEF phase
  <1>6. \A t \in new : phase[t] = "unknown"
    BY <1>1, <1>3, PhaseFact DEF phase
  <1>7. ASSUME NEW e \in edges
        PROVE  /\ e[1] \in new \/ phase[e[1]] = "waiting"
               /\ e[2] \in new \/ phase[e[2]] # "unknown"
    <2>1. e[1] \in Task /\ e[2] \in Task
      OBVIOUS
    <2>2. /\ e[1] \in new \/ status[e[1]] \in Waiting
          /\ e[2] \in new \/ status[e[2]] # "absent"
      BY <1>1, <2>1
    <2> QED
      BY <1>3, <2>1, <2>2, PhaseFact DEF phase
  <1>8. Order!Acyclic(Task, deps \cup edges)
    BY <1>1, <1>2 DEF Acyclic, Order!Acyclic
  <1> HIDE DEF d
  <1> QED
    BY <1>1, <1>2, <1>5, <1>6, <1>7, <1>8 DEF Order!Submit, phase

\* Ending tasks is a Finish of one item or a Drop of several.
LEMMA TerminateIsDropOrFinish ==
    ASSUME IInv, NEW C \in SUBSET Task, NEW target \in Terminal,
           \A t \in C : status[t] \in Waiting \cup InProgress,
           TerminateTasks(C, target)
    PROVE  /\ phase' = [t \in Task |-> IF t \in C THEN PhaseOf[target] ELSE phase[t]]
           /\ \A t \in C : phase[t] \in {"waiting", "working"}
           /\ UNCHANGED <<deps, assignee>>
  <1> DEFINE closed == [t \in Task |-> IF t \in C THEN target ELSE status[t]]
             r == resolved \cup {e \in deps : e[2] \in C}
             ids == Downstream(Task, deps, C)
  <1>1. /\ status' = RefreshStatus(closed, deps, r, ids)
        /\ UNCHANGED <<deps, assignee>>
    BY DEF TerminateTasks
  <1>2. \A t \in Task : status[t] \in TaskStatus \cup {"absent"}
    BY DEF IInv, TypeOK
  <1>3. ASSUME NEW t \in Task
        PROVE  PhaseOf[status'[t]] = IF t \in C THEN PhaseOf[target] ELSE PhaseOf[status[t]]
    <2>1. CASE closed[t] \in Waiting /\ t \in ids
      <3>1. status'[t] \in Waiting
        <4> HIDE DEF closed, r, ids
        <4>1. IsRefreshed(status', deps, r, t)
          BY <1>1, <2>1, RefreshStatusSets
        <4> QED
          BY <4>1 DEF IsRefreshed
      <3>2. t \notin C /\ status[t] \in Waiting
        BY <2>1 DEF Waiting, Terminal
      <3>3. status'[t] \in TaskStatus
        BY <3>1 DEF Waiting, TaskStatus
      <3> QED
        BY <1>2, <3>1, <3>2, <3>3, PhaseFact
    <2>2. CASE ~ (closed[t] \in Waiting /\ t \in ids)
      <3>1. status'[t] = closed[t]
        <4> HIDE DEF closed, r, ids
        <4> QED
          BY <1>1, <2>2, RefreshStatusKeeps
      <3> QED
        BY <3>1
    <2> QED
      BY <2>1, <2>2
  <1>4. phase' = [t \in Task |-> IF t \in C THEN PhaseOf[target] ELSE phase[t]]
    BY <1>3 DEF phase
  <1>5. \A t \in C : phase[t] \in {"waiting", "working"}
    BY <1>2, PhaseFact DEF phase
  <1> QED
    BY <1>1, <1>4, <1>5

\* An empty board is an initial state of the abstract specification.
LEMMA InitRefines == Init => Order!Init
  BY DEF Init, Order!Init, PhaseOf

\* Every step of the board is a step of DependencyOrder or invisible.
LEMMA StepRefines == IInv /\ IInv' /\ [Next]_vars => [Order!Next]_(Order!vars)
  <1> SUFFICES ASSUME IInv, IInv', [Next]_vars
               PROVE  [Order!Next]_(Order!vars)
    OBVIOUS
  <1> USE DEF Order!vars, phase
  <1>0. ASSUME NEW new \in SUBSET Task, NEW edges \in SUBSET (Task \X Task),
               Order!Submit(new, edges)
        PROVE  Order!Next
    <2>1. deps' = deps \cup edges
      BY <1>0 DEF Order!Submit
    <2>2. deps \cup (deps' \ deps) = deps \cup edges /\ deps' \ deps \subseteq edges
      BY <2>1
    <2>3. Order!Submit(new, deps' \ deps)
      BY <1>0, <2>2 DEF Order!Submit
    <2> QED
      BY <2>2, <2>3 DEF Order!Next
  <1>1. ASSUME NEW new \in SUBSET Task, NEW initial \in Waiting,
               NEW edges \in SUBSET (Task \X Task),
               MutateDependencyGraph(new, initial, edges)
        PROVE  Order!Next
    BY <1>0, <1>1, MutateIsSubmit
  <1>2. ASSUME NEW t \in Task, CreateTask(t)
        PROVE  Order!Next
    <2>1. Order!Submit({t}, {})
      <3>1. Order!Acyclic(Task, deps \cup {})
        BY DEF Acyclic, Order!Acyclic, IInv, DependenciesAcyclic
      <3>2. phase' = [x \in Task |-> IF x \in {t} THEN "waiting" ELSE phase[x]]
        BY <1>2 DEF CreateTask, PhaseOf, IInv, TypeOK
      <3>3. phase[t] = "unknown"
        BY <1>2 DEF CreateTask, Exists, PhaseOf
      <3> QED
        BY <1>2, <3>1, <3>2, <3>3 DEF CreateTask, Order!Submit
    <2> QED
      BY <2>1, <1>0
  <1>3. ASSUME NEW t \in Task, NEW D \in SUBSET Task, Add(t, D)
        PROVE  Order!Next
    <2>1. CASE CreateTask(t)
      BY <2>1, <1>2
    <2>2. CASE MutateDependencyGraph({t}, "pending", {t} \X D)
      <3>1. {t} \in SUBSET Task /\ {t} \X D \in SUBSET (Task \X Task)
        OBVIOUS
      <3> QED
        BY <2>2, <3>1, <1>1 DEF Waiting
    <2> QED
      BY <1>3, <2>1, <2>2, GraphCalls
  <1>4. ASSUME NEW t \in Task, NEW D \in SUBSET Task, NEW B \in SUBSET Task,
               AddWithPriority(t, D, B)
        PROVE  Order!Next
    <2>1. PICK initial \in Waiting :
            MutateDependencyGraph({t}, initial, ({t} \X D) \cup (B \X {t}))
      BY <1>4, GraphCalls
    <2>2. ({t} \X D) \cup (B \X {t}) \in SUBSET (Task \X Task)
      OBVIOUS
    <2> QED
      BY <2>1, <2>2, <1>1
  <1>5. ASSUME NEW t \in Task, NEW D \in SUBSET Task, AddDependencies(t, D)
        PROVE  Order!Next
    <2>1. MutateDependencyGraph({}, "pending", {t} \X D)
      BY <1>5 DEF AddDependencies
    <2>2. {} \in SUBSET Task /\ {t} \X D \in SUBSET (Task \X Task)
      OBVIOUS
    <2> QED
      BY <2>1, <2>2, <1>1 DEF Waiting
  <1>6. ASSUME NEW t \in Task, NEW m \in Member, ClaimTask(t, m)
        PROVE  Order!Next
    <2>1. status[t] = "pending"
      BY <1>6 DEF ClaimTask, IsValidTaskTransition, Exists, TaskTransitions,
           IInv, TypeOK, TaskStatus
    <2>2. \A u \in Task : <<t, u>> \in deps => status[u] \in Terminal
      BY <2>1 DEF IInv, BlockedIffUpstreamOpen, Upstream, Waiting
    <2>3. \A u \in Order!Upstream(Task, deps, t) : phase[u] \in Order!Over
      BY <2>2 DEF Order!Upstream, Order!Over, Terminal, PhaseOf
    <2>4. phase[t] = "waiting" /\ phase' = [phase EXCEPT ![t] = "working"]
      <3>1. phase' = [phase EXCEPT ![t] = PhaseOf["claimed"]]
        BY <1>6, PhaseOfMove DEF ClaimTask, IInv
      <3> QED
        BY <2>1, <3>1 DEF PhaseOf
    <2>5. Order!Start(t, m)
      BY <1>6, <2>3, <2>4 DEF Order!Start, ClaimTask
    <2> QED
      BY <2>5 DEF Order!Next
  <1>7. ASSUME NEW t \in Task, ResetTask(t)
        PROVE  Order!Next
    <2>1. phase[t] = "working" /\ phase' = [phase EXCEPT ![t] = "waiting"]
      <3>1. status[t] = "claimed" /\ phase' = [phase EXCEPT ![t] = PhaseOf["pending"]]
        BY <1>7, PhaseOfMove DEF ResetTask, IInv
      <3> QED
        BY <3>1 DEF PhaseOf
    <2>2. Order!GiveBack(t)
      BY <1>7, <2>1 DEF Order!GiveBack, ResetTask
    <2> QED
      BY <2>2 DEF Order!Next
  <1>8. ASSUME NEW t \in Task, ApprovePlanTask(t)
        PROVE  UNCHANGED Order!vars
    <2>1. status[t] = "claimed"
      BY <1>8 DEF ApprovePlanTask, IsValidTaskTransition, Exists, TaskTransitions,
           IInv, TypeOK, TaskStatus
    <2>2. phase' = phase
      BY <1>8, <2>1 DEF ApprovePlanTask, PhaseOf, IInv, TypeOK
    <2> QED
      BY <1>8, <2>2 DEF ApprovePlanTask
  <1>9. ASSUME NEW t \in Task, CompleteTask(t)
        PROVE  Order!Next
    <2>1. status[t] \in InProgress /\ TerminateTasks({t}, "completed")
      BY <1>9 DEF CompleteTask, IsValidTaskTransition, Exists, TaskTransitions,
           InProgress, IInv, TypeOK, TaskStatus
    <2>2. /\ phase' = [x \in Task |-> IF x \in {t} THEN PhaseOf["completed"] ELSE phase[x]]
          /\ UNCHANGED <<deps, assignee>>
      BY <2>1, TerminateIsDropOrFinish DEF Terminal
    <2>3. phase[t] = "working" /\ PhaseOf["completed"] = "done"
      BY <2>1 DEF PhaseOf, InProgress
    <2>4. Order!Finish(t)
      BY <2>2, <2>3 DEF Order!Finish
    <2> QED
      BY <2>4 DEF Order!Next
  <1>10. ASSUME NEW C \in SUBSET Task, \A t \in C : status[t] \in Waiting \cup InProgress,
                TerminateTasks(C, "cancelled")
         PROVE  Order!Next
    <2>1. Order!Drop(C)
      BY <1>10, TerminateIsDropOrFinish DEF Order!Drop, Terminal, PhaseOf
    <2> QED
      BY <2>1 DEF Order!Next
  <1>11. ASSUME NEW t \in Task, CancelTask(t)
         PROVE  Order!Next
    <2>1. status[t] \in Waiting \cup InProgress
      BY <1>11 DEF CancelTask, IsValidTaskTransition, Exists, TaskTransitions,
           Waiting, InProgress, IInv, TypeOK, TaskStatus
    <2> QED
      BY <1>10, <1>11, <2>1 DEF CancelTask
  <1>12. ASSUME NEW skip \in SUBSET Member, CancelAllTasks(skip)
         PROVE  Order!Next
    <2> DEFINE victims == {t \in {u \in Task : Exists(u) /\ status[u] \notin Terminal} :
                             assignee[t] \notin skip}
    <2>1. \A t \in victims : status[t] \in Waiting \cup InProgress
      BY DEF Exists, Terminal, Waiting, InProgress, IInv, TypeOK, TaskStatus
    <2>2. victims \in SUBSET Task /\ TerminateTasks(victims, "cancelled")
      BY <1>12 DEF CancelAllTasks
    <2> HIDE DEF victims
    <2> QED
      BY <2>1, <2>2, <1>10
  <1>13. CASE UNCHANGED vars
    BY <1>13 DEF vars
  <1> QED
    BY <1>3, <1>4, <1>5, <1>6, <1>7, <1>8, <1>9, <1>11, <1>12, <1>13 DEF Next

\* TaskBoard implements DependencyOrder, for every set of tasks and members.
THEOREM BoardImplementsOrder == Spec => ImplementsOrder
  <1>1. Spec => []IInv
    BY BoardInvariant
  <1> QED
    BY <1>1, InitRefines, StepRefines, PTL DEF Spec, ImplementsOrder, Order!Spec
=============================================================================
