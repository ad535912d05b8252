-------------------------- MODULE DependencyGraph --------------------------
(***************************************************************************)
(* Vocabulary of the task dependency graph shared by the task-board        *)
(* modules.  An edge <<t, u>> reads "t depends on u", the direction of a   *)
(* row of team_task_dependency (models.go, TeamTaskDependencyBase).        *)
(***************************************************************************)

\* A finite graph has no cycle exactly when every nonempty set of nodes has
\* a member with no edge into that set.
Acyclic(N, E) ==
    \A S \in (SUBSET N) \ {{}} : {t \in S : \A u \in S : <<t, u>> \notin E} # {}

Sources(N, E) == {t \in N : \E u \in N : <<t, u>> \in E}

Upstream(N, E, t) == {u \in N : <<t, u>> \in E}

Downstream(N, E, S) == {t \in N : \E u \in S : <<t, u>> \in E}

=============================================================================
