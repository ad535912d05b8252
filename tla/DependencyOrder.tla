-------------------------- MODULE DependencyOrder --------------------------
(***************************************************************************)
(* What the task board promises to its users, without statuses, resolved   *)
(* flags or blocked tasks: work items with dependencies, where an item is  *)
(* started only when everything it needs is over.  TaskBoard implements    *)
(* this specification.                                                     *)
(***************************************************************************)
EXTENDS DependencyGraph

CONSTANTS Task, Member, NoOne

VARIABLES
    phase,   \* where each item stands
    needs,   \* the dependencies submitted so far
    worker   \* who works, or last worked, on an item

vars == <<phase, needs, worker>>

Phases == {"unknown", "waiting", "working", "done", "dropped"}
Over == {"done", "dropped"}

\* New items and new dependencies, of items that are new or still wait.
Submit(new, edges) ==
    /\ \A t \in new : phase[t] = "unknown"
    /\ \A e \in edges :
        /\ e[1] \in new \/ phase[e[1]] = "waiting"
        /\ e[2] \in new \/ phase[e[2]] # "unknown"
    /\ Acyclic(Task, needs \cup edges)
    /\ phase' = [t \in Task |-> IF t \in new THEN "waiting" ELSE phase[t]]
    /\ needs' = needs \cup edges
    /\ UNCHANGED worker

Start(t, m) ==
    /\ phase[t] = "waiting"
    /\ \A u \in Upstream(Task, needs, t) : phase[u] \in Over
    /\ phase' = [phase EXCEPT ![t] = "working"]
    /\ worker' = [worker EXCEPT ![t] = m]
    /\ UNCHANGED needs

GiveBack(t) ==
    /\ phase[t] = "working"
    /\ phase' = [phase EXCEPT ![t] = "waiting"]
    /\ worker' = [worker EXCEPT ![t] = NoOne]
    /\ UNCHANGED needs

Finish(t) ==
    /\ phase[t] = "working"
    /\ phase' = [phase EXCEPT ![t] = "done"]
    /\ UNCHANGED <<needs, worker>>

Drop(items) ==
    /\ \A t \in items : phase[t] \in {"waiting", "working"}
    /\ phase' = [t \in Task |-> IF t \in items THEN "dropped" ELSE phase[t]]
    /\ UNCHANGED <<needs, worker>>

Init ==
    /\ phase = [t \in Task |-> "unknown"]
    /\ needs = {}
    /\ worker = [t \in Task |-> NoOne]

Next ==
    \/ /\ needs' \ needs \subseteq Task \X Task
       /\ \E new \in SUBSET Task : Submit(new, needs' \ needs)
    \/ \E t \in Task, m \in Member : Start(t, m)
    \/ \E t \in Task : GiveBack(t)
    \/ \E t \in Task : Finish(t)
    \/ \E items \in SUBSET Task : Drop(items)

Spec == Init /\ [][Next]_vars
=============================================================================
