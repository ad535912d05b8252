---------------------------- MODULE MemberStatus ----------------------------
(***************************************************************************)
(* The column status of table team_member and the goroutines that write    *)
(* it: the member itself, the leader's tools, the spawn and the recovery   *)
(* manager.  The memory backend checks a transition and writes it under    *)
(* one mutex; the SQL backend reads the row in one statement and writes it *)
(* in another, outside any transaction.  Starting and shutting down go     *)
(* through a compare-and-swap in both.                                     *)
(***************************************************************************)
CONSTANTS
    Member,
    Caller  \* goroutines that may be inside a status call

VARIABLES
    backend,  \* the database the team was configured with; never changes
    status,   \* column status of each member
    job       \* what each caller is in the middle of

vars == <<backend, status, job>>

MemberTransitions ==
    [unstarted          |-> {"starting", "ready", "shut_down", "error"},
     starting           |-> {"ready", "unstarted", "shut_down", "error"},
     ready              |-> {"ready", "busy", "paused", "stopped",
                             "shutdown_requested", "shut_down", "error"},
     busy               |-> {"ready", "paused", "stopped", "shutdown_requested", "error"},
     paused             |-> {"ready", "restarting", "stopped",
                             "shutdown_requested", "shut_down", "error"},
     stopped            |-> {"ready", "restarting", "shutdown_requested", "shut_down", "error"},
     restarting         |-> {"ready", "stopped", "error", "shut_down"},
     shutdown_requested |-> {"shut_down", "error"},
     shut_down          |-> {"restarting"},
     error              |-> {"restarting", "ready", "stopped",
                             "shutdown_requested", "shut_down"}]

IsValidMemberTransition(from, to) == to \in MemberTransitions[from]

\* The statuses the callers of UpdateMemberStatus pass.
Targets == {"ready", "busy", "paused", "stopped", "shut_down", "restarting", "error"}

Idle == [op |-> "none"]

\* UpdateMemberStatus; a transition the table forbids changes nothing.
UpdateMemberStatus(c, m, target) ==
    /\ job[c] = Idle
    /\ IsValidMemberTransition(status[m], target)
    /\ \/ /\ backend = "memory"
          /\ status' = [status EXCEPT ![m] = target]
          /\ UNCHANGED job
       \/ /\ backend = "sql"
          /\ job' = [job EXCEPT ![c] = [op |-> "update", member |-> m, target |-> target]]
          /\ UNCHANGED status

\* Its second statement in the SQL backend.
WriteStatus(c) ==
    /\ job[c].op = "update"
    /\ status' = [status EXCEPT ![job[c].member] = job[c].target]
    /\ job' = [job EXCEPT ![c] = Idle]

TryTransitionMemberStatus(m, from, to) ==
    status' = IF status[m] = from THEN [status EXCEPT ![m] = to] ELSE status

\* Variants: a member that is already starting is started again; the row is
\* written by whoever finishes the spawn.
StartupMemberTwice(c, m) ==
    /\ job[c] = Idle
    /\ status[m] \in {"unstarted", "starting"}
    /\ status' = [status EXCEPT ![m] = "starting"]
    /\ job' = [job EXCEPT ![c] = [op |-> "spawn", member |-> m]]

StartupMemberLate(c, m) ==
    /\ job[c] = Idle
    /\ status[m] = "unstarted"
    /\ job' = [job EXCEPT ![c] = [op |-> "spawn", member |-> m]]
    /\ UNCHANGED status

\* StartupMember: who loses the first CAS returns; the winner spawns.
StartupMember(c, m) ==
    /\ job[c] = Idle
    /\ status[m] = "unstarted"
    /\ TryTransitionMemberStatus(m, "unstarted", "starting")
    /\ job' = [job EXCEPT ![c] = [op |-> "spawn", member |-> m]]

SpawnSucceeds(c) ==
    /\ job[c].op = "spawn"
    /\ job' = [job EXCEPT ![c] = Idle]
    /\ UNCHANGED status

SpawnFails(c) ==
    /\ job[c].op = "spawn"
    /\ TryTransitionMemberStatus(job[c].member, "starting", "unstarted")
    /\ job' = [job EXCEPT ![c] = Idle]

\* ShutdownMember reads and validates, then swaps what it read.
ShutdownMember(c, m) ==
    /\ job[c] = Idle
    /\ status[m] \notin {"shut_down", "shutdown_requested"}
    /\ IsValidMemberTransition(status[m], "shutdown_requested")
    /\ job' = [job EXCEPT ![c] = [op |-> "shutdown", member |-> m, from |-> status[m]]]
    /\ UNCHANGED status

RequestShutdown(c) ==
    /\ job[c].op = "shutdown"
    /\ TryTransitionMemberStatus(job[c].member, job[c].from, "shutdown_requested")
    /\ job' = [job EXCEPT ![c] = Idle]

Init ==
    /\ backend \in {"memory", "sql"}
    /\ status = [m \in Member |-> "unstarted"]
    /\ job = [c \in Caller |-> Idle]

Next ==
    /\ \E c \in Caller :
        \/ \E m \in Member :
            \/ \E target \in Targets : UpdateMemberStatus(c, m, target)
            \/ StartupMember(c, m)
            \/ ShutdownMember(c, m)
        \/ WriteStatus(c)
        \/ SpawnSucceeds(c)
        \/ SpawnFails(c)
        \/ RequestShutdown(c)
    /\ UNCHANGED backend

Spec == Init /\ [][Next]_vars

-----------------------------------------------------------------------------
(* Properties.                                                             *)

\* Statuses of the table; what a caller remembers between two statements is
\* a status that callers may ask for, or one that a row can have.
TypeOK ==
    /\ backend \in {"memory", "sql"}
    /\ status \in [Member -> DOMAIN MemberTransitions]
    /\ job \in [Caller ->
            {Idle}
            \cup [op : {"update"}, member : Member, target : Targets]
            \cup [op : {"spawn"}, member : Member]
            \cup [op : {"shutdown"}, member : Member, from : DOMAIN MemberTransitions]]

\* A member is spawned by at most one of the goroutines that start it: two
\* leaders' tools, or a retry after a rollback, never start it twice.  (RecoverTeam does
\* not take this way and may launch beside them.)
SingleSpawner ==
    \A c, d \in Caller :
        job[c].op = "spawn" /\ job[d].op = "spawn" /\ job[c].member = job[d].member
            => c = d

\* A member being spawned left "unstarted", whatever else is written to its
\* row meanwhile, so a second start finds it taken and a late rollback of the
\* first never undoes the progress of a member that came up.
SpawnHoldsTheRow ==
    \A c \in Caller : job[c].op = "spawn" => status[job[c].member] # "unstarted"

\* On the memory backend rows only move along MemberTransitions, with any
\* number of writers, late rollbacks of a spawn and shutdown requests.
TransitionsFollowTable ==
    [][backend = "memory" => \A m \in Member : status'[m] # status[m] =>
            IsValidMemberTransition(status[m], status'[m])]_vars
=============================================================================
