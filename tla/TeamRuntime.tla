---------------------------- MODULE TeamRuntime ----------------------------
(***************************************************************************)
(* The runtime of one team (runtime/manager.go, pool.go, gate.go,           *)
(* dispatch.go, team_runner.go) and the lifecycle of its leader's           *)
(* coordination kernel (agent/coordination/kernel.go): calls of             *)
(* run_agent_team_streaming that activate the team, stream and clean up;    *)
(* interact calls that pass the gate; lifecycle calls that stop, pause or   *)
(* delete the team in between.                                              *)
(*                                                                          *)
(* The pool has one slot per team name, so one team is enough; it may be    *)
(* used from several sessions.  No step holds a lock over the next one.     *)
(* The 30 seconds of the drain are a choice.  Each run and each manager is  *)
(* one call.                                                                *)
(***************************************************************************)
EXTENDS Integers, Sequences, FiniteSets

CONSTANTS Run,      \* calls of run_agent_team_streaming
          Payload,  \* callers of interact
          Manager,  \* callers of StopTeam, Pause and DeleteTeam
          Session

ASSUME ActorAssumption == Run \cap Manager = {}

VARIABLES session,    \* the session of each run; rigid
          persistent, \* the lifecycle of the team's spec; rigid
          callers,    \* whether runs take turns, alone or with lifecycle calls
                      \* beside them, or overlap; rigid
          pool,       \* the entry in the pool, or 0
          entries,    \* every entry ever built: bound session, state, gate, kernel
          stored,     \* the team has its row in the database
          bucket,     \* db_state of the team in each session's checkpoint
          calls,      \* where each run and each lifecycle call is
          tickets     \* the entry whose gate admitted each payload, or 0

rigid == <<session, persistent, callers>>
vars == <<rigid, pool, entries, stored, bucket, calls, tickets>>

Actor == Run \cup Manager
Entry == 1..Len(entries)
NoCall == [pc |-> "out", entry |-> 0, next |-> "ended", wait |-> "no"]

TypeOK ==
  /\ session \in [Run -> Session] /\ persistent \in BOOLEAN
  /\ callers \in {"patient", "managed", "eager"}
  /\ pool \in 0..Len(entries)
  /\ entries \in Seq([session : Session, state : {"running", "paused"}, closed : BOOLEAN,
                      inflight : Nat, open : BOOLEAN, overdue : BOOLEAN,
                      kernel : {"idle", "running", "paused", "stopped"}])
  /\ stored \in BOOLEAN
  /\ bucket \in [Session -> {"none", "pending_create", "created", "cleaned"}]
  /\ calls \in [Actor -> [pc : {"out", "inspecting", "building", "resuming", "activated",
                                "streaming", "finalizing", "stopping", "removing", "pausing",
                                "recording", "closing", "draining", "deleting", "ended"},
                          entry : 0..Len(entries), next : {"ended", "inspecting", "closing", "deleting"},
                          wait : {"no", "on", "woken", "lost"}]]
  /\ tickets \in [Payload -> 0..Len(entries)]

Init ==
  /\ session \in [Run -> Session]
  /\ persistent \in BOOLEAN /\ callers \in {"patient", "managed", "eager"}
  /\ pool = 0 /\ entries = <<>> /\ stored = FALSE
  /\ bucket = [s \in Session |-> "none"]
  /\ calls = [a \in Actor |-> NoCall]
  /\ tickets = [p \in Payload |-> 0]

-----------------------------------------------------------------------------
Goto(a, pc) == calls' = [calls EXCEPT ![a].pc = pc]
Jump(a, pc) == calls' = [calls EXCEPT ![a] = [NoCall EXCEPT !.pc = pc]]

\* Entering Pause and Stop of the kernel: they return at once unless it runs, or is
\* idle or stopped.
PausePC(e) == IF entries[e].kernel = "running" THEN "pausing" ELSE "recording"
StopPC(e) == IF entries[e].kernel \in {"idle", "stopped"} THEN "removing" ELSE "stopping"

\* resolveEntry: the pool's entry, if it is bound to this session.
Resolve(s) == IF pool # 0 /\ entries[pool].session = s THEN pool ELSE 0

-----------------------------------------------------------------------------
(* The gate of an entry. *)

\* The drained channel is closed, and whoever waits on it goes on.
Wake(e) == [a \in Actor |-> IF calls[a].pc = "draining" /\ calls[a].entry = e /\ calls[a].wait = "on"
                            THEN [calls[a] EXCEPT !.wait = "woken"] ELSE calls[a]]

\* Interact, up to the gate: the ticket counts, and the drained channel is replaced.
Admit(p) ==
  /\ tickets[p] = 0
  /\ \E s \in Session : LET e == Resolve(s) IN
       /\ e # 0 /\ ~entries[e].closed
       /\ tickets' = [tickets EXCEPT ![p] = e]
       /\ entries' = [entries EXCEPT ![e].inflight = @ + 1, ![e].open = TRUE]
       /\ calls' = [a \in Actor |->
            IF calls[a].pc = "draining" /\ calls[a].entry = e /\ calls[a].wait = "on"
            THEN [calls[a] EXCEPT !.wait = "lost"] ELSE calls[a]]
  /\ UNCHANGED <<rigid, pool, stored, bucket>>

\* A bug: a ticket that a Reset forgot is counted off all the same.
ConsumeDoneUnchecked(p) ==
  /\ tickets[p] # 0
  /\ LET e == tickets[p]
         left == entries[e].inflight - 1
     IN  /\ entries' = [entries EXCEPT ![e].inflight = left, ![e].open = @ /\ left # 0]
         /\ calls' = IF left = 0 THEN Wake(e) ELSE calls
  /\ tickets' = [tickets EXCEPT ![p] = 0]
  /\ UNCHANGED <<rigid, pool, stored, bucket>>

\* The dispatch is over.  A ticket from before a Reset takes off one of the new ones.
ConsumeDone(p) ==
  /\ tickets[p] # 0
  /\ LET e == tickets[p]
         left == entries[e].inflight - 1
     IN  IF left < 0 THEN UNCHANGED <<entries, calls>>
         ELSE /\ entries' = [entries EXCEPT ![e].inflight = left, ![e].open = left # 0]
              /\ calls' = IF left = 0 THEN Wake(e) ELSE calls
  /\ tickets' = [tickets EXCEPT ![p] = 0]
  /\ UNCHANGED <<rigid, pool, stored, bucket>>

\* A bug: the gate is closed only once it is empty.
CloseGateLate(r) ==
  /\ calls[r].pc = "closing"
  /\ LET e == Resolve(session[r])
     IN  /\ IF e = 0 \/ entries[e].inflight > 0 THEN UNCHANGED entries
            ELSE entries' = [entries EXCEPT ![e].closed = TRUE]
         /\ calls' = [calls EXCEPT ![r] = IF e = 0 \/ entries[e].inflight = 0
                                          THEN [NoCall EXCEPT !.pc = "ended"]
                                          ELSE [@ EXCEPT !.pc = "draining", !.entry = e, !.wait = "on"]]
  /\ UNCHANGED <<rigid, pool, stored, bucket, tickets>>

\* CloseAndDrain of the entry that is in the pool by now.
CloseGate(r) ==
  /\ calls[r].pc = "closing"
  /\ LET e == Resolve(session[r])
     IN  /\ IF e = 0 THEN UNCHANGED entries
            ELSE entries' = [entries EXCEPT ![e].closed = TRUE]
         /\ calls' = [calls EXCEPT ![r] = IF e = 0 \/ entries[e].inflight = 0
                                          THEN [NoCall EXCEPT !.pc = "ended"]
                                          ELSE [@ EXCEPT !.pc = "draining", !.entry = e, !.wait = "on"]]
  /\ UNCHANGED <<rigid, pool, stored, bucket, tickets>>

Drained(r) ==
  /\ calls[r].pc = "draining" /\ calls[r].wait = "woken"
  /\ Jump(r, "ended")
  /\ UNCHANGED <<rigid, pool, entries, stored, bucket, tickets>>

\* A bug: the drain is given no time limit.
DrainNeverTimesOut(r) == FALSE /\ UNCHANGED vars

DrainTimesOut(r) ==
  /\ calls[r].pc = "draining"
  /\ entries' = [entries EXCEPT ![calls[r].entry].overdue = TRUE]
  /\ Jump(r, "ended")
  /\ UNCHANGED <<rigid, pool, stored, bucket, tickets>>

-----------------------------------------------------------------------------
(* Activate. *)

Idle(r) == calls[r].pc \in {"out", "ended"}

\* It looks into the pool; an entry of another session is stopped first.
Look(r) ==
  /\ calls[r].pc = "out" /\ (callers # "eager" => \A q \in Run : Idle(q))
  /\ calls' = [calls EXCEPT ![r] =
       IF pool # 0 /\ entries[pool].session # session[r]
       THEN [pc |-> StopPC(pool), entry |-> pool, next |-> "inspecting", wait |-> "no"]
       ELSE [@ EXCEPT !.pc = "inspecting", !.entry = pool]]
  /\ UNCHANGED <<rigid, pool, entries, stored, bucket, tickets>>

\* DecideRunAction, for the entry it saw (0 after a stop).
Decision(e, s) ==
  CASE ~stored /\ bucket[s] \in {"pending_create", "cleaned"} -> "building"
    [] ~stored /\ bucket[s] = "created" -> "finalizing"
    [] ~stored /\ bucket[s] = "none" -> IF e # 0 THEN "finalizing" ELSE "building"
    [] stored /\ e = 0 -> "building"
    [] stored /\ e # 0 -> IF entries[e].session = s /\ entries[e].state = "paused"
                          THEN "resuming" ELSE "finalizing"

\* inspectSession and the decision; a rejected call goes straight to the cleanup.
Decide(r) ==
  /\ calls[r].pc = "inspecting"
  /\ Goto(r, Decision(calls[r].entry, session[r]))
  /\ UNCHANGED <<rigid, pool, entries, stored, bucket, tickets>>

\* CREATE, NEW_TEAM_IN_SESSION and COLD_RECOVER: a new agent takes the slot.
Build(r) ==
  /\ calls[r].pc = "building"
  /\ entries' = Append(entries, [session |-> session[r], state |-> "running", closed |-> FALSE,
                                 inflight |-> 0, open |-> FALSE, overdue |-> FALSE,
                                 kernel |-> "idle"])
  /\ pool' = Len(entries) + 1
  /\ bucket' = [bucket EXCEPT ![session[r]] = IF @ = "none" THEN "pending_create" ELSE @]
  /\ calls' = [calls EXCEPT ![r].pc = "activated", ![r].entry = Len(entries) + 1]
  /\ UNCHANGED <<rigid, stored, tickets>>

\* A bug: the gate stays as the last run left it.
ResumeKeepsGate(r) ==
  /\ calls[r].pc = "resuming"
  /\ entries' = [entries EXCEPT ![calls[r].entry].state = "running"]
  /\ Goto(r, "activated")
  /\ UNCHANGED <<rigid, pool, stored, bucket, tickets>>

\* RESUME_FROM_PAUSE: the gate is reset, whatever is still in flight.
Resume(r) ==
  /\ calls[r].pc = "resuming"
  /\ LET e == calls[r].entry IN
       /\ entries' = [entries EXCEPT ![e].state = "running", ![e].closed = FALSE,
                                     ![e].inflight = 0, ![e].open = FALSE]
       /\ calls' = [Wake(e) EXCEPT ![r].pc = "activated"]
  /\ UNCHANGED <<rigid, pool, stored, bucket, tickets>>

\* PreRun, the recovery or the build fails: the call returns without a cleanup.
ActivateFails(r) ==
  /\ calls[r].pc \in {"inspecting", "building", "resuming"}
  /\ Jump(r, "ended")
  /\ UNCHANGED <<rigid, pool, entries, stored, bucket, tickets>>

-----------------------------------------------------------------------------
(* The run itself. *)

\* Stream starts the kernel, in whatever state it is.
Stream(r) ==
  /\ calls[r].pc = "activated"
  /\ entries' = [entries EXCEPT ![calls[r].entry].kernel = "running"]
  /\ Goto(r, "streaming")
  /\ UNCHANGED <<rigid, pool, stored, bucket, tickets>>

\* The leader builds the team, or cleans it up.
LeaderBuilds(r) ==
  /\ calls[r].pc = "streaming" /\ ~stored
  /\ stored' = TRUE /\ bucket' = [bucket EXCEPT ![session[r]] = "created"]
  /\ UNCHANGED <<rigid, pool, entries, calls, tickets>>

LeaderCleans(r) ==
  /\ calls[r].pc = "streaming" /\ stored
  /\ stored' = FALSE /\ bucket' = [bucket EXCEPT ![session[r]] = "cleaned"]
  /\ UNCHANGED <<rigid, pool, entries, calls, tickets>>

\* The stream is exhausted, or its reader has gone.
StreamEnds(r) ==
  /\ calls[r].pc = "streaming" /\ Jump(r, "finalizing")
  /\ UNCHANGED <<rigid, pool, entries, stored, bucket, tickets>>

\* Finalize picks the entry that is in the pool by now.  It pauses a persistent team,
\* unless its member was asked to shut down, and stops another.
Finalize(r) ==
  /\ calls[r].pc = "finalizing"
  /\ LET e == Resolve(session[r]) IN
       IF e = 0 THEN Goto(r, "closing")
       ELSE \E pc \in {StopPC(e)} \cup (IF persistent THEN {PausePC(e)} ELSE {}) :
              calls' = [calls EXCEPT ![r] =
                [pc |-> pc, entry |-> e, next |-> "closing", wait |-> "no"]]
  /\ UNCHANGED <<rigid, pool, entries, stored, bucket, tickets>>

-----------------------------------------------------------------------------
(* The kernel, and what follows its calls. *)

\* A bug: the entry is marked, and the kernel is left running.
PauseNothing(a) ==
  /\ calls[a].pc = "pausing" /\ Goto(a, "recording")
  /\ UNCHANGED <<rigid, pool, entries, stored, bucket, tickets>>

\* The lifecycle state is written last, over whatever a Start or a Stop made it.
Pause(a) ==
  /\ calls[a].pc = "pausing"
  /\ entries' = [entries EXCEPT ![calls[a].entry].kernel = "paused"]
  /\ Goto(a, "recording")
  /\ UNCHANGED <<rigid, pool, stored, bucket, tickets>>

Stop(a) ==
  /\ calls[a].pc = "stopping"
  /\ entries' = [entries EXCEPT ![calls[a].entry].kernel = "stopped"]
  /\ Goto(a, "removing")
  /\ UNCHANGED <<rigid, pool, stored, bucket, tickets>>

RecordPause(a) ==
  /\ calls[a].pc = "recording"
  /\ entries' = [entries EXCEPT ![calls[a].entry].state = "paused"]
  /\ Jump(a, calls[a].next)
  /\ UNCHANGED <<rigid, pool, stored, bucket, tickets>>

\* The pool forgets the name, whichever entry has it by now.
Remove(a) ==
  /\ calls[a].pc = "removing" /\ pool' = 0
  /\ Jump(a, calls[a].next)
  /\ UNCHANGED <<rigid, entries, stored, bucket, tickets>>

-----------------------------------------------------------------------------
(* The lifecycle calls. *)

StopTeam(m) ==
  /\ callers = "managed" /\ calls[m].pc = "out" /\ pool # 0
  /\ calls' = [calls EXCEPT ![m] = [pc |-> StopPC(pool), entry |-> pool, next |-> "ended", wait |-> "no"]]
  /\ UNCHANGED <<rigid, pool, entries, stored, bucket, tickets>>

PauseTeam(m) ==
  /\ callers = "managed" /\ calls[m].pc = "out" /\ pool # 0
  /\ calls' = [calls EXCEPT ![m] = [pc |-> PausePC(pool), entry |-> pool, next |-> "ended", wait |-> "no"]]
  /\ UNCHANGED <<rigid, pool, entries, stored, bucket, tickets>>

\* DeleteTeam with force: an active team is stopped first.
DeleteTeam(m) ==
  /\ callers = "managed" /\ calls[m].pc = "out"
  /\ calls' = [calls EXCEPT ![m] =
       [pc |-> IF pool = 0 THEN "deleting" ELSE StopPC(pool), entry |-> pool, next |-> "deleting",
        wait |-> "no"]]
  /\ UNCHANGED <<rigid, pool, entries, stored, bucket, tickets>>

\* Tables, checkpoints and the row of the team go.
DeleteData(m) ==
  /\ calls[m].pc = "deleting"
  /\ stored' = FALSE
  /\ \E S \in SUBSET Session :
       bucket' = [s \in Session |-> IF s \in S THEN "none" ELSE bucket[s]]
  /\ Jump(m, "ended")
  /\ UNCHANGED <<rigid, pool, entries, tickets>>

RunStep(r) ==
  \/ Look(r) \/ Decide(r) \/ Build(r) \/ Resume(r) \/ ActivateFails(r)
  \/ Stream(r) \/ LeaderBuilds(r) \/ LeaderCleans(r) \/ StreamEnds(r)
  \/ Finalize(r) \/ CloseGate(r) \/ Drained(r) \/ DrainTimesOut(r)

KernelCall(a) == Pause(a) \/ Stop(a) \/ RecordPause(a) \/ Remove(a)

Next ==
  \/ \E r \in Run : RunStep(r)
  \/ \E a \in Actor : KernelCall(a)
  \/ \E m \in Manager : StopTeam(m) \/ PauseTeam(m) \/ DeleteTeam(m) \/ DeleteData(m)
  \/ \E p \in Payload : Admit(p) \/ ConsumeDone(p)

Spec == Init /\ [][Next]_vars

\* Goroutines run and the time limit fires; a dispatch may hang.
FairSpec ==
  /\ Spec
  /\ \A r \in Run : WF_vars(Finalize(r) \/ CloseGate(r) \/ Drained(r) \/ DrainTimesOut(r))
  /\ \A a \in Actor : WF_vars(KernelCall(a))

-----------------------------------------------------------------------------
Dispatching(e) == {p \in Payload : tickets[p] = e}

\* A gate never counts more than is in flight, so no drain waits for a payload that is
\* over; and its channel is open exactly while it counts something, so no close of it
\* panics.
GateCountsTickets ==
  \A e \in Entry : /\ entries[e].inflight \in 0..Cardinality(Dispatching(e))
                   /\ entries[e].open <=> entries[e].inflight > 0

\* When callers take turns and no drain ran out of time, a gate that was closed and
\* drained has nobody inside.
DrainedGateIsEmpty ==
  callers # "eager" => \A e \in Entry :
    entries[e].closed /\ ~entries[e].overdue /\ Dispatching(e) # {} =>
      \E r \in Run : calls[r].pc = "draining" /\ calls[r].entry = e

\* A team that streams, and that no lifecycle call took away, accepts input.
Reachable(r) ==
  calls[r].pc = "streaming" => pool = calls[r].entry /\ ~entries[pool].closed
PatientRunAcceptsInput == callers = "patient" => \A r \in Run : Reachable(r)

\* When the runs are over, the leader's kernel is down.
EndedTeamIsDown ==
  callers = "patient" /\ (\A r \in Run : Idle(r)) =>
    \A e \in Entry : entries[e].kernel # "running"

\* Once its stream is over a run ends, even if a payload never does.
EveryRunEnds == \A r \in Run : calls[r].pc = "finalizing" ~> calls[r].pc = "ended"
=============================================================================
