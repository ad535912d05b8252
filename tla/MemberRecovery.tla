--------------------------- MODULE MemberRecovery ---------------------------
(***************************************************************************)
(* The runtime of one teammate: how the leader's SpawnManager starts it,    *)
(* cleans it up and restarts it (agent/spawn_manager.go, recovery_manager   *)
(* .go), the handle of its process with the health check (runner/spawn,     *)
(* spawn/inprocess_handle.go), and the leader's kernel that recovers the    *)
(* team when it starts and cleans up when it pauses or stops.  The column   *)
(* status is that of MemberStatus, and every write to it is a step of that  *)
(* module.                                                                  *)
(*                                                                          *)
(* A teammate is a process of its own, over SQL, or a goroutine, over       *)
(* either backend.  A process ends with the context it was launched under   *)
(* (exec.CommandContext) and only a process has a health check; a goroutine *)
(* is detached from contexts.  Time limits and intervals are choices.  The  *)
(* leader's own context outlives the model.                                 *)
(* Bounds: MaxLaunches runtimes ever launched, one call of each starter,    *)
(* one unhealthy callback for each member of Recovery; a team recovers      *)
(* unhealthy members (alone) or has members that tools start and shut down, *)
(* not both.                                                                *)
(***************************************************************************)
EXTENDS MemberStatus, Naturals, Sequences, FiniteSets

CONSTANTS Mate,         \* the teammate
          Leader,       \* the goroutine that starts and stops the leader's kernel
          Starter,      \* tools and interact calls that start the member
          Self,         \* the teammate's runtime, writing its own row
          Recovery,     \* calls of OnTeammateUnhealthy
          MaxRetries,   \* defaultMaxRetries
          MaxLaunches

ASSUME RecoveryAssumption ==
  /\ Mate \in Member /\ MaxRetries \in Nat \ {0}
  /\ Starter \cup Recovery \cup {Leader, Self} \subseteq Caller
  /\ {Leader, Self} \cap (Starter \cup Recovery) = {} /\ Starter \cap Recovery = {}

VARIABLES spawnMode, \* rigid
          alone,     \* the leader starts the member once, tools never do; rigid
          handle,    \* the member's entry in spawnedHandles, or 0
          procs,     \* every runtime ever launched
          cancels,   \* recoveryCancel: at most one recovery, the last
          ended,     \* actors whose context is cancelled
          work       \* where each actor is

recoveryVars == <<spawnMode, alone, handle, procs, cancels, ended, work>>
allVars == <<vars, recoveryVars>>

Actor == Starter \cup Recovery \cup {Leader}
Proc == 1..Len(procs)

Out == [pc |-> "out", goal |-> "none", of |-> 0, proc |-> 0, tries |-> 0]

RecoveryTypeOK ==
  /\ spawnMode \in {"process", "inprocess"} /\ alone \in BOOLEAN
  /\ handle \in 0..Len(procs) /\ cancels \subseteq Recovery /\ ended \subseteq Actor
  /\ procs \in Seq([by : Actor, up : BOOLEAN, stopped : BOOLEAN,
                    watch : {"none", "on", "calling", "fired", "off"}])
  /\ work \in [Actor ->
       [pc : {"out", "asking", "launching", "registering", "registered", "failed", "leaving",
              "detaching", "stopping", "awaiting", "killing", "marking", "entering", "recovering",
              "up", "cancelling", "joining", "over"},
        goal : {"none", "restart", "stop"}, of : 0..Len(procs), proc : 0..Len(procs),
        tries : 0..MaxRetries - 1]]

RecoveryInit ==
  /\ Init
  /\ spawnMode \in {"process", "inprocess"} /\ (spawnMode = "process" => backend = "sql")
  /\ alone \in BOOLEAN
  /\ handle = 0 /\ procs = <<>> /\ cancels = {} /\ ended = {}
  /\ work = [a \in Actor |-> Out]

-----------------------------------------------------------------------------
\* An actor between the two statements of a status update does nothing else.
At(a, pc) == work[a].pc = pc /\ job[a].op # "update"
Goto(a, pc) == work' = [work EXCEPT ![a].pc = pc]
Up(p) == procs[p].up
Checked(p) == procs[p].watch # "none"

\* A process whose context is over is being killed, and its health check ends.
CutOff(p) == spawnMode = "process" /\ procs[p].by \in ended

\* Variant: the status is written whatever it was.
MarkBlindly(a, target, pc) ==
  /\ job[a].op = "none" /\ status' = [status EXCEPT ![Mate] = target]
  /\ Goto(a, pc)
  /\ UNCHANGED <<job, backend, spawnMode, alone, handle, procs, cancels, ended>>

\* UpdateMemberStatus; nobody looks at whether it was refused.
Mark(a, target, pc) ==
  /\ \/ a \notin ended /\ UpdateMemberStatus(a, Mate, target)
     \/ /\ a \in ended \/ ~IsValidMemberTransition(status[Mate], target)
        /\ UNCHANGED <<status, job>>
  /\ Goto(a, pc)
  /\ UNCHANGED <<backend, spawnMode, alone, handle, procs, cancels, ended>>

-----------------------------------------------------------------------------
(* SpawnTeammate. *)

Launches(a) ==
  /\ At(a, "launching") /\ Len(procs) < MaxLaunches
  /\ spawnMode = "process" => a \notin ended
  /\ procs' = Append(procs, [by |-> a, up |-> TRUE, stopped |-> FALSE,
       watch |-> IF spawnMode = "process" /\ a \notin Starter THEN "on" ELSE "none"])
  /\ work' = [work EXCEPT ![a].pc = "registering", ![a].proc = Len(procs) + 1]
  /\ UNCHANGED <<vars, spawnMode, alone, handle, cancels, ended>>

\* Starters give up, and restarts try again while their context lasts.
LaunchFails(a) ==
  /\ At(a, "launching")
  /\ IF a \in Starter \/ a \in ended \/ work[a].tries + 1 = MaxRetries
     THEN Goto(a, "failed") ELSE work' = [work EXCEPT ![a].tries = @ + 1]
  /\ UNCHANGED <<vars, spawnMode, alone, handle, procs, cancels, ended>>

\* The entry is overwritten, whoever it belongs to.
Register(a) ==
  /\ At(a, "registering") /\ handle' = work[a].proc /\ Goto(a, "registered")
  /\ UNCHANGED <<vars, spawnMode, alone, procs, cancels, ended>>

-----------------------------------------------------------------------------
(* CleanupTeammate. *)

\* Where it goes on: RestartTeammate, the rest of the unhealthy callback, or the end
\* of the kernel's pause.
AfterCleanup(a) ==
  IF work[a].goal = "restart" THEN "launching" ELSE IF a = Leader THEN "out" ELSE "marking"

Detach(a) ==
  /\ At(a, "detaching") /\ handle' = 0
  /\ work' = [work EXCEPT ![a].pc = IF handle = 0 THEN AfterCleanup(a) ELSE "stopping",
                          ![a].proc = handle]
  /\ UNCHANGED <<vars, spawnMode, alone, procs, cancels, ended>>

\* StopHealthCheck cancels the check.
StopWatch(a) ==
  /\ At(a, "stopping") /\ Goto(a, "awaiting")
  /\ procs' = [procs EXCEPT ![work[a].proc].stopped = Checked(work[a].proc)]
  /\ UNCHANGED <<vars, spawnMode, alone, handle, cancels, ended>>

\* Variants: a cleanup that returns when its time is over; one without a time limit.
AwaitWatchOrReturn(a) ==
  /\ At(a, "awaiting")
  /\ Goto(a, IF procs[work[a].proc].watch \in {"none", "off"} THEN "killing" ELSE AfterCleanup(a))
  /\ UNCHANGED <<vars, spawnMode, alone, handle, procs, cancels, ended>>


AwaitWatchForGood(a) ==
  /\ At(a, "awaiting") /\ procs[work[a].proc].watch \in {"none", "off"} /\ Goto(a, "killing")
  /\ UNCHANGED <<vars, spawnMode, alone, handle, procs, cancels, ended>>

\* It waits for it; the check may be the very goroutine that waits, inside its callback,
\* and then only the 5 seconds end this.
AwaitWatch(a) ==
  /\ At(a, "awaiting") /\ Goto(a, "killing")
  /\ UNCHANGED <<vars, spawnMode, alone, handle, procs, cancels, ended>>

Kill(a) ==
  /\ At(a, "killing")
  /\ work' = [work EXCEPT ![a].pc = AfterCleanup(a), ![a].proc = 0]
  /\ procs' = [procs EXCEPT ![work[a].proc].up = FALSE]
  /\ UNCHANGED <<vars, spawnMode, alone, handle, cancels, ended>>

Cleanup(a) == Detach(a) \/ StopWatch(a) \/ AwaitWatch(a) \/ Kill(a)

-----------------------------------------------------------------------------
(* StartupMember and ShutdownMember, by tools and by interact calls. *)

BeginStart(s) ==
  /\ ~alone /\ At(s, "out") /\ StartupMember(s, Mate) /\ Goto(s, "launching")
  /\ UNCHANGED <<backend, spawnMode, alone, handle, procs, cancels, ended>>

\* After a failure the rollback is a statement under the same context.
EndStart(s) ==
  /\ \/ At(s, "registered") /\ SpawnSucceeds(s)
     \/ At(s, "failed") /\ (IF backend = "sql" /\ s \in ended THEN SpawnSucceeds(s) ELSE SpawnFails(s))
  /\ work' = [work EXCEPT ![s] = [Out EXCEPT !.pc = "over"]]
  /\ UNCHANGED <<backend, spawnMode, alone, handle, procs, cancels, ended>>

\* The round of the tool or the request is given up; when it just ends, after the start,
\* the process it started goes with it, which Crash stands for.
ContextEnds(s) ==
  /\ backend = "sql" /\ work[s].pc \in {"launching", "failed"} /\ s \notin ended /\ ended' = ended \cup {s}
  /\ UNCHANGED <<vars, spawnMode, alone, handle, procs, cancels, work>>

AskShutdown(s) ==
  /\ \/ At(s, "out") /\ ShutdownMember(s, Mate) /\ Goto(s, "asking")
     \/ At(s, "asking") /\ RequestShutdown(s) /\ Goto(s, "over")
  /\ UNCHANGED <<backend, spawnMode, alone, handle, procs, cancels, ended>>

-----------------------------------------------------------------------------
(* The runtime and its health check. *)

\* What the teammate says of itself while it runs.
Report(target) ==
  /\ \E p \in Proc : Up(p)
  /\ UpdateMemberStatus(Self, Mate, target)
  /\ UNCHANGED <<backend, recoveryVars>>

Finishes(c) == WriteStatus(c) /\ UNCHANGED <<backend, recoveryVars>>

Crash(p) ==
  /\ Up(p) /\ procs' = [procs EXCEPT ![p].up = FALSE]
  /\ UNCHANGED <<vars, spawnMode, alone, handle, cancels, ended, work>>

Unused == {r \in Recovery : work[r].pc = "out"}

\* The third failure in a row, of a process that is gone or slow, or of a check that was
\* just cancelled; the first is an interval after the launch was registered.
Unhealthy(p) ==
  /\ alone /\ procs[p].watch = "on" /\ work[procs[p].by].pc # "registering" /\ Unused # {}
  /\ procs' = [procs EXCEPT ![p].watch = "calling"]
  /\ work' = [work EXCEPT ![CHOOSE r \in Unused : TRUE] =
       [pc |-> "detaching", goal |-> "stop", of |-> p, proc |-> 0, tries |-> 0]]
  /\ UNCHANGED <<vars, spawnMode, alone, handle, cancels, ended>>

\* A check that passes arms the callback again.
Healthy(p) ==
  /\ procs[p].watch = "fired" /\ Up(p) /\ ~procs[p].stopped /\ ~CutOff(p)
  /\ procs' = [procs EXCEPT ![p].watch = "on"]
  /\ UNCHANGED <<vars, spawnMode, alone, handle, cancels, ended, work>>

WatchEnds(p) ==
  /\ procs[p].watch \in {"on", "fired"} /\ (procs[p].stopped \/ CutOff(p))
  /\ procs' = [procs EXCEPT ![p].watch = "off"]
  /\ UNCHANGED <<vars, spawnMode, alone, handle, cancels, ended, work>>

-----------------------------------------------------------------------------
(* OnTeammateUnhealthy, after its cleanup, and the goroutine it leaves behind. *)

\* The context of 60 seconds is made and entered, over the last one.
EnterRecovery(r) ==
  /\ At(r, "entering") /\ cancels' = {r} /\ Goto(r, "recovering")
  /\ UNCHANGED <<vars, spawnMode, alone, handle, procs, ended>>

\* The goroutine is counted and begins to restart the member; the check goes on.
BeginRecovery(r) ==
  /\ At(r, "recovering")
  /\ procs' = [procs EXCEPT ![work[r].of].watch = "fired"]
  /\ work' = [work EXCEPT ![r].pc = "detaching", ![r].goal = "restart"]
  /\ UNCHANGED <<vars, spawnMode, alone, handle, cancels, ended>>

Counted(r) == work[r].goal = "restart"

TimeOut(r) ==
  /\ Counted(r) /\ r \notin ended /\ ended' = ended \cup {r}
  /\ UNCHANGED <<vars, spawnMode, alone, handle, procs, cancels, work>>

\* The goroutine returns, and the deferred cancel ends the context of what it launched.
EndRecovery(r) ==
  /\ At(r, "registered") \/ At(r, "leaving")
  /\ work' = [work EXCEPT ![r] = [Out EXCEPT !.pc = "over"]]
  /\ ended' = ended \cup {r}
  /\ UNCHANGED <<vars, spawnMode, alone, handle, procs, cancels>>

RecoveryStep(r) ==
  \/ Cleanup(r) \/ Launches(r) \/ LaunchFails(r) \/ Register(r)
  \/ At(r, "marking") /\ Mark(r, "restarting", "entering")
  \/ EnterRecovery(r) \/ BeginRecovery(r) \/ EndRecovery(r)
  \/ At(r, "failed") /\ Mark(r, "error", "leaving")

-----------------------------------------------------------------------------
(* The leader's kernel: RecoverTeam when it starts; Pause and Stop. *)

RecoverTeam ==
  /\ At(Leader, "out") /\ (alone => procs = <<>>)
  /\ LET again == [work EXCEPT ![Leader].goal = "restart", ![Leader].tries = 0] IN
       work' = [again EXCEPT ![Leader].pc = "marking"]
  /\ UNCHANGED <<vars, spawnMode, alone, handle, procs, cancels, ended>>

Recovered ==
  /\ \/ At(Leader, "registered") \/ At(Leader, "failed")
  /\ work' = [work EXCEPT ![Leader] = [Out EXCEPT !.pc = "up"]]
  /\ UNCHANGED <<vars, spawnMode, alone, handle, procs, cancels, ended>>

\* MarkLiveTeammates, of the member that has a handle and is in a status that counts.
BringDown ==
  /\ At(Leader, "up")
  /\ IF handle # 0 /\ status[Mate] \notin {"unstarted", "shut_down"}
     THEN \E target \in {"paused", "stopped"} : Mark(Leader, target, "cancelling")
     ELSE /\ Goto(Leader, "cancelling")
          /\ UNCHANGED <<vars, spawnMode, alone, handle, procs, cancels, ended>>

CancelRecoveryTasks ==
  /\ At(Leader, "cancelling") /\ Goto(Leader, "joining")
  /\ ended' = ended \cup cancels /\ cancels' = {}
  /\ UNCHANGED <<vars, spawnMode, alone, handle, procs>>

\* recoveryWg.Wait; then ShutdownAllHandles.
JoinRecoveries ==
  /\ At(Leader, "joining") /\ \A r \in Recovery : ~Counted(r)
  /\ work' = [work EXCEPT ![Leader].pc = "detaching", ![Leader].goal = "stop"]
  /\ UNCHANGED <<vars, spawnMode, alone, handle, procs, cancels, ended>>

LeaderStep ==
  \/ Cleanup(Leader) \/ Launches(Leader) \/ LaunchFails(Leader) \/ Register(Leader)
  \/ At(Leader, "marking") /\ Mark(Leader, "restarting", "detaching")
  \/ Recovered \/ CancelRecoveryTasks \/ JoinRecoveries

StarterStep(s) == Launches(s) \/ LaunchFails(s) \/ Register(s) \/ EndStart(s)

RecoveryNext ==
  \/ LeaderStep \/ RecoverTeam \/ BringDown
  \/ \E r \in Recovery : RecoveryStep(r) \/ TimeOut(r)
  \/ \E s \in Starter : StarterStep(s) \/ BeginStart(s) \/ AskShutdown(s) \/ ContextEnds(s)
  \/ \E p \in Proc : Crash(p) \/ Unhealthy(p) \/ Healthy(p) \/ WatchEnds(p)
  \/ \E target \in {"ready", "shut_down"} : Report(target)
  \/ \E c \in Caller : Finishes(c)

\* Goroutines run, statements return, and time limits end what waits.
RecoverySpec ==
  /\ RecoveryInit /\ [][RecoveryNext]_allVars
  /\ WF_allVars(LeaderStep) /\ \A c \in Caller : WF_allVars(Finishes(c))
  /\ \A r \in Recovery : WF_allVars(RecoveryStep(r))
  /\ \A s \in Starter : WF_allVars(StarterStep(s))

-----------------------------------------------------------------------------
(* Properties. *)

\* Whatever starts, recovers, pauses and stops the teammate, its row changes only the
\* way MemberStatus says, so what MemberStatusProofs proves holds here.
ImplementsMemberStatus == Spec

\* When the leader's kernel has paused or stopped, no runtime of the teammate is left but
\* one that ends with its context or that an unhealthy callback is about to kill, though
\* checks fail and recoveries begin at any point of the stop.  It is stated for members
\* that the leader alone starts: a launch that overlaps another overwrites its handle.
StoppedTeamIsDown ==
  alone /\ work[Leader].pc = "out" /\ (\A r \in Recovery : ~Counted(r)) =>
    \A p \in Proc : Up(p) => CutOff(p) \/ \E r \in Recovery : work[r].proc = p

\* Nobody waits for good: not the callback, which stops the very check it runs in, not
\* the recovery, and not a pause, which joins the recoveries that it cancels.
CallsEnd ==
  /\ \A r \in Recovery : work[r].pc = "detaching" ~> work[r].pc = "over"
  /\ work[Leader].pc = "cancelling" ~> work[Leader].pc = "out"
=============================================================================
