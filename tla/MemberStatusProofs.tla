------------------------- MODULE MemberStatusProofs -------------------------
(***************************************************************************)
(* Theorems about MemberStatus, for every set of members and callers and   *)
(* for both backends; then about MemberRecovery, which implements it, for  *)
(* any number of tools, recoveries, retries and launches.                  *)
(***************************************************************************)
EXTENDS MemberRecovery, SequenceTheorems, TLAPS

\* The inductive invariant.  Two spawners are excluded because the second
\* would have found "unstarted", which SpawnHoldsTheRow denies; and that one
\* needs SingleSpawner, or the rollback of one would free the row of another.
IInv ==
    /\ TypeOK
    /\ SingleSpawner
    /\ SpawnHoldsTheRow

\* The statuses by name.
LEMMA StatusNames ==
    /\ DOMAIN MemberTransitions =
         {"unstarted", "starting", "ready", "busy", "paused", "stopped", "restarting",
          "shutdown_requested", "shut_down", "error"}
    /\ Targets \subseteq DOMAIN MemberTransitions
    /\ "unstarted" \notin Targets
  BY DEF MemberTransitions, Targets

LEMMA InitIInv == Init => IInv
  BY StatusNames DEF Init, IInv, TypeOK, SingleSpawner, SpawnHoldsTheRow, Idle

\* A caller that is not idle has a job of one of the three kinds.
LEMMA JobKinds ==
    ASSUME TypeOK, NEW c \in Caller
    PROVE  /\ job[c].op = "none" <=> job[c] = Idle
           /\ job[c].op = "update" => job[c].member \in Member /\ job[c].target \in Targets
           /\ job[c].op = "spawn" => job[c].member \in Member
           /\ job[c].op = "shutdown" => job[c].member \in Member
  BY DEF TypeOK, Idle

\* A compare-and-swap changes at most the row it is for.
LEMMA SwapKeepsType ==
    ASSUME TypeOK, NEW m \in Member, NEW from, NEW to \in DOMAIN MemberTransitions,
           TryTransitionMemberStatus(m, from, to)
    PROVE  /\ status' \in [Member -> DOMAIN MemberTransitions]
           /\ \A n \in Member : status'[n] = IF n = m /\ status[m] = from THEN to ELSE status[n]
  BY DEF TypeOK, TryTransitionMemberStatus

\* A step that starts no spawn and makes no row "unstarted" keeps the rest.
LEMMA NoNewSpawn ==
    ASSUME IInv, TypeOK',
           \A c \in Caller : job'[c].op = "spawn" => job'[c] = job[c],
           \A m \in Member : status'[m] = "unstarted" => status[m] = "unstarted"
    PROVE  IInv'
  <1>1. SingleSpawner'
    BY DEF IInv, SingleSpawner
  <1>2. SpawnHoldsTheRow'
    BY JobKinds DEF IInv, SpawnHoldsTheRow
  <1> QED
    BY <1>1, <1>2 DEF IInv

\* Status reports, in one step or in two.
LEMMA UpdateIInv ==
    ASSUME IInv, UNCHANGED backend, NEW c \in Caller, NEW m \in Member,
           NEW target \in Targets, UpdateMemberStatus(c, m, target)
    PROVE  IInv'
  <1>1. TypeOK'
    BY StatusNames DEF UpdateMemberStatus, IInv, TypeOK
  <1>2. \A d \in Caller : job'[d].op = "spawn" => job'[d] = job[d]
    BY DEF UpdateMemberStatus, IInv, TypeOK
  <1>3. \A n \in Member : status'[n] = "unstarted" => status[n] = "unstarted"
    BY StatusNames DEF UpdateMemberStatus, IInv, TypeOK
  <1> QED
    BY <1>1, <1>2, <1>3, NoNewSpawn

LEMMA WriteIInv ==
    ASSUME IInv, UNCHANGED backend, NEW c \in Caller, WriteStatus(c)
    PROVE  IInv'
  <1>0. job[c].member \in Member /\ job[c].target \in Targets
    BY JobKinds DEF WriteStatus, IInv
  <1>1. TypeOK'
    BY <1>0, StatusNames DEF WriteStatus, IInv, TypeOK
  <1>2. \A d \in Caller : job'[d].op = "spawn" => job'[d] = job[d]
    BY DEF WriteStatus, IInv, TypeOK, Idle
  <1>3. \A n \in Member : status'[n] = "unstarted" => status[n] = "unstarted"
    BY <1>0, StatusNames DEF WriteStatus, IInv, TypeOK
  <1> QED
    BY <1>1, <1>2, <1>3, NoNewSpawn

\* The only step that starts a spawn: it finds the row "unstarted", so no
\* other caller is spawning the member.
LEMMA StartupIInv ==
    ASSUME IInv, UNCHANGED backend, NEW c \in Caller, NEW m \in Member, StartupMember(c, m)
    PROVE  IInv'
  <1>1. /\ status' \in [Member -> DOMAIN MemberTransitions]
        /\ \A n \in Member : status'[n] = IF n = m THEN "starting" ELSE status[n]
    BY SwapKeepsType, StatusNames DEF StartupMember, IInv
  <1>2. /\ job'[c] = [op |-> "spawn", member |-> m]
        /\ \A d \in Caller : d # c => job'[d] = job[d]
        /\ job' \in [Caller -> {Idle} \cup [op : {"update"}, member : Member, target : Targets]
                \cup [op : {"spawn"}, member : Member]
                \cup [op : {"shutdown"}, member : Member, from : DOMAIN MemberTransitions]]
    BY DEF StartupMember, IInv, TypeOK
  <1>3. TypeOK'
    BY <1>1, <1>2 DEF IInv, TypeOK
  <1>4. \A d \in Caller : job[d].op = "spawn" => job[d].member # m
    BY DEF StartupMember, IInv, SpawnHoldsTheRow
  <1>5. SingleSpawner'
    BY <1>2, <1>4 DEF IInv, SingleSpawner
  <1>6. SpawnHoldsTheRow'
    <2> SUFFICES ASSUME NEW d \in Caller, job'[d].op = "spawn"
                 PROVE  status'[job'[d].member] # "unstarted"
      BY DEF SpawnHoldsTheRow
    <2>1. CASE d = c
      BY <2>1, <1>1, <1>2
    <2>2. CASE d # c
      BY <2>2, <1>1, <1>2, JobKinds DEF IInv, SpawnHoldsTheRow
    <2> QED
      BY <2>1, <2>2
  <1> QED
    BY <1>3, <1>5, <1>6 DEF IInv

\* The rollback frees the row of the member, which nobody else is spawning.
LEMMA SpawnFailsIInv ==
    ASSUME IInv, UNCHANGED backend, NEW c \in Caller, SpawnFails(c)
    PROVE  IInv'
  <1>0. job[c].op = "spawn" /\ job[c].member \in Member
    BY JobKinds DEF SpawnFails, IInv
  <1>1. /\ status' \in [Member -> DOMAIN MemberTransitions]
        /\ \A n \in Member : n # job[c].member => status'[n] = status[n]
    BY <1>0, SwapKeepsType, StatusNames DEF SpawnFails, IInv
  <1>2. job'[c] = Idle /\ \A d \in Caller : d # c => job'[d] = job[d]
    BY DEF SpawnFails, IInv, TypeOK
  <1>3. TypeOK'
    BY <1>1 DEF SpawnFails, IInv, TypeOK
  <1>4. SingleSpawner'
    BY <1>2 DEF IInv, SingleSpawner, Idle
  <1>5. SpawnHoldsTheRow'
    <2> SUFFICES ASSUME NEW d \in Caller, job'[d].op = "spawn"
                 PROVE  status'[job'[d].member] # "unstarted"
      BY DEF SpawnHoldsTheRow
    <2>1. d # c /\ job'[d] = job[d]
      BY <1>2 DEF Idle
    <2>2. job[d].member \in Member /\ job[d].member # job[c].member
      BY <1>0, <2>1, JobKinds DEF IInv, SingleSpawner
    <2> QED
      BY <1>1, <2>1, <2>2 DEF IInv, SpawnHoldsTheRow
  <1> QED
    BY <1>3, <1>4, <1>5 DEF IInv

\* The end of a spawn, and the two halves of a shutdown.
LEMMA OtherIInv ==
    ASSUME IInv, UNCHANGED backend, NEW c \in Caller,
           \/ SpawnSucceeds(c)
           \/ \E m \in Member : ShutdownMember(c, m)
           \/ RequestShutdown(c)
    PROVE  IInv'
  <1>1. CASE SpawnSucceeds(c)
    <2>1. TypeOK'
      BY <1>1 DEF SpawnSucceeds, IInv, TypeOK
    <2>2. \A d \in Caller : job'[d].op = "spawn" => job'[d] = job[d]
      BY <1>1 DEF SpawnSucceeds, IInv, TypeOK, Idle
    <2> QED
      BY <1>1, <2>1, <2>2, NoNewSpawn DEF SpawnSucceeds
  <1>2. ASSUME NEW m \in Member, ShutdownMember(c, m)
        PROVE  IInv'
    <2>1. TypeOK'
      BY <1>2 DEF ShutdownMember, IInv, TypeOK
    <2>2. \A d \in Caller : job'[d].op = "spawn" => job'[d] = job[d]
      BY <1>2 DEF ShutdownMember, IInv, TypeOK
    <2> QED
      BY <1>2, <2>1, <2>2, NoNewSpawn DEF ShutdownMember
  <1>3. CASE RequestShutdown(c)
    <2>0. job[c].member \in Member
      BY <1>3, JobKinds DEF RequestShutdown, IInv
    <2>1. /\ status' \in [Member -> DOMAIN MemberTransitions]
          /\ \A n \in Member : status'[n] = "unstarted" => status[n] = "unstarted"
      BY <1>3, <2>0, SwapKeepsType, StatusNames DEF RequestShutdown, IInv
    <2>2. TypeOK'
      BY <1>3, <2>1 DEF RequestShutdown, IInv, TypeOK
    <2>3. \A d \in Caller : job'[d].op = "spawn" => job'[d] = job[d]
      BY <1>3 DEF RequestShutdown, IInv, TypeOK, Idle
    <2> QED
      BY <2>1, <2>2, <2>3, NoNewSpawn
  <1> QED
    BY <1>1, <1>2, <1>3

LEMMA StepIInv == IInv /\ [Next]_vars => IInv'
  <1> SUFFICES ASSUME IInv, [Next]_vars
               PROVE  IInv'
    OBVIOUS
  <1>1. CASE Next
    BY <1>1, UpdateIInv, WriteIInv, StartupIInv, SpawnFailsIInv, OtherIInv DEF Next
  <1>2. CASE UNCHANGED vars
    BY <1>2 DEF vars, IInv, TypeOK, SingleSpawner, SpawnHoldsTheRow
  <1> QED
    BY <1>1, <1>2

\* The invariant holds in every reachable state.
THEOREM MemberInvariant == Spec => []IInv
  BY InitIInv, StepIInv, PTL DEF Spec

\* Rows and remembered statuses keep their types on both backends.
THEOREM TypeCorrect == Spec => []TypeOK
  BY MemberInvariant, PTL DEF IInv

\* With any number of goroutines that start members, none is spawned twice.
THEOREM OneSpawner == Spec => []SingleSpawner
  BY MemberInvariant, PTL DEF IInv

\* A row is never "unstarted" while its member is being spawned.
THEOREM RowsAreHeld == Spec => []SpawnHoldsTheRow
  BY MemberInvariant, PTL DEF IInv

-----------------------------------------------------------------------------
(* The transition table.                                                   *)

\* What TransitionsFollowTable needs besides IInv: the memory backend leaves
\* no update half done, and a shutdown under way was validated against the
\* status it will compare with.
PendingIsValid ==
    \A c \in Caller :
        /\ job[c].op = "update" => backend = "sql"
        /\ job[c].op = "shutdown" => IsValidMemberTransition(job[c].from, "shutdown_requested")

\* Whoever takes up a job takes up a valid one.
LEMMA PendingStep ==
    ASSUME IInv, PendingIsValid, [Next]_vars
    PROVE  PendingIsValid'
  <1>1. ASSUME NEW c \in Caller, UNCHANGED backend,
               \A d \in Caller : d # c => job'[d] = job[d],
               job'[c].op = "update" => backend = "sql",
               job'[c].op = "shutdown" => IsValidMemberTransition(job'[c].from, "shutdown_requested")
        PROVE  PendingIsValid'
    BY <1>1 DEF PendingIsValid, IsValidMemberTransition
  <1>2. ASSUME NEW c \in Caller, UNCHANGED backend,
               \/ job' = job
               \/ job' = [job EXCEPT ![c] = Idle]
               \/ \E m \in Member : job' = [job EXCEPT ![c] = [op |-> "spawn", member |-> m]]
        PROVE  PendingIsValid'
    <2>1. \A d \in Caller : job'[d] = job[d] \/ job'[d] = Idle
                             \/ \E m \in Member : job'[d] = [op |-> "spawn", member |-> m]
      BY <1>2 DEF IInv, TypeOK
    <2>2. \A d \in Caller : job'[d] = job[d] \/ job'[d].op \notin {"update", "shutdown"}
      <3> SUFFICES ASSUME NEW d \in Caller, job'[d] # job[d]
                   PROVE  job'[d].op \notin {"update", "shutdown"}
        OBVIOUS
      <3>1. CASE job'[d] = Idle
        BY <3>1 DEF Idle
      <3>2. ASSUME NEW m \in Member, job'[d] = [op |-> "spawn", member |-> m]
            PROVE  job'[d].op = "spawn"
        BY <3>2
      <3> QED
        BY <2>1, <3>1, <3>2
    <2> QED
      BY <1>2, <2>2 DEF PendingIsValid, IsValidMemberTransition
  <1>3. ASSUME NEW c \in Caller, NEW m \in Member, NEW target \in Targets,
               UNCHANGED backend, UpdateMemberStatus(c, m, target)
        PROVE  PendingIsValid'
    <2>1. CASE job' = job
      BY <1>2, <1>3, <2>1
    <2>2. CASE backend = "sql" /\
               job' = [job EXCEPT ![c] = [op |-> "update", member |-> m, target |-> target]]
      <3>1. job'[c] = [op |-> "update", member |-> m, target |-> target]
            /\ \A d \in Caller : d # c => job'[d] = job[d]
        BY <2>2 DEF IInv, TypeOK
      <3>2. job'[c].op = "update" => backend = "sql"
        BY <2>2
      <3>3. job'[c].op # "shutdown"
        BY <3>1
      <3> QED
        BY <1>1, <1>3, <3>1, <3>2, <3>3
    <2> QED
      BY <1>3, <2>1, <2>2 DEF UpdateMemberStatus
  <1>4. ASSUME NEW c \in Caller, NEW m \in Member, UNCHANGED backend, ShutdownMember(c, m)
        PROVE  PendingIsValid'
    <2>1. job'[c] = [op |-> "shutdown", member |-> m, from |-> status[m]]
          /\ \A d \in Caller : d # c => job'[d] = job[d]
      BY <1>4 DEF ShutdownMember, IInv, TypeOK
    <2>2. job'[c].op = "shutdown" /\ job'[c].from = status[m]
      BY <2>1
    <2> QED
      BY <1>1, <1>4, <2>1, <2>2 DEF ShutdownMember
  <1>5. CASE UNCHANGED vars
    BY <1>5 DEF vars, PendingIsValid, IsValidMemberTransition
  <1>6. ASSUME NEW c \in Caller, UNCHANGED backend,
               \/ \E m \in Member : StartupMember(c, m)
               \/ WriteStatus(c) \/ SpawnSucceeds(c) \/ SpawnFails(c) \/ RequestShutdown(c)
        PROVE  PendingIsValid'
    BY <1>2, <1>6 DEF StartupMember, WriteStatus, SpawnSucceeds, SpawnFails, RequestShutdown
  <1> QED
    BY <1>3, <1>4, <1>5, <1>6 DEF Next

\* Every write of the memory backend moves its row along the table.
LEMMA StepFollowsTable ==
    ASSUME IInv, PendingIsValid, Next, backend = "memory", NEW n \in Member, status'[n] # status[n]
    PROVE  IsValidMemberTransition(status[n], status'[n])
  <1>1. ASSUME NEW c \in Caller, NEW m \in Member, NEW target \in Targets,
               UpdateMemberStatus(c, m, target)
        PROVE  IsValidMemberTransition(status[n], status'[n])
    BY <1>1 DEF UpdateMemberStatus, IInv, TypeOK
  <1>2. ASSUME NEW m \in Member, NEW from, NEW to \in DOMAIN MemberTransitions,
               TryTransitionMemberStatus(m, from, to), IsValidMemberTransition(from, to)
        PROVE  IsValidMemberTransition(status[n], status'[n])
    BY <1>2, SwapKeepsType DEF IInv
  <1>3. /\ IsValidMemberTransition("unstarted", "starting")
        /\ IsValidMemberTransition("starting", "unstarted")
    BY DEF IsValidMemberTransition, MemberTransitions
  <1>4. ASSUME NEW c \in Caller, NEW m \in Member, StartupMember(c, m)
        PROVE  IsValidMemberTransition(status[n], status'[n])
    BY <1>2, <1>3, <1>4, StatusNames DEF StartupMember
  <1>5. ASSUME NEW c \in Caller, SpawnFails(c)
        PROVE  IsValidMemberTransition(status[n], status'[n])
    <2>1. job[c].member \in Member
      BY <1>5, JobKinds DEF SpawnFails, IInv
    <2> QED
      BY <1>2, <1>3, <1>5, <2>1, StatusNames DEF SpawnFails
  <1>6. ASSUME NEW c \in Caller, RequestShutdown(c)
        PROVE  IsValidMemberTransition(status[n], status'[n])
    <2>1. job[c].member \in Member
      BY <1>6, JobKinds DEF RequestShutdown, IInv
    <2>2. IsValidMemberTransition(job[c].from, "shutdown_requested")
      BY <1>6 DEF RequestShutdown, PendingIsValid
    <2> QED
      BY <1>2, <1>6, <2>1, <2>2, StatusNames DEF RequestShutdown
  <1>7. ASSUME NEW c \in Caller,
               WriteStatus(c) \/ SpawnSucceeds(c) \/ \E m \in Member : ShutdownMember(c, m)
        PROVE  FALSE
    BY <1>7 DEF WriteStatus, SpawnSucceeds, ShutdownMember, PendingIsValid
  <1> QED
    BY <1>1, <1>4, <1>5, <1>6, <1>7 DEF Next

\* On the memory backend rows only move along MemberTransitions, with any
\* number of members and of goroutines that write their statuses.
THEOREM RowsFollowTable == Spec => TransitionsFollowTable
  <1>1. Init => PendingIsValid
    BY DEF Init, PendingIsValid, Idle
  <1>2. IInv /\ PendingIsValid /\ [Next]_vars => PendingIsValid'
    BY PendingStep
  <1>3. IInv /\ PendingIsValid /\ [Next]_vars
            => [backend = "memory" => \A m \in Member : status'[m] # status[m] =>
                    IsValidMemberTransition(status[m], status'[m])]_vars
    BY StepFollowsTable DEF vars
  <1> QED
    BY <1>1, <1>2, <1>3, MemberInvariant, PTL DEF Spec, TransitionsFollowTable

-----------------------------------------------------------------------------
(* The runtime of the teammate: every step of MemberRecovery is a step of    *)
(* MemberStatus, and what is left when the leader's kernel has stopped.      *)

\* UpdateMemberStatus inside a longer call, whether or not it is refused.
LEMMA MarkRefines ==
  ASSUME NEW a \in Caller, NEW pc, NEW target \in Targets, Mark(a, target, pc)
  PROVE  [Next]_vars
  BY RecoveryAssumption DEF Mark, Next, vars

LEMMA StepRefines ==
  ASSUME [RecoveryNext]_allVars
  PROVE  [Next]_vars
  <1>1. /\ {Leader, Self} \cup Recovery \cup Starter \subseteq Caller /\ Mate \in Member
        /\ {"paused", "stopped", "restarting", "error", "ready", "shut_down"} \subseteq Targets
    BY RecoveryAssumption DEF Targets
  <1>2. CASE LeaderStep
    <2>1. CASE At(Leader, "marking") /\ Mark(Leader, "restarting", "detaching")
      BY <1>1, <2>1, MarkRefines
    <2>2. CASE Cleanup(Leader)
      BY <2>2 DEF Cleanup, Detach, StopWatch, AwaitWatch, Kill, vars
    <2>3. CASE Launches(Leader) \/ LaunchFails(Leader) \/ Register(Leader)
      BY <2>3 DEF Launches, LaunchFails, Register, vars
    <2>4. CASE Recovered \/ CancelRecoveryTasks \/ JoinRecoveries
      BY <2>4 DEF Recovered, CancelRecoveryTasks, JoinRecoveries, vars
    <2> QED
      BY <1>2, <2>1, <2>2, <2>3, <2>4 DEF LeaderStep
  <1>3. CASE BringDown
    <2>1. CASE \E target \in {"paused", "stopped"} : Mark(Leader, target, "cancelling")
      BY <1>1, <2>1, MarkRefines
    <2> QED
      BY <1>3, <2>1 DEF BringDown, vars
  <1>4. ASSUME NEW r \in Recovery, RecoveryStep(r) PROVE [Next]_vars
    <2>1. CASE Mark(r, "restarting", "entering") \/ Mark(r, "error", "leaving")
      BY <1>1, <2>1, MarkRefines
    <2> QED
      BY <1>4, <2>1 DEF RecoveryStep, Cleanup, Detach, StopWatch, AwaitWatch, Kill, Launches,
         LaunchFails, Register, EnterRecovery, BeginRecovery, EndRecovery, vars
  <1>5. ASSUME NEW s \in Starter, StarterStep(s) \/ BeginStart(s) \/ AskShutdown(s) \/ ContextEnds(s)
        PROVE  [Next]_vars
    <2>1. CASE Launches(s) \/ LaunchFails(s) \/ Register(s) \/ ContextEnds(s)
      BY <2>1 DEF Launches, LaunchFails, Register, ContextEnds, vars
    <2>2. CASE EndStart(s) \/ BeginStart(s)
      BY <1>1, <2>2 DEF EndStart, BeginStart, Next
    <2>3. CASE AskShutdown(s)
      BY <1>1, <2>3 DEF AskShutdown, Next
    <2> QED
      BY <1>5, <2>1, <2>2, <2>3 DEF StarterStep
  <1>6. ASSUME NEW target \in {"ready", "shut_down"}, Report(target) PROVE [Next]_vars
    BY <1>1, <1>6 DEF Report, Next
  <1>7. ASSUME NEW c \in Caller, Finishes(c) PROVE [Next]_vars
    BY <1>7 DEF Finishes, Next
  <1>8. CASE RecoverTeam \/ (\E r \in Recovery : TimeOut(r))
             \/ \E p \in Proc : Crash(p) \/ Unhealthy(p) \/ Healthy(p) \/ WatchEnds(p)
    BY <1>8 DEF RecoverTeam, TimeOut, Crash, Unhealthy, Healthy, WatchEnds, vars
  <1>9. CASE UNCHANGED allVars
    BY <1>9 DEF allVars, vars
  <1> QED
    BY <1>2, <1>3, <1>4, <1>5, <1>6, <1>7, <1>8, <1>9 DEF RecoveryNext

\* However the runtime is started, recovered and stopped (spawn_manager.go, recovery_
\* manager.go), its row changes only the way MemberStatus says, so the theorems above
\* hold of it.
THEOREM RecoveryImplementsStatus == RecoverySpec => ImplementsMemberStatus
  <1>1. RecoveryInit => Init
    BY DEF RecoveryInit
  <1> QED
    BY <1>1, StepRefines, PTL DEF RecoverySpec, ImplementsMemberStatus, Spec

(* The invariant behind StoppedTeamIsDown.  Where the leader alone starts    *)
(* the member, its runtime is the first one ever launched; the recoveries    *)
(* launch the others, which end with the contexts of the recoveries.         *)

PCs == {"out", "asking", "launching", "registering", "registered", "failed", "leaving",
        "detaching", "stopping", "awaiting", "killing", "marking", "entering", "recovering",
        "up", "cancelling", "joining", "over"}

\* What an actor is doing, when n runtimes were launched.
WorkRec(n) == [pc : PCs, goal : {"none", "restart", "stop"}, of : 0..n, proc : 0..n,
               tries : 0..MaxRetries - 1]

ProcRec == [by : Actor, up : BOOLEAN, stopped : BOOLEAN,
            watch : {"none", "on", "calling", "fired", "off"}]

Typed ==
  /\ spawnMode \in {"process", "inprocess"} /\ alone \in BOOLEAN
  /\ procs \in Seq(ProcRec) /\ work \in [Actor -> WorkRec(Len(procs))]
  /\ handle \in 0..Len(procs) /\ cancels \subseteq Recovery /\ ended \subseteq Actor

StartersKeepOut == \A s \in Starter : work[s].pc \in {"out", "asking", "over"}

LeaderIsFirst ==
  /\ \A p \in Proc : procs[p].by \in Recovery \/ (procs[p].by = Leader /\ p = 1)
  /\ work[Leader].goal = "restart" =>
       /\ work[Leader].pc \in {"marking", "detaching", "launching"} => procs = <<>>
       /\ work[Leader].pc \notin {"stopping", "awaiting", "killing", "out"}
  /\ work[Leader].pc = "launching" => work[Leader].goal = "restart"
  /\ work[Leader].pc = "registering" =>
       Len(procs) = 1 /\ procs[1].by = Leader /\ work[Leader].proc = 1

RecoveriesFollow ==
  /\ \A p \in Proc : Checked(p) => spawnMode = "process"
  /\ \A r \in Recovery : work[r].pc # "out" =>
       procs # <<>> /\ spawnMode = "process" /\ work[Leader].pc # "registering"
  /\ \A r \in Recovery : /\ work[r].pc = "out" => ~Counted(r)
                         /\ work[r].pc \in {"launching", "registering"} => Counted(r)
                         /\ work[r].pc = "registering" => work[r].proc # 1
  /\ \A p \in Proc : procs[p].by \in Recovery =>
       spawnMode = "process" /\ (procs[p].by \in ended \/ Counted(procs[p].by))

\* Between Detach and Kill an actor holds a runtime that nobody else knows.
Holding == {"stopping", "awaiting", "killing"}

FirstIsKnown ==
  /\ procs # <<>> /\ procs[1].by = Leader /\ Up(1) =>
       \/ handle = 1 \/ work[Leader].pc = "registering"
       \/ \E a \in Recovery \cup {Leader} : work[a].proc = 1 /\ work[a].pc \in Holding
  /\ \A r \in Recovery :
       Counted(r) /\ work[r].pc \in Holding \cup {"launching", "registering"} => handle # 1
  /\ work[Leader].pc \in Holding => handle # 1
  /\ work[Leader].pc = "out" /\ procs # <<>> => handle # 1

Alone == StartersKeepOut /\ LeaderIsFirst /\ RecoveriesFollow /\ FirstIsKnown

RecoveryInv == Typed /\ (alone => Alone)

\* A step that launches nothing and revives nothing.
Tame ==
  /\ procs' \in Seq(ProcRec) /\ Len(procs') = Len(procs)
  /\ \A p \in Proc : /\ procs'[p].by = procs[p].by
                     /\ procs'[p].up => procs[p].up
                     /\ procs'[p].watch # "none" => procs[p].watch # "none" \/ spawnMode = "process"

LEMMA Actors ==
  /\ Leader \in Actor /\ Recovery \subseteq Actor /\ Starter \subseteq Actor
  /\ Leader \notin Recovery /\ Leader \notin Starter /\ Recovery \cap Starter = {}
  /\ \A a \in Actor : a \in Starter \/ a \in Recovery \/ a = Leader
  BY RecoveryAssumption DEF Actor

LEMMA TypedFacts ==
  ASSUME Typed
  PROVE  /\ Len(procs) \in Nat /\ Proc = 1..Len(procs) /\ handle \in Nat
         /\ (procs = <<>> <=> Len(procs) = 0)
         /\ \A p \in Proc : procs[p] \in ProcRec
         /\ \A a \in Actor : work[a] \in WorkRec(Len(procs))
         /\ MaxRetries \in Nat \ {0}
  BY RecoveryAssumption DEF Typed, Proc

LEMMA WorkMoves ==
  ASSUME Typed, NEW a \in Actor, NEW new \in WorkRec(Len(procs')), Len(procs') \in Nat,
         Len(procs) <= Len(procs'), work' = [work EXCEPT ![a] = new]
  PROVE  /\ work' \in [Actor -> WorkRec(Len(procs'))]
         /\ \A b \in Actor : work'[b] = IF b = a THEN new ELSE work[b]
  <1>1. 0..Len(procs) \subseteq 0..Len(procs')
    BY TypedFacts
  <1>2. WorkRec(Len(procs)) \subseteq WorkRec(Len(procs'))
    BY <1>1 DEF WorkRec
  <1> QED
    BY <1>2 DEF Typed

LEMMA ProcPut ==
  ASSUME Typed, NEW q, NEW new, procs' = [procs EXCEPT ![q] = new], q \in Proc => new \in ProcRec
  PROVE  /\ procs' \in Seq(ProcRec) /\ Len(procs') = Len(procs)
         /\ \A p \in Proc : procs'[p] = IF p = q THEN new ELSE procs[p]
  <1>1. CASE q \in Proc
    BY <1>1, ExceptSeq DEF Typed, Proc
  <1>2. CASE q \notin Proc
    <2>1. procs \in [Proc -> ProcRec]
      BY LenProperties DEF Typed, Proc
    <2>2. procs' = procs
      BY <1>2, <2>1
    <2> QED
      BY <1>2, <2>2 DEF Typed
  <1> QED
    BY <1>1, <1>2

\* Writing one field of one runtime.
LEMMA ProcWrite ==
  ASSUME Typed, NEW q \in Nat,
         \/ procs' = procs
         \/ procs' = [procs EXCEPT ![q].up = FALSE]
         \/ \E v \in BOOLEAN : procs' = [procs EXCEPT ![q].stopped = v]
         \/ \E v \in {"on", "calling", "fired", "off"} :
              procs' = [procs EXCEPT ![q].watch = v] /\ (procs[q].watch # "none" \/ spawnMode = "process")
  PROVE  Tame
  <1>1. CASE procs' = procs
    BY <1>1 DEF Tame, Typed
  <1>2. CASE procs' = [procs EXCEPT ![q].up = FALSE]
    <2>1. PICK new : new = [procs[q] EXCEPT !.up = FALSE]
      OBVIOUS
    <2>2. procs' = [procs EXCEPT ![q] = new]
      BY <1>2, <2>1, Zenon
    <2>3. q \in Proc => new \in ProcRec /\ ~new.up /\ new.by = procs[q].by /\ new.watch = procs[q].watch
      BY <2>1, TypedFacts DEF ProcRec
    <2>4. /\ procs' \in Seq(ProcRec) /\ Len(procs') = Len(procs)
          /\ \A p \in Proc : procs'[p] = IF p = q THEN new ELSE procs[p]
      <3>1. q \in Proc => new \in ProcRec
        BY <2>3
      <3> QED
        BY <2>2, <3>1, ProcPut
    <2> QED
      BY <2>3, <2>4 DEF Tame
  <1>3. ASSUME NEW v \in BOOLEAN, procs' = [procs EXCEPT ![q].stopped = v] PROVE Tame
    <2>1. PICK new : new = [procs[q] EXCEPT !.stopped = v]
      OBVIOUS
    <2>2. procs' = [procs EXCEPT ![q] = new]
      BY <1>3, <2>1, Zenon
    <2>3. q \in Proc => /\ new \in ProcRec /\ new.up = procs[q].up
                        /\ new.by = procs[q].by /\ new.watch = procs[q].watch
      BY <2>1, TypedFacts DEF ProcRec
    <2>4. /\ procs' \in Seq(ProcRec) /\ Len(procs') = Len(procs)
          /\ \A p \in Proc : procs'[p] = IF p = q THEN new ELSE procs[p]
      <3>1. q \in Proc => new \in ProcRec
        BY <2>3
      <3> QED
        BY <2>2, <3>1, ProcPut
    <2> QED
      BY <2>3, <2>4 DEF Tame
  <1>4. ASSUME NEW v \in {"on", "calling", "fired", "off"}, procs' = [procs EXCEPT ![q].watch = v],
               procs[q].watch # "none" \/ spawnMode = "process"
        PROVE  Tame
    <2>1. PICK new : new = [procs[q] EXCEPT !.watch = v]
      OBVIOUS
    <2>2. procs' = [procs EXCEPT ![q] = new]
      BY <1>4, <2>1, Zenon
    <2>3. q \in Proc => new \in ProcRec /\ new.up = procs[q].up /\ new.by = procs[q].by
      BY <2>1, TypedFacts DEF ProcRec
    <2>4. /\ procs' \in Seq(ProcRec) /\ Len(procs') = Len(procs)
          /\ \A p \in Proc : procs'[p] = IF p = q THEN new ELSE procs[p]
      <3>1. q \in Proc => new \in ProcRec
        BY <2>3
      <3> QED
        BY <2>2, <3>1, ProcPut
    <2> QED
      BY <1>4, <2>3, <2>4 DEF Tame
  <1> QED
    BY <1>1, <1>2, <1>3, <1>4

\* No actor moves.
LEMMA Stays ==
  ASSUME RecoveryInv, Tame, UNCHANGED <<work, handle, spawnMode, alone>>, ended \subseteq ended'
  PROVE  (alone => Alone)'
  <1> SUFFICES ASSUME alone PROVE Alone'
    OBVIOUS
  <1>1. Proc' = Proc /\ (procs' = <<>> <=> procs = <<>>) /\ Typed /\ Alone /\ (procs # <<>> => 1 \in Proc)
    BY TypedFacts DEF RecoveryInv, Tame, Proc
  <1>2. StartersKeepOut' /\ LeaderIsFirst'
    BY <1>1 DEF Alone, StartersKeepOut, LeaderIsFirst, Tame
  <1>3. RecoveriesFollow'
    BY <1>1 DEF Alone, RecoveriesFollow, Tame, Counted, Checked
  <1>4. FirstIsKnown'
    BY <1>1 DEF Alone, FirstIsKnown, Tame, Counted, Up
  <1> QED
    BY <1>2, <1>3, <1>4 DEF Alone

\* One actor moves on, and what it is for and holds stays the same.
LEMMA Strolls ==
  ASSUME RecoveryInv, alone, Tame, UNCHANGED <<handle, spawnMode, alone>>, ended \subseteq ended',
         NEW a \in Actor, NEW new \in WorkRec(Len(procs)), work' = [work EXCEPT ![a] = new],
         new.goal = work[a].goal, new.proc = work[a].proc,
         work[a].pc # "registering", work[a].pc = "out" => a \in Starter,
         new.pc \notin {"out", "registering", "marking"},
         new.pc = "launching" => work[a].pc = "launching",
         new.pc = "detaching" => work[a].pc = "marking",
         new.pc \in Holding <=> work[a].pc \in Holding,
         a \in Starter => new.pc \in {"asking", "over"}
  PROVE  Alone'
  <1>1. /\ Proc' = Proc /\ (procs' = <<>> <=> procs = <<>>) /\ Typed /\ Alone
        /\ (procs # <<>> => 1 \in Proc)
    BY TypedFacts DEF RecoveryInv, Tame, Proc
  <1>2. \A b \in Actor : work'[b] = IF b = a THEN new ELSE work[b]
    <2>1. Len(procs') = Len(procs) /\ Len(procs) \in Nat
      BY <1>1, TypedFacts DEF Tame
    <2>2. new \in WorkRec(Len(procs')) /\ Len(procs') \in Nat /\ Len(procs) <= Len(procs')
      BY <2>1
    <2> QED
      BY <1>1, <2>2, WorkMoves
  <1>3. StartersKeepOut'
    BY <1>1, <1>2, Actors DEF Alone, StartersKeepOut
  <1>4. LeaderIsFirst'
    BY <1>1, <1>2, Actors DEF Alone, LeaderIsFirst, Tame, Holding
  <1>5. RecoveriesFollow'
    BY <1>1, <1>2, Actors DEF Alone, RecoveriesFollow, Tame, Counted, Checked
  <1>6. FirstIsKnown'
    BY <1>1, <1>2, Actors DEF Alone, FirstIsKnown, Tame, Counted, Up, Holding
  <1> QED
    BY <1>3, <1>4, <1>5, <1>6 DEF Alone

\* The record an actor moves to, by the way it is written.
LEMMA GotoMoves ==
  ASSUME Typed, NEW a \in Actor, NEW to \in PCs, Goto(a, to)
  PROVE  \E new \in WorkRec(Len(procs)) :
           /\ work' = [work EXCEPT ![a] = new] /\ new.pc = to
           /\ new.goal = work[a].goal /\ new.proc = work[a].proc
  <1>1. PICK new : new = [work[a] EXCEPT !.pc = to]
    OBVIOUS
  <1>2. work' = [work EXCEPT ![a] = new]
    BY <1>1, Zenon DEF Goto
  <1>3. new \in WorkRec(Len(procs)) /\ new.pc = to /\ new.goal = work[a].goal /\ new.proc = work[a].proc
    BY <1>1, TypedFacts DEF WorkRec
  <1> QED
    BY <1>2, <1>3

MovesTo(a, to, n) == work' = [work EXCEPT ![a].pc = to, ![a].proc = n]
TurnsTo(a, to, g) == work' = [work EXCEPT ![a].pc = to, ![a].goal = g]

LEMMA HoldMoves ==
  ASSUME Typed, NEW a \in Actor, NEW to \in PCs, NEW n \in 0..Len(procs), MovesTo(a, to, n)
  PROVE  \E new \in WorkRec(Len(procs)) :
           /\ work' = [work EXCEPT ![a] = new] /\ new.pc = to
           /\ new.goal = work[a].goal /\ new.proc = n
  <1>1. PICK new : new = [work[a] EXCEPT !.pc = to, !.proc = n]
    OBVIOUS
  <1>2. work' = [work EXCEPT ![a] = new]
    BY <1>1, TypedFacts DEF Typed, WorkRec, MovesTo
  <1>3. new \in WorkRec(Len(procs)) /\ new.pc = to /\ new.goal = work[a].goal /\ new.proc = n
    BY <1>1, TypedFacts DEF WorkRec
  <1> QED
    BY <1>2, <1>3

LEMMA GoalMoves ==
  ASSUME Typed, NEW a \in Actor, NEW to \in PCs, NEW g \in {"restart", "stop"}, TurnsTo(a, to, g)
  PROVE  \E new \in WorkRec(Len(procs)) :
           /\ work' = [work EXCEPT ![a] = new] /\ new.pc = to
           /\ new.goal = g /\ new.proc = work[a].proc
  <1>1. PICK new : new = [work[a] EXCEPT !.pc = to, !.goal = g]
    OBVIOUS
  <1>2. work' = [work EXCEPT ![a] = new]
    BY <1>1, TypedFacts DEF Typed, WorkRec, TurnsTo
  <1>3. new \in WorkRec(Len(procs)) /\ new.pc = to /\ new.goal = g /\ new.proc = work[a].proc
    BY <1>1, TypedFacts DEF WorkRec
  <1> QED
    BY <1>2, <1>3

\* The types, when one actor moves.
LEMMA MovesTyped ==
  ASSUME Typed, NEW a \in Actor, NEW new \in WorkRec(Len(procs')), work' = [work EXCEPT ![a] = new],
         procs' \in Seq(ProcRec), Len(procs) <= Len(procs'), handle' \in 0..Len(procs'),
         cancels' \subseteq Recovery, ended' \subseteq Actor, UNCHANGED <<spawnMode, alone>>
  PROVE  Typed' /\ \A b \in Actor : work'[b] = IF b = a THEN new ELSE work[b]
  <1>1. Len(procs') \in Nat
    BY LenProperties
  <1> QED
    BY <1>1, WorkMoves DEF Typed

\* A step of an actor that only moves on.
LEMMA GotoKeeps ==
  ASSUME RecoveryInv, Tame, UNCHANGED <<handle, spawnMode, alone>>, ended \subseteq ended',
         ended' \subseteq Actor, cancels' \subseteq Recovery, NEW a \in Actor, NEW to \in PCs, Goto(a, to),
         work[a].pc # "registering", work[a].pc = "out" => a \in Starter,
         to \notin {"out", "registering", "marking"},
         to = "launching" => work[a].pc = "launching",
         to = "detaching" => work[a].pc = "marking",
         to \in Holding <=> work[a].pc \in Holding,
         alone /\ a \in Starter => to \in {"asking", "over"}
  PROVE  RecoveryInv'
  <1>1. Typed /\ Len(procs) \in Nat /\ Len(procs') = Len(procs) /\ procs' \in Seq(ProcRec)
        /\ handle \in 0..Len(procs) /\ 0 \in 0..Len(procs)
    BY TypedFacts DEF RecoveryInv, Typed, Tame
  <1>2. PICK new \in WorkRec(Len(procs)) :
          /\ work' = [work EXCEPT ![a] = new] /\ new.pc = to
          /\ new.goal = work[a].goal /\ new.proc = work[a].proc
    BY <1>1, GotoMoves
  <1>3. Typed'
    <2>1. new \in WorkRec(Len(procs')) /\ Len(procs) <= Len(procs') /\ handle' \in 0..Len(procs')
      BY <1>1
    <2> QED
      BY <1>1, <1>2, <2>1, MovesTyped
  <1>4. ASSUME alone PROVE Alone'
    BY <1>2, <1>4, Strolls
  <1> QED
    BY <1>3, <1>4 DEF RecoveryInv

LEMMA ProcsStay ==
  ASSUME Typed, UNCHANGED procs
  PROVE  Tame
  BY DEF Typed, Tame

\* The steps that only move on.
LEMMA LightSteps ==
  ASSUME RecoveryInv, NEW a \in Actor,
         \/ StopWatch(a) \/ AwaitWatch(a)
         \/ a \in Recovery /\ EnterRecovery(a)
         \/ a \in Recovery /\ At(a, "marking") /\ Mark(a, "restarting", "entering")
         \/ a \in Recovery /\ At(a, "failed") /\ Mark(a, "error", "leaving")
         \/ a = Leader /\ At(a, "marking") /\ Mark(a, "restarting", "detaching")
         \/ a = Leader /\ (BringDown \/ CancelRecoveryTasks)
         \/ a \in Starter /\ AskShutdown(a)
  PROVE  RecoveryInv'
  <1>0. alone /\ a \in Starter => work[a].pc \in {"out", "asking", "over"}
    BY DEF RecoveryInv, Alone, StartersKeepOut
  <1>1. Typed /\ ended \subseteq Actor /\ cancels \subseteq Recovery /\ Recovery \subseteq Actor
    BY Actors DEF RecoveryInv, Typed
  <1>2. CASE StopWatch(a)
    <2>1. PICK q, v : q = work[a].proc /\ v = Checked(work[a].proc)
      OBVIOUS
    <2>2. q \in Nat /\ v \in BOOLEAN
      BY <1>1, <2>1, TypedFacts DEF WorkRec, Checked
    <2>3. procs' = [procs EXCEPT ![q].stopped = v]
      BY <1>2, <2>1 DEF StopWatch
    <2>4. Tame
      BY <1>1, <2>2, <2>3, ProcWrite
    <2> QED
      BY <1>0, <1>1, <1>2, <2>4, GotoKeeps DEF StopWatch, At, PCs, Holding
  <1>3. CASE UNCHANGED procs
    <2>1. Tame
      BY <1>1, <1>3, ProcsStay
    <2>2. CASE AwaitWatch(a)
      BY <1>0, <1>1, <2>1, <2>2, GotoKeeps DEF AwaitWatch, At, PCs, Holding
    <2>3. CASE a \in Recovery /\ EnterRecovery(a)
      BY <1>1, <2>1, <2>3, Actors, GotoKeeps DEF EnterRecovery, At, PCs, Holding
    <2>4. CASE a \in Recovery /\ At(a, "marking") /\ Mark(a, "restarting", "entering")
      BY <1>1, <2>1, <2>4, Actors, GotoKeeps DEF Mark, At, PCs, Holding
    <2>5. CASE a \in Recovery /\ At(a, "failed") /\ Mark(a, "error", "leaving")
      BY <1>1, <2>1, <2>5, Actors, GotoKeeps DEF Mark, At, PCs, Holding
    <2>6. CASE a = Leader /\ At(a, "marking") /\ Mark(a, "restarting", "detaching")
      BY <1>1, <2>1, <2>6, Actors, GotoKeeps DEF Mark, At, PCs, Holding
    <2>7. CASE a = Leader /\ BringDown
      <3>1. Goto(a, "cancelling") /\ At(a, "up") /\ UNCHANGED <<handle, spawnMode, alone, cancels, ended>>
        BY <2>7 DEF BringDown, Mark
      <3> QED
        BY <1>1, <2>1, <2>7, <3>1, Actors, GotoKeeps DEF At, PCs, Holding
    <2>8. CASE a = Leader /\ CancelRecoveryTasks
      BY <1>1, <2>1, <2>8, Actors, GotoKeeps DEF CancelRecoveryTasks, At, PCs, Holding
    <2>9. CASE a \in Starter /\ AskShutdown(a)
      <3>1. /\ \E pc \in {"asking", "over"} : Goto(a, pc)
            /\ At(a, "out") \/ At(a, "asking")
            /\ UNCHANGED <<handle, spawnMode, alone, cancels, ended>>
        BY <2>9 DEF AskShutdown
      <3> QED
        BY <1>1, <2>1, <2>9, <3>1, GotoKeeps DEF At, PCs, Holding
    <2> QED
      BY <1>2, <2>2, <2>3, <2>4, <2>5, <2>6, <2>7, <2>8, <2>9
  <1>4. StopWatch(a) \/ UNCHANGED procs
    BY DEF AwaitWatch, EnterRecovery, Mark, BringDown, CancelRecoveryTasks, AskShutdown
  <1> QED
    BY <1>2, <1>3, <1>4

LEMMA LaunchFailsKeeps ==
  ASSUME RecoveryInv, NEW a \in Actor, LaunchFails(a)
  PROVE  RecoveryInv'
  <1>1. /\ Typed /\ Tame /\ Len(procs) \in Nat /\ MaxRetries \in Nat \ {0}
        /\ procs' = procs /\ procs \in Seq(ProcRec) /\ handle' \in 0..Len(procs')
        /\ UNCHANGED <<handle, spawnMode, alone, cancels, ended>>
        /\ ended \subseteq Actor /\ cancels \subseteq Recovery /\ work[a].pc = "launching"
    BY ProcsStay, TypedFacts DEF RecoveryInv, LaunchFails, At, Typed
  <1>2. PICK new \in WorkRec(Len(procs)) :
          /\ work' = [work EXCEPT ![a] = new] /\ new.goal = work[a].goal /\ new.proc = work[a].proc
          /\ new.pc = "failed" \/ (new.pc = "launching" /\ a \notin Starter)
    <2>1. CASE Goto(a, "failed")
      BY <1>1, <2>1, GotoMoves DEF PCs
    <2>2. CASE ~Goto(a, "failed")
      <3>1. /\ a \notin Starter /\ work[a].tries + 1 # MaxRetries /\ work[a] \in WorkRec(Len(procs))
            /\ work' = [work EXCEPT ![a].tries = work[a].tries + 1]
        BY <1>1, <2>2, TypedFacts DEF LaunchFails
      <3>2. work[a].tries + 1 \in 0..MaxRetries - 1
        BY <1>1, <3>1 DEF WorkRec
      <3>3. PICK new : new = [work[a] EXCEPT !.tries = work[a].tries + 1]
        OBVIOUS
      <3>4. work' = [work EXCEPT ![a] = new]
        BY <3>1, <3>3, Zenon
      <3>5. new \in WorkRec(Len(procs)) /\ new.goal = work[a].goal /\ new.proc = work[a].proc
            /\ new.pc = "launching"
        BY <1>1, <3>1, <3>2, <3>3 DEF WorkRec
      <3> QED
        BY <3>1, <3>4, <3>5
    <2> QED
      BY <2>1, <2>2
  <1>5. Typed'
    <2>1. new \in WorkRec(Len(procs')) /\ Len(procs) <= Len(procs')
      BY <1>1
    <2> QED
      BY <1>1, <1>2, <2>1, MovesTyped
  <1>6. ASSUME alone PROVE Alone'
    <2>1. a \notin Starter
      BY <1>1, <1>6 DEF RecoveryInv, Alone, StartersKeepOut
    <2> QED
      BY <1>1, <1>2, <1>6, <2>1, Strolls DEF Holding
  <1> QED
    BY <1>1, <1>5, <1>6 DEF RecoveryInv

\* The first launch is the leader's; later ones are recoveries'.
LEMMA LaunchKeeps ==
  ASSUME RecoveryInv, NEW a \in Actor, Launches(a)
  PROVE  RecoveryInv'
  <1>1. /\ Typed /\ Len(procs) \in Nat /\ work[a].pc = "launching" /\ procs \in Seq(ProcRec)
        /\ work[a] \in WorkRec(Len(procs)) /\ handle \in 0..Len(procs)
        /\ ended \subseteq Actor /\ cancels \subseteq Recovery /\ Proc = 1..Len(procs)
        /\ UNCHANGED <<handle, spawnMode, alone, cancels, ended>>
    BY TypedFacts DEF RecoveryInv, Launches, At, Typed
  <1>2. PICK p : p = Len(procs) + 1
    OBVIOUS
  <1>3. PICK rec : rec = [by |-> a, up |-> TRUE, stopped |-> FALSE,
                          watch |-> IF spawnMode = "process" /\ a \notin Starter THEN "on" ELSE "none"]
    OBVIOUS
  <1>4. rec \in ProcRec /\ rec.by = a /\ (rec.watch # "none" => spawnMode = "process")
    BY <1>3 DEF ProcRec
  <1>5. /\ procs' \in Seq(ProcRec) /\ Len(procs') = p /\ procs'[p] = rec
        /\ \A q \in Proc : procs'[q] = procs[q]
    <2>1. procs' = Append(procs, rec)
      BY <1>3 DEF Launches
    <2> QED
      BY <1>1, <1>2, <1>4, <2>1, AppendProperties
  <1>6. PICK new : new = [work[a] EXCEPT !.pc = "registering", !.proc = p]
    OBVIOUS
  <1>7. new \in WorkRec(p) /\ new.pc = "registering" /\ new.proc = p /\ new.goal = work[a].goal
    <2>1. work[a] \in WorkRec(p) /\ p \in 0..p
      BY <1>1, <1>2 DEF WorkRec
    <2> QED
      BY <1>6, <2>1 DEF WorkRec, PCs
  <1>8. work' = [work EXCEPT ![a] = new]
    BY <1>1, <1>2, <1>6 DEF Launches, Typed, WorkRec
  <1>9. Typed' /\ \A b \in Actor : work'[b] = IF b = a THEN new ELSE work[b]
    <2>1. new \in WorkRec(Len(procs')) /\ Len(procs) <= Len(procs') /\ handle' \in 0..Len(procs')
      BY <1>1, <1>2, <1>5, <1>7
    <2> QED
      BY <1>1, <1>5, <1>8, <2>1, MovesTyped
  <1>10. ASSUME alone PROVE Alone'
    <2>1. Alone /\ a \notin Starter
      BY <1>1, <1>10 DEF RecoveryInv, Alone, StartersKeepOut
    <2>2. Proc' = Proc \cup {p} /\ p \notin Proc /\ p \in Nat /\ procs' # <<>>
      BY <1>1, <1>2, <1>5 DEF Proc
    <2>3. StartersKeepOut'
      BY <1>9, <2>1, Actors DEF Alone, StartersKeepOut
    <2>4. CASE a = Leader
      <3>1. procs = <<>> /\ p = 1 /\ work[Leader].goal = "restart"
        BY <1>1, <1>2, <2>1, <2>4 DEF Alone, LeaderIsFirst
      <3>2. \A r \in Recovery : work[r].pc = "out" /\ ~Counted(r)
        BY <2>1, <3>1 DEF Alone, RecoveriesFollow
      <3>3. Proc = {}
        BY <1>1, <3>1
      <3>4. LeaderIsFirst'
        BY <1>4, <1>5, <1>7, <1>9, <2>2, <2>4, <3>1, <3>3, Actors DEF LeaderIsFirst
      <3>5. RecoveriesFollow'
        BY <1>1, <1>4, <1>5, <1>9, <2>2, <2>4, <3>2, <3>3, Actors DEF RecoveriesFollow, Counted, Checked
      <3>6. FirstIsKnown'
        BY <1>7, <1>9, <2>4, <3>2, Actors DEF FirstIsKnown, Counted, Holding
      <3> QED
        BY <2>3, <3>4, <3>5, <3>6 DEF Alone
    <2>5. CASE a \in Recovery
      <3>1. /\ procs # <<>> /\ p # 1 /\ 1 \in Proc /\ Counted(a) /\ spawnMode = "process"
            /\ work[Leader].pc # "registering"
        BY <1>1, <1>2, <2>1, <2>5 DEF Alone, RecoveriesFollow
      <3>2. LeaderIsFirst'
        BY <1>4, <1>5, <1>7, <1>9, <2>1, <2>2, <2>5, <3>1, Actors DEF Alone, LeaderIsFirst
      <3>3. RecoveriesFollow'
        BY <1>1, <1>4, <1>5, <1>7, <1>9, <2>1, <2>2, <2>5, <3>1, Actors
           DEF Alone, RecoveriesFollow, Counted, Checked
      <3>4. FirstIsKnown'
        BY <1>1, <1>5, <1>7, <1>9, <2>1, <2>5, <3>1, Actors DEF Alone, FirstIsKnown, Counted, Holding, Up
      <3> QED
        BY <2>3, <3>2, <3>3, <3>4 DEF Alone
    <2> QED
      BY <2>1, <2>4, <2>5, Actors
  <1> QED
    BY <1>1, <1>9, <1>10 DEF RecoveryInv

\* What recoveries register is not the first runtime.
LEMMA RegisterKeeps ==
  ASSUME RecoveryInv, NEW a \in Actor, Register(a)
  PROVE  RecoveryInv'
  <1>1. /\ Typed /\ Len(procs) \in Nat /\ work[a].pc = "registering" /\ procs \in Seq(ProcRec)
        /\ work[a] \in WorkRec(Len(procs)) /\ ended \subseteq Actor /\ cancels \subseteq Recovery
        /\ UNCHANGED <<procs, spawnMode, alone, cancels, ended>> /\ Goto(a, "registered")
        /\ handle' = work[a].proc
    BY TypedFacts DEF RecoveryInv, Register, At, Typed
  <1>2. PICK new \in WorkRec(Len(procs)) :
          /\ work' = [work EXCEPT ![a] = new] /\ new.pc = "registered"
          /\ new.goal = work[a].goal /\ new.proc = work[a].proc
    BY <1>1, GotoMoves DEF PCs
  <1>3. handle' \in 0..Len(procs)
    BY <1>1 DEF WorkRec
  <1>4. Typed' /\ \A b \in Actor : work'[b] = IF b = a THEN new ELSE work[b]
    <2>1. new \in WorkRec(Len(procs')) /\ Len(procs) <= Len(procs') /\ handle' \in 0..Len(procs')
      BY <1>1, <1>3
    <2> QED
      BY <1>1, <1>2, <2>1, MovesTyped
  <1>5. ASSUME alone PROVE Alone'
    <2>1. Alone /\ a \notin Starter /\ Proc' = Proc
      BY <1>1, <1>5 DEF RecoveryInv, Alone, StartersKeepOut, Proc
    <2>2. StartersKeepOut'
      BY <1>4, <2>1, Actors DEF Alone, StartersKeepOut
    <2>3. LeaderIsFirst'
      BY <1>1, <1>2, <1>4, <2>1 DEF Alone, LeaderIsFirst
    <2>4. RecoveriesFollow'
      BY <1>1, <1>2, <1>4, <2>1, Actors DEF Alone, RecoveriesFollow, Counted, Checked
    <2>5. FirstIsKnown'
      <3>1. CASE a = Leader
        <4>1. handle' = 1 /\ \A r \in Recovery : work[r].pc = "out" /\ ~Counted(r)
          BY <1>1, <2>1, <3>1 DEF Alone, LeaderIsFirst, RecoveriesFollow
        <4> QED
          BY <1>2, <1>4, <3>1, <4>1, Actors DEF FirstIsKnown, Counted, Holding
      <3>2. CASE a \in Recovery
        <4>1. handle' # 1 /\ Counted(a) /\ work[Leader].pc # "registering"
          BY <1>1, <2>1, <3>2 DEF Alone, RecoveriesFollow
        <4>2. handle # 1
          BY <1>1, <2>1, <3>2, <4>1 DEF Alone, FirstIsKnown
        <4> QED
          BY <1>1, <1>2, <1>4, <2>1, <3>2, <4>1, <4>2, Actors DEF Alone, FirstIsKnown, Counted, Holding, Up
      <3> QED
        BY <2>1, <3>1, <3>2, Actors
    <2> QED
      BY <2>2, <2>3, <2>4, <2>5 DEF Alone
  <1> QED
    BY <1>1, <1>4, <1>5 DEF RecoveryInv

\* Whoever takes the entry holds what was in it.
LEMMA DetachKeeps ==
  ASSUME RecoveryInv, NEW a \in Actor, Detach(a)
  PROVE  RecoveryInv'
  <1>1. /\ Typed /\ Len(procs) \in Nat /\ work[a].pc = "detaching" /\ procs \in Seq(ProcRec)
        /\ ended \subseteq Actor /\ cancels \subseteq Recovery /\ handle \in 0..Len(procs)
        /\ UNCHANGED <<procs, spawnMode, alone, cancels, ended>> /\ handle' = 0
    BY TypedFacts DEF RecoveryInv, Detach, At, Typed
  <1>2. PICK to : to = IF handle = 0 THEN AfterCleanup(a) ELSE "stopping"
    OBVIOUS
  <1>3. to \in PCs
    BY <1>2 DEF AfterCleanup, PCs
  <1>4. PICK new \in WorkRec(Len(procs)) :
          /\ work' = [work EXCEPT ![a] = new] /\ new.pc = to
          /\ new.goal = work[a].goal /\ new.proc = handle
    <2>1. MovesTo(a, to, handle)
      BY <1>2 DEF Detach, MovesTo
    <2> QED
      <3>1. Typed /\ handle \in 0..Len(procs)
        BY <1>1
      <3> QED
        BY <1>3, <2>1, <3>1, HoldMoves
  <1>5. Typed' /\ \A b \in Actor : work'[b] = IF b = a THEN new ELSE work[b]
    <2>1. new \in WorkRec(Len(procs')) /\ Len(procs) <= Len(procs') /\ handle' \in 0..Len(procs')
      BY <1>1
    <2> QED
      BY <1>1, <1>4, <2>1, MovesTyped
  <1>6. ASSUME alone PROVE Alone'
    <2>1. Alone /\ a \notin Starter /\ Proc' = Proc
      BY <1>1, <1>6 DEF RecoveryInv, Alone, StartersKeepOut, Proc
    <2>2. StartersKeepOut'
      BY <1>5, <2>1, Actors DEF Alone, StartersKeepOut
    <2>3. LeaderIsFirst'
      BY <1>1, <1>2, <1>4, <1>5, <2>1, TypedFacts DEF Alone, LeaderIsFirst, AfterCleanup
    <2>4. RecoveriesFollow'
      BY <1>1, <1>2, <1>4, <1>5, <2>1, Actors DEF Alone, RecoveriesFollow, Counted, Checked, AfterCleanup
    <2>5. FirstIsKnown'
      BY <1>1, <1>2, <1>4, <1>5, <2>1, Actors DEF Alone, FirstIsKnown, Counted, Holding, Up
    <2> QED
      BY <2>2, <2>3, <2>4, <2>5 DEF Alone
  <1> QED
    BY <1>1, <1>5, <1>6 DEF RecoveryInv

\* What was held is down, and the entry does not come back.
LEMMA KillKeeps ==
  ASSUME RecoveryInv, NEW a \in Actor, Kill(a)
  PROVE  RecoveryInv'
  <1>1. /\ Typed /\ Len(procs) \in Nat /\ work[a].pc = "killing" /\ procs \in Seq(ProcRec)
        /\ ended \subseteq Actor /\ cancels \subseteq Recovery /\ handle \in 0..Len(procs)
        /\ UNCHANGED <<handle, spawnMode, alone, cancels, ended>>
        /\ procs' = [procs EXCEPT ![work[a].proc].up = FALSE]
    BY TypedFacts DEF RecoveryInv, Kill, At, Typed
  <1>2. PICK q : q = work[a].proc
    OBVIOUS
  <1>3. q \in Nat /\ 0 \in 0..Len(procs)
    BY <1>1, <1>2, TypedFacts DEF WorkRec
  <1>4. Tame
    BY <1>1, <1>2, <1>3, ProcWrite
  <1>5. q \in Proc => ~procs'[q].up
    BY <1>1, <1>2, TypedFacts DEF Typed, ProcRec
  <1>6. AfterCleanup(a) \in PCs
    BY DEF AfterCleanup, PCs
  <1>7. PICK new \in WorkRec(Len(procs)) :
          /\ work' = [work EXCEPT ![a] = new] /\ new.pc = AfterCleanup(a)
          /\ new.goal = work[a].goal /\ new.proc = 0
    <2>1. PICK to : to = AfterCleanup(a)
      OBVIOUS
    <2>2. MovesTo(a, to, 0)
      BY <2>1 DEF Kill, MovesTo
    <2> QED
      <3>1. Typed /\ to \in PCs /\ 0 \in 0..Len(procs)
        BY <1>1, <1>3, <1>6, <2>1
      <3> QED
        BY <2>1, <2>2, <3>1, HoldMoves
  <1>8. Typed' /\ \A b \in Actor : work'[b] = IF b = a THEN new ELSE work[b]
    <2>1. /\ new \in WorkRec(Len(procs')) /\ Len(procs) <= Len(procs') /\ handle' \in 0..Len(procs')
          /\ procs' \in Seq(ProcRec)
      BY <1>1, <1>4 DEF Tame
    <2>2. work' = [work EXCEPT ![a] = new]
      BY <1>7
    <2> QED
      BY <1>1, <2>1, <2>2, MovesTyped
  <1>9. ASSUME alone PROVE Alone'
    <2>1. /\ Alone /\ a \notin Starter /\ Proc' = Proc /\ (procs' = <<>> <=> procs = <<>>)
          /\ procs # <<>> => 1 \in Proc
      BY <1>1, <1>4, <1>9, TypedFacts DEF RecoveryInv, Alone, StartersKeepOut, Proc, Tame
    <2>2. StartersKeepOut'
      BY <1>8, <2>1, Actors DEF Alone, StartersKeepOut
    <2>3. LeaderIsFirst'
      BY <1>1, <1>4, <1>7, <1>8, <2>1 DEF Alone, LeaderIsFirst, AfterCleanup, Tame
    <2>4. RecoveriesFollow'
      BY <1>1, <1>4, <1>7, <1>8, <2>1, Actors
         DEF Alone, RecoveriesFollow, Counted, Checked, AfterCleanup, Tame
    <2>5. FirstIsKnown'
      BY <1>1, <1>2, <1>4, <1>5, <1>7, <1>8, <2>1, Actors
         DEF Alone, FirstIsKnown, Counted, Holding, Up, Tame, AfterCleanup
    <2> QED
      BY <2>2, <2>3, <2>4, <2>5 DEF Alone
  <1> QED
    BY <1>1, <1>8, <1>9 DEF RecoveryInv

\* A record of an actor that begins or ends something.
LEMMA FreshWork ==
  ASSUME Typed, NEW pc \in PCs, NEW g \in {"none", "stop"}, NEW p \in 0..Len(procs)
  PROVE  [pc |-> pc, goal |-> g, of |-> p, proc |-> 0, tries |-> 0] \in WorkRec(Len(procs))
  BY TypedFacts DEF WorkRec

\* Tools start nothing where the leader is alone.
LEMMA StartKeeps ==
  ASSUME RecoveryInv, NEW s \in Starter, BeginStart(s) \/ EndStart(s)
  PROVE  RecoveryInv'
  <1>1. /\ Typed /\ s \in Actor /\ Len(procs) \in Nat
        /\ UNCHANGED <<procs, handle, spawnMode, alone, cancels, ended>>
    BY TypedFacts, Actors DEF RecoveryInv, BeginStart, EndStart
  <1>2. ~alone
    BY DEF RecoveryInv, Alone, StartersKeepOut, BeginStart, EndStart, At
  <1>3. PICK new \in WorkRec(Len(procs)) : work' = [work EXCEPT ![s] = new]
    <2>1. CASE BeginStart(s)
      BY <1>1, <2>1, GotoMoves DEF BeginStart, PCs
    <2>2. CASE EndStart(s)
      <3>1. PICK new : new = [pc |-> "over", goal |-> "none", of |-> 0, proc |-> 0, tries |-> 0]
        OBVIOUS
      <3>2. new \in WorkRec(Len(procs))
        BY <1>1, <3>1, FreshWork DEF PCs
      <3>3. [Out EXCEPT !.pc = "over"] = new
        BY <3>1 DEF Out
      <3> QED
        BY <2>2, <3>2, <3>3 DEF EndStart
    <2> QED
      BY <2>1, <2>2
  <1>4. Typed'
    BY <1>1, <1>3, MovesTyped DEF Typed
  <1> QED
    BY <1>1, <1>2, <1>4 DEF RecoveryInv

\* Steps of the leader between its calls.
LEMMA LeaderTurns ==
  ASSUME RecoveryInv, Recovered \/ RecoverTeam \/ JoinRecoveries
  PROVE  RecoveryInv'
  <1>1. /\ Typed /\ Leader \in Actor /\ Len(procs) \in Nat
        /\ UNCHANGED <<procs, handle, spawnMode, alone, cancels, ended>>
    BY TypedFacts, Actors DEF RecoveryInv, Recovered, RecoverTeam, JoinRecoveries
  <1>2. PICK new \in WorkRec(Len(procs)) :
          /\ work' = [work EXCEPT ![Leader] = new]
          /\ \/ /\ work[Leader].pc \in {"registered", "failed"} /\ new.pc = "up" /\ new.goal = "none"
             \/ /\ work[Leader].pc = "out" /\ new.pc = "marking" /\ (alone => procs = <<>>)
             \/ /\ work[Leader].pc = "joining" /\ new.pc = "detaching" /\ new.goal = "stop"
    <2>1. CASE Recovered
      <3>1. PICK new : new = [pc |-> "up", goal |-> "none", of |-> 0, proc |-> 0, tries |-> 0]
        OBVIOUS
      <3>2. new \in WorkRec(Len(procs))
        BY <1>1, <3>1, FreshWork DEF PCs
      <3>3. [Out EXCEPT !.pc = "up"] = new
        BY <3>1 DEF Out
      <3>4. work[Leader].pc \in {"registered", "failed"} /\ work' = [work EXCEPT ![Leader] = new]
        BY <2>1, <3>3 DEF Recovered, At
      <3> QED
        BY <3>1, <3>2, <3>4
    <2>2. CASE RecoverTeam
      <3>1. PICK new : new = [work[Leader] EXCEPT !.goal = "restart", !.tries = 0, !.pc = "marking"]
        OBVIOUS
      <3>2. new \in WorkRec(Len(procs)) /\ new.pc = "marking"
        <4>1. 0 \in 0..MaxRetries - 1 /\ work[Leader] \in WorkRec(Len(procs))
          BY <1>1, TypedFacts
        <4> QED
          BY <3>1, <4>1 DEF WorkRec, PCs
      <3>3. work' = [work EXCEPT ![Leader] = new]
        BY <1>1, <2>2, <3>1, TypedFacts DEF RecoverTeam, Typed, WorkRec
      <3>4. work[Leader].pc = "out" /\ (alone => procs = <<>>)
        BY <2>2 DEF RecoverTeam, At
      <3> QED
        BY <3>2, <3>3, <3>4
    <2>3. CASE JoinRecoveries
      <3>1. work[Leader].pc = "joining"
        BY <2>3 DEF JoinRecoveries, At
      <3>2. TurnsTo(Leader, "detaching", "stop")
        BY <2>3 DEF JoinRecoveries, TurnsTo
      <3>3. PICK new \in WorkRec(Len(procs)) :
              work' = [work EXCEPT ![Leader] = new] /\ new.pc = "detaching" /\ new.goal = "stop"
        <4>1. Typed /\ Leader \in Actor /\ "detaching" \in PCs /\ "stop" \in {"restart", "stop"}
          BY <1>1 DEF PCs
        <4> QED
          BY <3>2, <4>1, GoalMoves
      <3> QED
        BY <3>1, <3>3
    <2> QED
      BY <2>1, <2>2, <2>3
  <1>3. Typed' /\ \A b \in Actor : work'[b] = IF b = Leader THEN new ELSE work[b]
    BY <1>1, <1>2, MovesTyped DEF Typed
  <1>4. ASSUME alone PROVE Alone'
    <2>1. Alone /\ Proc' = Proc
      BY <1>1, <1>4 DEF RecoveryInv, Proc
    <2>2. StartersKeepOut'
      BY <1>3, <2>1, Actors DEF Alone, StartersKeepOut
    <2>3. LeaderIsFirst'
      BY <1>1, <1>2, <1>3, <1>4, <2>1 DEF Alone, LeaderIsFirst
    <2>4. RecoveriesFollow'
      BY <1>1, <1>2, <1>3, <2>1, Actors DEF Alone, RecoveriesFollow, Counted, Checked
    <2>5. FirstIsKnown'
      BY <1>1, <1>2, <1>3, <2>1, Actors DEF Alone, FirstIsKnown, Counted, Holding, Up
    <2> QED
      BY <2>2, <2>3, <2>4, <2>5 DEF Alone
  <1> QED
    BY <1>1, <1>3, <1>4 DEF RecoveryInv

\* The recovery that leaves ends what it launched.
LEMMA EndKeeps ==
  ASSUME RecoveryInv, NEW r \in Recovery, EndRecovery(r)
  PROVE  RecoveryInv'
  <1>1. /\ Typed /\ r \in Actor /\ Len(procs) \in Nat /\ work[r].pc \in {"registered", "leaving"}
        /\ UNCHANGED <<procs, handle, spawnMode, alone, cancels>> /\ ended' = ended \cup {r}
    BY TypedFacts, Actors DEF RecoveryInv, EndRecovery, At
  <1>2. PICK new : new = [pc |-> "over", goal |-> "none", of |-> 0, proc |-> 0, tries |-> 0]
    OBVIOUS
  <1>3. new \in WorkRec(Len(procs)) /\ new.pc = "over"
    BY <1>1, <1>2, FreshWork DEF PCs
  <1>4. work' = [work EXCEPT ![r] = new]
    <2>1. [Out EXCEPT !.pc = "over"] = new
      BY <1>2 DEF Out
    <2> QED
      BY <2>1 DEF EndRecovery
  <1>5. Typed' /\ \A b \in Actor : work'[b] = IF b = r THEN new ELSE work[b]
    BY <1>1, <1>3, <1>4, MovesTyped DEF Typed
  <1>6. ASSUME alone PROVE Alone'
    <2>1. Alone /\ Proc' = Proc
      BY <1>1, <1>6 DEF RecoveryInv, Proc
    <2>2. StartersKeepOut'
      BY <1>5, <2>1, Actors DEF Alone, StartersKeepOut
    <2>3. LeaderIsFirst'
      BY <1>1, <1>5, <2>1, Actors DEF Alone, LeaderIsFirst
    <2>4. RecoveriesFollow'
      BY <1>1, <1>3, <1>5, <2>1, Actors DEF Alone, RecoveriesFollow, Counted, Checked
    <2>5. FirstIsKnown'
      BY <1>1, <1>3, <1>5, <2>1, Actors DEF Alone, FirstIsKnown, Counted, Holding, Up
    <2> QED
      BY <2>2, <2>3, <2>4, <2>5 DEF Alone
  <1> QED
    BY <1>1, <1>5, <1>6 DEF RecoveryInv

LEMMA BeginKeeps ==
  ASSUME RecoveryInv, NEW r \in Recovery, BeginRecovery(r)
  PROVE  RecoveryInv'
  <1>1. /\ Typed /\ r \in Actor /\ Len(procs) \in Nat /\ work[r].pc = "recovering"
        /\ UNCHANGED <<handle, spawnMode, alone, cancels, ended>>
        /\ ended \subseteq Actor /\ cancels \subseteq Recovery /\ handle \in 0..Len(procs)
    BY TypedFacts, Actors DEF RecoveryInv, BeginRecovery, At, Typed
  <1>2. PICK q : q = work[r].of
    OBVIOUS
  <1>3. q \in Nat /\ procs' = [procs EXCEPT ![q].watch = "fired"]
    BY <1>1, <1>2, TypedFacts DEF WorkRec, BeginRecovery
  <1>4. TurnsTo(r, "detaching", "restart")
    BY DEF BeginRecovery, TurnsTo
  <1>5. PICK new \in WorkRec(Len(procs)) :
          /\ work' = [work EXCEPT ![r] = new] /\ new.pc = "detaching" /\ new.goal = "restart"
    BY <1>1, <1>4, GoalMoves DEF PCs
  <1>6. /\ procs' \in Seq(ProcRec) /\ Len(procs') = Len(procs)
        /\ alone => Tame
    <2>1. PICK rec : rec = [procs[q] EXCEPT !.watch = "fired"]
      OBVIOUS
    <2>2. procs' = [procs EXCEPT ![q] = rec]
      BY <1>3, <2>1, Zenon
    <2>3. q \in Proc => rec \in ProcRec
      BY <1>1, <2>1, TypedFacts DEF ProcRec
    <2>4. alone => spawnMode = "process"
      BY <1>1 DEF RecoveryInv, Alone, RecoveriesFollow
    <2>5. alone => Tame
      BY <1>1, <1>3, <2>4, ProcWrite
    <2> QED
      BY <1>1, <2>2, <2>3, <2>5, ProcPut
  <1>7. Typed' /\ \A b \in Actor : work'[b] = IF b = r THEN new ELSE work[b]
    <2>1. new \in WorkRec(Len(procs')) /\ Len(procs) <= Len(procs') /\ handle' \in 0..Len(procs')
      BY <1>1, <1>6
    <2> QED
      BY <1>1, <1>5, <1>6, <2>1, MovesTyped
  <1>8. ASSUME alone PROVE Alone'
    <2>1. /\ Alone /\ Proc' = Proc /\ (procs' = <<>> <=> procs = <<>>) /\ Tame
          /\ procs # <<>> => 1 \in Proc
      BY <1>1, <1>6, <1>8, TypedFacts DEF RecoveryInv, Proc
    <2>2. StartersKeepOut'
      BY <1>7, <2>1, Actors DEF Alone, StartersKeepOut
    <2>3. LeaderIsFirst'
      BY <1>1, <1>7, <2>1, Actors DEF Alone, LeaderIsFirst, Tame
    <2>4. RecoveriesFollow'
      BY <1>1, <1>5, <1>7, <2>1, Actors DEF Alone, RecoveriesFollow, Counted, Checked, Tame
    <2>5. FirstIsKnown'
      BY <1>1, <1>5, <1>7, <2>1, Actors DEF Alone, FirstIsKnown, Counted, Holding, Up, Tame
    <2> QED
      BY <2>2, <2>3, <2>4, <2>5 DEF Alone
  <1> QED
    BY <1>1, <1>7, <1>8 DEF RecoveryInv

\* A check fails only of a process, and not of one that is being registered.
LEMMA UnhealthyKeeps ==
  ASSUME RecoveryInv, NEW p \in Proc, Unhealthy(p)
  PROVE  RecoveryInv'
  <1>1. /\ Typed /\ Len(procs) \in Nat /\ Proc = 1..Len(procs)
        /\ UNCHANGED <<handle, spawnMode, alone, cancels, ended>> /\ alone /\ Alone
        /\ ended \subseteq Actor /\ cancels \subseteq Recovery /\ handle \in 0..Len(procs)
        /\ procs[p].watch = "on" /\ work[procs[p].by].pc # "registering"
    BY TypedFacts DEF RecoveryInv, Unhealthy, Typed
  <1>2. PICK r \in Recovery : /\ work[r].pc = "out"
          /\ work' = [work EXCEPT ![r] =
               [pc |-> "detaching", goal |-> "stop", of |-> p, proc |-> 0, tries |-> 0]]
    BY DEF Unhealthy, Unused
  <1>3. PICK new : new = [pc |-> "detaching", goal |-> "stop", of |-> p, proc |-> 0, tries |-> 0]
    OBVIOUS
  <1>4. new \in WorkRec(Len(procs)) /\ new.pc = "detaching" /\ new.goal = "stop"
    BY <1>1, <1>3, FreshWork DEF PCs
  <1>5. /\ Tame /\ p \in Nat
    <2>1. procs' = [procs EXCEPT ![p].watch = "calling"] /\ p \in Nat
      BY <1>1 DEF Unhealthy
    <2> QED
      BY <1>1, <2>1, ProcWrite
  <1>6. Typed' /\ \A b \in Actor : work'[b] = IF b = r THEN new ELSE work[b]
    <2>1. /\ new \in WorkRec(Len(procs')) /\ Len(procs) <= Len(procs') /\ handle' \in 0..Len(procs')
          /\ procs' \in Seq(ProcRec) /\ work' = [work EXCEPT ![r] = new] /\ r \in Actor
      BY <1>1, <1>2, <1>3, <1>4, <1>5, Actors DEF Tame
    <2> QED
      BY <1>1, <2>1, MovesTyped
  <1>7. /\ procs # <<>> /\ spawnMode = "process" /\ work[Leader].pc # "registering"
        /\ 1 \in Proc
    <2>1. procs # <<>> /\ 1 \in Proc
      BY <1>1, TypedFacts
    <2>2. spawnMode = "process"
      BY <1>1 DEF Alone, RecoveriesFollow, Checked
    <2>3. work[Leader].pc = "registering" => p = 1 /\ procs[1].by = Leader
      <3>1. work[Leader].pc = "registering" => Len(procs) = 1 /\ procs[1].by = Leader
        BY <1>1 DEF Alone, LeaderIsFirst
      <3>2. Len(procs) = 1 => p = 1
        BY <1>1
      <3> QED
        BY <3>1, <3>2
    <2> QED
      BY <1>1, <2>1, <2>2, <2>3
  <1>8. Proc' = Proc /\ procs' # <<>>
    BY <1>1, <1>5, <1>7, TypedFacts DEF Proc, Tame
  <1>9. StartersKeepOut'
    BY <1>1, <1>6, Actors DEF Alone, StartersKeepOut
  <1>10. LeaderIsFirst'
    <2>1. work'[Leader] = work[Leader]
      BY <1>2, <1>6, Actors
    <2>2. LeaderIsFirst /\ \A q \in Proc : procs'[q].by = procs[q].by
      BY <1>1, <1>5 DEF Alone, Tame
    <2> QED
      BY <1>7, <1>8, <2>1, <2>2 DEF LeaderIsFirst
  <1>11. RecoveriesFollow'
    BY <1>1, <1>2, <1>4, <1>5, <1>6, <1>7, <1>8, Actors
       DEF Alone, RecoveriesFollow, Counted, Checked, Tame
  <1>12. FirstIsKnown'
    BY <1>1, <1>2, <1>4, <1>5, <1>6, <1>7, <1>8, Actors
       DEF Alone, FirstIsKnown, Counted, Holding, Up, Tame
  <1> QED
    BY <1>1, <1>6, <1>9, <1>10, <1>11, <1>12 DEF RecoveryInv, Alone

\* Steps in which no actor moves.
LEMMA OtherSteps ==
  ASSUME RecoveryInv,
         \/ \E p \in Proc : Crash(p) \/ Healthy(p) \/ WatchEnds(p)
         \/ \E r \in Recovery : TimeOut(r)
         \/ \E s \in Starter : ContextEnds(s)
         \/ UNCHANGED recoveryVars
  PROVE  RecoveryInv'
  <1>1. Typed /\ ended \subseteq Actor
    BY DEF RecoveryInv, Typed
  <1>2. /\ UNCHANGED <<work, handle, spawnMode, alone, cancels>>
        /\ ended \subseteq ended' /\ ended' \subseteq Actor
    BY <1>1, Actors DEF Crash, Healthy, WatchEnds, TimeOut, ContextEnds, recoveryVars
  <1>3. Tame
    <2>1. ASSUME NEW p \in Proc, Crash(p) PROVE Tame
      <3>1. procs' = [procs EXCEPT ![p].up = FALSE] /\ p \in Nat
        BY <1>1, <2>1, TypedFacts DEF Crash
      <3> QED
        BY <1>1, <3>1, ProcWrite
    <2>2. ASSUME NEW p \in Proc, Healthy(p) PROVE Tame
      <3>1. procs' = [procs EXCEPT ![p].watch = "on"] /\ p \in Nat /\ procs[p].watch # "none"
        BY <1>1, <2>2, TypedFacts DEF Healthy
      <3> QED
        BY <1>1, <3>1, ProcWrite
    <2>3. ASSUME NEW p \in Proc, WatchEnds(p) PROVE Tame
      <3>1. procs' = [procs EXCEPT ![p].watch = "off"] /\ p \in Nat /\ procs[p].watch # "none"
        BY <1>1, <2>3, TypedFacts DEF WatchEnds
      <3> QED
        BY <1>1, <3>1, ProcWrite
    <2>4. CASE UNCHANGED procs
      BY <1>1, <2>4, ProcsStay
    <2> QED
      BY <2>1, <2>2, <2>3, <2>4 DEF TimeOut, ContextEnds, recoveryVars
  <1>4. Typed'
    BY <1>1, <1>2, <1>3 DEF Typed, Tame
  <1> QED
    BY <1>2, <1>3, <1>4, Stays DEF RecoveryInv

LEMMA RecoveryKeeps ==
  ASSUME RecoveryInv, [RecoveryNext]_allVars
  PROVE  RecoveryInv'
  <1>1. ASSUME NEW a \in Actor, Cleanup(a) \/ Launches(a) \/ LaunchFails(a) \/ Register(a)
        PROVE  RecoveryInv'
    BY <1>1, DetachKeeps, KillKeeps, LightSteps, LaunchKeeps, LaunchFailsKeeps, RegisterKeeps DEF Cleanup
  <1>2. CASE LeaderStep \/ RecoverTeam \/ BringDown
    BY <1>1, <1>2, Actors, LeaderTurns, LightSteps DEF LeaderStep
  <1>3. ASSUME NEW r \in Recovery, RecoveryStep(r) PROVE RecoveryInv'
    BY <1>1, <1>3, Actors, LightSteps, BeginKeeps, EndKeeps DEF RecoveryStep
  <1>4. ASSUME NEW s \in Starter, StarterStep(s) \/ BeginStart(s) \/ AskShutdown(s)
        PROVE  RecoveryInv'
    BY <1>1, <1>4, Actors, LightSteps, StartKeeps DEF StarterStep
  <1>5. ASSUME NEW p \in Proc, Unhealthy(p) PROVE RecoveryInv'
    BY <1>5, UnhealthyKeeps
  <1>6. CASE \/ \E target \in {"ready", "shut_down"} : Report(target)
             \/ \E c \in Caller : Finishes(c)
             \/ UNCHANGED allVars
    <2>1. UNCHANGED recoveryVars
      BY <1>6 DEF Report, Finishes, allVars
    <2> QED
      BY <2>1, OtherSteps
  <1>7. CASE \/ \E p \in Proc : Crash(p) \/ Healthy(p) \/ WatchEnds(p)
             \/ \E r \in Recovery : TimeOut(r)
             \/ \E s \in Starter : ContextEnds(s)
    BY <1>7, OtherSteps
  <1> QED
    BY <1>2, <1>3, <1>4, <1>5, <1>6, <1>7 DEF RecoveryNext

LEMMA RecoveryInitInv == RecoveryInit => RecoveryInv
  <1> SUFFICES ASSUME RecoveryInit PROVE RecoveryInv
    OBVIOUS
  <1>1. /\ procs = <<>> /\ Len(procs) = 0 /\ Proc = {} /\ procs \in Seq(ProcRec)
        /\ handle = 0 /\ work = [a \in Actor |-> Out]
    BY DEF RecoveryInit, Proc
  <1>2. Out \in WorkRec(0) /\ Out.pc = "out" /\ Out.goal = "none"
    BY RecoveryAssumption DEF Out, WorkRec, PCs
  <1>3. Typed
    BY <1>1, <1>2 DEF Typed, RecoveryInit
  <1>4. Alone
    BY <1>1, <1>2, Actors DEF Alone, StartersKeepOut, LeaderIsFirst, RecoveriesFollow, FirstIsKnown,
       Counted, Holding
  <1> QED
    BY <1>3, <1>4 DEF RecoveryInv

\* The inductive invariant of the runtimes.
THEOREM RecoveryInvariant == RecoverySpec => []RecoveryInv
  BY RecoveryInitInv, RecoveryKeeps, PTL DEF RecoverySpec

\* What actors remember of runtimes are runtimes that were launched, and tries stay below
\* the limit.
THEOREM RecoveryTypeCorrect == RecoverySpec => []RecoveryTypeOK
  <1>1. RecoveryInv => RecoveryTypeOK
    BY DEF RecoveryInv, Typed, RecoveryTypeOK, ProcRec, WorkRec, PCs
  <1> QED
    BY <1>1, RecoveryInvariant, PTL

\* CleanupTeammate and the join of the recoveries (spawn_manager.go, kernel.go): when the
\* leader's kernel has paused or stopped, no runtime is left but one that ends with its
\* context or that an unhealthy callback is about to kill; for any number of callbacks,
\* retries and launches.
THEOREM NoRuntimeIsLeft == RecoverySpec => []StoppedTeamIsDown
  <1>1. ASSUME RecoveryInv PROVE StoppedTeamIsDown
    <2> SUFFICES ASSUME alone, work[Leader].pc = "out", \A r \in Recovery : ~Counted(r),
                        NEW p \in Proc, Up(p)
                 PROVE  CutOff(p) \/ \E r \in Recovery : work[r].proc = p
      BY DEF StoppedTeamIsDown
    <2>1. Alone /\ procs # <<>>
      BY <1>1, TypedFacts DEF RecoveryInv
    <2>2. CASE procs[p].by \in Recovery
      <3>1. procs[p].by \in ended
        BY <2>1, <2>2 DEF Alone, RecoveriesFollow
      <3>2. spawnMode = "process"
        BY <2>1, <2>2 DEF Alone, RecoveriesFollow
      <3> QED
        BY <3>1, <3>2 DEF CutOff
    <2>3. CASE procs[p].by = Leader /\ p = 1
      <3>1. handle # 1
        BY <2>1 DEF Alone, FirstIsKnown
      <3> QED
        BY <2>1, <2>3, <3>1 DEF Alone, FirstIsKnown, Holding
    <2> QED
      BY <2>1, <2>2, <2>3 DEF Alone, LeaderIsFirst
  <1> QED
    BY <1>1, RecoveryInvariant, PTL

-----------------------------------------------------------------------------
(* The starters.  Between its claim of the row and the end of its start, a    *)
(* tool or an interact call holds the spawn job of MemberStatus; recoveries   *)
(* hold none, and may launch beside it.                                       *)

Starting(s) == work[s].pc \in {"launching", "registering", "registered", "failed"}

StartersExclude ==
  /\ \A s, t \in Starter : Starting(s) /\ Starting(t) => s = t
  /\ \A s \in Starter : Starting(s) => status[Mate] # "unstarted"

ClaimsAreHeld ==
  \A s \in Starter : Starting(s) => job[s].op = "spawn" /\ job[s].member = Mate

\* A step after which nobody starts who did not before, and that takes no spawn away.
LEMMA ClaimsFrame ==
  ASSUME ClaimsAreHeld,
         \A s \in Starter : /\ Starting(s)' => Starting(s)
                            /\ Starting(s)' /\ job[s].op = "spawn" => job'[s] = job[s]
  PROVE  ClaimsAreHeld'
  BY DEF ClaimsAreHeld

\* One actor writes its record of work; the starters among the others stay.
LEMMA OneMoves ==
  ASSUME Typed, NEW a \in Actor,
         \/ \E new : work' = [work EXCEPT ![a] = new]
         \/ \E pc : Goto(a, pc)
         \/ \E pc, n : work' = [work EXCEPT ![a].pc = pc, ![a].proc = n]
         \/ \E pc, g : work' = [work EXCEPT ![a].pc = pc, ![a].goal = g]
         \/ \E n : work' = [work EXCEPT ![a].tries = n]
  PROVE  \A b \in Actor : b # a => work'[b] = work[b]
  BY DEF Typed, Goto

\* A status update of another goroutine leaves the job of a starter alone.
LEMMA MarkLeavesJobs ==
  ASSUME TypeOK, NEW a \in Caller, NEW pc, NEW target, Mark(a, target, pc)
  PROVE  \A c \in Caller : c # a => job'[c] = job[c]
  BY DEF Mark, UpdateMemberStatus, TypeOK

\* The leader's kernel and the recoveries are not starters.
LEMMA OthersLeaveStarters ==
  ASSUME Typed, TypeOK,
         \/ LeaderStep \/ RecoverTeam \/ BringDown
         \/ \E r \in Recovery : RecoveryStep(r) \/ TimeOut(r)
         \/ \E p \in Proc : Crash(p) \/ Unhealthy(p) \/ Healthy(p) \/ WatchEnds(p)
  PROVE  \A s \in Starter : work'[s] = work[s] /\ job'[s] = job[s]
  <1>1. Leader \in Caller /\ Recovery \subseteq Caller /\ Starter \subseteq Caller
    BY RecoveryAssumption
  <1>2. ASSUME NEW a \in Recovery \cup {Leader},
               \/ Cleanup(a) \/ Launches(a) \/ LaunchFails(a) \/ Register(a)
               \/ \E target, pc : Mark(a, target, pc)
        PROVE  \A s \in Starter : work'[s] = work[s] /\ job'[s] = job[s]
    <2>1. a \in Actor /\ a \in Caller /\ \A s \in Starter : s # a /\ s \in Actor
      BY <1>1, Actors
    <2>2. \A b \in Actor : b # a => work'[b] = work[b]
      BY <1>2, <2>1, OneMoves DEF Cleanup, Detach, StopWatch, AwaitWatch, Kill, Launches,
         LaunchFails, Register, Mark
    <2>3. \A c \in Caller : c # a => job'[c] = job[c]
      <3>1. CASE \E target, pc : Mark(a, target, pc)
        BY <2>1, <3>1, MarkLeavesJobs
      <3>2. CASE Cleanup(a) \/ Launches(a) \/ LaunchFails(a) \/ Register(a)
        BY <3>2 DEF Cleanup, Detach, StopWatch, AwaitWatch, Kill, Launches, LaunchFails, Register,
           vars
      <3> QED
        BY <1>2, <3>1, <3>2
    <2> QED
      BY <1>1, <2>1, <2>2, <2>3
  <1>3. CASE Recovered \/ CancelRecoveryTasks \/ JoinRecoveries \/ RecoverTeam
    <2>1. job' = job
      BY <1>3 DEF Recovered, CancelRecoveryTasks, JoinRecoveries, RecoverTeam, vars
    <2>2. \A s \in Starter : work'[s] = work[s]
      BY <1>3, Actors DEF Recovered, CancelRecoveryTasks, JoinRecoveries, RecoverTeam, Goto, Typed
    <2> QED
      BY <2>1, <2>2
  <1>4. CASE BringDown
    <2>1. CASE \E target, pc : Mark(Leader, target, pc)
      BY <1>2, <2>1
    <2>2. CASE Goto(Leader, "cancelling") /\ UNCHANGED vars
      BY <2>2, Actors DEF Goto, Typed, vars
    <2> QED
      BY <1>4, <2>1, <2>2 DEF BringDown
  <1>5. ASSUME NEW r \in Recovery, EnterRecovery(r) \/ BeginRecovery(r) \/ EndRecovery(r)
        PROVE  \A s \in Starter : work'[s] = work[s] /\ job'[s] = job[s]
    <2>1. job' = job
      BY <1>5 DEF EnterRecovery, BeginRecovery, EndRecovery, vars
    <2>2. \A s \in Starter : work'[s] = work[s]
      BY <1>5, Actors DEF EnterRecovery, BeginRecovery, EndRecovery, Goto, Typed
    <2> QED
      BY <2>1, <2>2
  <1>6. CASE \E p \in Proc : Unhealthy(p)
    <2>1. PICK r : /\ r \in Recovery /\ \E new : work' = [work EXCEPT ![r] = new]
      BY <1>6 DEF Unhealthy, Unused
    <2>2. job' = job
      BY <1>6 DEF Unhealthy, vars
    <2> QED
      BY <2>1, <2>2, Actors, OneMoves
  <1>7. CASE (\E r \in Recovery : TimeOut(r)) \/ \E p \in Proc : Crash(p) \/ Healthy(p) \/ WatchEnds(p)
    BY <1>7 DEF TimeOut, Crash, Healthy, WatchEnds, vars
  <1>8. CASE LeaderStep
    BY <1>2, <1>3, <1>8 DEF LeaderStep
  <1>9. ASSUME NEW r \in Recovery, RecoveryStep(r)
        PROVE  \A s \in Starter : work'[s] = work[s] /\ job'[s] = job[s]
    BY <1>2, <1>5, <1>9 DEF RecoveryStep
  <1> QED
    BY <1>3, <1>4, <1>6, <1>7, <1>8, <1>9

\* A starter holds its claim from the swap of the row to the end.
LEMMA StarterClaims ==
  ASSUME Typed, TypeOK, ClaimsAreHeld, NEW s \in Starter,
         StarterStep(s) \/ BeginStart(s) \/ AskShutdown(s) \/ ContextEnds(s)
  PROVE  ClaimsAreHeld'
  <1>1. s \in Actor /\ s \in Caller /\ Starter \subseteq Caller /\ Starter \subseteq Actor
    BY RecoveryAssumption, Actors
  <1>2. \A b \in Actor : work[b] \in WorkRec(Len(procs))
    BY DEF Typed
  <1>3. CASE Launches(s) \/ LaunchFails(s) \/ Register(s) \/ ContextEnds(s)
    <2>1. job' = job
      BY <1>3 DEF Launches, LaunchFails, Register, ContextEnds, vars
    <2>2. Starting(s) \/ work' = work
      BY <1>3 DEF Launches, LaunchFails, Register, ContextEnds, At, Starting
    <2>3. \A b \in Actor : b # s => work'[b] = work[b]
      BY <1>1, <1>3 DEF Launches, LaunchFails, Register, ContextEnds, Goto, Typed
    <2> QED
      BY <1>1, <2>1, <2>2, <2>3, ClaimsFrame DEF Starting
  <1>4. CASE EndStart(s)
    <2>1. work' = [work EXCEPT ![s] = [Out EXCEPT !.pc = "over"]]
      BY <1>4 DEF EndStart
    <2>2. \A b \in Actor : work'[b] = IF b = s THEN [Out EXCEPT !.pc = "over"] ELSE work[b]
      BY <1>1, <2>1 DEF Typed
    <2>3. work'[s].pc = "over"
      BY <1>1, <2>2 DEF Out
    <2>4. \A c \in Caller : c # s => job'[c] = job[c]
      BY <1>1, <1>4 DEF EndStart, SpawnSucceeds, SpawnFails, TypeOK
    <2> QED
      BY <1>1, <2>2, <2>3, <2>4, ClaimsFrame DEF Starting
  <1>5. CASE BeginStart(s)
    <2>1. job' = [job EXCEPT ![s] = [op |-> "spawn", member |-> Mate]] /\ Goto(s, "launching")
      BY <1>5 DEF BeginStart, StartupMember
    <2>2. \A b \in Actor : b # s => work'[b] = work[b]
      BY <1>1, <2>1 DEF Goto, Typed
    <2>3. /\ job'[s] = [op |-> "spawn", member |-> Mate]
          /\ \A c \in Caller : c # s => job'[c] = job[c]
      BY <1>1, <2>1 DEF TypeOK
    <2> QED
      BY <1>1, <2>2, <2>3 DEF ClaimsAreHeld, Starting
  <1>6. CASE AskShutdown(s)
    <2>1. Goto(s, "asking") \/ Goto(s, "over")
      BY <1>6 DEF AskShutdown
    <2>2. work'[s].pc \in {"asking", "over"} /\ \A b \in Actor : b # s => work'[b] = work[b]
      BY <1>1, <1>2, <2>1 DEF Goto, Typed, WorkRec
    <2>3. \A c \in Caller : c # s => job'[c] = job[c]
      BY <1>1, <1>6 DEF AskShutdown, ShutdownMember, RequestShutdown, TypeOK
    <2> QED
      BY <1>1, <2>2, <2>3, ClaimsFrame DEF Starting
  <1> QED
    BY <1>3, <1>4, <1>5, <1>6 DEF StarterStep

LEMMA ClaimsStep ==
  ASSUME Typed, TypeOK, ClaimsAreHeld, [RecoveryNext]_allVars
  PROVE  ClaimsAreHeld'
  <1>1. Starter \subseteq Caller /\ Self \in Caller /\ Self \notin Starter
    BY RecoveryAssumption
  <1>2. CASE \/ LeaderStep \/ RecoverTeam \/ BringDown
             \/ \E r \in Recovery : RecoveryStep(r) \/ TimeOut(r)
             \/ \E p \in Proc : Crash(p) \/ Unhealthy(p) \/ Healthy(p) \/ WatchEnds(p)
    BY <1>2, OthersLeaveStarters, ClaimsFrame DEF Starting
  <1>3. ASSUME NEW s \in Starter,
               StarterStep(s) \/ BeginStart(s) \/ AskShutdown(s) \/ ContextEnds(s)
        PROVE  ClaimsAreHeld'
    BY <1>3, StarterClaims
  <1>4. ASSUME NEW target \in {"ready", "shut_down"}, Report(target) PROVE ClaimsAreHeld'
    <2>1. work' = work
      BY <1>4 DEF Report, recoveryVars
    <2>2. \A c \in Caller : c # Self => job'[c] = job[c]
      BY <1>1, <1>4 DEF Report, UpdateMemberStatus, TypeOK
    <2> QED
      BY <1>1, <2>1, <2>2, ClaimsFrame DEF Starting
  <1>5. ASSUME NEW c \in Caller, Finishes(c) PROVE ClaimsAreHeld'
    <2>1. work' = work /\ job[c].op = "update" /\ job' = [job EXCEPT ![c] = Idle]
      BY <1>5 DEF Finishes, WriteStatus, recoveryVars
    <2>2. \A d \in Caller : job[d].op = "spawn" => job'[d] = job[d]
      BY <2>1 DEF TypeOK
    <2> QED
      BY <1>1, <2>1, <2>2, ClaimsFrame DEF Starting
  <1>6. CASE UNCHANGED allVars
    BY <1>6, ClaimsFrame DEF allVars, vars, recoveryVars, Starting
  <1> QED
    BY <1>2, <1>3, <1>4, <1>5, <1>6 DEF RecoveryNext

\* Tools and interact calls start the teammate one at a time, and while one of them does,
\* its row is taken (StartupMember in team_backend.go): no second one launches it, though
\* a recovery of the leader, which claims nothing, may launch it beside them.
THEOREM StartersTakeTurns == RecoverySpec => []StartersExclude
  <1>1. RecoveryInit => ClaimsAreHeld
    BY Actors DEF RecoveryInit, ClaimsAreHeld, Starting, Out
  <1>2. RecoveryInv /\ IInv /\ ClaimsAreHeld /\ [RecoveryNext]_allVars => ClaimsAreHeld'
    BY ClaimsStep DEF RecoveryInv, IInv
  <1>3. IInv /\ ClaimsAreHeld => StartersExclude
    BY RecoveryAssumption DEF IInv, SingleSpawner, SpawnHoldsTheRow, ClaimsAreHeld, StartersExclude
  <1> QED
    BY <1>1, <1>2, <1>3, RecoveryInvariant, RecoveryImplementsStatus, MemberInvariant, PTL
       DEF RecoverySpec, ImplementsMemberStatus
=============================================================================
