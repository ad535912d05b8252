# Verification of the agent team core of uapclaw-go

uapclaw-go is a multi-agent runtime: a leader agent and its teammates share a
task board, a mailbox and a member table in a database, and each runs an event
loop that wakes it up. This directory holds TLA+ modules translated from that
code, the TLC configurations that check them on small instances, and theorems
checked by TLAPS. Every module says which Go functions it stands for;
`PROJECT.json` gives the lines of every definition, the runs, the mutants (a
plausible bug for each property, which TLC must find), the hazards and the
findings.

    tlc -workers 2 -config MCTaskBoard.cfg MCTaskBoard     # a run
    tlapm TaskBoardProofs.tla                               # the proofs

## 1. Inventory

### The team (`internal/agent_teams`)

| Component | State | Operations | Modelled in |
|---|---|---|---|
| Task board: `fsm/transitions.go`, `tools/database/{sql_task_dao,memory_impl,models}.go`, `tools/task_manager.go` | rows of `team_task` (status, assignee) and `team_task_dependency` (edge, `resolved`) | create, create with dependencies or dependents, add dependencies, claim, reset, approve plan, complete, cancel, cancel all | `TaskBoard` |
| Cycle check: `detectCycleInAdjacencySQL` | stack, colours, path | one search per change of the graph | `CycleDetection` |
| SQL DAO: `sql_task_dao.go`, `sql_engine.go` | the same tables behind five SQLite connections (WAL, deferred transactions) | the same operations as statements of transactions | `SqlTaskDao` |
| Member status: `fsm/transitions.go`, `sql_member_dao.go`, `team_backend.go` | column `status` of `team_member`, calls under way | status reports, startup with rollback, shutdown request | `MemberStatus` |
| Mailbox: `sql_message_dao.go`, `memory_impl.go`, `message_manager.go`, `handlers/message.go` | message rows, read flags, broadcast watermarks, the drain loop's `seenIDs` | send, broadcast, drain, mark read, defer | `Mailbox` |
| Event bus: `agent/coordination/{event_bus,dispatcher}.go` | channel of 256 events, run loop, pollers, pause flags, cancel functions | `Start`, `Stop`, `Enqueue`, `PausePolls`, `ResumePolls`, ticks | `EventBus` |
| Coordination kernel: `kernel.go` | lifecycle state; order of bus, session, transport, members at start, pause and stop | `Start`, `Pause`, `Stop` | lifecycle in `TeamRuntime`, bus calls in `EventBus`, the order inside a call planned |
| Other handlers: task board, stale task, member, completion, lifecycle | reads of board and mailbox, timers | nudges, standby, completion of the team | planned |
| Plan approval: `task_manager.go` `SubmitPlan`, `ApprovePlan`, `Complete` | `index.json`, read and rewritten without a lock | submit, review, complete | `PlanApproval` over `TaskBoard` |
| Stream controller, session manager, team agent | one running round, pending interrupt, queued inputs | invoke, stream, follow up, interrupt | planned |
| Spawning and recovery: `spawn_manager.go`, `recovery_manager.go`, `spawn/`, `runner/spawn/handle.go` | handles, processes and their health checks, recoveries under way | spawn, clean up, restart, recover, pause, stop | `MemberRecovery` over `MemberStatus` |
| Team backend: `IsTeamCompleted`, `CancelMember`, `CleanTeam` | reads over three tables | completion, cancellation, cleanup | planned |
| Messager | subscriptions per topic | publish (synchronous), subscribe | planned |
| Runtime: `runtime/{manager,pool,gate,dispatch,team_runner}.go` | one pool slot per team (session, running or paused), the gate's count and channel, the team's row and the session's `db_state` | activate, stream, finalize, interact, stop, pause, delete | `TeamRuntime` |
| Workspace locks | file locks with expiry | acquire, release, refresh | planned |
| Interaction, harness, rails, prompts, schemas, memory, metadata, monitor, observability, external | texts, configuration, traces | input and output around model calls | not modelled: little control state of their own |

The parts meet in three places. The **database** is the only thing shared
between members: tools of different agents call the DAOs from different
goroutines. The **bus** of each member is fed by the messager (which publishers
call synchronously), by its pollers and by the kernel; its run loop calls the
dispatcher and through it every handler, among them the drain loop of the
mailbox, one at a time. The **runtime** starts and stops the bus through the
kernel when a run of the team begins, ends, is paused or resumed.

### Schedulers outside the team

| Component | State | Operations | Modelled in |
|---|---|---|---|
| Session work scheduler: `swarm/runtime/session/work_scheduler.go` | a lane per session (heap, current work), the index of queued work, results, running closes | `SubmitAndWait`, lane processor, `CancelHandles`, `CloseSession`, `Close` | `WorkScheduler` |
| Task scheduler of an agent controller: `agentcore/controller/modules/{task_scheduler,task_manager,intent_recognizer}.go` | task statuses, `runningTasks`, one guard and one execution per run | loop, execute, time out, pause, cancel, modify, supplement, resume, stop | `TaskScheduler` |

### The rest of the repository

`internal/agentcore` (event queue of the controller, Pregel engine, runner and
message queues, sessions and checkpointers, goal manager, single agents,
workflows, context engine, memory, retrieval, model and store adapters),
`internal/swarm` (gateway, server, channels, ACP and E2A protocols),
`internal/evolving`, `internal/common`, `cmd`, `doc`. Of these the Pregel
channels, the team message bus, the checkpointer, the goal manager and the
gateway's cron have state worth modelling and are in the plan; the others are
adapters, encodings, texts, heuristics or entry points. `PROJECT.json` lists each
with its reason.

### What is hard here, and what makes each part correct

* **Board.** `pending` and `blocked` are caches of the edges, and `resolved`
  caches the status of the upstream task; edges may be added at any time and in
  both directions; a batch cancellation refreshes as it goes. Correct means: a
  waiting task is blocked exactly while something it needs is open, work never
  overtakes a dependency, a task has one owner while it is worked on, ended
  means ended, the graph has no cycle and so the board is never stuck.
* **SQL.** Check and write are different statements of deferred transactions,
  and most errors of statements are dropped. Correct means that SQLite's refusal of
  stale writers is enough, and that replies match what was committed.
* **Member status.** Reports, startups, rollbacks of failed spawns, shutdown
  requests and recovery write one row. Correct means: one spawner, no rollback
  of somebody else's start, no forgotten shutdown, transitions from the table.
* **Recovery.** A failed health check calls back on the goroutine of the check it must
  stop, and restarts the member on another one under a context of 60 seconds, while the
  kernel may pause, and tools start, the same member. Correct means: no wait is for
  good, a stop leaves no runtime behind, and the row is written by its rules.
* **Mailbox.** Two reads, a delivery and a mark are separate steps, an
  interrupt or a panic may come between any two, and broadcasts share one
  watermark. Correct means no loss of a direct message, no duplicate unless a mark
  failed or was cut off, right addressee, arrival.
* **Event bus.** Pausing runs on the loop that must drain the channel the pollers fill;
  `Stop` gives up on a loop after time limits, the channel outlives both, and several
  goroutines may be in `Stop`. Correct means no leaked or doubled poller, no lost
  resumption, no frozen channel, a `Stop` that returns, a running bus with a loop.
* **Runtime.** Looking into the pool, deciding, building, starting the kernel
  and cleaning up are separate steps of several callers; the gate is reset while
  payloads are in flight. Correct means: the gate never waits for a payload that
  is over, a drained gate is empty, a team that streams takes input, a team
  whose runs are over is down, every run ends.
* **Plans.** The index is read, changed, truncated and written by every member
  and the leader. Correct means: a decision is taken once.
* **Session lanes.** A removed lane runs on beside its successor and both use one
  index; four kinds of calls empty it, and answer or interrupt after the unlock. Correct
  means: no work is lost, none runs on beside the lane unless it was told to stop or the
  call that tells it is under way, every waiter is answered.
* **Task scheduler.** The loop works from a list it read before, the guard returns
  before the execution it guards, entries are removed by task id. Correct means:
  no more executions than the limit go on untold, no slot is lost, the end of the
  session's tasks is signalled.
* **Later modules.** Team completion is decided from several reads; two buses can
  wait for each other's full channel.

All hazards, with their lines and the properties that cover them, are in
`PROJECT.json`.

## 2. Modules and how they correspond to the code

`DependencyGraph` is the vocabulary of the graph: an edge `<<t, u>>` is a row
"t depends on u". `Acyclic` is the definition of what the search of
`detectCycleInAdjacencySQL` decides; `CycleDetection` is the search, whose specification is
`SearchSpec` (its names stand beside those of `SqlTaskDao` in the proofs).

`TaskBoard` has one action per operation of `TaskDao` that a tool reaches. An
operation is one transaction in `sql_task_dao.go` and one critical section of
the mutex in `memory_impl.go`, so it is atomic here. `MutateDependencyGraph` is
the five-step pipeline (stage, validate, check for cycles, insert, refresh)
that every graph change goes through; `TerminateTasks` is `terminateTaskInTx`,
applied to one task or to the candidates of `CancelAllTasks`. The loop of the
latter is one operator on a set: a task unblocked by one victim and cancelled as
the next ends up the same. Refused calls are stuttering steps.

`DependencyOrder` is the abstract specification: items with dependencies that
are started only when what they need is over; it knows no `blocked`, no
`resolved` flag and no refresh. `TaskBoard` instantiates it as `Order` with the
mapping `PhaseOf`; `approve` is invisible.

`SqlTaskDao` takes the same operations apart: the first SELECT and the guard, then each
write, then COMMIT or ROLLBACK. `db` is what is committed, `draft` what the holder of
the write lock sees, and the field `stale` of a call says that someone committed since
its snapshot. Whether graph mutations may be refused in a history is chosen at the start
(`refusals`): `ImplementsBoard` is about the histories without such a rollback, the
other properties about all of them. `Granted` is SQLite's rule (external): a transaction
that began by reading may write only if no other writer is active and nothing was
committed since. Two abstractions: the statements of one refresh are one step, because
they are under the lock or all refused; and an INSERT as the first statement waits for
the lock (busy timeout of 30 s), so `AddTask` begins when the lock is free. It
instantiates `TaskBoard` as `TB`.

`MemberStatus` models the rows, and in `job` what each goroutine is in the
middle of. `backend` is chosen at the start: with memory, `UpdateMemberStatus`
is atomic; with SQL, it validates in one step and writes in another.
`TryTransitionMemberStatus` is the compare-and-swap of both backends.

`MemberRecovery` extends `MemberStatus` with the runtime behind the row: the entry of
the member in `spawnedHandles` (`handle`), every process or goroutine ever launched
(`procs`), the recovery whose cancel function is entered (`cancels`), the contexts
that are over (`ended`) and where each actor is (`work`). The actors are the leader's
kernel, tools and interact calls that start or shut down the member, the teammate's
own reports, and the calls of `OnTeammateUnhealthy`; each lock and each
statement is a step, and every write of the row is an action of `MemberStatus`. Being
`up` means that the process lives, or that the goroutine was not told to stop. The
rigid `alone` splits the teams: those whose members the leader alone starts have
health checks that fail at any time, those whose members tools start have
starters and shutdown requests instead.

`Mailbox` models the message tables and `processUnreadMessagesWithSteer`: `ReadDirect`
and `ReadBroadcasts` are its two queries, `Deliver` the call of `DeliverInput`,
`MarkMessageRead` the mark, `Defer` the early return on a pending interrupt. `backend`
is chosen at the start: memory stamps messages and gives a member without a watermark
every broadcast; SQL stamps none (the time is 0), compares with 0 then, and a query may
fail, which leaves its half of the batch out. A mark may fail on either (the member may
be gone) and the loop goes on: `unmarked` keeps what was handed over and not marked,
`dropped` what fell behind the watermark unread; both only observe. `Crash` is a panic
that the bus recovers or a restart of the member: the loop's memory is gone, the tables
stay. Members outside `Reader` have rows but no running agent. The pseudo-member `user`
is left out.

`EventBus` models one bus. The time limits of `Stop` and `PausePolls` are
choices: a wait may always give up, except that a loop that is idle with an event
at hand takes it within five seconds. `loops` keeps every run loop ever started,
because an outlived one shares the channel with the next; `beside` remembers that a loop
was started while a call of `Stop` was still under way. `mayStart` is what
the runtime believes (new or paused). `role` is chosen at the start: only a
teammate gets standby events, only a leader's bus is started again.

`WorkScheduler` models one session, since nothing but maps keyed by session is shared.
`lanes` keeps every lane ever created, because a lane that `CloseSession` took out of
the map lives until its operation returns; `registered` is the one in the map. A queue
is kept in the order the heap pops it (`Push`). The critical sections of `mu` are the
actions: the processor takes, clears, notices that it lost its lane and leaves;
`CancelHandles` takes work out of the index, or finds a cancel function, and answers or
calls it after the lock; `CloseSession` removes the lane and empties the index under the
lock (`CloseBegins`), answers what it took after it (`CloseAnswers`), then cancels the
operation (`CloseTells`), then waits for the processor and the operation, with one tick
of time for both. A leaving processor answers in a step of its own too. `drained` is
what such a call has in hand. `generation` is what each handle carries, and a lane of
another generation refuses it.

`TeamRuntime` models one team in several sessions. `entries` keeps every entry ever put
into the pool, with its state, its gate and the lifecycle of its leader's kernel; `pool`
is the slot. A call of `runTeamAgentStreaming` is a sequence of steps without a lock
between them: `Look`, `Decide` (`DecideRunAction`), `Build` or `Resume`, `Stream`,
`StreamEnds`, `Finalize`, a `Pause` or `Stop` of the kernel with what follows it,
`CloseGate` and the drain. A rejected run goes to `Finalize` directly, as in the code.
`Finalize` stops a temporary team, and a persistent one whose leader was asked to shut
down; else it pauses. A failing database or checkpoint is `ActivateFails`. The kernel's
calls are two steps, the check of its state on entry and the state it writes at the end,
because they take seconds in between and hold no lock. `wait` says whether a drain still
waits for the channel that the gate has, was woken, or holds a channel that a later
`Admit` replaced and nobody will close. `callers` is chosen at the start: runs in turn
(`patient`), in turn with lifecycle calls beside them (`managed`), or overlapping
(`eager`).

`PlanApproval` instantiates `TaskBoard` as `Board` for the row of the task and adds
`index.json` as it is used: load, truncate, write. A reader that finds the
file truncated takes it for empty (`writePlanIndex`) or gives up
(`updatePlanIndex`).

`TaskScheduler` models the tasks of one session. `registered` says that the scheduler
knows the session; the stream that registered it removes it when it ends, also on its
first-frame time-out (`EndStream`), and the loop skips its tasks from then on (`Skip`).
`runs` keeps every execution ever started, since the guard (`executeTaskWrapper`)
returns as soon as its context ends and the execution (`executeTask`) goes on. `scan` is
what the loop still holds of the list it read. Each caller makes one call, in steps as
the code takes and releases its locks. `mode` is chosen at the start: nothing else
happens (`plain`, with `Stop` at any moment), tasks have time limits (`limited`), or
callers interfere (`called`). `MaxConcurrent` zero is no limit, as in the code. Statuses
are written without looking at the old one, as `UpdateTaskStatus` does.

The eight modules `*Proofs` hold the theorems. `MC*` modules are the TLC instances.

## 3. Runs

| Run | Bounds | Shows |
|---|---|---|
| `board` | 3 tasks, 2 members | types, blocking, order of work, ownership, acyclicity, `EveryTaskEnds`, refinement of `DependencyOrder` |
| `cycle` | all 512 graphs over 3 nodes, all orders | right verdict, real cycle, termination |
| `sql` | 2 tasks, 2 connections | SQLite's refusals keep the graph acyclic at statement granularity; calls return; without rolled back mutations the committed tables implement `TaskBoard` |
| `sql_claim` | the same | **finding**: a claim reports success although its UPDATE was refused |
| `recovery` | 1 teammate, 2 starters, 1 recovery, 2 launches, 1 attempt, both backends and spawn modes | refinement of `MemberStatus`, one starter at a time (tools and interact calls; a `RecoverTeam` beside one is not excluded), held rows, a stop leaves no runtime, every wait ends |
| `mailbox` | 3 messages, 3 clock values, 1 reader, 1 crash, both backends | no direct message lost, again only after a failed mark, broadcasts lost in two ways only, arrival |
| `bus` | capacity 1, 2 starts, 1 poller kind, 2 goroutines in `Stop` | pollers held, outlived loops cancelled (unless started beside a `Stop`), resumption, no freeze, `Stop` returns |
| `lane` | a chat and other work, 2 generations, 2 lanes, 1 closer | no work stranded, outlived work told to stop or about to be, every waiter answered |
| `runtime` | 2 runs, 2 sessions, 2 payloads, 1 lifecycle call | the gate counts tickets, a drained gate is empty, a patient run takes input, an ended team is down, every run ends |
| `plan` | 1 task, 2 members, 2 plans | **finding**: a plan is decided twice |
| `tasks` | 2 tasks, 1 slot, 2 executions, 1 call | the limit on executions nobody told to stop, no lost slot, the signal of a plain session |
| `tasks_stale` | the same | **finding**: a cancelled task is started |

**Why the bounds are enough to be interesting.** Three tasks give chains, forks and
joins, an edge added to the middle of a chain, and a batch that cancels upstream and
downstream together; that three is not special is what the theorems add. Three nodes
give self-loops, two-cycles, three-cycles and cycles reached from a root outside. Two
connections are what SQLite distinguishes: the writer and one that is not. Two starters
and a third writer give a start, its rollback and a second start; one recovery meets a
start and a stop of the kernel at every step, and the second launch is the restart of
the first. Three messages give a batch of two and one that arrives during it; three
clock values give older, equal and newer. Capacity 1 makes the channel full with any
event; with one goroutine in `Stop` capacity 2 was checked too, and the invariants are
proved for any. Two goroutines in `Stop` let the slower one meet the next loop; two
starts let an old loop meet a new one; one poller kind is enough to fill the channel
(with both kinds the invariants were checked too). Two pieces of work of both kinds and
two lanes let a removed lane meet its successor with work of the same or another
generation; three of either add only more of the same meeting, and the theorems hold for
any number. Two runs in two sessions are the first that can displace or resume each
other, two payloads let one be late for a reset that the other follows. Two plans for
one task have a latest and an earlier one. Two tasks on one slot make one wait for the
other, and two executions are a run and the one that follows it on the same task.

**Other bounds.** `MaxLaunches`, `MaxTime`, `MaxCrashes`, `MaxStarts`, `MaxPolls`,
`MaxLanes`, `MaxGeneration` and `MaxRuns` cap counters in guards; runs, managers,
callers and payloads make one call each. In `Mailbox` a new message takes the `FreshId`,
since ids are interchangeable.

**Deadlock** is checked for `mailbox`, and not where the system may
stop: a board (also in `sql`) whose tasks all ended, a search that is done, a bus
that is stopped and has used up its starts, a closed session scheduler, runs and
calls that were all made, plans that were all decided, a session whose tasks are
over.

**Fairness.**
* Board: `EveryTaskEnds` is conditional on the members: one eventually
  claims a task that stays claimable (weak), and a task that is in somebody's hands
  again and again is eventually completed (strong). Nothing is assumed of the
  leader, who may reset, cancel and add edges as it likes. That resets do not go
  on for ever between claim and completion is the strong part.
* Cycle search: it is a loop, so its next step is weakly fair.
* SQL: a goroutine inside a call executes its next statement; no one must call.
* Mailbox: the poll timer fires and the handler continues (weak), and a query that is
  made again and again does not fail for ever (strong); marks may. A pause of the
  polls by standby is in `EventBus`; `DirectArrives` assumes polls that run.
  It also asks that interrupts eventually stop.
* Bus: loops run and callbacks end, since each wait of the handlers has a limit;
  a `Stop` call proceeds and its time limits run out (strong: a five-second timer
  is not reset when the loop is busy in between). Pollers and senders owe nothing.
* Session lanes: processors, calls and their time limits run, and every operation
  returns in the end. The last is an assumption about the operations: Go cannot
  stop a goroutine that ignores its context, and behind one that hangs the others
  wait until somebody cancels or closes.
* Runtime: after its stream, a run proceeds, the kernel's calls return and the 30
  seconds of the drain run out; nothing is assumed of payloads, streams or callers.
* Task scheduler: the loop goes round (it has an interval), guards and executions
  proceed. Callers and the reader of the stream owe nothing. `EverySubmissionStarts` is
  released when the bound on executions is reached, the scheduler is stopped or the
  session is no longer registered; `PlainSessionIsSignalled` by the latter too.
* Member recovery: goroutines proceed, statements return, and the five seconds of
  `StopHealthCheck` run out. Nothing is assumed of the teammate, its health check, of
  tools, or of whoever starts and stops the team.
* Plans: no liveness.

**Mutants.** Each property of each passing run has a variant of one definition
(the operators commented as variants or bugs) that makes TLC report it violated.

## 4. Findings

1. `sql_claim`: `ClaimTask` (`sql_task_dao.go:128`) ignores the error of its
   UPDATE and answers `true`, so two members may be told they own one task. The
   table is right, the answer is not. `ResetTask` and `ApprovePlanTask` have the
   same shape.
2. `plan`: `SubmitPlan` (`task_manager.go:910`) writes its record, decision
   pending, once more after the leader was notified. A decision in between is
   overwritten, and the plan can be decided again, the other way too.
3. `tasks_stale`: the loop of the task scheduler (`task_scheduler.go:573`) starts
   the tasks of its list one by one without looking at their status again; one
   that `CancelTask` marked (and reported as cancelled) is executed.

Also seen, without a run of their own:

* `terminateTaskInTx` (`sql_task_dao.go:685`) ignores the errors of its UPDATEs.
  While a mutation that will be rolled back holds the lock, the first UPDATE is
  refused; after the rollback the snapshot is still current, so the next one is
  accepted and committed: half a termination, although the comment at `:459` calls
  it atomic. This is why `ImplementsBoard` excludes such rollbacks. Another writer of the
  same file does as much without a rollback: the UPDATE of a compare-and-swap that
  matches no row (`sql_member_dao.go:114`) takes the lock, commits nothing and makes
  nobody stale. `SqlTaskDao` has no other writers, so `ImplementsBoard` and what is proved
  of it leave this out.
* `UpdateMemberStatus` in SQL validates and writes in two statements, so a status
  report can erase a shutdown request that was set in between.
* A recovery kills what it restarted: the process runs, and is health-checked, under
  the recovery's context (`process.go:58`, `runner.go:449`), which the deferred cancel
  ends when the restart is done (`spawn_manager.go:333`). The same befalls a process
  that a tool started when the tool's context ends. `inprocess_spawn.go` was detached
  from the caller's context for this reason (its comment on S-46).
* When a start fails because its context is over, the rollback of `StartupMember`
  (`team_backend.go:523`) is a statement under the same context: on SQL the row stays
  "starting", and nobody can start the member any more. The last write of a failed
  recovery (`spawn_manager.go:341`) has the same flaw.
* `RecoverTeam` restarts every member, also one that is not started or was shut down; a
  start by a tool beside it launches a second runtime, `SpawnTeammate` overwrites the
  handle (`:132`), and the first runtime outlives the stop of the team. This is why
  `StoppedTeamIsDown` is stated for members that the leader alone starts.
* `StopHealthCheck` called from the callback of that check waits for itself until its
  five seconds are over.
* A batch of broadcasts is delivered newest first, and each moves the watermark to
  its own time; those an interrupt defers are then read for good.
* The SQL backend never sets `Timestamp` of a message, so a broadcast is unread for
  nobody (dropping `backend = "memory"` from `BroadcastsAreAccounted` shows it).
* On the memory backend two broadcasts of one millisecond share their watermark: when the
  first is marked before the second is read, the second is never unread.
* `MarkMessageRead` drops the errors of its statements on SQL (`sql_message_dao.go:266`,
  `:271`), and `handlers/message.go:220` its answer: the next wake-up, with new
  `seenIDs`, hands the message to the agent again without any crash.
* `Stop` of the bus sends Shutdown to a channel nobody reads any more when the
  caller's context already ended the loop; the next `Start` reads it and the bus
  is "running" without a loop.
* Nothing serializes `Stop` of a bus (`StopTeam` or `Pause` of the runtime beside a run's
  `Finalize` both get there). The slower one clears the `cancelFunc` of a loop that was
  started in between, and the next `Stop` cannot cancel that loop. This is the case
  that `OutlivedLoopIsCancelled` excuses (`beside`).
* `CloseSession` cancels the running operation after the unlock (`work_scheduler.go:346`),
  so a submission in between may run beside an operation that was not told yet.
* A run that is rejected because the team is running executes the cleanup of a run
  (`team_runner.go:567`): it pauses or stops the team that is running and closes
  its gate. `StopTeam` between `Activate` and `Stream` leaves a leader that
  streams outside the pool. `PatientRunAcceptsInput` and `EndedTeamIsDown` are
  stated for callers that take turns because of these two.
* Two calls of `CloseSession` are not needed to make one wait for ever: its
  deadline ticks once, for the processor or for the operation, so an operation that
  never returns keeps the call waiting for the other.
* In a session where the last task is paused or cancelled, the guard looks while
  the task is still working, and no completion is signalled.
* A task that timed out gives its slot back although its execution goes on
  (`task_scheduler.go:851`), so more executions than `MaxConcurrentTasks` may go on at
  once, which `controller_config.go:27` calls the maximum number of concurrent tasks.
  This is why `LimitHolds` counts those that nobody told to stop.
* A stream that waits in vain for its first frame removes the session
  (`controller.go:298`, `:351`); its submitted tasks are then skipped at every scan and
  stay submitted, until another stream registers the session again.
* A cancelled execution goes on until its executor notices, and then writes
  completed or failed over cancelled or paused.

## 5. Theorems

The proof modules follow one pattern: an inductive invariant (`IInv` in most), `Init =>
IInv`, one lemma per action, then the corollaries with PTL. Assumptions on the
constants: `NoOneAssumption` and `NobodyAssumption` (the NULL assignee is no member; in
`SqlTaskDao` it also stands for "nobody holds the write lock"), the assumption of
`Mailbox` on its constants, `SchedulerAssumption` (`NoWork` is no work, the bounds
are numbers), `BusAssumption` (capacity and bounds are numbers, kinds of events are
distinct), `LimitAssumption` (the limit is a number, zero included), `ActorAssumption`
(runs and lifecycle calls are different calls), `RecoveryAssumption` (the member is a
member, the callers are different callers, there is at least one try); the sets of
tasks, nodes, runs, members, callers, messages, work, payloads and closers are any
sets, finite or not. Two theorems have a further assumption in their statement (`Alone`
and a finite `Node`, below).

**TaskBoardProofs.** `IInv` is the conjunction of `TypeOK`,
`ResolvedIffUpstreamTerminal`, `BlockedIffUpstreamOpen`, `WorkFollowsDependencies`,
`OwnedIffStarted` and `DependenciesAcyclic`. None of the middle ones is inductive alone:
the refresh computes blocked from the resolved flags, so "blocked exactly" needs the
flags to be right; a claim looks at no edge, so "work follows dependencies" needs
"blocked exactly"; and the flags need ended tasks to stay ended. Proved: each invariant
of the run `board`, among them `NeverAllBlocked` (an acyclic nonempty set of open tasks
has one whose upstream tasks are all over, and by "blocked exactly" it is not blocked),
the action properties `NoTaskIsStolen`, `TerminalIsFinal` and `OnlyNewEdgesBlock` (a
refresh can only block what has a new edge: without one, what a task waits for only
shrinks), and `Spec => ImplementsOrder` (each operation is a step of `DependencyOrder`
or a stutter; a claim maps to `Start`, whose guard is `WorkFollowsDependencies` in the
making).

**MemberStatusProofs.** `SingleSpawner` and `SpawnHoldsTheRow` need each other: a
second start is refused because the row is held, and the row is held because no
other spawner can roll it back. `RowsFollowTable` adds `PendingIsValid` (on the
memory backend nothing is half done, and a pending shutdown was validated against
the status it compares with).

The module goes on with `MemberRecovery`. Every step of it is a step of
`MemberStatus` or leaves its variables alone (`ImplementsMemberStatus`), which takes no
invariant, so `SingleSpawner` and `SpawnHoldsTheRow` hold of the composition. A starter
that launches, registers or rolls back has the spawn job of the member
(`ClaimsAreHeld`), hence `StartersTakeTurns`: tools and interact calls start the
teammate one at a time. It says nothing of `RecoverTeam`, which claims nothing and may
launch beside a starter (see "Also seen").
`StoppedTeamIsDown` takes one: where the leader alone starts the member, its own
runtime is the first ever launched (`LeaderIsFirst`), and while it is up the entry
names it or exactly the actor that took the entry holds it (`FirstIsKnown`); who has
once detached finds the entry empty of it for good. The later runtimes are launched by
recoveries, run under their contexts, and end when those end (`RecoveriesFollow`).

**MailboxProofs.** The heart is `DirectIsUnreadOrOffered`: a direct message that was
sent is unread or was handed over. It is not inductive alone: when the loop marks a
message one must know that it was handed over before, and to the member whose message
it is (`HoldsItsOwn`); flags are only on messages that exist, the clock stamps from 1,
and a watermark is the time of a broadcast that was handed over (`RowsAreSound`).
`OfferedOnce` needs that what was handed over is marked as read, or about to be, or its
mark did not succeed, and that the loop holds no other such message again
(`HandedOverIsMarked`). `BroadcastsAreAccounted` is about every watermark: a mark raises
it to the time of the newest broadcast of the batch, so the batch must have held all
older ones that are not accounted for otherwise (`BatchIsComplete`). None of the three
assumes anything of the constants beyond the module's assumption, and reads and marks may
fail.

**WorkSchedulerProofs.** `NoWorkIsStranded` says that queued work has a processor or
nobody waits for it. Whoever drops a lane or empties the index must leave nobody
behind, so the invariant adds: queued work of the registered lane that somebody waits
for is in the index, or with a `CancelHandles` call (`IndexIsComplete`); what is
queued was submitted, has not begun, is queued once and on the session's lane only
(`QueuesAreFresh`); a mark is only on work that nobody waits for (`MarksAreIdle`).
`OutlivedWorkIsInterrupted` follows with the same invariant: the call that took the lane
out of the map took its operation down in the same critical section, and holds it until
it has called the cancel function. Until then the operation may run beside the next lane
untold, and the property says so. Likewise work that a closing call or a leaving processor
took from the index counts as held until that call has answered it (`InHand`).

**TaskDatabaseProofs**, first part: the search. It decides `Acyclic` on every graph,
finite or not. The stack is a path of the graph and its nodes are the gray ones, each
once (`StackIsPath`); what a node on the stack does not have left to visit is black or
next on the stack (`RestIsVisited`), so a node that becomes black has only black
neighbours; hence nothing leads out of the black nodes and there is no cycle among them
(`BlackIsDone`). When the roots are used up all nodes with edges are black, and that is
the verdict; a gray neighbour closes a path of the stack, and that is the cycle
reported. On a finite graph `SearchRunsOut` adds that every step lowers `Remaining`
(nodes not yet coloured, nodes not yet finished, edges not yet looked at, and the
answer), a natural number: that is `Terminates` but for the fairness of the loop.

Second part: the transactions of `SqlTaskDao`, with two invariants.

* `BaseInv` holds in every history, also when mutations are refused. Committed and
  uncommitted tables are `Sound` (no dangling edge, no cycle), and the uncommitted ones
  differ from the committed ones only as a transaction may (`Respects`: ended tasks stay
  ended, an owner stays, edges and flags stay). The step that needs more is a call's
  first write: its guard was evaluated on another step. Hence `WriterIsFresh` (the
  writer's snapshot is not stale) and `TodoOK`: as long as the snapshot is not stale, what
  the SELECT found (`Permitted`, `Valid`) is still true of `db`, and a call that is stale
  never becomes the writer. `StaysAcyclic` follows, and the board's `TerminalIsFinal` and
  `NoTaskIsStolen` hold of the committed tables: dropped errors and rollbacks cannot
  break these.
* `AtomicInv` needs that no mutation is rolled back. The writer's tables are the
  committed ones after exactly the statements it has executed (`WriterIsExact`). Somebody
  whose first UPDATE was refused by a writer must not be accepted with the second one;
  he is not, because that writer's commit makes him stale: it always changes the tables
  (`ExactChanges`). So who is neither writer nor stale, when nobody is the writer, has
  executed nothing (`OthersWait`). In this model a rollback is the one way to free
  the lock without making anybody stale, and with one the invariant is false (see "Also
  seen", half a termination); in the code another writer of the same file is a second
  way, and the theorems that rest on `AtomicInv` suppose that there is none.

`BaseInv` also gives `LockIsNeverLeft`, what can be proved of `CallsReturn`: the holder of
the write lock is in a call and is granted its next statement, and in every history a call
in progress keeps its operation, only ever shortens its list of statements, and returns
when the list is empty.

With `AtomicInv` each commit is one operation of `TaskBoard` (`CommitIsBoardStep`, one
lemma per kind of operation), which is `ImplementsBoard`; what is proved of the board's
histories thus describes the database too, and its invariants are also proved of the
committed tables themselves (`DaoKeepsBoard`, `DaoBlocksForNewEdges`). Between the
statements of a transaction they are false, so the proof needs a form that is true
there: the tables are right except for the tasks the operation is about to refresh
(`RightExcept`). An ended task or a new edge makes its downstream tasks the exception,
and the refresh, the last statement, repairs exactly those (`RefreshRight`).
`LoneClaimIsHonest` is the other side of finding 1: with one member on the database
(`Alone`) a snapshot is never stale, no UPDATE is refused, and the answer of `ClaimTask`
is the truth.

`DaoInv`, the conjunction of `BaseInv` and `AtomicInv`, was checked with TLC on the
instance of the run `sql` before it was proved.

**EventBusProofs.** `PollersAreHeld` needs to know that a bus that is not running has
cancelled all its pollers (`StoppedHasNoPolls`) and that `Start`, which does not reset
the mark of a pause, never meets one (`StartMeetsNoPause`: only teammates pause, only
leaders are started again). `OutlivedAreCancelled` holds for any number of goroutines in
`Stop`: while the bus runs, the cancel function is the last loop's and no `Stop` is under
way, or that loop was started beside one (`RunningIsHeld`); a `Stop` holds the cancel
function of its loop and has used it before it gives up (`StopHolds`).

**TeamRuntimeProofs.** `GateCountsTickets` is inductive with the types alone, though
over entries and payloads of any number: what it takes is that a reset only lowers the
count and that `ConsumeDone` looks at it before it decrements.

Two more invariants are about callers that overlap less. When runs take turns
(`TurnsInv`), one run is active, what it found in the pool is closed, and a pool entry
that is open has a run on its way to `CloseGate`; hence an entry can be emptied only
by the run that drains it, and `DrainedGateIsEmpty` holds whatever `StopTeam`, `Pause`
or `DeleteTeam` do meanwhile. The count is exact there unless a drain ran out of time
and reset it. When nobody stops the team either (`PatientInv`), a run sees the
pool as it is until it removes its entry, and a kernel that runs does so for the one
run there is; `PatientRunAcceptsInput` and `EndedTeamIsDown` follow.

**TaskSchedulerProofs.** `LimitHolds` counts executions that nobody told to stop; the code
counts entries of `runningTasks`. Two invariants join them: such an execution still has
its guard (`GuardsWatch`: a guard leaves when the execution is over or after it cancelled
it), and a guarded run owns the entry of its task (`Slots`), so no two share a task and
runs inject into entries. Once callers
interfere that is false (`CancelTask` and `PauseTask` delete the entry of a run that
may still be executing), but the entries themselves stay accounted
for (`SlotsAccounted`, from `EntriesInv`): there are never more than the limit, each is
held by a run of its task whose guard has yet to release it, and what a call took from the map
in order to cancel it is a run of the call's own task. A slot is never left to nobody, which
is the safety half of `EverySubmissionStarts`. TLC checked `EntriesInv` on two callers with
two runs and on one caller with three.

**Only model-checked:** liveness (`EveryTaskEnds`, `Terminates`, `CallsReturn`,
`DirectArrives`, `MessageResumesPolls`, `FullQueueDrains`, `StopReturns`,
`EveryWaiterIsAnswered`, `EveryRunEnds`, `EverySubmissionStarts`,
`PlainSessionIsSignalled`, `CallsEnd`), which is out of the prover's reach; of three of them
the part that is safety is proved (`SearchRunsOut`, `LockIsNeverLeft`, `SlotsAccounted`). Every
invariant, action property and refinement of a passing run is stated by a theorem.

## 6. Not modelled

* Of the board: `UpdateTaskStatus` and `DeleteTask` (no tool calls them; both
  leave downstream tasks stale), `VerifyAndFixTaskConsistency`, the in-progress
  branch of `UpdateTask` (cancel, then reset by a message), titles and contents.
* Of SQL: `CancelAllTasks` and creation with dependents, PostgreSQL, the expiry of
  the busy timeout.
* Of members: `execution_status`; of their runtimes the graceful `Shutdown` of a
  handle, the switch of sessions, shared resources and chunk forwarding; unhealthy
  callbacks in a team whose members tools start (both at once were explored for
  invariants, and are too many states for the liveness check).
* Of the mailbox: `user`, `HasUnreadMessages`, human-agent notifications, what
  `DeliverInput` does with the text.
* Data races of the memory backend (live pointers to rows) and of the
  `initialized` flag.
* Of the runtime: `ReleaseSession`, the runs without a stream (the same steps),
  `FinalizeMember`, the order of the ten steps inside a kernel call, what a payload
  does behind the gate; the errors that leave an entry as it was (`Finalize` when
  the kernel's stop fails, or the read of the shutdown request does).
* Of plans: the copied files, and what two overlapping writes leave of a longer
  file.
* Of the task scheduler: child tasks and priorities, removal of tasks, the saved
  state, several sessions (the limit is shared among them), the output stream, a later
  stream that registers the same session again, the switch that suppresses the
  completion signal.
* The parts marked planned above, and the rest of the repository.

## 7. Plan

The number of runs is kept small on purpose, so a new module joins an instance
that exists, or replaces a run that shows less. In order:

1. `TeamCompletion`: `IsTeamCompleted` and the drained-list event read step by
   step over `TaskBoard` and `Mailbox`. Property: declared complete implies that
   nothing was open at some moment during the reads.
2. `Messager`: two buses that publish to each other; the circular wait.
3. `CoordinationKernel`: the order inside start, pause and stop, composed with
   `EventBus`; workspace locks.
4. Agent core: Pregel channels against a reference definition, team message bus,
   checkpointer, goal manager, cron.

Theorems to add: with the modules above, theirs.
