------------------------------ MODULE EventBus ------------------------------
(***************************************************************************)
(* The wake-up loop of a team member (coordination/event_bus.go): a bounded *)
(* channel of events, one run loop that receives them and calls the         *)
(* dispatcher, pollers that enqueue an event at every tick, and the calls   *)
(* Start, Stop, PausePolls and ResumePolls.  PausePolls and ResumePolls run *)
(* inside the dispatcher, hence on the run loop itself; Start and Stop run  *)
(* on the goroutines of the team's runtime, which does not keep them apart. *)
(*                                                                          *)
(* Time limits are choices: a wait that has one may always give up.         *)
(* Bounds: Capacity slots (256 in the code), MaxStarts starts, and MaxPolls  *)
(* sets of pollers alive at once.                                           *)
(***************************************************************************)
EXTENDS Naturals, Sequences, FiniteSets

CONSTANTS Capacity,   \* slots of eventCh
          MaxStarts,  \* bound on the calls of Start that start something
          MaxPolls,   \* bound on the sets of pollers alive at once
          Caller,     \* goroutines that may be inside Stop
          PollKind    \* the pollers' events; empty for a human agent

ASSUME BusAssumption ==
  /\ {Capacity, MaxStarts, MaxPolls} \subseteq Nat \ {0}
  /\ PollKind \cap {"message", "standby", "shutdown"} = {}

VARIABLES running, pollsPaused, pollsDone,  \* the flags, under b.mu
          queue,        \* eventCh, which outlives every start and stop
          loops,        \* one record for each run loop ever started; beside only
                        \* observes: a Stop was under way at its start
          pollers,      \* the live poll goroutines
          pollCancel,   \* mailboxPollCancel, taskPollCancel: a set of pollers, or 0
          cancelFunc,   \* b.cancelFunc: a loop, or 0
          stops,        \* the Stop calls under way
          mayStart,     \* the runtime believes the team paused, or new
          role          \* whose bus it is; never changes

vars == <<role, running, pollsPaused, pollsDone, queue, loops, pollers, pollCancel,
          cancelFunc, stops, mayStart>>

\* What others enqueue.  Only teammates are put on standby; their bus is started
\* when they are spawned, the leader's again at every resumption of the team.
Event == IF role = "leader" THEN {"message"} ELSE {"message", "standby"}
Starts == IF role = "leader" THEN MaxStarts ELSE 1

Loop == 1..Len(loops)
Alive(g) == loops[g].pc # "exited"
Dispatching == {"dispatching", "pausing"}
Idle == [pc |-> "out", loop |-> 0, cancel |-> 0]

TypeOK ==
  /\ running \in BOOLEAN /\ pollsPaused \in BOOLEAN /\ pollsDone \in BOOLEAN
  /\ mayStart \in BOOLEAN
  /\ queue \in Seq(Event \cup PollKind \cup {"shutdown"}) /\ Len(queue) <= Capacity
  /\ loops \in Seq([pc : {"idle", "received", "dispatching", "pausing", "exited"},
                    event : Event \cup PollKind \cup {"none"}, cancelled : BOOLEAN,
                    beside : BOOLEAN])
  /\ pollers \subseteq [kind : PollKind, gen : 1..MaxPolls, loop : Nat,
                        pc : {"ticking", "sending"}, cancelled : BOOLEAN]
  /\ pollCancel \in 0..MaxPolls /\ cancelFunc \in 0..Len(loops)
  /\ stops \in [Caller -> [pc : {"out", "polls", "loop", "forced", "clear"},
                           loop : 0..MaxStarts, cancel : 0..MaxStarts]]

Init ==
  /\ role \in {"leader", "teammate"}
  /\ running = FALSE /\ pollsPaused = FALSE /\ pollsDone = FALSE
  /\ queue = <<>> /\ loops = <<>> /\ pollers = {}
  /\ pollCancel = 0 /\ cancelFunc = 0 /\ mayStart = TRUE
  /\ stops = [c \in Caller |-> Idle]

-----------------------------------------------------------------------------
\* Contexts: cancelling one marks every poller that it covers.

CancelPollers(S) == (pollers \ S) \cup {[p EXCEPT !.cancelled = TRUE] : p \in S}

\* The derived context of loop g is cancelled: by its caller, or by cancelFunc.
CancelLoop(g) ==
  /\ loops' = [loops EXCEPT ![g].cancelled = TRUE]
  /\ pollers' = CancelPollers({p \in pollers : p.loop = g})

Unused == 1..MaxPolls \ {p.gen : p \in pollers}

\* startPollTasksLocked: one poller of each kind under the context of loop g.
\* A human agent has none, and its cancel functions stay nil.
StartPollTasks(g) ==
  \E gen \in Unused :
    /\ \A other \in Unused : gen <= other
    /\ pollers' = pollers \cup
         [kind : PollKind, gen : {gen}, loop : {g}, pc : {"ticking"},
          cancelled : {(g \in Loop) /\ loops[g].cancelled}]
    /\ pollCancel' = IF PollKind = {} THEN 0 ELSE gen

Send(e) == Len(queue) < Capacity /\ queue' = Append(queue, e)

-----------------------------------------------------------------------------
\* Enqueue, by the messager's handlers and by the kernel: it blocks while the
\* channel is full, and asks neither for running nor for a live loop.
Enqueue(e) ==
  /\ Send(e)
  /\ UNCHANGED <<running, pollsPaused, pollsDone, loops, pollers, pollCancel,
                 cancelFunc, stops, mayStart>>

StopUnderWay == \E c \in Caller : stops[c].pc # "out"

\* Start, by a run or a resumption of the team.  The pause flags stay as they are.
Start ==
  /\ mayStart /\ ~running /\ Len(loops) < Starts
  /\ running' = TRUE /\ mayStart' = FALSE
  /\ loops' = Append(loops, [pc |-> "idle", event |-> "none", cancelled |-> FALSE,
                             beside |-> StopUnderWay])
  /\ cancelFunc' = Len(loops) + 1
  /\ StartPollTasks(Len(loops) + 1)
  /\ UNCHANGED <<pollsPaused, pollsDone, queue, stops>>

\* The context given to Start is cancelled: the client left, or a member was killed.
CallerCancels(g) ==
  /\ ~loops[g].cancelled /\ CancelLoop(g)
  /\ UNCHANGED <<running, pollsPaused, pollsDone, queue, pollCancel, cancelFunc, stops,
                 mayStart>>

\* A bug: the cancel functions are cleared but not called.
StopBeginsKeepsPollers(c) ==
  /\ stops[c].pc = "out" /\ running
  /\ running' = FALSE /\ pollsPaused' = FALSE /\ pollsDone' = FALSE
  /\ pollCancel' = 0
  /\ queue' = IF Len(queue) < Capacity THEN Append(queue, "shutdown") ELSE queue
  /\ stops' = [stops EXCEPT ![c] = [pc |-> "polls", loop |-> Len(loops), cancel |-> cancelFunc]]
  /\ UNCHANGED <<loops, pollers, cancelFunc, mayStart>>

\* Stop under the lock: flags, pollers, and Shutdown unless the channel is full.
\* The loop's done channel and its cancel function are read into locals.
StopBegins(c) ==
  /\ stops[c].pc = "out" /\ running
  /\ running' = FALSE /\ pollsPaused' = FALSE /\ pollsDone' = FALSE
  /\ pollers' = CancelPollers({p \in pollers : p.gen = pollCancel})
  /\ pollCancel' = 0
  /\ queue' = IF Len(queue) < Capacity THEN Append(queue, "shutdown") ELSE queue
  /\ stops' = [stops EXCEPT ![c] = [pc |-> "polls", loop |-> Len(loops), cancel |-> cancelFunc]]
  /\ UNCHANGED <<loops, cancelFunc, mayStart>>

\* Stop of a bus that is not running returns at once.
StopNoOp(c) ==
  /\ stops[c].pc = "out" /\ ~running /\ loops # <<>>
  /\ mayStart' = TRUE
  /\ UNCHANGED <<running, pollsPaused, pollsDone, queue, loops, pollers, pollCancel,
                 cancelFunc, stops>>

\* Two seconds at most for the pollers.
StopWaitsPolls(c) ==
  /\ stops[c].pc = "polls"
  /\ stops' = [stops EXCEPT ![c].pc = "loop"]
  /\ UNCHANGED <<running, pollsPaused, pollsDone, queue, loops, pollers, pollCancel,
                 cancelFunc, mayStart>>

StopSeesLoopExit(c) ==
  /\ stops[c].pc = "loop" /\ ~Alive(stops[c].loop)
  /\ stops' = [stops EXCEPT ![c].pc = "clear"]
  /\ UNCHANGED <<running, pollsPaused, pollsDone, queue, loops, pollers, pollCancel,
                 cancelFunc, mayStart>>

\* A bug: no time limit, Shutdown is believed to arrive.
StopForcesNever(c) ==
  /\ FALSE
  /\ UNCHANGED vars

\* A bug: the context is not cancelled.
StopForcesNothing(c) ==
  /\ stops[c].pc = "loop" /\ Alive(stops[c].loop)
  /\ loops[stops[c].loop].pc = "idle" => queue = <<>>
  /\ stops' = [stops EXCEPT ![c].pc = "forced"]
  /\ UNCHANGED <<running, pollsPaused, pollsDone, queue, loops, pollers, pollCancel,
                 cancelFunc, mayStart>>

\* Five seconds without the loop's exit: its context is cancelled, if it is known.
\* A loop that waits with an event at hand takes it in less.
StopForces(c) ==
  /\ stops[c].pc = "loop" /\ Alive(stops[c].loop)
  /\ loops[stops[c].loop].pc = "idle" => queue = <<>>
  /\ stops' = [stops EXCEPT ![c].pc = "forced"]
  /\ IF stops[c].cancel = 0 THEN UNCHANGED <<loops, pollers>> ELSE CancelLoop(stops[c].cancel)
  /\ UNCHANGED <<running, pollsPaused, pollsDone, queue, pollCancel, cancelFunc, mayStart>>

\* One more second, whether the loop leaves or not.
StopGivesUp(c) ==
  /\ stops[c].pc = "forced"
  /\ stops' = [stops EXCEPT ![c].pc = "clear"]
  /\ UNCHANGED <<running, pollsPaused, pollsDone, queue, loops, pollers, pollCancel,
                 cancelFunc, mayStart>>

\* Under the lock again: the cancel function is dropped, whoever it belongs to.
StopEnds(c) ==
  /\ stops[c].pc = "clear"
  /\ cancelFunc' = 0 /\ mayStart' = TRUE
  /\ stops' = [stops EXCEPT ![c] = Idle]
  /\ UNCHANGED <<running, pollsPaused, pollsDone, queue, loops, pollers, pollCancel>>

StopStep(c) ==
  StopWaitsPolls(c) \/ StopSeesLoopExit(c) \/ StopForces(c) \/ StopGivesUp(c) \/ StopEnds(c)

-----------------------------------------------------------------------------
\* The run loop g.

LoopGoes(g, pc, e) == loops' = [loops EXCEPT ![g].pc = pc, ![g].event = e]

Receive(g) ==
  /\ loops[g].pc = "idle" /\ queue # <<>>
  /\ queue' = Tail(queue)
  /\ IF Head(queue) = "shutdown" THEN LoopGoes(g, "exited", "none")
     ELSE LoopGoes(g, "received", Head(queue))
  /\ UNCHANGED <<running, pollsPaused, pollsDone, pollers, pollCancel, cancelFunc,
                 stops, mayStart>>

\* The select may also see the cancelled context.
LoopCancelled(g) ==
  /\ loops[g].pc = "idle" /\ loops[g].cancelled
  /\ LoopGoes(g, "exited", "none")
  /\ UNCHANGED <<running, pollsPaused, pollsDone, queue, pollers, pollCancel,
                 cancelFunc, stops, mayStart>>

\* Dispatch takes dispatchMu, which the loops of one bus share.
Dispatch(g) ==
  /\ loops[g].pc = "received"
  /\ \A h \in Loop : loops[h].pc \notin Dispatching
  /\ LoopGoes(g, "dispatching", loops[g].event)
  /\ UNCHANGED <<running, pollsPaused, pollsDone, queue, pollers, pollCancel,
                 cancelFunc, stops, mayStart>>

\* A message resumes the polls: OnMessageOrBroadcast, and the task handlers.
ResumePolls(g) ==
  /\ loops[g].pc = "dispatching" /\ loops[g].event = "message"
  /\ LoopGoes(g, "dispatching", "none")
  /\ IF pollsPaused /\ running /\ pollsDone
     THEN StartPollTasks(g) /\ pollsPaused' = FALSE /\ pollsDone' = FALSE
     ELSE UNCHANGED <<pollsPaused, pollsDone, pollers, pollCancel>>
  /\ UNCHANGED <<running, queue, cancelFunc, stops, mayStart>>

\* TEAM_STANDBY pauses them; the loop then waits for the pollers' end.
PausePolls(g) ==
  /\ loops[g].pc = "dispatching" /\ loops[g].event = "standby"
  /\ IF pollsPaused
     THEN LoopGoes(g, "dispatching", "none") /\ UNCHANGED <<pollsPaused, pollers, pollCancel>>
     ELSE /\ pollers' = CancelPollers({p \in pollers : p.gen = pollCancel})
          /\ pollCancel' = 0 /\ pollsPaused' = TRUE
          /\ LoopGoes(g, "pausing", "none")
  /\ UNCHANGED <<running, pollsDone, queue, cancelFunc, stops, mayStart>>

\* A bug: no time limit.
PauseEndsUnlimited(g) ==
  /\ loops[g].pc = "pausing" /\ pollers = {}
  /\ pollsDone' = TRUE
  /\ LoopGoes(g, "dispatching", "none")
  /\ UNCHANGED <<running, pollsPaused, queue, pollers, pollCancel, cancelFunc, stops, mayStart>>

\* A bug: the mark is not set.
PauseEndsUnmarked(g) ==
  /\ loops[g].pc = "pausing"
  /\ LoopGoes(g, "dispatching", "none")
  /\ UNCHANGED <<running, pollsPaused, pollsDone, queue, pollers, pollCancel,
                 cancelFunc, stops, mayStart>>

\* All pollers left, or two seconds passed.
PauseEnds(g) ==
  /\ loops[g].pc = "pausing"
  /\ pollsDone' = TRUE
  /\ LoopGoes(g, "dispatching", "none")
  /\ UNCHANGED <<running, pollsPaused, queue, pollers, pollCancel, cancelFunc, stops,
                 mayStart>>

\* The callback returns; an agent that is not ready skips the event.
DispatchEnds(g) ==
  /\ loops[g].pc = "dispatching"
  /\ LoopGoes(g, "idle", "none")
  /\ UNCHANGED <<running, pollsPaused, pollsDone, queue, pollers, pollCancel,
                 cancelFunc, stops, mayStart>>

LoopStep(g) ==
  Receive(g) \/ LoopCancelled(g) \/ Dispatch(g) \/ ResumePolls(g) \/ PausePolls(g)
    \/ PauseEnds(g) \/ DispatchEnds(g)

-----------------------------------------------------------------------------
\* The pollers.  A tick reads running under the lock and enqueues after it.

Becomes(p, new) == pollers' = (pollers \ {p}) \cup new

PollTick(p) ==
  /\ p.pc = "ticking"
  /\ Becomes(p, IF running THEN {[p EXCEPT !.pc = "sending"]} ELSE {})
  /\ UNCHANGED <<running, pollsPaused, pollsDone, queue, loops, pollCancel, cancelFunc,
                 stops, mayStart>>

PollSend(p) ==
  /\ p.pc = "sending" /\ Send(p.kind)
  /\ Becomes(p, {[p EXCEPT !.pc = "ticking"]})
  /\ UNCHANGED <<running, pollsPaused, pollsDone, loops, pollCancel, cancelFunc, stops,
                 mayStart>>

PollExit(p) ==
  /\ p.pc = "ticking" /\ p.cancelled
  /\ Becomes(p, {})
  /\ UNCHANGED <<running, pollsPaused, pollsDone, queue, loops, pollCancel, cancelFunc,
                 stops, mayStart>>

Next ==
  /\ \/ \E e \in Event : Enqueue(e)
     \/ Start
     \/ \E g \in Loop : CallerCancels(g) \/ LoopStep(g)
     \/ \E c \in Caller : StopBegins(c) \/ StopNoOp(c) \/ StopStep(c)
     \/ \E p \in pollers : PollTick(p) \/ PollSend(p) \/ PollExit(p)
  /\ UNCHANGED role

Spec == Init /\ [][Next]_vars
-----------------------------------------------------------------------------
(***************************************************************************)
(* Fairness: the goroutine of a loop keeps running and a callback ends,     *)
(* since every wait inside the handlers has a time limit; a Stop call goes  *)
(* on, and its time limit runs out even if the loop is busy and idle in     *)
(* turns.  Nothing is assumed of pollers, of senders or of the callers.     *)
(***************************************************************************)
FairSpec ==
  /\ Spec
  /\ \A c \in Caller : SF_vars(StopStep(c) /\ UNCHANGED role)
  /\ \A g \in 1..MaxStarts : WF_vars(g \in Loop /\ LoopStep(g) /\ UNCHANGED role)

-----------------------------------------------------------------------------
\* No poller leaks: one whose context is live belongs to the last set started,
\* which the next pause or stop will cancel.
PollersAreHeld == \A p \in pollers : ~p.cancelled => p.gen = pollCancel /\ ~pollsPaused

\* A run loop that outlives its Stop has had its context cancelled, as Stop says: it leaves
\* as soon as its callback returns.  A loop may escape only if it was started while an
\* earlier Stop was still under way, which drops whatever cancel function it finds.
OutlivedLoopIsCancelled ==
  \A g \in Loop :
    Alive(g) /\ ~loops[g].cancelled
      => \/ running /\ g = Len(loops)
         \/ \E c \in Caller : stops[c].pc # "out" /\ stops[c].loop = g
         \/ loops[g].beside

\* A message that arrives on a paused, running bus does restart the polls: the mark
\* of PausePolls that ResumePolls waits for is always set by then.
MessageResumesPolls ==
  [][\A g \in Loop : ResumePolls(g) /\ running => ~pollsPaused']_vars

\* Pausing on the run loop cannot freeze the bus: the pollers it waits for may be
\* blocked on the full channel that only this loop empties.
FullBefore(g) == g \in Loop /\ Alive(g) /\ Len(queue) = Capacity
FullQueueDrains == \A g \in 1..MaxStarts : FullBefore(g) ~> ~FullBefore(g)

\* Stop returns, whatever the run loop, its callback and the pollers do.
StopReturns == \A c \in Caller : stops[c].pc # "out" ~> stops[c].pc = "out"
=============================================================================
