--------------------------- MODULE WorkScheduler ---------------------------
(***************************************************************************)
(* The work scheduler of one chat session (session/work_scheduler.go): a    *)
(* lane that runs the session's work one piece at a time, the callers that  *)
(* submit work and wait for it, and the calls CancelHandles, CloseSession   *)
(* and Close.  A lane that CloseSession removed lives on until its          *)
(* operation returns, beside the lane that the next submission creates.     *)
(* What a call takes out under the lock it answers, or tells to stop, after *)
(* the unlock.  The maps of the scheduler are keyed by session and nothing  *)
(* else is shared between sessions, so one session is enough.               *)
(*                                                                          *)
(* The heap pops the latest chat first and everything else behind it in     *)
(* order of arrival: a chat is pushed at the head, other work at the end.   *)
(* Time limits are choices.  Bounds: MaxLanes lanes ever created.           *)
(***************************************************************************)
EXTENDS Naturals, Sequences, FiniteSets

CONSTANTS Work,        \* execution handles; each is submitted once
          Chat,        \* those whose kind is latest-first
          MaxGeneration, \* bound on the session generations that handles carry
          Closer,      \* goroutines that may call CloseSession
          MaxLanes,    \* bound on the lanes ever created
          NoWork

ASSUME SchedulerAssumption ==
  /\ Chat \subseteq Work /\ NoWork \notin Work
  /\ MaxLanes \in Nat /\ MaxGeneration \in Nat
  /\ Closer \cap 1..MaxLanes = {}

VARIABLES generation,  \* of each handle; set before it is submitted
          lanes,       \* every lane ever created: s.lanes and the removed ones
          registered,  \* s.lanes[session]: a position in lanes, or 0
          index,       \* queuedIndex[session]
          submitted,   \* work that SubmitAndWait pushed
          marked,      \* queuedWork.cancelled, of work that a processor may still meet
          gone,        \* unanswered work whose submitter stopped waiting
          result,      \* what was delivered to the submitter
          operation,   \* the operation of each piece of work
          interrupted, \* work whose context was cancelled
          cancels,     \* the CancelHandles call for each piece of work
          drained,     \* what takeQueuedLocked gave a closer, or a lane's processor,
                       \* that has not answered it yet
          closes,      \* the CloseSession call of each closer
          closed       \* s.closed

state == <<lanes, registered, index, submitted, marked, gone, result, operation,
           interrupted, cancels, drained, closes, closed>>
vars == <<generation, state>>

Lane == 1..Len(lanes)
Queued(l) == {lanes[l].queue[k] : k \in DOMAIN lanes[l].queue}
NotClosing == [pc |-> "out", lane |-> 0, task |-> NoWork, targets |-> {}, expired |-> FALSE]

LaneState == [gen : 1..MaxGeneration, queue : Seq(Work), current : Work \cup {NoWork},
              pc : {"waiting", "running", "leaving", "answering", "left"}]
CloseState == [pc : {"out", "answering", "telling", "waiting"}, lane : 0..MaxLanes,
               task : Work \cup {NoWork}, targets : SUBSET {"processor", "task"},
               expired : BOOLEAN]

TypeOK ==
  /\ generation \in [Work -> 1..MaxGeneration]
  /\ lanes \in Seq(LaneState)
  /\ Len(lanes) <= MaxLanes /\ registered \in 0..Len(lanes)
  /\ index \subseteq Work /\ submitted \subseteq Work /\ marked \subseteq Work
  /\ gone \subseteq Work /\ interrupted \subseteq Work
  /\ result \in [Work -> {"none", "value", "cancelled"}]
  /\ operation \in [Work -> {"never", "running", "ended"}]
  /\ cancels \in [Work -> {"out", "taken", "stopping"}]
  /\ drained \in [Closer \cup 1..MaxLanes -> SUBSET Work]
  /\ closes \in [Closer -> CloseState]
  /\ closed \in BOOLEAN

Init ==
  /\ generation \in [Work -> 1..MaxGeneration]
  /\ lanes = <<>> /\ registered = 0 /\ index = {} /\ submitted = {}
  /\ marked = {} /\ gone = {} /\ interrupted = {} /\ closed = FALSE
  /\ result = [w \in Work |-> "none"]
  /\ operation = [w \in Work |-> "never"]
  /\ cancels = [w \in Work |-> "out"]
  /\ drained = [o \in Closer \cup 1..MaxLanes |-> {}]
  /\ closes = [c \in Closer |-> NotClosing]

-----------------------------------------------------------------------------
\* The first delivery counts; later ones do nothing (resultOnce).
Deliver(S, answer) ==
  /\ result' = [w \in Work |-> IF w \in S /\ result[w] = "none" THEN answer ELSE result[w]]
  /\ gone' = gone \ S

Push(queue, w) == IF w \in Chat THEN <<w>> \o queue ELSE Append(queue, w)

\* A closed scheduler refuses, and so does a lane of another generation.
Admits(w) == ~closed /\ (registered # 0 => lanes[registered].gen = generation[w])

\* SubmitAndWait: pushes onto the session's lane, which it creates if there is none.
SubmitAndWait(w) ==
  /\ w \notin submitted /\ Admits(w)
  /\ submitted' = submitted \cup {w} /\ index' = index \cup {w}
  /\ IF registered # 0
     THEN /\ lanes' = [lanes EXCEPT ![registered].queue = Push(@, w)]
          /\ UNCHANGED registered
     ELSE /\ Len(lanes) < MaxLanes
          /\ lanes' = Append(lanes, [gen |-> generation[w], queue |-> <<w>>,
                                     current |-> NoWork, pc |-> "waiting"])
          /\ registered' = Len(lanes) + 1
  /\ UNCHANGED <<marked, gone, result, operation, interrupted, cancels, drained, closes, closed>>

\* The submitter's context ends; work still in the index will be skipped.
GiveUp(w) ==
  /\ w \in submitted \ gone /\ result[w] = "none"
  /\ gone' = gone \cup {w}
  /\ marked' = IF w \in index THEN marked \cup {w} ELSE marked
  /\ UNCHANGED <<lanes, registered, index, submitted, result, operation, interrupted,
                 cancels, drained, closes, closed>>

-----------------------------------------------------------------------------
\* The processor of lane l.

\* It takes the first item; cancelled work is dropped.
Take(l) ==
  /\ lanes[l].pc = "waiting" /\ registered = l /\ lanes[l].queue # <<>>
  /\ LET w == Head(lanes[l].queue)
     IN  /\ index' = index \ {w}
         /\ IF w \in marked
            THEN /\ lanes' = [lanes EXCEPT ![l].queue = Tail(@)]
                 /\ marked' = marked \ {w}
                 /\ UNCHANGED operation
            ELSE /\ lanes' = [lanes EXCEPT ![l].queue = Tail(@), ![l].current = w,
                                           ![l].pc = "running"]
                 /\ operation' = [operation EXCEPT ![w] = "running"]
                 /\ UNCHANGED marked
  /\ UNCHANGED <<registered, submitted, gone, result, interrupted, cancels, drained,
                 closes, closed>>

\* The operation returns and its result is delivered, on a goroutine of its own; its
\* context ends with it.
OperationEnds(w) ==
  /\ operation[w] = "running"
  /\ operation' = [operation EXCEPT ![w] = "ended"]
  /\ interrupted' = interrupted \ {w}
  /\ Deliver({w}, "value")
  /\ UNCHANGED <<lanes, registered, index, submitted, marked, cancels, drained,
                 closes, closed>>

Clear(l) ==
  /\ lanes[l].pc = "running" /\ operation[lanes[l].current] = "ended"
  /\ lanes' = [lanes EXCEPT ![l].current = NoWork, ![l].pc = "waiting"]
  /\ UNCHANGED <<registered, index, submitted, marked, gone, result, operation,
                 interrupted, cancels, drained, closes, closed>>

\* The lane is no longer the session's: the loop ends.
LoseLane(l) ==
  /\ lanes[l].pc = "waiting" /\ registered # l
  /\ lanes' = [lanes EXCEPT ![l].pc = "leaving"]
  /\ UNCHANGED <<registered, index, submitted, marked, gone, result, operation,
                 interrupted, cancels, drained, closes, closed>>

\* What takeQueuedLocked gives when lane r is the session's: the index, and the
\* queue of that lane.
Taken(r) == index \cup IF r = 0 THEN {} ELSE Queued(r)

\* Leaving, the processor takes all that is queued for the session, the work of a
\* lane that was created since then included...
Leave(l) ==
  /\ lanes[l].pc = "leaving"
  /\ index' = {} /\ marked' = marked \ Taken(registered)
  /\ drained' = [drained EXCEPT ![l] = @ \cup Taken(registered)]
  /\ lanes' = [k \in Lane |-> [lanes[k] EXCEPT !.pc = IF k = l THEN "answering" ELSE @,
                                               !.queue = IF k = registered THEN <<>> ELSE @]]
  /\ UNCHANGED <<registered, submitted, gone, result, operation, interrupted, cancels,
                 closes, closed>>

Emptied(o) == drained' = [drained EXCEPT ![o] = {}]

\* A bug: the work of the next lane was drained, and nobody is told.
LeaveSilently(l) ==
  /\ lanes[l].pc = "answering"
  /\ Emptied(l) /\ lanes' = [lanes EXCEPT ![l].pc = "left"]
  /\ UNCHANGED <<registered, index, submitted, marked, gone, result, operation, interrupted,
                 cancels, closes, closed>>

\* ...and cancels it after the unlock; then it closes its done channel.
LeaveAnswers(l) ==
  /\ lanes[l].pc = "answering"
  /\ Deliver(drained[l], "cancelled")
  /\ Emptied(l) /\ lanes' = [lanes EXCEPT ![l].pc = "left"]
  /\ UNCHANGED <<registered, index, submitted, marked, operation, interrupted, cancels,
                 closes, closed>>

Process(l) == Take(l) \/ Clear(l) \/ LoseLane(l) \/ Leave(l) \/ LeaveAnswers(l)

-----------------------------------------------------------------------------
\* CancelHandles for one piece of work.

\* It runs on the session's lane: the call finds its cancel function under the lock...
CancelRunning(w) ==
  /\ cancels[w] = "out" /\ registered # 0 /\ lanes[registered].current = w
  /\ cancels' = [cancels EXCEPT ![w] = "stopping"]
  /\ UNCHANGED <<lanes, registered, index, submitted, marked, gone, result, operation,
                 interrupted, drained, closes, closed>>

\* Cancelling the context of what has ended does nothing.
Interrupt(w) == interrupted' = interrupted \cup {v \in Work : v = w /\ operation[v] = "running"}

\* ...and calls it after it.  Then it waits, until the operation ends or the time limit
\* does, and changes nothing more.
CancelTells(w) ==
  /\ cancels[w] = "stopping" /\ Interrupt(w)
  /\ cancels' = [cancels EXCEPT ![w] = "out"]
  /\ UNCHANGED <<lanes, registered, index, submitted, marked, gone, result, operation,
                 drained, closes, closed>>

\* It is queued: it leaves the index under the lock...
CancelQueued(w) ==
  /\ cancels[w] = "out" /\ w \in index
  /\ index' = index \ {w}
  /\ cancels' = [cancels EXCEPT ![w] = "taken"]
  /\ UNCHANGED <<lanes, registered, submitted, marked, gone, result, operation,
                 interrupted, drained, closes, closed>>

\* ...and is marked and answered after it.
CancelAnswers(w) ==
  /\ cancels[w] = "taken"
  /\ marked' = IF registered # 0 /\ w \in Queued(registered) THEN marked \cup {w} ELSE marked
  /\ Deliver({w}, "cancelled")
  /\ cancels' = [cancels EXCEPT ![w] = "out"]
  /\ UNCHANGED <<lanes, registered, index, submitted, operation, interrupted, drained,
                 closes, closed>>

CancelHandles(w) ==
  CancelRunning(w) \/ CancelTells(w) \/ CancelQueued(w) \/ CancelAnswers(w)

-----------------------------------------------------------------------------
\* CloseSession.

\* Nobody reads the queue of a lane that left the map, nor the marks of its work.
Discard(l) == lanes' = [lanes EXCEPT ![l].queue = <<>>]

\* The lane leaves the map, and the call takes down whom it has to tell and to wait for.
Unregister(c) ==
  /\ closes[c].pc = "out" /\ registered # 0
  /\ LET w == lanes[registered].current
     IN  closes' = [closes EXCEPT ![c] =
           [pc |-> "answering", lane |-> registered, task |-> w, expired |-> FALSE,
            targets |-> {"processor"} \cup IF w = NoWork THEN {} ELSE {"task"}]]
  /\ registered' = 0 /\ Discard(registered)

\* A bug: what is queued on the removed lane is forgotten.
CloseBeginsForgets(c) ==
  /\ Unregister(c)
  /\ UNCHANGED <<index, submitted, marked, gone, result, operation, interrupted, cancels,
                 drained, closed>>

\* Under the lock the lane leaves the map, and the call takes what is in the index.
CloseBegins(c) ==
  /\ Unregister(c)
  /\ index' = {} /\ marked' = {}
  /\ drained' = [drained EXCEPT ![c] = @ \cup Taken(0)]
  /\ UNCHANGED <<submitted, gone, result, operation, interrupted, cancels, closed>>

Goes(c, from, to) ==
  closes[c].pc = from /\ closes' = [closes EXCEPT ![c].pc = to]

\* After it that is cancelled...
CloseAnswers(c) ==
  /\ Goes(c, "answering", "telling")
  /\ Deliver(drained[c], "cancelled") /\ Emptied(c)
  /\ UNCHANGED <<lanes, registered, index, submitted, marked, operation, interrupted,
                 cancels, closed>>

\* A bug: the running operation is not told.
CloseTellsNobody(c) ==
  /\ Goes(c, "telling", "waiting")
  /\ UNCHANGED <<lanes, registered, index, submitted, marked, gone, result, operation,
                 interrupted, cancels, drained, closed>>

\* ...and the operation that ran on the lane is told to stop.  Then the call waits for
\* the processor and for that operation.
CloseTells(c) ==
  /\ Goes(c, "telling", "waiting")
  /\ Interrupt(closes[c].task)
  /\ UNCHANGED <<lanes, registered, index, submitted, marked, gone, result, operation,
                 cancels, drained, closed>>

Ended(c, target) ==
  IF target = "processor" THEN lanes[closes[c].lane].pc = "left"
  ELSE operation[closes[c].task] = "ended"

CloseSees(c) ==
  /\ closes[c].pc = "waiting"
  /\ \E target \in closes[c].targets :
       /\ Ended(c, target)
       /\ closes' = [closes EXCEPT ![c].targets = @ \ {target}]
  /\ UNCHANGED <<lanes, registered, index, submitted, marked, gone, result, operation,
                 interrupted, cancels, drained, closed>>

\* The time limit is one channel for both waits, and gives its tick once.
CloseTimesOut(c) ==
  /\ closes[c].pc = "waiting" /\ ~closes[c].expired
  /\ \E target \in closes[c].targets :
       closes' = [closes EXCEPT ![c].targets = @ \ {target}, ![c].expired = TRUE]
  /\ UNCHANGED <<lanes, registered, index, submitted, marked, gone, result, operation,
                 interrupted, cancels, drained, closed>>

CloseReturns(c) ==
  /\ closes[c].pc = "waiting" /\ closes[c].targets = {}
  /\ closes' = [closes EXCEPT ![c] = NotClosing]
  /\ UNCHANGED <<lanes, registered, index, submitted, marked, gone, result, operation,
                 interrupted, cancels, drained, closed>>

CloseGoesOn(c) ==
  \/ CloseAnswers(c) \/ CloseTells(c)
  \/ CloseSees(c) \/ CloseTimesOut(c) \/ CloseReturns(c)

CloseSession(c) == CloseBegins(c) \/ CloseGoesOn(c)

\* Close refuses new work, then closes the sessions one by one.
Close ==
  /\ ~closed /\ closed' = TRUE
  /\ UNCHANGED <<lanes, registered, index, submitted, marked, gone, result, operation,
                 interrupted, cancels, drained, closes>>

Step ==
  \/ \E w \in Work : SubmitAndWait(w) \/ GiveUp(w) \/ OperationEnds(w) \/ CancelHandles(w)
  \/ \E l \in Lane : Process(l)
  \/ \E c \in Closer : CloseSession(c)
  \/ Close

Next == Step /\ UNCHANGED generation

Spec == Init /\ [][Next]_vars
-----------------------------------------------------------------------------
\* Goroutines that can go on do, and every operation returns in the end, which the
\* scheduler cannot enforce: Go cannot stop a goroutine that ignores its context.
FairSpec ==
  /\ Spec
  /\ \A l \in 1..MaxLanes : WF_vars(l \in Lane /\ Process(l) /\ UNCHANGED generation)
  /\ \A w \in Work : WF_vars(CancelAnswers(w) /\ UNCHANGED generation)
  /\ \A c \in Closer : WF_vars(CloseGoesOn(c) /\ UNCHANGED generation)
  /\ \A w \in Work : WF_vars(OperationEnds(w) /\ UNCHANGED generation)

Unanswered(w) == w \in submitted /\ result[w] = "none" /\ w \notin gone

InHand(w) == \E o \in DOMAIN drained : w \in drained[o]

\* Somebody will still answer this work: the session's own lane, the goroutine that
\* runs its operation, or a call or a leaving processor that has it in hand.
Held(w) ==
  \/ registered # 0 /\ w \in Queued(registered)
  \/ operation[w] = "running"
  \/ cancels[w] = "taken"
  \/ InHand(w)

\* No work is lost between the index, the queues of the lanes and the calls that
\* empty them, whichever of them runs in between.
NoWorkIsStranded == \A w \in Work : Unanswered(w) => Held(w)

\* The call has not come to its cancel function yet.
AboutToTell(c, w) == closes[c].pc \in {"answering", "telling"} /\ closes[c].task = w

\* An operation that runs on beside the session's lane was told to stop, or the CloseSession
\* that removed its lane is still on its way to tell it.
OutlivedWorkIsInterrupted ==
  \A l \in Lane, w \in Work :
    l # registered /\ lanes[l].current = w /\ operation[w] = "running"
      => w \in interrupted \/ \E c \in Closer : AboutToTell(c, w)

\* Whoever waits is answered, if the operations before its own return.
EveryWaiterIsAnswered == \A w \in Work : Unanswered(w) ~> ~Unanswered(w)
=============================================================================
