--------------------------- MODULE EventBusProofs ---------------------------
(***************************************************************************)
(* Theorems about EventBus, for channels of any capacity, any number of     *)
(* starts, pollers and goroutines in Stop.                                  *)
(***************************************************************************)
EXTENDS EventBus, SequenceTheorems, TLAPS

\* A bus that is not running has cancelled every poller it ever had.
StoppedHasNoPolls == ~running => \A p \in pollers : p.cancelled

\* Start leaves the mark of a pause as it is; it never meets one, because a bus that
\* can be paused is not started again.
StartMeetsNoPause == pollsPaused => role = "teammate" /\ Len(loops) # 0

\* A Stop remembers loops that were started.
LoopsAreKnown ==
  /\ Len(loops) <= MaxStarts
  /\ \A c \in Caller : stops[c].cancel <= Len(loops)

IInv ==
  /\ LoopsAreKnown
  /\ role \in {"leader", "teammate"} /\ TypeOK
  /\ PollersAreHeld /\ StoppedHasNoPolls /\ StartMeetsNoPause

PollerRec == [kind : PollKind, gen : 1..MaxPolls, loop : Nat,
              pc : {"ticking", "sending"}, cancelled : BOOLEAN]
LoopRec == [pc : {"idle", "received", "dispatching", "pausing", "exited"},
            event : Event \cup PollKind \cup {"none"}, cancelled : BOOLEAN,
            beside : BOOLEAN]

LEMMA InitIInv == Init => IInv
  <1> SUFFICES ASSUME Init PROVE IInv
    OBVIOUS
  <1> USE BusAssumption DEF Init
  <1>0. Capacity \in Nat /\ MaxStarts \in Nat /\ MaxPolls \in Nat
    OBVIOUS
  <1>1. queue \in Seq(Event \cup PollKind \cup {"shutdown"}) /\ Len(queue) = 0
    BY EmptySeq
  <1>4. loops \in Seq(LoopRec) /\ Len(loops) = 0
    BY EmptySeq
  <1>2. stops \in [Caller -> [pc : {"out", "polls", "loop", "forced", "clear"},
                             loop : 0..MaxStarts, cancel : 0..MaxStarts]]
    BY DEF Idle
  <1>3. TypeOK
    <2>1. pollers \subseteq PollerRec /\ pollCancel \in 0..MaxPolls /\ cancelFunc \in 0..Len(loops)
      BY <1>0, <1>4
    <2>2. Len(queue) <= Capacity
      BY <1>0, <1>1
    <2> QED
      BY <1>1, <1>2, <1>4, <2>1, <2>2, Zenon DEF TypeOK, LoopRec, PollerRec
  <1>5. LoopsAreKnown
    BY <1>0, <1>4 DEF LoopsAreKnown, Idle
  <1> QED
    BY <1>3, <1>5 DEF IInv, PollersAreHeld, StoppedHasNoPolls, StartMeetsNoPause

\* Cancelling keeps the pollers, and cancels those it is to cancel.
LEMMA CancelFacts ==
  ASSUME pollers \subseteq PollerRec, NEW S \in SUBSET pollers
  PROVE  /\ CancelPollers(S) \subseteq PollerRec
         /\ \A p \in CancelPollers(S) : ~p.cancelled => p \in pollers \ S
  BY DEF CancelPollers, PollerRec

\* The pollers started are of one set, and the cancel functions are theirs.
LEMMA StartFacts ==
  ASSUME TypeOK, NEW g \in Nat, StartPollTasks(g)
  PROVE  /\ pollers' \subseteq PollerRec /\ pollCancel' \in 0..MaxPolls
         /\ \A p \in pollers' : p \in pollers \/ p.gen = pollCancel'
  <1>1. PICK gen \in Unused :
          /\ pollers' = pollers \cup
               [kind : PollKind, gen : {gen}, loop : {g}, pc : {"ticking"},
                cancelled : {(g \in Loop) /\ loops[g].cancelled}]
          /\ pollCancel' = IF PollKind = {} THEN 0 ELSE gen
    BY DEF StartPollTasks
  <1>2. gen \in 1..MaxPolls
    BY DEF Unused
  <1>3. ((g \in Loop) /\ loops[g].cancelled) \in BOOLEAN
    OBVIOUS
  <1>4. \A p \in pollers' \ pollers : p.gen = gen /\ PollKind # {} /\ p \in PollerRec
    BY <1>1, <1>2, <1>3 DEF PollerRec
  <1> QED
    BY <1>1, <1>2, <1>4, BusAssumption DEF TypeOK, PollerRec

-----------------------------------------------------------------------------
(* Types.  A step changes the channel, the loops, the pollers and the rest   *)
(* separately; TypeParts puts the parts together.                            *)

QueueOK == queue \in Seq(Event \cup PollKind \cup {"shutdown"}) /\ Len(queue) <= Capacity
LoopsOK == loops \in Seq(LoopRec)
FlagsOK == /\ running \in BOOLEAN /\ pollsPaused \in BOOLEAN /\ pollsDone \in BOOLEAN
           /\ mayStart \in BOOLEAN
StopsOK == stops \in [Caller -> [pc : {"out", "polls", "loop", "forced", "clear"},
                                 loop : 0..MaxStarts, cancel : 0..MaxStarts]]
RestOK == pollers \subseteq PollerRec /\ pollCancel \in 0..MaxPolls
FuncOK == cancelFunc \in 0..Len(loops)

LEMMA TypeParts == TypeOK <=> QueueOK /\ LoopsOK /\ FlagsOK /\ StopsOK /\ RestOK /\ FuncOK
  BY Zenon DEF TypeOK, QueueOK, LoopsOK, FlagsOK, StopsOK, RestOK, FuncOK, PollerRec, LoopRec

LEMMA TypePartsNext ==
  TypeOK' <=> QueueOK' /\ LoopsOK' /\ FlagsOK' /\ StopsOK' /\ RestOK' /\ FuncOK'
  BY Zenon DEF TypeOK, QueueOK, LoopsOK, FlagsOK, StopsOK, RestOK, FuncOK, PollerRec, LoopRec

\* Putting a new record into one loop.
LEMMA LoopPut ==
  ASSUME LoopsOK, NEW g \in Loop, NEW new \in LoopRec, loops' = [loops EXCEPT ![g] = new],
         role' = role
  PROVE  LoopsOK' /\ Len(loops') = Len(loops) /\ Loop' = Loop
         /\ \A h \in Loop : loops'[h] = IF h = g THEN new ELSE loops[h]
  <1>1. Len(loops) \in Nat /\ DOMAIN loops = 1..Len(loops)
    BY LenProperties DEF LoopsOK
  <1>2. loops' \in Seq(LoopRec) /\ Len(loops') = Len(loops)
    BY ExceptSeq DEF LoopsOK, Loop
  <1>3. LoopRec' = LoopRec
    BY DEF LoopRec, Event
  <1> QED
    BY <1>1, <1>2, <1>3 DEF LoopsOK, Loop

LEMMA LoopIs ==
  ASSUME LoopsOK, NEW g \in Loop
  PROVE  loops[g] \in LoopRec
  BY ElementOfSeq DEF LoopsOK, Loop

LEMMA LoopGoesOK ==
  ASSUME LoopsOK, NEW g \in Loop, NEW e \in Event \cup PollKind \cup {"none"},
         NEW pc \in {"idle", "received", "dispatching", "pausing", "exited"},
         LoopGoes(g, pc, e), role' = role
  PROVE  LoopsOK' /\ Len(loops') = Len(loops)
  <1>1. loops[g] \in LoopRec
    BY LoopIs
  <1>2. [loops[g] EXCEPT !.pc = pc, !.event = e] \in LoopRec
    BY <1>1 DEF LoopRec
  <1>3. loops' = [loops EXCEPT ![g] = [loops[g] EXCEPT !.pc = pc, !.event = e]]
    BY DEF LoopGoes
  <1> QED
    BY <1>2, <1>3, LoopPut

LEMMA CancelLoopOK ==
  ASSUME LoopsOK, RestOK, NEW g \in Loop, CancelLoop(g), role' = role
  PROVE  /\ LoopsOK' /\ Len(loops') = Len(loops)
         /\ pollers' \subseteq PollerRec
         /\ \A p \in pollers' : ~p.cancelled => p \in pollers
  <1>1. loops[g] \in LoopRec
    BY LoopIs
  <1>2. [loops[g] EXCEPT !.cancelled = TRUE] \in LoopRec
    BY <1>1 DEF LoopRec
  <1>3. loops' = [loops EXCEPT ![g] = [loops[g] EXCEPT !.cancelled = TRUE]]
    BY DEF CancelLoop
  <1>4. LoopsOK' /\ Len(loops') = Len(loops)
    BY <1>2, <1>3, LoopPut
  <1>5. {p \in pollers : p.loop = g} \in SUBSET pollers
    OBVIOUS
  <1> QED
    BY <1>4, <1>5, CancelFacts DEF CancelLoop, RestOK

\* What a step leaves alone.
LEMMA Same ==
  ASSUME role' = role
  PROVE  /\ queue' = queue /\ QueueOK => QueueOK'
         /\ loops' = loops /\ LoopsOK => LoopsOK'
         /\ UNCHANGED <<running, pollsPaused, pollsDone, mayStart>> /\ FlagsOK => FlagsOK'
         /\ stops' = stops /\ StopsOK => StopsOK'
         /\ UNCHANGED <<pollers, pollCancel>> /\ RestOK => RestOK'
         /\ cancelFunc' = cancelFunc /\ Len(loops') = Len(loops) /\ FuncOK => FuncOK'
  BY DEF QueueOK, LoopsOK, FlagsOK, StopsOK, RestOK, FuncOK, LoopRec, PollerRec, Event

LEMMA SendOK ==
  ASSUME QueueOK, NEW e \in Event \cup PollKind \cup {"shutdown"}, Send(e), role' = role
  PROVE  QueueOK'
  <1>1. Append(queue, e) \in Seq(Event \cup PollKind \cup {"shutdown"})
        /\ Len(Append(queue, e)) = Len(queue) + 1
    BY AppendProperties DEF QueueOK
  <1>2. Capacity \in Nat /\ Len(queue) \in Nat
    BY BusAssumption, LenProperties DEF QueueOK
  <1> QED
    BY <1>1, <1>2 DEF QueueOK, Send, Event

\* The steps of the calls of Start and Stop.
LEMMA StopTypes ==
  ASSUME TypeOK, role' = role, NEW c \in Caller, StopBegins(c) \/ StopNoOp(c) \/ StopStep(c),
         LoopsAreKnown
  PROVE  TypeOK'
  <1>0. QueueOK /\ LoopsOK /\ FlagsOK /\ StopsOK /\ RestOK /\ FuncOK
    BY TypeParts
  <1>1. /\ Capacity \in Nat /\ MaxStarts \in Nat /\ MaxPolls \in Nat /\ Len(queue) \in Nat
        /\ Len(loops) \in Nat
    BY <1>0, BusAssumption, LenProperties DEF QueueOK, LoopsOK
  <1>2. CASE StopBegins(c)
    <2>1. QueueOK'
      <3>1. CASE Len(queue) < Capacity
        BY <1>0, <1>2, <3>1, SendOK DEF StopBegins, Send
      <3>2. CASE ~(Len(queue) < Capacity)
        BY <1>0, <1>2, <3>2, Same DEF StopBegins
      <3> QED
        BY <3>1, <3>2
    <2>2. LoopsOK' /\ FuncOK' /\ FlagsOK'
      BY <1>0, <1>2, Same DEF StopBegins, FlagsOK
    <2>3. StopsOK'
      BY <1>0, <1>1, <1>2 DEF StopBegins, StopsOK, FuncOK, LoopsAreKnown
    <2>4. RestOK'
      <3>1. {p \in pollers : p.gen = pollCancel} \in SUBSET pollers
        OBVIOUS
      <3>2. pollers' \subseteq PollerRec
        BY <1>0, <1>2, <3>1, CancelFacts DEF StopBegins, RestOK
      <3> QED
        BY <1>1, <1>2, <3>2 DEF StopBegins, RestOK, PollerRec
    <2> QED
      BY <2>1, <2>2, <2>3, <2>4, TypePartsNext
  <1>3. CASE StopNoOp(c)
    <2>1. QueueOK' /\ LoopsOK' /\ StopsOK' /\ RestOK' /\ FuncOK'
      BY <1>0, <1>3, Same DEF StopNoOp
    <2>2. FlagsOK'
      BY <1>0, <1>3 DEF StopNoOp, FlagsOK
    <2> QED
      BY <2>1, <2>2, TypePartsNext
  <1>4. CASE StopWaitsPolls(c) \/ StopSeesLoopExit(c) \/ StopGivesUp(c)
    <2>1. QueueOK' /\ LoopsOK' /\ FlagsOK' /\ RestOK' /\ FuncOK'
      BY <1>0, <1>4, Same DEF StopWaitsPolls, StopSeesLoopExit, StopGivesUp
    <2>2. StopsOK'
      BY <1>0, <1>4 DEF StopWaitsPolls, StopSeesLoopExit, StopGivesUp, StopsOK
    <2> QED
      BY <2>1, <2>2, TypePartsNext
  <1>5. CASE StopForces(c)
    <2>1. QueueOK' /\ FlagsOK'
      BY <1>0, <1>5, Same DEF StopForces
    <2>2. StopsOK'
      BY <1>0, <1>5 DEF StopForces, StopsOK
    <2>3. CASE stops[c].cancel = 0
      <3>1. LoopsOK' /\ RestOK' /\ FuncOK'
        BY <1>0, <1>5, <2>3, Same DEF StopForces
      <3> QED
        BY <2>1, <2>2, <3>1, TypePartsNext
    <2>4. CASE stops[c].cancel # 0
      <3>1. stops[c].cancel \in 0..MaxStarts
        BY <1>0 DEF StopsOK
      <3>2. CancelLoop(stops[c].cancel)
        BY <1>5, <2>4 DEF StopForces
      <3>3. stops[c].cancel \in Loop
        BY <1>1, <2>4, <3>1 DEF LoopsAreKnown, Loop
      <3>4. LoopsOK' /\ RestOK' /\ FuncOK'
        BY <1>0, <1>5, <3>2, <3>3, CancelLoopOK DEF StopForces, RestOK, FuncOK, PollerRec
      <3> QED
        BY <2>1, <2>2, <3>3, <3>4, TypePartsNext
    <2> QED
      BY <2>3, <2>4
  <1>6. CASE StopEnds(c)
    <2>1. QueueOK' /\ LoopsOK' /\ RestOK'
      BY <1>0, <1>6, Same DEF StopEnds
    <2>2. FlagsOK' /\ StopsOK' /\ FuncOK'
      BY <1>0, <1>1, <1>6 DEF StopEnds, FlagsOK, StopsOK, FuncOK, Idle
    <2> QED
      BY <2>1, <2>2, TypePartsNext
  <1> QED
    BY <1>2, <1>3, <1>4, <1>5, <1>6 DEF StopStep

\* The steps of a run loop.
LEMMA LoopTypes ==
  ASSUME TypeOK, role' = role, NEW g \in Loop, CallerCancels(g) \/ LoopStep(g)
  PROVE  TypeOK' /\ Len(loops') = Len(loops)
  <1>0. QueueOK /\ LoopsOK /\ FlagsOK /\ StopsOK /\ RestOK /\ FuncOK
    BY TypeParts
  <1>1. loops[g] \in LoopRec
    BY <1>0, LoopIs
  <1>2. CASE CallerCancels(g)
    <2>1. LoopsOK' /\ Len(loops') = Len(loops) /\ pollers' \subseteq PollerRec
      BY <1>0, <1>2, CancelLoopOK DEF CallerCancels
    <2>2. QueueOK' /\ FlagsOK' /\ StopsOK' /\ FuncOK'
      BY <1>0, <1>2, <2>1, Same DEF CallerCancels
    <2>3. RestOK'
      BY <1>0, <1>2, <2>1 DEF CallerCancels, RestOK, PollerRec
    <2> QED
      BY <2>1, <2>2, <2>3, TypePartsNext
  <1>3. CASE Receive(g)
    <2>1. /\ Head(queue) \in Event \cup PollKind \cup {"shutdown"}
          /\ Tail(queue) \in Seq(Event \cup PollKind \cup {"shutdown"})
          /\ Len(Tail(queue)) = Len(queue) - 1
      BY <1>0, <1>3, HeadTailProperties DEF Receive, QueueOK
    <2>2. QueueOK'
      <3>1. Len(queue) \in Nat /\ Capacity \in Nat
        BY <1>0, LenProperties, BusAssumption DEF QueueOK
      <3> QED
        BY <1>0, <1>3, <2>1, <3>1 DEF Receive, QueueOK, Event
    <2>3. LoopsOK' /\ Len(loops') = Len(loops)
      <3>1. CASE Head(queue) = "shutdown"
        BY <1>0, <1>3, <3>1, LoopGoesOK DEF Receive
      <3>2. CASE Head(queue) # "shutdown"
        BY <1>0, <1>3, <2>1, <3>2, LoopGoesOK DEF Receive
      <3> QED
        BY <3>1, <3>2
    <2>4. FlagsOK' /\ StopsOK' /\ RestOK' /\ FuncOK'
      BY <1>0, <1>3, <2>3, Same DEF Receive
    <2> QED
      BY <2>2, <2>3, <2>4, TypePartsNext
  <1>4. CASE LoopCancelled(g) \/ Dispatch(g) \/ DispatchEnds(g)
    <2>1. loops[g].event \in Event \cup PollKind \cup {"none"}
      BY <1>1 DEF LoopRec
    <2>2. LoopsOK' /\ Len(loops') = Len(loops)
      BY <1>0, <1>4, <2>1, LoopGoesOK DEF LoopCancelled, Dispatch, DispatchEnds
    <2>3. QueueOK' /\ FlagsOK' /\ StopsOK' /\ RestOK' /\ FuncOK'
      BY <1>0, <1>4, <2>2, Same DEF LoopCancelled, Dispatch, DispatchEnds
    <2> QED
      BY <2>2, <2>3, TypePartsNext
  <1>5. CASE ResumePolls(g)
    <2>1. LoopsOK' /\ Len(loops') = Len(loops)
      BY <1>0, <1>5, LoopGoesOK DEF ResumePolls
    <2>2. QueueOK' /\ StopsOK' /\ FuncOK'
      BY <1>0, <1>5, <2>1, Same DEF ResumePolls
    <2>3. FlagsOK'
      BY <1>0, <1>5 DEF ResumePolls, FlagsOK
    <2>4. RestOK'
      <3>1. CASE pollsPaused /\ running /\ pollsDone
        <4>1. g \in Nat /\ StartPollTasks(g)
          BY <1>5, <3>1 DEF ResumePolls, Loop
        <4> QED
          BY <4>1, StartFacts DEF RestOK, PollerRec
      <3>2. CASE ~(pollsPaused /\ running /\ pollsDone)
        BY <1>0, <1>5, <3>2, Same DEF ResumePolls
      <3> QED
        BY <3>1, <3>2
    <2> QED
      BY <2>1, <2>2, <2>3, <2>4, TypePartsNext
  <1>6. CASE PausePolls(g)
    <2>1. LoopsOK' /\ Len(loops') = Len(loops)
      BY <1>0, <1>6, LoopGoesOK DEF PausePolls
    <2>2. QueueOK' /\ StopsOK' /\ FuncOK'
      BY <1>0, <1>6, <2>1, Same DEF PausePolls
    <2>3. FlagsOK'
      BY <1>0, <1>6 DEF PausePolls, FlagsOK
    <2>4. RestOK'
      <3>1. CASE pollsPaused
        BY <1>0, <1>6, <3>1, Same DEF PausePolls
      <3>2. CASE ~pollsPaused
        <4>1. {p \in pollers : p.gen = pollCancel} \in SUBSET pollers
          OBVIOUS
        <4>2. pollers' \subseteq PollerRec /\ pollCancel' = 0
          BY <1>0, <1>6, <3>2, <4>1, CancelFacts DEF PausePolls, RestOK
        <4> QED
          BY <4>2, BusAssumption DEF RestOK, PollerRec
      <3> QED
        BY <3>1, <3>2
    <2> QED
      BY <2>1, <2>2, <2>3, <2>4, TypePartsNext
  <1>7. CASE PauseEnds(g)
    <2>1. LoopsOK' /\ Len(loops') = Len(loops)
      BY <1>0, <1>7, LoopGoesOK DEF PauseEnds
    <2>2. QueueOK' /\ StopsOK' /\ RestOK' /\ FuncOK'
      BY <1>0, <1>7, <2>1, Same DEF PauseEnds
    <2>3. FlagsOK'
      BY <1>0, <1>7 DEF PauseEnds, FlagsOK
    <2> QED
      BY <2>1, <2>2, <2>3, TypePartsNext
  <1> QED
    BY <1>2, <1>3, <1>4, <1>5, <1>6, <1>7 DEF LoopStep

\* Those of senders, of Start and of the pollers.
LEMMA OtherTypes ==
  ASSUME TypeOK, role' = role,
         \/ \E e \in Event : Enqueue(e)
         \/ Start
         \/ \E p \in pollers : PollTick(p) \/ PollSend(p) \/ PollExit(p)
  PROVE  TypeOK'
  <1>0. QueueOK /\ LoopsOK /\ FlagsOK /\ StopsOK /\ RestOK /\ FuncOK
    BY TypeParts
  <1>1. CASE \E e \in Event : Enqueue(e)
    <2>1. QueueOK'
      BY <1>0, <1>1, SendOK DEF Enqueue
    <2>2. LoopsOK' /\ FlagsOK' /\ StopsOK' /\ RestOK' /\ FuncOK'
      BY <1>0, <1>1, Same DEF Enqueue
    <2> QED
      BY <2>1, <2>2, TypePartsNext
  <1>2. CASE Start
    <2>1. Len(loops) \in Nat
      BY <1>0, LenProperties DEF LoopsOK
    <2>2. [pc |-> "idle", event |-> "none", cancelled |-> FALSE,
           beside |-> StopUnderWay] \in LoopRec
      BY DEF LoopRec, StopUnderWay
    <2>3. loops' \in Seq(LoopRec) /\ Len(loops') = Len(loops) + 1
      BY <1>0, <1>2, <2>2, AppendProperties DEF Start, LoopsOK
    <2>4. LoopsOK'
      BY <2>3 DEF LoopsOK, LoopRec, Event
    <2>5. FuncOK' /\ FlagsOK'
      <3>1. cancelFunc' = Len(loops) + 1
        BY <1>2 DEF Start
      <3>2. FuncOK'
        BY <2>1, <2>3, <3>1 DEF FuncOK
      <3> QED
        BY <1>0, <1>2, <3>2, Zenon DEF Start, FlagsOK
    <2>6. RestOK'
      BY <1>2, <2>1, StartFacts DEF Start, RestOK, PollerRec
    <2>7. QueueOK' /\ StopsOK'
      BY <1>0, <1>2, Same DEF Start
    <2> QED
      BY <2>4, <2>5, <2>6, <2>7, TypePartsNext
  <1>3. ASSUME NEW p \in pollers, PollTick(p) \/ PollSend(p) \/ PollExit(p)
        PROVE  TypeOK'
    <2>1. p \in PollerRec
      BY <1>0 DEF RestOK
    <2>2. [p EXCEPT !.pc = "sending"] \in PollerRec /\ [p EXCEPT !.pc = "ticking"] \in PollerRec
      BY <2>1 DEF PollerRec
    <2>3. RestOK'
      BY <1>0, <1>3, <2>2 DEF RestOK, PollTick, PollSend, PollExit, Becomes, PollerRec
    <2>4. LoopsOK' /\ FlagsOK' /\ StopsOK' /\ FuncOK'
      BY <1>0, <1>3, Same DEF PollTick, PollSend, PollExit
    <2>5. QueueOK'
      <3>1. CASE PollSend(p)
        <4>1. p.kind \in PollKind
          BY <2>1 DEF PollerRec
        <4> QED
          BY <1>0, <3>1, <4>1, SendOK DEF PollSend
      <3>2. CASE PollTick(p) \/ PollExit(p)
        BY <1>0, <3>2, Same DEF PollTick, PollExit
      <3> QED
        BY <1>3, <3>1, <3>2
    <2> QED
      BY <2>3, <2>4, <2>5, TypePartsNext
  <1> QED
    BY <1>1, <1>2, <1>3

LEMMA TypeStep == IInv /\ Next => TypeOK'
  <1> SUFFICES ASSUME IInv, Next PROVE TypeOK'
    OBVIOUS
  <1> QED
    BY StopTypes, LoopTypes, OtherTypes DEF IInv, Next

-----------------------------------------------------------------------------
\* No step forgets a loop, brings one back or takes a cancellation back.
LEMMA LoopsGoOn ==
  ASSUME TypeOK, LoopsAreKnown, Next
  PROVE  /\ Len(loops) \in Nat /\ Len(loops') \in Nat
         /\ Len(loops') = Len(loops) \/ (Start /\ Len(loops') = Len(loops) + 1)
         /\ \A g \in Loop : /\ loops'[g].cancelled = loops[g].cancelled \/ loops'[g].cancelled
                            /\ ~Alive(g) => loops'[g].pc = "exited"
                            /\ loops'[g].beside = loops[g].beside
  <1>0. LoopsOK /\ RestOK /\ StopsOK /\ role' = role
    BY TypeParts DEF Next
  <1>1. Len(loops) \in Nat /\ Loop = 1..Len(loops) /\ \A g \in Loop : loops[g] \in LoopRec
    BY <1>0, LenProperties, LoopIs DEF LoopsOK, Loop
  <1>2. CASE UNCHANGED loops
    BY <1>1, <1>2 DEF Alive
  <1>3. ASSUME NEW h \in Loop, CancelLoop(h)
        PROVE  /\ Len(loops') = Len(loops)
               /\ \A g \in Loop : /\ loops'[g].cancelled = loops[g].cancelled \/ loops'[g].cancelled
                                  /\ ~Alive(g) => loops'[g].pc = "exited"
                                  /\ loops'[g].beside = loops[g].beside
    <2>1. loops' = [loops EXCEPT ![h] = [loops[h] EXCEPT !.cancelled = TRUE]]
      BY <1>3 DEF CancelLoop
    <2>2. [loops[h] EXCEPT !.cancelled = TRUE] \in LoopRec
      BY <1>1 DEF LoopRec
    <2>3. Len(loops') = Len(loops)
          /\ \A g \in Loop : loops'[g] = IF g = h THEN [loops[h] EXCEPT !.cancelled = TRUE]
                                         ELSE loops[g]
      BY <1>0, <2>1, <2>2, LoopPut
    <2> QED
      BY <1>1, <2>3 DEF Alive, LoopRec
  <1>4. ASSUME NEW h \in Loop, NEW pc \in {"idle", "received", "dispatching", "pausing", "exited"},
               NEW e \in Event \cup PollKind \cup {"none"}, LoopGoes(h, pc, e), Alive(h)
        PROVE  /\ Len(loops') = Len(loops)
               /\ \A g \in Loop : /\ loops'[g].cancelled = loops[g].cancelled \/ loops'[g].cancelled
                                  /\ ~Alive(g) => loops'[g].pc = "exited"
                                  /\ loops'[g].beside = loops[g].beside
    <2>1. loops' = [loops EXCEPT ![h] = [loops[h] EXCEPT !.pc = pc, !.event = e]]
      BY <1>4 DEF LoopGoes
    <2>2. [loops[h] EXCEPT !.pc = pc, !.event = e] \in LoopRec
      BY <1>1 DEF LoopRec
    <2>3. Len(loops') = Len(loops)
          /\ \A g \in Loop : loops'[g] = IF g = h THEN [loops[h] EXCEPT !.pc = pc, !.event = e]
                                         ELSE loops[g]
      BY <1>0, <2>1, <2>2, LoopPut
    <2>4. loops[h] \in LoopRec /\ loops[h].pc # "exited"
      BY <1>1, <1>4 DEF Alive
    <2>5. /\ loops'[h].cancelled = loops[h].cancelled
          /\ loops'[h].beside = loops[h].beside
      BY <2>3, <2>4 DEF LoopRec
    <2>6. \A g \in Loop : g # h => loops'[g] = loops[g]
      BY <2>3
    <2> QED
      BY <1>4, <2>3, <2>5, <2>6 DEF Alive
  <1>5. CASE Start
    <2>1. [pc |-> "idle", event |-> "none", cancelled |-> FALSE,
           beside |-> StopUnderWay] \in LoopRec
      BY DEF LoopRec, StopUnderWay
    <2>2. Len(loops') = Len(loops) + 1 /\ \A g \in Loop : loops'[g] = loops[g]
      BY <1>0, <1>1, <1>5, <2>1, AppendProperties DEF Start, LoopsOK
    <2> QED
      BY <1>1, <1>5, <2>2 DEF Alive
  <1>6. ASSUME NEW g \in Loop, CallerCancels(g) \/ LoopStep(g)
        PROVE  \/ CancelLoop(g)
               \/ Alive(g) /\ \E pc \in {"idle", "received", "dispatching", "pausing", "exited"},
                                  e \in Event \cup PollKind \cup {"none"} : LoopGoes(g, pc, e)
    <2>1. loops[g].event \in Event \cup PollKind \cup {"none"}
      BY <1>1 DEF LoopRec
    <2>2. CASE CallerCancels(g)
      BY <2>2 DEF CallerCancels
    <2>3. CASE Receive(g)
      <3>1. Head(queue) \in Event \cup PollKind \cup {"shutdown"}
        BY <2>3, TypeParts, HeadTailProperties DEF Receive, QueueOK
      <3> QED
        BY <2>3, <3>1 DEF Receive, Alive
    <2>4. CASE LoopCancelled(g)
      BY <2>4 DEF LoopCancelled, Alive
    <2>5. CASE Dispatch(g)
      BY <2>1, <2>5 DEF Dispatch, Alive
    <2>6. CASE ResumePolls(g)
      BY <2>6 DEF ResumePolls, Alive
    <2>7. CASE PausePolls(g)
      BY <2>7 DEF PausePolls, Alive
    <2>8. CASE PauseEnds(g)
      BY <2>8 DEF PauseEnds, Alive
    <2>9. CASE DispatchEnds(g)
      BY <2>9 DEF DispatchEnds, Alive
    <2> QED
      BY <1>6, <2>2, <2>3, <2>4, <2>5, <2>6, <2>7, <2>8, <2>9 DEF LoopStep
  <1>7. ASSUME NEW c \in Caller, StopBegins(c) \/ StopNoOp(c) \/ StopStep(c)
        PROVE  UNCHANGED loops \/ \E g \in Loop : CancelLoop(g)
    <2>1. stops[c].cancel \in 0..MaxStarts /\ stops[c].cancel <= Len(loops)
      BY <1>0 DEF StopsOK, LoopsAreKnown
    <2>2. stops[c].cancel = 0 \/ stops[c].cancel \in Loop
      BY <1>1, <2>1, BusAssumption
    <2> QED
      BY <1>7, <2>2 DEF StopBegins, StopNoOp, StopStep, StopWaitsPolls, StopSeesLoopExit,
                        StopForces, StopGivesUp, StopEnds
  <1>8. CASE (\E e \in Event : Enqueue(e))
             \/ \E p \in pollers : PollTick(p) \/ PollSend(p) \/ PollExit(p)
    BY <1>2, <1>8 DEF Enqueue, PollTick, PollSend, PollExit
  <1>9. CASE \E g \in Loop : CallerCancels(g) \/ LoopStep(g)
    BY <1>1, <1>3, <1>4, <1>6, <1>9
  <1>10. CASE \E c \in Caller : StopBegins(c) \/ StopNoOp(c) \/ StopStep(c)
    BY <1>1, <1>2, <1>3, <1>7, <1>10
  <1> QED
    BY <1>5, <1>8, <1>9, <1>10 DEF Next

LEMMA KnownStep == IInv /\ Next => LoopsAreKnown'
  <1> SUFFICES ASSUME IInv, Next PROVE LoopsAreKnown'
    OBVIOUS
  <1>1. TypeOK /\ LoopsAreKnown /\ StopsOK /\ FuncOK
    BY TypeParts DEF IInv
  <1>2. /\ Len(loops) \in Nat /\ Len(loops') \in Nat
        /\ Len(loops') = Len(loops) \/ (Start /\ Len(loops') = Len(loops) + 1)
    BY <1>1, LoopsGoOn
  <1>3. MaxStarts \in Nat /\ MaxStarts > 0
    BY BusAssumption
  <1>4. Len(loops') <= MaxStarts
    <2>1. Start => Len(loops) < MaxStarts
      BY <1>2, <1>3 DEF Start, Starts
    <2> QED
      BY <1>1, <1>2, <1>3, <2>1 DEF LoopsAreKnown
  <1>5. ASSUME NEW d \in Caller PROVE stops'[d].cancel <= Len(loops)
    <2>1. stops[d].cancel <= Len(loops) /\ 0 <= Len(loops) /\ cancelFunc <= Len(loops)
      BY <1>1, <1>2 DEF LoopsAreKnown, FuncOK
    <2>2. stops'[d].cancel \in {stops[d].cancel, cancelFunc, 0}
      <3>1. CASE UNCHANGED stops
        BY <3>1
      <3>2. ASSUME NEW c \in Caller, StopBegins(c) \/ StopStep(c)
            PROVE  stops'[d].cancel \in {stops[d].cancel, cancelFunc, 0}
        <4>1. ASSUME NEW st, stops' = [stops EXCEPT ![c] = st],
                     st.cancel \in {stops[c].cancel, cancelFunc, 0}
              PROVE  stops'[d].cancel \in {stops[d].cancel, cancelFunc, 0}
          BY <1>1, <4>1 DEF StopsOK
        <4>2. CASE StopBegins(c)
          <5>1. PICK st : st = [pc |-> "polls", loop |-> Len(loops), cancel |-> cancelFunc]
            OBVIOUS
          <5>2. stops' = [stops EXCEPT ![c] = st]
            BY <4>2, <5>1, Zenon DEF StopBegins
          <5> QED
            BY <4>1, <5>1, <5>2
        <4>3. CASE StopEnds(c)
          <5>1. PICK st : st = Idle
            OBVIOUS
          <5>2. stops' = [stops EXCEPT ![c] = st] /\ st.cancel = 0
            BY <4>3, <5>1 DEF StopEnds, Idle
          <5> QED
            BY <4>1, <5>2
        <4>4. CASE StopStep(c) /\ ~ StopEnds(c)
          <5>1. PICK pc : stops' = [stops EXCEPT ![c].pc = pc]
            BY <4>4 DEF StopStep, StopWaitsPolls, StopSeesLoopExit, StopForces, StopGivesUp
          <5>2. PICK st : st = [stops[c] EXCEPT !.pc = pc]
            OBVIOUS
          <5>3. st.cancel = stops[c].cancel
            BY <1>1, <5>2 DEF StopsOK
          <5> QED
            BY <4>1, <5>1, <5>2, <5>3
        <4> QED
          BY <3>2, <4>2, <4>3, <4>4
      <3> QED
        BY <3>1, <3>2 DEF Next, Enqueue, Start, CallerCancels, LoopStep, Receive, LoopCancelled,
              Dispatch, ResumePolls, PausePolls, PauseEnds, DispatchEnds, StopNoOp, PollTick,
              PollSend, PollExit
    <2> QED
      BY <2>1, <2>2
  <1>6. \A d \in Caller : stops'[d].cancel \in Int
    BY TypeStep, TypePartsNext DEF StopsOK
  <1> QED
    BY <1>2, <1>4, <1>5, <1>6 DEF LoopsAreKnown

-----------------------------------------------------------------------------
(* The pollers.  A pause and a stop cancel the set that the cancel functions *)
(* know, which holds every live poller; a new set is started only when no    *)
(* poller is live.                                                           *)

PollParts == PollersAreHeld /\ StoppedHasNoPolls /\ StartMeetsNoPause

\* A step that neither starts pollers nor touches the flags.
LEMMA PollFrame ==
  ASSUME PollParts, UNCHANGED <<running, pollsPaused, pollCancel, role>>,
         Len(loops) \in Nat, Len(loops') \in Nat, Len(loops') >= Len(loops),
         \A p \in pollers' : ~p.cancelled => \E q \in pollers : ~q.cancelled /\ q.gen = p.gen
  PROVE  PollParts'
  BY DEF PollParts, PollersAreHeld, StoppedHasNoPolls, StartMeetsNoPause

LEMMA PollStep == IInv /\ Next => PollParts'
  <1> SUFFICES ASSUME IInv, Next PROVE PollParts'
    OBVIOUS
  <1>1. /\ TypeOK /\ LoopsAreKnown /\ PollParts /\ LoopsOK /\ RestOK /\ StopsOK
        /\ FlagsOK /\ role' = role
    BY TypeParts DEF IInv, PollParts, Next
  <1>2. /\ Len(loops) \in Nat /\ Len(loops') \in Nat /\ Len(loops') >= Len(loops)
    BY <1>1, LoopsGoOn
  <1>3. ASSUME UNCHANGED <<running, pollsPaused, pollers, pollCancel>> PROVE PollParts'
    BY <1>1, <1>2, <1>3, PollFrame
  <1>4. ASSUME NEW g \in Loop, CancelLoop(g), UNCHANGED <<running, pollsPaused, pollCancel>>
        PROVE  PollParts'
    <2>1. \A p \in pollers' : ~p.cancelled => p \in pollers
      BY <1>1, <1>4, CancelLoopOK
    <2> QED
      BY <1>1, <1>2, <1>4, <2>1, PollFrame
  <1>5. {p \in pollers : p.gen = pollCancel} \in SUBSET pollers
    OBVIOUS
  \* What is left of the pollers when the known set is cancelled.
  <1>6. ASSUME pollers' = CancelPollers({p \in pollers : p.gen = pollCancel})
        PROVE  \A p \in pollers' : p.cancelled
    <2>1. \A p \in pollers' : ~p.cancelled => p \in pollers /\ p.gen # pollCancel
      BY <1>1, <1>5, <1>6, CancelFacts DEF RestOK
    <2> QED
      BY <1>1, <2>1 DEF PollParts, PollersAreHeld
  <1>7. CASE Start
    <2>1. Len(loops) < Starts /\ ~running /\ running' = TRUE /\ pollsPaused' = pollsPaused
          /\ StartPollTasks(Len(loops) + 1)
      BY <1>7 DEF Start
    <2>2. ~pollsPaused
      BY <1>1, <1>2, <2>1 DEF PollParts, StartMeetsNoPause, Starts
    <2>3. \A p \in pollers' : p \in pollers \/ p.gen = pollCancel'
      BY <1>1, <1>2, <2>1, StartFacts
    <2>4. \A p \in pollers : p.cancelled
      BY <1>1, <2>1 DEF PollParts, StoppedHasNoPolls
    <2> QED
      BY <2>1, <2>2, <2>3, <2>4 DEF PollParts, PollersAreHeld, StoppedHasNoPolls, StartMeetsNoPause
  <1>8. ASSUME NEW c \in Caller, StopBegins(c) PROVE PollParts'
    <2>1. \A p \in pollers' : p.cancelled
      BY <1>6, <1>8 DEF StopBegins
    <2> QED
      BY <1>8, <2>1 DEF StopBegins, PollParts, PollersAreHeld, StoppedHasNoPolls, StartMeetsNoPause
  <1>9. ASSUME NEW c \in Caller, StopNoOp(c) \/ StopStep(c) PROVE PollParts'
    <2>1. CASE StopForces(c) /\ stops[c].cancel # 0
      <3>1. stops[c].cancel \in 0..MaxStarts /\ stops[c].cancel <= Len(loops)
        BY <1>1 DEF StopsOK, LoopsAreKnown
      <3>2. stops[c].cancel \in Loop
        BY <1>2, <2>1, <3>1, BusAssumption DEF Loop
      <3> QED
        BY <1>4, <2>1, <3>2 DEF StopForces
    <2>2. CASE ~(StopForces(c) /\ stops[c].cancel # 0)
      BY <1>3, <1>9, <2>2 DEF StopNoOp, StopStep, StopWaitsPolls, StopSeesLoopExit,
                              StopForces, StopGivesUp, StopEnds
    <2> QED
      BY <2>1, <2>2
  <1>10. ASSUME NEW g \in Loop, ResumePolls(g) PROVE PollParts'
    <2>1. CASE pollsPaused /\ running /\ pollsDone
      <3>1. StartPollTasks(g) /\ pollsPaused' = FALSE /\ running' = running
        BY <1>10, <2>1 DEF ResumePolls
      <3>2. \A p \in pollers' : p \in pollers \/ p.gen = pollCancel'
        BY <1>1, <1>2, <3>1, StartFacts DEF Loop
      <3>3. \A p \in pollers : p.cancelled
        BY <1>1, <2>1 DEF PollParts, PollersAreHeld
      <3> QED
        BY <2>1, <3>1, <3>2, <3>3 DEF PollParts, PollersAreHeld, StoppedHasNoPolls, StartMeetsNoPause
    <2>2. CASE ~(pollsPaused /\ running /\ pollsDone)
      BY <1>3, <1>10, <2>2 DEF ResumePolls
    <2> QED
      BY <2>1, <2>2
  <1>11. ASSUME NEW g \in Loop, PausePolls(g) PROVE PollParts'
    <2>1. CASE pollsPaused
      BY <1>3, <1>11, <2>1 DEF PausePolls
    <2>2. CASE ~pollsPaused
      <3>1. pollers' = CancelPollers({p \in pollers : p.gen = pollCancel})
        BY <1>11, <2>2 DEF PausePolls
      <3>2. \A p \in pollers' : p.cancelled
        BY <1>6, <3>1
      <3>3. role = "teammate"
        <4>1. "standby" \in Event \cup PollKind \cup {"none"}
          BY <1>1, <1>11, LoopIs DEF PausePolls, LoopRec
        <4>2. "standby" \in Event
          BY <4>1, BusAssumption
        <4> QED
          BY <4>2 DEF Event, IInv
      <3>4. Len(loops') # 0
        BY <1>2 DEF Loop
      <3> QED
        BY <1>1, <3>2, <3>3, <3>4
           DEF PollParts, PollersAreHeld, StoppedHasNoPolls, StartMeetsNoPause
    <2> QED
      BY <2>1, <2>2
  <1>12. ASSUME NEW g \in Loop, CallerCancels(g) PROVE PollParts'
    BY <1>4, <1>12 DEF CallerCancels
  <1>13. ASSUME NEW g \in Loop,
                Receive(g) \/ LoopCancelled(g) \/ Dispatch(g) \/ PauseEnds(g) \/ DispatchEnds(g)
         PROVE  PollParts'
    BY <1>3, <1>13 DEF Receive, LoopCancelled, Dispatch, PauseEnds, DispatchEnds
  <1>14. ASSUME NEW p \in pollers, PollTick(p) \/ PollSend(p) \/ PollExit(p) PROVE PollParts'
    <2>1. p \in PollerRec
      BY <1>1 DEF RestOK
    <2>2. /\ [p EXCEPT !.pc = "sending"].gen = p.gen
          /\ [p EXCEPT !.pc = "sending"].cancelled = p.cancelled
          /\ [p EXCEPT !.pc = "ticking"].gen = p.gen
          /\ [p EXCEPT !.pc = "ticking"].cancelled = p.cancelled
      BY <2>1 DEF PollerRec
    <2>3. \A q \in pollers' : ~q.cancelled => \E r \in pollers : ~r.cancelled /\ r.gen = q.gen
      BY <1>14, <2>2 DEF PollTick, PollSend, PollExit, Becomes
    <2>4. UNCHANGED <<running, pollsPaused, pollCancel>>
      BY <1>14 DEF PollTick, PollSend, PollExit
    <2> QED
      BY <1>1, <1>2, <2>3, <2>4, PollFrame
  <1>15. CASE \E e \in Event : Enqueue(e)
    BY <1>3, <1>15 DEF Enqueue
  <1> QED
    BY <1>7, <1>8, <1>9, <1>10, <1>11, <1>12, <1>13, <1>14, <1>15 DEF Next, LoopStep

-----------------------------------------------------------------------------
\* The inductive invariant holds in every reachable state.
THEOREM BusInvariant == Spec => []IInv
  <1>1. IInv /\ [Next]_vars => IInv'
    <2>1. IInv /\ Next => IInv'
      BY TypeStep, KnownStep, PollStep DEF IInv, PollParts, Next
    <2>2. IInv /\ UNCHANGED vars => IInv'
      BY DEF IInv, vars, LoopsAreKnown, TypeOK, PollersAreHeld, StoppedHasNoPolls,
             StartMeetsNoPause, Event
    <2> QED
      BY <2>1, <2>2
  <1> QED
    BY <1>1, InitIInv, PTL DEF Spec

\* The bus keeps its types, with channels, starts and goroutines without number.
THEOREM TypeCorrect == Spec => []TypeOK
  BY BusInvariant, PTL DEF IInv

\* No poller leaks (event_bus.go, PausePolls, ResumePolls, Start and Stop): a live one
\* is always of the set that the next pause or stop cancels.
THEOREM PollersStayHeld == Spec => []PollersAreHeld
  BY BusInvariant, PTL DEF IInv

-----------------------------------------------------------------------------
(* Stop and Start may overlap.  The cancel function of a loop is lost only to *)
(* a Stop that was under way when the loop was started.                       *)

\* A loop that leaves, or will as soon as it is idle.
Leaving(g) == ~Alive(g) \/ loops[g].cancelled

\* While the bus runs, the cancel function is the last loop's, and no Stop is under way
\* to clear it.
RunningIsHeld ==
  running => /\ Len(loops) # 0
             /\ \/ loops[Len(loops)].beside
                \/ cancelFunc = Len(loops) /\ ~StopUnderWay

\* A Stop holds the cancel function of its loop, and has used it before it gives up.
StopHolds(c) ==
  stops[c].pc # "out" =>
    /\ stops[c].loop \in Loop
    /\ \/ loops[stops[c].loop].beside
       \/ /\ stops[c].cancel = stops[c].loop
          /\ stops[c].pc \in {"forced", "clear"} => Leaving(stops[c].loop)

StopInv == RunningIsHeld /\ \A c \in Caller : StopHolds(c)

AllInv == IInv /\ StopInv /\ OutlivedLoopIsCancelled

\* A step that leaves the calls, the flags and the number of loops as they are.
LEMMA StopFrame ==
  ASSUME AllInv, Next, UNCHANGED <<running, cancelFunc, stops>>, Len(loops') = Len(loops)
  PROVE  (StopInv /\ OutlivedLoopIsCancelled)'
  <1>1. /\ Len(loops) \in Nat /\ Loop = 1..Len(loops) /\ Loop' = Loop
        /\ \A g \in Loop : (Leaving(g) => Leaving(g)') /\ loops'[g].beside = loops[g].beside
    BY LoopsGoOn DEF AllInv, IInv, Loop, Leaving, Alive
  <1>2. RunningIsHeld'
    BY <1>1 DEF AllInv, StopInv, RunningIsHeld, StopUnderWay
  <1>3. \A c \in Caller : StopHolds(c)'
    BY <1>1 DEF AllInv, StopInv, StopHolds
  <1>4. OutlivedLoopIsCancelled'
    BY <1>1 DEF AllInv, OutlivedLoopIsCancelled, Leaving
  <1> QED
    BY <1>2, <1>3, <1>4 DEF StopInv

LEMMA StopInvStep ==
  ASSUME AllInv, Next
  PROVE  (StopInv /\ OutlivedLoopIsCancelled)'
  <1>1. /\ TypeOK /\ LoopsAreKnown /\ LoopsOK /\ StopsOK /\ RestOK /\ FuncOK
        /\ StopInv /\ OutlivedLoopIsCancelled /\ role' = role
    BY TypeParts DEF AllInv, IInv, Next
  <1>2. /\ Len(loops) \in Nat /\ Loop = 1..Len(loops)
        /\ Len(loops') = Len(loops) \/ (Start /\ Len(loops') = Len(loops) + 1)
        /\ \A g \in Loop : (Leaving(g) => Leaving(g)') /\ loops'[g].beside = loops[g].beside
    BY <1>1, LoopsGoOn DEF Loop, Leaving, Alive
  <1>3. CASE Start
    <2>1. /\ ~running /\ running' = TRUE /\ stops' = stops /\ cancelFunc' = Len(loops) + 1
          /\ loops' = Append(loops, [pc |-> "idle", event |-> "none", cancelled |-> FALSE,
                                     beside |-> StopUnderWay])
      BY <1>3 DEF Start
    <2>2. [pc |-> "idle", event |-> "none", cancelled |-> FALSE,
           beside |-> StopUnderWay] \in LoopRec
      BY DEF LoopRec, StopUnderWay
    <2>3. /\ Len(loops') = Len(loops) + 1
          /\ loops'[Len(loops) + 1] = [pc |-> "idle", event |-> "none", cancelled |-> FALSE,
                                       beside |-> StopUnderWay]
      BY <1>1, <2>1, <2>2, AppendProperties DEF LoopsOK
    <2>4. RunningIsHeld'
      BY <1>2, <2>1, <2>3 DEF RunningIsHeld, StopUnderWay
    <2>5. \A c \in Caller : StopHolds(c)'
      BY <1>1, <1>2, <2>1, <2>3 DEF StopInv, StopHolds, Loop
    <2>6. OutlivedLoopIsCancelled'
      <3>1. ASSUME NEW g \in Loop, Alive(g)', ~loops'[g].cancelled
            PROVE  \/ \E c \in Caller : stops'[c].pc # "out" /\ stops'[c].loop = g
                   \/ loops'[g].beside
        BY <1>1, <1>2, <2>1, <3>1 DEF OutlivedLoopIsCancelled, Leaving, Alive
      <3>2. \A g \in Loop' : g \in Loop \/ g = Len(loops')
        BY <1>2, <2>3 DEF Loop
      <3> QED
        BY <2>1, <3>1, <3>2 DEF OutlivedLoopIsCancelled
    <2> QED
      BY <2>4, <2>5, <2>6 DEF StopInv
  <1>4. CASE \/ \E e \in Event : Enqueue(e)
             \/ \E p \in pollers : PollTick(p) \/ PollSend(p) \/ PollExit(p)
    BY <1>4, StopFrame DEF Enqueue, PollTick, PollSend, PollExit
  <1>5. ASSUME NEW g \in Loop, CallerCancels(g) \/ LoopStep(g)
        PROVE  (StopInv /\ OutlivedLoopIsCancelled)'
    <2>1. Len(loops') = Len(loops)
      BY <1>1, <1>5, LoopTypes
    <2>2. UNCHANGED <<running, cancelFunc, stops>>
      BY <1>5 DEF CallerCancels, LoopStep, Receive, LoopCancelled, Dispatch, ResumePolls,
                  PausePolls, PauseEnds, DispatchEnds
    <2> QED
      BY <2>1, <2>2, StopFrame
  <1>6. ASSUME NEW c \in Caller, StopBegins(c)
        PROVE  (StopInv /\ OutlivedLoopIsCancelled)'
    <2>1. /\ running /\ running' = FALSE /\ UNCHANGED <<loops, cancelFunc>>
          /\ stops[c].pc = "out" /\ Len(loops) # 0 /\ Len(loops) \in Loop
          /\ loops[Len(loops)].beside \/ cancelFunc = Len(loops)
      BY <1>1, <1>2, <1>6 DEF StopBegins, StopInv, RunningIsHeld
    <2>2. /\ stops'[c] = [pc |-> "polls", loop |-> Len(loops), cancel |-> cancelFunc]
          /\ \A d \in Caller : d # c => stops'[d] = stops[d]
      BY <1>1, <1>6 DEF StopBegins, StopsOK
    <2>3. \A d \in Caller : StopHolds(d)'
      BY <1>1, <2>1, <2>2 DEF StopInv, StopHolds, Loop, Leaving, Alive
    <2>4. OutlivedLoopIsCancelled'
      BY <1>1, <2>1, <2>2 DEF OutlivedLoopIsCancelled, Loop, Alive
    <2> QED
      BY <2>1, <2>3, <2>4 DEF StopInv, RunningIsHeld
  <1>7. ASSUME NEW c \in Caller, StopNoOp(c)
        PROVE  (StopInv /\ OutlivedLoopIsCancelled)'
    BY <1>7, StopFrame DEF StopNoOp
  <1>8. ASSUME NEW c \in Caller, StopStep(c)
        PROVE  (StopInv /\ OutlivedLoopIsCancelled)'
    <2>1. /\ stops[c].pc # "out" /\ running' = running
          /\ stops[c] \in [pc : {"out", "polls", "loop", "forced", "clear"},
                           loop : 0..MaxStarts, cancel : 0..MaxStarts]
      BY <1>1, <1>8 DEF StopsOK, StopStep, StopWaitsPolls, StopSeesLoopExit, StopForces,
                        StopGivesUp, StopEnds
    <2>2. StopHolds(c) /\ stops[c].loop \in Loop
      BY <1>1, <2>1 DEF StopInv, StopHolds
    <2>3. Len(loops') = Len(loops) /\ Loop' = Loop
      <3>1. UNCHANGED loops \/ CancelLoop(stops[c].cancel)
        BY <1>8 DEF StopStep, StopWaitsPolls, StopSeesLoopExit, StopForces, StopGivesUp, StopEnds
      <3>2. CASE UNCHANGED loops
        BY <3>2 DEF Loop
      <3>3. CASE StopForces(c) /\ stops[c].cancel # 0
        <4>1. stops[c].cancel \in Loop
          BY <1>1, <1>2, <2>1, <3>3, BusAssumption DEF LoopsAreKnown
        <4> QED
          BY <1>1, <3>3, <4>1, CancelLoopOK DEF StopForces, Loop
      <3> QED
        BY <1>8, <3>2, <3>3 DEF StopStep, StopWaitsPolls, StopSeesLoopExit, StopForces,
                                StopGivesUp, StopEnds
    <2>4. RunningIsHeld'
      BY <1>1, <1>2, <2>1, <2>3 DEF StopInv, RunningIsHeld, StopUnderWay
    <2>5. CASE StopWaitsPolls(c) \/ StopSeesLoopExit(c) \/ StopGivesUp(c) \/ StopForces(c)
      <3>1. /\ stops'[c].pc \in {"loop", "forced", "clear"}
            /\ stops'[c].loop = stops[c].loop /\ stops'[c].cancel = stops[c].cancel
            /\ \A d \in Caller : d # c => stops'[d] = stops[d]
        BY <1>1, <2>1, <2>5 DEF StopsOK, StopWaitsPolls, StopSeesLoopExit, StopGivesUp, StopForces
      <3>2. \/ loops'[stops[c].loop].beside
            \/ /\ stops[c].cancel = stops[c].loop
               /\ stops'[c].pc \in {"forced", "clear"} => Leaving(stops[c].loop)'
        <4>1. CASE StopWaitsPolls(c)
          BY <1>1, <1>2, <2>1, <2>2, <4>1 DEF StopWaitsPolls, StopsOK, StopHolds
        <4>2. CASE StopSeesLoopExit(c)
          BY <1>2, <2>1, <2>2, <4>2 DEF StopSeesLoopExit, StopHolds, Leaving
        <4>3. CASE StopGivesUp(c)
          BY <1>2, <2>1, <2>2, <4>3 DEF StopGivesUp, StopHolds
        <4>4. CASE StopForces(c)
          <5>1. CASE loops[stops[c].loop].beside
            BY <1>2, <2>2, <5>1
          <5>2. CASE ~loops[stops[c].loop].beside
            <6>1. stops[c].cancel = stops[c].loop /\ stops[c].cancel # 0
              BY <1>2, <2>1, <2>2, <5>2 DEF StopHolds
            <6>2. loops' = [loops EXCEPT ![stops[c].loop].cancelled = TRUE]
              BY <4>4, <6>1 DEF StopForces, CancelLoop
            <6>3. loops[stops[c].loop] \in LoopRec /\ stops[c].loop \in DOMAIN loops
              BY <1>1, <1>2, <2>2, LoopIs, LenProperties DEF LoopsOK
            <6>4. loops'[stops[c].loop].cancelled
              BY <6>2, <6>3 DEF LoopRec
            <6>5. Leaving(stops[c].loop)'
              BY <3>1, <6>4 DEF Leaving
            <6> QED
              BY <6>1, <6>5
          <5> QED
            BY <5>1, <5>2
        <4> QED
          BY <2>5, <4>1, <4>2, <4>3, <4>4
      <3>3. \A d \in Caller : StopHolds(d)'
        <4>1. StopHolds(c)'
          BY <2>2, <2>3, <3>1, <3>2 DEF StopHolds
        <4>2. ASSUME NEW d \in Caller, d # c PROVE StopHolds(d)'
          BY <1>1, <1>2, <2>3, <3>1, <4>2 DEF StopInv, StopHolds
        <4> QED
          BY <4>1, <4>2
      <3>4. OutlivedLoopIsCancelled'
        <4>1. SUFFICES ASSUME NEW g \in Loop, Alive(g)', ~loops'[g].cancelled,
                              ~(running /\ g = Len(loops)), ~loops[g].beside
                       PROVE  \E d \in Caller : stops'[d].pc # "out" /\ stops'[d].loop = g
          BY <1>2, <2>1, <2>3 DEF OutlivedLoopIsCancelled
        <4>2. Alive(g) /\ ~loops[g].cancelled
          BY <1>2, <4>1 DEF Leaving
        <4>3. PICK d \in Caller : stops[d].pc # "out" /\ stops[d].loop = g
          BY <1>1, <4>1, <4>2 DEF OutlivedLoopIsCancelled
        <4> QED
          BY <3>1, <4>3
      <3> QED
        BY <2>4, <3>3, <3>4 DEF StopInv
    <2>6. CASE StopEnds(c)
      <3>1. /\ stops[c].pc = "clear" /\ stops'[c].pc = "out" /\ loops' = loops
            /\ \A d \in Caller : d # c => stops'[d] = stops[d]
        BY <1>1, <2>6 DEF StopEnds, StopsOK, Idle
      <3>2. Leaving(stops[c].loop) \/ loops[stops[c].loop].beside
        BY <2>1, <2>2, <3>1 DEF StopHolds
      <3>3. \A d \in Caller : StopHolds(d)'
        BY <1>1, <3>1 DEF StopInv, StopHolds, Loop, Leaving, Alive
      <3>4. OutlivedLoopIsCancelled'
        BY <1>1, <1>2, <2>1, <2>3, <3>1, <3>2 DEF OutlivedLoopIsCancelled, Leaving, Alive
      <3> QED
        BY <2>4, <3>3, <3>4 DEF StopInv
    <2> QED
      BY <1>8, <2>5, <2>6 DEF StopStep
  <1> QED
    BY <1>3, <1>4, <1>5, <1>6, <1>7, <1>8 DEF Next

\* Stop's promise (event_bus.go, Stop): when it has returned, a run loop that is still
\* in its callback has had its context cancelled, whatever the callback does and however
\* many goroutines start and stop the bus, unless the loop was started while an earlier
\* Stop was still under way.
THEOREM OutlivedAreCancelled == Spec => []OutlivedLoopIsCancelled
  <1>1. Init => AllInv
    <2> SUFFICES ASSUME Init PROVE AllInv
      OBVIOUS
    <2>1. Len(loops) = 0 /\ Loop = {}
      BY EmptySeq DEF Init, Loop
    <2> QED
      BY <2>1, InitIInv DEF AllInv, StopInv, RunningIsHeld, StopHolds,
                            OutlivedLoopIsCancelled, Init, Idle
  <1>2. AllInv /\ [Next]_vars => AllInv'
    <2>1. AllInv /\ Next => AllInv'
      BY StopInvStep, TypeStep, KnownStep, PollStep DEF AllInv, IInv, PollParts, Next
    <2>2. AllInv /\ UNCHANGED vars => AllInv'
      BY DEF AllInv, IInv, vars, LoopsAreKnown, TypeOK, PollersAreHeld, StoppedHasNoPolls,
             StartMeetsNoPause, Event, StopInv, RunningIsHeld, StopHolds, StopUnderWay,
             Leaving, Alive, OutlivedLoopIsCancelled, Loop
    <2> QED
      BY <2>1, <2>2
  <1>3. AllInv => OutlivedLoopIsCancelled
    BY DEF AllInv
  <1> QED
    BY <1>1, <1>2, <1>3, PTL DEF Spec

=============================================================================
