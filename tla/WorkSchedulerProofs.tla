------------------------- MODULE WorkSchedulerProofs -------------------------
(***************************************************************************)
(* Theorems about WorkScheduler, for any work, any number of lanes, of      *)
(* generations of the session and of callers that close it.                 *)
(***************************************************************************)
EXTENDS WorkScheduler, TLAPS, SequenceTheorems

\* What has begun was submitted.  What is queued was submitted, has not begun and is queued
\* once, on the session's lane only; what a lane is at has begun.
QueuesAreFresh ==
  /\ marked \subseteq submitted
  /\ \A w \in Work : operation[w] # "never" => w \in submitted
  /\ \A l \in Lane : l # registered => lanes[l].queue = <<>>
  /\ \A l \in Lane : \A i \in 1..Len(lanes[l].queue) :
       /\ lanes[l].queue[i] \in submitted
       /\ operation[lanes[l].queue[i]] = "never"
  /\ \A l \in Lane : \A i, j \in 1..Len(lanes[l].queue) :
       lanes[l].queue[i] = lanes[l].queue[j] => i = j
  /\ \A l \in Lane : lanes[l].current \in Work => operation[lanes[l].current] # "never"

\* A mark is only on work that nobody waits for, so dropping it loses no answer.
MarksAreIdle == \A w \in marked : ~Unanswered(w)

\* Queued work that somebody waits for is in the index, or with a CancelHandles call:
\* whoever empties the index leaves nobody behind.
IndexIsComplete ==
  \A w \in Work : registered # 0 /\ w \in Queued(registered) /\ Unanswered(w)
                    => w \in index \/ cancels[w] = "taken"

IInv ==
  /\ TypeOK
  /\ QueuesAreFresh
  /\ MarksAreIdle
  /\ IndexIsComplete
  /\ NoWorkIsStranded
  /\ OutlivedWorkIsInterrupted

-----------------------------------------------------------------------------
\* The members of a queue.
LEMMA QueuedHas ==
    ASSUME TypeOK, NEW l \in Lane
    PROVE  /\ lanes[l] \in LaneState
           /\ lanes[l].queue \in Seq(Work)
           /\ Queued(l) = {lanes[l].queue[i] : i \in 1..Len(lanes[l].queue)}
           /\ Queued(l) \subseteq Work
  <1>1. lanes[l] \in LaneState
    BY ElementOfSeq DEF TypeOK, Lane
  <1>2. lanes[l].queue \in Seq(Work)
    BY <1>1 DEF LaneState
  <1>3. /\ DOMAIN lanes[l].queue = 1..Len(lanes[l].queue)
        /\ \A i \in 1..Len(lanes[l].queue) : lanes[l].queue[i] \in Work
    BY <1>2, LenProperties, ElementOfSeq
  <1> QED
    BY <1>1, <1>2, <1>3 DEF Queued

\* Putting a new state into one lane.
LEMMA LanePut ==
    ASSUME TypeOK, NEW l \in Lane, NEW new \in LaneState, lanes' = [lanes EXCEPT ![l] = new]
    PROVE  /\ lanes' \in Seq(LaneState) /\ Len(lanes') = Len(lanes) /\ Lane' = Lane
           /\ lanes'[l] = new
           /\ \A k \in Lane : k # l => lanes'[k] = lanes[k]
  BY ExceptSeq DEF TypeOK, Lane

\* The first delivery counts, and whoever got it does not wait any more.
LEMMA DeliverAnswers ==
    ASSUME TypeOK, NEW S, NEW answer \in {"value", "cancelled"}, Deliver(S, answer)
    PROVE  /\ result' \in [Work -> {"none", "value", "cancelled"}]
           /\ gone' \subseteq Work
           /\ \A w \in Work : result'[w] = "none" <=> result[w] = "none" /\ w \notin S
           /\ \A w \in Work : w \notin S => (w \in gone' <=> w \in gone)
  BY DEF TypeOK, Deliver

\* Push keeps the old members, once each, and adds one.
LEMMA PushAdds ==
    ASSUME NEW q \in Seq(Work), NEW w \in Work
    PROVE  /\ Push(q, w) \in Seq(Work)
           /\ \A i \in 1..Len(Push(q, w)) :
                Push(q, w)[i] = w \/ \E j \in 1..Len(q) : Push(q, w)[i] = q[j]
           /\ \A j \in 1..Len(q) : \E i \in 1..Len(Push(q, w)) : Push(q, w)[i] = q[j]
           /\ \E i \in 1..Len(Push(q, w)) : Push(q, w)[i] = w
           /\ (/\ \A i, j \in 1..Len(q) : q[i] = q[j] => i = j
               /\ \A i \in 1..Len(q) : q[i] # w)
              => \A i, j \in 1..Len(Push(q, w)) : Push(q, w)[i] = Push(q, w)[j] => i = j
  <1> DEFINE p == Push(q, w)
             n == Len(q)
  <1>0. n \in Nat
    BY LenProperties
  <1>1. /\ p \in Seq(Work) /\ Len(p) = n + 1
        /\ \E h \in 1..(n + 1), d \in {0, 1} :
             /\ p[h] = w
             /\ \A i \in 1..n : p[i + d] = q[i]
             /\ IF d = 1 THEN h = 1 ELSE h = n + 1
    <2>1. CASE w \in Chat
      <3>1. /\ <<w>> \o q \in Seq(Work) /\ Len(<<w>> \o q) = n + 1
            /\ (<<w>> \o q)[1] = w
            /\ \A i \in 1..n : (<<w>> \o q)[i + 1] = q[i]
        BY ConcatProperties, <1>0
      <3>2. p = <<w>> \o q
        BY <2>1 DEF Push
      <3> HIDE DEF p, n
      <3> QED
        BY <3>1, <3>2, <1>0
    <2>2. CASE w \notin Chat
      <3>1. /\ Append(q, w) \in Seq(Work) /\ Len(Append(q, w)) = n + 1
            /\ Append(q, w)[n + 1] = w
            /\ \A i \in 1..n : Append(q, w)[i + 0] = q[i]
        BY AppendProperties, <1>0
      <3>2. p = Append(q, w)
        BY <2>2 DEF Push
      <3> HIDE DEF p, n
      <3> QED
        BY <3>1, <3>2, <1>0
    <2> QED
      BY <2>1, <2>2
  <1>2. PICK h \in 1..(n + 1), d \in {0, 1} :
             /\ p[h] = w
             /\ \A i \in 1..n : p[i + d] = q[i]
             /\ IF d = 1 THEN h = 1 ELSE h = n + 1
    BY <1>1
  <1> HIDE DEF p, n
  <1>3. \A i \in 1..(n + 1) : i = h \/ (i - d \in 1..n /\ p[i] = q[i - d])
    <2> TAKE i \in 1..(n + 1)
    <2>1. i # h => i - d \in 1..n /\ (i - d) + d = i
      BY <1>0, <1>2
    <2> QED
      BY <2>1, <1>2
  <1>4. \A i \in 1..n : i + d \in 1..(n + 1)
    BY <1>0
  <1>5. \A i \in 1..Len(p) : p[i] = w \/ \E j \in 1..n : p[i] = q[j]
    BY <1>1, <1>2, <1>3
  <1>6. \A j \in 1..n : \E i \in 1..Len(p) : p[i] = q[j]
    BY <1>1, <1>2, <1>4
  <1>7. \E i \in 1..Len(p) : p[i] = w
    BY <1>1, <1>2
  <1>8. ASSUME \A i, j \in 1..n : q[i] = q[j] => i = j, \A i \in 1..n : q[i] # w
        PROVE  \A i, j \in 1..Len(p) : p[i] = p[j] => i = j
    <2> TAKE i, j \in 1..Len(p)
    <2>1. CASE i = h \/ j = h
      BY <2>1, <1>1, <1>2, <1>3, <1>8
    <2>2. CASE i # h /\ j # h
      <3>1. p[i] = q[i - d] /\ p[j] = q[j - d] /\ i - d \in 1..n /\ j - d \in 1..n
        BY <2>2, <1>1, <1>3
      <3>2. p[i] = p[j] => i - d = j - d
        BY <3>1, <1>8
      <3> QED
        BY <3>2, <1>1, <1>0
    <2> QED
      BY <2>1, <2>2
  <1> QED
    BY <1>1, <1>5, <1>6, <1>7, <1>8 DEF p, n
-----------------------------------------------------------------------------
LEMMA InitIInv == Init => IInv
  <1> SUFFICES ASSUME Init PROVE IInv
    OBVIOUS
  <1>1. lanes = <<>> /\ Len(lanes) = 0 /\ Lane = {}
    BY EmptySeq DEF Init, Lane
  <1>2. TypeOK
    <2>1. lanes \in Seq(LaneState) /\ Len(lanes) <= MaxLanes /\ registered \in 0..Len(lanes)
      BY <1>1, EmptySeq, SchedulerAssumption DEF Init
    <2>2. NotClosing \in CloseState
      BY SchedulerAssumption DEF NotClosing, CloseState
    <2> HIDE DEF NotClosing
    <2> QED
      BY <2>1, <2>2 DEF Init, TypeOK
  <1> QED
    BY <1>1, <1>2 DEF Init, IInv, QueuesAreFresh, MarksAreIdle, IndexIsComplete,
       NoWorkIsStranded, OutlivedWorkIsInterrupted, Unanswered

\* A step that leaves the queues alone: nobody starts to wait, and whoever waits on is
\* held as before.
LEMMA CalmStep ==
    ASSUME IInv, TypeOK', UNCHANGED <<registered, submitted>>,
           Len(lanes') = Len(lanes),
           \A l \in Lane : /\ lanes'[l].queue = lanes[l].queue
                           /\ lanes'[l].current \in {lanes[l].current, NoWork},
           \A w \in Work : operation'[w] = "never" <=> operation[w] = "never",
           \A w \in Work : Unanswered(w)' => Unanswered(w),
           \A w \in Work : Unanswered(w)' /\ operation[w] = "running"
                             => operation'[w] = "running",
           \A w \in Work : Unanswered(w)' /\ cancels[w] = "taken" => cancels'[w] = "taken",
           \A w \in Work : Unanswered(w)' /\ InHand(w) => InHand(w)',
           \A w \in Work : Unanswered(w)' /\ w \in index
                             => w \in index' \/ cancels'[w] = "taken",
           \A w \in marked' : w \in marked \/ (w \in submitted /\ ~Unanswered(w)'),
           \A w \in Work : operation'[w] = "running"
                             => operation[w] = "running" /\ (w \in interrupted => w \in interrupted'),
           \A c \in Closer, w \in Work : AboutToTell(c, w) /\ operation'[w] = "running"
                                          => AboutToTell(c, w)' \/ w \in interrupted'
    PROVE  IInv'
  <1>1. Lane' = Lane /\ \A l \in Lane : Queued(l)' = Queued(l)
    BY DEF Lane, Queued
  <1>2. \A l \in Lane : \A i \in 1..Len(lanes[l].queue) : lanes[l].queue[i] \in Work
    BY QueuedHas, ElementOfSeq DEF IInv
  <1>3. QueuesAreFresh'
    <2>1. \A l \in Lane : lanes'[l].current \in Work => operation'[lanes'[l].current] # "never"
      BY SchedulerAssumption DEF IInv, QueuesAreFresh
    <2>2. /\ marked' \subseteq submitted'
          /\ \A w \in Work : operation'[w] # "never" => w \in submitted'
      BY DEF IInv, QueuesAreFresh
    <2>3. /\ \A l \in Lane : lanes'[l].queue = lanes[l].queue
          /\ \A l \in Lane : \A i \in 1..Len(lanes[l].queue) :
               operation'[lanes[l].queue[i]] = "never" <=> operation[lanes[l].queue[i]] = "never"
          /\ UNCHANGED <<registered, submitted>>
      BY <1>2
    <2>4. QueuesAreFresh
      BY DEF IInv
    <2> QED
      BY ONLY <1>1, <2>1, <2>2, <2>3, <2>4 DEF QueuesAreFresh
  <1>4. MarksAreIdle'
    BY DEF IInv, MarksAreIdle, TypeOK
  <1>5. IndexIsComplete'
    <2>1. registered \in {0} \cup Lane
      BY DEF IInv, TypeOK, Lane
    <2> QED
      BY <1>1, <2>1 DEF IInv, IndexIsComplete
  <1>6. NoWorkIsStranded'
    <2>1. registered \in {0} \cup Lane
      BY DEF IInv, TypeOK, Lane
    <2> QED
      BY <1>1, <2>1 DEF IInv, NoWorkIsStranded, Held
  <1>7. OutlivedWorkIsInterrupted'
    <2> SUFFICES ASSUME NEW l \in Lane, NEW w \in Work, l # registered,
                        lanes'[l].current = w, operation'[w] = "running",
                        w \notin interrupted'
                 PROVE  \E c \in Closer : AboutToTell(c, w)'
      BY <1>1 DEF OutlivedWorkIsInterrupted
    <2>1. lanes[l].current = w /\ operation[w] = "running" /\ w \notin interrupted
      BY SchedulerAssumption
    <2>2. PICK c \in Closer : AboutToTell(c, w)
      BY <2>1 DEF IInv, OutlivedWorkIsInterrupted
    <2> QED
      BY <2>2
  <1> QED
    BY <1>3, <1>4, <1>5, <1>6, <1>7 DEF IInv

\* Whoever answers what it has in hand leaves what the others have there.
LEMMA EmptiedHands ==
    ASSUME TypeOK, NEW o \in Closer \cup 1..MaxLanes, Emptied(o)
    PROVE  /\ drained' \in [Closer \cup 1..MaxLanes -> SUBSET Work]
           /\ \A w \in Work : w \notin drained[o] /\ InHand(w) => InHand(w)'
  BY DEF TypeOK, Emptied, InHand

\* Whoever empties the index has it in hand, and keeps what it had.
LEMMA FilledHands ==
    ASSUME TypeOK, NEW o \in Closer \cup 1..MaxLanes, NEW S \in SUBSET Work,
           drained' = [drained EXCEPT ![o] = @ \cup S]
    PROVE  /\ drained' \in [Closer \cup 1..MaxLanes -> SUBSET Work]
           /\ \A w \in Work : InHand(w) \/ w \in S => InHand(w)'
  BY DEF TypeOK, InHand

LEMMA GiveUpIInv == ASSUME IInv, UNCHANGED generation, NEW w \in Work, GiveUp(w) PROVE IInv'
  <1>1. TypeOK'
    BY DEF IInv, TypeOK, GiveUp, Lane
  <1>2. \A v \in Work : Unanswered(v)' <=> Unanswered(v) /\ v # w
    BY DEF GiveUp, Unanswered
  <1> QED
    BY <1>1, <1>2, CalmStep DEF GiveUp, IInv, TypeOK, InHand, AboutToTell

LEMMA OperationEndsIInv ==
    ASSUME IInv, UNCHANGED generation, NEW w \in Work, OperationEnds(w) PROVE IInv'
  <1>0. /\ result' \in [Work -> {"none", "value", "cancelled"}] /\ gone' \subseteq Work
        /\ \A v \in Work : result'[v] = "none" <=> result[v] = "none" /\ v # w
        /\ \A v \in Work : v # w => (v \in gone' <=> v \in gone)
    BY DeliverAnswers DEF OperationEnds, IInv
  <1>1. TypeOK'
    BY <1>0 DEF IInv, TypeOK, OperationEnds, Lane
  <1>2. \A v \in Work : Unanswered(v)' <=> Unanswered(v) /\ v # w
    BY <1>0 DEF OperationEnds, Unanswered
  <1>3. /\ operation[w] = "running" /\ operation'[w] = "ended"
        /\ \A v \in Work : v # w => operation'[v] = operation[v]
    BY DEF OperationEnds, IInv, TypeOK
  <1> QED
    BY <1>1, <1>2, <1>3, CalmStep DEF OperationEnds, IInv, TypeOK, InHand, AboutToTell

LEMMA CancelIInv ==
    ASSUME IInv, UNCHANGED generation, NEW w \in Work, CancelHandles(w) PROVE IInv'
  <1>1. CASE CancelRunning(w)
    <2>1. TypeOK'
      BY <1>1 DEF IInv, TypeOK, CancelRunning, Lane
    <2> QED
      BY <1>1, <2>1, CalmStep DEF CancelRunning, IInv, TypeOK, Unanswered, InHand, AboutToTell
  <1>4. CASE CancelTells(w)
    <2>1. TypeOK'
      BY <1>4 DEF IInv, TypeOK, CancelTells, Interrupt, Lane
    <2>2. \A v \in Work : v # w => cancels'[v] = cancels[v]
      BY <1>4 DEF CancelTells, IInv, TypeOK
    <2>3. cancels[w] # "taken" /\ \A v \in interrupted : v \in interrupted'
      BY <1>4 DEF CancelTells, Interrupt
    <2> QED
      BY <1>4, <2>1, <2>2, <2>3, CalmStep DEF CancelTells, IInv, TypeOK, Unanswered,
         InHand, AboutToTell
  <1>2. CASE CancelQueued(w)
    <2>1. TypeOK'
      BY <1>2 DEF IInv, TypeOK, CancelQueued, Lane
    <2>2. cancels'[w] = "taken" /\ \A v \in Work : v # w => cancels'[v] = cancels[v]
      BY <1>2 DEF CancelQueued, IInv, TypeOK
    <2> QED
      BY <1>2, <2>1, <2>2, CalmStep DEF CancelQueued, IInv, TypeOK, Unanswered, InHand, AboutToTell
  <1>3. CASE CancelAnswers(w)
    <2>0. /\ result' \in [Work -> {"none", "value", "cancelled"}] /\ gone' \subseteq Work
          /\ \A v \in Work : result'[v] = "none" <=> result[v] = "none" /\ v # w
          /\ \A v \in Work : v # w => (v \in gone' <=> v \in gone)
      BY <1>3, DeliverAnswers DEF CancelAnswers, IInv
    <2>1. TypeOK'
      BY <1>3, <2>0 DEF IInv, TypeOK, CancelAnswers, Lane
    <2>2. \A v \in Work : Unanswered(v)' <=> Unanswered(v) /\ v # w
      BY <1>3, <2>0 DEF CancelAnswers, Unanswered
    <2>3. \A v \in Work : v # w => cancels'[v] = cancels[v]
      BY <1>3 DEF CancelAnswers, IInv, TypeOK
    <2>4. \A v \in marked' : v \in marked \/ (v \in submitted /\ ~Unanswered(v)')
      <3>1. \A v \in marked' : v \in marked \/ (v = w /\ registered # 0 /\ w \in Queued(registered))
        BY <1>3 DEF CancelAnswers
      <3>2. registered # 0 => Queued(registered) \subseteq submitted
        <4>1. registered # 0 => registered \in Lane
          BY DEF IInv, TypeOK, Lane
        <4> QED
          BY <4>1, QueuedHas DEF IInv, QueuesAreFresh
      <3> QED
        BY <3>1, <3>2, <2>2
    <2> QED
      BY <1>3, <2>1, <2>2, <2>3, <2>4, CalmStep DEF CancelAnswers, IInv, TypeOK, InHand, AboutToTell
  <1> QED
    BY <1>1, <1>2, <1>3, <1>4 DEF CancelHandles

LEMMA ClearIInv == ASSUME IInv, UNCHANGED generation, NEW l \in Lane, Clear(l) PROVE IInv'
  <1> DEFINE new == [lanes[l] EXCEPT !.current = NoWork, !.pc = "waiting"]
  <1>1. new \in LaneState /\ new.queue = lanes[l].queue /\ new.current = NoWork
    BY QueuedHas DEF LaneState, IInv
  <1>2. lanes' = [lanes EXCEPT ![l] = new]
    BY DEF Clear
  <1> HIDE DEF new
  <1>3. /\ lanes' \in Seq(LaneState) /\ Len(lanes') = Len(lanes)
        /\ \A k \in Lane : /\ lanes'[k].queue = lanes[k].queue
                           /\ lanes'[k].current \in {lanes[k].current, NoWork}
    BY <1>1, <1>2, LanePut DEF IInv
  <1>4. TypeOK'
    BY <1>3 DEF IInv, TypeOK, Clear
  <1> QED
    BY <1>3, <1>4, CalmStep DEF Clear, Unanswered, InHand, AboutToTell

LEMMA LoseLaneIInv == ASSUME IInv, UNCHANGED generation, NEW l \in Lane, LoseLane(l) PROVE IInv'
  <1> DEFINE new == [lanes[l] EXCEPT !.pc = "leaving"]
  <1>1. new \in LaneState /\ new.queue = lanes[l].queue /\ new.current = lanes[l].current
    BY QueuedHas DEF LaneState, IInv
  <1>2. lanes' = [lanes EXCEPT ![l] = new]
    BY DEF LoseLane
  <1> HIDE DEF new
  <1>3. /\ lanes' \in Seq(LaneState) /\ Len(lanes') = Len(lanes)
        /\ \A k \in Lane : /\ lanes'[k].queue = lanes[k].queue
                           /\ lanes'[k].current \in {lanes[k].current, NoWork}
    BY <1>1, <1>2, LanePut DEF IInv
  <1>4. TypeOK'
    BY <1>3 DEF IInv, TypeOK, LoseLane
  <1> QED
    BY <1>3, <1>4, CalmStep DEF LoseLane, Unanswered, InHand, AboutToTell

\* The waits of CloseSession.
LEMMA CloseWaitsIInv ==
    ASSUME IInv, UNCHANGED generation, NEW c \in Closer, CloseGoesOn(c)
    PROVE  IInv'
  <1>0. closes \in [Closer -> CloseState] /\ closes[c] \in CloseState
    BY DEF IInv, TypeOK
  <1>1. PICK new \in CloseState :
          /\ closes' = [closes EXCEPT ![c] = new]
          /\ CloseAnswers(c) => new.pc = "telling" /\ new.task = closes[c].task
          /\ closes[c].pc = "telling" => CloseTells(c)
          /\ closes[c].pc = "answering" => CloseAnswers(c)
    <2>2. CASE CloseSees(c)
      <3>1. PICK target : closes' = [closes EXCEPT ![c].targets = @ \ {target}]
        BY <2>2 DEF CloseSees
      <3> DEFINE new == [closes[c] EXCEPT !.targets = @ \ {target}]
      <3>2. new \in CloseState
        BY <1>0 DEF CloseState
      <3>3. closes' = [closes EXCEPT ![c] = new] /\ closes[c].pc = "waiting" /\ ~CloseAnswers(c)
        BY <2>2, <3>1 DEF CloseSees, CloseAnswers, Goes
      <3> HIDE DEF new
      <3> QED
        BY <3>2, <3>3
    <2>3. CASE CloseTimesOut(c)
      <3>1. PICK target : closes' = [closes EXCEPT ![c].targets = @ \ {target}, ![c].expired = TRUE]
        BY <2>3 DEF CloseTimesOut
      <3> DEFINE new == [closes[c] EXCEPT !.targets = @ \ {target}, !.expired = TRUE]
      <3>2. new \in CloseState
        BY <1>0 DEF CloseState
      <3>3. closes' = [closes EXCEPT ![c] = new] /\ closes[c].pc = "waiting" /\ ~CloseAnswers(c)
        BY <2>3, <3>1 DEF CloseTimesOut, CloseAnswers, Goes
      <3> HIDE DEF new
      <3> QED
        BY <3>2, <3>3
    <2>4. CASE CloseReturns(c)
      <3>1. NotClosing \in CloseState
        BY SchedulerAssumption DEF NotClosing, CloseState
      <3> QED
        BY <2>4, <3>1 DEF CloseReturns, CloseAnswers, Goes
    <2>5. CASE CloseAnswers(c) \/ CloseTells(c)
      <3> DEFINE new == [closes[c] EXCEPT !.pc = IF CloseAnswers(c) THEN "telling" ELSE "waiting"]
      <3>1. new \in CloseState /\ new.task = closes[c].task
            /\ (CloseAnswers(c) => new.pc = "telling")
        BY <1>0 DEF CloseState
      <3>2. closes' = [closes EXCEPT ![c] = new]
        BY <2>5 DEF CloseAnswers, CloseTells, Goes
      <3>3. /\ closes[c].pc = "telling" => CloseTells(c)
            /\ closes[c].pc = "answering" => CloseAnswers(c)
        BY <2>5 DEF CloseAnswers, CloseTells, Goes
      <3> HIDE DEF new
      <3> QED
        BY <3>1, <3>2, <3>3
    <2> QED
      BY <2>2, <2>3, <2>4, <2>5 DEF CloseGoesOn
  <1>2. /\ closes' \in [Closer -> CloseState] /\ closes'[c] = new
        /\ \A d \in Closer : d # c => closes'[d] = closes[d]
    BY <1>0, <1>1
  <1>3. UNCHANGED <<lanes, registered, index, submitted, marked, operation, cancels, closed>>
    BY DEF CloseGoesOn, CloseAnswers, CloseTells, CloseSees, CloseTimesOut, CloseReturns
  <1>4. /\ result' \in [Work -> {"none", "value", "cancelled"}] /\ gone' \subseteq Work
        /\ \A w \in Work : Unanswered(w)' => Unanswered(w)
        /\ \A w \in Work : Unanswered(w)' /\ InHand(w) => InHand(w)'
        /\ drained' \in [Closer \cup 1..MaxLanes -> SUBSET Work]
    <2>1. CASE CloseAnswers(c)
      <3>1. /\ result' \in [Work -> {"none", "value", "cancelled"}] /\ gone' \subseteq Work
            /\ \A w \in Work : Unanswered(w)' => Unanswered(w) /\ w \notin drained[c]
        BY <2>1, <1>3, DeliverAnswers DEF CloseAnswers, IInv, Unanswered
      <3> QED
        BY <2>1, <3>1, EmptiedHands DEF CloseAnswers, IInv
    <2>2. CASE ~CloseAnswers(c)
      <3>1. UNCHANGED <<result, gone, drained>>
        BY <2>2 DEF CloseGoesOn, CloseTells, CloseSees, CloseTimesOut, CloseReturns
      <3> QED
        BY <3>1, <1>3 DEF IInv, TypeOK, Unanswered, InHand
    <2> QED
      BY <2>1, <2>2
  <1>5. /\ interrupted' \subseteq Work /\ interrupted \subseteq interrupted'
        /\ \A w \in Work : CloseTells(c) /\ closes[c].task = w /\ operation[w] = "running"
                            => w \in interrupted'
    BY DEF CloseGoesOn, CloseAnswers, CloseTells, CloseSees, CloseTimesOut, CloseReturns,
       Interrupt, IInv, TypeOK
  <1>6. TypeOK'
    BY <1>2, <1>3, <1>4, <1>5 DEF IInv, TypeOK
  <1>7. ASSUME NEW d \in Closer, NEW w \in Work, AboutToTell(d, w), operation'[w] = "running"
        PROVE  AboutToTell(d, w)' \/ w \in interrupted'
    <2>1. CASE d = c
      BY <2>1, <1>1, <1>2, <1>3, <1>5, <1>7 DEF AboutToTell
    <2>2. CASE d # c
      BY <2>2, <1>2, <1>7 DEF AboutToTell
    <2> QED
      BY <2>1, <2>2
  <1> QED
    BY <1>3, <1>4, <1>5, <1>6, <1>7, CalmStep

-----------------------------------------------------------------------------
\* The processor takes the head of the queue of the session's lane.
LEMMA TakeIInv == ASSUME IInv, UNCHANGED generation, NEW l \in Lane, Take(l) PROVE IInv'
  <1> DEFINE q == lanes[l].queue
             w == Head(q)
             begins == w \notin marked
             new == IF begins THEN [lanes[l] EXCEPT !.queue = Tail(@), !.current = w,
                                                    !.pc = "running"]
                              ELSE [lanes[l] EXCEPT !.queue = Tail(@)]
  <1>1. q \in Seq(Work) /\ q # <<>> /\ registered = l /\ l # 0
    BY QueuedHas DEF Take, IInv, Lane
  <1>2. /\ w \in Work /\ w = q[1] /\ Len(q) \in Nat \ {0}
        /\ Tail(q) \in Seq(Work) /\ Len(Tail(q)) = Len(q) - 1
        /\ \A i \in 1..Len(Tail(q)) : i + 1 \in 1..Len(q) /\ Tail(q)[i] = q[i + 1]
    BY <1>1, HeadTailProperties, LenProperties, EmptySeq, ElementOfSeq
  <1>3. new \in LaneState /\ new.queue = Tail(q)
        /\ new.current = IF begins THEN w ELSE lanes[l].current
    <2>1. PICK rec \in LaneState, u \in Work, t \in Seq(Work) : rec = lanes[l] /\ u = w /\ t = Tail(q)
      BY <1>2, QueuedHas DEF IInv
    <2>2. /\ [rec EXCEPT !.queue = t, !.current = u, !.pc = "running"] \in LaneState
          /\ [rec EXCEPT !.queue = t, !.current = u, !.pc = "running"].queue = t
          /\ [rec EXCEPT !.queue = t, !.current = u, !.pc = "running"].current = u
      BY <2>1 DEF LaneState
    <2>3. /\ [rec EXCEPT !.queue = t] \in LaneState
          /\ [rec EXCEPT !.queue = t].queue = t
          /\ [rec EXCEPT !.queue = t].current = rec.current
      BY <2>1 DEF LaneState
    <2> QED
      BY <2>1, <2>2, <2>3, Zenon
  <1>4. lanes' = [lanes EXCEPT ![l] = new]
    BY DEF Take
  <1>5. /\ lanes' \in Seq(LaneState) /\ Len(lanes') = Len(lanes) /\ Lane' = Lane
        /\ lanes'[l] = new /\ \A k \in Lane : k # l => lanes'[k] = lanes[k]
    BY <1>3, <1>4, LanePut DEF IInv
  <1>6. /\ index' = index \ {w} /\ marked' \subseteq marked /\ registered' = l
        /\ \A v \in Work : v # w => operation'[v] = operation[v]
        /\ operation'[w] = IF begins THEN "running" ELSE operation[w]
        /\ operation' \in [Work -> {"never", "running", "ended"}]
        /\ marked' = IF begins THEN marked ELSE marked \ {w}
        /\ UNCHANGED <<submitted, gone, result, interrupted, cancels, drained, closes, closed>>
    <2>1. CASE begins
      <3>1. operation' = [operation EXCEPT ![w] = "running"] /\ UNCHANGED marked
        BY <2>1 DEF Take
      <3> QED
        BY <3>1, <2>1, <1>1, <1>2 DEF Take, IInv, TypeOK
    <2>2. CASE ~begins
      <3>1. marked' = marked \ {w} /\ UNCHANGED operation
        BY <2>2 DEF Take
      <3> QED
        BY <3>1, <2>2, <1>1, <1>2 DEF Take, IInv, TypeOK
    <2> QED
      BY <2>1, <2>2
  <1> HIDE DEF new, w, q, begins
  <1>7. TypeOK'
    BY <1>1, <1>5, <1>6 DEF IInv, TypeOK
  <1>8. q = lanes[l].queue /\ (begins <=> w \notin marked)
    BY DEF q, begins
  <1>9. \A i \in 1..Len(Tail(q)) : Tail(q)[i] # w
    BY <1>1, <1>2, <1>8 DEF IInv, QueuesAreFresh
  <1>10. operation[w] = "never" /\ w \in submitted
    BY <1>1, <1>2, <1>8 DEF IInv, QueuesAreFresh
  <1>11. QueuesAreFresh'
    <2>1. marked' \subseteq submitted'
      BY <1>6 DEF Take, IInv, QueuesAreFresh
    <2>2. \A k \in Lane : k # l => lanes'[k].queue = <<>>
      BY <1>1, <1>5 DEF IInv, QueuesAreFresh
    <2>3. ASSUME NEW i \in 1..Len(Tail(q))
          PROVE  Tail(q)[i] \in submitted' /\ operation'[Tail(q)[i]] = "never"
      <3>1. PICK v \in Work : v = Tail(q)[i]
        BY <1>2, ElementOfSeq
      <3>2. v \in submitted /\ operation[v] = "never"
        BY <1>2, <1>8, <3>1 DEF IInv, QueuesAreFresh
      <3>3. v # w
        BY <1>9, <3>1
      <3> QED
        BY <1>6, <3>1, <3>2, <3>3 DEF Take
    <2>4. \A i, j \in 1..Len(Tail(q)) : Tail(q)[i] = Tail(q)[j] => i = j
      <3> TAKE i, j \in 1..Len(Tail(q))
      <3>1. q[i + 1] = q[j + 1] => i + 1 = j + 1
        BY <1>2, <1>8 DEF IInv, QueuesAreFresh
      <3> QED
        BY <3>1, <1>2
    <2>5. \A k \in Lane : lanes'[k].current \in Work => operation'[lanes'[k].current] # "never"
      BY <1>3, <1>5, <1>6, <1>10 DEF IInv, QueuesAreFresh
    <2>6. \A k \in Lane : \A i \in 1..Len(lanes'[k].queue) :
            k = l /\ i \in 1..Len(Tail(q)) /\ lanes'[k].queue = Tail(q)
      <3>1. Len(<<>>) = 0
        BY EmptySeq
      <3> TAKE k \in Lane
      <3>2. CASE k = l
        BY <3>2, <1>3, <1>5
      <3>3. CASE k # l
        BY <3>1, <3>3, <2>2
      <3> QED
        BY <3>2, <3>3
    <2>7. \A k \in Lane : \A i \in 1..Len(lanes'[k].queue) :
            /\ lanes'[k].queue[i] \in submitted'
            /\ operation'[lanes'[k].queue[i]] = "never"
      BY <2>3, <2>6
    <2>8. \A k \in Lane : \A i, j \in 1..Len(lanes'[k].queue) :
            lanes'[k].queue[i] = lanes'[k].queue[j] => i = j
      BY <2>4, <2>6
    <2>9. \A v \in Work : operation'[v] # "never" => v \in submitted'
      BY <1>6, <1>10 DEF IInv, QueuesAreFresh
    <2> QED
      BY <1>5, <1>6, <2>1, <2>2, <2>5, <2>7, <2>8, <2>9 DEF QueuesAreFresh
  <1>12. \A v \in Work : Unanswered(v)' <=> Unanswered(v)
    BY DEF Unanswered, Take
  <1>13. MarksAreIdle'
    BY <1>6, <1>12 DEF IInv, MarksAreIdle, TypeOK
  <1>14. \A v \in Queued(l) : v = w \/ v \in Queued(l)'
    <2>1. TypeOK' /\ l \in Lane'
      BY <1>5, <1>7
    <2>2. Queued(l) = {q[i] : i \in 1..Len(q)}
      BY QueuedHas, <1>8 DEF IInv
    <2>3. Queued(l)' = {Tail(q)[i] : i \in 1..Len(Tail(q))}
      <3>1. DOMAIN Tail(q) = 1..Len(Tail(q))
        BY <1>2, LenProperties
      <3> QED
        BY <3>1, <1>3, <1>5 DEF Queued
    <2>4. \A i \in 1..Len(q) : i = 1 \/ (i - 1 \in 1..Len(Tail(q)) /\ q[i] = Tail(q)[i - 1])
      BY <1>2
    <2> SUFFICES ASSUME NEW i \in 1..Len(q) PROVE q[i] = w \/ q[i] \in Queued(l)'
      BY <2>2
    <2> QED
      BY <2>3, <2>4, <1>2
  <1>15. Queued(l)' \subseteq Queued(l) \ {w}
    <2>1. Queued(l) = {q[i] : i \in 1..Len(q)}
      BY QueuedHas, <1>8 DEF IInv
    <2>2. Queued(l)' = {Tail(q)[i] : i \in 1..Len(Tail(q))}
      <3>1. DOMAIN Tail(q) = 1..Len(Tail(q))
        BY <1>2, LenProperties
      <3> QED
        BY <3>1, <1>3, <1>5 DEF Queued
    <2> QED
      BY <2>1, <2>2, <1>2, <1>9
  <1>16. IndexIsComplete'
    BY <1>1, <1>6, <1>12, <1>15 DEF Take, IInv, IndexIsComplete
  <1>17. NoWorkIsStranded'
    <2>1. Unanswered(w) => operation'[w] = "running"
      BY <1>2, <1>6, <1>8 DEF IInv, MarksAreIdle
    <2> QED
      BY <1>1, <1>2, <1>6, <1>10, <1>12, <1>14, <2>1 DEF Take, IInv, NoWorkIsStranded, Held, InHand
  <1>18. OutlivedWorkIsInterrupted'
    <2> SUFFICES ASSUME NEW k \in Lane, NEW v \in Work, k # l,
                        lanes'[k].current = v, operation'[v] = "running"
                 PROVE  v \in interrupted' \/ \E c \in Closer : AboutToTell(c, v)'
      BY <1>5, <1>6 DEF OutlivedWorkIsInterrupted
    <2>1. lanes[k].current = v /\ operation[v] # "never"
      BY <1>5 DEF IInv, QueuesAreFresh
    <2>2. v # w /\ operation[v] = "running"
      BY <2>1, <1>6, <1>10
    <2> QED
      BY <1>1, <2>1, <2>2 DEF Take, IInv, OutlivedWorkIsInterrupted, AboutToTell
  <1> QED
    BY <1>7, <1>11, <1>13, <1>16, <1>17, <1>18 DEF IInv

\* The queue new is the queue old with w in it.
Pushed(new, old, w) ==
  /\ new \in Seq(Work)
  /\ \A i \in 1..Len(new) : new[i] = w \/ \E j \in 1..Len(old) : new[i] = old[j]
  /\ \A j \in 1..Len(old) : \E i \in 1..Len(new) : new[i] = old[j]
  /\ \E i \in 1..Len(new) : new[i] = w
  /\ \A i, j \in 1..Len(new) : new[i] = new[j] => i = j

\* SubmitAndWait puts w on the session's lane: r is that lane, new or not.
LEMMA SubmitIInv ==
    ASSUME IInv, UNCHANGED generation, NEW w \in Work, SubmitAndWait(w) PROVE IInv'
  <1> DEFINE fresh == [gen |-> generation[w], queue |-> <<w>>, current |-> NoWork,
                       pc |-> "waiting"]
             put == [lanes[registered] EXCEPT !.queue = Push(@, w)]
  <1>0. w \notin submitted /\ registered \in {0} \cup Lane /\ Len(lanes) \in Nat
    BY LenProperties DEF SubmitAndWait, IInv, TypeOK, Lane
  <1>r. PICK r : registered' = r
    OBVIOUS
  <1>1.   /\ lanes' \in Seq(LaneState) /\ Len(lanes') <= MaxLanes
          /\ r \in Lane' /\ r # 0 /\ Lane' = Lane \cup {r}
          /\ r \in Lane => r = registered
          /\ r \notin Lane => registered = 0
          /\ \A k \in Lane : k # r => lanes'[k] = lanes[k]
          /\ lanes'[r].queue \in Seq(Work)
          /\ lanes'[r].current = IF r \in Lane THEN lanes[r].current ELSE NoWork
          /\ \A i \in 1..Len(lanes'[r].queue) :
               lanes'[r].queue[i] = w \/ (r \in Lane /\ \E j \in 1..Len(lanes[r].queue) :
                                            lanes'[r].queue[i] = lanes[r].queue[j])
          /\ r \in Lane => \A j \in 1..Len(lanes[r].queue) : \E i \in 1..Len(lanes'[r].queue) :
               lanes'[r].queue[i] = lanes[r].queue[j]
          /\ \E i \in 1..Len(lanes'[r].queue) : lanes'[r].queue[i] = w
          /\ \A i, j \in 1..Len(lanes'[r].queue) : lanes'[r].queue[i] = lanes'[r].queue[j] => i = j
    <2>1. CASE registered # 0
      <3>1. registered \in Lane /\ lanes[registered] \in LaneState
            /\ lanes[registered].queue \in Seq(Work)
        BY <2>1, <1>0, QueuedHas DEF IInv
      <3>2. put \in LaneState /\ put.queue = Push(lanes[registered].queue, w)
            /\ put.current = lanes[registered].current
        BY <3>1, PushAdds DEF LaneState
      <3>3. lanes' = [lanes EXCEPT ![registered] = put] /\ registered' = registered
        BY <2>1 DEF SubmitAndWait
      <3> HIDE DEF put
      <3>4. /\ lanes' \in Seq(LaneState) /\ Len(lanes') = Len(lanes) /\ Lane' = Lane
            /\ lanes'[registered] = put
            /\ \A k \in Lane : k # registered => lanes'[k] = lanes[k]
        <4>1. TypeOK /\ registered \in Lane /\ put \in LaneState
          BY <3>1, <3>2 DEF IInv
        <4> QED
          BY <3>3, <4>1, LanePut, Zenon
      <3>5. /\ \A i, j \in 1..Len(lanes[registered].queue) :
                 lanes[registered].queue[i] = lanes[registered].queue[j] => i = j
            /\ \A i \in 1..Len(lanes[registered].queue) : lanes[registered].queue[i] # w
        BY <3>1, <1>0 DEF IInv, QueuesAreFresh
      <3> DEFINE q == lanes[registered].queue
      <3>6. Pushed(put.queue, q, w)
        <4> HIDE DEF q
        <4>1. q \in Seq(Work) /\ put.queue = Push(q, w)
          BY <3>1, <3>2 DEF q
        <4>2. /\ \A i, j \in 1..Len(q) : q[i] = q[j] => i = j
              /\ \A i \in 1..Len(q) : q[i] # w
          BY <3>5 DEF q
        <4> DEFINE new == Push(q, w)
        <4>3. /\ new \in Seq(Work)
              /\ \A i \in 1..Len(new) : new[i] = w \/ \E j \in 1..Len(q) : new[i] = q[j]
              /\ \A j \in 1..Len(q) : \E i \in 1..Len(new) : new[i] = q[j]
              /\ \E i \in 1..Len(new) : new[i] = w
          BY <4>1, PushAdds
        <4>4. \A i, j \in 1..Len(new) : new[i] = new[j] => i = j
          BY <4>1, <4>2, PushAdds
        <4> HIDE DEF new
        <4>5. Pushed(new, q, w)
          BY <4>3, <4>4 DEF Pushed
        <4> QED
          BY <4>1, <4>5 DEF new
      <3>7. Len(lanes') <= MaxLanes
        BY <3>4 DEF IInv, TypeOK
      <3>8. r = registered /\ r \in Lane /\ lanes'[r] = put
        BY <1>r, <3>1, <3>3, <3>4
      <3>9. /\ lanes' \in Seq(LaneState) /\ Len(lanes') <= MaxLanes
            /\ r \in Lane' /\ r # 0 /\ Lane' = Lane \cup {r}
            /\ r \in Lane /\ r = registered
            /\ \A k \in Lane : k # r => lanes'[k] = lanes[k]
            /\ lanes'[r].current = lanes[r].current
        BY <2>1, <3>1, <3>2, <3>4, <3>7, <3>8
      <3> HIDE DEF q
      <3>10. Pushed(lanes'[r].queue, lanes[r].queue, w)
        BY <3>6, <3>8 DEF q
      <3> QED
        BY <3>9, <3>10 DEF Pushed
    <2>2. CASE registered = 0
      <3>1. /\ lanes' = Append(lanes, fresh) /\ registered' = Len(lanes) + 1
            /\ Len(lanes) < MaxLanes
        BY <2>2 DEF SubmitAndWait
      <3>2. /\ <<w>> \in Seq(Work) /\ Len(<<w>>) = 1 /\ <<w>>[1] = w
        OBVIOUS
      <3>3. fresh \in LaneState /\ fresh.queue = <<w>> /\ fresh.current = NoWork
        BY <3>2 DEF LaneState, IInv, TypeOK
      <3> HIDE DEF fresh
      <3>4. /\ lanes' \in Seq(LaneState) /\ Len(lanes') = Len(lanes) + 1
            /\ lanes'[Len(lanes) + 1] = fresh
            /\ \A k \in Lane : lanes'[k] = lanes[k]
        BY <3>1, <3>3, AppendProperties DEF IInv, TypeOK, Lane
      <3>5. /\ Lane' = Lane \cup {Len(lanes) + 1} /\ Len(lanes) + 1 \notin Lane
            /\ Len(lanes) + 1 \in Lane' /\ Len(lanes) + 1 # 0 /\ Len(lanes') <= MaxLanes
        BY <3>1, <3>4, <1>0, SchedulerAssumption DEF Lane
      <3>6. r = Len(lanes) + 1 /\ lanes'[r] = fresh
        BY <1>r, <3>1, <3>4
      <3>7. /\ \A i \in 1..Len(lanes'[r].queue) : i = 1 /\ lanes'[r].queue[i] = w
            /\ 1 \in 1..Len(lanes'[r].queue)
        <4>1. lanes'[r].queue = <<w>>
          BY <3>3, <3>6
        <4> QED
          BY <4>1, <3>2
      <3> QED
        BY <2>2, <3>2, <3>3, <3>4, <3>5, <3>6, <3>7
    <2> QED
      BY <2>1, <2>2
  <1> HIDE DEF fresh, put
  <1>2. /\ submitted' = submitted \cup {w} /\ index' = index \cup {w}
        /\ UNCHANGED <<marked, gone, result, operation, interrupted, cancels, drained, closes, closed>>
    BY DEF SubmitAndWait
  <1>3. TypeOK'
    <2>1. registered' \in 0..Len(lanes')
      BY <1>r, <1>1 DEF Lane
    <2> QED
      BY <1>1, <1>2, <2>1 DEF IInv, TypeOK
  <1>4. \A v \in Work : v # w => (Unanswered(v)' <=> Unanswered(v))
    BY <1>2 DEF Unanswered
  <1>5. operation[w] = "never" /\ w \notin marked /\ \A k \in Lane : lanes[k].current # w
    BY <1>0 DEF IInv, QueuesAreFresh
  <1>6. QueuesAreFresh'
    <2>1. marked' \subseteq submitted' /\ \A v \in Work : operation'[v] # "never" => v \in submitted'
      BY <1>2 DEF IInv, QueuesAreFresh
    <2>2. \A k \in Lane' : k # r => lanes'[k].queue = <<>>
      <3> SUFFICES ASSUME NEW k \in Lane, k # r PROVE lanes'[k].queue = <<>>
        BY <1>1
      <3>1. k # registered /\ lanes'[k] = lanes[k]
        BY <1>1 DEF Lane
      <3> QED
        BY <3>1 DEF IInv, QueuesAreFresh
    <2>3. \A k \in Lane' : \A i \in 1..Len(lanes'[k].queue) : k = r
      <3>1. Len(<<>>) = 0
        BY EmptySeq
      <3> QED
        BY <3>1, <2>2
    <2>4. ASSUME NEW i \in 1..Len(lanes'[r].queue)
          PROVE  lanes'[r].queue[i] \in submitted' /\ operation'[lanes'[r].queue[i]] = "never"
      <3>1. PICK v : v = lanes'[r].queue[i]
        OBVIOUS
      <3>2. \/ v = w
            \/ r \in Lane /\ \E j \in 1..Len(lanes[r].queue) : lanes[r].queue[j] = v
        BY <1>1, <3>1
      <3>3. v \in submitted \cup {w} /\ operation[v] = "never"
        BY <1>5, <3>2 DEF IInv, QueuesAreFresh
      <3> QED
        BY <1>2, <3>1, <3>3
    <2>5. \A k \in Lane' : lanes'[k].current \in Work => operation'[lanes'[k].current] # "never"
      BY <1>1, <1>2, SchedulerAssumption DEF IInv, QueuesAreFresh
    <2> QED
      BY <1>r, <1>1, <2>1, <2>2, <2>3, <2>4, <2>5 DEF QueuesAreFresh
  <1>7. MarksAreIdle'
    BY <1>2, <1>4, <1>5 DEF IInv, MarksAreIdle, TypeOK
  <1>8. /\ w \in Queued(r)'
        /\ \A v \in Work : v # w =>
             (v \in Queued(r)' <=> registered # 0 /\ v \in Queued(registered))
    <2>1. Queued(r)' = {lanes'[r].queue[i] : i \in 1..Len(lanes'[r].queue)}
      <3>1. DOMAIN lanes'[r].queue = 1..Len(lanes'[r].queue)
        BY <1>1, LenProperties
      <3> QED
        BY <3>1 DEF Queued
    <2>2. registered # 0 => /\ r = registered /\ r \in Lane
                            /\ Queued(registered) = {lanes[r].queue[i] : i \in 1..Len(lanes[r].queue)}
      <3>1. registered # 0 => r = registered /\ r \in Lane
        BY <1>0, <1>1
      <3>2. \A l \in Lane : Queued(l) = {lanes[l].queue[i] : i \in 1..Len(lanes[l].queue)}
        BY QueuedHas DEF IInv
      <3> QED
        BY <3>1, <3>2, Zenon
    <2>3. registered = 0 => r \notin Lane
      BY <1>1
    <2>4. w \in Queued(r)'
      BY <1>1, <2>1
    <2>5. ASSUME NEW v \in Work, v # w, v \in Queued(r)'
          PROVE  registered # 0 /\ v \in Queued(registered)
      <3>1. PICK i \in 1..Len(lanes'[r].queue) : lanes'[r].queue[i] = v
        BY <2>1, <2>5
      <3>2. PICK j : r \in Lane /\ j \in 1..Len(lanes[r].queue) /\ lanes[r].queue[j] = v
        BY <1>1, <2>5, <3>1
      <3> QED
        BY <2>2, <2>3, <3>2
    <2>6. ASSUME NEW v \in Work, registered # 0, v \in Queued(registered)
          PROVE  v \in Queued(r)'
      <3>1. PICK j \in 1..Len(lanes[r].queue) : lanes[r].queue[j] = v
        BY <2>2, <2>6
      <3>2. r \in Lane
        BY <2>2, <2>6
      <3>3. PICK i \in 1..Len(lanes'[r].queue) : lanes'[r].queue[i] = v
        BY <1>1, <3>1, <3>2
      <3> QED
        BY <2>1, <3>3
    <2> QED
      BY <2>4, <2>5, <2>6
  <1>9. IndexIsComplete'
    BY <1>r, <1>1, <1>2, <1>4, <1>8 DEF IInv, IndexIsComplete
  <1>10. NoWorkIsStranded'
    BY <1>r, <1>1, <1>2, <1>4, <1>8 DEF IInv, NoWorkIsStranded, Held, InHand
  <1>11. OutlivedWorkIsInterrupted'
    <2> SUFFICES ASSUME NEW k \in Lane', NEW v \in Work, k # r,
                        lanes'[k].current = v, operation'[v] = "running"
                 PROVE  v \in interrupted' \/ \E c \in Closer : AboutToTell(c, v)'
      BY <1>r DEF OutlivedWorkIsInterrupted
    <2>1. k \in Lane /\ lanes'[k] = lanes[k] /\ k # registered
      BY <1>0, <1>1 DEF Lane
    <2> QED
      BY <2>1, <1>2 DEF IInv, OutlivedWorkIsInterrupted, AboutToTell
  <1> QED
    BY <1>3, <1>6, <1>7, <1>9, <1>10, <1>11 DEF IInv

\* The two steps that empty the index and the queue of the session's lane: the
\* processor that leaves, and CloseSession, which takes the lane out of the map.
LEMMA EmptiedLanes ==
    ASSUME IInv, TypeOK', Lane' = Lane, UNCHANGED <<submitted, operation, cancels>>,
           \A k \in Lane : /\ lanes'[k].queue \in {lanes[k].queue, <<>>}
                           /\ k = registered => lanes'[k].queue = <<>>
                           /\ lanes'[k].current = lanes[k].current,
           marked' \subseteq marked, registered' \in {0, registered},
           \A w \in Work : Unanswered(w)' <=> Unanswered(w),
           \A w \in Work : InHand(w) \/ w \in index => InHand(w)'
    PROVE  QueuesAreFresh' /\ MarksAreIdle' /\ IndexIsComplete' /\ NoWorkIsStranded'
  <1>1. \A k \in Lane : lanes'[k].queue = <<>>
    BY DEF IInv, QueuesAreFresh
  <1>2. Len(<<>>) = 0
    BY EmptySeq
  <1>3. QueuesAreFresh'
    BY <1>1, <1>2 DEF IInv, QueuesAreFresh
  <1>4. MarksAreIdle'
    BY DEF IInv, MarksAreIdle, TypeOK
  <1>5. \A k \in Lane : Queued(k)' = {}
    BY <1>1 DEF Queued
  <1>6. registered \in {0} \cup Lane
    BY DEF IInv, TypeOK, Lane
  <1>7. IndexIsComplete'
    BY <1>5, <1>6 DEF IndexIsComplete
  <1>8. NoWorkIsStranded'
    <2> SUFFICES ASSUME NEW w \in Work, Unanswered(w)'
                 PROVE  operation'[w] = "running" \/ cancels'[w] = "taken" \/ InHand(w)'
      BY DEF NoWorkIsStranded, Held
    <2>1. Unanswered(w) /\ Held(w)
      BY DEF IInv, NoWorkIsStranded
    <2> QED
      BY <2>1 DEF IInv, IndexIsComplete, Held
  <1> QED
    BY <1>3, <1>4, <1>7, <1>8

LEMMA LeaveIInv == ASSUME IInv, UNCHANGED generation, NEW l \in Lane, Leave(l) PROVE IInv'
  <1>0. /\ registered \in {0} \cup Lane /\ Len(lanes) \in Nat
        /\ l \in Closer \cup 1..MaxLanes
    BY LenProperties, SchedulerAssumption DEF IInv, TypeOK, Lane
  <1>1. /\ index \subseteq Taken(registered) /\ Taken(registered) \subseteq Work
        /\ \A w \in Work : InHand(w) \/ w \in Taken(registered) => InHand(w)'
        /\ drained' \in [Closer \cup 1..MaxLanes -> SUBSET Work]
    <2>1. index \subseteq Taken(registered) /\ Taken(registered) \subseteq Work
      BY <1>0, QueuedHas DEF Taken, IInv, TypeOK
    <2> QED
      BY <1>0, <2>1, FilledHands DEF Leave, IInv
  <1>2. \A k \in Lane : [lanes[k] EXCEPT !.pc = IF k = l THEN "answering" ELSE @,
                                         !.queue = IF k = registered THEN <<>> ELSE @] \in LaneState
    <2> TAKE k \in Lane
    <2>1. <<>> \in Seq(Work) /\ lanes[k] \in LaneState
      BY EmptySeq, QueuedHas DEF IInv
    <2> QED
      BY <2>1 DEF LaneState
  <1>3. /\ lanes' \in Seq(LaneState) /\ Len(lanes') = Len(lanes) /\ Lane' = Lane
        /\ \A k \in Lane : /\ lanes'[k].queue = IF k = registered THEN <<>> ELSE lanes[k].queue
                           /\ lanes'[k].current = lanes[k].current
    <2>1. lanes' \in [1..Len(lanes) -> LaneState]
      BY <1>2 DEF Leave, Lane
    <2>2. lanes' \in Seq(LaneState) /\ Len(lanes') = Len(lanes)
      BY <2>1, <1>0, IsASeq, LenProperties
    <2> QED
      BY <2>2, QueuedHas DEF Leave, Lane, LaneState, IInv
  <1>4. TypeOK'
    BY <1>1, <1>3 DEF Leave, IInv, TypeOK
  <1>5. \A w \in Work : Unanswered(w)' <=> Unanswered(w)
    BY DEF Leave, Unanswered
  <1>6. QueuesAreFresh' /\ MarksAreIdle' /\ IndexIsComplete' /\ NoWorkIsStranded'
    <2>1. marked' \subseteq marked /\ registered' \in {0, registered}
          /\ UNCHANGED <<submitted, operation, cancels>>
      BY DEF Leave
    <2>2. \A w \in Work : InHand(w) \/ w \in index => InHand(w)'
      BY <1>1
    <2> QED
      BY <1>3, <1>4, <1>5, <2>1, <2>2, EmptiedLanes
  <1>7. OutlivedWorkIsInterrupted'
    <2>1. UNCHANGED <<registered, operation, interrupted, closes>>
      BY DEF Leave
    <2>2. \A c \in Closer, w \in Work : AboutToTell(c, w)' <=> AboutToTell(c, w)
      BY <2>1 DEF AboutToTell
    <2> QED
      BY <1>3, <2>1, <2>2 DEF IInv, OutlivedWorkIsInterrupted
  <1> QED
    BY <1>4, <1>6, <1>7 DEF IInv

LEMMA LeaveAnswersIInv ==
    ASSUME IInv, UNCHANGED generation, NEW l \in Lane, LeaveAnswers(l) PROVE IInv'
  <1> DEFINE new == [lanes[l] EXCEPT !.pc = "left"]
  <1>0. l \in Closer \cup 1..MaxLanes
    BY LenProperties, SchedulerAssumption DEF IInv, TypeOK, Lane
  <1>1. new \in LaneState /\ new.queue = lanes[l].queue /\ new.current = lanes[l].current
    BY QueuedHas DEF LaneState, IInv
  <1>2. lanes' = [lanes EXCEPT ![l] = new]
    BY DEF LeaveAnswers
  <1> HIDE DEF new
  <1>3. /\ lanes' \in Seq(LaneState) /\ Len(lanes') = Len(lanes)
        /\ \A k \in Lane : /\ lanes'[k].queue = lanes[k].queue
                           /\ lanes'[k].current \in {lanes[k].current, NoWork}
    BY <1>1, <1>2, LanePut DEF IInv
  <1>4. /\ result' \in [Work -> {"none", "value", "cancelled"}] /\ gone' \subseteq Work
        /\ \A w \in Work : Unanswered(w)' => Unanswered(w) /\ w \notin drained[l]
    BY DeliverAnswers DEF LeaveAnswers, IInv, Unanswered
  <1>5. /\ drained' \in [Closer \cup 1..MaxLanes -> SUBSET Work]
        /\ \A w \in Work : w \notin drained[l] /\ InHand(w) => InHand(w)'
    BY <1>0, EmptiedHands DEF LeaveAnswers, IInv
  <1>6. TypeOK'
    BY <1>3, <1>4, <1>5 DEF IInv, TypeOK, LeaveAnswers
  <1> QED
    BY <1>3, <1>4, <1>5, <1>6, CalmStep DEF LeaveAnswers, AboutToTell

LEMMA CloseBeginsIInv ==
    ASSUME IInv, UNCHANGED generation, NEW c \in Closer, CloseBegins(c) PROVE IInv'
  <1> DEFINE new == [lanes[registered] EXCEPT !.queue = <<>>]
             w == lanes[registered].current
             call == [pc |-> "answering", lane |-> registered, task |-> w, expired |-> FALSE,
                      targets |-> {"processor"} \cup IF w = NoWork THEN {} ELSE {"task"}]
  <1>0. /\ registered \in Lane /\ registered # 0 /\ lanes[registered] \in LaneState
        /\ registered \in 0..MaxLanes
    <2>1. registered \in Lane /\ registered # 0
      BY DEF CloseBegins, Unregister, IInv, TypeOK, Lane
    <2>2. Len(lanes) \in Nat /\ registered \in 0..Len(lanes) /\ Len(lanes) <= MaxLanes
      BY LenProperties DEF IInv, TypeOK
    <2> QED
      BY <2>1, <2>2, QueuedHas, SchedulerAssumption DEF IInv
  <1>1. /\ drained' \in [Closer \cup 1..MaxLanes -> SUBSET Work]
        /\ \A v \in Work : InHand(v) \/ v \in index => InHand(v)'
    BY FilledHands DEF CloseBegins, Taken, IInv, TypeOK
  <1>2. new \in LaneState /\ new.queue = <<>> /\ new.current = w
    BY <1>0, EmptySeq DEF LaneState
  <1>3. lanes' = [lanes EXCEPT ![registered] = new]
    BY DEF CloseBegins, Unregister, Discard
  <1>4. /\ closes[c].pc = "out" /\ closes' = [closes EXCEPT ![c] = call]
        /\ registered' = 0 /\ index' = {} /\ marked' = {}
        /\ UNCHANGED <<submitted, gone, result, operation, interrupted, cancels, closed>>
    BY DEF CloseBegins, Unregister
  <1>5. call \in CloseState /\ call.pc = "answering" /\ call.task = w
    <2>1. w \in Work \cup {NoWork}
      BY <1>0 DEF LaneState
    <2> HIDE DEF w
    <2> QED
      BY <1>0, <2>1 DEF CloseState
  <1> HIDE DEF new, call
  <1>6. /\ lanes' \in Seq(LaneState) /\ Len(lanes') = Len(lanes) /\ Lane' = Lane
        /\ lanes'[registered] = new /\ \A k \in Lane : k # registered => lanes'[k] = lanes[k]
    BY <1>0, <1>2, <1>3, LanePut DEF IInv
  <1>7. /\ closes' \in [Closer -> CloseState] /\ closes'[c] = call
        /\ \A d \in Closer : d # c => closes'[d] = closes[d]
    BY <1>4, <1>5 DEF IInv, TypeOK
  <1>8. TypeOK'
    <2>1. registered' \in 0..Len(lanes')
      BY <1>4, <1>6, LenProperties DEF IInv, TypeOK
    <2> QED
      BY <1>1, <1>4, <1>6, <1>7, <2>1 DEF IInv, TypeOK
  <1>9. QueuesAreFresh' /\ MarksAreIdle' /\ IndexIsComplete' /\ NoWorkIsStranded'
    <2>1. \A v \in Work : Unanswered(v)' <=> Unanswered(v)
      BY <1>4 DEF Unanswered
    <2> QED
      BY <1>1, <1>2, <1>4, <1>6, <1>8, <2>1, EmptiedLanes
  <1>10. OutlivedWorkIsInterrupted'
    <2> SUFFICES ASSUME NEW k \in Lane, NEW v \in Work, lanes'[k].current = v,
                        operation[v] = "running", v \notin interrupted
                 PROVE  \E d \in Closer : AboutToTell(d, v)'
      BY <1>4, <1>6 DEF OutlivedWorkIsInterrupted
    <2>1. CASE k = registered
      BY <2>1, <1>2, <1>5, <1>6, <1>7 DEF AboutToTell
    <2>2. CASE k # registered
      <3>1. PICK d \in Closer : AboutToTell(d, v)
        BY <2>2, <1>6 DEF IInv, OutlivedWorkIsInterrupted
      <3>2. d # c
        BY <3>1, <1>4 DEF AboutToTell
      <3> QED
        BY <3>1, <3>2, <1>7 DEF AboutToTell
    <2> QED
      BY <2>1, <2>2
  <1> QED
    BY <1>8, <1>9, <1>10 DEF IInv

-----------------------------------------------------------------------------
LEMMA NextIInv == IInv /\ [Next]_vars => IInv'
  <1> SUFFICES ASSUME IInv, [Next]_vars PROVE IInv'
    OBVIOUS
  <1>1. CASE Next
    <2>1. ASSUME NEW w \in Work, SubmitAndWait(w) \/ GiveUp(w) \/ OperationEnds(w) \/ CancelHandles(w)
          PROVE  IInv'
      BY <1>1, <2>1, SubmitIInv, GiveUpIInv, OperationEndsIInv, CancelIInv DEF Next
    <2>2. ASSUME NEW l \in Lane, Process(l) PROVE IInv'
      BY <1>1, <2>2, TakeIInv, ClearIInv, LoseLaneIInv, LeaveIInv, LeaveAnswersIInv DEF Next, Process
    <2>3. ASSUME NEW c \in Closer, CloseSession(c) PROVE IInv'
      BY <1>1, <2>3, CloseBeginsIInv, CloseWaitsIInv DEF Next, CloseSession
    <2>4. CASE Close
      <3>1. TypeOK'
        BY <1>1, <2>4 DEF Next, Close, IInv, TypeOK, Lane
      <3> QED
        BY <2>4, <3>1, CalmStep DEF Close, Unanswered, InHand, AboutToTell
    <2> QED
      BY <1>1, <2>1, <2>2, <2>3, <2>4 DEF Next, Step
  <1>2. CASE UNCHANGED vars
    <2>1. TypeOK'
      BY <1>2 DEF vars, state, IInv, TypeOK
    <2> QED
      BY <1>2, <2>1, CalmStep DEF vars, state, Unanswered, InHand, AboutToTell
  <1> QED
    BY <1>1, <1>2

\* The inductive invariant holds of every behaviour of the scheduler.
THEOREM SchedulerInvariant == Spec => []IInv
  BY InitIInv, NextIInv, PTL DEF Spec

\* Lanes, queues, marks and the calls in progress keep their types, and no more lanes
\* are created than the bound.
THEOREM TypeCorrect == Spec => []TypeOK
  BY SchedulerInvariant, PTL DEF IInv

\* Whatever submits, gives up, cancels, closes or leaves in between, work that somebody
\* waits for is in the queue of the session's lane, running, or in the hands of a call or
\* of a leaving processor that will answer it.
THEOREM NothingStranded == Spec => []NoWorkIsStranded
  BY SchedulerInvariant, PTL DEF IInv

\* An operation that runs on beside the lane that the session has now was told to stop, or
\* the CloseSession that removed its lane has still to make the step that tells it.
THEOREM OutlivedIsTold == Spec => []OutlivedWorkIsInterrupted
  BY SchedulerInvariant, PTL DEF IInv
=============================================================================
