------------------------ MODULE TaskSchedulerProofs ------------------------
(***************************************************************************)
(* Theorems about TaskScheduler, for any tasks, callers, limit and number   *)
(* of executions.                                                           *)
(***************************************************************************)
EXTENDS TaskScheduler, SequenceTheorems, FiniteSetTheorems, TLAPS

RunRec == [task : Task, cancelled : BOOLEAN, guard : Guarded \cup {"checking", "gone"},
           work : {"starting", "executing", "failing", "over"}]

Live == {i \in Run : runs[i].guard \in Guarded}

\* The limit, where there is one.
Within(n) == MaxConcurrent > 0 => n <= MaxConcurrent

\* While nobody calls, a run that is guarded has the entry of its task, and there are
\* no more entries than the limit.
Slots ==
  mode # "called" =>
    /\ \A c \in Caller : calls[c].pc = "out"
    /\ IsFiniteSet(Listed) /\ Within(Cardinality(Listed))
    /\ \A i \in Live : running[runs[i].task] = i

RunsOK == runs \in Seq(RunRec)
Sound == RunsOK /\ running \in [Task -> Nat]

\* An execution that nobody told to stop.
Untold(i) == runs[i].work # "over" /\ ~runs[i].cancelled

\* While nobody calls, the guard leaves an execution alone only when it is over or was
\* told to stop.
GuardsWatch ==
  mode # "called" => \A i \in Run : Untold(i) => runs[i].guard = "waiting"

IInv == Sound /\ Slots

LEMMA InitIInv == Init => IInv
  <1> SUFFICES ASSUME Init PROVE IInv
    OBVIOUS
  <1>1. Sound
    BY EmptySeq DEF Init, Sound, RunsOK
  <1>2. Run = {} /\ Listed = {}
    BY EmptySeq DEF Init, Run, Listed
  <1>3. Slots
    BY <1>2, FS_EmptySet, LimitAssumption DEF Within, Init, Slots, Live, NoCall
  <1> QED
    BY <1>1, <1>3 DEF IInv

LEMMA RunIs ==
  ASSUME Sound
  PROVE  Len(runs) \in Nat /\ DOMAIN runs = Run /\ \A i \in Run : runs[i] \in RunRec
  BY LenProperties, ElementOfSeq DEF Sound, RunsOK, Run

\* Writing one run.
LEMMA RunPut ==
  ASSUME Sound, NEW i \in Run, NEW new \in RunRec, runs' = [runs EXCEPT ![i] = new]
  PROVE  /\ runs' \in Seq(RunRec) /\ Run' = Run
         /\ \A j \in Run : runs'[j] = IF j = i THEN new ELSE runs[j]
  BY ExceptSeq DEF Sound, RunsOK, Run

\* A step that starts nothing and gives nothing up.
LEMMA SlotsFrame ==
  ASSUME IInv, UNCHANGED <<mode, running, calls>>, runs' \in Seq(RunRec), Run' = Run,
         \A i \in Run : /\ runs'[i].task = runs[i].task
                        /\ runs'[i].guard \in Guarded => runs[i].guard \in Guarded
  PROVE  IInv'
  <1>1. Sound'
    BY DEF IInv, Sound, RunsOK, RunRec, Guarded
  <1>2. Listed' = Listed
    BY DEF Listed
  <1>3. \A i \in Live' : i \in Live /\ runs'[i].task = runs[i].task
    BY DEF Live
  <1>4. ASSUME mode # "called"
        PROVE  /\ IsFiniteSet(Listed') /\ Within(Cardinality(Listed'))
               /\ \A j \in Live' : running'[runs'[j].task] = j
    BY <1>2, <1>3, <1>4 DEF IInv, Slots
  <1> QED
    BY <1>1, <1>4 DEF IInv, Slots

\* What an execution or its guard writes into the record of the run; the guard that gives
\* up is not among them.
LEMMA RunWrites ==
  ASSUME Sound, NEW i \in Run,
         Execute(i) \/ TimeOut(i) \/ ReportTimeOut(i) \/ Check(i)
  PROVE  \E new \in RunRec :
           /\ runs' = [runs EXCEPT ![i] = new] /\ new.task = runs[i].task
           /\ runs[i].guard \in Guarded <=> new.guard \in Guarded
  <1>0. runs[i] \in RunRec
    BY RunIs
  <1>1. ASSUME NEW from, NEW to \in {"starting", "executing", "failing", "over"},
               Work(i, from, to)
        PROVE  \E new \in RunRec :
                 /\ runs' = [runs EXCEPT ![i] = new] /\ new.task = runs[i].task
                 /\ runs[i].guard \in Guarded <=> new.guard \in Guarded
    <2> DEFINE new == [runs[i] EXCEPT !.work = to]
    <2>1. runs' = [runs EXCEPT ![i] = new]
      BY <1>1 DEF Work
    <2>2. new \in RunRec /\ new.task = runs[i].task /\ new.guard = runs[i].guard
      BY <1>0 DEF RunRec
    <2> QED
      BY <2>1, <2>2
  <1>2. CASE Execute(i)
    BY <1>1, <1>2 DEF Execute, Begin, Finish, Report
  <1>3. CASE TimeOut(i)
    <2> DEFINE new == [runs[i] EXCEPT !.guard = "reporting", !.cancelled = TRUE]
    <2>1. runs' = [runs EXCEPT ![i] = new] /\ runs[i].guard \in Guarded
      BY <1>3 DEF TimeOut, Guarded
    <2>2. new \in RunRec /\ new.task = runs[i].task /\ new.guard \in Guarded
      BY <1>0 DEF RunRec, Guarded
    <2> QED
      BY <2>1, <2>2
  <1>4. CASE ReportTimeOut(i)
    <2> DEFINE new == [runs[i] EXCEPT !.guard = "leaving"]
    <2>1. runs' = [runs EXCEPT ![i] = new] /\ runs[i].guard \in Guarded
      BY <1>4 DEF ReportTimeOut, Guard, Guarded
    <2>2. new \in RunRec /\ new.task = runs[i].task /\ new.guard \in Guarded
      BY <1>0 DEF RunRec, Guarded
    <2> QED
      BY <2>1, <2>2
  <1>5. CASE Check(i)
    <2> DEFINE new == [runs[i] EXCEPT !.guard = "gone"]
    <2>1. runs' = [runs EXCEPT ![i] = new] /\ runs[i].guard \notin Guarded
      BY <1>5 DEF Check, Guard, Guarded
    <2>2. new \in RunRec /\ new.task = runs[i].task /\ new.guard \notin Guarded
      BY <1>0 DEF RunRec, Guarded
    <2> QED
      BY <2>1, <2>2
  <1> QED
    BY <1>2, <1>3, <1>4, <1>5

\* The steps of an execution, and all steps of its guard but the one that gives up.
LEMMA RunStep ==
  ASSUME IInv, NEW i \in Run,
         Execute(i) \/ TimeOut(i) \/ ReportTimeOut(i) \/ Check(i)
  PROVE  IInv'
  <1>1. Sound /\ runs[i] \in RunRec
    BY RunIs DEF IInv
  <1>2. UNCHANGED <<mode, running, calls>>
    BY DEF Execute, Begin, Finish, Report, TimeOut, ReportTimeOut, Check
  <1>3. PICK new \in RunRec :
          /\ runs' = [runs EXCEPT ![i] = new] /\ new.task = runs[i].task
          /\ runs[i].guard \in Guarded <=> new.guard \in Guarded
    BY <1>1, RunWrites
  <1>4. /\ runs' \in Seq(RunRec) /\ Run' = Run
        /\ \A j \in Run : runs'[j] = IF j = i THEN new ELSE runs[j]
    BY <1>1, <1>3, RunPut
  <1> QED
    BY <1>2, <1>3, <1>4, SlotsFrame

\* The guard gives up its entry as it stops being live.
LEMMA LeaveStep ==
  ASSUME IInv, NEW i \in Run, Leave(i)
  PROVE  IInv'
  <1>1. Sound /\ runs[i] \in RunRec /\ runs[i].guard \in Guarded
    BY RunIs DEF IInv, Leave, Leaving, Guarded
  <1> DEFINE new == [runs[i] EXCEPT !.guard = "checking"]
             t == runs[i].task
  <1>2. new \in RunRec /\ new.task = t /\ new.guard \notin Guarded /\ t \in Task
    BY <1>1 DEF RunRec, Guarded
  <1>3. runs' = [runs EXCEPT ![i] = new]
    BY DEF Leave, Leaving
  <1>4. /\ runs' \in Seq(RunRec) /\ Run' = Run
        /\ \A j \in Run : runs'[j] = IF j = i THEN new ELSE runs[j]
    BY <1>1, <1>2, <1>3, RunPut
  <1>5. running' = [running EXCEPT ![t] = 0] /\ UNCHANGED <<mode, calls>>
    BY DEF Leave
  <1>6. Sound'
    BY <1>1, <1>2, <1>4, <1>5 DEF Sound, RunsOK, RunRec, Guarded
  <1>7. ASSUME mode # "called"
        PROVE  /\ IsFiniteSet(Listed') /\ Within(Cardinality(Listed'))
               /\ \A j \in Live' : running'[runs'[j].task] = j
    <2>1. IsFiniteSet(Listed) /\ Within(Cardinality(Listed))
          /\ \A j \in Live : running[runs[j].task] = j
      BY <1>7 DEF IInv, Slots
    <2>2. Listed' \in SUBSET Listed
      BY <1>1, <1>2, <1>5 DEF Listed, Sound
    <2>3. IsFiniteSet(Listed') /\ Cardinality(Listed') <= Cardinality(Listed)
      BY <2>1, <2>2, FS_Subset
    <2>4. Cardinality(Listed) \in Nat /\ Cardinality(Listed') \in Nat
      BY <2>1, <2>3, FS_CardinalityType
    <2>5. \A j \in Live' : j \in Live /\ j # i /\ runs'[j].task = runs[j].task
      BY <1>2, <1>4 DEF Live
    <2>6. \A j \in Live' : runs[j].task # t
      BY <1>1, <2>1, <2>5 DEF Live
    <2>7. \A j \in Live' : running'[runs'[j].task] = j
      BY <1>1, <1>5, <2>1, <2>5, <2>6 DEF Sound
    <2> QED
      BY <2>1, <2>3, <2>4, <2>7, LimitAssumption DEF Within
  <1> QED
    BY <1>5, <1>6, <1>7 DEF IInv, Slots

\* The loop enters a task that has no entry, while there is room.
LEMMA StartStep ==
  ASSUME IInv, NEW t \in Task, Start(t)
  PROVE  IInv'
  <1>1. Sound /\ Len(runs) \in Nat
    BY RunIs DEF IInv
  <1>2. CASE UNCHANGED <<running, runs>>
    <2>1. runs' \in Seq(RunRec) /\ Run' = Run /\ UNCHANGED <<mode, running, calls>>
      BY <1>1, <1>2 DEF Start, Sound, RunsOK, Run
    <2> QED
      BY <1>2, <2>1, SlotsFrame
  <1>3. CASE ~(UNCHANGED <<running, runs>>)
    <2> DEFINE new == [task |-> t, cancelled |-> ~up, guard |-> "waiting", work |-> "starting"]
    <2>1. /\ ~(MaxConcurrent > 0 /\ Cardinality(Listed) >= MaxConcurrent) /\ running[t] = 0
          /\ runs' = Append(runs, new) /\ running' = [running EXCEPT ![t] = Len(runs) + 1]
          /\ UNCHANGED <<mode, calls>>
      BY <1>3 DEF Start
    <2>2. new \in RunRec
      BY DEF RunRec, Guarded
    <2>3. /\ runs' \in Seq(RunRec) /\ Len(runs') = Len(runs) + 1
          /\ \A j \in Run : runs'[j] = runs[j]
          /\ runs'[Len(runs) + 1] = new
      BY <1>1, <2>1, <2>2, AppendProperties DEF Sound, RunsOK, Run
    <2>4. Sound'
      BY <1>1, <2>1, <2>3 DEF Sound, RunsOK, RunRec, Guarded
    <2>5. ASSUME mode # "called"
          PROVE  /\ IsFiniteSet(Listed') /\ Within(Cardinality(Listed'))
                 /\ \A j \in Live' : running'[runs'[j].task] = j
      <3>1. IsFiniteSet(Listed) /\ Within(Cardinality(Listed))
            /\ \A j \in Live : running[runs[j].task] = j
        BY <2>5 DEF IInv, Slots
      <3>2. Listed' = Listed \cup {t}
        BY <1>1, <2>1 DEF Listed, Sound
      <3>3. IsFiniteSet(Listed') /\ Cardinality(Listed') <= Cardinality(Listed) + 1
            /\ Cardinality(Listed) \in Nat
        BY <3>1, <3>2, FS_AddElement, FS_CardinalityType
      <3>4. Cardinality(Listed') \in Nat
        BY <3>3, FS_CardinalityType
      <3>5. Within(Cardinality(Listed'))
        BY <2>1, <3>3, <3>4, LimitAssumption DEF Within
      <3>6. \A j \in Live' : j = Len(runs) + 1 \/ (j \in Live /\ runs'[j] = runs[j])
        BY <1>1, <2>3 DEF Live, Run
      <3>7. ASSUME NEW j \in Live' PROVE running'[runs'[j].task] = j
        <4>1. CASE j = Len(runs) + 1
          BY <1>1, <2>1, <2>3, <4>1 DEF Sound
        <4>2. CASE j \in Live /\ runs'[j] = runs[j]
          <5>1. runs[j].task # t /\ running[runs[j].task] = j
            BY <1>1, <2>1, <3>1, <4>2 DEF Live, Run
          <5>2. runs[j].task \in Task
            BY <1>1, <4>2, RunIs DEF Live, RunRec
          <5> QED
            BY <1>1, <2>1, <4>2, <5>1, <5>2 DEF Sound
        <4> QED
          BY <3>6, <4>1, <4>2
      <3> QED
        BY <3>3, <3>5, <3>7
    <2> QED
      BY <2>1, <2>4, <2>5 DEF IInv, Slots
  <1> QED
    BY <1>2, <1>3

\* Stop cancels every run.
LEMMA StopStep ==
  ASSUME IInv, Stop
  PROVE  IInv'
  <1>1. Sound /\ Len(runs) \in Nat /\ \A i \in Run : runs[i] \in RunRec
    BY RunIs DEF IInv
  <1>2. runs' = [i \in 1..Len(runs) |-> [runs[i] EXCEPT !.cancelled = TRUE]]
    BY DEF Stop, Run
  <1>3. \A i \in 1..Len(runs) : [runs[i] EXCEPT !.cancelled = TRUE] \in RunRec
    BY <1>1 DEF Run, RunRec
  <1>4. runs' \in Seq(RunRec) /\ Len(runs') = Len(runs)
    BY <1>1, <1>2, <1>3
  <1>5. \A i \in Run : runs'[i].task = runs[i].task /\ runs'[i].guard = runs[i].guard
    BY <1>1, <1>2 DEF Run, RunRec
  <1>6. Run' = Run /\ UNCHANGED <<mode, running, calls>>
    BY <1>4 DEF Run, Stop
  <1> QED
    BY <1>4, <1>5, <1>6, SlotsFrame

\* Calls are made in one mode only.
LEMMA CallStep ==
  ASSUME IInv, NEW c \in Caller, Call(c)
  PROVE  IInv'
  <1>1. Sound /\ Len(runs) \in Nat /\ \A i \in Run : runs[i] \in RunRec
    BY RunIs DEF IInv
  <1>2. mode = "called" /\ mode' = mode
    BY DEF IInv, Slots, Call, MayCall, Cancel, Mark, Pause, StopRun, Drop, Record, Resume, Submit,
           Interrupt
  <1>3. running' \in [Task -> Nat]
    <2>1. running' = running \/ running' = [running EXCEPT ![calls[c].task] = 0]
      BY DEF Call, Cancel, Mark, Pause, StopRun, Drop, Record, Resume, Submit, Interrupt
    <2> QED
      BY <1>1, <2>1 DEF Sound
  <1>4. runs' \in Seq(RunRec)
    <2>1. CASE UNCHANGED runs
      BY <1>1, <2>1 DEF Sound, RunsOK
    <2>2. CASE StopRun(c)
      <3> DEFINE r == calls[c].run
      <3>1. runs' = [runs EXCEPT ![r] = [runs[r] EXCEPT !.cancelled = TRUE]]
        BY <2>2 DEF StopRun
      <3>2. CASE r \in Run
        <4>1. [runs[r] EXCEPT !.cancelled = TRUE] \in RunRec
          BY <1>1, <3>2 DEF RunRec
        <4> QED
          BY <1>1, <3>1, <3>2, <4>1, RunPut
      <3>3. CASE r \notin Run
        <4>1. runs \in [Run -> RunRec]
          BY <1>1, LenProperties DEF Sound, RunsOK, Run
        <4>2. runs' = runs
          BY <3>1, <3>3, <4>1
        <4> QED
          BY <1>1, <4>2 DEF Sound, RunsOK
      <3> QED
        BY <3>2, <3>3
    <2>3. CASE Interrupt(c)
      <3>1. runs' = [i \in 1..Len(runs) |-> IF running[runs[i].task] = i
                                            THEN [runs[i] EXCEPT !.cancelled = TRUE] ELSE runs[i]]
        BY <2>3 DEF Interrupt, Run
      <3>2. \A i \in 1..Len(runs) : (IF running[runs[i].task] = i
                                     THEN [runs[i] EXCEPT !.cancelled = TRUE] ELSE runs[i]) \in RunRec
        BY <1>1 DEF Run, RunRec
      <3> QED
        BY <1>1, <3>1, <3>2
    <2> QED
      BY <2>1, <2>2, <2>3 DEF Call, Cancel, Mark, Pause, Drop, Record, Resume, Submit
  <1> QED
    BY <1>2, <1>3, <1>4 DEF IInv, Sound, RunsOK, RunRec, Guarded, Slots

-----------------------------------------------------------------------------
LEMMA InitWatch == Init => GuardsWatch
  BY EmptySeq DEF Init, GuardsWatch, Run

\* What an execution or its guard writes leaves no execution unwatched.
LEMMA WatchRun ==
  ASSUME Sound, GuardsWatch, NEW i \in Run, Execute(i) \/ Watch(i)
  PROVE  GuardsWatch'
  <1>1. runs[i] \in RunRec
    BY RunIs
  <1>2. mode' = mode
    BY DEF Execute, Watch, Begin, Finish, Report, TimeOut, ReportTimeOut, Leave, Check
  <1>3. ASSUME NEW new \in RunRec, runs' = [runs EXCEPT ![i] = new],
               new.work # "over" /\ ~new.cancelled /\ mode # "called" => new.guard = "waiting"
        PROVE  GuardsWatch'
    <2>1. Run' = Run /\ \A j \in Run : runs'[j] = IF j = i THEN new ELSE runs[j]
      BY <1>3, RunPut
    <2> QED
      BY <1>2, <1>3, <2>1 DEF GuardsWatch, Untold
  <1>4. ASSUME NEW from \in {"starting", "executing", "failing"},
               NEW to \in {"starting", "executing", "failing", "over"}, Work(i, from, to)
        PROVE  GuardsWatch'
    <2> DEFINE new == [runs[i] EXCEPT !.work = to]
    <2>1. runs' = [runs EXCEPT ![i] = new] /\ runs[i].work = from
      BY <1>4 DEF Work
    <2>2. new \in RunRec /\ new.guard = runs[i].guard /\ new.cancelled = runs[i].cancelled
      BY <1>1 DEF RunRec
    <2>3. new.work # "over" /\ ~new.cancelled /\ mode # "called" => new.guard = "waiting"
      BY <2>1, <2>2 DEF GuardsWatch, Untold
    <2> HIDE DEF new
    <2> QED
      BY <1>3, <2>1, <2>2, <2>3
  <1>5. CASE Execute(i)
    BY <1>4, <1>5 DEF Execute, Begin, Finish, Report
  <1>6. CASE TimeOut(i)
    <2> DEFINE new == [runs[i] EXCEPT !.guard = "reporting", !.cancelled = TRUE]
    <2>1. runs' = [runs EXCEPT ![i] = new]
      BY <1>6 DEF TimeOut
    <2>2. new \in RunRec /\ new.cancelled
      BY <1>1 DEF RunRec, Guarded
    <2> HIDE DEF new
    <2> QED
      BY <1>3, <2>1, <2>2
  \* A guard that is not waiting any more watches nobody.
  <1>7. ASSUME NEW to \in Guarded \cup {"checking", "gone"},
               runs' = [runs EXCEPT ![i].guard = to],
               runs[i].guard = "waiting" => runs[i].work = "over" \/ runs[i].cancelled
        PROVE  GuardsWatch'
    <2> DEFINE new == [runs[i] EXCEPT !.guard = to]
    <2>1. runs' = [runs EXCEPT ![i] = new]
      BY <1>7
    <2>2. new \in RunRec /\ new.work = runs[i].work /\ new.cancelled = runs[i].cancelled
      BY <1>1 DEF RunRec
    <2>3. new.work # "over" /\ ~new.cancelled /\ mode # "called" => new.guard = "waiting"
      BY <1>7, <2>2 DEF GuardsWatch, Untold
    <2> HIDE DEF new
    <2> QED
      BY <1>3, <2>1, <2>2, <2>3
  <1>8. CASE ReportTimeOut(i) \/ Check(i)
    BY <1>7, <1>8 DEF ReportTimeOut, Check, Guard, Guarded
  <1>9. CASE Leave(i)
    BY <1>7, <1>9 DEF Leave, Leaving
  <1> QED
    BY <1>5, <1>6, <1>8, <1>9 DEF Watch

\* A new run is watched, and Stop tells every run.
LEMMA WatchStart ==
  ASSUME Sound, GuardsWatch, NEW t \in Task, Start(t)
  PROVE  GuardsWatch'
  <1>1. Len(runs) \in Nat
    BY RunIs
  <1>2. CASE UNCHANGED runs
    BY <1>2 DEF Start, GuardsWatch, Untold, Run
  <1>3. CASE ~UNCHANGED runs
    <2> DEFINE new == [task |-> t, cancelled |-> ~up, guard |-> "waiting", work |-> "starting"]
    <2>1. runs' = Append(runs, new) /\ mode' = mode
      BY <1>3 DEF Start
    <2>2. new \in RunRec /\ new.guard = "waiting"
      BY DEF RunRec, Guarded
    <2> HIDE DEF new
    <2>3. /\ Len(runs') = Len(runs) + 1
          /\ \A j \in Run : runs'[j] = runs[j]
          /\ runs'[Len(runs) + 1] = new
      BY <1>1, <2>1, <2>2, AppendProperties DEF Sound, RunsOK, Run
    <2>4. \A j \in Run' : j \in Run \/ j = Len(runs) + 1
      BY <1>1, <2>3 DEF Run
    <2> QED
      BY <2>1, <2>2, <2>3, <2>4 DEF GuardsWatch, Untold
  <1> QED
    BY <1>2, <1>3

LEMMA WatchStop ==
  ASSUME Sound, Stop
  PROVE  GuardsWatch'
  <1>1. Len(runs) \in Nat /\ \A i \in Run : runs[i] \in RunRec
    BY RunIs
  <1>2. runs' = [i \in 1..Len(runs) |-> [runs[i] EXCEPT !.cancelled = TRUE]]
    BY DEF Stop, Run
  <1>3. Run' = Run /\ \A i \in Run : runs'[i].cancelled
    BY <1>1, <1>2 DEF Run, RunRec
  <1> QED
    BY <1>3 DEF GuardsWatch, Untold

\* Guarded runs have entries of their own, and executions nobody told are guarded.
LEMMA SlotsLimit == IInv /\ GuardsWatch => LimitHolds
  <1> DEFINE Going == {i \in Run : runs[i].work # "over" /\ ~runs[i].cancelled}
  <1> SUFFICES ASSUME IInv, GuardsWatch, mode # "called"
               PROVE  /\ Within(Cardinality(Going))
                      /\ \A i, j \in Going : runs[i].task = runs[j].task => i = j
    BY DEF LimitHolds, Within
  <1>0. Going \in SUBSET Live
    BY DEF GuardsWatch, Untold, Live, Guarded
  <1> HIDE DEF Going
  <1>1. IsFiniteSet(Listed) /\ Within(Cardinality(Listed))
        /\ \A i \in Live : running[runs[i].task] = i
    BY DEF IInv, Slots
  <1>2. \A i \in Live : i # 0 /\ runs[i].task \in Task
    BY RunIs DEF IInv, Live, Run, RunRec
  <1> DEFINE entry == [i \in Live |-> runs[i].task]
  <1>3. entry \in Injection(Live, Listed)
    <2>1. \A i \in Live : runs[i].task \in Listed
      BY <1>1, <1>2 DEF Listed
    <2>2. entry \in [Live -> Listed]
      BY <2>1
    <2>3. IsInjective(entry)
      BY <1>1 DEF IsInjective
    <2> QED
      BY <2>2, <2>3 DEF Injection
  <1>4. IsFiniteSet(Live) /\ Cardinality(Live) <= Cardinality(Listed)
    <2> HIDE DEF entry
    <2> QED
      BY <1>1, <1>3, FS_Injection
  <1>5. IsFiniteSet(Going) /\ Cardinality(Going) <= Cardinality(Live)
    BY <1>0, <1>4, FS_Subset
  <1>6. Cardinality(Going) \in Nat /\ Cardinality(Live) \in Nat /\ Cardinality(Listed) \in Nat
    BY <1>1, <1>4, <1>5, FS_CardinalityType
  <1>7. Within(Cardinality(Going))
    BY <1>1, <1>4, <1>5, <1>6, LimitAssumption DEF Within
  <1>8. \A i, j \in Live : runs[i].task = runs[j].task => i = j
    BY <1>1
  <1> QED
    BY <1>0, <1>7, <1>8

\* The inductive invariant holds in every reachable state.
THEOREM TaskInvariant == Spec => [](IInv /\ GuardsWatch)
  <1>1. IInv /\ [Next]_vars => IInv'
    <2> SUFFICES ASSUME IInv, [Next]_vars PROVE IInv'
      OBVIOUS
    <2>1. CASE Scan \/ EndStream \/ (\E t \in Task : Skip(t)) \/ UNCHANGED vars
      <3>1. runs' \in Seq(RunRec) /\ UNCHANGED <<mode, running, calls, runs>>
        BY <2>1 DEF IInv, Sound, RunsOK, Scan, EndStream, Skip, vars
      <3>2. Run' = Run
        BY <3>1 DEF Run
      <3> QED
        BY <3>1, <3>2, SlotsFrame
    <2>2. CASE \E t \in Task : Start(t)
      BY <2>2, StartStep
    <2>3. CASE Stop
      BY <2>3, StopStep
    <2>4. CASE \E i \in Run : Execute(i) \/ Watch(i)
      BY <2>4, RunStep, LeaveStep DEF Watch
    <2>5. CASE \E c \in Caller : Call(c)
      BY <2>5, CallStep
    <2> QED
      BY <2>1, <2>2, <2>3, <2>4, <2>5 DEF Next, Loop
  <1>2. IInv /\ GuardsWatch /\ [Next]_vars => GuardsWatch'
    <2> SUFFICES ASSUME IInv, GuardsWatch, [Next]_vars PROVE GuardsWatch'
      OBVIOUS
    <2>0. Sound
      BY DEF IInv
    <2>1. CASE Scan \/ EndStream \/ (\E t \in Task : Skip(t)) \/ UNCHANGED vars
      BY <2>1 DEF GuardsWatch, Untold, Run, Scan, EndStream, Skip, vars
    <2>2. CASE \E t \in Task : Start(t)
      BY <2>0, <2>2, WatchStart
    <2>3. CASE Stop
      BY <2>0, <2>3, WatchStop
    <2>4. CASE \E i \in Run : Execute(i) \/ Watch(i)
      BY <2>0, <2>4, WatchRun
    <2>5. ASSUME NEW c \in Caller, Call(c) PROVE GuardsWatch'
      <3>1. mode = "called" /\ mode' = mode
        BY <2>5 DEF IInv, Slots, Call, MayCall, Cancel, Mark, Pause, StopRun, Drop, Record,
                    Resume, Submit, Interrupt
      <3> QED
        BY <3>1 DEF GuardsWatch
    <2> QED
      BY <2>1, <2>2, <2>3, <2>4, <2>5 DEF Next, Loop
  <1> QED
    BY <1>1, <1>2, InitIInv, InitWatch, PTL DEF Spec

\* The limit of concurrent tasks (task_scheduler.go, schedule and executeTaskWrapper)
\* holds for every limit and any number of tasks and executions, while nobody calls, of
\* the executions that nobody told to stop.
THEOREM LimitIsKept == Spec => []LimitHolds
  BY TaskInvariant, SlotsLimit, PTL

-----------------------------------------------------------------------------
(* The entries of runningTasks, calls included.                            *)

\* The entry of a task is that of a run of this very task whose guard is still there.
IsHeld(t) ==
  running[t] \in Run /\ runs[running[t]].task = t /\ runs[running[t]].guard \in Guarded

\* What is safe whatever is called (task_scheduler.go, executeTaskWrapper and CancelTask):
\* the map has no more entries than the limit, every entry is held by a guard that will
\* remove it, and a call that looked a run up cancels a run of the task it was called for.
EntriesAccounted ==
  /\ MaxConcurrent > 0 => Cardinality(Listed) <= MaxConcurrent
  /\ \A t \in Listed : IsHeld(t)
  /\ \A c \in Caller : calls[c].pc = "stopping" =>
       calls[c].run \in Run /\ runs[calls[c].run].task = calls[c].task

CallRec == [pc : {"out", "marking", "stopping", "waiting", "recording", "submitting", "over",
                  "panicked"},
            task : Task \cup {NoCall.task}, run : Nat, goal : {"canceled", "paused"},
            again : BOOLEAN]

\* A call about to cancel a run looked up a run of its task.
Aims(c) == /\ calls[c].pc = "stopping"
           /\ calls[c].run \in Run /\ runs[calls[c].run].task = calls[c].task

EntriesInv ==
  /\ calls \in [Caller -> CallRec]
  /\ IsFiniteSet(Listed) /\ Within(Cardinality(Listed))
  /\ \A t \in Listed : IsHeld(t)
  /\ \A c \in Caller : calls[c].pc = "stopping" => Aims(c)

LEMMA InitEntries == Init => EntriesInv
  <1> SUFFICES ASSUME Init PROVE EntriesInv
    OBVIOUS
  <1>1. Listed = {}
    BY DEF Init, Listed
  <1>2. NoCall \in CallRec /\ NoCall.pc = "out"
    BY DEF NoCall, CallRec
  <1>3. calls \in [Caller -> CallRec] /\ \A c \in Caller : calls[c].pc = "out"
    BY <1>2 DEF Init
  <1> QED
    BY <1>1, <1>3, FS_EmptySet, LimitAssumption DEF Within, EntriesInv

\* A step that keeps the entries, the tasks of the runs and the guards that are there.
LEMMA EntriesFrame ==
  ASSUME EntriesInv, UNCHANGED running,
         \A i \in Run : /\ i \in Run' /\ runs'[i].task = runs[i].task
                        /\ runs[i].guard \in Guarded => runs'[i].guard \in Guarded,
         calls' \in [Caller -> CallRec],
         \A c \in Caller : calls'[c].pc = "stopping" => calls'[c] = calls[c] \/ Aims(c)'
  PROVE  EntriesInv'
  <1>1. Listed' = Listed
    BY DEF Listed
  <1>2. \A t \in Listed : IsHeld(t)'
    BY DEF EntriesInv, IsHeld
  <1>3. \A c \in Caller : calls'[c].pc = "stopping" => Aims(c)'
    BY DEF EntriesInv, Aims
  <1>4. /\ IsFiniteSet(Listed') /\ Within(Cardinality(Listed'))
        /\ \A t \in Listed' : IsHeld(t)'
    BY <1>1, <1>2 DEF EntriesInv
  <1> QED
    BY <1>3, <1>4 DEF EntriesInv

\* The steps of an execution and of its guard, but for the one that gives up.
LEMMA EntriesRun ==
  ASSUME Sound, EntriesInv, NEW i \in Run,
         Execute(i) \/ TimeOut(i) \/ ReportTimeOut(i) \/ Check(i)
  PROVE  EntriesInv'
  <1>1. UNCHANGED <<running, calls>>
    BY DEF Execute, Begin, Finish, Report, TimeOut, ReportTimeOut, Check
  <1>2. PICK new \in RunRec :
          /\ runs' = [runs EXCEPT ![i] = new] /\ new.task = runs[i].task
          /\ runs[i].guard \in Guarded <=> new.guard \in Guarded
    BY RunWrites
  <1>3. Run' = Run /\ \A j \in Run : runs'[j] = IF j = i THEN new ELSE runs[j]
    BY <1>2, RunPut
  <1>4. calls' \in [Caller -> CallRec] /\ \A c \in Caller : calls'[c] = calls[c]
    BY <1>1 DEF EntriesInv
  <1>5. \A j \in Run : /\ j \in Run' /\ runs'[j].task = runs[j].task
                       /\ runs[j].guard \in Guarded => runs'[j].guard \in Guarded
    BY <1>2, <1>3
  <1> QED
    BY <1>1, <1>4, <1>5, EntriesFrame

\* Giving up an entry, by the guard of its task or by a call.
LEMMA EntriesDrop ==
  ASSUME Sound, EntriesInv, NEW t, running' = [running EXCEPT ![t] = 0],
         \A i \in Run : i \in Run' /\ runs'[i].task = runs[i].task,
         \A i \in Run : runs[i].guard \in Guarded /\ runs[i].task # t
                          => runs'[i].guard \in Guarded,
         calls' \in [Caller -> CallRec],
         \A c \in Caller : calls'[c].pc = "stopping" => calls'[c] = calls[c]
  PROVE  EntriesInv'
  <1>1. \A u \in Listed' : u \in Listed /\ u # t /\ running'[u] = running[u]
    BY DEF Listed, Sound
  <1>2. \A u \in Listed' : IsHeld(u)'
    BY <1>1 DEF EntriesInv, IsHeld
  <1>3. Listed' \in SUBSET Listed
    BY <1>1
  <1>4. IsFiniteSet(Listed') /\ Cardinality(Listed') <= Cardinality(Listed)
    BY <1>3, FS_Subset DEF EntriesInv
  <1>5. Cardinality(Listed) \in Nat /\ Cardinality(Listed') \in Nat
    BY <1>4, FS_CardinalityType DEF EntriesInv
  <1>6. Within(Cardinality(Listed'))
    BY <1>4, <1>5, LimitAssumption DEF Within, EntriesInv
  <1>7. \A c \in Caller : calls'[c].pc = "stopping" => Aims(c)'
    BY DEF EntriesInv, Aims
  <1> QED
    BY <1>2, <1>4, <1>6, <1>7 DEF EntriesInv

LEMMA EntriesLeave ==
  ASSUME Sound, EntriesInv, NEW i \in Run, Leave(i)
  PROVE  EntriesInv'
  <1>1. runs[i] \in RunRec
    BY RunIs
  <1> DEFINE new == [runs[i] EXCEPT !.guard = "checking"]
             t == runs[i].task
  <1>2. new \in RunRec /\ new.task = t
    BY <1>1 DEF RunRec, Guarded
  <1>3. runs' = [runs EXCEPT ![i] = new]
    BY DEF Leave, Leaving
  <1>4. Run' = Run /\ \A j \in Run : runs'[j] = IF j = i THEN new ELSE runs[j]
    BY <1>2, <1>3, RunPut
  <1>5. running' = [running EXCEPT ![t] = 0] /\ UNCHANGED calls
    BY DEF Leave
  <1>6. \A j \in Run : /\ j \in Run' /\ runs'[j].task = runs[j].task
                       /\ runs[j].task # t => runs'[j].guard = runs[j].guard
    BY <1>2, <1>4
  <1>7. calls' \in [Caller -> CallRec] /\ \A c \in Caller : calls'[c] = calls[c]
    BY <1>5 DEF EntriesInv
  <1> QED
    BY <1>5, <1>6, <1>7, EntriesDrop

LEMMA EntriesStart ==
  ASSUME Sound, EntriesInv, NEW t \in Task, Start(t)
  PROVE  EntriesInv'
  <1>1. Len(runs) \in Nat
    BY RunIs
  <1>2. calls' \in [Caller -> CallRec] /\ \A c \in Caller : calls'[c] = calls[c]
    BY DEF Start, EntriesInv
  <1>3. CASE UNCHANGED <<running, runs>>
    <2>1. \A i \in Run : /\ i \in Run' /\ runs'[i].task = runs[i].task
                         /\ runs[i].guard \in Guarded => runs'[i].guard \in Guarded
      BY <1>3 DEF Run
    <2> QED
      BY <1>2, <1>3, <2>1, EntriesFrame
  <1>4. CASE ~(UNCHANGED <<running, runs>>)
    <2> DEFINE new == [task |-> t, cancelled |-> ~up, guard |-> "waiting", work |-> "starting"]
    <2>1. /\ ~(MaxConcurrent > 0 /\ Cardinality(Listed) >= MaxConcurrent) /\ running[t] = 0
          /\ runs' = Append(runs, new) /\ running' = [running EXCEPT ![t] = Len(runs) + 1]
      BY <1>4 DEF Start
    <2>2. new \in RunRec /\ new.task = t /\ new.guard \in Guarded
      BY DEF RunRec, Guarded
    <2> HIDE DEF new
    <2>3. /\ Len(runs') = Len(runs) + 1
          /\ \A j \in Run : runs'[j] = runs[j]
          /\ runs'[Len(runs) + 1] = new
      BY <1>1, <2>1, <2>2, AppendProperties DEF Sound, RunsOK, Run
    <2>4. Run \subseteq Run' /\ Len(runs) + 1 \in Run'
      BY <1>1, <2>3 DEF Run
    <2>5. Listed' = Listed \cup {t}
      BY <1>1, <2>1 DEF Listed, Sound
    <2>6. IsFiniteSet(Listed') /\ Cardinality(Listed') <= Cardinality(Listed) + 1
          /\ Cardinality(Listed) \in Nat
      <3>1. IsFiniteSet(Listed)
        BY DEF EntriesInv
      <3> QED
        BY <2>5, <3>1, FS_AddElement, FS_CardinalityType
    <2>7. Cardinality(Listed') \in Nat
      BY <2>6, FS_CardinalityType
    <2>8. Within(Cardinality(Listed'))
      BY <2>1, <2>6, <2>7, LimitAssumption DEF Within
    <2>9. ASSUME NEW u \in Listed' PROVE IsHeld(u)'
      <3>1. CASE u = t
        <4>1. running'[u] = Len(runs) + 1
          BY <2>1, <3>1 DEF Sound
        <4> QED
          BY <2>2, <2>3, <2>4, <3>1, <4>1 DEF IsHeld
      <3>2. CASE u # t
        <4>1. u \in Listed /\ running'[u] = running[u]
          BY <2>1, <2>5, <3>2 DEF Listed, Sound
        <4> QED
          BY <2>3, <2>4, <4>1 DEF IsHeld, EntriesInv
      <3> QED
        BY <3>1, <3>2
    <2>10. \A c \in Caller : calls'[c].pc = "stopping" => Aims(c)'
      BY <1>2, <2>3, <2>4 DEF EntriesInv, Aims
    <2> QED
      BY <1>2, <2>6, <2>8, <2>9, <2>10 DEF EntriesInv
  <1> QED
    BY <1>3, <1>4

LEMMA EntriesStop ==
  ASSUME Sound, EntriesInv, Stop
  PROVE  EntriesInv'
  <1>1. Len(runs) \in Nat /\ \A i \in Run : runs[i] \in RunRec
    BY RunIs
  <1>2. runs' = [i \in 1..Len(runs) |-> [runs[i] EXCEPT !.cancelled = TRUE]]
    BY DEF Stop, Run
  <1>3. \A i \in Run : runs'[i].task = runs[i].task /\ runs'[i].guard = runs[i].guard
    BY <1>1, <1>2 DEF Run, RunRec
  <1>4. Run' = Run
    BY <1>1, <1>2 DEF Run
  <1>5. UNCHANGED <<running, calls>>
    BY DEF Stop
  <1>6. calls' \in [Caller -> CallRec] /\ \A c \in Caller : calls'[c] = calls[c]
    BY <1>5 DEF EntriesInv
  <1> QED
    BY <1>3, <1>4, <1>5, <1>6, EntriesFrame

\* What a call writes into its own record.
LEMMA ToWrites ==
  ASSUME EntriesInv, NEW c \in Caller, NEW pc, To(c, pc),
         pc \in {"waiting", "recording", "submitting", "over"}
  PROVE  \E new \in CallRec : calls' = [calls EXCEPT ![c] = new] /\ new.pc = pc
  <1>1. CASE pc = "over"
    <2>1. Over \in CallRec /\ Over.pc = "over"
      BY DEF Over, NoCall, CallRec
    <2> QED
      BY <1>1, <2>1 DEF To
  <1>2. CASE pc # "over"
    <2> DEFINE new == [calls[c] EXCEPT !.pc = pc]
    <2>1. calls' = [calls EXCEPT ![c] = new]
      BY <1>2 DEF To
    <2>2. new \in CallRec /\ new.pc = pc
      BY <1>2 DEF CallRec, EntriesInv
    <2> QED
      BY <2>1, <2>2
  <1> QED
    BY <1>1, <1>2

LEMMA LookedWrites ==
  ASSUME Sound, NEW c \in Caller, NEW t \in Task, NEW again \in BOOLEAN, NEW goal \in {"canceled", "paused"},
         NEW pc \in {"marking", "stopping", "submitting", "over", "panicked"},
         Looked(c, pc, t, goal, again)
  PROVE  \E new \in CallRec : /\ calls' = [calls EXCEPT ![c] = new] /\ new.pc = pc
                              /\ pc = "over" \/ (new.task = t /\ new.run = running[t])
  <1>1. CASE pc = "over"
    <2>1. Over \in CallRec /\ Over.pc = "over"
      BY DEF Over, NoCall, CallRec
    <2> QED
      BY <1>1, <2>1 DEF Looked
  <1>2. CASE pc # "over"
    <2> DEFINE new == [pc |-> pc, task |-> t, run |-> running[t], goal |-> goal, again |-> again]
    <2>1. calls' = [calls EXCEPT ![c] = new]
      BY <1>2 DEF Looked
    <2>2. new \in CallRec
      BY DEF CallRec, Sound
    <2> QED
      BY <2>1, <2>2
  <1> QED
    BY <1>1, <1>2

\* A call that is about to cancel a run has just found the task in the map.
FoundEntry(c) ==
  /\ calls'[c].task \in Listed /\ calls'[c].run = running[calls'[c].task]
  /\ UNCHANGED <<running, runs>>

LEMMA CallWrites ==
  ASSUME Sound, EntriesInv, NEW c \in Caller, Call(c)
  PROVE  /\ calls' \in [Caller -> CallRec]
         /\ \A d \in Caller : d # c => calls'[d] = calls[d]
         /\ calls'[c].pc = "stopping" => FoundEntry(c)
  <1>1. ASSUME NEW new \in CallRec, calls' = [calls EXCEPT ![c] = new],
               new.pc = "stopping" =>
                 new.task \in Listed /\ new.run = running[new.task] /\ UNCHANGED <<running, runs>>
        PROVE  /\ calls' \in [Caller -> CallRec]
               /\ \A d \in Caller : d # c => calls'[d] = calls[d]
               /\ calls'[c].pc = "stopping" => FoundEntry(c)
    <2>1. calls' \in [Caller -> CallRec] /\ calls'[c] = new
      BY <1>1 DEF EntriesInv
    <2>2. \A d \in Caller : d # c => calls'[d] = calls[d]
      BY <1>1 DEF EntriesInv
    <2> QED
      BY <1>1, <2>1, <2>2 DEF FoundEntry
  <1>2. ASSUME NEW t \in Task, NEW again \in BOOLEAN, Cancel(c, t, again) \/ Pause(c, t, again)
        PROVE  /\ calls' \in [Caller -> CallRec]
               /\ \A d \in Caller : d # c => calls'[d] = calls[d]
               /\ calls'[c].pc = "stopping" => FoundEntry(c)
    <2>1. PICK goal \in {"canceled", "paused"},
               pc \in {"marking", "stopping", "submitting", "over", "panicked"} :
            /\ Looked(c, pc, t, goal, again)
            /\ pc = "stopping" => running[t] # 0
      BY <1>2 DEF Cancel, Pause, Rest
    <2>2. PICK new \in CallRec : /\ calls' = [calls EXCEPT ![c] = new] /\ new.pc = pc
                                 /\ pc = "over" \/ (new.task = t /\ new.run = running[t])
      BY <2>1, LookedWrites
    <2>3. UNCHANGED <<running, runs>>
      BY <1>2 DEF Cancel, Pause
    <2>4. new.pc = "stopping" => new.task \in Listed /\ new.run = running[new.task]
      BY <2>1, <2>2 DEF Listed
    <2> QED
      BY <1>1, <2>2, <2>3, <2>4
  <1>3. ASSUME NEW t \in Task, Resume(c, t)
        PROVE  /\ calls' \in [Caller -> CallRec]
               /\ \A d \in Caller : d # c => calls'[d] = calls[d]
               /\ calls'[c].pc = "stopping" => FoundEntry(c)
    <2>1. Looked(c, "submitting", t, "paused", TRUE)
      BY <1>3 DEF Resume
    <2> DEFINE pc == "submitting"
               goal == "paused"
               again == TRUE
    <2>2. /\ Looked(c, pc, t, goal, again) /\ again \in BOOLEAN
          /\ pc \in {"marking", "stopping", "submitting", "over", "panicked"}
          /\ goal \in {"canceled", "paused"}
      BY <2>1
    <2> HIDE DEF pc, goal, again
    <2>3. PICK new \in CallRec : calls' = [calls EXCEPT ![c] = new] /\ new.pc = pc
      BY <2>2, LookedWrites
    <2>4. new.pc # "stopping"
      BY <2>3 DEF pc
    <2> QED
      BY <1>1, <2>3, <2>4
  <1>4. CASE Mark(c) \/ StopRun(c) \/ Drop(c) \/ Record(c) \/ Submit(c) \/ Interrupt(c)
    <2>1. \E pc \in {"waiting", "recording", "submitting", "over"} : To(c, pc)
      BY <1>4 DEF Mark, StopRun, Drop, Record, Submit, Interrupt, Rest
    <2>2. PICK pc \in {"waiting", "recording", "submitting", "over"} : To(c, pc)
      BY <2>1
    <2>3. PICK new \in CallRec : calls' = [calls EXCEPT ![c] = new] /\ new.pc = pc
      BY <2>2, ToWrites
    <2> QED
      BY <1>1, <2>3
  <1> QED
    BY <1>2, <1>3, <1>4 DEF Call

\* A call changes no task and no guard of a run.
LEMMA CallLeavesRuns ==
  ASSUME Sound, EntriesInv, NEW c \in Caller, Call(c)
  PROVE  \A i \in Run : /\ i \in Run' /\ runs'[i].task = runs[i].task
                        /\ runs'[i].guard = runs[i].guard
  <1>1. Len(runs) \in Nat /\ \A i \in Run : runs[i] \in RunRec
    BY RunIs
  <1>2. CASE UNCHANGED runs
    BY <1>2 DEF Run
  <1>3. CASE StopRun(c)
    <2> DEFINE r == calls[c].run
               new == [runs[r] EXCEPT !.cancelled = TRUE]
    <2>1. r \in Run
      BY <1>3 DEF StopRun, EntriesInv, Aims
    <2>2. new \in RunRec /\ new.task = runs[r].task /\ new.guard = runs[r].guard
      BY <1>1, <2>1 DEF RunRec
    <2>3. runs' = [runs EXCEPT ![r] = new]
      BY <1>3 DEF StopRun
    <2>4. Run' = Run /\ \A j \in Run : runs'[j] = IF j = r THEN new ELSE runs[j]
      BY <2>1, <2>2, <2>3, RunPut
    <2> QED
      BY <2>2, <2>4
  <1>4. CASE Interrupt(c)
    <2>1. runs' = [i \in 1..Len(runs) |-> IF running[runs[i].task] = i
                                          THEN [runs[i] EXCEPT !.cancelled = TRUE] ELSE runs[i]]
      BY <1>4 DEF Interrupt, Run
    <2>2. Run' = Run
      BY <1>1, <2>1 DEF Run
    <2>3. \A i \in Run : runs'[i].task = runs[i].task /\ runs'[i].guard = runs[i].guard
      BY <1>1, <2>1 DEF Run, RunRec
    <2> QED
      BY <2>2, <2>3
  <1> QED
    BY <1>2, <1>3, <1>4 DEF Call, Cancel, Mark, Pause, Drop, Record, Resume, Submit

LEMMA EntriesCall ==
  ASSUME Sound, EntriesInv, NEW c \in Caller, Call(c)
  PROVE  EntriesInv'
  <1>1. /\ calls' \in [Caller -> CallRec]
        /\ \A d \in Caller : d # c => calls'[d] = calls[d]
        /\ calls'[c].pc = "stopping" => FoundEntry(c)
    BY CallWrites
  <1>2. \A i \in Run : /\ i \in Run' /\ runs'[i].task = runs[i].task
                       /\ runs'[i].guard = runs[i].guard
    BY CallLeavesRuns
  <1>3. CASE Drop(c)
    <2>1. running' = [running EXCEPT ![calls[c].task] = 0]
      BY <1>3 DEF Drop
    <2>2. PICK new \in CallRec : calls' = [calls EXCEPT ![c] = new] /\ new.pc = "recording"
      BY <1>3, ToWrites DEF Drop
    <2>3. calls'[c].pc # "stopping"
      BY <2>2 DEF EntriesInv
    <2> QED
      BY <1>1, <1>2, <2>1, <2>3, EntriesDrop
  <1>4. CASE ~Drop(c)
    <2>1. UNCHANGED running
      BY <1>4 DEF Call, Cancel, Mark, Pause, StopRun, Record, Resume, Submit, Interrupt
    <2>2. ASSUME calls'[c].pc = "stopping" PROVE Aims(c)'
      <3>1. FoundEntry(c)
        BY <1>1, <2>2
      <3>2. IsHeld(calls'[c].task)
        BY <3>1 DEF EntriesInv, FoundEntry
      <3> QED
        BY <1>2, <2>2, <3>1, <3>2 DEF FoundEntry, IsHeld, Aims
    <2>3. \A d \in Caller : calls'[d].pc = "stopping" => calls'[d] = calls[d] \/ Aims(d)'
      BY <1>1, <2>2
    <2> QED
      BY <1>1, <1>2, <2>1, <2>3, EntriesFrame
  <1> QED
    BY <1>3, <1>4

\* Whatever is called, in any order: the slots of the scheduler (task_scheduler.go,
\* schedule, executeTaskWrapper, CancelTask and PauseTask) are never overbooked and never
\* left to nobody, and no call cancels the run of another task.
THEOREM SlotsAccounted == Spec => []EntriesAccounted
  <1>1. ASSUME IInv, EntriesInv, [Next]_vars
        PROVE  EntriesInv'
    <2>1. Sound
      BY <1>1 DEF IInv
    <2>2. CASE Scan \/ EndStream \/ (\E t \in Task : Skip(t)) \/ UNCHANGED vars
      <3>1. UNCHANGED <<running, runs, calls>>
        BY <2>2 DEF Scan, EndStream, Skip, vars
      <3>2. Run' = Run
        BY <3>1 DEF Run
      <3>3. calls' \in [Caller -> CallRec]
        BY <1>1, <3>1 DEF EntriesInv
      <3> QED
        BY <1>1, <3>1, <3>2, <3>3, EntriesFrame
    <2>3. CASE \E t \in Task : Start(t)
      BY <1>1, <2>1, <2>3, EntriesStart
    <2>4. CASE Stop
      BY <1>1, <2>1, <2>4, EntriesStop
    <2>5. CASE \E i \in Run : Execute(i) \/ Watch(i)
      BY <1>1, <2>1, <2>5, EntriesRun, EntriesLeave DEF Watch
    <2>6. CASE \E c \in Caller : Call(c)
      BY <1>1, <2>1, <2>6, EntriesCall
    <2> QED
      BY <1>1, <2>2, <2>3, <2>4, <2>5, <2>6 DEF Next, Loop
  <1>2. EntriesInv => EntriesAccounted
    BY DEF EntriesInv, EntriesAccounted, Aims, Within
  <1> QED
    BY <1>1, <1>2, InitEntries, TaskInvariant, PTL DEF Spec

=============================================================================
