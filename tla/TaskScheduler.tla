--------------------------- MODULE TaskScheduler ---------------------------
(***************************************************************************)
(* The task scheduler of an agent controller (agentcore/controller/modules, *)
(* task_scheduler.go) over its TaskManager, for the tasks of one session:   *)
(* the scheduling loop, the goroutine that guards an execution and the one  *)
(* that executes, and the intents that pause, cancel, resume, supplement    *)
(* and modify tasks (intent_recognizer.go).                                 *)
(*                                                                          *)
(* The guard returns as soon as its context ends; the execution goes on     *)
(* until its executor is done, so a task may be executed by a run nobody    *)
(* knows of any more.  Each caller makes one call.                          *)
(***************************************************************************)
EXTENDS Naturals, Sequences, FiniteSets

CONSTANTS Task, Caller,
          MaxConcurrent,  \* config.MaxConcurrentTasks; 0 is no limit
          MaxRuns         \* bound on the executions ever started

ASSUME LimitAssumption == MaxConcurrent \in Nat

VARIABLES mode,     \* whether tasks have a time limit, or calls are made, or neither; rigid
          up,       \* Stop was not called
          registered, \* the scheduler knows the session: its stream is being read
          status,   \* of each task in the TaskManager
          scan,     \* what the loop still holds of the tasks it read
          running,  \* runningTasks: the run of each task, or 0
          runs,     \* every execution ever started
          calls,    \* where each caller is
          signalled \* all_tasks_processed was written to the stream

vars == <<mode, up, registered, status, scan, running, runs, calls, signalled>>

Run == 1..Len(runs)
Open == {"submitted", "working"}
Ended == {"canceled", "completed", "failed"}
Guarded == {"waiting", "reporting", "leaving"}
NoCall == [pc |-> "out", task |-> CHOOSE t \in Task : TRUE, run |-> 0, goal |-> "canceled",
           again |-> FALSE]
Over == [NoCall EXCEPT !.pc = "over"]

TypeOK ==
  /\ mode \in {"plain", "limited", "called"}
  /\ up \in BOOLEAN /\ registered \in BOOLEAN /\ signalled \in BOOLEAN
  /\ status \in [Task -> Open \cup Ended \cup {"input_required", "paused"}]
  /\ scan \subseteq Task /\ running \in [Task -> 0..Len(runs)]
  /\ runs \in Seq([task : Task, cancelled : BOOLEAN,
                   guard : Guarded \cup {"checking", "gone"},
                   work : {"starting", "executing", "failing", "over"}])
  /\ calls \in [Caller -> [pc : {"out", "marking", "stopping", "waiting", "recording",
                                 "submitting", "over", "panicked"},
                           task : Task, run : 0..Len(runs), goal : {"canceled", "paused"},
                           again : BOOLEAN]]

AllOver == \A t \in Task : status[t] \notin Open  \* areAllTasksCompleted

Init ==
  /\ mode \in {"plain", "limited", "called"}
  /\ up = TRUE /\ registered = TRUE
  /\ status \in [Task -> {"submitted", "paused"}] /\ scan = {}  \* created or restored
  /\ running = [t \in Task |-> 0] /\ runs = <<>>
  /\ calls = [c \in Caller |-> NoCall]
  /\ signalled = AllOver  \* the controller asks once its input was handled

SetStatus(t, s) == status' = [status EXCEPT ![t] = s]

-----------------------------------------------------------------------------
(* The loop. *)

\* Woken by a notification or by the interval.
Scan ==
  /\ up /\ scan = {} /\ scan' = {t \in Task : status[t] = "submitted"}
  /\ UNCHANGED <<mode, up, registered, status, running, runs, calls, signalled>>

Listed == {t \in Task : running[t] # 0}

\* A task whose session is not registered is passed over.
Skip(t) ==
  /\ ~registered /\ t \in scan /\ scan' = scan \ {t}
  /\ UNCHANGED <<mode, up, registered, status, running, runs, calls, signalled>>

\* A bug: one run more than configured.
StartOneMore(t) ==
  /\ registered /\ t \in scan /\ Len(runs) < MaxRuns
  /\ IF MaxConcurrent > 0 /\ Cardinality(Listed) > MaxConcurrent
     THEN scan' = {} /\ UNCHANGED <<running, runs>>
     ELSE /\ scan' = scan \ {t}
          /\ IF running[t] # 0 THEN UNCHANGED <<running, runs>>
             ELSE /\ runs' = Append(runs, [task |-> t, cancelled |-> ~up,
                                           guard |-> "waiting", work |-> "starting"])
                  /\ running' = [running EXCEPT ![t] = Len(runs) + 1]
  /\ UNCHANGED <<mode, up, registered, status, calls, signalled>>

\* The status is the one the loop read, whatever became of it since.
Start(t) ==
  /\ registered /\ t \in scan /\ Len(runs) < MaxRuns
  /\ IF MaxConcurrent > 0 /\ Cardinality(Listed) >= MaxConcurrent
     THEN scan' = {} /\ UNCHANGED <<running, runs>>
     ELSE /\ scan' = scan \ {t}
          /\ IF running[t] # 0 THEN UNCHANGED <<running, runs>>
             ELSE /\ runs' = Append(runs, [task |-> t, cancelled |-> ~up,
                                           guard |-> "waiting", work |-> "starting"])
                  /\ running' = [running EXCEPT ![t] = Len(runs) + 1]
  /\ UNCHANGED <<mode, up, registered, status, calls, signalled>>

\* The reader of the stream saw the signal, waited in vain for a first frame, or left;
\* the tasks stay as they are.
EndStream ==
  /\ registered /\ registered' = FALSE
  /\ UNCHANGED <<mode, up, status, scan, running, runs, calls, signalled>>

\* Stop cancels the context every run descends from; no task is told.
Stop ==
  /\ mode = "plain" /\ up /\ up' = FALSE
  /\ runs' = [i \in Run |-> [runs[i] EXCEPT !.cancelled = TRUE]]
  /\ UNCHANGED <<mode, registered, status, scan, running, calls, signalled>>

-----------------------------------------------------------------------------
(* executeTask. *)

Work(i, from, to) == runs[i].work = from /\ runs' = [runs EXCEPT ![i].work = to]

\* The executor is found and entered into the map, and the task is working.
Begin(i) ==
  /\ Work(i, "starting", "executing") /\ SetStatus(runs[i].task, "working")
  /\ UNCHANGED <<mode, up, registered, scan, running, calls, signalled>>

\* The first chunk that says how it went, if the executor sends one; or there is no
\* executor, or it does not begin.
Finish(i) ==
  /\ \/ /\ Work(i, "executing", "over")
        /\ \E s \in {"completed", "input_required"} : SetStatus(runs[i].task, s)
     \/ /\ Work(i, "executing", "failing") \/ Work(i, "starting", "failing")
        /\ SetStatus(runs[i].task, "failed")
     \/ Work(i, "executing", "over") /\ UNCHANGED status
  /\ UNCHANGED <<mode, up, registered, scan, running, calls, signalled>>

\* The event of a failure writes the task back as it was read, over what others made
\* of it since.
Report(i) ==
  /\ Work(i, "failing", "over") /\ SetStatus(runs[i].task, "failed")
  /\ UNCHANGED <<mode, up, registered, scan, running, calls, signalled>>

-----------------------------------------------------------------------------
(* executeTaskWrapper, the guard. *)

Guard(i, from, to) == runs[i].guard = from /\ runs' = [runs EXCEPT ![i].guard = to]

\* The execution is over, or the context is, or the failure has been reported.
Leaving(i) ==
  /\ runs[i].guard = "waiting" => runs[i].work = "over" \/ runs[i].cancelled
  /\ runs[i].guard \in {"waiting", "leaving"}
  /\ runs' = [runs EXCEPT ![i].guard = "checking"]

TimeOut(i) ==
  /\ mode = "limited" /\ runs[i].work # "over" /\ runs[i].guard = "waiting"
  /\ runs' = [runs EXCEPT ![i].guard = "reporting", ![i].cancelled = TRUE]
  /\ SetStatus(runs[i].task, "failed")
  /\ UNCHANGED <<mode, up, registered, scan, running, calls, signalled>>

ReportTimeOut(i) ==
  /\ Guard(i, "reporting", "leaving") /\ SetStatus(runs[i].task, "failed")
  /\ UNCHANGED <<mode, up, registered, scan, running, calls, signalled>>

\* A bug: a run that was cancelled leaves its entry to whoever cancelled it.
LeaveUnlessCancelled(i) ==
  /\ Leaving(i)
  /\ running' = IF runs[i].cancelled THEN running ELSE [running EXCEPT ![runs[i].task] = 0]
  /\ UNCHANGED <<mode, up, registered, status, scan, calls, signalled>>

\* The entry of the task goes, be it this run's or a later one's.
Leave(i) ==
  /\ Leaving(i)
  /\ running' = [running EXCEPT ![runs[i].task] = 0]
  /\ UNCHANGED <<mode, up, registered, status, scan, calls, signalled>>

\* A bug: only the run of a task that was completed asks.
CheckCompleted(i) ==
  /\ Guard(i, "checking", "gone")
  /\ signalled' = (signalled \/ (registered /\ AllOver /\ status[runs[i].task] = "completed"))
  /\ UNCHANGED <<mode, up, registered, status, scan, running, calls>>

\* ensureSessionCompletionSignal; then whoever waits for the run goes on.
Check(i) ==
  /\ Guard(i, "checking", "gone")
  /\ signalled' = (signalled \/ (registered /\ AllOver))
  /\ UNCHANGED <<mode, up, registered, status, scan, running, calls>>

-----------------------------------------------------------------------------
(* The calls. *)

MayCall(c) == calls[c].pc = "out" /\ mode = "called"

\* Where a call goes on that did what it was to do, or was refused.
Rest(again) == IF again THEN "submitting" ELSE "over"
To(c, pc) == calls' = [calls EXCEPT ![c] = IF pc = "over" THEN Over ELSE [@ EXCEPT !.pc = pc]]
Looked(c, pc, t, goal, again) ==
  calls' = [calls EXCEPT ![c] = IF pc = "over" THEN Over
    ELSE [pc |-> pc, task |-> t, run |-> running[t], goal |-> goal, again |-> again]]

\* CancelTask up to the entry: what is submitted is marked, what is over stays, and
\* what is not running, or will not be cancelled, is refused.  Modifying a task
\* cancels it and submits it again in any case.
Cancel(c, t, again) ==
  /\ MayCall(c)
  /\ \E pc \in IF status[t] = "submitted" THEN {"marking"}
               ELSE IF status[t] \in Ended \/ running[t] = 0 THEN {Rest(again)}
               ELSE {Rest(again), "stopping"} :
       Looked(c, pc, t, "canceled", again)
  /\ UNCHANGED <<mode, up, registered, status, scan, running, runs, signalled>>

Mark(c) ==
  /\ calls[c].pc = "marking" /\ To(c, Rest(calls[c].again))
  /\ SetStatus(calls[c].task, "canceled")
  /\ UNCHANGED <<mode, up, registered, scan, running, runs, signalled>>

\* PauseTask up to the entry; the status is not looked at, an executor that fails ends
\* the call, and a run that has no executor yet is a nil dereference.  Supplementing
\* pauses and submits again.
Pause(c, t, again) ==
  /\ MayCall(c)
  /\ \E pc \in IF running[t] = 0 THEN {Rest(again)}
               ELSE {"over", Rest(again), "stopping"} \cup
                    (IF runs[running[t]].work = "starting" THEN {"panicked"} ELSE {}) :
       Looked(c, pc, t, "paused", again)
  /\ UNCHANGED <<mode, up, registered, status, scan, running, runs, signalled>>

StopRun(c) ==
  /\ calls[c].pc = "stopping" /\ To(c, "waiting")
  /\ runs' = [runs EXCEPT ![calls[c].run].cancelled = TRUE]
  /\ UNCHANGED <<mode, up, registered, status, scan, running, signalled>>

\* The guard has gone, or the 5 seconds are over; then the entry of the task goes.
Drop(c) ==
  /\ calls[c].pc = "waiting" /\ To(c, "recording")
  /\ running' = [running EXCEPT ![calls[c].task] = 0]
  /\ UNCHANGED <<mode, up, registered, status, scan, runs, signalled>>

Record(c) ==
  /\ calls[c].pc = "recording" /\ To(c, Rest(calls[c].again))
  /\ SetStatus(calls[c].task, calls[c].goal)
  /\ UNCHANGED <<mode, up, registered, scan, running, runs, signalled>>

\* Resuming looks for a paused task first.
Resume(c, t) ==
  /\ MayCall(c) /\ status[t] = "paused"
  /\ Looked(c, "submitting", t, "paused", TRUE)
  /\ UNCHANGED <<mode, up, registered, status, scan, running, runs, signalled>>

\* UpdateTask, which notifies nobody.
Submit(c) ==
  /\ calls[c].pc = "submitting" /\ To(c, "over")
  /\ SetStatus(calls[c].task, "submitted")
  /\ UNCHANGED <<mode, up, registered, scan, running, runs, signalled>>

\* CancelRunningTasks: the contexts end, and no task is told.
Interrupt(c) ==
  /\ MayCall(c) /\ To(c, "over")
  /\ runs' = [i \in Run |-> IF running[runs[i].task] = i THEN [runs[i] EXCEPT !.cancelled = TRUE]
                            ELSE runs[i]]
  /\ UNCHANGED <<mode, up, registered, status, scan, running, signalled>>

-----------------------------------------------------------------------------
Loop == Scan \/ \E t \in Task : Start(t) \/ Skip(t)
Execute(i) == Begin(i) \/ Finish(i) \/ Report(i)
Watch(i) == TimeOut(i) \/ ReportTimeOut(i) \/ Leave(i) \/ Check(i)
Call(c) ==
  \/ \E t \in Task, again \in BOOLEAN : Cancel(c, t, again) \/ Pause(c, t, again)
  \/ \E t \in Task : Resume(c, t)
  \/ Mark(c) \/ StopRun(c) \/ Drop(c) \/ Record(c) \/ Submit(c) \/ Interrupt(c)

Next ==
  \/ Loop \/ Stop \/ EndStream
  \/ \E i \in Run : Execute(i) \/ Watch(i)
  \/ \E c \in Caller : Call(c)

Spec == Init /\ [][Next]_vars

\* Goroutines run, and executors end.
FairSpec ==
  /\ Spec /\ WF_vars(Loop)
  /\ \A i \in 1..MaxRuns : WF_vars(i \in Run /\ Execute(i)) /\ WF_vars(i \in Run /\ Watch(i))

-----------------------------------------------------------------------------
\* While nobody calls, the executions that nobody told to stop are no more than the
\* configured number, and no task has two, although the loop works from what it read of
\* the tasks before.  One that was told (its time ran out, or the scheduler stopped) no
\* longer counts for the code either, and goes on beside its successor until it listens.
LimitHolds ==
  LET live == {i \in Run : runs[i].work # "over" /\ ~runs[i].cancelled} IN
  mode # "called" =>
    /\ MaxConcurrent > 0 => Cardinality(live) <= MaxConcurrent
    /\ \A i, j \in live : runs[i].task = runs[j].task => i = j

\* No slot is lost: while the session's stream is read, a submitted task is taken up sooner
\* or later, however many calls cancelled, paused and resubmitted tasks beside it (unless
\* the model's bound is reached or the scheduler is stopped).
EverySubmissionStarts ==
  \A t \in Task : status[t] = "submitted" ~>
    status[t] # "submitted" \/ ~up \/ ~registered \/ Len(runs) = MaxRuns

\* A session nobody interferes with gets its signal when its tasks are over and stay so,
\* as long as somebody reads its stream.
PlainSessionIsSignalled ==
  mode = "plain" /\ AllOver ~> signalled \/ ~up \/ ~registered \/ ~AllOver

\* The loop starts tasks that are submitted; what has ended, or was cancelled while the
\* loop went through its list, is not executed (again).
OnlySubmittedStart ==
  [][\A t \in Task : running[t] = 0 /\ running'[t] # 0 => status[t] = "submitted"]_vars
=============================================================================
