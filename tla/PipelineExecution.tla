------------------------- MODULE PipelineExecution --------------------------
(***************************************************************************)
(* Pipeline executions: the runner that executes a pipeline's steps one    *)
(* after the other, the rows of pipeline_execution and                     *)
(* pipeline_execution_step it keeps, the endpoints that start, pause,      *)
(* resume, cancel and rerun an execution, the scheduler, and the recovery  *)
(* an application instance does when it starts.                            *)
(*                                                                         *)
(* A task is one background thread, from the request (or the schedule) to  *)
(* its end.  Every statement is its own transaction, so an action is one   *)
(* statement and the computation up to the next one.                       *)
(***************************************************************************)
EXTENDS Integers, FiniteSets

CONSTANTS
    MaxExecutions, \* bound on the rows that are created
    Tasks,         \* background threads
    Instances,     \* application processes on the same database
    Steps,         \* the number of steps of a pipeline
    ReadsParams,   \* the steps whose handler calls params.get
    Ops,           \* the control requests operators make
    MaxStarts,     \* bound on starts, reruns and scheduled runs
    MaxControls,   \* bound on pause, cancel and resume requests
    MaxCrashes,    \* bound on crashes of an instance
    MaxFailures    \* bound on steps that raise because of the outside world

ASSUME StepsAssumption == Steps \in Nat \ {0} /\ ReadsParams \subseteq 1..Steps
\* The last step of every entry of _STEP_MAP (embed, gh_ingest, hf_ingest or
\* ln_ingest) reads its parameters.
ASSUME LastReadsAssumption == Steps \in ReadsParams
ASSUME BoundsAssumption ==
    {MaxExecutions, MaxStarts, MaxControls, MaxCrashes, MaxFailures} \subseteq Nat
ASSUME OpsAssumption == Ops \subseteq {"pause", "resume", "cancel", "rerun"}

Executions == 1..MaxExecutions    \* in the order of their creation
NoExec == 0
Over == {"completed", "failed", "cancelled"}
StepStatus == {"absent", "pending", "running", "completed", "failed", "cancelled"}

VARIABLES
    exec,      \* execution -> its row
    steps,     \* execution -> step -> status of its row
    task,      \* task -> where it is
    up,        \* the instances that run
    starts, controls, crashes, failures   \* what the bounds count

vars == <<exec, steps, task, up, starts, controls, crashes, failures>>
counters == <<starts, controls, crashes, failures>>

Idle == [pc |-> "idle", e |-> NoExec, n |-> 0, full |-> FALSE,
         params |-> "dict", on |-> "none"]

Init ==
    /\ exec = [e \in Executions |->
                 [status |-> "none", signal |-> "none", full |-> FALSE, completed |-> 0]]
    /\ steps = [e \in Executions |-> [n \in 1..Steps |-> "absent"]]
    /\ task = [t \in Tasks |-> Idle]
    /\ up = Instances
    /\ starts = 0 /\ controls = 0 /\ crashes = 0 /\ failures = 0

-----------------------------------------------------------------------------
(* The start of a task. *)

\* Parameters arrive as a dict from a request and from the scheduler (which
\* decodes them), but as JSON text from the row of an earlier execution.
Spawn(t, record) ==
    /\ task[t] = Idle
    /\ \E i \in up : task' = [task EXCEPT ![t] = [record EXCEPT !.on = i]]

\* pipeline_start and the scheduler: PipelineRunner.run.
Start(t) ==
    /\ starts < MaxStarts
    /\ \E full \in BOOLEAN : Spawn(t, [Idle EXCEPT !.pc = "guard", !.full = full])
    /\ starts' = starts + 1
    /\ UNCHANGED <<exec, steps, up, controls, crashes, failures>>

\* pipeline_rerun: run() with the row's input_params.
Rerun(t, e) ==
    /\ "rerun" \in Ops
    /\ starts < MaxStarts
    /\ exec[e].status # "none"
    /\ Spawn(t, [Idle EXCEPT !.pc = "guard", !.full = exec[e].full, !.params = "text"])
    /\ starts' = starts + 1
    /\ UNCHANGED <<exec, steps, up, controls, crashes, failures>>

\* Mutant: resume_execution takes any execution that is not over.
ResumeAny(t, e) ==
    /\ "resume" \in Ops
    /\ controls < MaxControls
    /\ exec[e].status \in {"running", "paused"}
    /\ exec' = [exec EXCEPT ![e].status = "running", ![e].signal = "none"]
    /\ Spawn(t, [Idle EXCEPT !.pc = "nextPending", !.e = e, !.params = "text"])
    /\ controls' = controls + 1
    /\ UNCHANGED <<steps, up, starts, crashes, failures>>

\* pipeline_resume: its UPDATE takes paused executions only.
Resume(t, e) ==
    /\ "resume" \in Ops
    /\ controls < MaxControls
    /\ exec[e].status = "paused"
    /\ exec' = [exec EXCEPT ![e].status = "running", ![e].signal = "none"]
    /\ Spawn(t, [Idle EXCEPT !.pc = "nextPending", !.e = e, !.params = "text"])
    /\ controls' = controls + 1
    /\ UNCHANGED <<steps, up, starts, crashes, failures>>

\* pipeline_pause and pipeline_cancel: set_control_signal.
Control(e, signal) ==
    /\ signal \in Ops
    /\ controls < MaxControls
    /\ exec[e].status \in {"running", "paused"}
    /\ exec' = [exec EXCEPT ![e].signal = signal]
    /\ controls' = controls + 1
    /\ UNCHANGED <<steps, task, up, starts, crashes, failures>>

-----------------------------------------------------------------------------
(* The steps of a task. *)

At(t, pc) == task[t].pc = pc
Goto(t, pc) == task' = [task EXCEPT ![t].pc = pc]
End(t) == task' = [task EXCEPT ![t] = Idle]

SetStatus(t, status) == exec' = [exec EXCEPT ![task[t].e].status = status]
SetStep(t, status) == steps' = [steps EXCEPT ![task[t].e][task[t].n] = status]

\* Full pipelines block each other; get_active_executions.
Guard(t) ==
    /\ At(t, "guard")
    /\ IF task[t].full /\ \E e \in Executions :
                              exec[e].status = "running" /\ exec[e].full
       THEN End(t)
       ELSE Goto(t, "create")
    /\ UNCHANGED <<exec, steps, up, counters>>

\* create_execution: nothing reads a pending execution before it runs.
Create(t) ==
    /\ At(t, "create")
    /\ \E e \in Executions :
          /\ exec[e].status = "none"
          /\ \A d \in 1..(e - 1) : exec[d].status # "none"
          /\ exec' = [exec EXCEPT ![e].status = "pending", ![e].full = task[t].full]
          /\ steps' = [steps EXCEPT ![e] = [n \in 1..Steps |-> "pending"]]
          /\ task' = [task EXCEPT ![t].pc = "markRunning", ![t].e = e, ![t].n = 1]
    /\ UNCHANGED <<up, counters>>

\* Mutant: resume continues at the last step.
LastPending(t) ==
    /\ At(t, "nextPending")
    /\ LET pending == {n \in 1..Steps : steps[task[t].e][n] = "pending"}
       IN  IF pending = {} THEN End(t)
           ELSE \E n \in pending :
                   /\ \A m \in pending : n >= m
                   /\ task' = [task EXCEPT ![t].pc = "markRunning", ![t].n = n]
    /\ UNCHANGED <<exec, steps, up, counters>>

\* Mutant: resume starts again from the first step.
FromTheStart(t) ==
    /\ At(t, "nextPending")
    /\ task' = [task EXCEPT ![t].pc = "markRunning", ![t].n = 1]
    /\ UNCHANGED <<exec, steps, up, counters>>

\* get_next_pending_step.  Without one, pipeline_resume answers and that is all.
NextPending(t) ==
    /\ At(t, "nextPending")
    /\ LET pending == {n \in 1..Steps : steps[task[t].e][n] = "pending"}
       IN  IF pending = {} THEN End(t)
           ELSE \E n \in pending :
                   /\ \A m \in pending : n <= m
                   /\ task' = [task EXCEPT ![t].pc = "markRunning", ![t].n = n]
    /\ UNCHANGED <<exec, steps, up, counters>>

MarkExecutionRunning(t) ==
    /\ At(t, "markRunning")
    /\ SetStatus(t, "running")
    /\ Goto(t, "signal")
    /\ UNCHANGED <<steps, up, counters>>

\* Mutant: the loop takes one step too many.
OneStepMore(t) ==
    /\ At(t, "signal")
    /\ Goto(t, IF task[t].n > Steps + 1 THEN "markCompleted" ELSE "stepRunning")
    /\ UNCHANGED <<exec, steps, up, counters>>

\* check_control_signal, at the head of the loop over the steps.
CheckControlSignal(t) ==
    /\ At(t, "signal")
    /\ Goto(t, IF task[t].n > Steps THEN "markCompleted"
               ELSE CASE exec[task[t].e].signal = "cancel" -> "cancelSteps"
                      [] exec[task[t].e].signal = "pause" -> "clearSignal"
                      [] OTHER -> "stepRunning")
    /\ UNCHANGED <<exec, steps, up, counters>>

\* mark_step_cancelled for this step and each later one, then the execution.
CancelSteps(t) ==
    /\ At(t, "cancelSteps")
    /\ SetStep(t, "cancelled")
    /\ task' = [task EXCEPT ![t].n = @ + (IF @ = Steps THEN 0 ELSE 1),
                            ![t].pc = IF task[t].n = Steps THEN "markCancelled" ELSE @]
    /\ UNCHANGED <<exec, up, counters>>

MarkExecutionCancelled(t) ==
    /\ At(t, "markCancelled")
    /\ SetStatus(t, "cancelled")
    /\ End(t)
    /\ UNCHANGED <<steps, up, counters>>

ClearControlSignal(t) ==
    /\ At(t, "clearSignal")
    /\ exec' = [exec EXCEPT ![task[t].e].signal = "none"]
    /\ Goto(t, "markPaused")
    /\ UNCHANGED <<steps, up, counters>>

MarkExecutionPaused(t) ==
    /\ At(t, "markPaused")
    /\ SetStatus(t, "paused")
    /\ End(t)
    /\ UNCHANGED <<steps, up, counters>>

MarkStepRunning(t) ==
    /\ At(t, "stepRunning")
    /\ SetStep(t, "running")
    /\ Goto(t, "execute")
    /\ UNCHANGED <<exec, up, counters>>

\* _execute_step: str has no attribute get, so a handler that reads text fails.
ExecuteStep(t) ==
    /\ At(t, "execute")
    /\ IF task[t].params = "text" /\ task[t].n \in ReadsParams
       THEN Goto(t, "stepFailed") /\ UNCHANGED failures
       ELSE \/ Goto(t, "stepCompleted") /\ UNCHANGED failures
            \/ /\ failures < MaxFailures
               /\ Goto(t, "stepFailed")
               /\ failures' = failures + 1
    /\ UNCHANGED <<exec, steps, up, starts, controls, crashes>>

\* mark_step_completed: two statements.
MarkStepCompleted(t) ==
    /\ At(t, "stepCompleted")
    /\ SetStep(t, "completed")
    /\ Goto(t, "countStep")
    /\ UNCHANGED <<exec, up, counters>>

CountStep(t) ==
    /\ At(t, "countStep")
    /\ exec' = [exec EXCEPT ![task[t].e].completed = @ + 1]
    /\ task' = [task EXCEPT ![t].pc = "signal", ![t].n = @ + 1]
    /\ UNCHANGED <<steps, up, counters>>

\* Mutant: the loop goes on after a step that failed.
ContinueAfterFailure(t) ==
    /\ At(t, "stepFailed")
    /\ SetStep(t, "failed")
    /\ task' = [task EXCEPT ![t].pc = "signal", ![t].n = @ + 1]
    /\ UNCHANGED <<exec, up, counters>>

MarkStepFailed(t) ==
    /\ At(t, "stepFailed")
    /\ SetStep(t, "failed")
    /\ Goto(t, "markFailed")
    /\ UNCHANGED <<exec, up, counters>>

\* Mutant: only the step is marked failed.
FailSilently(t) ==
    /\ At(t, "markFailed")
    /\ End(t)
    /\ UNCHANGED <<exec, steps, up, counters>>

MarkExecutionFailed(t) ==
    /\ At(t, "markFailed")
    /\ SetStatus(t, "failed")
    /\ End(t)
    /\ UNCHANGED <<steps, up, counters>>

MarkExecutionCompleted(t) ==
    /\ At(t, "markCompleted")
    /\ SetStatus(t, "completed")
    /\ End(t)
    /\ UNCHANGED <<steps, up, counters>>

Run(t) ==
    \/ Guard(t) \/ Create(t) \/ NextPending(t) \/ MarkExecutionRunning(t)
    \/ CheckControlSignal(t) \/ CancelSteps(t) \/ MarkExecutionCancelled(t)
    \/ ClearControlSignal(t) \/ MarkExecutionPaused(t) \/ MarkStepRunning(t)
    \/ ExecuteStep(t) \/ MarkStepCompleted(t) \/ CountStep(t) \/ MarkStepFailed(t)
    \/ MarkExecutionFailed(t) \/ MarkExecutionCompleted(t)

-----------------------------------------------------------------------------
(* Instances stop and start. *)

\* A crash or a deployment: the threads of the instance are gone.
Crash(i) ==
    /\ crashes < MaxCrashes
    /\ i \in up
    /\ up' = up \ {i}
    /\ task' = [t \in Tasks |-> IF task[t].on = i THEN Idle ELSE task[t]]
    /\ crashes' = crashes + 1
    /\ UNCHANGED <<exec, steps, starts, controls, failures>>

\* Mutant: the recovery has no condition on the status.
RecoverAll(i) ==
    /\ i \notin up
    /\ up' = up \cup {i}
    /\ exec' = [e \in Executions |->
                  IF exec[e].status # "none"
                  THEN [exec[e] EXCEPT !.status = "paused", !.signal = "none"]
                  ELSE exec[e]]
    /\ UNCHANGED <<steps, task, counters>>

\* The lifespan hook: mark_stale_running_as_paused, whoever runs them.
Restart(i) ==
    /\ i \notin up
    /\ up' = up \cup {i}
    /\ exec' = [e \in Executions |->
                  IF exec[e].status = "running"
                  THEN [exec[e] EXCEPT !.status = "paused", !.signal = "none"]
                  ELSE exec[e]]
    /\ UNCHANGED <<steps, task, counters>>

-----------------------------------------------------------------------------
\* Nothing is under way and nobody asks for anything.
Quiet == (\A t \in Tasks : task[t] = Idle) /\ up = Instances /\ UNCHANGED vars

Next ==
    \/ \E t \in Tasks :
          \/ Start(t) \/ Run(t)
          \/ \E e \in Executions : Rerun(t, e) \/ Resume(t, e)
    \/ \E e \in Executions, signal \in {"pause", "cancel"} : Control(e, signal)
    \/ \E i \in Instances : Crash(i) \/ Restart(i)
    \/ Quiet

Spec == Init /\ [][Next]_vars

\* A thread runs on, and the orchestrator restarts an instance that is down.
FairSpec ==
    /\ Spec
    /\ \A t \in Tasks : WF_vars(Run(t))
    /\ \A i \in Instances : WF_vars(Restart(i))

-----------------------------------------------------------------------------
(* Properties. *)

TaskPC == {"idle", "guard", "create", "nextPending", "markRunning", "signal",
           "cancelSteps", "markCancelled", "clearSignal", "markPaused",
           "stepRunning", "execute", "stepCompleted", "countStep", "stepFailed",
           "markFailed", "markCompleted"}

\* The type invariant.
TypeOK ==
    /\ exec \in [Executions -> [status : {"none", "pending", "running", "paused"} \cup Over,
                                signal : {"none", "pause", "cancel"},
                                full : BOOLEAN,
                                completed : Nat]]
    /\ steps \in [Executions -> [1..Steps -> StepStatus]]
    /\ task \in [Tasks -> [pc : TaskPC, e : Executions \cup {NoExec},
                           n : 0..(Steps + 1), full : BOOLEAN,
                           params : {"dict", "text"}, on : Instances \cup {"none"}]]
    /\ up \subseteq Instances
    /\ starts \in 0..MaxStarts /\ controls \in 0..MaxControls
    /\ crashes \in 0..MaxCrashes /\ failures \in 0..MaxFailures

\* With one application instance, an execution is run by one thread at a time
\* and by none once it is paused or over: pausing, resuming, crashing and
\* recovering in any order never leave two threads writing the same rows.
OneTaskPerExecution ==
    \A t \in Tasks : task[t].e # NoExec =>
        /\ exec[task[t].e].status \in
              (IF At(t, "markRunning") THEN {"pending", "running"} ELSE {"running"})
        /\ \A u \in Tasks : task[u].e = task[t].e => u = t

\* Steps are taken in order: no step starts before one that is still pending,
\* in one run of the execution or over several resumptions.
StepsInOrder ==
    \A e \in Executions : \A m, n \in 1..Steps :
        m < n /\ steps[e][m] = "pending" => steps[e][n] = "pending"

\* An execution is marked completed only when each of its steps is.
CompletedMeansAll ==
    \A e \in Executions : exec[e].status = "completed" =>
        \A n \in 1..Steps : steps[e][n] = "completed"

\* completed_steps, which the progress display divides by total_steps, counts
\* the completed steps; a crash between the two statements loses one.
CompletedStepsCount ==
    \A e \in Executions :
        LET completed == {n \in 1..Steps : steps[e][n] = "completed"}
            uncounted == {t \in Tasks : task[t].e = e /\ At(t, "countStep")}
        IN  Cardinality(completed) - Cardinality(uncounted) - exec[e].completed
                \in 0..crashes

\* As long as no instance has crashed, an execution that is running is run by
\* a thread, and stops running at some time.
RunningEnds ==
    \A e \in Executions :
        (exec[e].status = "running" /\ crashes = 0) ~> (exec[e].status # "running")

\* The status of an execution changes as its life cycle says.
Life == INSTANCE ExecutionLifecycle WITH
    status <- [e \in Executions |-> exec[e].status]

LifeSpec == Life!Spec

-----------------------------------------------------------------------------
(* What the documentation says and the code does not do. *)

\* "Resume a paused pipeline from the next pending step": an execution does not
\* fail when nothing that it calls fails.
NoFailureOfItsOwn ==
    failures = 0 => \A e \in Executions : exec[e].status # "failed"

\* "CANCEL -> marks execution as cancelled": an accepted cancel ends it.
CancelTakesEffect ==
    \A e \in Executions :
        (exec[e].signal = "cancel") ~> (exec[e].status \in Over)

\* "Two pipelines at once: Rejected with 409 - only one running pipeline
\* allowed."
OneFullPipeline ==
    \A d, e \in Executions :
        /\ exec[d].status = "running" /\ exec[d].full
        /\ exec[e].status = "running" /\ exec[e].full
        => d = e
=============================================================================
