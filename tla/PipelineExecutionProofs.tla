----------------------- MODULE PipelineExecutionProofs ------------------------
(***************************************************************************)
(* Proofs about PipelineExecution for every number of executions, threads  *)
(* and steps and every bound.  The type invariant holds for any number of  *)
(* application instances; what an execution's rows say is proved for the   *)
(* one instance the deployment runs, because a second one that starts      *)
(* pauses the executions the first one is running.                         *)
(***************************************************************************)
EXTENDS PipelineExecution, FiniteSetTheorems, TLAPS

\* The rows of executions and of tasks, as the type invariant has them.
Row == [status : {"none", "pending", "running", "paused"} \cup Over,
        signal : {"none", "pause", "cancel"},
        full : BOOLEAN,
        completed : Nat]
TaskRecord == [pc : TaskPC, e : Executions \cup {NoExec}, n : 0..(Steps + 1), full : BOOLEAN,
               params : {"dict", "text"}, on : Instances \cup {"none"}]

\* The type invariant in three parts.
RowTypes ==
    /\ exec \in [Executions -> Row]
    /\ steps \in [Executions -> [1..Steps -> StepStatus]]
TaskTypes == task \in [Tasks -> TaskRecord]
BoundTypes ==
    /\ up \subseteq Instances
    /\ starts \in 0..MaxStarts /\ controls \in 0..MaxControls
    /\ crashes \in 0..MaxCrashes /\ failures \in 0..MaxFailures

\* One application process: the service's DesiredCount is 1, but a rolling
\* update, or scaling out to two, has a second one (python-ecs-stack.yaml:526).
OneInstance == \E i : Instances = {i}

\* The states of a task before and after it has an execution.
Unassigned == {"idle", "guard", "create"}
InLoop == {"markRunning", "cancelSteps", "markCancelled", "clearSignal",
           "markPaused", "stepRunning", "execute", "stepCompleted", "countStep",
           "stepFailed", "markFailed"}

\* Where a task is says whether it has an execution and a step in hand.
TaskWhole ==
    \A t \in Tasks :
        /\ At(t, "idle") => task[t] = Idle
        /\ task[t].e = NoExec <=> task[t].pc \in Unassigned
        /\ task[t].pc \in InLoop => task[t].n \in 1..Steps
        /\ At(t, "signal") => task[t].n \in 1..(Steps + 1)
        /\ At(t, "markCompleted") => task[t].n = Steps + 1

\* What the type invariant needs to be inductive.
TInv == RowTypes /\ TaskTypes /\ BoundTypes /\ TaskWhole

\* A thread lives as long as the instance it runs on.
TasksAreUp == \A t \in Tasks : task[t] # Idle => task[t].on \in up

\* A row that is not created yet has no steps.
FreshRows ==
    \A e \in Executions : exec[e].status = "none" =>
        \A n \in 1..Steps : steps[e][n] = "absent"

\* The step a task has in hand is the first that is pending until it is marked
\* as running; what came before it is not pending, what comes after it is.
StepFits(t) ==
    task[t].e # NoExec /\ ~At(t, "nextPending") =>
        /\ \A m \in 1..Steps : m < task[t].n => steps[task[t].e][m] # "pending"
        /\ task[t].n \in 1..Steps =>
              /\ task[t].pc \in {"markRunning", "signal", "cancelSteps", "clearSignal",
                                 "markPaused", "stepRunning"}
                    => steps[task[t].e][task[t].n] = "pending"
              /\ task[t].pc \in {"execute", "stepCompleted", "stepFailed"}
                    => steps[task[t].e][task[t].n] = "running"
              /\ At(t, "countStep") => steps[task[t].e][task[t].n] = "completed"
              /\ task[t].pc \in {"execute", "stepCompleted", "countStep"} =>
                    \A m \in 1..Steps : m > task[t].n => steps[task[t].e][m] = "pending"
StepInHand == \A t \in Tasks : StepFits(t)

\* An execution whose parameters are a dict was never resumed: what came before
\* the step in hand is completed.  One whose parameters are text never gets
\* past its last step, which reads them.
DictRunsThrough ==
    \A t \in Tasks :
        IF task[t].params = "dict"
        THEN /\ ~At(t, "nextPending")
             /\ task[t].pc \in {"markRunning", "signal", "clearSignal", "markPaused",
                                "stepRunning", "execute", "stepCompleted", "countStep",
                                "stepFailed", "markCompleted"}
                => \A m \in 1..Steps : m < task[t].n => steps[task[t].e][m] = "completed"
        ELSE /\ ~At(t, "markCompleted")
             /\ task[t].n <= Steps
             /\ task[t].pc \in {"stepCompleted", "countStep"} => task[t].n # Steps

IInv ==
    /\ TInv
    /\ TasksAreUp
    /\ OneTaskPerExecution
    /\ FreshRows
    /\ StepInHand
    /\ StepsInOrder
    /\ DictRunsThrough
    /\ CompletedMeansAll
    /\ CompletedStepsCount

\* What an action does to its task and to the rows, field by field: task t is
\* at pc with execution e and step n, or has ended; execution e has this row;
\* step n of execution e has this status.
Moved(t, pc, e, n) ==
    /\ TaskTypes'
    /\ \A u \in Tasks \ {t} : task'[u] = task[u]
    /\ task'[t].pc = pc /\ task'[t].e = e /\ task'[t].n = n
    /\ task'[t].params = task[t].params /\ task'[t].on = task[t].on
Spawned(t, pc, e, params) ==
    /\ task[t] = Idle
    /\ TaskTypes'
    /\ \A u \in Tasks \ {t} : task'[u] = task[u]
    /\ task'[t].pc = pc /\ task'[t].e = e /\ task'[t].n = 0
    /\ task'[t].params = params /\ task'[t].on \in up
Ended(t) ==
    /\ TaskTypes'
    /\ \A u \in Tasks \ {t} : task'[u] = task[u]
    /\ task'[t] = Idle
RowSet(e, status, signal, completed) ==
    /\ exec' \in [Executions -> Row]
    /\ \A d \in Executions \ {e} : exec'[d] = exec[d]
    /\ exec'[e].status = status /\ exec'[e].signal = signal /\ exec'[e].completed = completed
StepSet(e, n, status) ==
    /\ steps' \in [Executions -> [1..Steps -> StepStatus]]
    /\ \A d \in Executions \ {e} : steps'[d] = steps[d]
    /\ \A m \in (1..Steps) \ {n} : steps'[e][m] = steps[e][m]
    /\ steps'[e][n] = status

-----------------------------------------------------------------------------
(* The type invariant. *)

LEMMA TypeParts == TypeOK <=> RowTypes /\ TaskTypes /\ BoundTypes
  BY DEF TypeOK, RowTypes, TaskTypes, BoundTypes, Row, TaskRecord

LEMMA IdleTask == Idle \in TaskRecord
  BY StepsAssumption DEF Idle, TaskRecord, TaskPC, NoExec

LEMMA NoExecFacts == NoExec \notin Executions /\ Steps \in Nat \ {0}
  BY StepsAssumption DEF NoExec, Executions

LEMMA IdleFields ==
    Idle.pc = "idle" /\ Idle.e = NoExec /\ Idle.n = 0 /\ Idle.params = "dict"
  BY DEF Idle

LEMMA TaskFields ==
  ASSUME NEW r \in TaskRecord
  PROVE  /\ r.pc \in TaskPC /\ r.e \in Executions \cup {NoExec} /\ r.n \in 0..(Steps + 1)
         /\ r.full \in BOOLEAN /\ r.params \in {"dict", "text"}
         /\ r.on \in Instances \cup {"none"}
  BY DEF TaskRecord

LEMMA Ends == ASSUME TaskTypes, NEW t \in Tasks, End(t) PROVE Ended(t)
  BY IdleTask DEF TaskTypes, End, Ended

LEMMA GoesOn ==
  ASSUME TaskTypes, NEW t \in Tasks, NEW pc \in TaskPC,
         NEW e \in Executions \cup {NoExec}, NEW n \in 0..(Steps + 1),
         task' = [task EXCEPT ![t].pc = pc, ![t].e = e, ![t].n = n]
  PROVE  Moved(t, pc, e, n)
<1> DEFINE r == [task[t] EXCEPT !.pc = pc, !.e = e, !.n = n]
<1>1. r \in TaskRecord
  BY DEF TaskTypes, TaskRecord
<1>2. /\ r.pc = pc /\ r.e = e /\ r.n = n
      /\ r.params = task[t].params /\ r.on = task[t].on
  BY DEF TaskTypes, TaskRecord
<1>3. task' = [task EXCEPT ![t] = r]
  BY DEF TaskTypes
<1> HIDE DEF r
<1>4. TaskTypes' /\ task'[t] = r /\ \A u \in Tasks \ {t} : task'[u] = task[u]
  BY <1>1, <1>3 DEF TaskTypes
<1> QED
  BY <1>2, <1>4 DEF Moved

LEMMA Goes ==
  ASSUME TaskTypes, NEW t \in Tasks, NEW pc \in TaskPC, Goto(t, pc)
  PROVE  Moved(t, pc, task[t].e, task[t].n)
<1> DEFINE r == [task[t] EXCEPT !.pc = pc]
<1>1. r \in TaskRecord
  BY DEF TaskTypes, TaskRecord
<1>2. /\ r.pc = pc /\ r.e = task[t].e /\ r.n = task[t].n
      /\ r.params = task[t].params /\ r.on = task[t].on
  BY DEF TaskTypes, TaskRecord
<1>3. task' = [task EXCEPT ![t] = r]
  BY DEF Goto, TaskTypes
<1> HIDE DEF r
<1> QED
  BY <1>1, <1>2, <1>3 DEF TaskTypes, Moved

LEMMA Turns ==
  ASSUME TaskTypes, NEW t \in Tasks, NEW pc \in TaskPC, NEW n \in 0..(Steps + 1),
         \/ task' = [task EXCEPT ![t].pc = pc, ![t].n = n]
         \/ task' = [task EXCEPT ![t].n = n, ![t].pc = pc]
  PROVE  Moved(t, pc, task[t].e, n)
<1> DEFINE r == [task[t] EXCEPT !.pc = pc, !.n = n]
<1>1. r \in TaskRecord
  BY ZenonT(40) DEF TaskTypes, TaskRecord
<1>2. /\ r.pc = pc /\ r.e = task[t].e /\ r.n = n
      /\ r.params = task[t].params /\ r.on = task[t].on
  BY DEF TaskTypes, TaskRecord
<1>3. [task[t] EXCEPT !.n = n, !.pc = pc] = r
  BY DEF TaskTypes, TaskRecord
<1>4. task' = [task EXCEPT ![t] = r]
  BY <1>3 DEF TaskTypes
<1> HIDE DEF r
<1> QED
  BY <1>1, <1>2, <1>4 DEF TaskTypes, Moved

LEMMA Marks ==
  ASSUME RowTypes, NEW t \in Tasks, task[t].e \in Executions,
         NEW s \in {"pending", "running", "paused"} \cup Over, SetStatus(t, s)
  PROVE  RowSet(task[t].e, s, exec[task[t].e].signal, exec[task[t].e].completed)
<1> DEFINE e == task[t].e
           r == [exec[e] EXCEPT !.status = s]
<1>1. r \in Row
  BY DEF RowTypes, Row
<1>2. r.status = s /\ r.signal = exec[e].signal /\ r.completed = exec[e].completed
  BY DEF RowTypes, Row
<1>3. exec' = [exec EXCEPT ![e] = r]
  BY DEF RowTypes, SetStatus
<1> HIDE DEF r
<1> QED
  BY <1>1, <1>2, <1>3 DEF RowTypes, RowSet

LEMMA StepMarks ==
  ASSUME RowTypes, NEW t \in Tasks, task[t].e \in Executions, task[t].n \in 1..Steps,
         NEW s \in StepStatus, SetStep(t, s)
  PROVE  StepSet(task[t].e, task[t].n, s)
  BY DEF RowTypes, SetStep, StepSet

\* What a task in the loop knows.
LEMMA InHand ==
  ASSUME TInv, NEW t \in Tasks
  PROVE  /\ TaskTypes /\ RowTypes /\ task[t] \in TaskRecord
         /\ task[t].e \in Executions \cup {NoExec} /\ task[t].n \in 0..(Steps + 1)
         /\ task[t].pc \in TaskPC /\ task[t].params \in {"dict", "text"}
         /\ task[t].pc \notin Unassigned => task[t].e \in Executions
         /\ task[t].pc \in InLoop => task[t].n \in 1..Steps
<1>1. task[t] \in TaskRecord
  BY DEF TInv, TaskTypes
<1> QED
  BY <1>1, TaskFields DEF TInv, TaskWhole

-----------------------------------------------------------------------------
(* The effect of each action of a task. *)

LEMMA GuardEffect ==
  ASSUME TInv, NEW t \in Tasks, Guard(t)
  PROVE  /\ At(t, "guard")
         /\ Ended(t) \/ Moved(t, "create", NoExec, task[t].n)
         /\ UNCHANGED <<exec, steps, up, counters>>
<1>1. CASE End(t)
  BY <1>1, Ends, InHand DEF Guard
<1>2. CASE Goto(t, "create")
  <2>1. task[t].e = NoExec
    BY DEF Guard, At, TInv, TaskWhole, Unassigned
  <2> QED
    BY <1>2, <2>1, Goes, InHand DEF Guard, TaskPC
<1> QED
  BY <1>1, <1>2 DEF Guard

LEMMA CreateEffect ==
  ASSUME TInv, NEW t \in Tasks, Create(t)
  PROVE  /\ At(t, "create")
         /\ \E e \in Executions :
               /\ exec[e].status = "none"
               /\ RowSet(e, "pending", exec[e].signal, exec[e].completed)
               /\ steps' = [steps EXCEPT ![e] = [n \in 1..Steps |-> "pending"]]
               /\ Moved(t, "markRunning", e, 1)
         /\ UNCHANGED <<up, counters>>
<1>1. PICK e \in Executions :
         /\ exec[e].status = "none"
         /\ exec' = [exec EXCEPT ![e].status = "pending", ![e].full = task[t].full]
         /\ steps' = [steps EXCEPT ![e] = [n \in 1..Steps |-> "pending"]]
         /\ task' = [task EXCEPT ![t].pc = "markRunning", ![t].e = e, ![t].n = 1]
  BY DEF Create
<1>2. Moved(t, "markRunning", e, 1)
  <2>1. "markRunning" \in TaskPC /\ 1 \in 0..(Steps + 1) /\ e \in Executions \cup {NoExec}
    BY NoExecFacts DEF TaskPC
  <2> QED
    BY <1>1, <2>1, GoesOn, InHand
<1> DEFINE r == [exec[e] EXCEPT !.status = "pending", !.full = task[t].full]
<1>3. r \in Row
  BY InHand, TaskFields DEF RowTypes, Row
<1>4. r.status = "pending" /\ r.signal = exec[e].signal /\ r.completed = exec[e].completed
  BY InHand DEF RowTypes, Row
<1>5. exec' = [exec EXCEPT ![e] = r]
  BY <1>1, InHand DEF RowTypes
<1> HIDE DEF r
<1>6. RowSet(e, "pending", exec[e].signal, exec[e].completed)
  BY <1>3, <1>4, <1>5, InHand DEF RowTypes, RowSet
<1> QED
  BY <1>1, <1>2, <1>6 DEF Create

LEMMA NextPendingEffect ==
  ASSUME TInv, NEW t \in Tasks, NextPending(t)
  PROVE  /\ At(t, "nextPending")
         /\ \/ Ended(t)
            \/ \E n \in 1..Steps :
                  /\ steps[task[t].e][n] = "pending"
                  /\ \A m \in 1..Steps : steps[task[t].e][m] = "pending" => n <= m
                  /\ Moved(t, "markRunning", task[t].e, n)
         /\ UNCHANGED <<exec, steps, up, counters>>
<1> DEFINE pending == {n \in 1..Steps : steps[task[t].e][n] = "pending"}
<1>1. CASE pending = {}
  BY <1>1, Ends, InHand DEF NextPending
<1>2. CASE pending # {}
  <2>1. PICK n \in pending :
           /\ \A m \in pending : n <= m
           /\ task' = [task EXCEPT ![t].pc = "markRunning", ![t].n = n]
    BY <1>2 DEF NextPending
  <2>2. Moved(t, "markRunning", task[t].e, n)
    <3>1. "markRunning" \in TaskPC /\ n \in 0..(Steps + 1)
      BY NoExecFacts DEF TaskPC
    <3> QED
      BY <2>1, <3>1, Turns, InHand
  <2> QED
    BY <2>1, <2>2 DEF NextPending
<1> QED
  BY <1>1, <1>2

LEMMA MarkExecutionRunningEffect ==
  ASSUME TInv, NEW t \in Tasks, MarkExecutionRunning(t)
  PROVE  /\ At(t, "markRunning")
         /\ Moved(t, "signal", task[t].e, task[t].n)
         /\ RowSet(task[t].e, "running", exec[task[t].e].signal, exec[task[t].e].completed)
         /\ UNCHANGED <<steps, up, counters>>
  BY InHand, Goes, Marks DEF MarkExecutionRunning, At, TaskPC, Unassigned, Over

LEMMA CheckControlSignalEffect ==
  ASSUME TInv, NEW t \in Tasks, CheckControlSignal(t)
  PROVE  /\ At(t, "signal")
         /\ \/ task[t].n > Steps /\ Moved(t, "markCompleted", task[t].e, task[t].n)
            \/ /\ task[t].n <= Steps
               /\ \E pc \in {"cancelSteps", "clearSignal", "stepRunning"} :
                     Moved(t, pc, task[t].e, task[t].n)
         /\ UNCHANGED <<exec, steps, up, counters>>
<1>1. CASE task[t].n > Steps
  BY <1>1, InHand, Goes DEF CheckControlSignal, TaskPC
<1>2. CASE task[t].n <= Steps
  <2>1. \E pc \in {"cancelSteps", "clearSignal", "stepRunning"} : Goto(t, pc)
    BY <1>2, InHand, NoExecFacts DEF CheckControlSignal
  <2> QED
    BY <1>2, <2>1, InHand, Goes DEF CheckControlSignal, TaskPC
<1> QED
  BY <1>1, <1>2, InHand, NoExecFacts

LEMMA CancelStepsEffect ==
  ASSUME TInv, NEW t \in Tasks, CancelSteps(t)
  PROVE  /\ At(t, "cancelSteps")
         /\ StepSet(task[t].e, task[t].n, "cancelled")
         /\ IF task[t].n = Steps
            THEN Moved(t, "markCancelled", task[t].e, task[t].n)
            ELSE Moved(t, "cancelSteps", task[t].e, task[t].n + 1)
         /\ UNCHANGED <<exec, up, counters>>
<1> DEFINE pc == IF task[t].n = Steps THEN "markCancelled" ELSE "cancelSteps"
           n == task[t].n + (IF task[t].n = Steps THEN 0 ELSE 1)
<1>1. pc \in TaskPC /\ n \in 0..(Steps + 1)
  BY InHand, NoExecFacts DEF CancelSteps, At, InLoop, TaskPC
<1>2. task' = [task EXCEPT ![t].n = n, ![t].pc = pc]
  BY InHand DEF CancelSteps, At, TaskTypes
<1> HIDE DEF pc, n
<1>3. Moved(t, pc, task[t].e, n)
  BY <1>1, <1>2, Turns, InHand
<1>4. StepSet(task[t].e, task[t].n, "cancelled")
  BY InHand, StepMarks DEF CancelSteps, At, Unassigned, InLoop, StepStatus
<1> QED
  BY <1>3, <1>4, InHand, NoExecFacts DEF CancelSteps, pc, n, At, InLoop

LEMMA MarkExecutionCancelledEffect ==
  ASSUME TInv, NEW t \in Tasks, MarkExecutionCancelled(t)
  PROVE  /\ At(t, "markCancelled") /\ Ended(t)
         /\ RowSet(task[t].e, "cancelled", exec[task[t].e].signal, exec[task[t].e].completed)
         /\ UNCHANGED <<steps, up, counters>>
  BY InHand, Ends, Marks DEF MarkExecutionCancelled, At, Unassigned, Over

LEMMA ClearControlSignalEffect ==
  ASSUME TInv, NEW t \in Tasks, ClearControlSignal(t)
  PROVE  /\ At(t, "clearSignal")
         /\ Moved(t, "markPaused", task[t].e, task[t].n)
         /\ RowSet(task[t].e, exec[task[t].e].status, "none", exec[task[t].e].completed)
         /\ UNCHANGED <<steps, up, counters>>
<1> DEFINE e == task[t].e
           r == [exec[e] EXCEPT !.signal = "none"]
<1>1. e \in Executions
  BY InHand DEF ClearControlSignal, At, Unassigned
<1>2. r \in Row /\ r.status = exec[e].status /\ r.signal = "none" /\ r.completed = exec[e].completed
  BY <1>1, InHand DEF RowTypes, Row
<1>3. exec' = [exec EXCEPT ![e] = r]
  BY <1>1, InHand DEF RowTypes, ClearControlSignal
<1> HIDE DEF r
<1>4. RowSet(e, exec[e].status, "none", exec[e].completed)
  BY <1>1, <1>2, <1>3, InHand DEF RowTypes, RowSet
<1> QED
  BY <1>4, InHand, Goes DEF ClearControlSignal, TaskPC

LEMMA MarkExecutionPausedEffect ==
  ASSUME TInv, NEW t \in Tasks, MarkExecutionPaused(t)
  PROVE  /\ At(t, "markPaused") /\ Ended(t)
         /\ RowSet(task[t].e, "paused", exec[task[t].e].signal, exec[task[t].e].completed)
         /\ UNCHANGED <<steps, up, counters>>
  BY InHand, Ends, Marks DEF MarkExecutionPaused, At, Unassigned, Over

LEMMA MarkStepRunningEffect ==
  ASSUME TInv, NEW t \in Tasks, MarkStepRunning(t)
  PROVE  /\ At(t, "stepRunning")
         /\ StepSet(task[t].e, task[t].n, "running")
         /\ Moved(t, "execute", task[t].e, task[t].n)
         /\ UNCHANGED <<exec, up, counters>>
  BY InHand, Goes, StepMarks DEF MarkStepRunning, At, Unassigned, InLoop, TaskPC, StepStatus

LEMMA ExecuteStepEffect ==
  ASSUME TInv, NEW t \in Tasks, ExecuteStep(t)
  PROVE  /\ At(t, "execute")
         /\ \/ Moved(t, "stepFailed", task[t].e, task[t].n)
            \/ /\ task[t].params = "text" => task[t].n \notin ReadsParams
               /\ Moved(t, "stepCompleted", task[t].e, task[t].n)
         /\ UNCHANGED failures \/ (failures < MaxFailures /\ failures' = failures + 1)
         /\ UNCHANGED <<exec, steps, up, starts, controls, crashes>>
<1>1. \/ Goto(t, "stepFailed")
      \/ Goto(t, "stepCompleted") /\ ~(task[t].params = "text" /\ task[t].n \in ReadsParams)
  BY DEF ExecuteStep
<1>2. \/ Moved(t, "stepFailed", task[t].e, task[t].n)
      \/ /\ task[t].params = "text" => task[t].n \notin ReadsParams
         /\ Moved(t, "stepCompleted", task[t].e, task[t].n)
  BY <1>1, InHand, Goes DEF TaskPC
<1>3. UNCHANGED failures \/ (failures < MaxFailures /\ failures' = failures + 1)
  BY DEF ExecuteStep
<1> QED
  BY <1>2, <1>3 DEF ExecuteStep

LEMMA MarkStepCompletedEffect ==
  ASSUME TInv, NEW t \in Tasks, MarkStepCompleted(t)
  PROVE  /\ At(t, "stepCompleted")
         /\ StepSet(task[t].e, task[t].n, "completed")
         /\ Moved(t, "countStep", task[t].e, task[t].n)
         /\ UNCHANGED <<exec, up, counters>>
  BY InHand, Goes, StepMarks DEF MarkStepCompleted, At, Unassigned, InLoop, TaskPC, StepStatus

LEMMA CountStepEffect ==
  ASSUME TInv, NEW t \in Tasks, CountStep(t)
  PROVE  /\ At(t, "countStep")
         /\ Moved(t, "signal", task[t].e, task[t].n + 1)
         /\ RowSet(task[t].e, exec[task[t].e].status, exec[task[t].e].signal,
                   exec[task[t].e].completed + 1)
         /\ UNCHANGED <<steps, up, counters>>
<1> DEFINE e == task[t].e
           r == [exec[e] EXCEPT !.completed = @ + 1]
           n == task[t].n + 1
<1>1. e \in Executions
  BY InHand DEF CountStep, At, Unassigned
<1>2. /\ r \in Row /\ r.status = exec[e].status /\ r.signal = exec[e].signal
      /\ r.completed = exec[e].completed + 1
  BY <1>1, InHand DEF RowTypes, Row
<1>3. exec' = [exec EXCEPT ![e] = r]
  BY <1>1, InHand DEF RowTypes, CountStep
<1> HIDE DEF r
<1>4. RowSet(e, exec[e].status, exec[e].signal, exec[e].completed + 1)
  BY <1>1, <1>2, <1>3, InHand DEF RowTypes, RowSet
<1>5. n \in 0..(Steps + 1) /\ task' = [task EXCEPT ![t].pc = "signal", ![t].n = n]
  BY InHand, NoExecFacts DEF CountStep, At, InLoop, TaskTypes
<1> HIDE DEF n
<1>6. Moved(t, "signal", e, n)
  BY <1>5, Turns, InHand DEF TaskPC
<1> QED
  BY <1>4, <1>6 DEF CountStep, n

LEMMA MarkStepFailedEffect ==
  ASSUME TInv, NEW t \in Tasks, MarkStepFailed(t)
  PROVE  /\ At(t, "stepFailed")
         /\ StepSet(task[t].e, task[t].n, "failed")
         /\ Moved(t, "markFailed", task[t].e, task[t].n)
         /\ UNCHANGED <<exec, up, counters>>
  BY InHand, Goes, StepMarks DEF MarkStepFailed, At, Unassigned, InLoop, TaskPC, StepStatus

LEMMA MarkExecutionFailedEffect ==
  ASSUME TInv, NEW t \in Tasks, MarkExecutionFailed(t)
  PROVE  /\ At(t, "markFailed") /\ Ended(t)
         /\ RowSet(task[t].e, "failed", exec[task[t].e].signal, exec[task[t].e].completed)
         /\ UNCHANGED <<steps, up, counters>>
  BY InHand, Ends, Marks DEF MarkExecutionFailed, At, Unassigned, Over

LEMMA MarkExecutionCompletedEffect ==
  ASSUME TInv, NEW t \in Tasks, MarkExecutionCompleted(t)
  PROVE  /\ At(t, "markCompleted") /\ Ended(t)
         /\ RowSet(task[t].e, "completed", exec[task[t].e].signal, exec[task[t].e].completed)
         /\ UNCHANGED <<steps, up, counters>>
  BY InHand, Ends, Marks DEF MarkExecutionCompleted, At, Unassigned, Over

\* The same for the actions that start a task, and for those of no task.
LEMMA SpawnEffect ==
  ASSUME TInv, NEW t \in Tasks, NEW r \in TaskRecord, Spawn(t, r), r.n = 0
  PROVE  Spawned(t, r.pc, r.e, r.params)
<1>1. PICK i \in up : task' = [task EXCEPT ![t] = [r EXCEPT !.on = i]]
  BY DEF Spawn
<1> DEFINE q == [r EXCEPT !.on = i]
<1>2. q \in TaskRecord
  BY DEF TInv, BoundTypes, TaskRecord
<1>3. q.pc = r.pc /\ q.e = r.e /\ q.n = 0 /\ q.params = r.params /\ q.on = i
  BY DEF TaskRecord
<1>4. task' = [task EXCEPT ![t] = q]
  BY <1>1
<1> HIDE DEF q
<1>5. TaskTypes' /\ task'[t] = q /\ \A u \in Tasks \ {t} : task'[u] = task[u]
  BY <1>2, <1>4 DEF TInv, TaskTypes
<1> QED
  BY <1>3, <1>5 DEF Spawned, Spawn

LEMMA StartEffect ==
  ASSUME TInv, NEW t \in Tasks, Start(t)
  PROVE  /\ Spawned(t, "guard", NoExec, "dict")
         /\ starts < MaxStarts /\ starts' = starts + 1
         /\ UNCHANGED <<exec, steps, up, controls, crashes, failures>>
<1>1. PICK full \in BOOLEAN : Spawn(t, [Idle EXCEPT !.pc = "guard", !.full = full])
  BY DEF Start
<1> DEFINE r == [Idle EXCEPT !.pc = "guard", !.full = full]
<1>2. r \in TaskRecord
  BY IdleTask DEF TaskRecord, TaskPC
<1>3. r.pc = "guard" /\ r.e = NoExec /\ r.n = 0 /\ r.params = "dict"
  BY DEF Idle
<1> HIDE DEF r
<1> QED
  BY <1>1, <1>2, <1>3, SpawnEffect DEF Start, r

LEMMA RerunEffect ==
  ASSUME TInv, NEW t \in Tasks, NEW e \in Executions, Rerun(t, e)
  PROVE  /\ Spawned(t, "guard", NoExec, "text")
         /\ starts < MaxStarts /\ starts' = starts + 1
         /\ UNCHANGED <<exec, steps, up, controls, crashes, failures>>
<1> DEFINE r == [Idle EXCEPT !.pc = "guard", !.full = exec[e].full, !.params = "text"]
<1>1. exec[e].full \in BOOLEAN
  BY DEF TInv, RowTypes, Row
<1>2. r \in TaskRecord
  BY <1>1, IdleTask DEF TaskRecord, TaskPC
<1>3. r.pc = "guard" /\ r.e = NoExec /\ r.n = 0 /\ r.params = "text"
  BY DEF Idle
<1>4. Spawn(t, r)
  BY DEF Rerun
<1> HIDE DEF r
<1> QED
  BY <1>2, <1>3, <1>4, SpawnEffect DEF Rerun

LEMMA ResumeEffect ==
  ASSUME TInv, NEW t \in Tasks, NEW e \in Executions, Resume(t, e)
  PROVE  /\ exec[e].status = "paused"
         /\ RowSet(e, "running", "none", exec[e].completed)
         /\ Spawned(t, "nextPending", e, "text")
         /\ controls < MaxControls /\ controls' = controls + 1
         /\ UNCHANGED <<steps, up, starts, crashes, failures>>
<1> DEFINE r == [Idle EXCEPT !.pc = "nextPending", !.e = e, !.params = "text"]
<1>1. r \in TaskRecord
  BY IdleTask DEF TaskRecord, TaskPC
<1>2. r.pc = "nextPending" /\ r.e = e /\ r.n = 0 /\ r.params = "text"
  BY DEF Idle
<1>3. Spawn(t, r)
  BY DEF Resume
<1> HIDE DEF r
<1>4. Spawned(t, "nextPending", e, "text")
  BY <1>1, <1>2, <1>3, SpawnEffect
<1> DEFINE q == [exec[e] EXCEPT !.status = "running", !.signal = "none"]
<1>5. q \in Row /\ q.status = "running" /\ q.signal = "none" /\ q.completed = exec[e].completed
  BY DEF TInv, RowTypes, Row
<1>6. exec' = [exec EXCEPT ![e] = q]
  BY DEF Resume, TInv, RowTypes
<1> HIDE DEF q
<1>7. RowSet(e, "running", "none", exec[e].completed)
  BY <1>5, <1>6 DEF TInv, RowTypes, RowSet
<1> QED
  BY <1>4, <1>7 DEF Resume

LEMMA ControlEffect ==
  ASSUME TInv, NEW e \in Executions, NEW signal \in {"pause", "cancel"}, Control(e, signal)
  PROVE  /\ RowSet(e, exec[e].status, signal, exec[e].completed)
         /\ controls < MaxControls /\ controls' = controls + 1
         /\ UNCHANGED <<steps, task, up, starts, crashes, failures>>
<1> DEFINE q == [exec[e] EXCEPT !.signal = signal]
<1>1. /\ q \in Row /\ q.status = exec[e].status /\ q.signal = signal
      /\ q.completed = exec[e].completed
  BY DEF TInv, RowTypes, Row
<1>2. exec' = [exec EXCEPT ![e] = q]
  BY DEF Control, TInv, RowTypes
<1> HIDE DEF q
<1> QED
  BY <1>1, <1>2 DEF TInv, RowTypes, RowSet, Control

LEMMA CrashEffect ==
  ASSUME TInv, NEW i \in Instances, Crash(i)
  PROVE  /\ i \in up /\ up' = up \ {i}
         /\ TaskTypes'
         /\ \A u \in Tasks : task'[u] = IF task[u].on = i THEN Idle ELSE task[u]
         /\ crashes < MaxCrashes /\ crashes' = crashes + 1
         /\ UNCHANGED <<exec, steps, starts, controls, failures>>
  BY IdleTask DEF Crash, TInv, TaskTypes

LEMMA RestartEffect ==
  ASSUME TInv, NEW i \in Instances, Restart(i)
  PROVE  /\ i \notin up /\ up' = up \cup {i}
         /\ exec' \in [Executions -> Row]
         /\ \A e \in Executions :
               /\ exec'[e].completed = exec[e].completed
               /\ exec'[e].status = IF exec[e].status = "running" THEN "paused"
                                    ELSE exec[e].status
         /\ UNCHANGED <<steps, task, counters>>
<1>1. \A e \in Executions :
         /\ [exec[e] EXCEPT !.status = "paused", !.signal = "none"] \in Row
         /\ [exec[e] EXCEPT !.status = "paused", !.signal = "none"].status = "paused"
         /\ [exec[e] EXCEPT !.status = "paused", !.signal = "none"].completed = exec[e].completed
         /\ exec[e] \in Row
  BY DEF TInv, RowTypes, Row
<1> QED
  BY <1>1 DEF Restart, TInv, RowTypes

-----------------------------------------------------------------------------
(* The type invariant is inductive. *)

LEMMA TInvInit == Init => TInv
<1> SUFFICES ASSUME Init PROVE TInv
  OBVIOUS
<1> USE StepsAssumption, BoundsAssumption DEF Init
<1>1. RowTypes
  BY DEF RowTypes, Row, StepStatus
<1>2. TaskTypes
  BY IdleTask DEF TaskTypes
<1>3. BoundTypes
  BY DEF BoundTypes
<1>4. TaskWhole
  BY DEF TaskWhole, Idle, At, Unassigned, InLoop
<1> QED
  BY <1>1, <1>2, <1>3, <1>4 DEF TInv

LEMMA WholeMoved ==
  ASSUME TInv, NEW t \in Tasks, NEW pc, NEW e, NEW n, Moved(t, pc, e, n),
         pc # "idle",
         e = NoExec <=> pc \in Unassigned,
         pc \in InLoop => n \in 1..Steps,
         pc = "signal" => n \in 1..(Steps + 1),
         pc = "markCompleted" => n = Steps + 1
  PROVE  TaskTypes' /\ TaskWhole'
  BY DEF TInv, TaskWhole, Moved, At

LEMMA WholeSpawned ==
  ASSUME TInv, NEW t \in Tasks, NEW e, NEW params,
         \/ Spawned(t, "guard", NoExec, params)
         \/ Spawned(t, "nextPending", e, params) /\ e # NoExec
  PROVE  TaskTypes' /\ TaskWhole'
  BY DEF TInv, TaskWhole, Spawned, At, Unassigned, InLoop

LEMMA WholeEnded ==
  ASSUME TInv, NEW t \in Tasks, Ended(t)
  PROVE  TaskTypes' /\ TaskWhole'
  BY IdleFields DEF TInv, TaskWhole, Ended, At, Unassigned, InLoop

LEMMA BoundsKept ==
  ASSUME TInv, UNCHANGED <<up, counters>>
  PROVE  BoundTypes'
  BY DEF TInv, BoundTypes, counters

LEMMA TInvRun ==
  ASSUME TInv, NEW t \in Tasks, Run(t)
  PROVE  TInv'
<1> USE InHand, NoExecFacts DEF At, Unassigned, InLoop
<1>1. CASE Guard(t)
  <2>1. TaskTypes' /\ TaskWhole'
    BY <1>1, GuardEffect, WholeMoved, WholeEnded
  <2> QED
    BY <1>1, <2>1, GuardEffect, BoundsKept DEF TInv, RowTypes, RowSet, StepSet
<1>2. CASE Create(t)
  <2>1. PICK e \in Executions :
           /\ RowSet(e, "pending", exec[e].signal, exec[e].completed)
           /\ steps' = [steps EXCEPT ![e] = [n \in 1..Steps |-> "pending"]]
           /\ Moved(t, "markRunning", e, 1)
    BY <1>2, CreateEffect
  <2>2. RowTypes'
    BY <2>1 DEF RowTypes, RowSet, StepStatus
  <2>3. 1 \in 1..Steps /\ e # NoExec
    OBVIOUS
  <2>4. TaskTypes' /\ TaskWhole'
    BY <2>1, <2>3, WholeMoved
  <2> QED
    BY <1>2, <2>2, <2>4, CreateEffect, BoundsKept DEF TInv
<1>3. CASE NextPending(t)
  <2>1. TaskTypes' /\ TaskWhole'
    BY <1>3, NextPendingEffect, WholeMoved, WholeEnded
  <2> QED
    BY <1>3, <2>1, NextPendingEffect, BoundsKept DEF TInv, RowTypes, RowSet, StepSet
<1>4. CASE MarkExecutionRunning(t)
  <2>1. TaskTypes' /\ TaskWhole'
    BY <1>4, MarkExecutionRunningEffect, WholeMoved
  <2> QED
    BY <1>4, <2>1, MarkExecutionRunningEffect, BoundsKept DEF TInv, RowTypes, RowSet, StepSet
<1>5. CASE CheckControlSignal(t)
  <2>1. task[t].n \in 1..(Steps + 1)
    BY <1>5, CheckControlSignalEffect DEF TInv, TaskWhole
  <2>2. TaskTypes' /\ TaskWhole'
    BY <1>5, <2>1, CheckControlSignalEffect, WholeMoved
  <2> QED
    BY <1>5, <2>2, CheckControlSignalEffect, BoundsKept DEF TInv, RowTypes
<1>6. CASE CancelSteps(t)
  <2>1. TaskTypes' /\ TaskWhole'
    BY <1>6, CancelStepsEffect, WholeMoved
  <2> QED
    BY <1>6, <2>1, CancelStepsEffect, BoundsKept DEF TInv, RowTypes, RowSet, StepSet
<1>7. CASE MarkExecutionCancelled(t)
  BY <1>7, MarkExecutionCancelledEffect, WholeEnded, BoundsKept DEF TInv, RowTypes, RowSet
<1>8. CASE ClearControlSignal(t)
  <2>1. TaskTypes' /\ TaskWhole'
    BY <1>8, ClearControlSignalEffect, WholeMoved
  <2> QED
    BY <1>8, <2>1, ClearControlSignalEffect, BoundsKept DEF TInv, RowTypes, RowSet, StepSet
<1>9. CASE MarkExecutionPaused(t)
  BY <1>9, MarkExecutionPausedEffect, WholeEnded, BoundsKept DEF TInv, RowTypes, RowSet
<1>10. CASE MarkStepRunning(t)
  <2>1. TaskTypes' /\ TaskWhole'
    BY <1>10, MarkStepRunningEffect, WholeMoved
  <2> QED
    BY <1>10, <2>1, MarkStepRunningEffect, BoundsKept DEF TInv, RowTypes, RowSet, StepSet
<1>11. CASE ExecuteStep(t)
  <2>1. BoundTypes'
    BY <1>11, ExecuteStepEffect, BoundsAssumption DEF TInv, BoundTypes
  <2>2. TaskTypes' /\ TaskWhole'
    BY <1>11, ExecuteStepEffect, WholeMoved
  <2> QED
    BY <1>11, <2>1, <2>2, ExecuteStepEffect DEF TInv, RowTypes
<1>12. CASE MarkStepCompleted(t)
  <2>1. TaskTypes' /\ TaskWhole'
    BY <1>12, MarkStepCompletedEffect, WholeMoved
  <2> QED
    BY <1>12, <2>1, MarkStepCompletedEffect, BoundsKept DEF TInv, RowTypes, RowSet, StepSet
<1>13. CASE CountStep(t)
  <2>1. TaskTypes' /\ TaskWhole'
    BY <1>13, CountStepEffect, WholeMoved
  <2> QED
    BY <1>13, <2>1, CountStepEffect, BoundsKept DEF TInv, RowTypes, RowSet, StepSet
<1>14. CASE MarkStepFailed(t)
  <2>1. TaskTypes' /\ TaskWhole'
    BY <1>14, MarkStepFailedEffect, WholeMoved
  <2> QED
    BY <1>14, <2>1, MarkStepFailedEffect, BoundsKept DEF TInv, RowTypes, RowSet, StepSet
<1>15. CASE MarkExecutionFailed(t)
  BY <1>15, MarkExecutionFailedEffect, WholeEnded, BoundsKept DEF TInv, RowTypes, RowSet
<1>16. CASE MarkExecutionCompleted(t)
  BY <1>16, MarkExecutionCompletedEffect, WholeEnded, BoundsKept DEF TInv, RowTypes, RowSet
<1> QED
  BY <1>1, <1>2, <1>3, <1>4, <1>5, <1>6, <1>7, <1>8, <1>9, <1>10, <1>11, <1>12, <1>13, <1>14,
     <1>15, <1>16 DEF Run

LEMMA TInvNext == TInv /\ [Next]_vars => TInv'
<1> SUFFICES ASSUME TInv, [Next]_vars PROVE TInv'
  OBVIOUS
<1> USE NoExecFacts DEF Unassigned, InLoop
<1>1. ASSUME NEW t \in Tasks, Start(t) PROVE TInv'
  <2>1. TaskTypes' /\ TaskWhole'
    BY <1>1, StartEffect, WholeSpawned
  <2> QED
    BY <1>1, <2>1, StartEffect, BoundsAssumption DEF TInv, RowTypes, BoundTypes
<1>2. ASSUME NEW t \in Tasks, NEW e \in Executions, Rerun(t, e) PROVE TInv'
  <2>1. TaskTypes' /\ TaskWhole'
    BY <1>2, RerunEffect, WholeSpawned
  <2> QED
    BY <1>2, <2>1, RerunEffect, BoundsAssumption DEF TInv, RowTypes, BoundTypes
<1>3. ASSUME NEW t \in Tasks, NEW e \in Executions, Resume(t, e) PROVE TInv'
  <2>1. TaskTypes' /\ TaskWhole'
    BY <1>3, ResumeEffect, WholeSpawned
  <2> QED
    BY <1>3, <2>1, ResumeEffect, BoundsAssumption DEF TInv, BoundTypes, RowTypes, RowSet
<1>4. ASSUME NEW t \in Tasks, Run(t) PROVE TInv'
  BY <1>4, TInvRun
<1>5. ASSUME NEW e \in Executions, NEW signal \in {"pause", "cancel"}, Control(e, signal)
      PROVE  TInv'
  <2>1. TaskTypes' /\ TaskWhole'
    BY <1>5, ControlEffect DEF TInv, TaskTypes, TaskWhole, At
  <2> QED
    BY <1>5, <2>1, ControlEffect, BoundsAssumption DEF TInv, BoundTypes, RowTypes, RowSet
<1>6. ASSUME NEW i \in Instances, Crash(i) PROVE TInv'
  <2>1. TaskWhole'
    BY <1>6, CrashEffect, IdleFields DEF TInv, TaskWhole, At
  <2> QED
    BY <1>6, <2>1, CrashEffect, BoundsAssumption DEF TInv, RowTypes, BoundTypes
<1>7. ASSUME NEW i \in Instances, Restart(i) PROVE TInv'
  <2>1. TaskTypes' /\ TaskWhole'
    BY <1>7, RestartEffect DEF TInv, TaskTypes, TaskWhole, At
  <2> QED
    BY <1>7, <2>1, RestartEffect DEF TInv, RowTypes, BoundTypes, counters
<1>8. CASE UNCHANGED vars
  BY <1>8 DEF vars, TInv, RowTypes, TaskTypes, BoundTypes, TaskWhole, At
<1> QED
  BY <1>1, <1>2, <1>3, <1>4, <1>5, <1>6, <1>7, <1>8 DEF Next, Quiet

\* The rows and the threads have their types, with any number of instances.
THEOREM TypeCorrect == Spec => []TypeOK
<1>1. TInv => TypeOK
  BY TypeParts DEF TInv
<1> QED
  BY TInvInit, TInvNext, <1>1, PTL DEF Spec

-----------------------------------------------------------------------------
(* One task for each execution. *)

\* The actions that write rows, and those that write steps.
LEMMA Writers ==
  ASSUME NEW t \in Tasks, Run(t)
  PROVE  /\ UNCHANGED <<up, crashes>>
         /\ \/ UNCHANGED exec
            \/ Create(t) \/ MarkExecutionRunning(t) \/ MarkExecutionCancelled(t)
            \/ ClearControlSignal(t) \/ MarkExecutionPaused(t) \/ CountStep(t)
            \/ MarkExecutionFailed(t) \/ MarkExecutionCompleted(t)
         /\ \/ UNCHANGED steps
            \/ Create(t) \/ CancelSteps(t) \/ MarkStepRunning(t) \/ MarkStepCompleted(t)
            \/ MarkStepFailed(t)
  BY DEF Run, counters, Guard, NextPending, CheckControlSignal, ExecuteStep, Create,
     MarkExecutionRunning, MarkExecutionCancelled, ClearControlSignal, MarkExecutionPaused,
     CountStep, MarkExecutionFailed, MarkExecutionCompleted, CancelSteps, MarkStepRunning,
     MarkStepCompleted, MarkStepFailed

\* What a step of one task leaves alone: the other tasks and their executions.
LEMMA OwnTask ==
  ASSUME TInv, NEW t \in Tasks, Run(t)
  PROVE  /\ \A u \in Tasks \ {t} : task'[u] = task[u]
         /\ task[t] # Idle
         /\ task'[t] = Idle \/ task'[t].on = task[t].on
         /\ task'[t].e \in {task[t].e, NoExec} \/ exec[task'[t].e].status = "none"
         /\ \A d \in Executions : d # task[t].e /\ d # task'[t].e =>
               exec'[d] = exec[d] /\ steps'[d] = steps[d]
<1> USE InHand, IdleFields DEF At, Moved, Ended, RowSet, StepSet, RowTypes
<1>1. CASE Guard(t)
  BY <1>1, GuardEffect
<1>2. CASE Create(t)
  BY <1>2, CreateEffect
<1>3. CASE NextPending(t)
  BY <1>3, NextPendingEffect
<1>4. CASE MarkExecutionRunning(t)
  BY <1>4, MarkExecutionRunningEffect
<1>5. CASE CheckControlSignal(t)
  BY <1>5, CheckControlSignalEffect
<1>6. CASE CancelSteps(t)
  BY <1>6, CancelStepsEffect
<1>7. CASE MarkExecutionCancelled(t)
  BY <1>7, MarkExecutionCancelledEffect
<1>8. CASE ClearControlSignal(t)
  BY <1>8, ClearControlSignalEffect
<1>9. CASE MarkExecutionPaused(t)
  BY <1>9, MarkExecutionPausedEffect
<1>10. CASE MarkStepRunning(t)
  BY <1>10, MarkStepRunningEffect
<1>11. CASE ExecuteStep(t)
  BY <1>11, ExecuteStepEffect
<1>12. CASE MarkStepCompleted(t)
  BY <1>12, MarkStepCompletedEffect
<1>13. CASE CountStep(t)
  BY <1>13, CountStepEffect
<1>14. CASE MarkStepFailed(t)
  BY <1>14, MarkStepFailedEffect
<1>15. CASE MarkExecutionFailed(t)
  BY <1>15, MarkExecutionFailedEffect
<1>16. CASE MarkExecutionCompleted(t)
  BY <1>16, MarkExecutionCompletedEffect
<1> QED
  BY <1>1, <1>2, <1>3, <1>4, <1>5, <1>6, <1>7, <1>8, <1>9, <1>10, <1>11, <1>12, <1>13, <1>14, <1>15, <1>16 DEF Run

LEMMA OthersUntouched ==
  ASSUME TInv, OneTaskPerExecution, NEW t \in Tasks, Run(t)
  PROVE  /\ \A u \in Tasks \ {t} : task'[u] = task[u]
         /\ \A u \in Tasks \ {t} : task[u].e # NoExec =>
               /\ task[u].e # task[t].e /\ task[u].e # task'[t].e
               /\ exec'[task[u].e] = exec[task[u].e] /\ steps'[task[u].e] = steps[task[u].e]
  BY OwnTask, InHand DEF OneTaskPerExecution

\* The moves of a status that the steps of a task make.
LEMMA RunMovesStatus ==
  ASSUME TInv, OneTaskPerExecution, NEW t \in Tasks, Run(t), NEW e \in Executions,
         exec'[e].status # exec[e].status
  PROVE  \/ exec[e].status = "none" /\ exec'[e].status = "pending"
         \/ exec[e].status = "pending" /\ exec'[e].status = "running"
         \/ exec[e].status = "running" /\ exec'[e].status \in Over \cup {"paused"}
<1> USE InHand, NoExecFacts DEF OneTaskPerExecution, RowSet, At, Unassigned, Over
<1>1. CASE Create(t)
  BY <1>1, CreateEffect
<1>2. CASE MarkExecutionRunning(t)
  BY <1>2, MarkExecutionRunningEffect
<1>3. CASE MarkExecutionCancelled(t)
  BY <1>3, MarkExecutionCancelledEffect
<1>4. CASE ClearControlSignal(t)
  BY <1>4, ClearControlSignalEffect
<1>5. CASE MarkExecutionPaused(t)
  BY <1>5, MarkExecutionPausedEffect
<1>6. CASE CountStep(t)
  BY <1>6, CountStepEffect
<1>7. CASE MarkExecutionFailed(t)
  BY <1>7, MarkExecutionFailedEffect
<1>8. CASE MarkExecutionCompleted(t)
  BY <1>8, MarkExecutionCompletedEffect
<1> QED
  BY <1>1, <1>2, <1>3, <1>4, <1>5, <1>6, <1>7, <1>8, Writers

LEMMA RunKeepsOneTask ==
  ASSUME TInv, OneTaskPerExecution, NEW t \in Tasks, Run(t)
  PROVE  OneTaskPerExecution'
<1> USE IdleFields, OthersUntouched, InHand, NoExecFacts DEF OneTaskPerExecution, At, Moved, Ended, RowSet, Unassigned
<1>1. CASE Guard(t)
  BY <1>1, GuardEffect
<1>2. CASE Create(t)
  BY <1>2, CreateEffect
<1>3. CASE NextPending(t)
  BY <1>3, NextPendingEffect
<1>4. CASE MarkExecutionRunning(t)
  BY <1>4, MarkExecutionRunningEffect
<1>5. CASE CheckControlSignal(t)
  BY <1>5, CheckControlSignalEffect
<1>6. CASE CancelSteps(t)
  BY <1>6, CancelStepsEffect
<1>7. CASE MarkExecutionCancelled(t)
  BY <1>7, MarkExecutionCancelledEffect
<1>8. CASE ClearControlSignal(t)
  BY <1>8, ClearControlSignalEffect
<1>9. CASE MarkExecutionPaused(t)
  BY <1>9, MarkExecutionPausedEffect
<1>10. CASE MarkStepRunning(t)
  BY <1>10, MarkStepRunningEffect
<1>11. CASE ExecuteStep(t)
  BY <1>11, ExecuteStepEffect
<1>12. CASE MarkStepCompleted(t)
  BY <1>12, MarkStepCompletedEffect
<1>13. CASE CountStep(t)
  BY <1>13, CountStepEffect
<1>14. CASE MarkStepFailed(t)
  BY <1>14, MarkStepFailedEffect
<1>15. CASE MarkExecutionFailed(t)
  BY <1>15, MarkExecutionFailedEffect
<1>16. CASE MarkExecutionCompleted(t)
  BY <1>16, MarkExecutionCompletedEffect
<1> QED
  BY <1>1, <1>2, <1>3, <1>4, <1>5, <1>6, <1>7, <1>8, <1>9, <1>10, <1>11, <1>12, <1>13, <1>14, <1>15, <1>16 DEF Run

LEMMA RunKeepsUp ==
  ASSUME TInv, TasksAreUp, NEW t \in Tasks, Run(t)
  PROVE  TasksAreUp'
  BY OwnTask, Writers DEF TasksAreUp

LEMMA RunKeepsFresh ==
  ASSUME TInv, OneTaskPerExecution, FreshRows, NEW t \in Tasks, Run(t)
  PROVE  FreshRows'
<1> SUFFICES ASSUME NEW e \in Executions, exec'[e].status = "none"
             PROVE  steps'[e] = steps[e] /\ exec[e].status = "none"
  BY DEF FreshRows
<1>1. exec[e].status = "none"
  BY RunMovesStatus DEF Over
<1>2. e # task[t].e
  BY <1>1, NoExecFacts DEF OneTaskPerExecution
<1>3. e # task'[t].e \/ steps'[e] = steps[e]
  <2>1. CASE Create(t)
    BY <2>1, CreateEffect DEF Moved, RowSet
  <2> USE <1>2 DEF StepSet
  <2>2. CASE CancelSteps(t)
    BY <2>2, CancelStepsEffect
  <2>3. CASE MarkStepRunning(t)
    BY <2>3, MarkStepRunningEffect
  <2>4. CASE MarkStepCompleted(t)
    BY <2>4, MarkStepCompletedEffect
  <2>5. CASE MarkStepFailed(t)
    BY <2>5, MarkStepFailedEffect
  <2> QED
    BY <2>1, <2>2, <2>3, <2>4, <2>5, Writers
<1> QED
  BY <1>1, <1>2, <1>3, OwnTask

LEMMA RunKeepsInHand ==
  ASSUME TInv, OneTaskPerExecution, StepInHand, StepsInOrder, NEW t \in Tasks, Run(t)
  PROVE  StepInHand'
<1>a. ASSUME NEW u \in Tasks \ {t} PROVE StepFits(u)'
  BY OthersUntouched DEF StepInHand, StepFits, At
<1>b. StepFits(t)
  BY DEF StepInHand
<1>c. StepFits(t)'
  <2> USE IdleFields, InHand, NoExecFacts DEF At, Moved, Ended, StepSet, Unassigned, InLoop
  <2>1. CASE Guard(t)
    BY <2>1, GuardEffect, <1>b DEF StepFits
  <2>2. CASE Create(t)
    <3>1. PICK e \in Executions :
             /\ steps' = [steps EXCEPT ![e] = [n \in 1..Steps |-> "pending"]]
             /\ Moved(t, "markRunning", e, 1)
      BY <2>2, CreateEffect
    <3>2. \A m \in 1..Steps : steps'[e][m] = "pending"
      BY <3>1 DEF RowTypes
    <3> QED
      BY <3>1, <3>2 DEF StepFits
  <2>3. CASE NextPending(t)
    BY <2>3, NextPendingEffect, <1>b DEF StepFits
  <2>4. CASE MarkExecutionRunning(t)
    BY <2>4, MarkExecutionRunningEffect, <1>b DEF StepFits
  <2>5. CASE CheckControlSignal(t)
    BY <2>5, CheckControlSignalEffect, <1>b DEF StepFits
  <2>6. CASE CancelSteps(t)
    <3>1. CASE task[t].n = Steps
      BY <2>6, <3>1, CancelStepsEffect, <1>b DEF StepFits
    <3>2. CASE task[t].n # Steps
      <4>1. /\ Moved(t, "cancelSteps", task[t].e, task[t].n + 1)
            /\ StepSet(task[t].e, task[t].n, "cancelled")
        BY <2>6, <3>2, CancelStepsEffect
      <4>2. steps[task[t].e][task[t].n + 1] = "pending"
        BY <2>6, <3>2, CancelStepsEffect, <1>b DEF StepFits, StepsInOrder
      <4>3. \A m \in 1..Steps : m < task[t].n + 1 => m < task[t].n \/ m = task[t].n
        BY InHand
      <4>4. \A m \in 1..Steps : m < task[t].n + 1 => steps'[task[t].e][m] # "pending"
        <5>1. \A m \in 1..Steps : m < task[t].n => steps[task[t].e][m] # "pending"
          BY <2>6, CancelStepsEffect, <1>b DEF StepFits
        <5> QED
          BY <4>1, <4>3, <5>1
      <4>5. steps'[task[t].e][task[t].n + 1] = "pending"
        BY <2>6, <3>2, <4>1, <4>2, CancelStepsEffect
      <4> QED
        BY <4>1, <4>4, <4>5 DEF StepFits
    <3> QED
      BY <3>1, <3>2
  <2>7. CASE MarkExecutionCancelled(t)
    BY <2>7, MarkExecutionCancelledEffect, <1>b DEF StepFits
  <2>8. CASE ClearControlSignal(t)
    BY <2>8, ClearControlSignalEffect, <1>b DEF StepFits
  <2>9. CASE MarkExecutionPaused(t)
    BY <2>9, MarkExecutionPausedEffect, <1>b DEF StepFits
  <2>10. CASE MarkStepRunning(t)
    <3>1. \A m \in 1..Steps : m > task[t].n => steps[task[t].e][m] = "pending"
      BY <2>10, MarkStepRunningEffect, <1>b DEF StepFits, StepsInOrder
    <3>2. \A m \in 1..Steps : m < task[t].n => steps[task[t].e][m] # "pending"
      BY <2>10, MarkStepRunningEffect, <1>b DEF StepFits
    <3>3. /\ StepSet(task[t].e, task[t].n, "running")
          /\ Moved(t, "execute", task[t].e, task[t].n)
      BY <2>10, MarkStepRunningEffect
    <3>4. StepFits(t)'
      BY <3>1, <3>2, <3>3 DEF StepFits
    <3> QED
      BY <3>4
  <2>11. CASE ExecuteStep(t)
    BY <2>11, ExecuteStepEffect, <1>b DEF StepFits
  <2>12. CASE MarkStepCompleted(t)
    <3>1. \A m \in 1..Steps : m > task[t].n => steps[task[t].e][m] = "pending"
      BY <2>12, MarkStepCompletedEffect, <1>b DEF StepFits
    <3>2. \A m \in 1..Steps : m < task[t].n => steps[task[t].e][m] # "pending"
      BY <2>12, MarkStepCompletedEffect, <1>b DEF StepFits
    <3>3. /\ StepSet(task[t].e, task[t].n, "completed")
          /\ Moved(t, "countStep", task[t].e, task[t].n)
      BY <2>12, MarkStepCompletedEffect
    <3>4. StepFits(t)'
      BY <3>1, <3>2, <3>3 DEF StepFits
    <3> QED
      BY <3>4
  <2>13. CASE CountStep(t)
    BY <2>13, CountStepEffect, <1>b DEF StepFits
  <2>14. CASE MarkStepFailed(t)
    BY <2>14, MarkStepFailedEffect, <1>b DEF StepFits
  <2>15. CASE MarkExecutionFailed(t)
    BY <2>15, MarkExecutionFailedEffect, <1>b DEF StepFits
  <2>16. CASE MarkExecutionCompleted(t)
    BY <2>16, MarkExecutionCompletedEffect, <1>b DEF StepFits
  <2> QED
    BY <2>1, <2>2, <2>3, <2>4, <2>5, <2>6, <2>7, <2>8, <2>9, <2>10, <2>11, <2>12, <2>13, <2>14, <2>15, <2>16 DEF Run
<1> QED
  BY <1>a, <1>c DEF StepInHand

LEMMA RunKeepsOrder ==
  ASSUME TInv, OneTaskPerExecution, StepInHand, StepsInOrder, NEW t \in Tasks, Run(t)
  PROVE  StepsInOrder'
<1> USE IdleFields, OthersUntouched, InHand, NoExecFacts DEF StepsInOrder, StepInHand, StepFits, At, Moved, Ended, StepSet, Unassigned, InLoop
<1>1. CASE Create(t)
  <2>1. PICK e \in Executions :
           /\ steps' = [steps EXCEPT ![e] = [n \in 1..Steps |-> "pending"]]
           /\ Moved(t, "markRunning", e, 1)
    BY <1>1, CreateEffect
  <2>2. \A m \in 1..Steps : steps'[e][m] = "pending"
    BY <2>1 DEF RowTypes
  <2> QED
    BY <1>1, <2>1, <2>2
<1>2. CASE CancelSteps(t)
  <2>1. StepSet(task[t].e, task[t].n, "cancelled")
    BY <1>2, CancelStepsEffect
  <2>2. \A m \in 1..Steps : m < task[t].n => steps[task[t].e][m] # "pending"
    BY <1>2, CancelStepsEffect
  <2> QED
    BY <2>1, <2>2
<1>3. CASE MarkStepRunning(t)
  BY <1>3, MarkStepRunningEffect
<1>4. CASE MarkStepCompleted(t)
  BY <1>4, MarkStepCompletedEffect
<1>5. CASE MarkStepFailed(t)
  BY <1>5, MarkStepFailedEffect
<1> QED
  BY <1>1, <1>2, <1>3, <1>4, <1>5, Writers

LEMMA RunKeepsDict ==
  ASSUME TInv, OneTaskPerExecution, StepInHand, DictRunsThrough, NEW t \in Tasks, Run(t)
  PROVE  DictRunsThrough'
<1> USE IdleFields, OthersUntouched, InHand, NoExecFacts DEF DictRunsThrough, StepInHand, StepFits, At, Moved, Ended, StepSet, Unassigned, InLoop
<1>1. CASE Guard(t)
  BY <1>1, GuardEffect
<1>2. CASE Create(t)
  BY <1>2, CreateEffect
<1>3. CASE NextPending(t)
  BY <1>3, NextPendingEffect
<1>4. CASE MarkExecutionRunning(t)
  BY <1>4, MarkExecutionRunningEffect
<1>5. CASE CheckControlSignal(t)
  BY <1>5, CheckControlSignalEffect
<1>6. CASE CancelSteps(t)
  <2>1. CASE task[t].n = Steps
    BY <1>6, <2>1, CancelStepsEffect
  <2>2. CASE task[t].n # Steps
    BY <1>6, <2>2, CancelStepsEffect, SMTT(40)
  <2> QED
    BY <2>1, <2>2
<1>7. CASE MarkExecutionCancelled(t)
  BY <1>7, MarkExecutionCancelledEffect
<1>8. CASE ClearControlSignal(t)
  BY <1>8, ClearControlSignalEffect
<1>9. CASE MarkExecutionPaused(t)
  BY <1>9, MarkExecutionPausedEffect
<1>10. CASE MarkStepRunning(t)
  BY <1>10, MarkStepRunningEffect
<1>11. CASE ExecuteStep(t)
  BY <1>11, ExecuteStepEffect, LastReadsAssumption
<1>12. CASE MarkStepCompleted(t)
  BY <1>12, MarkStepCompletedEffect, SMTT(40)
<1>13. CASE CountStep(t)
  BY <1>13, CountStepEffect
<1>14. CASE MarkStepFailed(t)
  BY <1>14, MarkStepFailedEffect
<1>15. CASE MarkExecutionFailed(t)
  BY <1>15, MarkExecutionFailedEffect
<1>16. CASE MarkExecutionCompleted(t)
  BY <1>16, MarkExecutionCompletedEffect
<1> QED
  BY <1>1, <1>2, <1>3, <1>4, <1>5, <1>6, <1>7, <1>8, <1>9, <1>10, <1>11, <1>12, <1>13, <1>14, <1>15, <1>16 DEF Run

LEMMA RunKeepsCompleted ==
  ASSUME TInv, OneTaskPerExecution, DictRunsThrough, CompletedMeansAll, NEW t \in Tasks, Run(t)
  PROVE  CompletedMeansAll'
<1> SUFFICES ASSUME NEW e \in Executions, exec'[e].status = "completed"
             PROVE  \A n \in 1..Steps : steps'[e][n] = "completed"
  BY DEF CompletedMeansAll
<1>1. CASE exec[e].status = "completed"
  <2>1. e # task[t].e /\ e # task'[t].e
    BY <1>1, NoExecFacts, OwnTask, InHand DEF OneTaskPerExecution
  <2> QED
    BY <1>1, <2>1, OwnTask DEF CompletedMeansAll
<1>2. CASE exec[e].status # "completed"
  <2>1. MarkExecutionCompleted(t)
    <3> USE <1>2, InHand DEF RowSet, At, Unassigned
    <3>1. CASE Create(t)
      BY <3>1, CreateEffect
    <3>2. CASE MarkExecutionRunning(t)
      BY <3>2, MarkExecutionRunningEffect
    <3>3. CASE MarkExecutionCancelled(t)
      BY <3>3, MarkExecutionCancelledEffect
    <3>4. CASE ClearControlSignal(t)
      BY <3>4, ClearControlSignalEffect
    <3>5. CASE MarkExecutionPaused(t)
      BY <3>5, MarkExecutionPausedEffect
    <3>6. CASE CountStep(t)
      BY <3>6, CountStepEffect
    <3>7. CASE MarkExecutionFailed(t)
      BY <3>7, MarkExecutionFailedEffect
    <3> QED
      BY <3>1, <3>2, <3>3, <3>4, <3>5, <3>6, <3>7, Writers
  <2>2. e = task[t].e /\ UNCHANGED steps /\ At(t, "markCompleted")
    BY <1>2, <2>1, MarkExecutionCompletedEffect DEF RowSet
  <2>3. task[t].params = "dict" /\ task[t].n = Steps + 1
    BY <2>2, InHand DEF TInv, TaskWhole, DictRunsThrough
  <2> QED
    BY <2>2, <2>3, NoExecFacts DEF DictRunsThrough, At
<1> QED
  BY <1>1, <1>2

-----------------------------------------------------------------------------
(* completed_steps. *)

\* The completed steps of an execution, and the task that has marked one of
\* them and not counted it yet.
Completed(e) == {n \in 1..Steps : steps[e][n] = "completed"}
Uncounted(e) == {t \in Tasks : task[t].e = e /\ At(t, "countStep")}

LEMMA CountParts ==
    CompletedStepsCount <=>
        \A e \in Executions :
            Cardinality(Completed(e)) - Cardinality(Uncounted(e)) - exec[e].completed
                \in 0..crashes
  BY DEF CompletedStepsCount, Completed, Uncounted

LEMMA CompletedFinite ==
  ASSUME NEW e \in Executions
  PROVE  IsFiniteSet(Completed(e)) /\ Cardinality(Completed(e)) \in Nat
<1>1. IsFiniteSet(1..Steps)
  BY FS_Interval, NoExecFacts
<1> QED
  BY <1>1, FS_Subset, FS_CardinalityType DEF Completed

LEMMA OneUncounted ==
  ASSUME OneTaskPerExecution, NEW e \in Executions
  PROVE  /\ Cardinality(Uncounted(e)) \in {0, 1}
         /\ \A t \in Uncounted(e) : Uncounted(e) = {t} /\ Cardinality(Uncounted(e)) = 1
         /\ Uncounted(e) = {} => Cardinality(Uncounted(e)) = 0
<1>1. ASSUME NEW t \in Uncounted(e) PROVE Uncounted(e) = {t}
  BY <1>1, NoExecFacts DEF Uncounted, OneTaskPerExecution
<1>2. \A t : Cardinality({t}) = 1
  BY FS_Singleton
<1> QED
  BY <1>1, <1>2, FS_EmptySet

\* A step that neither completes a step nor counts one.
LEMMA CountUnchanged ==
  ASSUME TInv, NEW e \in Executions,
         Completed(e)' = Completed(e), Uncounted(e)' = Uncounted(e),
         exec'[e].completed = exec[e].completed,
         crashes' = crashes \/ crashes' = crashes + 1,
         Cardinality(Completed(e)) - Cardinality(Uncounted(e)) - exec[e].completed \in 0..crashes,
         Cardinality(Uncounted(e)) \in {0, 1}
  PROVE  (Cardinality(Completed(e)) - Cardinality(Uncounted(e)) - exec[e].completed
            \in 0..crashes)'
  BY CompletedFinite, BoundsAssumption DEF TInv, BoundTypes, RowTypes, Row

LEMMA RunKeepsCount ==
  ASSUME TInv, OneTaskPerExecution, OneTaskPerExecution', FreshRows, StepInHand, CompletedStepsCount,
         NEW t \in Tasks, Run(t)
  PROVE  CompletedStepsCount'
<1> SUFFICES ASSUME NEW e \in Executions
             PROVE  (Cardinality(Completed(e)) - Cardinality(Uncounted(e)) - exec[e].completed
                       \in 0..crashes)'
  BY DEF CompletedStepsCount, Completed, Uncounted
<1>a. /\ Cardinality(Completed(e)) - Cardinality(Uncounted(e)) - exec[e].completed \in 0..crashes
      /\ Cardinality(Uncounted(e)) \in {0, 1}
  BY CountParts, OneUncounted
<1>b. crashes' = crashes
  BY Writers
<1>c. ASSUME ~MarkStepCompleted(t), ~CountStep(t)
      PROVE  /\ \A n \in 1..Steps : steps'[e][n] = "completed" <=> steps[e][n] = "completed"
             /\ \A u \in Tasks : (task'[u].e = e /\ task'[u].pc = "countStep") <=>
                                 (task[u].e = e /\ task[u].pc = "countStep")
             /\ exec'[e].completed = exec[e].completed
  <2>1. StepFits(t)
    BY DEF StepInHand
  <2> USE <1>c, <2>1, InHand, IdleFields, NoExecFacts
      DEF At, Moved, Ended, RowSet, StepSet, StepFits, Unassigned, InLoop
  <2>2. CASE Guard(t)
    BY <2>2, GuardEffect
  <2>3. CASE Create(t)
    <3>1. PICK d \in Executions :
             /\ exec[d].status = "none"
             /\ RowSet(d, "pending", exec[d].signal, exec[d].completed)
             /\ steps' = [steps EXCEPT ![d] = [n \in 1..Steps |-> "pending"]]
             /\ Moved(t, "markRunning", d, 1)
      BY <2>3, CreateEffect
    <3>2. \A n \in 1..Steps : steps'[e][n] = "completed" <=> steps[e][n] = "completed"
      BY <3>1 DEF RowTypes, FreshRows
    <3> QED
      BY <2>3, <3>1, <3>2, CreateEffect
  <2>4. CASE NextPending(t)
    BY <2>4, NextPendingEffect
  <2>5. CASE MarkExecutionRunning(t)
    BY <2>5, MarkExecutionRunningEffect
  <2>6. CASE CheckControlSignal(t)
    BY <2>6, CheckControlSignalEffect
  <2>7. CASE CancelSteps(t)
    <3>1. steps[task[t].e][task[t].n] = "pending" /\ StepSet(task[t].e, task[t].n, "cancelled")
      BY <2>7, CancelStepsEffect
    <3>2. \A n \in 1..Steps : steps'[e][n] = "completed" <=> steps[e][n] = "completed"
      BY <3>1
    <3>3. /\ task'[t].pc # "countStep" /\ task[t].pc # "countStep"
          /\ \A u \in Tasks \ {t} : task'[u] = task[u]
          /\ UNCHANGED exec
      BY <2>7, CancelStepsEffect
    <3> QED
      BY <3>2, <3>3
  <2>8. CASE MarkExecutionCancelled(t)
    BY <2>8, MarkExecutionCancelledEffect
  <2>9. CASE ClearControlSignal(t)
    BY <2>9, ClearControlSignalEffect
  <2>10. CASE MarkExecutionPaused(t)
    BY <2>10, MarkExecutionPausedEffect
  <2>11. CASE MarkStepRunning(t)
    BY <2>11, MarkStepRunningEffect
  <2>12. CASE ExecuteStep(t)
    BY <2>12, ExecuteStepEffect
  <2>15. CASE MarkStepFailed(t)
    BY <2>15, MarkStepFailedEffect
  <2>16. CASE MarkExecutionFailed(t)
    BY <2>16, MarkExecutionFailedEffect
  <2>17. CASE MarkExecutionCompleted(t)
    BY <2>17, MarkExecutionCompletedEffect
  <2> QED
    BY <2>2, <2>3, <2>4, <2>5, <2>6, <2>7, <2>8, <2>9, <2>10, <2>11, <2>12, <1>c, <2>15, <2>16, <2>17 DEF Run
<1>1. CASE MarkStepCompleted(t)
  <2>1. /\ At(t, "stepCompleted")
        /\ StepSet(task[t].e, task[t].n, "completed")
        /\ Moved(t, "countStep", task[t].e, task[t].n)
        /\ UNCHANGED exec
    BY <1>1, MarkStepCompletedEffect
  <2>2. task[t].e \in Executions /\ task[t].n \in 1..Steps
    BY <2>1, InHand DEF At, Unassigned, InLoop
  <2>3. CASE e = task[t].e
    <3>1. steps[e][task[t].n] = "running"
      BY <2>1, <2>2, <2>3, NoExecFacts DEF StepInHand, StepFits, At
    <3>2. Completed(e)' = Completed(e) \cup {task[t].n} /\ task[t].n \notin Completed(e)
      BY <2>1, <2>2, <2>3, <3>1 DEF Completed, StepSet
    <3>3. Cardinality(Completed(e)') = Cardinality(Completed(e)) + 1
      BY <3>2, CompletedFinite, FS_AddElement
    <3>4. Uncounted(e) = {}
      BY <2>1, <2>3, NoExecFacts DEF Uncounted, OneTaskPerExecution, At
    <3>5. Uncounted(e)' = {t}
      BY <2>1, <2>3, <3>4 DEF Uncounted, Moved, At
    <3>6. Cardinality(Uncounted(e)) = 0 /\ Cardinality(Uncounted(e)') = 1
      BY <3>4, <3>5, FS_EmptySet, FS_Singleton
    <3> QED
      BY <1>a, <1>b, <2>1, <3>3, <3>6, CompletedFinite DEF TInv, RowTypes, Row, BoundTypes
  <2>4. CASE e # task[t].e
    <3>1. Completed(e)' = Completed(e) /\ Uncounted(e)' = Uncounted(e)
      BY <2>1, <2>4 DEF Completed, Uncounted, StepSet, Moved, At
    <3> QED
      BY <1>a, <1>b, <2>1, <3>1, CountUnchanged
  <2> QED
    BY <2>3, <2>4
<1>2. CASE CountStep(t)
  <2>1. /\ At(t, "countStep")
        /\ Moved(t, "signal", task[t].e, task[t].n + 1)
        /\ RowSet(task[t].e, exec[task[t].e].status, exec[task[t].e].signal,
                  exec[task[t].e].completed + 1)
        /\ UNCHANGED steps
    BY <1>2, CountStepEffect
  <2>2. Completed(e)' = Completed(e)
    BY <2>1 DEF Completed
  <2>3. CASE e = task[t].e
    <3>1. t \in Uncounted(e)
      BY <2>1, <2>3 DEF Uncounted
    <3>2. Uncounted(e) = {t} /\ Cardinality(Uncounted(e)) = 1
      BY <3>1, OneUncounted
    <3>3. Uncounted(e)' = {}
      BY <2>1, <3>2 DEF Uncounted, Moved, At
    <3>4. Cardinality(Uncounted(e)') = 0
      BY <3>3, FS_EmptySet
    <3>5. exec'[e].completed = exec[e].completed + 1
      BY <2>1, <2>3 DEF RowSet
    <3> QED
      BY <1>a, <1>b, <2>2, <3>2, <3>4, <3>5, CompletedFinite DEF TInv, RowTypes, Row, BoundTypes
  <2>4. CASE e # task[t].e
    <3>1. Uncounted(e)' = Uncounted(e) /\ exec'[e].completed = exec[e].completed
      BY <2>1, <2>4 DEF Uncounted, Moved, RowSet, At
    <3> QED
      BY <1>a, <1>b, <2>2, <3>1, CountUnchanged
  <2> QED
    BY <2>3, <2>4
<1>3. CASE ~MarkStepCompleted(t) /\ ~CountStep(t)
  <2>1. Completed(e)' = Completed(e) /\ Uncounted(e)' = Uncounted(e)
    BY <1>3, <1>c DEF Completed, Uncounted, At
  <2> QED
    BY <1>3, <1>a, <1>b, <1>c, <2>1, CountUnchanged
<1> QED
  BY <1>1, <1>2, <1>3

-----------------------------------------------------------------------------
(* The other steps of a system with one instance. *)

\* With one instance, a crash ends every task and nothing runs when it starts.
LEMMA CrashEndsAll ==
  ASSUME TInv, OneInstance, TasksAreUp, NEW i \in Instances, Crash(i)
  PROVE  \A u \in Tasks : task'[u] = Idle
  BY CrashEffect DEF OneInstance, TasksAreUp, TInv, BoundTypes

LEMMA NothingRunsAtStart ==
  ASSUME TInv, OneInstance, TasksAreUp, NEW i \in Instances, Restart(i)
  PROVE  \A u \in Tasks : task[u] = Idle
  BY RestartEffect DEF OneInstance, TasksAreUp, TInv, BoundTypes

\* What the invariant says of tasks holds of tasks that have no execution.
LEMMA IdleHolds ==
  ASSUME \A u \in Tasks : task[u] = Idle
  PROVE  TasksAreUp /\ OneTaskPerExecution /\ StepInHand /\ DictRunsThrough
  BY IdleFields DEF TasksAreUp, OneTaskPerExecution, StepInHand, StepFits, DictRunsThrough, At

LEMMA IInvSpawn ==
  ASSUME IInv, NEW t \in Tasks, Start(t) \/ \E e \in Executions : Rerun(t, e)
  PROVE  IInv'
<1>1. PICK params \in {"dict", "text"} : Spawned(t, "guard", NoExec, params)
  BY StartEffect, RerunEffect DEF IInv
<1>2. UNCHANGED <<exec, steps, up, crashes>>
  BY StartEffect, RerunEffect DEF IInv
<1>3. TInv'
  BY TInvNext DEF IInv, Next
<1>4. TasksAreUp'
  BY <1>1, <1>2 DEF IInv, TasksAreUp, Spawned
<1>5. OneTaskPerExecution'
  BY <1>1, <1>2 DEF IInv, OneTaskPerExecution, Spawned, At
<1>6. FreshRows' /\ StepsInOrder' /\ CompletedMeansAll'
  BY <1>2 DEF IInv, FreshRows, StepsInOrder, CompletedMeansAll
<1>7. StepInHand'
  BY <1>1, <1>2 DEF IInv, StepInHand, StepFits, Spawned, At
<1>8. DictRunsThrough'
  BY <1>1, <1>2, NoExecFacts DEF IInv, DictRunsThrough, Spawned, At
<1>9. CompletedStepsCount'
  <2> SUFFICES ASSUME NEW e \in Executions
               PROVE  (Cardinality(Completed(e)) - Cardinality(Uncounted(e)) - exec[e].completed
                         \in 0..crashes)'
    BY DEF CompletedStepsCount, Completed, Uncounted
  <2>1. Completed(e)' = Completed(e) /\ Uncounted(e)' = Uncounted(e)
    BY <1>1, <1>2, IdleFields DEF Completed, Uncounted, Spawned, At
  <2> QED
    BY <1>2, <2>1, CountParts DEF IInv
<1> QED
  BY <1>3, <1>4, <1>5, <1>6, <1>7, <1>8, <1>9 DEF IInv

LEMMA IInvResume ==
  ASSUME IInv, NEW t \in Tasks, NEW e \in Executions, Resume(t, e)
  PROVE  IInv'
<1>1. /\ exec[e].status = "paused"
      /\ RowSet(e, "running", "none", exec[e].completed)
      /\ Spawned(t, "nextPending", e, "text")
      /\ UNCHANGED <<steps, up, crashes>>
  BY ResumeEffect DEF IInv
<1>2. \A u \in Tasks : task[u].e # e
  BY <1>1, NoExecFacts DEF IInv, OneTaskPerExecution
<1>3. TInv'
  BY TInvNext DEF IInv, Next
<1>4. TasksAreUp'
  BY <1>1 DEF IInv, TasksAreUp, Spawned
<1>5. OneTaskPerExecution'
  BY <1>1, <1>2, <1>3, InHand DEF IInv, OneTaskPerExecution, Spawned, RowSet, At
<1>6. FreshRows' /\ StepsInOrder' /\ CompletedMeansAll'
  BY <1>1 DEF IInv, FreshRows, StepsInOrder, CompletedMeansAll, RowSet
<1>7. StepInHand'
  BY <1>1 DEF IInv, StepInHand, StepFits, Spawned, At
<1>8. DictRunsThrough'
  BY <1>1, NoExecFacts DEF IInv, DictRunsThrough, Spawned, At
<1>9. CompletedStepsCount'
  <2> SUFFICES ASSUME NEW d \in Executions
               PROVE  (Cardinality(Completed(d)) - Cardinality(Uncounted(d)) - exec[d].completed
                         \in 0..crashes)'
    BY DEF CompletedStepsCount, Completed, Uncounted
  <2>1. Completed(d)' = Completed(d) /\ Uncounted(d)' = Uncounted(d)
    BY <1>1, IdleFields DEF Completed, Uncounted, Spawned, At
  <2>2. exec'[d].completed = exec[d].completed
    BY <1>1 DEF RowSet
  <2> QED
    BY <1>1, <2>1, <2>2, CountParts DEF IInv
<1> QED
  BY <1>3, <1>4, <1>5, <1>6, <1>7, <1>8, <1>9 DEF IInv

LEMMA IInvControl ==
  ASSUME IInv, NEW e \in Executions, NEW signal \in {"pause", "cancel"}, Control(e, signal)
  PROVE  IInv'
<1>1. /\ RowSet(e, exec[e].status, signal, exec[e].completed)
      /\ UNCHANGED <<steps, task, up, crashes>>
  BY ControlEffect DEF IInv
<1>2. \A d \in Executions :
         exec'[d].status = exec[d].status /\ exec'[d].completed = exec[d].completed
  BY <1>1 DEF RowSet
<1>3. TInv'
  BY TInvNext DEF IInv, Next
<1>4. TasksAreUp' /\ StepInHand' /\ DictRunsThrough' /\ StepsInOrder'
  BY <1>1 DEF IInv, TasksAreUp, StepInHand, StepFits, DictRunsThrough, StepsInOrder, At
<1>5. OneTaskPerExecution'
  BY <1>1, <1>2, InHand DEF IInv, OneTaskPerExecution, At
<1>6. FreshRows' /\ CompletedMeansAll'
  BY <1>1, <1>2 DEF IInv, FreshRows, CompletedMeansAll
<1>7. CompletedStepsCount'
  BY <1>1, <1>2 DEF IInv, CompletedStepsCount, At
<1> QED
  BY <1>3, <1>4, <1>5, <1>6, <1>7 DEF IInv

LEMMA IInvCrash ==
  ASSUME IInv, OneInstance, NEW i \in Instances, Crash(i)
  PROVE  IInv'
<1>1. UNCHANGED <<exec, steps>> /\ crashes' = crashes + 1 /\ \A u \in Tasks : task'[u] = Idle
  BY CrashEffect, CrashEndsAll DEF IInv
<1>2. TInv'
  BY TInvNext DEF IInv, Next
<1>3. TasksAreUp' /\ OneTaskPerExecution' /\ StepInHand' /\ DictRunsThrough'
  BY <1>1, IdleFields DEF TasksAreUp, OneTaskPerExecution, StepInHand, StepFits,
     DictRunsThrough, At
<1>4. FreshRows' /\ StepsInOrder' /\ CompletedMeansAll'
  BY <1>1 DEF IInv, FreshRows, StepsInOrder, CompletedMeansAll
<1>5. CompletedStepsCount'
  <2> SUFFICES ASSUME NEW e \in Executions
               PROVE  (Cardinality(Completed(e)) - Cardinality(Uncounted(e)) - exec[e].completed
                         \in 0..crashes)'
    BY DEF CompletedStepsCount, Completed, Uncounted
  <2>1. Completed(e)' = Completed(e)
    BY <1>1 DEF Completed
  <2>2. Uncounted(e)' = {}
    BY <1>1, IdleFields DEF Uncounted, At
  <2>3. Cardinality(Uncounted(e)') = 0
    BY <2>2, FS_EmptySet
  <2>4. /\ Cardinality(Completed(e)) - Cardinality(Uncounted(e)) - exec[e].completed \in 0..crashes
        /\ Cardinality(Uncounted(e)) \in {0, 1}
    BY CountParts, OneUncounted DEF IInv
  <2>5. Cardinality(Completed(e)) \in Nat /\ exec[e].completed \in Nat /\ crashes \in Nat
    BY CompletedFinite, BoundsAssumption DEF IInv, TInv, BoundTypes, RowTypes, Row
  <2> QED
    BY <1>1, <2>1, <2>3, <2>4, <2>5
<1> QED
  BY <1>2, <1>3, <1>4, <1>5 DEF IInv

LEMMA IInvRestart ==
  ASSUME IInv, OneInstance, NEW i \in Instances, Restart(i)
  PROVE  IInv'
<1>1. /\ UNCHANGED <<steps, task, crashes>>
      /\ \A e \in Executions :
            /\ exec'[e].completed = exec[e].completed
            /\ exec'[e].status = IF exec[e].status = "running" THEN "paused"
                                 ELSE exec[e].status
      /\ \A u \in Tasks : task'[u] = Idle
  BY RestartEffect, NothingRunsAtStart DEF IInv, counters
<1>2. TInv'
  BY TInvNext DEF IInv, Next
<1>3. TasksAreUp' /\ OneTaskPerExecution' /\ StepInHand' /\ DictRunsThrough'
  BY <1>1, IdleFields DEF TasksAreUp, OneTaskPerExecution, StepInHand, StepFits,
     DictRunsThrough, At
<1>4. FreshRows' /\ StepsInOrder' /\ CompletedMeansAll'
  BY <1>1 DEF IInv, FreshRows, StepsInOrder, CompletedMeansAll
<1>5. CompletedStepsCount'
  BY <1>1 DEF IInv, CompletedStepsCount, At
<1> QED
  BY <1>2, <1>3, <1>4, <1>5 DEF IInv

LEMMA IInvRun == ASSUME IInv, NEW t \in Tasks, Run(t) PROVE IInv'
<1>1. TInv'
  BY TInvNext DEF IInv, Next
<1>2. OneTaskPerExecution'
  BY RunKeepsOneTask DEF IInv
<1>3. TasksAreUp' /\ FreshRows'
  BY RunKeepsUp, RunKeepsFresh DEF IInv
<1>4. StepInHand' /\ StepsInOrder'
  BY RunKeepsInHand, RunKeepsOrder DEF IInv
<1>5. DictRunsThrough' /\ CompletedMeansAll'
  BY RunKeepsDict, RunKeepsCompleted DEF IInv
<1>6. CompletedStepsCount'
  BY <1>2, RunKeepsCount DEF IInv
<1> QED
  BY <1>1, <1>2, <1>3, <1>4, <1>5, <1>6 DEF IInv

LEMMA IInvInit == Init => IInv
<1> SUFFICES ASSUME Init PROVE IInv
  OBVIOUS
<1>1. \A u \in Tasks : task[u] = Idle
  BY DEF Init
<1>2. FreshRows /\ StepsInOrder /\ CompletedMeansAll
  BY DEF Init, FreshRows, StepsInOrder, CompletedMeansAll
<1>3. CompletedStepsCount
  <2> SUFFICES ASSUME NEW e \in Executions
               PROVE  Cardinality(Completed(e)) - Cardinality(Uncounted(e)) - exec[e].completed
                         \in 0..crashes
    BY DEF CompletedStepsCount, Completed, Uncounted
  <2>1. Completed(e) = {} /\ Uncounted(e) = {}
    BY <1>1, IdleFields DEF Init, Completed, Uncounted, At
  <2>2. Cardinality(Completed(e)) = 0 /\ Cardinality(Uncounted(e)) = 0
    BY <2>1, FS_EmptySet
  <2> QED
    BY <2>2 DEF Init
<1> QED
  BY <1>1, <1>2, <1>3, TInvInit, IdleHolds DEF IInv

LEMMA IInvNext == OneInstance /\ IInv /\ [Next]_vars => IInv'
<1> SUFFICES ASSUME OneInstance, IInv, [Next]_vars PROVE IInv'
  OBVIOUS
<1>1. CASE UNCHANGED vars
  <2>1. TInv'
    BY TInvNext DEF IInv
  <2> QED
    BY <1>1, <2>1 DEF vars, IInv, TasksAreUp, OneTaskPerExecution, FreshRows, StepInHand, StepFits,
       StepsInOrder, DictRunsThrough, CompletedMeansAll, CompletedStepsCount, At
<1>2. CASE Next
  BY <1>1, <1>2, IInvSpawn, IInvResume, IInvControl, IInvCrash, IInvRestart, IInvRun DEF Next, Quiet
<1> QED
  BY <1>1, <1>2

LEMMA Invariant == OneInstance => (Spec => []IInv)
<1>1. OneInstance /\ IInv /\ [Next]_vars => IInv'
  BY IInvNext
<1> SUFFICES ASSUME OneInstance PROVE Spec => []IInv
  OBVIOUS
<1>2. IInv /\ [Next]_vars => IInv'
  BY <1>1
<1> QED
  BY IInvInit, <1>2, PTL DEF Spec

-----------------------------------------------------------------------------
(* The life of an execution. *)

LEMMA StatusMoves ==
  ASSUME OneInstance, IInv, [Next]_vars, NEW e \in Executions, exec'[e].status # exec[e].status
  PROVE  <<exec[e].status, exec'[e].status>> \in Life!Moves
<1>1. \/ exec[e].status = "none" /\ exec'[e].status = "pending"
      \/ exec[e].status = "pending" /\ exec'[e].status = "running"
      \/ exec[e].status = "running" /\ exec'[e].status \in Over \cup {"paused"}
      \/ exec[e].status = "paused" /\ exec'[e].status = "running"
  <2> USE DEF IInv, RowSet
  <2>1. ASSUME NEW t \in Tasks, Start(t) \/ \E d \in Executions : Rerun(t, d) PROVE FALSE
    BY <2>1, StartEffect, RerunEffect
  <2>2. ASSUME NEW t \in Tasks, NEW d \in Executions, Resume(t, d)
        PROVE  exec[e].status = "paused" /\ exec'[e].status = "running"
    BY <2>2, ResumeEffect
  <2>3. ASSUME NEW t \in Tasks, Run(t)
        PROVE  \/ exec[e].status = "none" /\ exec'[e].status = "pending"
               \/ exec[e].status = "pending" /\ exec'[e].status = "running"
               \/ exec[e].status = "running" /\ exec'[e].status \in Over \cup {"paused"}
    BY <2>3, RunMovesStatus
  <2>4. ASSUME NEW d \in Executions, NEW signal \in {"pause", "cancel"}, Control(d, signal)
        PROVE  FALSE
    BY <2>4, ControlEffect
  <2>5. ASSUME NEW i \in Instances, Crash(i) PROVE FALSE
    BY <2>5, CrashEffect
  <2>6. ASSUME NEW i \in Instances, Restart(i)
        PROVE  exec[e].status = "running" /\ exec'[e].status = "paused"
    BY <2>6, RestartEffect
  <2> QED
    BY <2>1, <2>2, <2>3, <2>4, <2>5, <2>6 DEF Next, Quiet, vars
<1> QED
  BY <1>1 DEF Life!Moves, Life!Over, Over

LEMMA LifeInit == Init => Life!Init
  BY DEF Init, Life!Init

LEMMA LifeStep ==
  OneInstance /\ IInv /\ IInv' /\ [Next]_vars
    => [Life!Next]_([e \in Executions |-> exec[e].status])
<1> SUFFICES ASSUME OneInstance, IInv, IInv', [Next]_vars
             PROVE  Life!Next
  OBVIOUS
<1>1. [e \in Executions |-> exec[e].status]' \in [Executions -> Life!Status]
  BY DEF IInv, TInv, RowTypes, Row, Life!Status, Life!Over, Over
<1> QED
  BY <1>1, StatusMoves DEF Life!Next

-----------------------------------------------------------------------------
(* The theorems. *)

\* With one application instance, an execution is run by one thread at a time
\* and by none once it is paused or over, whatever is paused, resumed,
\* cancelled, rerun or crashes.
THEOREM OneThread == OneInstance => (Spec => []OneTaskPerExecution)
<1>1. IInv => OneTaskPerExecution
  BY DEF IInv
<1> QED
  BY <1>1, Invariant, PTL

\* No step starts before one that is still pending, over all resumptions.
THEOREM InOrder == OneInstance => (Spec => []StepsInOrder)
<1>1. IInv => StepsInOrder
  BY DEF IInv
<1> QED
  BY <1>1, Invariant, PTL

\* An execution marked completed has completed each of its steps.
THEOREM CompletedIsComplete == OneInstance => (Spec => []CompletedMeansAll)
<1>1. IInv => CompletedMeansAll
  BY DEF IInv
<1> QED
  BY <1>1, Invariant, PTL

\* completed_steps is behind by at most one step for each crash.
THEOREM CountIsClose == OneInstance => (Spec => []CompletedStepsCount)
<1>1. IInv => CompletedStepsCount
  BY DEF IInv
<1> QED
  BY <1>1, Invariant, PTL

\* The status column moves as ExecutionLifecycle says.
THEOREM ImplementsLife == OneInstance => (Spec => LifeSpec)
<1> SUFFICES ASSUME OneInstance PROVE Spec => LifeSpec
  OBVIOUS
<1>1. IInv /\ IInv' /\ [Next]_vars => [Life!Next]_([e \in Executions |-> exec[e].status])
  BY LifeStep
<1> QED
  BY <1>1, LifeInit, Invariant, PTL DEF Spec, LifeSpec, Life!Spec
=============================================================================
