----------------------------- MODULE IngestJob ------------------------------
(***************************************************************************)
(* One ingestion job (GitHub or Hugging Face): the background task that    *)
(* runs it, the orchestrator's bounded queue with its producer and worker  *)
(* tasks, the job and item rows every step writes, and the operators who   *)
(* pause, resume and cancel it through the API.                            *)
(*                                                                         *)
(* Tasks of one event loop interleave at their awaits, and API requests    *)
(* run elsewhere, so an action is what a coroutine does from one await to  *)
(* the next: one database statement (each is its own transaction) and the  *)
(* local computation that follows it.                                      *)
(***************************************************************************)
EXTENDS Integers, Sequences, FiniteSets

CONSTANTS
    Workers,         \* config.concurrency worker tasks
    Logins,          \* the logins that occur in the input
    Blank,           \* an input line that strip() leaves empty
    Input,           \* the sequence of logins given to run()
    SlotsPerWorker,  \* queue slots for each worker: 4 in the code
    Platforms,       \* whose orchestrator may run: "github", "huggingface"
    KnownBefore,     \* the checkpoint statuses a login may start with
    Clients,         \* API requests that may be in flight together
    Ops,             \* the control requests operators make
    MaxRequests,     \* bound on the number of control requests
    MaxFaults        \* bound on the number of unexpected exceptions

NoItem == 0          \* the None that tells a worker to stop, or no item

CheckpointStatus ==
    {"absent", "discovered", "ingesting", "ingested", "stale", "failed", "pending"}
ItemStatus == {"running", "success", "failed", "skipped"}
JobStatus == {"pending", "running", "paused", "completed", "failed", "cancelled"}
ControlSignal == {"none", "pause", "cancel"}

ASSUME InputAssumption ==
    /\ Blank \notin Logins
    /\ Input \in Seq(Logins \cup {Blank})
ASSUME WorkersAssumption == IsFiniteSet(Workers) /\ Workers # {}
ASSUME SlotsAssumption == SlotsPerWorker \in Nat \ {0}
ASSUME PlatformAssumption == Platforms \subseteq {"github", "huggingface"}
ASSUME KnownAssumption == KnownBefore \subseteq CheckpointStatus
ASSUME OpsAssumption == Ops \subseteq {"pause", "resume", "cancel"}
ASSUME BoundsAssumption == MaxRequests \in Nat /\ MaxFaults \in Nat

Positions == 1..Len(Input)
Items == {i \in Positions : Input[i] # Blank}
Capacity == Cardinality(Workers) * SlotsPerWorker

VARIABLES
    queue,      \* the asyncio queue: positions of Input, and NoItem sentinels
    next,       \* the producer's place in Input
    prod,       \* the producer's control state
    main,       \* the control state of the background task and run()
    sentinels,  \* sentinels run() has put
    wpc,        \* worker -> the await it is at
    hand,       \* worker -> the position it processes, or NoItem
    cancelled,  \* self._cancelled
    stats,      \* self.stats
    job,        \* the ingest_job row
    rows,       \* login -> how many ingest_job_item rows have each status
    ckpt,       \* login -> its row of the checkpoint table
    client,     \* API request -> the operation it has checked, or "idle"
    requests,   \* control requests made so far
    faults,     \* unexpected exceptions so far
    platform,   \* which orchestrator this job runs: it never changes
    done        \* history: the positions whose processing has ended

producerVars == <<next, prod>>
mainVars == <<main, sentinels>>
itemVars == <<hand, stats, done>>
dbVars == <<job, rows, ckpt>>
apiVars == <<client, requests>>
vars == <<queue, producerVars, mainVars, wpc, itemVars, cancelled, dbVars,
          apiVars, faults, platform>>

Init ==
    /\ queue = <<>>
    /\ next = 1
    /\ prod = "loop"
    /\ main = "pending"
    /\ sentinels = 0
    /\ wpc = [w \in Workers |-> "get"]
    /\ hand = [w \in Workers |-> NoItem]
    /\ cancelled = FALSE
    /\ stats = [processed |-> 0, succeeded |-> 0, failed |-> 0, skipped |-> 0]
    /\ job = [status |-> "pending", signal |-> "none"]
    /\ rows = [l \in Logins |-> [s \in ItemStatus |-> 0]]
    /\ ckpt \in [Logins -> KnownBefore]
    /\ client = [c \in Clients |-> "idle"]
    /\ requests = 0
    /\ faults = 0
    /\ platform \in Platforms
    /\ done = {}

-----------------------------------------------------------------------------
(* The background task and run(). *)

MainFrame == UNCHANGED <<producerVars, cancelled, stats, done, rows, ckpt,
                         apiVars, faults, platform>>

MainGo(from, to) == main = from /\ main' = to

SetStatus(status) == job' = [job EXCEPT !.status = status]

\* tracker.mark_running(), then run() starts the producer and the workers.
MarkRunning ==
    /\ MainGo("pending", "produce")
    /\ SetStatus("running")
    /\ MainFrame /\ UNCHANGED <<queue, sentinels, wpc, hand>>

\* Mutant: run() does not wait for the producer.
AwaitNothing ==
    /\ MainGo("produce", "sentinels")
    /\ MainFrame /\ UNCHANGED <<queue, sentinels, wpc, hand, job>>

AwaitProducer ==
    /\ MainGo("produce", "sentinels")
    /\ prod = "done"
    /\ MainFrame /\ UNCHANGED <<queue, sentinels, wpc, hand, job>>

\* Mutant: one sentinel for all the workers.
PutOneSentinel ==
    /\ Len(queue) < Capacity
    /\ MainGo("sentinels", "gather")
    /\ queue' = Append(queue, NoItem)
    /\ sentinels' = sentinels + 1
    /\ MainFrame /\ UNCHANGED <<wpc, hand, job>>

PutSentinel ==
    /\ Len(queue) < Capacity
    /\ MainGo("sentinels", IF sentinels + 1 = Cardinality(Workers)
                           THEN "gather" ELSE "sentinels")
    /\ queue' = Append(queue, NoItem)
    /\ sentinels' = sentinels + 1
    /\ MainFrame /\ UNCHANGED <<wpc, hand, job>>

AfterGather == IF cancelled THEN "markCancelled" ELSE "markCompleted"

\* Mutant: wait for the first worker only.
GatherFirst ==
    /\ \E w \in Workers : wpc[w] = "exited" /\ MainGo("gather", AfterGather)
    /\ MainFrame /\ UNCHANGED <<queue, sentinels, wpc, hand, job>>

\* asyncio.gather returns when every worker has, or raises with the first one.
Gather ==
    /\ \/ (\A w \in Workers : wpc[w] = "exited") /\ MainGo("gather", AfterGather)
       \/ (\E w \in Workers : wpc[w] = "dead") /\ MainGo("gather", "markFailed")
    /\ MainFrame /\ UNCHANGED <<queue, sentinels, wpc, hand, job>>

MarkCancelled ==
    /\ MainGo("markCancelled", "markCompleted")
    /\ SetStatus("cancelled")
    /\ MainFrame /\ UNCHANGED <<queue, sentinels, wpc, hand>>

\* The caller of run() marks the job completed, whatever run() did.
MarkCompleted ==
    /\ MainGo("markCompleted", "returned")
    /\ SetStatus("completed")
    /\ MainFrame /\ UNCHANGED <<queue, sentinels, wpc, hand>>

\* The caller's except branch.  asyncio.run() then cancels the tasks left.
MarkFailed ==
    /\ MainGo("markFailed", "returned")
    /\ SetStatus("failed")
    /\ wpc' = [w \in Workers |-> IF wpc[w] = "exited" THEN "exited" ELSE "dead"]
    /\ hand' = [w \in Workers |-> NoItem]
    /\ MainFrame /\ UNCHANGED <<queue, sentinels>>

Main == \/ MarkRunning \/ AwaitProducer \/ PutSentinel \/ Gather
        \/ MarkCancelled \/ MarkCompleted \/ MarkFailed

-----------------------------------------------------------------------------
(* The producer.  It looks at _cancelled before it waits for a free slot,  *)
(* not after.                                                              *)

ProducerFrame == UNCHANGED <<mainVars, wpc, itemVars, cancelled, dbVars, apiVars,
                             faults, platform>>

\* Mutant: lines that strip() empties are not left out.
KeepBlank ==
    /\ prod = "loop"
    /\ main # "pending"
    /\ prod' = IF cancelled \/ next > Len(Input) THEN "done" ELSE "put"
    /\ ProducerFrame /\ UNCHANGED <<queue, next>>

NextLogin ==
    /\ prod = "loop"
    /\ main # "pending"
    /\ \/ /\ cancelled \/ next > Len(Input)
          /\ prod' = "done"
          /\ UNCHANGED next
       \/ /\ ~cancelled /\ next \in Positions
          /\ IF Input[next] = Blank THEN next' = next + 1 /\ UNCHANGED prod
                                    ELSE prod' = "put" /\ UNCHANGED next
    /\ ProducerFrame /\ UNCHANGED queue

PutLogin ==
    /\ prod = "put"
    /\ Len(queue) < Capacity
    /\ queue' = Append(queue, next)
    /\ next' = next + 1
    /\ prod' = "loop"
    /\ ProducerFrame

Producer == NextLogin \/ PutLogin

-----------------------------------------------------------------------------
(* A worker.  login(w) is the login it has in hand. *)

login(w) == Input[hand[w]]

Go(w, from, to) ==
    /\ main # "pending"
    /\ wpc[w] = from
    /\ wpc' = [wpc EXCEPT ![w] = to]

WorkerFrame == UNCHANGED <<producerVars, mainVars, apiVars, platform>>

\* Mutant: the item stays in the queue.
GetWithoutRemoving(w) ==
    /\ queue # <<>>
    /\ Go(w, "get", IF Head(queue) = NoItem THEN "exited" ELSE "recent")
    /\ hand' = [hand EXCEPT ![w] = Head(queue)]
    /\ WorkerFrame /\ UNCHANGED <<queue, stats, done, cancelled, dbVars, faults>>

Get(w) ==
    /\ queue # <<>>
    /\ Go(w, "get", IF Head(queue) = NoItem THEN "exited" ELSE "recent")
    /\ hand' = [hand EXCEPT ![w] = Head(queue)]
    /\ queue' = Tail(queue)
    /\ WorkerFrame /\ UNCHANGED <<stats, done, cancelled, dbVars, faults>>

\* What the steps inside of _process_one leave alone.
ItemFrame == WorkerFrame /\ UNCHANGED <<queue, hand, done, cancelled, job, faults>>

\* storage.recently_ingested(): only a success inside the refresh window counts.
RecentlyIngested(w) ==
    /\ \/ /\ Go(w, "recent", "itemSkipped")
          /\ ckpt[login(w)] = "ingested"
          /\ stats' = [stats EXCEPT !.skipped = @ + 1]
       \/ /\ Go(w, "recent", "itemStarted")
          /\ ckpt[login(w)] # "ingested"
          /\ UNCHANGED stats
    /\ ItemFrame /\ UNCHANGED <<rows, ckpt>>

ItemStarted(w) ==
    /\ Go(w, "itemStarted", IF platform = "github" THEN "markIngesting" ELSE "fetch")
    /\ rows' = [rows EXCEPT ![login(w)].running = @ + 1]
    /\ ItemFrame /\ UNCHANGED <<stats, ckpt>>

Checkpoint(w, status) == ckpt' = [ckpt EXCEPT ![login(w)] = status]

MarkIngesting(w) ==
    /\ Go(w, "markIngesting", "fetch")
    /\ Checkpoint(w, "ingesting")
    /\ ItemFrame /\ UNCHANGED <<stats, rows>>

\* The profile arrives, or the client raises; Hugging Face may say it is an org.
TransientMark == IF platform = "github" THEN "markFailed" ELSE "markPending"

Fetch(w) ==
    /\ \/ /\ \E to \in {"write", "markFailed", TransientMark} : Go(w, "fetch", to)
          /\ UNCHANGED stats
       \/ /\ Go(w, "fetch", "itemSkipped")
          /\ platform = "huggingface"
          /\ stats' = [stats EXCEPT !.skipped = @ + 1]
    /\ ItemFrame /\ UNCHANGED <<rows, ckpt>>

\* The upserts; Hugging Face lists models and datasets on the way.
Write(w) ==
    /\ \/ Go(w, "write", "markIngested")
       \/ Go(w, "write", "markPending") /\ platform = "huggingface"
    /\ ItemFrame /\ UNCHANGED <<stats, rows, ckpt>>

MarkIngested(w) ==
    /\ Go(w, "markIngested", "itemCompleted")
    /\ Checkpoint(w, "ingested")
    /\ stats' = [stats EXCEPT !.succeeded = @ + 1]
    /\ ItemFrame /\ UNCHANGED rows

\* Mutant: the except branch returns without the checkpoint.
FailWithoutCheckpoint(w) ==
    /\ \E at \in {"markFailed", "markPending"} : Go(w, at, "itemFailed")
    /\ stats' = [stats EXCEPT !.failed = @ + 1]
    /\ ItemFrame /\ UNCHANGED <<rows, ckpt>>

\* Mutant: a transient error is not counted.
FailUncounted(w) ==
    /\ \/ Go(w, "markFailed", "itemFailed") /\ Checkpoint(w, "failed")
             /\ stats' = [stats EXCEPT !.failed = @ + 1]
       \/ Go(w, "markPending", "itemFailed") /\ Checkpoint(w, "pending")
             /\ UNCHANGED stats
    /\ ItemFrame /\ UNCHANGED rows

MarkUnfinished(w) ==
    /\ \/ Go(w, "markFailed", "itemFailed") /\ Checkpoint(w, "failed")
       \/ Go(w, "markPending", "itemFailed") /\ Checkpoint(w, "pending")
    /\ stats' = [stats EXCEPT !.failed = @ + 1]
    /\ ItemFrame /\ UNCHANGED rows

\* The end of _process_one and the finally clause of _worker.
EndItem(w, st) ==
    /\ stats' = [st EXCEPT !.processed = @ + 1]
    /\ done' = done \cup {hand[w]}
    /\ hand' = [hand EXCEPT ![w] = NoItem]
    /\ WorkerFrame /\ UNCHANGED <<cancelled, job, ckpt>>

\* Mutant: the outcome is a row of its own.
InsertOutcome(w, status) ==
    rows' = [rows EXCEPT ![login(w)] = [@ EXCEPT ![status] = @ + 1]]

\* item_completed and item_failed update every running row of the login.
CloseRows(w, status) ==
    LET row == rows[login(w)]
    IN  rows' = [rows EXCEPT ![login(w)] =
                    [row EXCEPT !.running = 0, ![status] = row[status] + row.running]]

ItemCompleted(w) ==
    /\ Go(w, "itemCompleted", "check")
    /\ CloseRows(w, "success")
    /\ EndItem(w, stats) /\ UNCHANGED <<queue, faults>>

ItemFailed(w) ==
    /\ Go(w, "itemFailed", "check")
    /\ CloseRows(w, "failed")
    /\ EndItem(w, stats) /\ UNCHANGED <<queue, faults>>

\* item_skipped inserts a row of its own.
ItemSkipped(w) ==
    /\ Go(w, "itemSkipped", "check")
    /\ rows' = [rows EXCEPT ![login(w)].skipped = @ + 1]
    /\ EndItem(w, stats) /\ UNCHANGED <<queue, faults>>

ProcessOne(w) ==
    \/ RecentlyIngested(w) \/ ItemStarted(w) \/ MarkIngesting(w) \/ Fetch(w)
    \/ Write(w) \/ MarkIngested(w) \/ MarkUnfinished(w)
    \/ ItemCompleted(w) \/ ItemFailed(w) \/ ItemSkipped(w)

InProcessOne == {"recent", "itemStarted", "markIngesting", "fetch", "write",
                 "markIngested", "markFailed", "markPending",
                 "itemCompleted", "itemFailed", "itemSkipped"}

\* Mutant: the login is put back to be tried again.
RequeueUnhandled(w) ==
    /\ faults < MaxFaults
    /\ \E at \in InProcessOne : Go(w, at, "check")
    /\ EndItem(w, [stats EXCEPT !.failed = @ + 1])
    /\ queue' = Append(queue, hand[w])
    /\ faults' = faults + 1 /\ UNCHANGED rows

\* Anything else _process_one raises is counted as a failure by _worker.
Unhandled(w) ==
    /\ faults < MaxFaults
    /\ \E at \in InProcessOne : Go(w, at, "check")
    /\ EndItem(w, [stats EXCEPT !.failed = @ + 1])
    /\ faults' = faults + 1 /\ UNCHANGED <<queue, rows>>

\* What the control loop at the end of _worker leaves alone.
ControlFrame == WorkerFrame /\ UNCHANGED <<queue, itemVars, rows, ckpt>>

\* check_control_signal after each item.
CheckSignal(w) ==
    /\ \/ job.signal = "none" /\ Go(w, "check", "get") /\ UNCHANGED cancelled
       \/ job.signal = "pause" /\ Go(w, "check", "markPaused") /\ UNCHANGED cancelled
       \/ job.signal = "cancel" /\ Go(w, "check", "exited") /\ cancelled' = TRUE
    /\ ControlFrame /\ UNCHANGED <<job, faults>>

MarkPaused(w) ==
    /\ Go(w, "markPaused", "paused")
    /\ SetStatus("paused")
    /\ ControlFrame /\ UNCHANGED <<cancelled, faults>>

\* Mutant: only a cancel ends the loop.
PollForCancel(w) ==
    /\ \/ job.signal # "cancel" /\ Go(w, "paused", "paused") /\ UNCHANGED cancelled
       \/ job.signal = "cancel" /\ Go(w, "paused", "exited") /\ cancelled' = TRUE
    /\ ControlFrame /\ UNCHANGED <<job, faults>>

\* A poll of the inner loop, every five seconds.
Poll(w) ==
    /\ \/ job.signal = "pause" /\ Go(w, "paused", "paused") /\ UNCHANGED cancelled
       \/ job.signal = "none" /\ Go(w, "paused", "markResumed") /\ UNCHANGED cancelled
       \/ job.signal = "cancel" /\ Go(w, "paused", "exited") /\ cancelled' = TRUE
    /\ ControlFrame /\ UNCHANGED <<job, faults>>

MarkResumed(w) ==
    /\ Go(w, "markResumed", "get")
    /\ job' = [status |-> "running", signal |-> "none"]
    /\ ControlFrame /\ UNCHANGED <<cancelled, faults>>

\* A statement outside of the try block raises: the task ends.
TaskDies(w) ==
    /\ faults < MaxFaults
    /\ \E at \in {"check", "markPaused", "paused", "markResumed"} : Go(w, at, "dead")
    /\ faults' = faults + 1
    /\ ControlFrame /\ UNCHANGED <<cancelled, job>>

Worker(w) ==
    \/ Get(w) \/ ProcessOne(w) \/ CheckSignal(w) \/ MarkPaused(w)
    \/ Poll(w) \/ MarkResumed(w)

-----------------------------------------------------------------------------
(* The control endpoints: each reads the status and then, in a second      *)
(* statement, updates the row.                                             *)

ApiFrame == UNCHANGED <<queue, producerVars, mainVars, wpc, itemVars, cancelled,
                        rows, ckpt, faults, platform>>

Controllable(op) ==
    CASE op = "pause" -> {"running"}
      [] op = "resume" -> {"paused"}
      [] op = "cancel" -> {"running", "paused"}

Request(c, op) ==
    /\ requests < MaxRequests
    /\ client[c] = "idle"
    /\ job.status \in Controllable(op)
    /\ client' = [client EXCEPT ![c] = op]
    /\ requests' = requests + 1
    /\ ApiFrame /\ UNCHANGED job

\* Mutant: the UPDATE has no condition on the status.
SignalAnyJob(c) ==
    /\ client[c] \in {"pause", "cancel"}
    /\ job' = [job EXCEPT !.signal = client[c]]
    /\ client' = [client EXCEPT ![c] = "idle"]
    /\ ApiFrame /\ UNCHANGED requests

\* set_control_signal and resume_job test the status again in their WHERE.
SetControlSignal(c) ==
    /\ client[c] \in {"pause", "cancel"}
    /\ job' = IF job.status \in {"running", "paused"}
              THEN [job EXCEPT !.signal = client[c]] ELSE job
    /\ client' = [client EXCEPT ![c] = "idle"]
    /\ ApiFrame /\ UNCHANGED requests

ResumeJob(c) ==
    /\ client[c] = "resume"
    /\ job' = IF job.status = "paused"
              THEN [status |-> "running", signal |-> "none"] ELSE job
    /\ client' = [client EXCEPT ![c] = "idle"]
    /\ ApiFrame /\ UNCHANGED requests

Operators ==
    \E c \in Clients :
        \/ \E op \in Ops : Request(c, op)
        \/ SetControlSignal(c)
        \/ ResumeJob(c)

-----------------------------------------------------------------------------
\* The job is over: the system stops.
Returned == main = "returned" /\ UNCHANGED vars

Next ==
    \/ Main
    \/ Producer
    \/ \E w \in Workers : Worker(w) \/ Unhandled(w) \/ TaskDies(w)
    \/ Operators
    \/ Returned

Spec == Init /\ [][Next]_vars

\* The event loop runs every task that can run; nobody has to make a request,
\* but one that was received is carried out.
FairSpec ==
    /\ Spec
    /\ WF_vars(Main)
    /\ WF_vars(Producer)
    /\ \A w \in Workers : WF_vars(Worker(w))
    /\ \A c \in Clients : WF_vars(SetControlSignal(c) \/ ResumeJob(c))

-----------------------------------------------------------------------------
(* Properties. *)

WorkerPC == InProcessOne \cup
    {"get", "check", "markPaused", "paused", "markResumed", "exited", "dead"}
MainPC == {"pending", "produce", "sentinels", "gather", "markCancelled",
           "markCompleted", "markFailed", "returned"}

\* The type invariant.
TypeOK ==
    /\ queue \in Seq(Items \cup {NoItem})
    /\ next \in 1..(Len(Input) + 1)
    /\ prod \in {"loop", "put", "done"}
    /\ main \in MainPC
    /\ sentinels \in 0..Cardinality(Workers)
    /\ wpc \in [Workers -> WorkerPC]
    /\ hand \in [Workers -> Items \cup {NoItem}]
    /\ cancelled \in BOOLEAN
    /\ stats \in [processed : Nat, succeeded : Nat, failed : Nat, skipped : Nat]
    /\ job \in [status : JobStatus, signal : ControlSignal]
    /\ rows \in [Logins -> [ItemStatus -> Nat]]
    /\ ckpt \in [Logins -> CheckpointStatus]
    /\ client \in [Clients -> {"idle", "pause", "resume", "cancel"}]
    /\ requests \in 0..MaxRequests
    /\ faults \in 0..MaxFaults
    /\ platform \in Platforms
    /\ done \subseteq Items

Upcoming == {i \in Items : i >= next}
Queued == {queue[k] : k \in DOMAIN queue} \ {NoItem}
Held == {hand[w] : w \in Workers} \ {NoItem}

\* No login of the input is lost and none is given to two workers: until the
\* task fails, each is in exactly one of the places between the input and the
\* end of its processing, whatever is paused, resumed or cancelled.
EachItemInOnePlace ==
    /\ Upcoming \cap (Queued \cup Held \cup done) = {}
    /\ Queued \cap (Held \cup done) = {}
    /\ Held \cap done = {}
    /\ \A j, k \in DOMAIN queue :
          queue[j] = queue[k] /\ queue[j] # NoItem => j = k
    /\ \A v, w \in Workers : hand[v] = hand[w] /\ hand[v] # NoItem => v = w
    /\ job.status # "failed" => Items = Upcoming \cup Queued \cup Held \cup done

\* A job that was neither cancelled nor failed has processed its whole input
\* by the time it is marked completed.
CompletedMeansAll ==
    job.status = "completed" /\ ~cancelled => done = Items

\* self.stats, written by all workers, counts each processed login once, in
\* one outcome, unless the item row of a counted login could not be written
\* (then _worker counts it as failed too).
StatsAddUp ==
    LET counted == stats.succeeded + stats.failed + stats.skipped
        open == {w \in Workers :
                    wpc[w] \in {"itemCompleted", "itemFailed", "itemSkipped"}}
    IN  job.status # "failed" =>
            /\ stats.processed = Cardinality(done)
            /\ counted - stats.processed - Cardinality(open) \in 0..faults

DistinctInput ==
    \A i, j \in Items : Input[i] = Input[j] => i = j

RowsOf(l) == rows[l].running + rows[l].success + rows[l].failed + rows[l].skipped

\* "one row per user processed within a job": a processed GitHub login has one
\* item row and it is closed, and the counts a job ends with are those of its
\* rows.
OneRowPerUser ==
    \A i \in done : RowsOf(Input[i]) = 1 /\ rows[Input[i]].running = 0

CountsMatchRows ==
    LET with(s) == Cardinality({l \in Logins : rows[l][s] > 0})
    IN  main = "returned" =>
            /\ stats.succeeded = with("success")
            /\ stats.failed = with("failed")
            /\ stats.skipped = with("skipped")

ItemRowsMatch ==
    DistinctInput /\ faults = 0 /\ platform = "github"
        => OneRowPerUser /\ CountsMatchRows

\* A login is marked as being ingested, in its item row or its checkpoint,
\* only while a worker ingests it.
NothingLeftHalfDone ==
    faults = 0 /\ platform = "github" =>
        \A l \in Logins :
            rows[l].running > 0 \/ ckpt[l] = "ingesting"
                => \E w \in Workers : hand[w] # NoItem /\ login(w) = l

\* When the job row says the job is over, no task of it is left to write.
QuietWhenOver ==
    job.status \in {"completed", "cancelled", "failed"} =>
        \A w \in Workers : wpc[w] \in {"exited", "dead"}

\* A completed or failed job stays as it is: neither a late control request
\* nor a worker that wakes up late writes to its row.
OverIsFinal ==
    [][job.status \in {"completed", "failed"} => job' = job]_vars

\* A worker that marks the job paused after it was resumed corrects it.
ResumeTakesEffect ==
    (job.status = "paused" /\ job.signal = "none")
        ~> (job.status # "paused" \/ job.signal # "none")

\* The job ends unless operators leave it paused.
Terminates == <>(main = "returned") \/ <>[](job.signal = "pause")

\* Seen from outside, the job hands out its items as WorkPool says.
Pool == INSTANCE WorkPool WITH
    waiting <- Upcoming \cup Queued,
    inHand <- [w \in Workers |-> {hand[w]} \ {NoItem}],
    finished <- done

PoolSpec == Pool!Spec

-----------------------------------------------------------------------------
(* What the documentation says and the code does not do. *)

\* "Cancel a running/paused ingest job": once a worker has read the cancel
\* signal, the job comes to its end.
CancelEnds == cancelled ~> (main = "returned")
=============================================================================
