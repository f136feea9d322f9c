-------------------------- MODULE IngestJobProofs ---------------------------
(***************************************************************************)
(* Proofs about IngestJob for every input, number of workers, queue size   *)
(* and platform.  The safety properties follow from one inductive          *)
(* invariant, IInv, that relates the control states of the producer, of    *)
(* run() and of the workers to the contents of the queue; what a job       *)
(* leaves in its statistics, item rows and checkpoints, from invariants    *)
(* of their own (StatsParts, RecordInv) that use it.                       *)
(***************************************************************************)
EXTENDS IngestJob, FiniteSetTheorems, TLAPS

NWorkers == Cardinality(Workers)

\* A worker has an item in hand exactly while it is inside of _process_one.
HandMatchesPC == \A w \in Workers : hand[w] # NoItem <=> wpc[w] \in InProcessOne

\* The producer waits for a slot only with a login, stops early only when the
\* run is cancelled, and is done before run() puts a sentinel.
ProducerFollows ==
    /\ prod = "put" => next \in Items
    /\ prod = "done" => cancelled \/ next = Len(Input) + 1
    /\ main \notin {"pending", "produce"} => prod = "done"

\* run() puts one sentinel for each worker.
SentinelsCounted ==
    /\ main \in {"pending", "produce"} => sentinels = 0
    /\ main = "sentinels" => sentinels < NWorkers

\* Sentinels are behind the logins.
SentinelsLast ==
    /\ \A j, k \in DOMAIN queue : j < k /\ queue[j] = NoItem => queue[k] = NoItem
    /\ (\E k \in DOMAIN queue : queue[k] = NoItem) => main \notin {"pending", "produce"}

\* Unless the run is cancelled, the first worker that stops has seen all logins
\* leave the queue.
StoppedMeansDrained ==
    ~cancelled /\ (\E w \in Workers : wpc[w] = "exited") =>
        /\ main \notin {"pending", "produce"}
        /\ Queued = {}

\* How far run() is says which workers are left and what the job row may say.
StatusFollowsMain ==
    /\ main \in {"markCancelled", "markCompleted"} => \A w \in Workers : wpc[w] = "exited"
    /\ main = "returned" =>
          /\ job.status \in {"completed", "failed"}
          /\ \A w \in Workers : wpc[w] \in {"exited", "dead"}
    /\ job.status = "cancelled" => main = "markCompleted"
    /\ job.status \in {"completed", "failed"} => main = "returned"
    /\ job.status = "completed" => \A w \in Workers : wpc[w] = "exited"

\* The type invariant in three parts: what tasks keep, what the statistics and
\* the database keep, and what never changes or is bounded.
QueueTypes ==
    /\ queue \in Seq(Items \cup {NoItem})
    /\ next \in 1..(Len(Input) + 1)
    /\ prod \in {"loop", "put", "done"}
    /\ main \in MainPC
    /\ sentinels \in 0..NWorkers

WorkerTypes ==
    /\ wpc \in [Workers -> WorkerPC]
    /\ hand \in [Workers -> Items \cup {NoItem}]
    /\ cancelled \in BOOLEAN
    /\ done \subseteq Items

DataTypes ==
    /\ stats \in [processed : Nat, succeeded : Nat, failed : Nat, skipped : Nat]
    /\ job \in [status : JobStatus, signal : ControlSignal]
    /\ rows \in [Logins -> [ItemStatus -> Nat]]
    /\ ckpt \in [Logins -> CheckpointStatus]

BoundTypes ==
    /\ client \in [Clients -> {"idle", "pause", "resume", "cancel"}]
    /\ requests \in 0..MaxRequests
    /\ faults \in 0..MaxFaults
    /\ platform \in Platforms

\* What the type invariant needs to be inductive.
TInv == QueueTypes /\ WorkerTypes /\ DataTypes /\ BoundTypes /\ HandMatchesPC /\ ProducerFollows /\ SentinelsCounted

IInv ==
    /\ TInv
    /\ SentinelsLast
    /\ StoppedMeansDrained
    /\ StatusFollowsMain
    /\ EachItemInOnePlace

-----------------------------------------------------------------------------
(* The type invariant. *)

LEMMA WorkersCount == NWorkers \in Nat \ {0}
  BY WorkersAssumption, FS_CardinalityType, FS_EmptySet DEF NWorkers

\* What can be read off the constants about the positions of the input.
LEMMA PositionsOfInput ==
    /\ Len(Input) \in Nat
    /\ Items \subseteq Positions
    /\ \A i \in Items : Input[i] \in Logins
    /\ NoItem \notin Items
  BY InputAssumption DEF Items, Positions, NoItem

LEMMA TypeParts == TypeOK <=> QueueTypes /\ WorkerTypes /\ DataTypes /\ BoundTypes
  BY DEF TypeOK, QueueTypes, WorkerTypes, DataTypes, BoundTypes, NWorkers

LEMMA TInvInit == Init => TInv
<1> SUFFICES ASSUME Init PROVE TInv
  OBVIOUS
<1> USE DEF Init
<1>1. QueueTypes
  BY WorkersCount, PositionsOfInput DEF QueueTypes, MainPC
<1>2. WorkerTypes
  BY DEF WorkerTypes, WorkerPC
<1>3. DataTypes
  BY KnownAssumption DEF DataTypes, JobStatus, ControlSignal, ItemStatus
<1>4. BoundTypes
  BY BoundsAssumption, PlatformAssumption DEF BoundTypes
<1>5. HandMatchesPC
  BY DEF HandMatchesPC, InProcessOne
<1>6. ProducerFollows /\ SentinelsCounted
  BY WorkersCount DEF ProducerFollows, SentinelsCounted
<1> QED
  BY <1>1, <1>2, <1>3, <1>4, <1>5, <1>6 DEF TInv

LEMMA TInvMain == TInv /\ Main => TInv'
<1> SUFFICES ASSUME TInv, Main PROVE TInv'
  OBVIOUS
<1> USE PositionsOfInput, WorkersCount DEF TInv, QueueTypes, WorkerTypes, DataTypes, BoundTypes,
        HandMatchesPC, ProducerFollows, SentinelsCounted, MainFrame, producerVars, apiVars,
        MainGo, SetStatus, JobStatus, MainPC
<1>1. CASE MarkRunning
  BY <1>1 DEF MarkRunning
<1>2. CASE AwaitProducer
  BY <1>2 DEF AwaitProducer
<1>3. CASE PutSentinel
  <2>1. QueueTypes' /\ SentinelsCounted'
    BY <1>3 DEF PutSentinel, NWorkers
  <2> QED
    BY <2>1, <1>3 DEF PutSentinel
<1>4. CASE Gather
  BY <1>4 DEF Gather, AfterGather
<1>5. CASE MarkCancelled
  BY <1>5 DEF MarkCancelled
<1>6. CASE MarkCompleted
  BY <1>6 DEF MarkCompleted
<1>7. CASE MarkFailed
  <2>1. WorkerTypes' /\ HandMatchesPC'
    BY <1>7 DEF MarkFailed, WorkerPC, InProcessOne
  <2> QED
    BY <2>1, <1>7 DEF MarkFailed
<1> QED
  BY <1>1, <1>2, <1>3, <1>4, <1>5, <1>6, <1>7 DEF Main

LEMMA TInvProducer == TInv /\ Producer => TInv'
<1> SUFFICES ASSUME TInv, Producer PROVE TInv'
  OBVIOUS
<1> USE PositionsOfInput DEF TInv, QueueTypes, WorkerTypes, DataTypes, BoundTypes,
        HandMatchesPC, ProducerFollows, SentinelsCounted, ProducerFrame, mainVars,
        itemVars, dbVars, apiVars
<1>1. CASE NextLogin
  BY <1>1 DEF NextLogin, Items, Positions
<1>2. CASE PutLogin
  BY <1>2 DEF PutLogin, Positions
<1> QED
  BY <1>1, <1>2 DEF Producer

-----------------------------------------------------------------------------
(* What the workers' actions have in common. *)

\* The steps of _process_one before the last.
InnerStep(w) ==
    \/ RecentlyIngested(w) \/ ItemStarted(w) \/ MarkIngesting(w) \/ Fetch(w)
    \/ Write(w) \/ MarkIngested(w) \/ MarkUnfinished(w)

\* The steps that end the processing of an item.
EndStep(w) == ItemCompleted(w) \/ ItemFailed(w) \/ ItemSkipped(w) \/ Unhandled(w)

\* The steps of the control loop at the end of _worker.
ControlStep(w) ==
    CheckSignal(w) \/ MarkPaused(w) \/ Poll(w) \/ MarkResumed(w) \/ TaskDies(w)

BetweenItems == {"get", "check", "markPaused", "paused", "markResumed", "exited", "dead"}

\* An inner step moves the worker to another step of _process_one.
LEMMA InnerStepControl ==
    ASSUME NEW w \in Workers, InnerStep(w)
    PROVE  /\ main # "pending"
           /\ wpc[w] \in InProcessOne
           /\ \E to \in InProcessOne : wpc' = [wpc EXCEPT ![w] = to]
           /\ UNCHANGED <<queue, next, prod, main, sentinels, hand, cancelled, job,
                          client, requests, faults, platform, done>>
  BY DEF InnerStep, RecentlyIngested, ItemStarted, MarkIngesting, Fetch, Write,
     MarkIngested, MarkUnfinished, Go, ItemFrame, WorkerFrame, producerVars, mainVars,
     apiVars, InProcessOne, TransientMark

\* The last step takes the item from the worker's hand to done.
LEMMA EndStepControl ==
    ASSUME NEW w \in Workers, EndStep(w)
    PROVE  /\ main # "pending"
           /\ wpc[w] \in InProcessOne
           /\ wpc' = [wpc EXCEPT ![w] = "check"]
           /\ hand' = [hand EXCEPT ![w] = NoItem]
           /\ done' = done \cup {hand[w]}
           /\ UNCHANGED <<queue, next, prod, main, sentinels, cancelled, job,
                          client, requests, platform>>
  BY DEF EndStep, ItemCompleted, ItemFailed, ItemSkipped, Unhandled, EndItem, Go,
     WorkerFrame, producerVars, mainVars, apiVars, InProcessOne

\* A control step leaves the items alone; a worker exits only on a cancel signal.
ControlEffect(w) ==
    /\ main # "pending"
    /\ wpc[w] \in {"check", "markPaused", "paused", "markResumed"}
    /\ \E to \in BetweenItems :
          /\ wpc' = [wpc EXCEPT ![w] = to]
          /\ to = "exited" => cancelled'
    /\ cancelled' = cancelled \/ cancelled' = TRUE
    /\ job' = job \/ job'.status \in {"running", "paused"}
    /\ job' \in [status : JobStatus, signal : ControlSignal]
    /\ faults' = faults \/ (faults < MaxFaults /\ faults' = faults + 1)
    /\ UNCHANGED <<queue, next, prod, main, sentinels, hand, done, stats, rows,
                   ckpt, client, requests, platform>>

LEMMA ControlStepControl ==
    ASSUME NEW w \in Workers, ControlStep(w), DataTypes
    PROVE  ControlEffect(w)
<1> USE DEF DataTypes, ControlEffect, Go, SetStatus, ControlFrame, WorkerFrame, producerVars,
     mainVars, itemVars, apiVars, BetweenItems
<1>1. CASE CheckSignal(w)
  BY <1>1 DEF CheckSignal
<1>2. CASE MarkPaused(w)
  BY <1>2 DEF MarkPaused, JobStatus
<1>3. CASE Poll(w)
  BY <1>3 DEF Poll
<1>4. CASE MarkResumed(w)
  BY <1>4 DEF MarkResumed, JobStatus, ControlSignal
<1>5. CASE TaskDies(w)
  BY <1>5 DEF TaskDies
<1> QED
  BY <1>1, <1>2, <1>3, <1>4, <1>5 DEF ControlStep

\* What a control request does to the job row.
LEMMA OperatorsControl ==
    ASSUME Operators, DataTypes, BoundTypes
    PROVE  /\ \/ job'.status = job.status
              \/ job.status = "paused" /\ job'.status = "running"
           /\ job.status \notin {"running", "paused"} => job' = job
           /\ job' \in [status : JobStatus, signal : ControlSignal]
           /\ BoundTypes'
           /\ UNCHANGED <<queue, producerVars, mainVars, wpc, itemVars, cancelled,
                          rows, ckpt, platform>>
<1>1. CASE \E c \in Clients, op \in Ops : Request(c, op)
  BY <1>1, OpsAssumption, BoundsAssumption DEF Request, ApiFrame, BoundTypes, DataTypes
<1>2. CASE \E c \in Clients : SetControlSignal(c)
  BY <1>2 DEF SetControlSignal, ApiFrame, BoundTypes, DataTypes, ControlSignal
<1>3. CASE \E c \in Clients : ResumeJob(c)
  BY <1>3 DEF ResumeJob, ApiFrame, BoundTypes, DataTypes, ControlSignal, JobStatus
<1> QED
  BY <1>1, <1>2, <1>3 DEF Operators

\* The statistics and the rows keep their types.
RowsType == [Logins -> [ItemStatus -> Nat]]
StatsType == [processed : Nat, succeeded : Nat, failed : Nat, skipped : Nat]

LEMMA CountOneMore ==
    ASSUME NEW r \in RowsType, NEW l, NEW s \in ItemStatus
    PROVE  [r EXCEPT ![l][s] = @ + 1] \in RowsType
<1> DEFINE f == [r[l] EXCEPT ![s] = @ + 1]
<1>1. l \in Logins => f \in [ItemStatus -> Nat]
  BY DEF RowsType
<1> HIDE DEF f
<1>2. [r EXCEPT ![l] = f] \in RowsType
  BY <1>1 DEF RowsType
<1> QED
  BY <1>2 DEF f

LEMMA CloseRowsType ==
    ASSUME NEW w, NEW s \in ItemStatus, rows \in RowsType, CloseRows(w, s)
    PROVE  rows' \in RowsType
<1> DEFINE l == login(w)
           f == [rows[l] EXCEPT !.running = 0, ![s] = rows[l][s] + rows[l].running]
<1>1. l \in Logins => f \in [ItemStatus -> Nat]
  BY DEF RowsType, ItemStatus
<1>2. rows' = [rows EXCEPT ![l] = f]
  BY DEF CloseRows
<1> HIDE DEF f, l
<1> QED
  BY <1>1, <1>2 DEF RowsType

LEMMA DataTypesWorker ==
    ASSUME NEW w \in Workers, InnerStep(w) \/ EndStep(w), DataTypes
    PROVE  DataTypes'
<1>1. stats \in StatsType /\ rows \in RowsType /\ ckpt \in [Logins -> CheckpointStatus]
  BY DEF DataTypes, StatsType, RowsType
<1>2. job' = job
  BY InnerStepControl, EndStepControl
<1>3. stats' \in StatsType
  <2> USE <1>1 DEF StatsType
  <2>1. CASE InnerStep(w)
    BY <2>1 DEF InnerStep, RecentlyIngested, ItemStarted, MarkIngesting, Fetch, Write,
       MarkIngested, MarkUnfinished
  <2>2. CASE ItemCompleted(w) \/ ItemFailed(w) \/ ItemSkipped(w)
    BY <2>2 DEF ItemCompleted, ItemFailed, ItemSkipped, EndItem
  <2>3. CASE Unhandled(w)
    <3> DEFINE st == [stats EXCEPT !.failed = @ + 1]
    <3>1. st \in StatsType
      OBVIOUS
    <3>2. stats' = [st EXCEPT !.processed = @ + 1]
      BY <2>3 DEF Unhandled, EndItem
    <3> HIDE DEF st
    <3> QED
      BY <3>1, <3>2
  <2> QED
    BY <2>1, <2>2, <2>3 DEF EndStep
<1>4. rows' \in RowsType
  <2>1. CASE ItemStarted(w)
    BY <1>1, <2>1, CountOneMore DEF ItemStarted, ItemStatus
  <2>2. CASE ItemSkipped(w)
    BY <1>1, <2>2, CountOneMore DEF ItemSkipped, ItemStatus
  <2>3. CASE ItemCompleted(w)
    BY <1>1, <2>3, CloseRowsType DEF ItemCompleted, ItemStatus
  <2>4. CASE ItemFailed(w)
    BY <1>1, <2>4, CloseRowsType DEF ItemFailed, ItemStatus
  <2>5. CASE UNCHANGED rows
    BY <1>1, <2>5
  <2> QED
    BY <2>1, <2>2, <2>3, <2>4, <2>5 DEF InnerStep, RecentlyIngested, MarkIngesting, Fetch,
       Write, MarkIngested, MarkUnfinished, EndStep, Unhandled
<1>5. ckpt' \in [Logins -> CheckpointStatus]
  <2> USE <1>1 DEF CheckpointStatus, Checkpoint
  <2>1. CASE InnerStep(w)
    BY <2>1 DEF InnerStep, RecentlyIngested, ItemStarted, MarkIngesting, Fetch, Write,
       MarkIngested, MarkUnfinished
  <2>2. CASE EndStep(w)
    BY <2>2 DEF EndStep, ItemCompleted, ItemFailed, ItemSkipped, Unhandled, EndItem
  <2> QED
    BY <2>1, <2>2
<1> QED
  BY <1>1, <1>2, <1>3, <1>4, <1>5 DEF DataTypes, StatsType, RowsType

LEMMA TInvWorker ==
    ASSUME NEW w \in Workers, Worker(w) \/ Unhandled(w) \/ TaskDies(w), TInv
    PROVE  TInv'
<1> USE DEF TInv
<1>1. CASE Get(w)
  <2>1. Head(queue) \in Items \cup {NoItem} /\ Tail(queue) \in Seq(Items \cup {NoItem})
    BY <1>1 DEF Get, QueueTypes
  <2>2. WorkerTypes' /\ HandMatchesPC'
    BY <1>1, <2>1 DEF Get, Go, WorkerTypes, HandMatchesPC, WorkerPC, InProcessOne
  <2> QED
    BY <1>1, <2>1, <2>2 DEF Get, WorkerFrame, dbVars, producerVars, mainVars, apiVars, QueueTypes,
       DataTypes, BoundTypes, ProducerFollows, SentinelsCounted
<1>2. CASE InnerStep(w)
  <2>1. DataTypes'
    BY <1>2, DataTypesWorker
  <2>2. WorkerTypes' /\ HandMatchesPC'
    BY <1>2, InnerStepControl DEF WorkerTypes, HandMatchesPC, WorkerPC
  <2> QED
    BY <1>2, <2>1, <2>2, InnerStepControl DEF QueueTypes, BoundTypes, ProducerFollows,
       SentinelsCounted
<1>3. CASE EndStep(w)
  <2>1. DataTypes'
    BY <1>3, DataTypesWorker
  <2>2. WorkerTypes' /\ HandMatchesPC'
    BY <1>3, EndStepControl, PositionsOfInput DEF WorkerTypes, HandMatchesPC, WorkerPC, InProcessOne
  <2>3. faults' \in 0..MaxFaults
    BY <1>3, BoundsAssumption DEF BoundTypes, EndStep, ItemCompleted, ItemFailed, ItemSkipped, Unhandled
  <2> QED
    BY <1>3, <2>1, <2>2, <2>3, EndStepControl DEF QueueTypes, BoundTypes, ProducerFollows,
       SentinelsCounted
<1>4. CASE ControlStep(w)
  <2>1. ControlEffect(w)
    BY <1>4, ControlStepControl
  <2>2. WorkerTypes' /\ HandMatchesPC'
    <3>1. PICK to \in BetweenItems : wpc' = [wpc EXCEPT ![w] = to]
      BY <2>1 DEF ControlEffect
    <3>2. hand' = hand /\ wpc[w] \notin InProcessOne /\ to \in WorkerPC \ InProcessOne
      BY <2>1, <3>1 DEF ControlEffect, WorkerPC, InProcessOne, BetweenItems
    <3>3. WorkerTypes'
      <4>1. wpc' \in [Workers -> WorkerPC]
        BY <3>1, <3>2 DEF WorkerTypes
      <4> QED
        BY <2>1, <3>2, <4>1 DEF ControlEffect, WorkerTypes
    <3>4. HandMatchesPC'
      BY <3>1, <3>2 DEF WorkerTypes, HandMatchesPC
    <3> QED
      BY <3>3, <3>4
  <2>3. DataTypes' /\ BoundTypes'
    BY <2>1, BoundsAssumption DEF ControlEffect, DataTypes, BoundTypes
  <2> QED
    BY <2>1, <2>2, <2>3 DEF ControlEffect, QueueTypes, ProducerFollows, SentinelsCounted
<1> QED
  BY <1>1, <1>2, <1>3, <1>4 DEF Worker, ProcessOne, InnerStep, EndStep, ControlStep

LEMMA TInvNext == TInv /\ [Next]_vars => TInv'
<1> SUFFICES ASSUME TInv, [Next]_vars PROVE TInv'
  OBVIOUS
<1>1. CASE Operators
  BY <1>1, OperatorsControl DEF TInv, QueueTypes, WorkerTypes, DataTypes, producerVars, mainVars,
     itemVars, HandMatchesPC, ProducerFollows, SentinelsCounted
<1>2. CASE UNCHANGED vars
  BY <1>2 DEF vars, producerVars, mainVars, itemVars, dbVars, apiVars, TInv, QueueTypes,
     WorkerTypes, DataTypes, BoundTypes, HandMatchesPC, ProducerFollows, SentinelsCounted
<1> QED
  BY <1>1, <1>2, TInvMain, TInvProducer, TInvWorker DEF Next, Returned

\* The type invariant holds for every input, pool of workers and bound.
THEOREM TypeCorrect == Spec => []TypeOK
<1>1. TInv => TypeOK
  BY TypeParts DEF TInv
<1> QED
  BY TInvInit, TInvNext, <1>1, PTL DEF Spec

-----------------------------------------------------------------------------
(* Every login is in one place. *)

LEMMA QueueAppend ==
    ASSUME QueueTypes, NEW x \in Items \cup {NoItem}, queue' = Append(queue, x)
    PROVE  /\ Len(queue) \in Nat /\ DOMAIN queue = 1..Len(queue)
           /\ DOMAIN queue' = 1..(Len(queue) + 1)
           /\ \A k \in DOMAIN queue : queue'[k] = queue[k]
           /\ queue'[Len(queue) + 1] = x
           /\ Queued' = (Queued \cup {x}) \ {NoItem}
<1>1. /\ Len(queue) \in Nat /\ DOMAIN queue = 1..Len(queue)
      /\ DOMAIN queue' = 1..(Len(queue) + 1)
      /\ \A k \in DOMAIN queue : queue'[k] = queue[k]
      /\ queue'[Len(queue) + 1] = x
  BY DEF QueueTypes
<1>2. Queued' = (Queued \cup {x}) \ {NoItem}
  BY <1>1 DEF Queued
<1> QED
  BY <1>1, <1>2

LEMMA QueueTail ==
    ASSUME QueueTypes, queue # <<>>, queue' = Tail(queue)
    PROVE  /\ Len(queue) \in Nat \ {0} /\ DOMAIN queue = 1..Len(queue)
           /\ Head(queue) = queue[1]
           /\ Head(queue) \in Items \cup {NoItem}
           /\ DOMAIN queue' = 1..(Len(queue) - 1)
           /\ \A k \in DOMAIN queue' : k + 1 \in DOMAIN queue /\ queue'[k] = queue[k + 1]
           /\ Queued = Queued' \cup ({Head(queue)} \ {NoItem})
<1>1. /\ Len(queue) \in Nat \ {0} /\ DOMAIN queue = 1..Len(queue)
      /\ Head(queue) = queue[1]
      /\ Head(queue) \in Items \cup {NoItem}
      /\ DOMAIN queue' = 1..(Len(queue) - 1)
      /\ \A k \in DOMAIN queue' : k + 1 \in DOMAIN queue /\ queue'[k] = queue[k + 1]
  BY DEF QueueTypes
<1>2. \A k \in DOMAIN queue : k = 1 \/ (k - 1 \in DOMAIN queue' /\ queue[k] = queue'[k - 1])
  BY <1>1
<1>3. ASSUME NEW y \in Queued' PROVE y \in Queued
  BY <1>1, <1>3 DEF Queued
<1>4. ASSUME NEW y \in Queued PROVE y \in Queued' \/ y = Head(queue)
  BY <1>1, <1>2, <1>4 DEF Queued
<1>5. Head(queue) # NoItem => Head(queue) \in Queued
  BY <1>1 DEF Queued
<1> QED
  BY <1>1, <1>3, <1>4, <1>5 DEF Queued

\* The parts of EachItemInOnePlace.
Disjoint ==
    /\ Upcoming \cap (Queued \cup Held \cup done) = {}
    /\ Queued \cap (Held \cup done) = {}
    /\ Held \cap done = {}

TakenOnce ==
    /\ \A j, k \in DOMAIN queue : queue[j] = queue[k] /\ queue[j] # NoItem => j = k
    /\ \A v, w \in Workers : hand[v] = hand[w] /\ hand[v] # NoItem => v = w

NoneLost == job.status # "failed" => Items = Upcoming \cup Queued \cup Held \cup done

LEMMA PlaceParts ==
    /\ EachItemInOnePlace <=> Disjoint /\ TakenOnce /\ NoneLost
    /\ EachItemInOnePlace' <=> Disjoint' /\ TakenOnce' /\ NoneLost'
  BY DEF EachItemInOnePlace, Disjoint, TakenOnce, NoneLost

LEMMA InitPlaces == Init => Queued = {} /\ Held = {} /\ done = {} /\ Upcoming = Items
  BY PositionsOfInput DEF Init, Queued, Held, Upcoming, Positions

LEMMA PlaceInit == Init => EachItemInOnePlace
  BY InitPlaces, PlaceParts DEF Init, Disjoint, TakenOnce, NoneLost

\* A job marked failed stays so.
LEMMA FailedStays ==
    ASSUME TInv, StatusFollowsMain, [Next]_vars, job.status = "failed"
    PROVE  job'.status = "failed"
<1>1. main = "returned" /\ \A w \in Workers : wpc[w] \in {"exited", "dead"}
  BY DEF StatusFollowsMain
<1>2. CASE Main
  BY <1>1, <1>2 DEF Main, MarkRunning, AwaitProducer, PutSentinel, Gather, AfterGather,
     MarkCancelled, MarkCompleted, MarkFailed, MainGo
<1>3. CASE Producer
  BY <1>3 DEF Producer, NextLogin, PutLogin, ProducerFrame, dbVars
<1>4. ASSUME NEW w \in Workers, Get(w) \/ InnerStep(w) \/ EndStep(w) PROVE job' = job
  BY <1>4, InnerStepControl, EndStepControl DEF Get, dbVars
<1>5. ASSUME NEW w \in Workers, ControlStep(w) PROVE FALSE
  BY <1>1, <1>5, ControlStepControl DEF ControlEffect, TInv
<1>6. CASE Operators
  BY <1>6, OperatorsControl DEF TInv
<1> QED
  BY <1>2, <1>3, <1>4, <1>5, <1>6 DEF Next, Returned, vars, dbVars, Worker, ProcessOne,
     InnerStep, EndStep, ControlStep

LEMMA PlaceMain ==
    ASSUME TInv, StatusFollowsMain, EachItemInOnePlace, Main
    PROVE  EachItemInOnePlace'
<1>1. UNCHANGED <<next, done>> /\ job.status # "failed"
  BY DEF Main, MarkRunning, AwaitProducer, PutSentinel, Gather, MarkCancelled,
     MarkCompleted, MarkFailed, MainGo, MainFrame, producerVars, StatusFollowsMain, AfterGather
<1>2. CASE PutSentinel
  <2>1. Queued' = Queued /\ hand' = hand
    BY <1>2, QueueAppend DEF PutSentinel, TInv, Queued
  <2>2. TakenOnce'
    BY <1>2, <2>1, QueueAppend, PlaceParts DEF PutSentinel, TInv, TakenOnce
  <2> QED
    BY <1>1, <2>1, <2>2, PlaceParts DEF Disjoint, NoneLost, Held, Upcoming
<1>3. CASE MarkFailed
  <2>1. Held' = {} /\ queue' = queue /\ job'.status = "failed"
    BY <1>3 DEF MarkFailed, Held, SetStatus, TInv, DataTypes
  <2> QED
    BY <1>1, <1>3, <2>1, PlaceParts DEF MarkFailed, Disjoint, TakenOnce, NoneLost, Queued, Upcoming
<1>4. CASE UNCHANGED <<queue, hand>>
  BY <1>1, <1>4, PlaceParts DEF Disjoint, TakenOnce, NoneLost, Held, Upcoming, Queued
<1> QED
  BY <1>2, <1>3, <1>4 DEF Main, MarkRunning, AwaitProducer, Gather, MarkCancelled, MarkCompleted

\* The producer moves a login from the input to the queue.
LEMMA PutLoginMoves ==
    ASSUME TInv, PutLogin
    PROVE  /\ next \in Items /\ next \in Upcoming
           /\ Upcoming' = Upcoming \ {next}
           /\ Queued' = Queued \cup {next}
<1>1. next \in Items /\ next \in Nat /\ next # NoItem
  BY PositionsOfInput DEF PutLogin, TInv, ProducerFollows, QueueTypes
<1>2. Upcoming' = Upcoming \ {next} /\ next \in Upcoming
  <2>1. next' = next + 1
    BY DEF PutLogin
  <2>2. \A i \in Items : i \in Nat /\ (i >= next + 1 <=> i >= next /\ i # next)
    BY <1>1, PositionsOfInput DEF Positions
  <2>3. next \in Upcoming
    BY <1>1 DEF Upcoming
  <2> QED
    BY <2>1, <2>2, <2>3 DEF Upcoming
<1>3. Queued' = Queued \cup {next}
  BY <1>1, QueueAppend DEF PutLogin, TInv, Queued
<1> QED
  BY <1>1, <1>2, <1>3

LEMMA PlaceProducer ==
    ASSUME TInv, EachItemInOnePlace, Producer
    PROVE  EachItemInOnePlace'
<1>1. UNCHANGED <<hand, done, job>> /\ Held' = Held
  BY DEF Producer, NextLogin, PutLogin, ProducerFrame, itemVars, dbVars, Held
<1>2. CASE NextLogin
  <2>1. Upcoming' = Upcoming
    BY <1>2 DEF NextLogin, Upcoming, Items, Positions, TInv, QueueTypes
  <2>2. queue' = queue
    BY <1>2 DEF NextLogin
  <2> QED
    BY <1>1, <2>1, <2>2, PlaceParts DEF Disjoint, TakenOnce, NoneLost, Queued
<1>3. CASE PutLogin
  <2>1. next \in Items /\ next # NoItem
    BY <1>3, PutLoginMoves, PositionsOfInput
  <2>2. Upcoming' = Upcoming \ {next} /\ next \in Upcoming
    BY <1>3, PutLoginMoves
  <2>3. Queued' = Queued \cup {next}
    BY <1>3, PutLoginMoves
  <2>4. next \notin Queued
    BY <2>2, PlaceParts DEF Disjoint
  <2>5. TakenOnce'
    BY <1>1, <1>3, <2>1, <2>4, QueueAppend, PlaceParts DEF PutLogin, TInv, TakenOnce, Queued
  <2> QED
    BY <1>1, <2>2, <2>3, <2>5, PlaceParts DEF Disjoint, NoneLost
<1> QED
  BY <1>2, <1>3 DEF Producer

\* A worker takes the head of the queue in hand, unless it is a sentinel.
LEMMA GetMoves ==
    ASSUME NEW w \in Workers, Get(w), TInv, EachItemInOnePlace
    PROVE  /\ UNCHANGED <<next, done, job>> /\ Upcoming' = Upcoming
           /\ hand[w] = NoItem /\ hand' = [hand EXCEPT ![w] = Head(queue)]
           /\ Queued = Queued' \cup ({Head(queue)} \ {NoItem})
           /\ Head(queue) \notin Queued'
           /\ \A j, k \in DOMAIN queue' : queue'[j] = queue'[k] /\ queue'[j] # NoItem => j = k
<1> DEFINE h == Head(queue)
<1>1. UNCHANGED <<next, done, job>> /\ Upcoming' = Upcoming
  BY DEF Get, dbVars, WorkerFrame, producerVars, Upcoming
<1>2. hand[w] = NoItem /\ hand' = [hand EXCEPT ![w] = h]
  BY DEF Get, Go, TInv, HandMatchesPC, InProcessOne
<1>3. /\ Len(queue) \in Nat \ {0} /\ DOMAIN queue = 1..Len(queue) /\ h = queue[1]
      /\ DOMAIN queue' = 1..(Len(queue) - 1)
      /\ \A k \in DOMAIN queue' : k + 1 \in DOMAIN queue /\ queue'[k] = queue[k + 1]
      /\ Queued = Queued' \cup ({h} \ {NoItem})
  BY QueueTail DEF Get, TInv
<1> HIDE DEF h
<1>4. h \notin Queued'
  BY <1>3, PlaceParts DEF TakenOnce, Queued
<1>5. \A j, k \in DOMAIN queue' : queue'[j] = queue'[k] /\ queue'[j] # NoItem => j = k
  BY <1>3, PlaceParts DEF TakenOnce
<1> QED
  BY <1>1, <1>2, <1>3, <1>4, <1>5 DEF h

LEMMA PlaceGet ==
    ASSUME NEW w \in Workers, Get(w), TInv, EachItemInOnePlace
    PROVE  EachItemInOnePlace'
<1>1. Held' = Held \cup ({Head(queue)} \ {NoItem})
  BY GetMoves DEF Held, TInv, WorkerTypes
<1>2. TakenOnce'
  <2>1. Head(queue) # NoItem => Head(queue) \notin Held
    BY GetMoves, PlaceParts DEF Disjoint
  <2>2. \A u, v \in Workers : hand'[u] = hand'[v] /\ hand'[u] # NoItem => u = v
    BY <2>1, GetMoves, PlaceParts DEF TakenOnce, Held, TInv, WorkerTypes
  <2> QED
    BY <2>2, GetMoves DEF TakenOnce
<1>3. Disjoint'
  BY <1>1, GetMoves, PlaceParts DEF Disjoint
<1>4. NoneLost'
  BY <1>1, GetMoves, PlaceParts DEF NoneLost
<1> QED
  BY <1>2, <1>3, <1>4, PlaceParts

LEMMA PlaceEnd ==
    ASSUME NEW w \in Workers, EndStep(w), TInv, EachItemInOnePlace
    PROVE  EachItemInOnePlace'
<1>1. /\ hand' = [hand EXCEPT ![w] = NoItem] /\ done' = done \cup {hand[w]}
      /\ UNCHANGED <<queue, next, job>> /\ Upcoming' = Upcoming /\ Queued' = Queued
  BY EndStepControl DEF Upcoming, Queued
<1>2. hand[w] # NoItem /\ hand[w] \in Held
  BY EndStepControl DEF TInv, HandMatchesPC, Held
<1>3. Held' = Held \ {hand[w]}
  BY <1>1, <1>2, PlaceParts DEF Held, TakenOnce, TInv, WorkerTypes
<1>4. TakenOnce'
  BY <1>1, PlaceParts DEF TakenOnce, TInv, WorkerTypes
<1> QED
  BY <1>1, <1>2, <1>3, <1>4, PlaceParts DEF Disjoint, NoneLost

LEMMA PlaceNext ==
    ASSUME TInv, StatusFollowsMain, EachItemInOnePlace, [Next]_vars
    PROVE  EachItemInOnePlace'
<1>1. CASE UNCHANGED <<queue, next, hand, done>>
  <2>1. NoneLost'
    BY <1>1, FailedStays, PlaceParts DEF NoneLost, Upcoming, Queued, Held
  <2> QED
    BY <1>1, <2>1, PlaceParts DEF Disjoint, TakenOnce, Upcoming, Queued, Held
<1>2. ASSUME NEW w \in Workers, InnerStep(w) \/ ControlStep(w)
      PROVE UNCHANGED <<queue, next, hand, done>>
  BY <1>2, InnerStepControl, ControlStepControl DEF ControlEffect, TInv
<1>3. Operators => UNCHANGED <<queue, next, hand, done>>
  BY OperatorsControl DEF TInv, producerVars, itemVars
<1>4. UNCHANGED vars => UNCHANGED <<queue, next, hand, done>>
  BY DEF vars, producerVars, itemVars
<1> QED
  BY <1>1, <1>2, <1>3, <1>4, PlaceMain, PlaceProducer, PlaceGet, PlaceEnd
  DEF Next, Returned, Worker, ProcessOne, InnerStep, EndStep, ControlStep

-----------------------------------------------------------------------------
(* The inductive invariant. *)

\* Sentinels follow the logins; the first worker to stop has seen them all go.
LEMMA DrainedNext ==
    ASSUME TInv, SentinelsLast, StoppedMeansDrained, [Next]_vars
    PROVE  SentinelsLast' /\ StoppedMeansDrained'
<1>1. CASE Main
  <2>1. CASE PutSentinel
    <3>1. SentinelsLast'
      BY <2>1, QueueAppend DEF PutSentinel, TInv, SentinelsLast, MainGo
    <3>2. Queued' = Queued /\ UNCHANGED <<wpc, cancelled>> /\ main = "sentinels"
          /\ main' \in {"sentinels", "gather"}
      BY <2>1, QueueAppend DEF PutSentinel, TInv, Queued, MainGo, MainFrame
    <3> QED
      BY <3>1, <3>2 DEF StoppedMeansDrained
  <2>2. CASE ~PutSentinel
    <3>1. /\ UNCHANGED <<queue, cancelled>>
          /\ main' \in {"pending", "produce"} => main \in {"pending", "produce"}
          /\ \A w \in Workers : wpc'[w] = "exited" => wpc[w] = "exited"
      BY <1>1, <2>2 DEF Main, MarkRunning, AwaitProducer, Gather, AfterGather, MarkCancelled,
         MarkCompleted, MarkFailed, MainGo, MainFrame
    <3> QED
      BY <3>1 DEF SentinelsLast, StoppedMeansDrained, Queued
  <2> QED
    BY <2>1, <2>2
<1>2. CASE Producer
  <2>1. UNCHANGED <<main, wpc, cancelled>>
    BY <1>2 DEF Producer, NextLogin, PutLogin, ProducerFrame, mainVars
  <2>2. CASE NextLogin
    BY <2>1, <2>2 DEF NextLogin, SentinelsLast, StoppedMeansDrained, Queued
  <2>3. CASE PutLogin
    <3>1. main \in {"pending", "produce"} /\ next \in Items
      BY <2>3 DEF PutLogin, TInv, ProducerFollows
    <3>2. \A k \in DOMAIN queue' : queue'[k] # NoItem
      BY <2>3, <3>1, QueueAppend, PositionsOfInput DEF PutLogin, TInv, SentinelsLast
    <3> QED
      BY <2>1, <3>1, <3>2 DEF SentinelsLast, StoppedMeansDrained
  <2> QED
    BY <1>2, <2>2, <2>3 DEF Producer
<1>3. ASSUME NEW w \in Workers, Get(w)
      PROVE  SentinelsLast' /\ StoppedMeansDrained'
  <2>1. /\ UNCHANGED <<main, cancelled>> /\ queue # <<>> /\ queue' = Tail(queue)
        /\ wpc' = [wpc EXCEPT ![w] = IF Head(queue) = NoItem THEN "exited" ELSE "recent"]
    BY <1>3 DEF Get, Go, WorkerFrame, mainVars
  <2>2. /\ Len(queue) \in Nat \ {0} /\ DOMAIN queue = 1..Len(queue) /\ Head(queue) = queue[1]
        /\ DOMAIN queue' = 1..(Len(queue) - 1)
        /\ \A k \in DOMAIN queue' : k + 1 \in DOMAIN queue /\ queue'[k] = queue[k + 1]
        /\ Queued' \subseteq Queued
    BY <2>1, QueueTail DEF TInv
  <2>3. SentinelsLast'
    BY <2>1, <2>2 DEF SentinelsLast
  <2>4. CASE Head(queue) = NoItem
    <3>1. \A k \in DOMAIN queue : queue[k] = NoItem
      BY <2>2, <2>4 DEF SentinelsLast
    <3>2. Queued = {} /\ main \notin {"pending", "produce"}
      BY <2>2, <2>4, <3>1 DEF Queued, SentinelsLast
    <3> QED
      BY <2>1, <2>2, <2>3, <3>2 DEF StoppedMeansDrained
  <2>5. CASE Head(queue) # NoItem
    <3>1. \A v \in Workers : wpc'[v] = "exited" => wpc[v] = "exited"
      BY <2>1, <2>5 DEF TInv, WorkerTypes
    <3> QED
      BY <2>1, <2>2, <2>3, <3>1 DEF StoppedMeansDrained
  <2> QED
    BY <2>4, <2>5
<1>4. ASSUME NEW w \in Workers, InnerStep(w) \/ EndStep(w)
      PROVE  SentinelsLast' /\ StoppedMeansDrained'
  <2>1. /\ UNCHANGED <<queue, main, cancelled>>
        /\ \A v \in Workers : wpc'[v] = "exited" => wpc[v] = "exited"
    BY <1>4, InnerStepControl, EndStepControl DEF TInv, WorkerTypes, InProcessOne
  <2> QED
    BY <2>1 DEF SentinelsLast, StoppedMeansDrained, Queued
<1>5. ASSUME NEW w \in Workers, ControlStep(w)
      PROVE  SentinelsLast' /\ StoppedMeansDrained'
  <2>1. /\ UNCHANGED <<queue, main>> /\ (cancelled => cancelled')
        /\ ~cancelled' => \A v \in Workers : wpc'[v] = "exited" => wpc[v] = "exited"
    BY <1>5, ControlStepControl DEF ControlEffect, TInv, WorkerTypes
  <2> QED
    BY <2>1 DEF SentinelsLast, StoppedMeansDrained, Queued
<1>6. CASE Operators
  BY <1>6, OperatorsControl DEF TInv, mainVars, SentinelsLast, StoppedMeansDrained, Queued
<1>7. CASE UNCHANGED vars
  BY <1>7 DEF vars, mainVars, SentinelsLast, StoppedMeansDrained, Queued
<1> QED
  BY <1>1, <1>2, <1>3, <1>4, <1>5, <1>6, <1>7
  DEF Next, Returned, Worker, ProcessOne, InnerStep, EndStep, ControlStep

LEMMA StatusNext ==
    ASSUME TInv, StatusFollowsMain, [Next]_vars
    PROVE  StatusFollowsMain'
<1>1. CASE Main
  <2> USE DEF MainGo, MainFrame, SetStatus, StatusFollowsMain, TInv, DataTypes, WorkerTypes
  <2>1. CASE MarkRunning
    BY <2>1 DEF MarkRunning
  <2>2. CASE AwaitProducer \/ PutSentinel
    BY <2>2 DEF AwaitProducer, PutSentinel
  <2>3. CASE Gather
    BY <2>3 DEF Gather, AfterGather
  <2>4. CASE MarkCancelled
    BY <2>4 DEF MarkCancelled
  <2>5. CASE MarkCompleted
    BY <2>5 DEF MarkCompleted
  <2>6. CASE MarkFailed
    BY <2>6 DEF MarkFailed
  <2> QED
    BY <1>1, <2>1, <2>2, <2>3, <2>4, <2>5, <2>6 DEF Main
<1>2. CASE Producer
  BY <1>2 DEF Producer, NextLogin, PutLogin, ProducerFrame, mainVars, dbVars, StatusFollowsMain
<1>3. ASSUME NEW w \in Workers, Get(w) \/ InnerStep(w) \/ EndStep(w)
      PROVE  StatusFollowsMain'
  <2>1. /\ UNCHANGED <<main, job>>
        /\ wpc[w] \notin {"exited", "dead"}
        /\ \A v \in Workers \ {w} : wpc'[v] = wpc[v]
    BY <1>3, InnerStepControl, EndStepControl
    DEF Get, Go, WorkerFrame, mainVars, dbVars, InProcessOne, TInv, WorkerTypes
  <2> QED
    BY <2>1 DEF StatusFollowsMain
<1>4. ASSUME NEW w \in Workers, ControlStep(w)
      PROVE  StatusFollowsMain'
  <2>1. ControlEffect(w)
    BY <1>4, ControlStepControl DEF TInv
  <2>2. main \notin {"markCancelled", "markCompleted", "returned"}
    BY <2>1 DEF ControlEffect, StatusFollowsMain
  <2> QED
    BY <2>1, <2>2 DEF ControlEffect, StatusFollowsMain
<1>5. CASE Operators
  <2>1. /\ UNCHANGED <<main, wpc>>
        /\ job'.status = job.status \/ {job.status, job'.status} = {"paused", "running"}
    BY <1>5, OperatorsControl DEF TInv, mainVars
  <2> QED
    BY <2>1 DEF StatusFollowsMain
<1>6. CASE UNCHANGED vars
  BY <1>6 DEF vars, mainVars, dbVars, StatusFollowsMain
<1> QED
  BY <1>1, <1>2, <1>3, <1>4, <1>5, <1>6
  DEF Next, Returned, Worker, ProcessOne, InnerStep, EndStep, ControlStep

LEMMA IInvInit == Init => IInv
<1>1. Init => SentinelsLast /\ StoppedMeansDrained /\ StatusFollowsMain
  BY DEF Init, SentinelsLast, StoppedMeansDrained, StatusFollowsMain
<1> QED
  BY <1>1, TInvInit, PlaceInit DEF IInv

LEMMA IInvNext == IInv /\ [Next]_vars => IInv'
  BY TInvNext, DrainedNext, StatusNext, PlaceNext DEF IInv

LEMMA InvariantHolds == Spec => []IInv
  BY IInvInit, IInvNext, PTL DEF Spec

-----------------------------------------------------------------------------
(* The theorems. *)

\* No login is lost or processed twice, for every input and pool of workers and
\* whatever is paused, resumed, cancelled or raised.
THEOREM ItemsInOnePlace == Spec => []EachItemInOnePlace
<1>1. IInv => EachItemInOnePlace
  BY DEF IInv
<1> QED
  BY <1>1, InvariantHolds, PTL

\* A job that ends neither cancelled nor failed has processed its whole input.
THEOREM CompletedIsComplete == Spec => []CompletedMeansAll
<1>1. ASSUME IInv, job.status = "completed", ~cancelled PROVE done = Items
  <2>1. main = "returned" /\ \A w \in Workers : wpc[w] = "exited"
    BY <1>1 DEF IInv, StatusFollowsMain
  <2>2. Queued = {}
    BY <1>1, <2>1, WorkersAssumption DEF IInv, StoppedMeansDrained
  <2>3. Upcoming = {}
    <3>1. next = Len(Input) + 1
      BY <1>1, <2>1 DEF IInv, TInv, ProducerFollows
    <3> QED
      BY <3>1, PositionsOfInput DEF Upcoming, Positions, Items
  <2>4. Held = {}
    BY <1>1, <2>1 DEF IInv, TInv, HandMatchesPC, Held, InProcessOne
  <2> QED
    BY <1>1, <2>2, <2>3, <2>4, PlaceParts DEF IInv, NoneLost
<1>2. IInv => CompletedMeansAll
  BY <1>1 DEF CompletedMeansAll
<1> QED
  BY <1>2, InvariantHolds, PTL

\* When the job row says that the job is over, no worker of it is left.
THEOREM NoWorkerAfterTheEnd == Spec => []QuietWhenOver
<1>1. IInv => QuietWhenOver
  BY DEF IInv, StatusFollowsMain, QuietWhenOver
<1> QED
  BY <1>1, InvariantHolds, PTL

\* No step of a worker, of run() or of an operator changes the row of a job
\* that is completed or failed.
THEOREM EndIsFinal == Spec => OverIsFinal
<1>1. ASSUME IInv, [Next]_vars, job.status \in {"completed", "failed"} PROVE job' = job
  <2>1. main = "returned" /\ \A w \in Workers : wpc[w] \in {"exited", "dead"}
    BY <1>1 DEF IInv, StatusFollowsMain
  <2>2. ASSUME NEW w \in Workers, ControlStep(w) PROVE FALSE
    BY <1>1, <2>1, <2>2, ControlStepControl DEF ControlEffect, IInv, TInv
  <2>3. Operators => job' = job
    BY <1>1, OperatorsControl DEF IInv, TInv
  <2>4. ~Main
    BY <2>1 DEF Main, MarkRunning, AwaitProducer, PutSentinel, Gather, AfterGather,
       MarkCancelled, MarkCompleted, MarkFailed, MainGo
  <2>5. Producer => job' = job
    BY DEF Producer, NextLogin, PutLogin, ProducerFrame, dbVars
  <2>6. ASSUME NEW w \in Workers, Get(w) \/ InnerStep(w) \/ EndStep(w) PROVE job' = job
    BY <2>6, InnerStepControl, EndStepControl DEF Get, dbVars
  <2> QED
    BY <1>1, <2>2, <2>3, <2>4, <2>5, <2>6
    DEF Next, Returned, vars, dbVars, Worker, ProcessOne, InnerStep, EndStep, ControlStep
<1>2. IInv /\ [Next]_vars => [job.status \in {"completed", "failed"} => job' = job]_vars
  BY <1>1 DEF vars, dbVars
<1> QED
  BY <1>2, InvariantHolds, PTL DEF Spec, OverIsFinal

-----------------------------------------------------------------------------
(* The job implements the abstract pool of work. *)

LEMMA PoolInit == Init => Pool!Init
<1> SUFFICES ASSUME Init PROVE Pool!Init
  OBVIOUS
<1>1. Queued = {} /\ done = {} /\ Upcoming = Items
  BY InitPlaces
<1>2. \A w \in Workers : {hand[w]} \ {NoItem} = {}
  BY DEF Init
<1> QED
  BY <1>1, <1>2 DEF Pool!Init

LEMMA PoolStep ==
    ASSUME IInv, [Next]_vars
    PROVE  [Pool!Next]_(Pool!poolVars)
<1> USE DEF IInv
<1>1. CASE UNCHANGED <<queue, next, hand, done>>
  BY <1>1 DEF Pool!poolVars, Upcoming, Queued
<1>2. CASE Main
  <2>1. UNCHANGED <<next, done>>
    BY <1>2 DEF Main, MarkRunning, AwaitProducer, PutSentinel, Gather, MarkCancelled,
       MarkCompleted, MarkFailed, MainFrame, producerVars
  <2>2. CASE PutSentinel
    <3>1. Queued' = Queued /\ hand' = hand
      BY <2>2, QueueAppend DEF PutSentinel, TInv, Queued
    <3> QED
      BY <2>1, <3>1 DEF Pool!poolVars, Upcoming
  <2>3. CASE MarkFailed
    <3>1. /\ queue' = queue
          /\ [w \in Workers |-> {hand[w]} \ {NoItem}]' = [w \in Workers |-> {}]
      BY <2>3 DEF MarkFailed
    <3>2. Upcoming' = Upcoming /\ Queued' = Queued
      BY <2>1, <3>1 DEF Upcoming, Queued
    <3>3. CASE \E w \in Workers : hand[w] # NoItem
      BY <2>1, <3>1, <3>2, <3>3 DEF Pool!Next, Pool!TearDown
    <3>4. CASE \A w \in Workers : hand[w] = NoItem
      BY <2>1, <3>1, <3>2, <3>4 DEF Pool!poolVars
    <3> QED
      BY <3>3, <3>4
  <2> QED
    BY <1>1, <1>2, <2>1, <2>2, <2>3 DEF Main, MarkRunning, AwaitProducer, Gather, MarkCancelled,
       MarkCompleted
<1>3. CASE Producer
  <2>1. UNCHANGED <<hand, done>>
    BY <1>3 DEF Producer, NextLogin, PutLogin, ProducerFrame, itemVars
  <2>2. CASE NextLogin
    <3>1. Upcoming' = Upcoming /\ queue' = queue
      BY <2>2 DEF NextLogin, Upcoming, Items, Positions, TInv, QueueTypes
    <3> QED
      BY <2>1, <3>1 DEF Pool!poolVars, Queued
  <2>3. CASE PutLogin
    <3>1. (Upcoming \cup Queued)' = Upcoming \cup Queued
      BY <2>3, PutLoginMoves
    <3> QED
      BY <2>1, <3>1 DEF Pool!poolVars
  <2> QED
    BY <1>3, <2>2, <2>3 DEF Producer
<1>4. ASSUME NEW w \in Workers, Get(w)
      PROVE  [Pool!Next]_(Pool!poolVars)
  <2> DEFINE h == Head(queue)
  <2>1. /\ done' = done /\ Upcoming' = Upcoming
        /\ hand[w] = NoItem /\ hand' = [hand EXCEPT ![w] = h]
        /\ Queued = Queued' \cup ({h} \ {NoItem})
        /\ h \notin Queued'
    BY <1>4, GetMoves
  <2> HIDE DEF h
  <2>2. CASE h = NoItem
    <3>1. hand' = hand
      BY <2>1, <2>2 DEF TInv, WorkerTypes
    <3> QED
      BY <2>1, <2>2, <3>1 DEF Pool!poolVars
  <2>3. CASE h # NoItem
    <3>1. h \notin Upcoming
      BY <2>1, <2>3, PlaceParts DEF Disjoint
    <3>2. (Upcoming \cup Queued)' = (Upcoming \cup Queued) \ {h}
      BY <2>1, <2>3, <3>1
    <3>3. [v \in Workers |-> {hand[v]} \ {NoItem}]'
            = [[v \in Workers |-> {hand[v]} \ {NoItem}] EXCEPT ![w] = {h}]
      BY <2>1, <2>3 DEF TInv, WorkerTypes
    <3>4. Pool!Take(w)
      BY <2>1, <2>3, <3>2, <3>3 DEF Pool!Take
    <3> QED
      BY <3>4 DEF Pool!Next
  <2> QED
    BY <2>2, <2>3
<1>5. ASSUME NEW w \in Workers, EndStep(w)
      PROVE  [Pool!Next]_(Pool!poolVars)
  <2>1. /\ hand[w] # NoItem /\ hand' = [hand EXCEPT ![w] = NoItem]
        /\ done' = done \cup {hand[w]}
        /\ UNCHANGED <<queue, next>>
    BY <1>5, EndStepControl DEF TInv, HandMatchesPC
  <2>2. (Upcoming \cup Queued)' = Upcoming \cup Queued
    BY <2>1 DEF Upcoming, Queued
  <2>3. [v \in Workers |-> {hand[v]} \ {NoItem}]'
          = [[v \in Workers |-> {hand[v]} \ {NoItem}] EXCEPT ![w] = {}]
    BY <2>1 DEF TInv, WorkerTypes
  <2>4. Pool!Finish(w)
    BY <2>1, <2>2, <2>3 DEF Pool!Finish
  <2> QED
    BY <2>4 DEF Pool!Next
<1>6. ASSUME NEW w \in Workers, InnerStep(w) \/ ControlStep(w)
      PROVE UNCHANGED <<queue, next, hand, done>>
  BY <1>6, InnerStepControl, ControlStepControl DEF ControlEffect, TInv
<1>7. Operators => UNCHANGED <<queue, next, hand, done>>
  BY OperatorsControl DEF TInv, producerVars, itemVars
<1>8. UNCHANGED vars => UNCHANGED <<queue, next, hand, done>>
  BY DEF vars, producerVars, itemVars
<1> QED
  BY <1>1, <1>2, <1>3, <1>4, <1>5, <1>6, <1>7, <1>8
  DEF Next, Returned, Worker, ProcessOne, InnerStep, EndStep, ControlStep

\* Seen from outside, every job hands out its items as WorkPool says.
THEOREM ImplementsPool == Spec => PoolSpec
  BY PoolInit, PoolStep, InvariantHolds, PTL DEF Spec, PoolSpec, Pool!Spec

-----------------------------------------------------------------------------
(* The statistics. *)

\* The workers that have counted the outcome of their login and not yet
\* written its item row.
ClosingAt == {"itemCompleted", "itemFailed", "itemSkipped"}
Closing == {w \in Workers : wpc[w] \in ClosingAt}
Counted == stats.succeeded + stats.failed + stats.skipped

StatsParts ==
    job.status # "failed" =>
        /\ stats.processed = Cardinality(done)
        /\ Counted - stats.processed - Cardinality(Closing) \in 0..faults

LEMMA StatsAddUpParts == StatsAddUp <=> StatsParts
  BY DEF StatsAddUp, StatsParts, Counted, Closing, ClosingAt

LEMMA FiniteSets ==
    ASSUME done \subseteq Items
    PROVE  /\ IsFiniteSet(done) /\ Cardinality(done) \in Nat
           /\ IsFiniteSet(Closing) /\ Cardinality(Closing) \in Nat
<1>1. IsFiniteSet(Positions)
  BY PositionsOfInput, FS_Interval DEF Positions
<1>2. IsFiniteSet(done)
  BY <1>1, PositionsOfInput, FS_Subset
<1>3. IsFiniteSet(Closing)
  BY WorkersAssumption, FS_Subset DEF Closing
<1> QED
  BY <1>2, <1>3, FS_CardinalityType

\* What a worker that moves adds to the workers at some of the awaits.
WorkersAt(S) == {w \in Workers : wpc[w] \in S}
One(cond) == IF cond THEN 1 ELSE 0

LEMMA WorkersAtFinite ==
    ASSUME NEW S
    PROVE  IsFiniteSet(WorkersAt(S)) /\ Cardinality(WorkersAt(S)) \in Nat
  BY WorkersAssumption, FS_Subset, FS_CardinalityType DEF WorkersAt

LEMMA WorkerMoves ==
    ASSUME WorkerTypes, NEW S, NEW w \in Workers, NEW to, wpc' = [wpc EXCEPT ![w] = to]
    PROVE  Cardinality(WorkersAt(S)') = Cardinality(WorkersAt(S)) - One(wpc[w] \in S)
                                          + One(to \in S)
<1> DEFINE at == WorkersAt(S)
           atNext == WorkersAt(S)'
<1>1. IsFiniteSet(at) /\ Cardinality(at) \in Nat
  BY WorkersAtFinite
<1>2. w \in at <=> wpc[w] \in S
  BY DEF WorkersAt
<1>3. w \in atNext <=> to \in S
  BY DEF WorkersAt, WorkerTypes
<1>4. atNext \ {w} = at \ {w}
  BY DEF WorkersAt, WorkerTypes
<1> HIDE DEF at, atNext
<1>5. CASE w \in at /\ w \notin atNext
  <2>1. atNext = at \ {w}
    BY <1>4, <1>5
  <2> QED
    BY <1>1, <1>2, <1>3, <1>5, <2>1, FS_RemoveElement, FS_CardinalityType DEF One, at, atNext
<1>6. CASE w \notin at /\ w \in atNext
  <2>1. atNext = at \cup {w}
    BY <1>4, <1>6
  <2> QED
    BY <1>1, <1>2, <1>3, <1>6, <2>1, FS_AddElement, SMTT(40) DEF One, at, atNext
<1>7. CASE w \in at <=> w \in atNext
  <2>1. atNext = at
    BY <1>4, <1>7
  <2> QED
    BY <1>1, <1>2, <1>3, <1>7, <2>1 DEF One, at, atNext
<1> QED
  BY <1>5, <1>6, <1>7

LEMMA ClosingMoves ==
    ASSUME TInv, NEW w \in Workers, NEW to, wpc' = [wpc EXCEPT ![w] = to]
    PROVE  Cardinality(Closing') = Cardinality(Closing) - One(wpc[w] \in ClosingAt)
                                     + One(to \in ClosingAt)
<1>1. Closing = WorkersAt(ClosingAt) /\ Closing' = WorkersAt(ClosingAt)'
  BY DEF Closing, WorkersAt
<1>2. Cardinality(WorkersAt(ClosingAt)') = Cardinality(WorkersAt(ClosingAt))
          - One(wpc[w] \in ClosingAt) + One(to \in ClosingAt)
  BY WorkerMoves DEF TInv
<1> QED
  BY <1>1, <1>2

\* An inner step counts an outcome exactly when it makes the worker close the row.
LEMMA InnerStepStats ==
    ASSUME TInv, NEW w \in Workers, InnerStep(w)
    PROVE  /\ wpc[w] \notin ClosingAt
           /\ wpc' = [wpc EXCEPT ![w] = wpc'[w]]
           /\ stats'.processed = stats.processed
           /\ stats'.succeeded = stats.succeeded + One(wpc'[w] = "itemCompleted")
           /\ stats'.failed = stats.failed + One(wpc'[w] = "itemFailed")
           /\ stats'.skipped = stats.skipped + One(wpc'[w] = "itemSkipped")
<1>w. /\ wpc[w] \in InProcessOne /\ w \in DOMAIN wpc
      /\ wpc' = [wpc EXCEPT ![w] = wpc'[w]]
  BY InnerStepControl DEF TInv, WorkerTypes
<1>s. stats \in [processed : Nat, succeeded : Nat, failed : Nat, skipped : Nat]
  BY DEF TInv, DataTypes
<1> USE <1>w, <1>s DEF Go, ClosingAt, One
<1>1. CASE RecentlyIngested(w)
  BY <1>1 DEF RecentlyIngested
<1>2. CASE ItemStarted(w)
  BY <1>2 DEF ItemStarted
<1>3. CASE MarkIngesting(w)
  BY <1>3 DEF MarkIngesting
<1>4. CASE Fetch(w)
  BY <1>4 DEF Fetch, TransientMark
<1>5. CASE Write(w)
  BY <1>5 DEF Write
<1>6. CASE MarkIngested(w)
  BY <1>6 DEF MarkIngested
<1>7. CASE MarkUnfinished(w)
  BY <1>7 DEF MarkUnfinished
<1> QED
  BY <1>1, <1>2, <1>3, <1>4, <1>5, <1>6, <1>7 DEF InnerStep

LEMMA InnerStepCounts ==
    ASSUME TInv, NEW w \in Workers, InnerStep(w)
    PROVE  Counted' = Counted + One(wpc'[w] \in ClosingAt)
<1>1. stats.succeeded \in Nat /\ stats.failed \in Nat /\ stats.skipped \in Nat
  BY DEF TInv, DataTypes
<1> QED
  BY <1>1, InnerStepStats DEF Counted, One, ClosingAt

\* An end step counts one login as processed; an exception that _worker
\* catches counts an outcome too, a second one if the first was counted.
LEMMA EndStepCounts ==
    ASSUME TInv, NEW w \in Workers, EndStep(w)
    PROVE  /\ stats'.processed = stats.processed + 1
           /\ \/ faults' = faults /\ Counted' = Counted /\ wpc[w] \in ClosingAt
              \/ faults' = faults + 1 /\ Counted' = Counted + 1
<1> USE DEF TInv, DataTypes, Go, ClosingAt, Counted
<1>1. CASE ItemCompleted(w) \/ ItemFailed(w) \/ ItemSkipped(w)
  BY <1>1 DEF ItemCompleted, ItemFailed, ItemSkipped, EndItem
<1>2. CASE Unhandled(w)
  <2> DEFINE st == [stats EXCEPT !.failed = @ + 1]
  <2>1. /\ st \in StatsType
        /\ st.processed = stats.processed
        /\ st.succeeded + st.failed + st.skipped = Counted + 1
    <3>1. /\ stats \in StatsType
          /\ stats.succeeded \in Nat /\ stats.failed \in Nat /\ stats.skipped \in Nat
      BY DEF StatsType
    <3>2. /\ st \in StatsType /\ st.processed = stats.processed
          /\ st.succeeded = stats.succeeded /\ st.skipped = stats.skipped
          /\ st.failed = stats.failed + 1
      BY <3>1 DEF StatsType
    <3> HIDE DEF st
    <3> QED
      BY <3>1, <3>2
  <2>2. stats' = [st EXCEPT !.processed = @ + 1] /\ faults' = faults + 1
    BY <1>2 DEF Unhandled, EndItem
  <2> HIDE DEF st
  <2> QED
    BY <2>1, <2>2 DEF StatsType
<1> QED
  BY <1>1, <1>2 DEF EndStep

LEMMA DoneGrows ==
    ASSUME TInv, EachItemInOnePlace, NEW w \in Workers, EndStep(w)
    PROVE  Cardinality(done') = Cardinality(done) + 1
<1>1. done' = done \cup {hand[w]} /\ hand[w] # NoItem
  BY EndStepControl DEF TInv, HandMatchesPC
<1>2. hand[w] \notin done
  BY <1>1, PlaceParts DEF Disjoint, Held
<1> QED
  BY <1>1, <1>2, FiniteSets, FS_AddElement DEF TInv, WorkerTypes

LEMMA StatsNext ==
    ASSUME IInv, StatsParts, [Next]_vars
    PROVE  StatsParts'
<1> SUFFICES ASSUME job'.status # "failed"
             PROVE  /\ stats'.processed = Cardinality(done')
                    /\ Counted' - stats'.processed - Cardinality(Closing') \in 0..faults'
  BY DEF StatsParts
<1> USE DEF IInv
<1>1. /\ stats.processed = Cardinality(done)
      /\ Counted - stats.processed - Cardinality(Closing) \in 0..faults
  BY FailedStays DEF StatsParts
<1>2. /\ Cardinality(done) \in Nat /\ Cardinality(Closing) \in Nat
      /\ faults \in Nat /\ Counted \in Nat
  BY FiniteSets, BoundsAssumption DEF TInv, WorkerTypes, BoundTypes, DataTypes, Counted
<1>3. CASE UNCHANGED <<stats, done, wpc, faults>>
  BY <1>1, <1>2, <1>3 DEF Counted, Closing
<1>4. CASE Main
  BY <1>3, <1>4 DEF Main, MarkRunning, AwaitProducer, PutSentinel, Gather, MarkCancelled,
     MarkCompleted, MarkFailed, MainFrame, SetStatus, TInv, DataTypes
<1>5. Producer => UNCHANGED <<stats, done, wpc, faults>>
  BY DEF Producer, NextLogin, PutLogin, ProducerFrame, itemVars
<1>6. ASSUME NEW w \in Workers, Get(w) \/ ControlStep(w)
      PROVE  /\ UNCHANGED <<stats, done>>
             /\ Closing' = Closing
             /\ faults' \in Nat /\ faults' >= faults
  <2>1. CASE Get(w)
    BY <1>2, <1>6, <2>1 DEF Get, Go, Closing, ClosingAt, TInv, WorkerTypes
  <2>2. CASE ControlStep(w)
    <3>1. ControlEffect(w)
      BY <2>2, ControlStepControl DEF TInv
    <3> QED
      BY <1>2, <3>1 DEF ControlEffect, BetweenItems, Closing, ClosingAt, TInv, WorkerTypes
  <2> QED
    BY <1>6, <2>1, <2>2
<1>7. ASSUME NEW w \in Workers, InnerStep(w)
      PROVE  /\ stats'.processed = Cardinality(done')
             /\ Counted' - stats'.processed - Cardinality(Closing') \in 0..faults'
  <2>1. /\ wpc[w] \notin ClosingAt
        /\ wpc' = [wpc EXCEPT ![w] = wpc'[w]]
        /\ stats'.processed = stats.processed
        /\ Counted' = Counted + One(wpc'[w] \in ClosingAt)
    BY <1>7, InnerStepCounts, InnerStepStats
  <2>2. UNCHANGED <<done, faults>>
    BY <1>7, InnerStepControl
  <2>3. Cardinality(Closing') = Cardinality(Closing) + One(wpc'[w] \in ClosingAt)
    <3>1. Cardinality(Closing') = Cardinality(Closing) - One(wpc[w] \in ClosingAt)
                                    + One(wpc'[w] \in ClosingAt)
      BY <2>1, ClosingMoves
    <3> QED
      BY <1>2, <2>1, <3>1 DEF One
  <2> QED
    BY <1>1, <1>2, <2>1, <2>2, <2>3 DEF One
<1>8. ASSUME NEW w \in Workers, EndStep(w)
      PROVE  /\ stats'.processed = Cardinality(done')
             /\ Counted' - stats'.processed - Cardinality(Closing') \in 0..faults'
  <2>1. wpc' = [wpc EXCEPT ![w] = "check"]
    BY <1>8, EndStepControl
  <2>2. Cardinality(Closing') = Cardinality(Closing) - One(wpc[w] \in ClosingAt)
    <3>1. Cardinality(Closing') = Cardinality(Closing) - One(wpc[w] \in ClosingAt)
                                    + One("check" \in ClosingAt)
      BY <2>1, ClosingMoves
    <3> QED
      BY <1>2, <3>1 DEF One, ClosingAt
  <2>3. /\ stats'.processed = stats.processed + 1
        /\ \/ faults' = faults /\ Counted' = Counted /\ wpc[w] \in ClosingAt
           \/ faults' = faults + 1 /\ Counted' = Counted + 1
    BY <1>8, EndStepCounts
  <2>4. Cardinality(done') = Cardinality(done) + 1
    BY <1>8, DoneGrows
  <2> QED
    BY <1>1, <1>2, <2>2, <2>3, <2>4 DEF One
<1>9. Operators => UNCHANGED <<stats, done, wpc, faults>>
  BY DEF Operators, Request, SetControlSignal, ResumeJob, ApiFrame, itemVars
<1>10. UNCHANGED vars => UNCHANGED <<stats, done, wpc, faults>>
  BY DEF vars, itemVars
<1>11. ASSUME NEW w \in Workers, Get(w) \/ ControlStep(w)
       PROVE  /\ stats'.processed = Cardinality(done')
              /\ Counted' - stats'.processed - Cardinality(Closing') \in 0..faults'
  BY <1>1, <1>2, <1>6, <1>11 DEF Counted
<1> QED
  BY <1>3, <1>4, <1>5, <1>7, <1>8, <1>9, <1>10, <1>11
  DEF Next, Returned, Worker, ProcessOne, InnerStep, EndStep, ControlStep

LEMMA StatsInit == Init => StatsParts
<1> SUFFICES ASSUME Init PROVE StatsParts
  OBVIOUS
<1>1. Closing = {} /\ done = {} /\ Counted = 0 /\ stats.processed = 0 /\ faults = 0
  BY DEF Init, Closing, ClosingAt, Counted
<1> QED
  BY <1>1, FS_EmptySet DEF StatsParts

\* The statistics all workers write add up: each processed login is counted
\* once, in one outcome, and an exception explains every outcome counted twice.
THEOREM StatisticsAddUp == Spec => []StatsAddUp
<1>1. IInv /\ StatsParts /\ [Next]_vars => StatsParts'
  BY StatsNext
<1> QED
  BY <1>1, StatsInit, InvariantHolds, StatsAddUpParts, PTL DEF Spec

-----------------------------------------------------------------------------
(* The item rows and checkpoints of a GitHub job that runs without an      *)
(* unexpected exception.                                                   *)

NoRow == [s \in ItemStatus |-> 0]
OneRow(s) == [NoRow EXCEPT ![s] = 1]
Outcome == {"success", "failed", "skipped"}

\* Where a worker has marked its login's checkpoint, or opened its item row,
\* and not yet set the outcome.
IngestingAt == {"fetch", "write", "markIngested", "markFailed", "markPending"}
RowOpenAt == IngestingAt \cup {"markIngesting", "itemCompleted", "itemFailed"}

Holds(w, l) == hand[w] # NoItem /\ login(w) = l

\* No task has died, so that run() does not fail.
NoTaskDied == main # "markFailed" /\ \A w \in Workers : wpc[w] # "dead"

\* What is marked as being ingested is marked by a worker that is at it.
RunningInHand ==
    \A l \in Logins : rows[l].running > 0 =>
        \E w \in Workers : Holds(w, l) /\ wpc[w] \in RowOpenAt
IngestingInHand ==
    \A l \in Logins : ckpt[l] = "ingesting" =>
        \E w \in Workers : Holds(w, l) /\ wpc[w] \in IngestingAt

\* The only row of a login in hand is the one its worker opened; a login that
\* was processed has one closed row, and no other has any.
RowFits ==
    \A w \in Workers : hand[w] # NoItem =>
        rows[login(w)] = IF wpc[w] \in RowOpenAt THEN OneRow("running") ELSE NoRow
RowOfDone == \A i \in done : \E s \in Outcome : rows[Input[i]] = OneRow(s)
RowOfTaken ==
    \A l \in Logins : rows[l] # NoRow => \E i \in Held \cup done : Input[i] = l

\* Each outcome was counted for its closed rows and for the rows that a worker
\* is about to close.
With(s) == {l \in Logins : rows[l][s] > 0}
CountFits(n, s, pc) ==
    IsFiniteSet(With(s)) /\ n = Cardinality(With(s)) + Cardinality(WorkersAt({pc}))
CountsFit ==
    /\ CountFits(stats.succeeded, "success", "itemCompleted")
    /\ CountFits(stats.failed, "failed", "itemFailed")
    /\ CountFits(stats.skipped, "skipped", "itemSkipped")

OneRowEach == RowFits /\ RowOfDone /\ RowOfTaken /\ CountsFit

RecordInv ==
    faults = 0 /\ platform = "github" =>
        /\ NoTaskDied
        /\ RunningInHand
        /\ "ingesting" \notin KnownBefore => IngestingInHand
        /\ DistinctInput => OneRowEach

-----------------------------------------------------------------------------
(* The steps that no row and no checkpoint depends on. *)

Apart ==
    /\ UNCHANGED <<hand, rows, ckpt, stats, done>>
    /\ \A w \in Workers :
          wpc'[w] = wpc[w] \/ {wpc[w], wpc'[w]} \cap InProcessOne = {}
    /\ NoTaskDied'

LEMMA FaultlessStep ==
    ASSUME TInv, [Next]_vars, faults' = 0
    PROVE  faults = 0 /\ platform' = platform
<1>1. faults \in Nat
  BY BoundsAssumption DEF TInv, BoundTypes
<1>2. ASSUME NEW w \in Workers, Get(w) \/ InnerStep(w) \/ EndStep(w) \/ ControlStep(w)
      PROVE  platform' = platform /\ (faults' = faults \/ faults' = faults + 1)
  BY <1>2, InnerStepControl, EndStepControl, EndStepCounts, ControlStepControl
  DEF Get, WorkerFrame, ControlEffect, TInv
<1>3. Main \/ Producer \/ Operators \/ UNCHANGED vars => UNCHANGED <<faults, platform>>
  BY DEF Main, MarkRunning, AwaitProducer, PutSentinel, Gather, MarkCancelled, MarkCompleted,
     MarkFailed, MainFrame, Producer, NextLogin, PutLogin, ProducerFrame, Operators, Request,
     SetControlSignal, ResumeJob, ApiFrame, vars
<1> QED
  BY <1>1, <1>2, <1>3
  DEF Next, Returned, Worker, ProcessOne, InnerStep, EndStep, ControlStep

LEMMA ApartSteps ==
    ASSUME TInv, NoTaskDied, Main \/ Producer \/ Operators \/ UNCHANGED vars
    PROVE  Apart
<1> USE DEF NoTaskDied, Apart
<1>1. CASE Main
  BY <1>1 DEF Main, MarkRunning, AwaitProducer, PutSentinel, Gather, AfterGather, MarkCancelled,
     MarkCompleted, MarkFailed, MainGo, MainFrame
<1>2. CASE Producer
  BY <1>2 DEF Producer, NextLogin, PutLogin, ProducerFrame, mainVars, itemVars, dbVars
<1>3. CASE Operators
  BY <1>3, OperatorsControl DEF TInv, Operators, Request, SetControlSignal, ResumeJob, ApiFrame,
     mainVars, itemVars
<1>4. CASE UNCHANGED vars
  BY <1>4 DEF vars, mainVars, itemVars, dbVars
<1> QED
  BY <1>1, <1>2, <1>3, <1>4

LEMMA ApartControl ==
    ASSUME TInv, NoTaskDied, NEW w \in Workers, ControlStep(w), faults' = faults
    PROVE  Apart
<1>1. ControlEffect(w)
  BY ControlStepControl DEF TInv
<1>2. faults \in Nat
  BY BoundsAssumption DEF TInv, BoundTypes
<1>3. wpc'[w] # "dead"
  BY <1>2 DEF ControlStep, CheckSignal, MarkPaused, Poll, MarkResumed, TaskDies, Go, TInv,
     WorkerTypes
<1> QED
  BY <1>1, <1>3 DEF ControlEffect, BetweenItems, Apart, NoTaskDied, InProcessOne, TInv, WorkerTypes

LEMMA ApartKeeps ==
    ASSUME TInv, RunningInHand, Apart
    PROVE  /\ RunningInHand'
           /\ IngestingInHand => IngestingInHand'
           /\ OneRowEach => OneRowEach'
<1>1. UNCHANGED <<hand, rows, ckpt, stats, done>> /\ Held' = Held
  BY DEF Apart, Held
<1>2. \A w \in Workers : wpc[w] \in InProcessOne \/ wpc'[w] \in InProcessOne => wpc'[w] = wpc[w]
  BY DEF Apart
<1>3. RowOpenAt \subseteq InProcessOne /\ IngestingAt \subseteq InProcessOne
  BY DEF RowOpenAt, IngestingAt, InProcessOne
<1>4. \A w \in Workers : hand[w] # NoItem => wpc[w] \in InProcessOne
  BY DEF TInv, HandMatchesPC
<1>5. RunningInHand' /\ (IngestingInHand => IngestingInHand')
  BY <1>1, <1>2, <1>3 DEF RunningInHand, IngestingInHand, Holds, login
<1>6. RowFits => RowFits'
  BY <1>1, <1>2, <1>4 DEF RowFits, login
<1>7. RowOfDone /\ RowOfTaken => RowOfDone' /\ RowOfTaken'
  BY <1>1 DEF RowOfDone, RowOfTaken
<1>8. ASSUME NEW pc \in ClosingAt PROVE WorkersAt({pc})' = WorkersAt({pc})
  BY <1>2 DEF WorkersAt, ClosingAt, InProcessOne
<1>9. CountsFit => CountsFit'
  BY <1>1, <1>8 DEF CountsFit, CountFits, With, ClosingAt
<1> QED
  BY <1>5, <1>6, <1>7, <1>9 DEF OneRowEach

-----------------------------------------------------------------------------
(* A worker takes a login. *)

LEMMA GetKeeps ==
    ASSUME IInv, NoTaskDied, RunningInHand, NEW w \in Workers, Get(w)
    PROVE  /\ NoTaskDied' /\ RunningInHand'
           /\ IngestingInHand => IngestingInHand'
           /\ DistinctInput /\ OneRowEach => OneRowEach'
<1> USE DEF IInv
<1> DEFINE h == Head(queue)
<1>1. /\ wpc[w] = "get" /\ hand[w] = NoItem
      /\ wpc' = [wpc EXCEPT ![w] = IF h = NoItem THEN "exited" ELSE "recent"]
      /\ hand' = [hand EXCEPT ![w] = h]
      /\ UNCHANGED <<main, rows, ckpt, stats, done>>
  BY GetMoves DEF Get, Go, WorkerFrame, mainVars, dbVars
<1>2. h \in Items \cup {NoItem} /\ Queued = Queued' \cup ({h} \ {NoItem})
  BY QueueTail DEF Get, TInv
<1>3. Held' = Held \cup ({h} \ {NoItem})
  BY <1>1, <1>2 DEF Held, TInv, WorkerTypes
<1> HIDE DEF h
<1>4. \A v \in Workers \ {w} : hand'[v] = hand[v] /\ wpc'[v] = wpc[v]
  BY <1>1 DEF TInv, WorkerTypes
<1>5. hand'[w] = h /\ wpc'[w] = IF h = NoItem THEN "exited" ELSE "recent"
  BY <1>1 DEF TInv, WorkerTypes
<1>6. NoTaskDied'
  BY <1>1, <1>4, <1>5 DEF NoTaskDied
<1>7. RunningInHand' /\ (IngestingInHand => IngestingInHand')
  BY <1>1, <1>4 DEF RunningInHand, IngestingInHand, Holds, login
<1>8. ASSUME DistinctInput, OneRowEach PROVE OneRowEach'
  <2>1. ASSUME h # NoItem PROVE rows[Input[h]] = NoRow
    <3>1. \A i \in Held \cup done : i \in Items /\ i # h
      BY <1>2, <2>1, PlaceParts DEF Disjoint, Held, TInv, WorkerTypes
    <3>2. \A i \in Held \cup done : Input[i] # Input[h]
      BY <1>2, <1>8, <2>1, <3>1 DEF DistinctInput
    <3>3. Input[h] \in Logins
      BY <1>2, <2>1, PositionsOfInput
    <3> QED
      BY <1>8, <3>2, <3>3 DEF OneRowEach, RowOfTaken
  <2>2. RowFits'
    <3> SUFFICES ASSUME NEW v \in Workers, hand'[v] # NoItem
                 PROVE  rows'[Input[hand'[v]]]
                          = IF wpc'[v] \in RowOpenAt THEN OneRow("running") ELSE NoRow
      BY DEF RowFits, login
    <3>1. CASE v = w
      BY <1>1, <1>5, <2>1, <3>1 DEF RowOpenAt, IngestingAt
    <3>2. CASE v # w
      BY <1>1, <1>4, <1>8, <3>2 DEF OneRowEach, RowFits, login
    <3> QED
      BY <3>1, <3>2
  <2>3. RowOfDone' /\ RowOfTaken'
    BY <1>1, <1>3, <1>8 DEF OneRowEach, RowOfDone, RowOfTaken
  <2>4. ASSUME NEW pc \in ClosingAt PROVE WorkersAt({pc})' = WorkersAt({pc})
    BY <1>1, <1>4, <1>5 DEF WorkersAt, ClosingAt
  <2>5. CountsFit'
    BY <1>1, <1>8, <2>4 DEF OneRowEach, CountsFit, CountFits, With, ClosingAt
  <2> QED
    BY <2>2, <2>3, <2>5 DEF OneRowEach
<1> QED
  BY <1>6, <1>7, <1>8

-----------------------------------------------------------------------------
(* A worker processes its login. *)

\* An inner step changes the rows only to open one, and the worker keeps a row
\* open until it is closed; the checkpoint says "ingesting" only on the way.
LEMMA InnerStepRecords ==
    ASSUME TInv, platform = "github", NEW w \in Workers, InnerStep(w)
    PROVE  /\ login(w) \in Logins
           /\ \A l \in Logins : l # login(w) => rows'[l] = rows[l] /\ ckpt'[l] = ckpt[l]
           /\ \/ rows' = rows /\ (wpc'[w] \in RowOpenAt <=> wpc[w] \in RowOpenAt)
              \/ /\ wpc[w] \notin RowOpenAt /\ wpc'[w] \in RowOpenAt
                 /\ rows'[login(w)] = [rows[login(w)] EXCEPT !.running = @ + 1]
           /\ ckpt'[login(w)] = "ingesting" =>
                 wpc'[w] \in IngestingAt \/ (ckpt' = ckpt /\ wpc[w] \notin IngestingAt)
<1> DEFINE l == login(w)
<1>1. l \in Logins
  BY InnerStepControl, PositionsOfInput DEF login, TInv, HandMatchesPC, WorkerTypes
<1>2. /\ w \in DOMAIN wpc
      /\ rows \in [Logins -> [ItemStatus -> Nat]] /\ ckpt \in [Logins -> CheckpointStatus]
  BY DEF TInv, WorkerTypes, DataTypes
<1> HIDE DEF l
<1> USE <1>1, <1>2 DEF Go, RowOpenAt, IngestingAt, Checkpoint
<1>3. CASE RecentlyIngested(w)
  BY <1>3 DEF RecentlyIngested, l
<1>4. CASE ItemStarted(w)
  <2>1. /\ wpc[w] = "itemStarted" /\ wpc'[w] = "markIngesting" /\ ckpt' = ckpt
        /\ rows' = [rows EXCEPT ![l] = [rows[l] EXCEPT !.running = @ + 1]]
    BY <1>4 DEF ItemStarted, l
  <2> QED
    BY <2>1 DEF l
<1>5. CASE MarkIngesting(w)
  BY <1>5 DEF MarkIngesting, l
<1>6. CASE Fetch(w)
  BY <1>6 DEF Fetch, TransientMark, l
<1>7. CASE Write(w)
  BY <1>7 DEF Write, l
<1>8. CASE MarkIngested(w)
  BY <1>8 DEF MarkIngested, l
<1>9. CASE MarkUnfinished(w)
  BY <1>9 DEF MarkUnfinished, l
<1> QED
  BY <1>3, <1>4, <1>5, <1>6, <1>7, <1>8, <1>9 DEF InnerStep, l

\* An end step closes the row, or inserts a skipped one.
OutcomeAt == [pc \in ClosingAt |->
    CASE pc = "itemCompleted" -> "success"
      [] pc = "itemFailed" -> "failed"
      [] pc = "itemSkipped" -> "skipped"]

LEMMA EndStepRecords ==
    ASSUME TInv, NEW w \in Workers, EndStep(w), faults' = faults
    PROVE  /\ login(w) \in Logins
           /\ wpc[w] \in ClosingAt
           /\ ckpt' = ckpt /\ stats' = [stats EXCEPT !.processed = @ + 1]
           /\ \A l \in Logins : l # login(w) => rows'[l] = rows[l]
           /\ wpc[w] \in RowOpenAt =>
                 /\ rows'[login(w)].running = 0
                 /\ rows[login(w)] = OneRow("running")
                        => rows'[login(w)] = OneRow(OutcomeAt[wpc[w]])
           /\ wpc[w] \notin RowOpenAt =>
                 /\ rows'[login(w)].running = rows[login(w)].running
                 /\ rows[login(w)] = NoRow => rows'[login(w)] = OneRow(OutcomeAt[wpc[w]])
<1> DEFINE l == login(w)
<1>1. l \in Logins
  BY EndStepControl, PositionsOfInput DEF login, TInv, HandMatchesPC, WorkerTypes
<1>2. /\ w \in DOMAIN wpc /\ faults \in Nat
      /\ rows \in [Logins -> [ItemStatus -> Nat]]
  BY BoundsAssumption DEF TInv, WorkerTypes, DataTypes, BoundTypes
<1>3. rows[l] \in [ItemStatus -> Nat]
  BY <1>1, <1>2
<1>4. ~Unhandled(w)
  BY <1>2 DEF Unhandled
<1> HIDE DEF l
<1>5. ASSUME NEW s \in {"success", "failed"}, CloseRows(w, s)
      PROVE  /\ \A m \in Logins : m # l => rows'[m] = rows[m]
             /\ rows'[l].running = 0
             /\ rows[l] = OneRow("running") => rows'[l] = OneRow(s)
  <2> DEFINE closed == [rows[l] EXCEPT !.running = 0, ![s] = rows[l][s] + rows[l].running]
  <2>1. rows' = [rows EXCEPT ![l] = closed]
    BY <1>5 DEF CloseRows, l
  <2>2. closed.running = 0
    BY <1>3 DEF ItemStatus
  <2>3. ASSUME rows[l] = OneRow("running") PROVE closed = OneRow(s)
    <3>1. /\ rows[l].running = 1
          /\ \A t \in ItemStatus \ {"running"} : rows[l][t] = 0
      BY <2>3 DEF OneRow, NoRow, ItemStatus
    <3>2. \A t \in ItemStatus : closed[t] = OneRow(s)[t]
      BY <1>3, <3>1 DEF OneRow, NoRow, ItemStatus
    <3> QED
      BY <1>3, <3>2 DEF OneRow, NoRow
  <2> HIDE DEF closed
  <2> QED
    BY <1>1, <1>2, <2>1, <2>2, <2>3
<1>6. CASE ItemCompleted(w)
  BY <1>1, <1>5, <1>6 DEF ItemCompleted, EndItem, Go, ClosingAt, RowOpenAt, OutcomeAt, l
<1>7. CASE ItemFailed(w)
  BY <1>1, <1>5, <1>7 DEF ItemFailed, EndItem, Go, ClosingAt, RowOpenAt, OutcomeAt, l
<1>8. CASE ItemSkipped(w)
  <2> DEFINE more == [rows[l] EXCEPT !.skipped = @ + 1]
  <2>1. rows' = [rows EXCEPT ![l] = more]
    BY <1>8 DEF ItemSkipped, l
  <2>2. more.running = rows[l].running
    BY <1>3 DEF ItemStatus
  <2>3. rows[l] = NoRow => more = OneRow("skipped")
    BY <1>3 DEF ItemStatus, OneRow, NoRow
  <2> HIDE DEF more
  <2>4. /\ \A m \in Logins : m # l => rows'[m] = rows[m]
        /\ rows'[l] = more
    BY <1>1, <1>2, <2>1
  <2> QED
    BY <1>1, <1>8, <2>2, <2>3, <2>4
    DEF ItemSkipped, EndItem, Go, ClosingAt, RowOpenAt, IngestingAt, OutcomeAt, l
<1> QED
  BY <1>4, <1>6, <1>7, <1>8 DEF EndStep

\* The worker's login is no other worker's and was not processed before.
LEMMA LoginInHand ==
    ASSUME TInv, EachItemInOnePlace, DistinctInput, NEW w \in Workers, hand[w] # NoItem
    PROVE  /\ \A v \in Workers : v # w /\ hand[v] # NoItem => login(v) # login(w)
           /\ \A i \in done : Input[i] # login(w)
<1>1. hand \in [Workers -> Items \cup {NoItem}] /\ done \subseteq Items
  BY DEF TInv, WorkerTypes
<1>2. hand[w] \in Items /\ hand[w] \in Held /\ hand[w] \notin done
  BY <1>1, PlaceParts DEF Disjoint, Held
<1>3. \A v \in Workers : v # w /\ hand[v] # NoItem => hand[v] # hand[w]
  BY PlaceParts DEF TakenOnce
<1> QED
  BY <1>1, <1>2, <1>3 DEF DistinctInput, login

LEMMA InnerKeepsMarks ==
    ASSUME IInv, platform = "github", NoTaskDied, RunningInHand,
           NEW w \in Workers, InnerStep(w)
    PROVE  NoTaskDied' /\ RunningInHand' /\ (IngestingInHand => IngestingInHand')
<1> USE DEF IInv
<1>1. /\ hand' = hand /\ main' = main /\ hand[w] # NoItem
      /\ \A v \in Workers : v # w => wpc'[v] = wpc[v]
      /\ wpc'[w] \in InProcessOne
  BY InnerStepControl DEF TInv, WorkerTypes, HandMatchesPC
<1>2. \A v \in Workers, l \in Logins : Holds(v, l)' <=> Holds(v, l)
  BY <1>1 DEF Holds, login
<1>3. Holds(w, login(w))
  BY <1>1 DEF Holds
<1>4. NoTaskDied'
  BY <1>1 DEF NoTaskDied, InProcessOne
<1>5. RunningInHand'
  <2> SUFFICES ASSUME NEW l \in Logins, rows'[l].running > 0
               PROVE  \E v \in Workers : Holds(v, l)' /\ wpc'[v] \in RowOpenAt
    BY DEF RunningInHand
  <2>1. CASE l = login(w) /\ wpc'[w] \in RowOpenAt
    BY <1>2, <1>3, <2>1
  <2>2. CASE ~(l = login(w) /\ wpc'[w] \in RowOpenAt)
    <3>1. rows'[l] = rows[l] /\ (l = login(w) => wpc[w] \notin RowOpenAt)
      BY <2>2, InnerStepRecords
    <3>2. PICK v \in Workers : Holds(v, l) /\ wpc[v] \in RowOpenAt
      BY <3>1 DEF RunningInHand
    <3>3. v # w
      BY <3>1, <3>2 DEF Holds
    <3> QED
      BY <1>1, <1>2, <3>2, <3>3
  <2> QED
    BY <2>1, <2>2
<1>6. ASSUME IngestingInHand PROVE IngestingInHand'
  <2> SUFFICES ASSUME NEW l \in Logins, ckpt'[l] = "ingesting"
               PROVE  \E v \in Workers : Holds(v, l)' /\ wpc'[v] \in IngestingAt
    BY DEF IngestingInHand
  <2>1. CASE l = login(w) /\ wpc'[w] \in IngestingAt
    BY <1>2, <1>3, <2>1
  <2>2. CASE ~(l = login(w) /\ wpc'[w] \in IngestingAt)
    <3>1. ckpt'[l] = ckpt[l] /\ (l = login(w) => wpc[w] \notin IngestingAt)
      BY <2>2, InnerStepRecords
    <3>2. PICK v \in Workers : Holds(v, l) /\ wpc[v] \in IngestingAt
      BY <1>6, <3>1 DEF IngestingInHand
    <3>3. v # w
      BY <3>1, <3>2 DEF Holds
    <3> QED
      BY <1>1, <1>2, <3>2, <3>3
  <2> QED
    BY <2>1, <2>2
<1> QED
  BY <1>4, <1>5, <1>6

LEMMA EndKeepsMarks ==
    ASSUME IInv, NoTaskDied, RunningInHand, NEW w \in Workers, EndStep(w), faults' = faults
    PROVE  NoTaskDied' /\ RunningInHand' /\ (IngestingInHand => IngestingInHand')
<1> USE DEF IInv
<1>1. /\ main' = main /\ wpc'[w] = "check"
      /\ \A v \in Workers : v # w => wpc'[v] = wpc[v] /\ hand'[v] = hand[v]
  BY EndStepControl DEF TInv, WorkerTypes
<1>2. \A v \in Workers, l \in Logins : v # w /\ Holds(v, l) => Holds(v, l)'
  BY <1>1 DEF Holds, login
<1>3. NoTaskDied'
  BY <1>1 DEF NoTaskDied
<1>4. RunningInHand'
  <2> SUFFICES ASSUME NEW l \in Logins, rows'[l].running > 0
               PROVE  \E v \in Workers : Holds(v, l)' /\ wpc'[v] \in RowOpenAt
    BY DEF RunningInHand
  <2>1. rows'[l].running = rows[l].running /\ (l = login(w) => wpc[w] \notin RowOpenAt)
    BY EndStepRecords
  <2>2. PICK v \in Workers : Holds(v, l) /\ wpc[v] \in RowOpenAt
    BY <2>1 DEF RunningInHand
  <2>3. v # w
    BY <2>1, <2>2 DEF Holds
  <2> QED
    BY <1>1, <1>2, <2>2, <2>3
<1>5. ASSUME IngestingInHand PROVE IngestingInHand'
  <2>1. ckpt' = ckpt /\ wpc[w] \notin IngestingAt
    BY EndStepRecords DEF ClosingAt, IngestingAt
  <2> QED
    BY <1>1, <1>2, <1>5, <2>1 DEF IngestingInHand
<1> QED
  BY <1>3, <1>4, <1>5

LEMMA InnerKeepsRows ==
    ASSUME IInv, platform = "github", DistinctInput, OneRowEach, NEW w \in Workers, InnerStep(w)
    PROVE  OneRowEach'
<1> USE DEF IInv
<1>1. /\ hand' = hand /\ done' = done /\ hand[w] # NoItem /\ Held' = Held
      /\ \A v \in Workers : v # w => wpc'[v] = wpc[v]
      /\ hand[w] \in Held /\ Input[hand[w]] = login(w)
  BY InnerStepControl DEF TInv, WorkerTypes, HandMatchesPC, Held, login
<1>2. /\ RowFits /\ RowOfDone /\ RowOfTaken /\ CountsFit
      /\ login(w) \in Logins
      /\ \A l \in Logins : l # login(w) => rows'[l] = rows[l]
  BY InnerStepRecords DEF OneRowEach
<1>3. \/ rows' = rows /\ (wpc'[w] \in RowOpenAt <=> wpc[w] \in RowOpenAt)
      \/ /\ wpc[w] \notin RowOpenAt /\ wpc'[w] \in RowOpenAt
         /\ rows[login(w)] = NoRow /\ rows'[login(w)] = OneRow("running")
  <2>1. wpc[w] \notin RowOpenAt => rows[login(w)] = NoRow
    BY <1>1, <1>2 DEF RowFits
  <2>2. [NoRow EXCEPT !.running = @ + 1] = OneRow("running")
    BY DEF NoRow, OneRow, ItemStatus
  <2> QED
    BY <2>1, <2>2, InnerStepRecords
<1>4. \A v \in Workers : hand[v] # NoItem => login(v) \in Logins
  BY PositionsOfInput DEF login, TInv, WorkerTypes
<1>5. RowFits'
  <2> SUFFICES ASSUME NEW v \in Workers, hand[v] # NoItem
               PROVE  rows'[login(v)]
                        = IF wpc'[v] \in RowOpenAt THEN OneRow("running") ELSE NoRow
    BY <1>1 DEF RowFits, login
  <2>1. CASE v = w
    BY <1>1, <1>2, <1>3, <2>1 DEF RowFits
  <2>2. CASE v # w
    <3>1. login(v) # login(w)
      BY <1>1, <2>2, LoginInHand
    <3> QED
      BY <1>1, <1>2, <1>4, <2>2, <3>1 DEF RowFits
  <2> QED
    BY <2>1, <2>2
<1>6. RowOfDone'
  <2>1. \A i \in done : Input[i] # login(w) /\ Input[i] \in Logins
    BY <1>1, LoginInHand, PositionsOfInput DEF TInv, WorkerTypes
  <2> QED
    BY <1>1, <1>2, <2>1 DEF RowOfDone
<1>7. RowOfTaken'
  BY <1>1, <1>2 DEF RowOfTaken
<1>8. ASSUME NEW s \in Outcome PROVE With(s)' = With(s)
  <2>1. NoRow[s] = 0 /\ OneRow("running")[s] = 0
    BY DEF NoRow, OneRow, ItemStatus, Outcome
  <2>2. \A l \in Logins : rows'[l][s] = rows[l][s]
    BY <1>2, <1>3, <2>1
  <2> QED
    BY <2>2 DEF With
<1>9. CountsFit'
  <2>1. /\ wpc[w] \notin ClosingAt
        /\ wpc' = [wpc EXCEPT ![w] = wpc'[w]]
        /\ stats'.succeeded = stats.succeeded + One(wpc'[w] = "itemCompleted")
        /\ stats'.failed = stats.failed + One(wpc'[w] = "itemFailed")
        /\ stats'.skipped = stats.skipped + One(wpc'[w] = "itemSkipped")
    BY InnerStepStats
  <2>2. ASSUME NEW s \in Outcome, NEW pc \in ClosingAt, NEW n, CountFits(n, s, pc)
        PROVE  /\ IsFiniteSet(With(s)')
               /\ n + One(wpc'[w] = pc) = Cardinality(With(s)') + Cardinality(WorkersAt({pc})')
    <3>1. /\ IsFiniteSet(With(s)) /\ Cardinality(With(s)) \in Nat
          /\ n = Cardinality(With(s)) + Cardinality(WorkersAt({pc}))
          /\ Cardinality(WorkersAt({pc})) \in Nat
      BY <2>2, FS_CardinalityType, WorkersAtFinite DEF CountFits
    <3>2. Cardinality(WorkersAt({pc})') = Cardinality(WorkersAt({pc}))
               - One(wpc[w] = pc) + One(wpc'[w] = pc)
      <4>1. PICK to : wpc' = [wpc EXCEPT ![w] = to] /\ to = wpc'[w]
        BY <2>1
      <4>2. Cardinality(WorkersAt({pc})') = Cardinality(WorkersAt({pc}))
                 - One(wpc[w] \in {pc}) + One(to \in {pc})
        BY <4>1, WorkerMoves DEF TInv
      <4> QED
        BY <4>1, <4>2 DEF One
    <3> QED
      BY <1>8, <2>1, <3>1, <3>2 DEF One
  <2> QED
    BY <1>2, <2>1, <2>2 DEF CountsFit, CountFits, Outcome, ClosingAt
<1> QED
  BY <1>5, <1>6, <1>7, <1>9 DEF OneRowEach

LEMMA EndKeepsRows ==
    ASSUME IInv, DistinctInput, OneRowEach, NEW w \in Workers, EndStep(w), faults' = faults
    PROVE  OneRowEach'
<1> USE DEF IInv
<1> DEFINE l == login(w)
           o == OutcomeAt[wpc[w]]
<1>1. /\ hand[w] # NoItem /\ hand[w] \in Held /\ Input[hand[w]] = l
      /\ hand' = [hand EXCEPT ![w] = NoItem] /\ done' = done \cup {hand[w]}
      /\ wpc' = [wpc EXCEPT ![w] = "check"]
      /\ hand'[w] = NoItem /\ wpc'[w] = "check"
      /\ \A v \in Workers : v # w => wpc'[v] = wpc[v] /\ hand'[v] = hand[v]
  BY EndStepControl DEF TInv, WorkerTypes, HandMatchesPC, Held, login
<1>2. Held \cup done \subseteq Held' \cup done'
  BY <1>1 DEF Held
<1>3. /\ RowFits /\ RowOfDone /\ RowOfTaken /\ CountsFit
      /\ l \in Logins /\ wpc[w] \in ClosingAt /\ o \in Outcome
      /\ \A m \in Logins : m # l => rows'[m] = rows[m]
      /\ stats' = [stats EXCEPT !.processed = @ + 1]
  BY EndStepRecords DEF OneRowEach, OutcomeAt, Outcome, ClosingAt
<1>4. rows'[l] = OneRow(o) /\ rows[l] \in {NoRow, OneRow("running")}
  BY <1>1, <1>3, EndStepRecords DEF RowFits
<1> HIDE DEF l, o
<1>5. RowFits'
  <2> SUFFICES ASSUME NEW v \in Workers, v # w, hand[v] # NoItem
               PROVE  rows'[login(v)]
                        = IF wpc[v] \in RowOpenAt THEN OneRow("running") ELSE NoRow
    BY <1>1 DEF RowFits, login
  <2>1. login(v) # l /\ login(v) \in Logins
    BY <1>1, LoginInHand, PositionsOfInput DEF login, TInv, WorkerTypes, l
  <2> QED
    BY <1>3, <2>1 DEF RowFits
<1>6. RowOfDone'
  <2>1. \A i \in done : Input[i] # l /\ Input[i] \in Logins
    BY <1>1, LoginInHand, PositionsOfInput DEF TInv, WorkerTypes, l
  <2> QED
    BY <1>1, <1>3, <1>4, <2>1 DEF RowOfDone
<1>7. RowOfTaken'
  BY <1>1, <1>2, <1>3 DEF RowOfTaken
<1>8. ASSUME NEW s \in Outcome, IsFiniteSet(With(s))
      PROVE  /\ IsFiniteSet(With(s)')
             /\ Cardinality(With(s)') = Cardinality(With(s)) + One(s = o)
  <2>1. /\ NoRow[s] = 0 /\ OneRow("running")[s] = 0
        /\ OneRow(o)[s] = One(s = o)
    BY <1>3 DEF NoRow, OneRow, ItemStatus, Outcome, One
  <2>2. With(s)' = IF s = o THEN With(s) \cup {l} ELSE With(s)
    BY <1>3, <1>4, <2>1 DEF With, One
  <2>3. l \notin With(s)
    BY <1>4, <2>1 DEF With
  <2> QED
    BY <1>8, <2>2, <2>3, FS_AddElement, FS_CardinalityType DEF One
<1>9. CountsFit'
  <2>1. ASSUME NEW s \in Outcome, NEW pc \in ClosingAt, NEW n, CountFits(n, s, pc),
               s = OutcomeAt[pc]
        PROVE  CountFits(n, s, pc)'
    <3>1. /\ IsFiniteSet(With(s)) /\ Cardinality(With(s)) \in Nat
          /\ n = Cardinality(With(s)) + Cardinality(WorkersAt({pc}))
          /\ Cardinality(WorkersAt({pc})) \in Nat
      BY <2>1, FS_CardinalityType, WorkersAtFinite DEF CountFits
    <3>2. Cardinality(WorkersAt({pc})') = Cardinality(WorkersAt({pc}))
               - One(wpc[w] \in {pc}) + One("check" \in {pc})
      BY <1>1, WorkerMoves DEF TInv
    <3>3. "check" # pc /\ (wpc[w] = pc <=> s = o)
      BY <1>1, <1>3, <2>1 DEF OutcomeAt, ClosingAt, o
    <3> QED
      BY <1>8, <3>1, <3>2, <3>3 DEF CountFits, One
  <2> QED
    BY <1>3, <2>1 DEF CountsFit, CountFits, Outcome, ClosingAt, OutcomeAt, TInv, DataTypes
<1> QED
  BY <1>5, <1>6, <1>7, <1>9 DEF OneRowEach

-----------------------------------------------------------------------------
(* The invariant and what follows from it. *)

LEMMA RecordInit == Init => RecordInv
<1> SUFFICES ASSUME Init PROVE RecordInv
  OBVIOUS
<1>1. NoTaskDied
  BY DEF Init, NoTaskDied
<1>2. RunningInHand
  BY DEF Init, RunningInHand, ItemStatus
<1>3. "ingesting" \notin KnownBefore => IngestingInHand
  BY DEF Init, IngestingInHand
<1>4. RowFits /\ RowOfDone /\ RowOfTaken
  BY DEF Init, RowFits, RowOfDone, RowOfTaken, NoRow
<1>5. \A s \in Outcome : With(s) = {}
  BY DEF Init, With, Outcome, ItemStatus
<1>6. \A pc \in ClosingAt : WorkersAt({pc}) = {}
  BY DEF Init, WorkersAt, ClosingAt
<1>7. CountsFit
  <2>1. \A s \in Outcome, pc \in ClosingAt : CountFits(0, s, pc)
    BY <1>5, <1>6, FS_EmptySet DEF CountFits
  <2> QED
    BY <2>1 DEF Init, CountsFit, Outcome, ClosingAt
<1> QED
  BY <1>1, <1>2, <1>3, <1>4, <1>7 DEF RecordInv, OneRowEach

LEMMA RecordNext == IInv /\ RecordInv /\ [Next]_vars => RecordInv'
<1> SUFFICES ASSUME IInv, RecordInv, [Next]_vars, faults' = 0, platform' = "github"
             PROVE  /\ NoTaskDied'
                    /\ RunningInHand'
                    /\ "ingesting" \notin KnownBefore => IngestingInHand'
                    /\ DistinctInput => OneRowEach'
  BY DEF RecordInv, DistinctInput
<1>1. TInv /\ faults = 0 /\ platform = "github"
  BY FaultlessStep DEF IInv
<1>2. /\ NoTaskDied /\ RunningInHand
      /\ "ingesting" \notin KnownBefore => IngestingInHand
      /\ DistinctInput => OneRowEach
  BY <1>1 DEF RecordInv
<1>3. CASE Apart
  BY <1>1, <1>2, <1>3, ApartKeeps DEF Apart
<1>4. Main \/ Producer \/ Operators \/ UNCHANGED vars => Apart
  BY <1>1, <1>2, ApartSteps
<1>5. ASSUME NEW w \in Workers, ControlStep(w) PROVE Apart
  BY <1>1, <1>2, <1>5, ApartControl
<1>6. ASSUME NEW w \in Workers, Get(w) \/ InnerStep(w) \/ EndStep(w)
      PROVE  /\ NoTaskDied' /\ RunningInHand'
             /\ "ingesting" \notin KnownBefore => IngestingInHand'
             /\ DistinctInput => OneRowEach'
  <2>1. CASE Get(w)
    BY <1>2, <2>1, GetKeeps
  <2>2. CASE InnerStep(w)
    BY <1>1, <1>2, <2>2, InnerKeepsMarks, InnerKeepsRows
  <2>3. CASE EndStep(w)
    BY <1>1, <1>2, <2>3, EndKeepsMarks, EndKeepsRows
  <2> QED
    BY <1>6, <2>1, <2>2, <2>3
<1> QED
  BY <1>3, <1>4, <1>5, <1>6
  DEF Next, Returned, Worker, ProcessOne, InnerStep, EndStep, ControlStep

LEMMA RecordHolds == Spec => []RecordInv
  BY RecordInit, RecordNext, InvariantHolds, PTL DEF Spec

\* A GitHub login is marked as being ingested, in its item row or its
\* checkpoint, only while a worker ingests it.  No earlier job may have left
\* such a mark: a crash does, and nothing clears it until the login comes again.
THEOREM MarkedMeansInHand == "ingesting" \notin KnownBefore => (Spec => []NothingLeftHalfDone)
<1> SUFFICES ASSUME "ingesting" \notin KnownBefore PROVE Spec => []NothingLeftHalfDone
  OBVIOUS
<1>1. RecordInv => NothingLeftHalfDone
  BY DEF RecordInv, NothingLeftHalfDone, RunningInHand, IngestingInHand, Holds
<1> QED
  BY <1>1, RecordHolds, PTL

\* A GitHub job that is given each login once and meets no unexpected exception
\* leaves one closed row for each, and ends with counts that are its rows'.
THEOREM RowsMatchCounts == Spec => []ItemRowsMatch
<1>1. ASSUME IInv, RecordInv, DistinctInput, faults = 0, platform = "github"
      PROVE  OneRowPerUser /\ CountsMatchRows
  <2>1. OneRowEach /\ NoTaskDied
    BY <1>1 DEF RecordInv
  <2>2. ASSUME NEW i \in done PROVE RowsOf(Input[i]) = 1 /\ rows[Input[i]].running = 0
    <3>1. PICK s \in Outcome : rows[Input[i]] = OneRow(s)
      BY <2>1 DEF OneRowEach, RowOfDone
    <3> QED
      BY <3>1 DEF RowsOf, OneRow, NoRow, Outcome, ItemStatus
  <2>3. ASSUME main = "returned", NEW s \in Outcome, NEW pc \in ClosingAt, NEW n,
               CountFits(n, s, pc)
        PROVE  n = Cardinality({l \in Logins : rows[l][s] > 0})
    <3>1. WorkersAt({pc}) = {}
      BY <1>1, <2>3 DEF IInv, StatusFollowsMain, WorkersAt, ClosingAt
    <3>2. Cardinality(WorkersAt({pc})) = 0 /\ Cardinality(With(s)) \in Nat
      BY <2>3, <3>1, FS_EmptySet, FS_CardinalityType DEF CountFits
    <3> QED
      BY <2>3, <3>2 DEF CountFits, With
  <2>4. CountsMatchRows
    BY <2>1, <2>3 DEF OneRowEach, CountsFit, CountsMatchRows, Outcome, ClosingAt
  <2> QED
    BY <2>2, <2>4 DEF OneRowPerUser
<1>2. IInv /\ RecordInv => ItemRowsMatch
  BY <1>1 DEF ItemRowsMatch
<1> QED
  BY <1>2, InvariantHolds, RecordHolds, PTL
=============================================================================
