---------------------------- MODULE IngestCommands ----------------------------
(***************************************************************************)
(* The commands that start ingestion work: the background tasks of the     *)
(* API, the command line, and the steps of the pipelines.  Each keeps a    *)
(* row in ingest_job, does its work and closes the row; they differ in     *)
(* what they do with an exception.                                         *)
(*                                                                         *)
(* A command is a process; a stage of it that reads or writes the database *)
(* is an action.  The work itself is one step here, with any outcome its   *)
(* own module (IngestJob, LinkedInIngest, IdentityBridge, SearchIndex) can *)
(* give.  A person has the same name on every platform.                    *)
(***************************************************************************)
EXTENDS Integers, Sequences, FiniteSets

CONSTANTS
    People,
    Linked,                           \* those whose Hugging Face row names their GitHub login
    Listed,                           \* those whose GitHub account shows a LinkedIn address
    Given,                            \* the sets of logins a request or a command line may name
    Pipelines,                        \* the pipeline types that are started
    MaxAttempts,                      \* --max-attempts
    MaxCommands, MaxRuns, MaxFaults   \* bounds

CommandsAssumption ==
    /\ Linked \cup Listed \subseteq People /\ Given \subseteq SUBSET People
    /\ {MaxAttempts, MaxCommands, MaxRuns, MaxFaults} \subseteq Nat

VARIABLES
    table,    \* the checkpoints of each platform, LinkedIn's pending addresses among them,
              \* and whether the organisation was fetched
    job,      \* the rows of ingest_job
    command,  \* the command in each process: a request's or a command line's, and the pipeline's step
    run,      \* the pipeline and what its runner remembers
    count     \* what the bounds count

commandVars == <<table, job, command, run, count>>

Platforms == {"gh", "hf", "ln"}
Idle == [kind |-> "none", todo |-> <<>>, who |-> {}, org |-> FALSE, job |-> 0,
         whoHf |-> {}, other |-> 0]
NoRun == [steps |-> <<>>, at |-> 1, status |-> "none", text |-> FALSE, named |-> {}, known |-> {}, onHf |-> {}]

Init ==
    /\ table = [checkpoint |-> [pf \in Platforms |-> [p \in People |-> [status |-> "absent", tries |-> 0]]],
                org |-> FALSE]
    /\ job = <<>>
    /\ command = [a \in {"caller", "runner"} |-> Idle]
    /\ run = NoRun
    /\ count = [commands |-> 0, runs |-> 0, faults |-> 0]

Jobs(a) == {command[a].job, command[a].other} \ {0}
Having(pf, status) == {p \in People : table.checkpoint[pf][p].status = status}
Ready(a) == command[a] = Idle
At(a, stage) == command[a].todo # <<>> /\ Head(command[a].todo) = stage

----------------------------------------------------------------------------
(* What the work of a command leaves.                                      *)

Mark(pf, who, status) ==
    [table EXCEPT !.checkpoint[pf] = [p \in People |-> IF p \in who THEN [@[p] EXCEPT !.status = status] ELSE @[p]]]

\* Mutant: whoever has a row is left alone.
IngestedOnce(pf, who) ==
    LET todo == who \cap Having(pf, "absent")
    IN {[table EXCEPT !.checkpoint[pf] = [p \in People |-> IF p \in todo THEN [status |-> end, tries |-> 1] ELSE @[p]]]
          : end \in {"ingested", "failed"}}

\* An attempt counts twice on GitHub; a transient failure is 'pending' on Hugging
\* Face; those who were ingested lately are left alone.
Ingested(pf, who) ==
    LET todo == who \ Having(pf, "ingested")
        ends == {"ingested", "failed"} \cup IF pf = "hf" THEN {"pending"} ELSE {}
        Row(row, end) == [status |-> end, tries |-> row.tries + IF pf = "gh" THEN 2 ELSE 1]
    IN {[table EXCEPT !.checkpoint[pf] = [p \in People |-> IF p \in todo THEN Row(@[p], end[p]) ELSE @[p]]]
          : end \in [todo -> ends]}

\* Skips any login that already exists.
BulkMarkDiscovered(who) == Mark("gh", who \cap Having("gh", "absent"), "discovered")

UpsertPendingUrls(who) == Mark("ln", who \cap Having("ln", "absent"), "pending")

----------------------------------------------------------------------------
(* The stages of a command.                                                *)

Tracked == <<"create", "run", "work", "complete">>

Become(a, kind, who, todo) ==
    command' = [command EXCEPT ![a] = [Idle EXCEPT !.kind = kind, !.who = who, !.todo = todo]]

NextStep(status) == [run EXCEPT !.at = @ + 1, !.status = IF run.at = Len(run.steps) THEN status ELSE @]

\* The stage is done; after the last one the process is free and a pipeline
\* goes on.
Goes(a) ==
    IF Len(command[a].todo) > 1
    THEN command' = [command EXCEPT ![a].todo = Tail(@)] /\ UNCHANGED run
    ELSE /\ command' = [command EXCEPT ![a] = Idle]
         /\ run' = IF a = "runner" THEN NextStep("completed") ELSE run

CreateJob(a) ==
    /\ At(a, "create")
    /\ job' = Append(job, [status |-> "pending", worked |-> FALSE, lost |-> "no"])
    /\ command' = [command EXCEPT ![a].job = Len(job) + 1, ![a].other = command[a].job, ![a].todo = Tail(@)]
    /\ UNCHANGED <<table, run, count>>

SetJob(a, status) == job' = [job EXCEPT ![command[a].job].status = status]

MarkRunning(a) ==
    /\ At(a, "run")
    /\ SetJob(a, "running") /\ Goes(a)
    /\ UNCHANGED <<table, count>>

MarkCompleted(a) ==
    /\ At(a, "complete")
    /\ SetJob(a, "completed") /\ Goes(a)
    /\ UNCHANGED <<table, count>>

\* The retry of both platforms has a job for each, GitHub's first.  A platform
\* without a row to retry has its job completed at once.
ReadRows(a) ==
    /\ At(a, "rows")
    /\ \E status \in {"failed", "pending"} :
         LET Due(pf) == {p \in Having(pf, status) : table.checkpoint[pf][p].tries < MaxAttempts}
             Stages(who) == IF who = {} THEN <<"complete">> ELSE <<"run", "work", "complete">>
         IN /\ command' = [command EXCEPT ![a] = [command[a] EXCEPT
                 !.who = Due("gh"), !.whoHf = Due("hf"),
                 !.job = command[a].other, !.other = command[a].job,
                 !.todo = Stages(Due("gh")) \o <<"turn">> \o Stages(Due("hf"))]]
            /\ job' = [j \in DOMAIN job |->
                 IF \/ j = command[a].other /\ Due("gh") = {}
                    \/ j = command[a].job /\ Due("hf") = {}
                 THEN [job[j] EXCEPT !.worked = TRUE] ELSE job[j]]
    /\ UNCHANGED <<table, run, count>>

TurnToHf(a) ==
    /\ At(a, "turn")
    /\ command' = [command EXCEPT ![a] = [command[a] EXCEPT
         !.kind = "hf_ingest", !.who = command[a].whoHf, !.todo = Tail(@),
         !.job = command[a].other, !.other = command[a].job]]
    /\ UNCHANGED <<table, job, run, count>>

Worked(a) == job' = IF command[a].job = 0 THEN job ELSE [job EXCEPT ![command[a].job].worked = TRUE]

\* The kind of a command is what its work does to the tables: a retry is an
\* ingestion of those it lists; the profiles, the index and the lists that a
\* search returns are elsewhere.
Ingest(a) ==
    \/ command[a].kind = "gh_ingest" /\ table' \in Ingested("gh", command[a].who)
    \/ command[a].kind = "hf_ingest" /\ table' \in Ingested("hf", command[a].who)
    \/ command[a].kind = "ln_ingest" /\ table' \in Ingested("ln", Having("ln", "pending"))
    \/ command[a].kind = "ln_given" /\ table' \in Ingested("ln", command[a].who)
    \/ command[a].kind = "ln_discover" /\ table' = UpsertPendingUrls(Listed \cap Having("gh", "ingested"))
    \/ command[a].kind = "elsewhere" /\ UNCHANGED table
    \* discover_top_users with a storage; an organisation is fetched whatever was found
    \/ /\ command[a].kind = "gh_discover"
       /\ \E found \in SUBSET People :
            table' = [BulkMarkDiscovered(found) EXCEPT !.org = @ \/ command[a].org]

Work(a) ==
    /\ At(a, "work")
    /\ Ingest(a) /\ Worked(a) /\ Goes(a)
    /\ UNCHANGED count

\* The steps of ingest_profile before its bridge, without those of platforms that
\* the request has no address for: no tracker, so no job row moves.
IngestPerson(a) ==
    /\ \E pf \in Platforms : At(a, pf) /\ table' \in {table} \cup Ingested(pf, command[a].who)
    /\ Goes(a)
    /\ UNCHANGED <<job, count>>

\* Mutant: no handler marks the job.
RaiseUnmarked(a) ==
    /\ ~Ready(a) /\ ~At(a, "handle") /\ count.faults < MaxFaults
    /\ count' = [count EXCEPT !.faults = @ + 1]
    /\ command' = [command EXCEPT ![a] = Idle]
    /\ run' = IF a = "runner" THEN [run EXCEPT !.status = "failed"] ELSE run
    /\ UNCHANGED <<table, job>>

\* Every handler calls mark_failed but the pipeline's, which fails the step and
\* leaves the job; before the row exists there is nothing to mark, and an
\* exception before the task is scheduled is only answered.
Raise(a) ==
    /\ ~Ready(a) /\ ~At(a, "handle") /\ ~At(a, "handle_other") /\ count.faults < MaxFaults
    /\ count' = [count EXCEPT !.faults = @ + 1]
    /\ IF a # "runner" /\ command[a].job # 0 /\ ~At(a, "check") /\ ~At(a, "create")
       THEN /\ command' = [command EXCEPT ![a].todo =
                 IF command[a].other = 0 THEN <<"handle">> ELSE <<"handle", "handle_other">>]
            /\ UNCHANGED <<job, run>>
       ELSE /\ command' = [command EXCEPT ![a] = Idle]
            /\ job' = IF command[a].job = 0 THEN job
                      ELSE [job EXCEPT ![command[a].job].lost = IF a = "runner" THEN "step failed" ELSE "not scheduled"]
            /\ run' = IF a = "runner" THEN [run EXCEPT !.status = "failed"] ELSE run
    /\ UNCHANGED table

\* The retry of both platforms fails both jobs, one that has completed too.
MarkFailed(a) ==
    /\ \/ At(a, "handle") /\ SetJob(a, "failed")
       \/ At(a, "handle_other") /\ job' = [job EXCEPT ![command[a].other].status = "failed"]
    /\ Goes(a)
    /\ UNCHANGED <<table, count>>

\* The API swallows what its handler raises, the command line lets it out.
HandlerFails(a) ==
    /\ At(a, "handle") \/ At(a, "handle_other")
    /\ job' = [j \in DOMAIN job |->
         IF j \in Jobs(a) /\ job[j].status \in {"pending", "running"}
         THEN [job[j] EXCEPT !.lost = "handler failed"] ELSE job[j]]
    /\ command' = [command EXCEPT ![a] = Idle]
    /\ UNCHANGED <<table, run, count>>

Dies(a) ==
    /\ ~Ready(a) /\ count.faults < MaxFaults
    /\ command' = [command EXCEPT ![a] = Idle]
    /\ job' = [j \in DOMAIN job |-> IF j \in Jobs(a) THEN [job[j] EXCEPT !.lost = "died"] ELSE job[j]]
    /\ run' = IF a = "runner" THEN [run EXCEPT !.status = "died"] ELSE run
    /\ count' = [count EXCEPT !.faults = @ + 1]
    /\ UNCHANGED table

----------------------------------------------------------------------------
(* The requests and the command line.                                      *)

Call(kind, who, todo) ==
    /\ Ready("caller") /\ count.commands < MaxCommands
    /\ Become("caller", kind, who, todo)
    /\ count' = [count EXCEPT !.commands = @ + 1]
    /\ UNCHANGED <<table, job, run>>

gh_discover == \E org \in BOOLEAN :
    /\ Ready("caller") /\ count.commands < MaxCommands
    /\ command' = [command EXCEPT !["caller"] =
         [Idle EXCEPT !.kind = "gh_discover", !.org = org,
                      !.todo = IF org THEN <<"create", "check", "run", "work", "complete">> ELSE Tracked]]
    /\ count' = [count EXCEPT !.commands = @ + 1]
    /\ UNCHANGED <<table, job, run>>

\* The organisation was fetched lately: "skipped", with the job there already.
CheckOrg(a) ==
    /\ At(a, "check")
    /\ IF table.org
       THEN /\ command' = [command EXCEPT ![a] = Idle]
            /\ job' = [job EXCEPT ![command[a].job].lost = "not scheduled"]
       ELSE command' = [command EXCEPT ![a].todo = Tail(@)] /\ UNCHANGED job
    /\ UNCHANGED <<table, run, count>>

gh_run == \E who \in Given : Call("gh_ingest", who, Tracked)
hf_discover == Call("elsewhere", {}, Tracked)
hf_run == \E who \in Given : Call("hf_ingest", who, Tracked)
ln_discover == Call("ln_discover", {}, Tracked)
ln_run == Call("ln_ingest", {}, Tracked)
ingest_profile ==
    \E p \in People : Call("elsewhere", {p}, <<"create", "gh", "hf", "ln", "run", "work", "complete">>)
trigger_sync == Call("elsewhere", {}, Tracked)
trigger_embed == Call("elsewhere", {}, Tracked)
identity_resolve_trigger == Call("elsewhere", {}, Tracked)

retry_failed == Call("gh_ingest", {}, <<"create", "create", "rows">>)

Api == \/ gh_discover \/ gh_run \/ hf_discover \/ hf_run \/ ln_discover \/ ln_run
       \/ ingest_profile \/ trigger_sync \/ trigger_embed \/ identity_resolve_trigger \/ retry_failed

\* No row to retry: no job either.
Retry(kind, pf) ==
    \E status \in {"failed", "pending"} :
      LET who == {p \in Having(pf, status) : table.checkpoint[pf][p].tries < MaxAttempts}
      IN who # {} /\ Call(kind, who, Tracked)

_gh_discover == Call("elsewhere", {}, Tracked)
_gh_ingest == \E who \in Given : who # {} /\ Call("gh_ingest", who, Tracked)
_gh_retry == Retry("gh_ingest", "gh")
_hf_discover == Call("elsewhere", {}, Tracked)
_hf_ingest == \E who \in Given : who # {} /\ Call("hf_ingest", who, Tracked)
_hf_retry == Retry("hf_ingest", "hf")
_ln_discover == Call("ln_discover", {}, Tracked)
_ln_ingest == Call("ln_ingest", {}, Tracked)
_ln_retry == Retry("ln_given", "ln")
_sync == Call("elsewhere", {}, Tracked)
_embed == Call("elsewhere", {}, Tracked)
_identity_resolve == Call("elsewhere", {}, Tracked)

main == \/ _gh_discover \/ _gh_ingest \/ _gh_retry \/ _hf_discover \/ _hf_ingest \/ _hf_retry
        \/ _ln_discover \/ _ln_ingest \/ _ln_retry \/ _sync \/ _embed \/ _identity_resolve

----------------------------------------------------------------------------
(* The pipelines.                                                          *)

Steps ==
    [daily |-> <<"gh_discover", "gh_ingest", "hf_discover", "hf_ingest", "identity_resolve", "bridge_sync", "embed">>,
     weekly |-> <<"ln_discover", "ln_ingest", "bridge_sync", "embed">>,
     seed |-> <<"gh_discover", "gh_ingest", "bridge_sync", "embed">>,
     gh_only |-> <<"gh_discover", "gh_ingest">>,
     hf_only |-> <<"hf_discover", "hf_ingest">>,
     ln_only |-> <<"ln_discover", "ln_ingest">>,
     dependent |-> <<"gh_discover", "gh_ingest", "hf_crossref", "hf_ingest", "identity_resolve",
                     "ln_crossref", "ln_ingest", "bridge_sync", "embed">>]

Start(type, named) ==
    /\ type \in Pipelines /\ run.status \notin {"running", "paused"} /\ count.runs < MaxRuns
    /\ run' = [NoRun EXCEPT !.steps = Steps[type], !.status = "running", !.named = named]
    /\ count' = [count EXCEPT !.runs = @ + 1]
    /\ UNCHANGED <<table, job, command>>

_pipeline_daily == Start("daily", {})
_pipeline_weekly == Start("weekly", {})
_pipeline_seed == \E named \in Given \cup {{}} : Start("seed", named)
_pipeline_gh == Start("gh_only", {})
_pipeline_hf == Start("hf_only", {})
_pipeline_ln == Start("ln_only", {})
_pipeline_dependent == Start("dependent", {})

\* Between two steps a pause ends the runner, and a resume makes another that
\* remembers nothing and gets the parameters as text.
Pause ==
    /\ run.status = "running" /\ Ready("runner")
    /\ run' = [run EXCEPT !.status = "paused", !.known = {}, !.onHf = {}]
    /\ UNCHANGED <<table, job, command, count>>

Resume ==
    /\ run.status = "paused"
    /\ run' = [run EXCEPT !.status = "running", !.text = TRUE]
    /\ UNCHANGED <<table, job, command, count>>

Due(name) == run.status = "running" /\ Ready("runner") /\ run.steps[run.at] = name

\* A handler that calls params.get fails on text.
TextFails ==
    /\ \E name \in {"gh_discover", "gh_ingest", "hf_discover", "hf_ingest", "ln_ingest",
                    "identity_resolve", "bridge_sync", "embed"} : Due(name)
    /\ run.text
    /\ run' = [run EXCEPT !.status = "failed"]
    /\ UNCHANGED <<table, job, command, count>>

Perform(kind, who, todo) ==
    Become("runner", kind, who, todo) /\ UNCHANGED <<table, job, run, count>>

Nothing == run' = NextStep("completed") /\ UNCHANGED <<table, job, command, count>>

_step_gh_discover == Due("gh_discover") /\ ~run.text /\ Perform("gh_search", {}, <<"work">>)
_step_gh_ingest ==
    /\ Due("gh_ingest") /\ ~run.text
    /\ LET who == IF run.named # {} THEN run.named ELSE run.known
       IN IF who = {} THEN Nothing ELSE Perform("gh_ingest", who, Tracked)
_step_hf_discover == Due("hf_discover") /\ ~run.text /\ Perform("hf_search", {}, <<"work">>)
_step_hf_ingest ==
    /\ Due("hf_ingest") /\ ~run.text
    /\ IF run.onHf = {} THEN Nothing ELSE Perform("hf_ingest", run.onHf, Tracked)
_step_ln_discover == Due("ln_discover") /\ Perform("ln_discover", {}, <<"work">>)
_step_ln_ingest == Due("ln_ingest") /\ ~run.text /\ Perform("ln_ingest", {}, Tracked)
_step_identity_resolve == Due("identity_resolve") /\ ~run.text /\ Perform("elsewhere", {}, <<"work">>)
_step_bridge_sync == Due("bridge_sync") /\ ~run.text /\ Perform("elsewhere", {}, <<"work">>)
_step_embed == Due("embed") /\ ~run.text /\ Perform("elsewhere", {}, <<"work">>)

\* A runner keeps what it discovers in its own memory only.
Remember ==
    /\ At("runner", "work")
    /\ \E found \in SUBSET People :
         LET on == NextStep("completed")
         IN \/ command["runner"].kind = "gh_search" /\ run' = [on EXCEPT !.known = found]
            \/ command["runner"].kind = "hf_search" /\ run' = [on EXCEPT !.onHf = found]
    /\ command' = [command EXCEPT !["runner"] = Idle]
    /\ UNCHANGED <<table, job, count>>

_step_hf_crossref ==
    /\ Due("hf_crossref")
    /\ run' = IF run.known = {} THEN NextStep("completed")
              ELSE [NextStep("completed") EXCEPT !.onHf = run.known \cap Linked \cap Having("hf", "ingested")]
    /\ UNCHANGED <<table, job, command, count>>

_step_ln_crossref ==
    /\ Due("ln_crossref")
    /\ table' = UpsertPendingUrls(run.known \cap Listed \cap Having("gh", "ingested"))
    /\ run' = NextStep("completed")
    /\ UNCHANGED <<job, command, count>>

RunPipeline ==
    \/ _pipeline_daily \/ _pipeline_weekly \/ _pipeline_seed \/ _pipeline_gh \/ _pipeline_hf
    \/ _pipeline_ln \/ _pipeline_dependent \/ Pause \/ Resume \/ TextFails \/ Remember
    \/ _step_gh_discover \/ _step_gh_ingest \/ _step_hf_discover \/ _step_hf_ingest
    \/ _step_ln_discover \/ _step_ln_ingest \/ _step_identity_resolve \/ _step_bridge_sync
    \/ _step_embed \/ _step_hf_crossref \/ _step_ln_crossref

Stage(a) ==
    \/ CreateJob(a) \/ ReadRows(a) \/ TurnToHf(a) \/ CheckOrg(a) \/ IngestPerson(a) \/ MarkRunning(a) \/ Work(a) \/ MarkCompleted(a)
    \/ Raise(a) \/ MarkFailed(a) \/ HandlerFails(a) \/ Dies(a)

Next == Api \/ main \/ RunPipeline \/ \E a \in {"caller", "runner"} : Stage(a)

Spec == Init /\ [][Next]_commandVars

----------------------------------------------------------------------------
(* Properties.                                                             *)

\* Every variable has its type.
TypeOK ==
    /\ \A pf \in Platforms, p \in People :
         table.checkpoint[pf][p].status \in {"absent", "discovered", "pending", "ingested", "failed"}
    /\ run.known \cup run.onHf \cup run.named \subseteq People
    /\ \A j \in DOMAIN job : job[j].status \in {"pending", "running", "completed", "failed"}
    /\ run.status \in {"none", "running", "paused", "completed", "failed", "died"}
    /\ \A a \in {"caller", "runner"} : Jobs(a) \subseteq DOMAIN job

\* A job that is pending or running is in a process's hands, unless its process
\* died, its handler failed, its task was never scheduled or it belonged to a
\* pipeline step that raised; a completed job did its work (the error handlers
\* of ingest_source_api, cli and runner).
JobsAccountedFor ==
    \A j \in DOMAIN job :
      /\ job[j].status \in {"pending", "running"} /\ job[j].lost = "no" =>
           \E a \in {"caller", "runner"} : j \in Jobs(a)
      /\ job[j].status = "completed" => job[j].worked
      /\ job[j].status = "failed" => job[j].lost \in {"no", "died"}

\* A pipeline that completes was never paused and has tried to ingest everybody
\* it discovered, though it keeps them in memory only (runner.py, the steps).
CompletedMeansTried ==
    /\ run.status = "completed" => ~run.text
    /\ \A i \in DOMAIN run.steps : \A p \in run.known \cup run.onHf :
         run.at > i /\ run.named = {} =>
           /\ run.steps[i] = "gh_ingest" /\ p \in run.known => p \in Having("gh", "ingested") \cup Having("gh", "failed")
           /\ run.steps[i] = "hf_ingest" /\ p \in run.onHf =>
                p \in UNION {Having("hf", s) : s \in {"ingested", "failed", "pending"}}

=============================================================================
