------------------------------- MODULE Services -------------------------------
(***************************************************************************)
(* The parts of the system that work beside the jobs, side by side.  They  *)
(* share no state: a behaviour is one of one part, and the variables of    *)
(* the others stay None, so that what is explored is the sum of the parts  *)
(* and not their product.                                                  *)
(***************************************************************************)
EXTENDS Integers, Sequences, FiniteSets

CONSTANTS
    None,
    \* the clients
    Tokens, NoToken, HfTokens, Calls, Workloads, MaxRetries, MaxItems, PageSize,
    MaxRemaining, MaxLimited, MaxLost,
    \* LinkedIn
    Mentioning, LnGiven, Workers, Budget, Rpm, MaxProfiles, LnRuns, LnFaults, MaxMinutes,
    \* the vector index
    Rows, BatchSize, MaxPasses, MaxSyncs, MaxFailures,
    \* the scheduler
    Instances, Schedules, Periods, MaxTime, MaxRequests,
    \* billing
    Owner, Others, Accounts, PlanLimit, Events, Requests, Hooks, MaxWork,
    \* search
    Profiles, Satisfies, Indexed, Filters, Limits, VectorFactor, KeywordFactor, RerankTop, Unit,
    Weights, MaxChanges,
    \* commands
    People, Linked, Listed, Given, Pipelines, MaxAttempts, MaxCommands, MaxRuns, MaxFaults

VARIABLES
    part,      \* the part whose behaviour it is
    kind, token, lost, turn, call, limited,
    pending, checkpoint, stored, queue, worker, spent, window, sent, lnCount,
    row, unindexed, pass, indexCount,
    now, schedule, poller, fired, rewound, scheduleCount,
    orgPlan, sub, members, used, request, hook, events, seen, billingCount, accounts, deleted,
    cohesive, points, ranking, ranker, search, changes,
    table, job, command, run, commandCount

Clients == INSTANCE SourceClients
LinkedIn == INSTANCE LinkedInIngest
    WITH Accounts <- Mentioning, Given <- LnGiven, MaxRuns <- LnRuns, MaxFaults <- LnFaults,
         count <- lnCount
Index == INSTANCE SearchIndex WITH count <- indexCount
Schedule == INSTANCE PipelineSchedule WITH count <- scheduleCount
Billing == INSTANCE OrgBilling WITH count <- billingCount
Search == INSTANCE ProfileSearch WITH row <- cohesive
Commands == INSTANCE IngestCommands WITH count <- commandCount

\* The variables of each part, and what they are when another is at work.
clientVars == <<kind, token, lost, turn, call, limited>>
lnVars == <<pending, checkpoint, stored, queue, worker, spent, window, sent, lnCount>>
indexVars == <<row, unindexed, pass, indexCount>>
scheduleVars == <<now, schedule, poller, fired, rewound, scheduleCount>>
billingVars == <<orgPlan, sub, members, used, request, hook, events, seen, billingCount,
                 accounts, deleted>>
searchVars == <<cohesive, points, ranking, ranker, search, changes>>
commandVars == <<table, job, command, run, commandCount>>

vars == <<part, clientVars, lnVars, indexVars, scheduleVars, billingVars, searchVars, commandVars>>

NoClients == /\ kind = None /\ token = None /\ lost = None /\ turn = None
             /\ call = None /\ limited = None
NoLinkedIn == /\ pending = None /\ checkpoint = None /\ stored = None /\ queue = None
              /\ worker = None /\ spent = None /\ window = None /\ sent = None /\ lnCount = None
NoIndex == row = None /\ unindexed = None /\ pass = None /\ indexCount = None
NoSchedule == /\ now = None /\ schedule = None /\ poller = None /\ fired = None
              /\ rewound = None /\ scheduleCount = None
NoBilling == /\ orgPlan = None /\ sub = None /\ members = None /\ used = None
             /\ request = None /\ hook = None /\ events = None /\ seen = None
             /\ billingCount = None /\ accounts = None /\ deleted = None
NoSearch == /\ cohesive = None /\ points = None /\ ranking = None /\ ranker = None
            /\ search = None /\ changes = None
NoCommands == /\ table = None /\ job = None /\ command = None /\ run = None
              /\ commandCount = None

Init ==
    /\ part \in {"clients", "linkedin", "index", "schedule", "billing", "search", "commands"}
    /\ IF part = "clients" THEN Clients!Init ELSE NoClients
    /\ IF part = "linkedin" THEN LinkedIn!Init ELSE NoLinkedIn
    /\ IF part = "index" THEN Index!Init ELSE NoIndex
    /\ IF part = "schedule" THEN Schedule!Init ELSE NoSchedule
    /\ IF part = "billing" THEN Billing!Init ELSE NoBilling
    /\ IF part = "search" THEN Search!Init ELSE NoSearch
    /\ IF part = "commands" THEN Commands!Init ELSE NoCommands

ClientsNext ==
    /\ part = "clients" /\ Clients!Next
    /\ UNCHANGED <<part, lnVars, indexVars, scheduleVars, billingVars, searchVars, commandVars>>
LinkedInNext ==
    /\ part = "linkedin" /\ LinkedIn!Next
    /\ UNCHANGED <<part, clientVars, indexVars, scheduleVars, billingVars, searchVars, commandVars>>
IndexNext ==
    /\ part = "index" /\ Index!Next
    /\ UNCHANGED <<part, clientVars, lnVars, scheduleVars, billingVars, searchVars, commandVars>>
ScheduleNext ==
    /\ part = "schedule" /\ Schedule!Next
    /\ UNCHANGED <<part, clientVars, lnVars, indexVars, billingVars, searchVars, commandVars>>
BillingNext ==
    /\ part = "billing" /\ Billing!Next
    /\ UNCHANGED <<part, clientVars, lnVars, indexVars, scheduleVars, searchVars, commandVars>>
SearchNext ==
    /\ part = "search" /\ Search!Next
    /\ UNCHANGED <<part, clientVars, lnVars, indexVars, scheduleVars, billingVars, commandVars>>
CommandsNext ==
    /\ part = "commands" /\ Commands!Next
    /\ UNCHANGED <<part, clientVars, lnVars, indexVars, scheduleVars, billingVars, searchVars>>

Next ==
    \/ ClientsNext \/ LinkedInNext \/ IndexNext \/ ScheduleNext
    \/ BillingNext \/ SearchNext \/ CommandsNext

Spec == Init /\ [][Next]_vars

----------------------------------------------------------------------------
\* The variables of a part have their types (each part's TypeOK).
TypeOK ==
    /\ part = "clients"  => Clients!TypeOK
    /\ part = "linkedin" => LinkedIn!TypeOK
    /\ part = "index"    => Index!TypeOK
    /\ part = "schedule" => Schedule!TypeOK
    /\ part = "billing"  => Billing!TypeOK
    /\ part = "search"   => Search!TypeOK
    /\ part = "commands" => Commands!TypeOK

\* No token is lost or held twice, no call sleeps beside one it could have
\* (SourceClients: token_pool.py, acquire and release).
TokensFlow == part = "clients" => Clients!TokensFlow

\* LinkedIn's budget and rate are overrun only by what was under way, and its
\* three tables agree about an address (LinkedInIngest: client.py, orchestrator.py).
LinkedInHolds == part = "linkedin" => LinkedIn!LimitsHeld /\ LinkedIn!TablesAgree

\* A batch embedding pass does at least half of its work, and marks nothing that
\* has no point (SearchIndex: embed.py).
EmbedPass == part = "index" => Index!EmbedPass

\* One due time of a schedule spawns at most one run for each instance
\* (PipelineSchedule: scheduler.py).
FiredOncePerInstance == part = "schedule" => Schedule!FiredOncePerInstance

\* Limits are overrun only by overlapping requests, and the plan and the seats
\* of the subscription are the organisation's (OrgBilling: billing_service.py,
\* plan_enforcement.py).
BillingHolds == part = "billing" => Billing!WithinPlan /\ Billing!SeatsCounted /\ Billing!PlansAgree

\* Fusion never shows a profile below one that every search ranks behind it
\* (ProfileSearch: fusion.py and profile_search_service.py).
FusionKeepsOrder == part = "search" => Search!FusionKeepsOrder

\* A job row that is open is in a process's hands or was lost in a known way
\* (IngestCommands: the handlers of ingest_source_api.py, cli.py, runner.py).
JobsAccountedFor == part = "commands" => Commands!JobsAccountedFor

\* A pipeline that completes has tried everybody it discovered (IngestCommands:
\* runner.py).
CompletedMeansTried == part = "commands" => Commands!CompletedMeansTried

=============================================================================
