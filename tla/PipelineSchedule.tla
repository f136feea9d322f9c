--------------------------- MODULE PipelineSchedule ---------------------------
(***************************************************************************)
(* The scheduler: each application instance polls the table of schedules,  *)
(* spawns a pipeline run for every one that is due and writes when it is   *)
(* due next.  Requests create, change and delete schedules meanwhile.      *)
(*                                                                         *)
(* Time is a clock that ticks with the finest cron expression; a cron      *)
(* expression is its period.  What a spawned run does is in                *)
(* PipelineExecution.                                                      *)
(***************************************************************************)
EXTENDS Integers, FiniteSets

CONSTANTS
    Instances,
    Schedules,
    Periods,                                  \* the cron expressions
    MaxTime, MaxRequests, MaxFailures         \* bounds

InstancesAssumption == IsFiniteSet(Instances)
PeriodsAssumption == Periods \subseteq Nat \ {0}
BoundsAssumption == {MaxTime, MaxRequests, MaxFailures} \subseteq Nat

VARIABLES
    now,
    schedule,  \* id -> its pipeline_schedule row, for the rows there are
    poller,    \* instance -> where its poll is
    fired,     \* id -> due time -> how often a run was spawned for it
    rewound,   \* whether a late write has moved a next_run_at back
    count      \* what the bounds count

scheduleVars == <<now, schedule, poller, fired, rewound, count>>

Sleeping == [pc |-> "sleep", now |-> 0, due |-> {}, row |-> {}]

\* Mutant: t itself counts as the next time.
GetNextInclusive(period, t) == ((t + period - 1) \div period) * period

\* The next time after t that a cron expression names.
GetNext(period, t) == (t \div period + 1) * period

Init ==
    /\ now = 0
    /\ schedule = [s \in {} |-> 0]
    /\ poller = [i \in Instances |-> Sleeping]
    /\ fired = [s \in Schedules |-> [t \in 0..(MaxTime + 1) |-> 0]]
    /\ rewound = FALSE
    /\ count = [requests |-> 0, failures |-> 0]

Tick ==
    /\ now < MaxTime
    /\ now' = now + 1
    /\ UNCHANGED <<schedule, poller, fired, rewound, count>>

----------------------------------------------------------------------------
(* The poll.                                                               *)

Due == {s \in DOMAIN schedule : schedule[s].enabled /\ schedule[s].nextRun <= now}

PollSchedules(i) ==
    /\ poller[i].pc = "sleep" /\ Due # {}
    /\ poller' = [poller EXCEPT ![i] =
         [pc |-> "spawn", now |-> now, row |-> {},
          due |-> {[id |-> s, period |-> schedule[s].period, at |-> schedule[s].nextRun] : s \in Due}]]
    /\ UNCHANGED <<now, schedule, fired, rewound, count>>

\* The task is spawned before the next time is written.
Spawn(i) ==
    /\ poller[i].pc = "spawn"
    /\ \/ /\ poller[i].due = {}
          /\ poller' = [poller EXCEPT ![i] = Sleeping]
          /\ UNCHANGED fired
       \/ \E r \in poller[i].due :
            /\ fired' = [fired EXCEPT ![r.id][r.at] = @ + 1]
            /\ poller' = [poller EXCEPT ![i].pc = "write", ![i].due = @ \ {r}, ![i].row = {r}]
    /\ UNCHANGED <<now, schedule, rewound, count>>

\* The next time is computed from the expression and the clock the poll read.
WriteNextRun(i) ==
    /\ poller[i].pc = "write"
    /\ \E r \in poller[i].row :
         LET next == GetNext(r.period, poller[i].now)
         IN IF r.id \in DOMAIN schedule
            THEN /\ schedule' = [schedule EXCEPT ![r.id].nextRun = next]
                 /\ rewound' = (rewound \/ next < schedule[r.id].nextRun)
            ELSE UNCHANGED <<schedule, rewound>>
    /\ poller' = [poller EXCEPT ![i].pc = "spawn", ![i].row = {}]
    /\ UNCHANGED <<now, fired, count>>

\* An exception ends the poll; the rows that are left wait for the next one.
PollFails(i) ==
    /\ poller[i].pc = "write" /\ count.failures < MaxFailures
    /\ poller' = [poller EXCEPT ![i] = Sleeping]
    /\ count' = [count EXCEPT !.failures = @ + 1]
    /\ UNCHANGED <<now, schedule, fired, rewound>>

----------------------------------------------------------------------------
(* Requests.                                                               *)

Request == /\ count.requests < MaxRequests
           /\ count' = [count EXCEPT !.requests = @ + 1]
           /\ UNCHANGED <<now, poller, fired, rewound>>

ScheduleCreate(s, period, enabled) ==
    /\ Request
    /\ s \notin DOMAIN schedule /\ \A t \in DOMAIN fired[s] : fired[s][t] = 0
    /\ schedule' = [q \in DOMAIN schedule \cup {s} |->
                      IF q = s THEN [period |-> period, enabled |-> enabled, nextRun |-> GetNext(period, now)]
                      ELSE schedule[q]]

\* A new expression sets the next time; switching a schedule on does not, so one
\* that was switched off for long is due at once.
ScheduleUpdate(s, periods, enabled) ==
    /\ Request
    /\ s \in DOMAIN schedule
    /\ \E e \in enabled \cup (IF enabled = {} THEN {schedule[s].enabled} ELSE {}) :
         \/ /\ periods = {} /\ enabled # {}
            /\ schedule' = [schedule EXCEPT ![s].enabled = e]
         \/ \E p \in periods :
              schedule' = [schedule EXCEPT ![s] = [period |-> p, enabled |-> e, nextRun |-> GetNext(p, now)]]

ScheduleDelete(s) ==
    /\ Request
    /\ s \in DOMAIN schedule
    /\ schedule' = [q \in DOMAIN schedule \ {s} |-> schedule[q]]

Next ==
    \/ Tick
    \/ \E i \in Instances : PollSchedules(i) \/ Spawn(i) \/ WriteNextRun(i) \/ PollFails(i)
    \/ \E s \in Schedules :
         \/ \E p \in Periods, e \in BOOLEAN : ScheduleCreate(s, p, e)
         \/ \E p \in {{}} \cup {{q} : q \in Periods}, e \in {{}, {TRUE}, {FALSE}} : ScheduleUpdate(s, p, e)
         \/ ScheduleDelete(s)

Spec == Init /\ [][Next]_scheduleVars

----------------------------------------------------------------------------
(* Properties.                                                             *)

\* Every variable has its type.
TypeOK ==
    /\ now \in 0..MaxTime
    /\ DOMAIN schedule \subseteq Schedules
    /\ \A s \in DOMAIN schedule : schedule[s].nextRun \in Nat /\ schedule[s].period \in Periods
    /\ \A i \in Instances : poller[i].pc \in {"sleep", "spawn", "write"}

\* However polls of several instances, slow writes and requests interleave, one
\* due time of a schedule spawns at most one run for each instance; more takes
\* a poll that failed before its write, or a late write that moved next_run_at
\* back (scheduler.py, _poll_schedules).
FiredOncePerInstance ==
    (count.failures = 0 /\ ~rewound) =>
        \A s \in Schedules : \A t \in DOMAIN fired[s] : fired[s][t] <= Cardinality(Instances)

=============================================================================
