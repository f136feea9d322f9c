---------------------------- MODULE LinkedInIngest ----------------------------
(***************************************************************************)
(* LinkedIn ingestion: addresses found in the GitHub and Hugging Face      *)
(* rows, the table of pending addresses, and the workers that fetch them   *)
(* from a paid service within a budget and a rate.                         *)
(*                                                                         *)
(* An action is what a worker does between two awaits; each statement is   *)
(* its own transaction.  Time is two facts: whether the limiter's window   *)
(* is older than a minute, and whether a success is older than a week.     *)
(* The job and item rows and the counters behave as in IngestJob and are   *)
(* left out.                                                               *)
(***************************************************************************)
EXTENDS Integers, Sequences, FiniteSets, SequencesExt

CONSTANTS
    None,
    Accounts,     \* the GitHub and Hugging Face rows that discovery reads
    Given,        \* the lists of addresses a run may be given
    Workers,
    Budget,       \* in profiles: daily_budget_usd / cost_per_profile
    Rpm,          \* rate_limit_rpm
    MaxProfiles,
    MaxRuns, MaxFaults, MaxMinutes    \* bounds

LimitsAssumption ==
    /\ {Budget, MaxRuns, MaxFaults, MaxMinutes} \subseteq Nat
    /\ Rpm \in Nat \ {0} /\ MaxProfiles \in Nat \ {0}
    /\ Workers # {} /\ IsFiniteSet(Workers)

----------------------------------------------------------------------------
(* Discovery.  A link has the handle of a linkedin.com/in/ address in it,  *)
(* or is any other text.                                                   *)

Normalized(link) == IF link.handle # None THEN link.handle ELSE link.text

\* A social account, a website or a biography of a GitHub row, the LinkedIn
\* field of a Hugging Face row: the address and how far to trust it.
Mentions(a) ==
    {[url |-> Normalized(l), priority |-> 1] : l \in a.social}
    \cup {[url |-> l.handle, priority |-> 2] : l \in {x \in a.website : x.handle # None}}
    \cup {[url |-> l.handle, priority |-> 3] : l \in {x \in a.bio : x.handle # None}}

AllMentions == UNION {Mentions(a) : a \in Accounts}

\* One entry for an address, the most trusted.
Discovered == {m \in AllMentions :
                 \A n \in AllMentions : n.url = m.url => n.priority >= m.priority}

Urls == {m.url : m \in AllMentions} \cup UNION {ToSet(list) : list \in Given}
UrlsAssumption == IsFiniteSet(Urls) /\ \A list \in Given : list \in Seq(ToSet(list))

VARIABLES
    pending,      \* url -> its ln_pending_urls row
    checkpoint,   \* url -> its ln_checkpoints row
    stored,       \* the urls in ln_users
    queue,
    worker,       \* worker -> [pc, url]
    spent,        \* _budget_spent
    window,       \* the limiter: its count, and whether its minute is over
    sent,         \* requests since a minute last passed
    count         \* what the bounds count

lnVars == <<pending, checkpoint, stored, queue, worker, spent, window, sent, count>>

Resting == [pc |-> "idle", url |-> None]

Init ==
    /\ pending = [u \in Urls |-> [status |-> "absent", priority |-> 0]]
    /\ checkpoint = [u \in Urls |-> "absent"]
    /\ stored = {}
    /\ queue = <<>>
    /\ worker = [w \in Workers |-> Resting]
    /\ spent = 0
    /\ window = [count |-> 0, over |-> FALSE]
    /\ sent = 0
    /\ count = [runs |-> 0, faults |-> 0, minutes |-> 0]

\* A known address keeps its status; only its priority can rise.
Discover ==
    /\ pending' = [u \in Urls |->
         IF \E m \in Discovered : m.url = u
         THEN LET p == (CHOOSE m \in Discovered : m.url = u).priority
              IN IF pending[u].status = "absent" THEN [status |-> "pending", priority |-> p]
                 ELSE [pending[u] EXCEPT !.priority = IF p < @ THEN p ELSE @]
         ELSE pending[u]]
    /\ pending' # pending
    /\ UNCHANGED <<checkpoint, stored, queue, worker, spent, window, sent, count>>

----------------------------------------------------------------------------
(* A run: with the addresses it is given or the pending ones, the most     *)
(* trusted first; each run has a client of its own, with nothing spent.    *)

PendingUrls == {u \in Urls : pending[u].status = "pending"}
ListPendingUrls == {s \in SetToSeqs(PendingUrls) :
                      \A i, j \in DOMAIN s : i < j => pending[s[i]].priority <= pending[s[j]].priority}

StartRun(urls) ==
    /\ count.runs < MaxRuns /\ \A w \in Workers : worker[w].pc \in {"idle", "dead"}
    /\ queue' = SubSeq(urls, 1, IF Len(urls) < MaxProfiles THEN Len(urls) ELSE MaxProfiles)
    /\ worker' = [w \in Workers |-> [Resting EXCEPT !.pc = "get"]]
    /\ spent' = 0 /\ window' = [count |-> 0, over |-> FALSE] /\ sent' = 0
    /\ count' = [count EXCEPT !.runs = @ + 1]
    /\ UNCHANGED <<pending, checkpoint, stored>>

Goto(w, pc) == worker' = [worker EXCEPT ![w].pc = pc]

\* An empty queue stands for the sentinel.  With the budget gone an address is
\* passed over before it is touched.
Get(w) ==
    /\ worker[w].pc = "get"
    /\ \/ queue = <<>> /\ Goto(w, "idle") /\ UNCHANGED <<queue>>
       \/ /\ queue # <<>> /\ queue' = Tail(queue)
          /\ worker' = IF spent >= Budget THEN worker
                       ELSE [worker EXCEPT ![w] = [pc |-> "recent", url |-> Head(queue)]]
    /\ UNCHANGED <<pending, checkpoint, stored, spent, window, sent, count>>

RecentlyIngested(w) ==
    /\ worker[w].pc = "recent"
    /\ Goto(w, IF checkpoint[worker[w].url] = "success" THEN "get" ELSE "ingesting")
    /\ UNCHANGED <<pending, checkpoint, stored, queue, spent, window, sent, count>>

\* An address that was given and is not in the table has no status to set.
Marked(u, status) == IF pending[u].status = "absent" THEN pending
                     ELSE [pending EXCEPT ![u].status = status]

MarkPending(w, pc, status, next) ==
    /\ worker[w].pc = pc
    /\ pending' = Marked(worker[w].url, status)
    /\ Goto(w, next)
    /\ UNCHANGED <<checkpoint, stored, queue, spent, window, sent, count>>

\* fetch_profile looks at the budget once more and then at the limiter, which
\* lets the call through or puts it to sleep until the minute is over.
Fetch(w) ==
    LET used == IF window.over THEN 0 ELSE window.count
    IN /\ worker[w].pc = "fetch"
       /\ \/ /\ spent >= Budget
             /\ Goto(w, "nodata")
             /\ UNCHANGED <<window, sent>>
          \/ /\ spent < Budget /\ used >= Rpm
             /\ Goto(w, "sleep")
             /\ UNCHANGED <<window, sent>>
          \/ /\ spent < Budget /\ used < Rpm
             /\ window' = [count |-> used + 1, over |-> FALSE]
             /\ sent' = sent + 1
             /\ Goto(w, "response")
       /\ UNCHANGED <<pending, checkpoint, stored, queue, spent, count>>

\* The sleepers wake together, and each starts the window anew.
MinutePasses ==
    LET up == {w \in Workers : worker[w].pc = "sleep"}
    IN /\ count.minutes < MaxMinutes /\ ~window.over
       /\ window' = IF up = {} THEN [window EXCEPT !.over = TRUE] ELSE [count |-> 1, over |-> FALSE]
       /\ sent' = Cardinality(up)
       /\ worker' = [w \in Workers |-> IF w \in up THEN [worker[w] EXCEPT !.pc = "response"]
                                       ELSE worker[w]]
       /\ count' = [count EXCEPT !.minutes = @ + 1]
       /\ UNCHANGED <<pending, checkpoint, stored, queue, spent>>

\* An answer is paid for, whatever it says; a timeout is not counted.
Response(w) ==
    /\ worker[w].pc = "response"
    /\ \/ spent' = spent + 1 /\ Goto(w, "store")
       \/ spent' \in {spent, spent + 1} /\ Goto(w, "nodata")
    /\ UNCHANGED <<pending, checkpoint, stored, queue, window, sent, count>>

\* Mutant: an error of the write is swallowed.
UpsertSwallowed(w) ==
    /\ worker[w].pc = "store"
    /\ stored' \in {stored, stored \cup {worker[w].url}}
    /\ Goto(w, "success")
    /\ UNCHANGED <<pending, checkpoint, queue, spent, window, sent, count>>

UpsertUser(w) ==
    /\ worker[w].pc = "store"
    /\ stored' = stored \cup {worker[w].url}
    /\ Goto(w, "success")
    /\ UNCHANGED <<pending, checkpoint, queue, spent, window, sent, count>>

\* Both ends of an address write its checkpoint and then its pending row.
MarkCheckpoint(w, pc, status, next) ==
    /\ worker[w].pc = pc
    /\ checkpoint' = [checkpoint EXCEPT ![worker[w].url] = status]
    /\ Goto(w, next)
    /\ UNCHANGED <<pending, stored, queue, spent, window, sent, count>>

\* The item row is closed last, still inside the try.
Close(w) ==
    /\ worker[w].pc = "close"
    /\ Goto(w, "get")
    /\ UNCHANGED <<pending, checkpoint, stored, queue, spent, window, sent, count>>

\* An exception inside the try is recorded like missing data; one in the
\* handler ends the worker.
Raise(w) ==
    /\ count.faults < MaxFaults
    /\ \/ /\ worker[w].pc \in {"recent", "ingesting", "store", "success", "complete", "nodata", "giveup",
                              "close"}
          /\ Goto(w, "handler")
       \/ worker[w].pc \in {"handler", "handled"} /\ Goto(w, "dead")
    /\ count' = [count EXCEPT !.faults = @ + 1]
    /\ UNCHANGED <<pending, checkpoint, stored, queue, spent, window, sent>>

\* The process ends, or the run is given up after a worker died.
Crash ==
    /\ count.faults < MaxFaults
    /\ \E w \in Workers : worker[w].pc # "idle"
    /\ worker' = [w \in Workers |-> Resting]
    /\ queue' = <<>>
    /\ count' = [count EXCEPT !.faults = @ + 1]
    /\ UNCHANGED <<pending, checkpoint, stored, spent, window, sent>>

WeekPasses(u) ==
    /\ checkpoint[u] = "success"
    /\ checkpoint' = [checkpoint EXCEPT ![u] = "old"]
    /\ UNCHANGED <<pending, stored, queue, worker, spent, window, sent, count>>

Step(w) ==
    \/ Get(w) \/ RecentlyIngested(w)
    \/ MarkPending(w, "ingesting", "ingesting", "fetch")
    \/ Fetch(w) \/ Response(w) \/ UpsertUser(w)
    \/ MarkCheckpoint(w, "success", "success", "complete")
    \/ MarkPending(w, "complete", "completed", "close") \/ Close(w)
    \/ MarkCheckpoint(w, "nodata", "failed", "giveup") \/ MarkPending(w, "giveup", "failed", "close")
    \/ MarkCheckpoint(w, "handler", "failed", "handled") \/ MarkPending(w, "handled", "failed", "get")
    \/ Raise(w)

Next ==
    \/ Discover
    \/ \E urls \in ListPendingUrls \cup Given : StartRun(urls)
    \/ \E w \in Workers : Step(w)
    \/ MinutePasses \/ Crash \/ \E u \in Urls : WeekPasses(u)

Spec == Init /\ [][Next]_lnVars

----------------------------------------------------------------------------
(* Properties.                                                             *)

\* Every variable has its type.
TypeOK ==
    /\ pending \in [Urls -> [status : {"absent", "pending", "ingesting", "completed", "failed"},
                             priority : 0..3]]
    /\ checkpoint \in [Urls -> {"absent", "success", "failed", "old"}]
    /\ stored \subseteq Urls /\ \A w \in Workers : worker[w].url \in Urls \cup {None}
    /\ window \in [count : 0..Rpm, over : BOOLEAN]

\* A run spends more than its budget, and sends more than its rate, only by
\* what the other workers had under way when the last check let one through
\* (client.py, the two checks of _budget_spent around the waits, and
\* _rate_limit, where every sleeper starts the window again).
LimitsHeld ==
    /\ spent <= Budget + Cardinality(Workers) - 1
    /\ sent <= Rpm + Cardinality(Workers) - 1

\* What the tables say of an address agrees after every crash and exception:
\* one that is completed, or has a success, is stored; one that is being
\* ingested is in a worker's hands or was left by a run that broke.
TablesAgree ==
    \A u \in Urls :
        /\ pending[u].status = "completed" \/ checkpoint[u] \in {"success", "old"} => u \in stored
        /\ pending[u].status = "ingesting" =>
             count.faults > 0 \/ \E w \in Workers : worker[w].url = u /\ worker[w].pc # "get"

=============================================================================
