---------------------------- MODULE SourceClients -----------------------------
(***************************************************************************)
(* The clients that fetch from GitHub and Hugging Face: calls that retry   *)
(* and follow pages, and the pool of GitHub tokens they wait for.          *)
(*                                                                         *)
(* Time is abstracted to one fact about a token: its reset time has come,  *)
(* or not.  Between two awaits a task is alone on the event loop, so an    *)
(* action is what happens between two awaits; a backoff is a delay of the  *)
(* next action.                                                            *)
(***************************************************************************)
EXTENDS Integers, FiniteSets, FiniteSetsExt

CONSTANTS
    Tokens,        \* the GitHub tokens
    HfTokens,      \* how many Hugging Face tokens there are
    NoToken,
    Calls,
    Workloads,     \* what the calls may be for: functions from calls to kinds
    MaxRetries, MaxItems, PageSize,
    MaxRemaining,  \* the largest rate limit an answer reports
    MaxLimited,    \* bound: answers that are a rate limit
    MaxLost        \* bound: requests that end in an exception nobody expects

TokensAssumption == Tokens # {} /\ NoToken \notin Tokens
LimitsAssumption ==
    /\ {HfTokens, MaxRetries, MaxRemaining, MaxLimited, MaxLost} \subseteq Nat
    /\ PageSize \in Nat \ {0} /\ MaxItems \in Nat \ {0}

\* A GitHub call asks for a user's bundle or contributions, for the events, or
\* for pages of commits; a Hugging Face call for a user, or for pages of a list.
\* A call that is for none of them is not made.
GitHubKinds == {"bundle", "events", "commits"}
HfKinds == {"user", "list"}

WorkloadsAssumption == Workloads \subseteq [Calls -> GitHubKinds \cup HfKinds \cup {"none"}]

VARIABLES
    kind,     \* call -> what it is for
    token,    \* token -> its TokenState; limited: reset_at is still to come
    lost,     \* the tokens whose request ended without a release
    turn,     \* the Hugging Face token that is next
    call,     \* call -> where it is
    limited   \* how many answers were a rate limit

clientVars == <<kind, token, lost, turn, call, limited>>

Start == [pc |-> "acquire", attempt |-> 1, holds |-> NoToken, timers |-> {},
          items |-> 0, path |-> "user", result |-> "none"]

Init ==
    /\ kind \in Workloads
    /\ token = [t \in Tokens |-> [remaining |-> MaxRemaining, limited |-> FALSE, inUse |-> FALSE]]
    /\ lost = {}
    /\ turn = 0
    /\ call = [c \in Calls |-> Start]
    /\ limited = 0

----------------------------------------------------------------------------
(* The pool.                                                               *)

Available(t) == ~token[t].inUse /\ (token[t].remaining > 0 \/ ~token[t].limited)

Acquire(c) ==
    /\ kind[c] \in GitHubKinds /\ call[c].pc = "acquire"
    /\ \E t \in Tokens :
         /\ Available(t)
         /\ \A s \in Tokens : Available(s) => token[s].remaining <= token[t].remaining
         /\ token' = [token EXCEPT ![t].inUse = TRUE]
         /\ call' = [call EXCEPT ![c].pc = "sent", ![c].holds = t]
    /\ UNCHANGED <<kind, lost, turn, limited>>

\* With no token to hand out a call waits: until the soonest reset of the
\* tokens nobody uses, or, when all are in use, for a release.
Wait(c) ==
    /\ kind[c] \in GitHubKinds /\ call[c].pc = "acquire"
    /\ ~\E t \in Tokens : Available(t)
    /\ call' = [call EXCEPT ![c].pc = "waiting",
                            ![c].timers = {t \in Tokens : ~token[t].inUse}]
    /\ UNCHANGED <<kind, token, lost, turn, limited>>

ResetPasses(t) ==
    /\ token[t].limited
    /\ token' = [token EXCEPT ![t].limited = FALSE]
    /\ UNCHANGED <<kind, lost, turn, call, limited>>

TimerRunsOut(c) == \E t \in call[c].timers : ~token[t].limited

WakeUp(c) ==
    /\ call[c].pc = "waiting" /\ TimerRunsOut(c)
    /\ call' = [call EXCEPT ![c].pc = "acquire", ![c].timers = {}]
    /\ UNCHANGED <<kind, token, lost, turn, limited>>

\* What a release does to the token, given the headers of the answer, and to
\* the calls that wait.
Silent == [remaining |-> {}, limited |-> {}]
Headers == {Silent} \cup
           {[remaining |-> {n}, limited |-> l] : n \in 0..MaxRemaining, l \in {{}, {TRUE}}}

Released(t, h) ==
    [token EXCEPT ![t] = [inUse |-> FALSE,
                          remaining |-> IF h.remaining = {} THEN @.remaining ELSE Max(h.remaining),
                          limited |-> @.limited \/ h.limited # {}]]
\* Mutant: a release wakes nobody.
NotifiedNobody(calls) == calls

Notified(calls) ==
    [d \in Calls |-> IF calls[d].pc = "waiting"
                     THEN [calls[d] EXCEPT !.pc = "acquire", !.timers = {}] ELSE calls[d]]

----------------------------------------------------------------------------
(* What a call does with an answer: the record it goes on with.            *)

Ended(s, result) == [s EXCEPT !.pc = "done", !.holds = NoToken, !.result = result]
Again(s) == [s EXCEPT !.pc = "acquire", !.holds = NoToken, !.attempt = @ + 1]
Retry(s) == IF s.attempt > MaxRetries THEN Ended(s, "transient") ELSE Again(s)

\* Mutant: what comes beyond the limit is kept.
PageUncut(s, n, next) ==
    LET more == [s EXCEPT !.items = @ + n]
    IN IF next /\ more.items < MaxItems
       THEN [more EXCEPT !.pc = "acquire", !.holds = NoToken, !.attempt = 1]
       ELSE Ended(more, "ok")

\* One more page of n items: the call asks for the next page, as a new request,
\* until it has enough or there is none.
Page(s, n, next) ==
    LET more == [s EXCEPT !.items = @ + n]
    IN IF next /\ more.items < MaxItems
       THEN [more EXCEPT !.pc = "acquire", !.holds = NoToken, !.attempt = 1]
       ELSE Ended([more EXCEPT !.items = IF @ > MaxItems THEN MaxItems ELSE @], "ok")

\* A GraphQL answer may carry errors of its own, or nothing.
GraphQL(s) == {Ended(s, "permanent"), Ended(s, "transient")}
GitHubBody(c, s) ==
    IF kind[c] = "bundle" THEN GraphQL(s) \cup {Ended(s, "ok")}
    ELSE IF kind[c] = "events" THEN {Ended(s, "ok")}
    ELSE GraphQL(s) \cup {Page(s, n, next) : n \in 1..PageSize, next \in BOOLEAN}

\* A page that is not full is the last one, whatever link comes with it.
HfBody(c, s) ==
    IF kind[c] = "user" THEN {Ended(s, "ok")}
    ELSE {Page(s, n, n = PageSize /\ link) : n \in 0..PageSize, link \in BOOLEAN}

----------------------------------------------------------------------------
(* Requests.                                                               *)

Finish(c, h, s) ==
    /\ token' = Released(call[c].holds, h)
    /\ call' = Notified([call EXCEPT ![c] = s])
    /\ UNCHANGED <<lost, turn>>

\* Any status but a rate limit: success, an answer that is final, or one to
\* try again.
Answer(c, h) ==
    /\ kind[c] \in GitHubKinds /\ call[c].pc = "sent"
    /\ \E s \in GitHubBody(c, call[c]) \cup {Ended(call[c], "permanent"), Retry(call[c])} :
         Finish(c, h, s)
    /\ UNCHANGED <<kind, limited>>

\* 403 or 429 with a Retry-After, or for a token that is used up: tried again
\* with no limit.
RateLimited(c, h) ==
    /\ kind[c] \in GitHubKinds /\ call[c].pc = "sent" /\ limited < MaxLimited
    /\ Finish(c, h, Again(call[c]))
    /\ limited' = limited + 1
    /\ UNCHANGED kind

NetworkError(c) ==
    /\ kind[c] \in GitHubKinds /\ call[c].pc = "sent"
    /\ Finish(c, Silent, Retry(call[c]))
    /\ UNCHANGED <<kind, limited>>

\* Any other exception, a body that cannot be decoded or a cancelled task,
\* leaves the token in use.
Break(c) ==
    /\ kind[c] \in GitHubKinds /\ call[c].pc = "sent" /\ Cardinality(lost) < MaxLost
    /\ lost' = lost \cup {call[c].holds}
    /\ call' = [call EXCEPT ![c] = Ended(@, "raised")]
    /\ UNCHANGED <<kind, token, turn, limited>>

----------------------------------------------------------------------------
(* Hugging Face: the tokens take turns, nothing is tracked.                *)

HfSend(c) ==
    /\ kind[c] \in HfKinds /\ call[c].pc = "acquire"
    /\ turn' = IF HfTokens = 0 THEN turn ELSE (turn + 1) % HfTokens
    /\ call' = [call EXCEPT ![c].pc = "sent"]
    /\ UNCHANGED <<kind, token, lost, limited>>

\* A user that is not found is asked for once more as an organisation; so is
\* one whose refusal has a 404 somewhere in its text.
AsOrganisation(c, s) ==
    IF kind[c] = "user" /\ s.path = "user"
    THEN {[s EXCEPT !.pc = "acquire", !.path = "org", !.attempt = 1]} ELSE {}

HfAnswer(c) ==
    /\ kind[c] \in HfKinds /\ call[c].pc = "sent"
    /\ \E s \in HfBody(c, call[c]) \cup AsOrganisation(c, call[c])
                \cup {Retry(call[c]), Ended(call[c], "permanent")} :
         call' = [call EXCEPT ![c] = s]
    /\ UNCHANGED <<kind, token, lost, turn, limited>>

HfRateLimited(c) ==
    /\ kind[c] \in HfKinds /\ call[c].pc = "sent" /\ limited < MaxLimited
    /\ call' = [call EXCEPT ![c] = Again(@)]
    /\ limited' = limited + 1
    /\ UNCHANGED <<kind, token, lost, turn>>

----------------------------------------------------------------------------
Request(c) ==
    \/ Acquire(c) \/ Wait(c) \/ WakeUp(c) \/ NetworkError(c) \/ Break(c)
    \/ \E h \in Headers : Answer(c, h) \/ RateLimited(c, h)
    \/ HfSend(c) \/ HfAnswer(c) \/ HfRateLimited(c)

Next ==
    \/ \E c \in Calls : Request(c)
    \/ \E t \in Tokens : ResetPasses(t)

Spec == Init /\ [][Next]_clientVars

----------------------------------------------------------------------------
(* Properties.                                                             *)

\* Every variable has its type.
TypeOK ==
    /\ token \in [Tokens -> [remaining : 0..MaxRemaining, limited : BOOLEAN, inUse : BOOLEAN]]
    /\ lost \subseteq Tokens
    /\ turn \in Nat
    /\ \A c \in Calls : call[c].items <= MaxItems /\ call[c].attempt <= MaxRetries + 1 + limited

\* Through retries, exceptions and rate limits a token is free, or with
\* exactly one call, or was lost; and a call that sleeps in acquire never
\* sleeps beside a token it could have, unless its timer has run out: each
\* release wakes every sleeper, and a sleeper without a timer means that all
\* tokens are in use (token_pool.py, acquire and release).
TokensFlow ==
    /\ \A t \in Tokens :
         Cardinality({c \in Calls : call[c].holds = t})
           = IF token[t].inUse /\ t \notin lost THEN 1 ELSE 0
    /\ \A c \in Calls : call[c].pc = "waiting" =>
         TimerRunsOut(c) \/ ~\E t \in Tokens : Available(t)

=============================================================================
