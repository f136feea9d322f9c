------------------------- MODULE ServicesSourcesProofs ------------------------
(***************************************************************************)
(* Proofs about three parts of Services, for every value of the constants: *)
(* the clients of the sources, LinkedIn ingestion, and the embedding of    *)
(* what was taken in.  The first lemmas of a part say that the part counts *)
(* as the library does.                                                    *)
(***************************************************************************)
EXTENDS Services, FiniteSetTheorems, TLAPS

-----------------------------------------------------------------------------
(* The clients of GitHub and Hugging Face (SourceClients).                 *)

LEMMA ClientsCounting ==
    \A S : Clients!Cardinality(S) = Cardinality(S) /\ (Clients!IsFiniteSet(S) <=> IsFiniteSet(S))
  BY Zenon DEF Clients!Cardinality, Cardinality, Clients!IsFiniteSet, IsFiniteSet

LEMMA ClientsFS_EmptySet ==
    /\ Clients!IsFiniteSet({}) /\ Clients!Cardinality({}) = 0
    /\ \A S : Clients!IsFiniteSet(S) => (Clients!Cardinality(S) = 0 <=> S = {})
  BY FS_EmptySet, ClientsCounting

LEMMA ClientsFS_Singleton ==
    /\ \A x : Clients!IsFiniteSet({x}) /\ Clients!Cardinality({x}) = 1
    /\ \A S : Clients!IsFiniteSet(S) => (Clients!Cardinality(S) = 1 <=> \E x: S = {x})
  BY FS_Singleton, ClientsCounting

ClientsAssumptions == Clients!TokensAssumption /\ Clients!LimitsAssumption /\ Clients!WorkloadsAssumption

-----------------------------------------------------------------------------
(* The inductive invariant.                                                *)

TokenRecord == [remaining : 0..MaxRemaining, limited : BOOLEAN, inUse : BOOLEAN]
CallRecord == [pc : {"acquire", "sent", "waiting", "done"}, attempt : Nat,
               holds : Tokens \cup {NoToken}, timers : SUBSET Tokens, items : Nat,
               path : {"user", "org"}, result : {"none", "ok", "permanent", "transient", "raised"}]

ClientsTypes ==
    /\ kind \in [Calls -> Clients!GitHubKinds \cup Clients!HfKinds \cup {"none"}]
    /\ token \in [Tokens -> TokenRecord] /\ lost \subseteq Tokens
    /\ turn \in Nat /\ limited \in Nat
    /\ call \in [Calls -> CallRecord]

\* A call has asked for no more than its retries and the rate limits allow.
Bounded(s, n) == s.items <= MaxItems /\ s.attempt <= MaxRetries + 1 + n
Bounds == \A c \in Calls : Bounded(call[c], limited)

\* A GitHub call holds a token from acquire to release; nobody else does.
HoldsWhileSent ==
    \A c \in Calls : call[c].holds # NoToken <=> kind[c] \in Clients!GitHubKinds /\ call[c].pc = "sent"
OneHolder ==
    \A c, d \in Calls : call[c].holds # NoToken /\ call[c].holds = call[d].holds => c = d

\* A token that is in use is held or lost, and not both.
InUseMeansHeld ==
    \A t \in Tokens : token[t].inUse /\ t \notin lost <=> \E c \in Calls : call[c].holds = t
LostStaysInUse == \A t \in lost : token[t].inUse

\* Who sleeps watches every token that is free, and each of them is used up.
SleepersWatch ==
    \A c \in Calls : call[c].pc = "waiting" =>
       \A t \in Tokens : ~token[t].inUse => t \in call[c].timers /\ token[t].remaining = 0

ClientsCInv == ClientsTypes /\ Bounds /\ HoldsWhileSent /\ OneHolder /\ InUseMeansHeld /\ LostStaysInUse /\ SleepersWatch

-----------------------------------------------------------------------------
(* What a call goes on with.                                               *)

\* A call that has its answer: it holds nothing and asks again or is done.
Settled(s) ==
    /\ s \in CallRecord /\ s.pc \in {"acquire", "done"} /\ s.holds = NoToken
    /\ s.items <= MaxItems

LEMMA EndedSettles ==
    ASSUME NEW s \in CallRecord, s.items <= MaxItems, NEW result \in {"ok", "permanent", "transient", "raised"}
    PROVE  Settled(Clients!Ended(s, result)) /\ Clients!Ended(s, result).attempt = s.attempt
  BY DEF Clients!Ended, Settled, CallRecord

LEMMA AgainSettles ==
    ASSUME NEW s \in CallRecord, s.items <= MaxItems
    PROVE  Settled(Clients!Again(s)) /\ Clients!Again(s).attempt = s.attempt + 1
<1> DEFINE x == Clients!Again(s)
<1>1. x = [s EXCEPT !.pc = "acquire", !.holds = NoToken, !.attempt = s.attempt + 1] /\ s.attempt + 1 \in Nat
  BY DEF Clients!Again, CallRecord
<1> HIDE DEF x
<1>2. x \in CallRecord
  BY <1>1 DEF CallRecord
<1>3. x.pc = "acquire" /\ x.holds = NoToken /\ x.attempt = s.attempt + 1 /\ x.items = s.items
  BY <1>1 DEF CallRecord
<1> QED
  BY <1>2, <1>3 DEF Settled, x

LEMMA RetrySettles ==
    ASSUME ClientsAssumptions, NEW s \in CallRecord, NEW n \in Nat, Bounded(s, n)
    PROVE  Settled(Clients!Retry(s)) /\ Bounded(Clients!Retry(s), n)
<1>1. s.attempt \in Nat /\ s.items <= MaxItems /\ MaxRetries \in Nat
  BY DEF ClientsAssumptions, Clients!LimitsAssumption, CallRecord, Bounded
<1>2. CASE s.attempt > MaxRetries
  <2>1. Clients!Retry(s) = Clients!Ended(s, "transient")
    BY <1>2 DEF Clients!Retry
  <2> QED
    BY <1>1, <2>1, EndedSettles DEF Bounded, Settled
<1>3. CASE ~(s.attempt > MaxRetries)
  <2>1. Clients!Retry(s) = Clients!Again(s)
    BY <1>3 DEF Clients!Retry
  <2>2. s.attempt + 1 <= MaxRetries + 1 + n
    BY <1>1, <1>3
  <2> QED
    BY <1>1, <2>1, <2>2, AgainSettles DEF Bounded, Settled
<1> QED
  BY <1>2, <1>3

LEMMA PageSettles ==
    ASSUME ClientsAssumptions, NEW s \in CallRecord, NEW m \in Nat, Bounded(s, m), NEW n \in Nat, NEW next \in BOOLEAN
    PROVE  Settled(Clients!Page(s, n, next)) /\ Bounded(Clients!Page(s, n, next), m)
<1>1. /\ s.attempt \in Nat /\ s.items \in Nat /\ MaxItems \in Nat /\ MaxRetries \in Nat
      /\ s.attempt <= MaxRetries + 1 + m
  BY DEF ClientsAssumptions, Clients!LimitsAssumption, CallRecord, Bounded
<1> DEFINE more == [s EXCEPT !.items = @ + n]
<1>2. more \in CallRecord /\ more.items = s.items + n /\ more.attempt = s.attempt
  BY <1>1 DEF CallRecord
<1>3. CASE next /\ more.items < MaxItems
  <2>1. Clients!Page(s, n, next) = [more EXCEPT !.pc = "acquire", !.holds = NoToken, !.attempt = 1]
    BY <1>3 DEF Clients!Page
  <2> HIDE DEF more
  <2>2. Settled(Clients!Page(s, n, next)) /\ Clients!Page(s, n, next).attempt = 1
    <3> DEFINE x == Clients!Page(s, n, next)
    <3> HIDE DEF x
    <3>1. x = [more EXCEPT !.pc = "acquire", !.holds = NoToken, !.attempt = 1]
      BY <2>1 DEF x
    <3>2. x \in CallRecord
      BY <1>2, <3>1 DEF CallRecord
    <3>3. x.pc = "acquire" /\ x.holds = NoToken /\ x.attempt = 1 /\ x.items = more.items
      BY <1>2, <3>1 DEF CallRecord
    <3>4. more.items <= MaxItems
      BY <1>1, <1>2, <1>3
    <3> QED
      BY <3>2, <3>3, <3>4 DEF Settled, x
  <2>3. 1 <= MaxRetries + 1 + m
    BY <1>1
  <2> QED
    BY <2>2, <2>3 DEF Bounded, Settled
<1>4. CASE ~(next /\ more.items < MaxItems)
  <2> DEFINE cut == [more EXCEPT !.items = IF @ > MaxItems THEN MaxItems ELSE @]
  <2>1. Clients!Page(s, n, next) = Clients!Ended(cut, "ok")
    BY <1>4 DEF Clients!Page
  <2> HIDE DEF more
  <2>2. cut \in CallRecord /\ cut.items <= MaxItems /\ cut.attempt = s.attempt
    BY <1>1, <1>2 DEF CallRecord
  <2> HIDE DEF cut
  <2> QED
    BY <1>1, <2>1, <2>2, EndedSettles DEF Bounded, Settled
<1> QED
  BY <1>3, <1>4

LEMMA Answers ==
    ASSUME ClientsAssumptions, NEW c, NEW x \in CallRecord, NEW n \in Nat, Bounded(x, n),
           kind[c] \in Clients!HfKinds => x.holds = NoToken,
           NEW s \in Clients!GitHubBody(c, x) \cup Clients!HfBody(c, x) \cup Clients!AsOrganisation(c, x)
                     \cup {Clients!Ended(x, "permanent"), Clients!Retry(x)}
    PROVE  Settled(s) /\ Bounded(s, n)
<1>1. x.items <= MaxItems /\ x.attempt <= MaxRetries + 1 + n /\ PageSize \in Nat /\ MaxRetries \in Nat
  BY DEF Bounded, ClientsAssumptions, Clients!LimitsAssumption
<1>2. \A result \in {"ok", "permanent", "transient", "raised"} :
         Settled(Clients!Ended(x, result)) /\ Bounded(Clients!Ended(x, result), n)
  BY <1>1, EndedSettles DEF Bounded, Settled
<1>3. \A k \in 0..PageSize, next \in BOOLEAN : Settled(Clients!Page(x, k, next)) /\ Bounded(Clients!Page(x, k, next), n)
  BY <1>1, PageSettles
<1>4. Settled(Clients!Retry(x)) /\ Bounded(Clients!Retry(x), n)
  BY RetrySettles
<1>5. CASE s \in Clients!GitHubBody(c, x)
  <2>1. \/ s \in Clients!GraphQL(x) \cup {Clients!Ended(x, "ok")}
        \/ \E k \in 1..PageSize, next \in BOOLEAN : s = Clients!Page(x, k, next)
    BY <1>5 DEF Clients!GitHubBody
  <2>2. CASE s \in Clients!GraphQL(x) \cup {Clients!Ended(x, "ok")}
    BY <1>2, <2>2 DEF Clients!GraphQL
  <2>3. CASE \E k \in 1..PageSize, next \in BOOLEAN : s = Clients!Page(x, k, next)
    <3>1. PICK k \in 1..PageSize, next \in BOOLEAN : s = Clients!Page(x, k, next)
      BY <2>3
    <3>2. k \in 0..PageSize
      BY <1>1
    <3> QED
      BY <1>3, <3>1, <3>2
  <2> QED
    BY <2>1, <2>2, <2>3
<1>6. CASE s \in Clients!HfBody(c, x)
  <2>1. \/ s = Clients!Ended(x, "ok")
        \/ \E k \in 0..PageSize, link \in BOOLEAN : s = Clients!Page(x, k, k = PageSize /\ link)
    BY <1>6 DEF Clients!HfBody
  <2>2. CASE \E k \in 0..PageSize, link \in BOOLEAN : s = Clients!Page(x, k, k = PageSize /\ link)
    <3>1. PICK k \in 0..PageSize, link \in BOOLEAN : s = Clients!Page(x, k, k = PageSize /\ link)
      BY <2>2
    <3>2. (k = PageSize /\ link) \in BOOLEAN
      OBVIOUS
    <3> QED
      BY <1>3, <3>1, <3>2
  <2> QED
    BY <1>2, <2>1, <2>2
<1>7. CASE s \in Clients!AsOrganisation(c, x)
  <2>1. s = [x EXCEPT !.pc = "acquire", !.path = "org", !.attempt = 1] /\ kind[c] = "user"
    BY <1>7 DEF Clients!AsOrganisation
  <2> QED
    <3>1. s \in CallRecord
      BY <2>1 DEF CallRecord
    <3>2. s.pc = "acquire" /\ s.holds = x.holds /\ s.attempt = 1 /\ s.items = x.items
      BY <2>1 DEF CallRecord
    <3>3. 1 <= MaxRetries + 1 + n
      BY <1>1
    <3>4. x.holds = NoToken
      BY <2>1 DEF Clients!HfKinds
    <3> QED
      BY <1>1, <3>1, <3>2, <3>3, <3>4 DEF Settled, Bounded
<1> QED
  BY <1>2, <1>4, <1>5, <1>6, <1>7

-----------------------------------------------------------------------------
(* Every step.                                                             *)

\* More rate limits allow more.
LEMMA BoundsGrow ==
    ASSUME ClientsAssumptions, NEW s \in CallRecord, NEW n \in Nat, NEW m \in Nat, n <= m, Bounded(s, n)
    PROVE  Bounded(s, m)
  BY DEF Bounded, CallRecord, ClientsAssumptions, Clients!LimitsAssumption

LEMMA ReleasedToken ==
    ASSUME ClientsAssumptions, ClientsTypes, NEW t \in Tokens, NEW h \in Clients!Headers, token' = Clients!Released(t, h)
    PROVE  /\ token' \in [Tokens -> TokenRecord] /\ ~token'[t].inUse
           /\ \A u \in Tokens \ {t} : token'[u] = token[u]
<1> DEFINE left == IF h.remaining = {} THEN token[t].remaining ELSE Clients!Max(h.remaining)
           reset == token[t].limited \/ h.limited # {}
           r == [inUse |-> FALSE, remaining |-> left, limited |-> reset]
<1>1. token \in [Tokens -> TokenRecord] /\ token[t] \in TokenRecord
  BY DEF ClientsTypes
<1>2. left \in 0..MaxRemaining
  <2>1. h.remaining = {} \/ \E n \in 0..MaxRemaining : h.remaining = {n}
    <3>1. h = Clients!Silent \/ \E n \in 0..MaxRemaining, l \in {{}, {TRUE}} : h = [remaining |-> {n}, limited |-> l]
      <4> DEFINE told == {{}, {TRUE}}
      <4>1. Clients!Headers = {Clients!Silent} \cup {[remaining |-> {n}, limited |-> l] : n \in 0..MaxRemaining, l \in told}
        BY DEF Clients!Headers
      <4> HIDE DEF told
      <4>2. h = Clients!Silent \/ \E n \in 0..MaxRemaining, l \in told : h = [remaining |-> {n}, limited |-> l]
        BY <4>1
      <4> QED
        BY <4>2 DEF told
    <3>2. CASE h = Clients!Silent
      BY <3>2 DEF Clients!Silent
    <3>3. CASE \E n \in 0..MaxRemaining, l \in {{}, {TRUE}} : h = [remaining |-> {n}, limited |-> l]
      <4>1. PICK n \in 0..MaxRemaining, l \in {{}, {TRUE}} : h = [remaining |-> {n}, limited |-> l]
        BY <3>3
      <4>2. h.remaining = {n}
        BY <4>1
      <4> QED
        BY <4>2
    <3> QED
      BY <3>1, <3>2, <3>3
  <2>2. ASSUME NEW n \in 0..MaxRemaining, h.remaining = {n} PROVE Clients!Max(h.remaining) = n
    BY <2>2 DEF Clients!Max
  <2>3. token[t].remaining \in 0..MaxRemaining
    BY <1>1 DEF TokenRecord
  <2> QED
    BY <2>1, <2>2, <2>3
<1>3. reset \in BOOLEAN
  BY <1>1 DEF TokenRecord
<1>4. token' = [token EXCEPT ![t] = r]
  BY DEF Clients!Released
<1> HIDE DEF left, reset
<1>5. r \in TokenRecord /\ ~r.inUse
  BY <1>2, <1>3 DEF TokenRecord
<1> HIDE DEF r
<1> QED
  BY <1>1, <1>4, <1>5

\* An answer: the token is given back, and every sleeper looks again.
LEMMA FinishKeeps ==
    ASSUME ClientsAssumptions, ClientsCInv, NEW c \in Calls, NEW h \in Clients!Headers, NEW s, Settled(s),
           kind[c] \in Clients!GitHubKinds, call[c].pc = "sent", Clients!Finish(c, h, s), kind' = kind,
           limited' \in Nat, limited <= limited', Bounded(s, limited')
    PROVE  ClientsCInv'
<1> DEFINE t == call[c].holds
<1>1. t \in Tokens /\ call \in [Calls -> CallRecord] /\ limited \in Nat
  BY DEF ClientsCInv, HoldsWhileSent, ClientsTypes, CallRecord
<1>2. /\ token' \in [Tokens -> TokenRecord] /\ ~token'[t].inUse
      /\ \A u \in Tokens \ {t} : token'[u] = token[u]
  BY <1>1, ReleasedToken DEF ClientsCInv, Clients!Finish
<1>3. /\ lost' = lost /\ turn' = turn /\ call' = Clients!Notified([call EXCEPT ![c] = s])
  BY DEF Clients!Finish
<1>4. call'[c] = s /\ s \in CallRecord /\ s.pc \in {"acquire", "done"} /\ s.holds = NoToken
  BY <1>1, <1>3 DEF Clients!Notified, Settled
<1>5. ASSUME NEW d \in Calls \ {c}
      PROVE  /\ call'[d] \in CallRecord /\ call'[d].holds = call[d].holds /\ call'[d].pc # "waiting"
             /\ call'[d].items = call[d].items /\ call'[d].attempt = call[d].attempt
             /\ call'[d].pc = "sent" <=> call[d].pc = "sent"
  <2>1. call'[d] = IF call[d].pc = "waiting" THEN [call[d] EXCEPT !.pc = "acquire", !.timers = {}] ELSE call[d]
    BY <1>1, <1>3 DEF Clients!Notified
  <2>2. call[d] \in CallRecord
    BY <1>1
  <2> QED
    BY <2>1, <2>2 DEF CallRecord
<1>6. ClientsTypes'
  <2>1. \A d \in Calls : call'[d] \in CallRecord
    BY <1>4, <1>5
  <2>2. call' = [d \in Calls |-> call'[d]]
    <3> DEFINE calls == [call EXCEPT ![c] = s]
    <3>1. call' = Clients!Notified(calls)
      BY <1>3
    <3> HIDE DEF calls
    <3> QED
      BY <3>1 DEF Clients!Notified
  <2> QED
    BY <1>2, <1>3, <2>1, <2>2 DEF ClientsCInv, ClientsTypes
<1>7. Bounds'
  <2> SUFFICES ASSUME NEW d \in Calls PROVE Bounded(call'[d], limited')
    BY DEF Bounds
  <2>1. CASE d = c
    BY <1>4, <2>1
  <2>2. CASE d # c
    <3>1. Bounded(call[d], limited')
      BY <1>1, BoundsGrow DEF ClientsCInv, Bounds
    <3> QED
      BY <1>5, <2>2, <3>1 DEF Bounded
  <2> QED
    BY <2>1, <2>2
<1>8. t # NoToken
  BY <1>1 DEF ClientsAssumptions, Clients!TokensAssumption
<1>9. HoldsWhileSent' /\ OneHolder'
  BY <1>4, <1>5 DEF ClientsCInv, HoldsWhileSent, OneHolder
<1>10. InUseMeansHeld' /\ LostStaysInUse'
  <2>1. t \notin lost /\ token[t].inUse
    BY <1>1 DEF ClientsCInv, InUseMeansHeld
  <2>2. \A d \in Calls \ {c} : call[d].holds # t
    BY <1>8 DEF ClientsCInv, OneHolder
  <2>3. ASSUME NEW u \in Tokens PROVE (token'[u].inUse /\ u \notin lost') <=> \E d \in Calls : call'[d].holds = u
    <3>1. CASE u = t
      BY <1>2, <1>4, <1>5, <1>8, <2>2, <3>1
    <3>2. CASE u # t
      <4>1. (\E d \in Calls : call'[d].holds = u) <=> \E d \in Calls : call[d].holds = u
        <5>1. NoToken # u
          BY DEF ClientsAssumptions, Clients!TokensAssumption
        <5> QED
          BY <1>4, <1>5, <3>2, <5>1
      <4> QED
        BY <1>2, <1>3, <3>2, <4>1 DEF ClientsCInv, InUseMeansHeld
    <3> QED
      BY <3>1, <3>2
  <2> QED
    BY <1>2, <1>3, <2>1, <2>3 DEF ClientsCInv, InUseMeansHeld, LostStaysInUse, ClientsTypes
<1>11. SleepersWatch'
  BY <1>4, <1>5 DEF SleepersWatch
<1> QED
  BY <1>6, <1>7, <1>9, <1>10, <1>11 DEF ClientsCInv

\* A call that goes on without a token, before and after.
LEMMA ClientsCallKeeps ==
    ASSUME ClientsAssumptions, ClientsCInv, NEW c \in Calls, NEW s \in CallRecord, call' = [call EXCEPT ![c] = s],
           call[c].holds = NoToken, s.holds = NoToken, kind[c] \in Clients!GitHubKinds => s.pc # "sent",
           s.pc = "waiting" => \A t \in Tokens : ~token[t].inUse => t \in s.timers /\ token[t].remaining = 0,
           UNCHANGED <<kind, token, lost>>, turn' \in Nat,
           limited' \in Nat, limited <= limited', Bounded(s, limited')
    PROVE  ClientsCInv'
<1>1. call \in [Calls -> CallRecord] /\ limited \in Nat
  BY DEF ClientsCInv, ClientsTypes
<1>2. call'[c] = s /\ \A d \in Calls \ {c} : call'[d] = call[d]
  BY <1>1
<1>3. ClientsTypes'
  BY <1>1 DEF ClientsCInv, ClientsTypes
<1>4. Bounds'
  BY <1>1, <1>2, BoundsGrow DEF ClientsCInv, Bounds
<1>5. HoldsWhileSent' /\ OneHolder'
  BY <1>2 DEF ClientsCInv, HoldsWhileSent, OneHolder
<1>6. \A d \in Calls : call'[d].holds = call[d].holds
  BY <1>2
<1>7. InUseMeansHeld' /\ LostStaysInUse'
  BY <1>6 DEF ClientsCInv, InUseMeansHeld, LostStaysInUse
<1>8. SleepersWatch'
  BY <1>2 DEF ClientsCInv, SleepersWatch
<1> QED
  BY <1>3, <1>4, <1>5, <1>7, <1>8 DEF ClientsCInv

LEMMA AcquireKeeps ==
    ASSUME ClientsAssumptions, ClientsCInv, NEW c \in Calls, Clients!Acquire(c)
    PROVE  ClientsCInv'
<1>1. /\ kind[c] \in Clients!GitHubKinds /\ call[c].pc = "acquire"
      /\ UNCHANGED <<kind, lost, turn, limited>>
      /\ call \in [Calls -> CallRecord] /\ token \in [Tokens -> TokenRecord] /\ limited \in Nat
  BY DEF Clients!Acquire, ClientsCInv, ClientsTypes
<1>2. PICK t \in Tokens :
        /\ Clients!Available(t) /\ token' = [token EXCEPT ![t].inUse = TRUE]
        /\ call' = [call EXCEPT ![c].pc = "sent", ![c].holds = t]
  BY DEF Clients!Acquire
<1>3. ~token[t].inUse
  BY <1>2 DEF Clients!Available
<1>4. /\ token' \in [Tokens -> TokenRecord] /\ token'[t].inUse /\ token'[t].remaining = token[t].remaining
      /\ \A u \in Tokens \ {t} : token'[u] = token[u]
  BY <1>1, <1>2 DEF TokenRecord
<1>5. /\ call'[c] \in CallRecord /\ call'[c].pc = "sent" /\ call'[c].holds = t
      /\ call'[c].items = call[c].items /\ call'[c].attempt = call[c].attempt
      /\ \A d \in Calls \ {c} : call'[d] = call[d]
      /\ call' \in [Calls -> CallRecord]
  <2> DEFINE s == [call[c] EXCEPT !.pc = "sent", !.holds = t]
  <2>1. call' = [call EXCEPT ![c] = s]
    BY <1>1, <1>2
  <2>2. call[c] \in CallRecord
    BY <1>1
  <2>3. s \in CallRecord /\ s.pc = "sent" /\ s.holds = t /\ s.items = call[c].items /\ s.attempt = call[c].attempt
    BY <2>2 DEF CallRecord
  <2> HIDE DEF s
  <2> QED
    BY <1>1, <2>1, <2>3
<1>6. t # NoToken /\ t \notin lost /\ \A d \in Calls : call[d].holds # t
  BY <1>3 DEF ClientsCInv, InUseMeansHeld, LostStaysInUse, ClientsAssumptions, Clients!TokensAssumption
<1>7. ClientsTypes'
  BY <1>1, <1>4, <1>5 DEF ClientsCInv, ClientsTypes
<1>8. Bounds'
  BY <1>1, <1>5 DEF ClientsCInv, Bounds, Bounded
<1>9. HoldsWhileSent' /\ OneHolder'
  BY <1>1, <1>5, <1>6 DEF ClientsCInv, HoldsWhileSent, OneHolder
<1>10. InUseMeansHeld' /\ LostStaysInUse'
  <2>1. call[c].holds = NoToken /\ NoToken \notin Tokens
    BY <1>1 DEF ClientsCInv, HoldsWhileSent, ClientsAssumptions, Clients!TokensAssumption
  <2>2. ASSUME NEW u \in Tokens PROVE (token'[u].inUse /\ u \notin lost') <=> \E d \in Calls : call'[d].holds = u
    <3>1. CASE u = t
      BY <1>1, <1>4, <1>5, <1>6, <3>1
    <3>2. CASE u # t
      <4>1. (\E d \in Calls : call'[d].holds = u) <=> \E d \in Calls : call[d].holds = u
        BY <1>5, <2>1, <3>2
      <4> QED
        BY <1>1, <1>4, <3>2, <4>1 DEF ClientsCInv, InUseMeansHeld
    <3> QED
      BY <3>1, <3>2
  <2>3. LostStaysInUse'
    BY <1>1, <1>4, <1>6 DEF ClientsCInv, LostStaysInUse, ClientsTypes
  <2> QED
    BY <2>2, <2>3 DEF InUseMeansHeld
<1>11. SleepersWatch'
  <2> SUFFICES ASSUME NEW d \in Calls, call'[d].pc = "waiting", NEW u \in Tokens, ~token'[u].inUse
               PROVE  u \in call'[d].timers /\ token'[u].remaining = 0
    BY DEF SleepersWatch
  <2>1. d # c /\ u # t
    BY <1>4, <1>5
  <2> QED
    BY <1>4, <1>5, <2>1 DEF ClientsCInv, SleepersWatch
<1> QED
  BY <1>7, <1>8, <1>9, <1>10, <1>11 DEF ClientsCInv

LEMMA BreakKeeps ==
    ASSUME ClientsAssumptions, ClientsCInv, NEW c \in Calls, Clients!Break(c)
    PROVE  ClientsCInv'
<1> DEFINE t == call[c].holds
           s == Clients!Ended(call[c], "raised")
<1>1. /\ kind[c] \in Clients!GitHubKinds /\ call[c].pc = "sent" /\ lost' = lost \cup {t}
      /\ UNCHANGED <<kind, token, turn, limited>>
      /\ call \in [Calls -> CallRecord] /\ call[c] \in CallRecord
  BY DEF Clients!Break, ClientsCInv, ClientsTypes
<1>2. call' = [call EXCEPT ![c] = s]
  BY DEF Clients!Break
<1>3. Settled(s) /\ s.attempt = call[c].attempt
  BY <1>1, EndedSettles DEF ClientsCInv, Bounds, Bounded
<1>4. s.pc = "done" /\ s.holds = NoToken /\ s \in CallRecord /\ s.items <= MaxItems
  BY <1>1, <1>3 DEF Settled, Clients!Ended, CallRecord
<1> HIDE DEF s
<1>5. t \in Tokens /\ t # NoToken
  BY <1>1 DEF ClientsCInv, HoldsWhileSent, ClientsTypes, CallRecord
<1>6. call'[c] = s /\ \A d \in Calls \ {c} : call'[d] = call[d]
  BY <1>1, <1>2
<1>7. ClientsTypes'
  BY <1>1, <1>2, <1>4, <1>5 DEF ClientsCInv, ClientsTypes
<1>8. Bounds'
  BY <1>1, <1>3, <1>4, <1>6 DEF ClientsCInv, Bounds, Bounded
<1>9. HoldsWhileSent' /\ OneHolder'
  BY <1>1, <1>4, <1>6 DEF ClientsCInv, HoldsWhileSent, OneHolder
<1>10. InUseMeansHeld' /\ LostStaysInUse'
  <2>1. token[t].inUse /\ \A d \in Calls \ {c} : call[d].holds # t
    BY <1>5 DEF ClientsCInv, InUseMeansHeld, OneHolder
  <2>2. NoToken \notin Tokens
    BY DEF ClientsAssumptions, Clients!TokensAssumption
  <2>3. ASSUME NEW u \in Tokens PROVE (token'[u].inUse /\ u \notin lost') <=> \E d \in Calls : call'[d].holds = u
    <3>1. CASE u = t
      BY <1>1, <1>4, <1>6, <2>1, <2>2, <3>1
    <3>2. CASE u # t
      <4>1. (\E d \in Calls : call'[d].holds = u) <=> \E d \in Calls : call[d].holds = u
        BY <1>4, <1>6, <2>2, <3>2
      <4> QED
        BY <1>1, <3>2, <4>1 DEF ClientsCInv, InUseMeansHeld
    <3> QED
      BY <3>1, <3>2
  <2> QED
    BY <1>1, <2>1, <2>3 DEF ClientsCInv, InUseMeansHeld, LostStaysInUse
<1>11. SleepersWatch'
  BY <1>1, <1>4, <1>6 DEF ClientsCInv, SleepersWatch
<1> QED
  BY <1>7, <1>8, <1>9, <1>10, <1>11 DEF ClientsCInv

LEMMA ResetKeeps ==
    ASSUME ClientsAssumptions, ClientsCInv, NEW t \in Tokens, Clients!ResetPasses(t)
    PROVE  ClientsCInv'
<1>1. /\ token' = [token EXCEPT ![t].limited = FALSE] /\ token \in [Tokens -> TokenRecord]
      /\ UNCHANGED <<kind, lost, turn, call, limited>>
  BY DEF Clients!ResetPasses, ClientsCInv, ClientsTypes
<1>2. /\ token' \in [Tokens -> TokenRecord]
      /\ \A u \in Tokens : token'[u].inUse = token[u].inUse /\ token'[u].remaining = token[u].remaining
  BY <1>1 DEF TokenRecord
<1>3. ClientsTypes' /\ Bounds' /\ HoldsWhileSent' /\ OneHolder'
  BY <1>1, <1>2 DEF ClientsCInv, ClientsTypes, Bounds, HoldsWhileSent, OneHolder
<1>4. InUseMeansHeld' /\ LostStaysInUse' /\ SleepersWatch'
  BY <1>1, <1>2 DEF ClientsCInv, InUseMeansHeld, LostStaysInUse, SleepersWatch, ClientsTypes
<1> QED
  BY <1>3, <1>4 DEF ClientsCInv

LEMMA ClientsKeeps == ClientsAssumptions /\ ClientsCInv /\ [Clients!Next]_Clients!clientVars => ClientsCInv'
<1> SUFFICES ASSUME ClientsAssumptions, ClientsCInv, [Clients!Next]_Clients!clientVars PROVE ClientsCInv'
  OBVIOUS
<1>1. /\ call \in [Calls -> CallRecord] /\ limited \in Nat /\ turn \in Nat /\ limited + 1 \in Nat
      /\ \A c \in Calls : Bounded(call[c], limited)
  BY DEF ClientsCInv, ClientsTypes, Bounds
<1>2. ASSUME NEW c \in Calls, NEW s, Settled(s), call[c].holds = NoToken, call' = [call EXCEPT ![c] = s],
             UNCHANGED <<kind, token, lost>>, turn' \in Nat, limited' \in Nat, limited <= limited',
             Bounded(s, limited')
      PROVE  ClientsCInv'
  BY <1>2, ClientsCallKeeps DEF Settled
<1>3. ASSUME NEW c \in Calls, Clients!Acquire(c) PROVE ClientsCInv'
  BY <1>3, AcquireKeeps
<1>4. ASSUME NEW c \in Calls, Clients!Wait(c) PROVE ClientsCInv'
  <2> DEFINE free == {t \in Tokens : ~token[t].inUse}
             s == [call[c] EXCEPT !.pc = "waiting", !.timers = free]
  <2>1. /\ kind[c] \in Clients!GitHubKinds /\ call[c].pc = "acquire" /\ ~\E t \in Tokens : Clients!Available(t)
        /\ call' = [call EXCEPT ![c] = s] /\ UNCHANGED <<kind, token, lost, turn, limited>>
    BY <1>1, <1>4 DEF Clients!Wait
  <2>2. call[c].holds = NoToken
    BY <2>1 DEF ClientsCInv, HoldsWhileSent
  <2>3. s \in CallRecord /\ s.holds = NoToken /\ s.pc = "waiting" /\ s.timers = free
        /\ s.items = call[c].items /\ s.attempt = call[c].attempt
    BY <1>1, <2>2 DEF CallRecord
  <2>4. ASSUME NEW t \in Tokens, ~token[t].inUse PROVE t \in free /\ token[t].remaining = 0
    <3>1. ~(token[t].remaining > 0) /\ token[t].remaining \in 0..MaxRemaining /\ MaxRemaining \in Nat
      BY <2>1, <2>4
         DEF Clients!Available, ClientsCInv, ClientsTypes, TokenRecord, ClientsAssumptions,
             Clients!LimitsAssumption
    <3> QED
      BY <2>4, <3>1
  <2>5. Bounded(s, limited') /\ limited <= limited'
    BY <1>1, <2>1, <2>3 DEF Bounded
  <2> HIDE DEF s, free
  <2> QED
    BY <1>1, <2>1, <2>2, <2>3, <2>4, <2>5, ClientsCallKeeps
<1>5. ASSUME NEW c \in Calls, Clients!WakeUp(c) PROVE ClientsCInv'
  <2> DEFINE s == [call[c] EXCEPT !.pc = "acquire", !.timers = {}]
  <2>1. /\ call[c].pc = "waiting" /\ call' = [call EXCEPT ![c] = s]
        /\ UNCHANGED <<kind, token, lost, turn, limited>>
    BY <1>1, <1>5 DEF Clients!WakeUp
  <2>2. call[c].holds = NoToken
    BY <2>1 DEF ClientsCInv, HoldsWhileSent
  <2>3. s \in CallRecord /\ s.holds = NoToken /\ s.pc = "acquire" /\ s.items = call[c].items
        /\ s.attempt = call[c].attempt
    BY <1>1, <2>2 DEF CallRecord
  <2>4. Bounded(s, limited') /\ Settled(s) /\ limited <= limited'
    BY <1>1, <2>1, <2>3 DEF Bounded, Settled
  <2> HIDE DEF s
  <2> QED
    BY <1>1, <1>2, <2>1, <2>2, <2>4
<1>6. ASSUME NEW c \in Calls, Clients!NetworkError(c) PROVE ClientsCInv'
  <2>1. /\ kind[c] \in Clients!GitHubKinds /\ call[c].pc = "sent" /\ kind' = kind /\ limited' = limited
        /\ Clients!Finish(c, Clients!Silent, Clients!Retry(call[c])) /\ Clients!Silent \in Clients!Headers
    BY <1>6 DEF Clients!NetworkError, Clients!Headers
  <2>2. Settled(Clients!Retry(call[c])) /\ Bounded(Clients!Retry(call[c]), limited)
    BY <1>1, RetrySettles
  <2> QED
    BY <1>1, <2>1, <2>2, FinishKeeps
<1>7. ASSUME NEW c \in Calls, Clients!Break(c) PROVE ClientsCInv'
  BY <1>7, BreakKeeps
<1>8. ASSUME NEW c \in Calls, NEW h \in Clients!Headers, Clients!Answer(c, h) PROVE ClientsCInv'
  <2>1. /\ kind[c] \in Clients!GitHubKinds /\ call[c].pc = "sent" /\ kind' = kind /\ limited' = limited
    BY <1>8 DEF Clients!Answer
  <2>2. PICK s \in Clients!GitHubBody(c, call[c]) \cup {Clients!Ended(call[c], "permanent"), Clients!Retry(call[c])} : Clients!Finish(c, h, s)
    BY <1>8 DEF Clients!Answer
  <2>3. kind[c] \notin Clients!HfKinds
    BY <2>1 DEF Clients!GitHubKinds, Clients!HfKinds
  <2>4. Settled(s) /\ Bounded(s, limited)
    BY <1>1, <2>3, Answers
  <2> QED
    BY <1>1, <2>1, <2>2, <2>4, FinishKeeps
<1>9. ASSUME NEW c \in Calls, NEW h \in Clients!Headers, Clients!RateLimited(c, h) PROVE ClientsCInv'
  <2>1. /\ kind[c] \in Clients!GitHubKinds /\ call[c].pc = "sent" /\ kind' = kind /\ limited' = limited + 1
        /\ Clients!Finish(c, h, Clients!Again(call[c]))
    BY <1>9 DEF Clients!RateLimited
  <2>2. Settled(Clients!Again(call[c])) /\ Clients!Again(call[c]).attempt = call[c].attempt + 1
    BY <1>1, AgainSettles DEF Bounded
  <2>3. call[c].attempt \in Nat /\ MaxRetries \in Nat
    BY <1>1 DEF CallRecord, ClientsAssumptions, Clients!LimitsAssumption
  <2>4. Bounded(Clients!Again(call[c]), limited + 1) /\ limited <= limited + 1
    BY <1>1, <2>2, <2>3 DEF Bounded, Settled
  <2> QED
    BY <1>1, <2>1, <2>2, <2>4, FinishKeeps
<1>10. ASSUME NEW c \in Calls, kind[c] \in Clients!HfKinds PROVE call[c].holds = NoToken /\ kind[c] \notin Clients!GitHubKinds
  BY <1>10 DEF ClientsCInv, HoldsWhileSent, Clients!GitHubKinds, Clients!HfKinds
<1>11. ASSUME NEW c \in Calls, Clients!HfSend(c) PROVE ClientsCInv'
  <2> DEFINE s == [call[c] EXCEPT !.pc = "sent"]
  <2>1. /\ kind[c] \in Clients!HfKinds /\ call' = [call EXCEPT ![c] = s] /\ UNCHANGED <<kind, token, lost, limited>>
        /\ turn' = IF HfTokens = 0 THEN turn ELSE (turn + 1) % HfTokens
    BY <1>1, <1>11 DEF Clients!HfSend
  <2>2. call[c].holds = NoToken /\ kind[c] \notin Clients!GitHubKinds
    BY <1>10, <2>1
  <2>3. s \in CallRecord /\ s.holds = NoToken /\ s.pc = "sent" /\ s.items = call[c].items
        /\ s.attempt = call[c].attempt
    BY <1>1, <2>2 DEF CallRecord
  <2>4. turn' \in Nat
    <3>1. HfTokens \in Nat
      BY DEF ClientsAssumptions, Clients!LimitsAssumption
    <3> QED
      BY <1>1, <2>1, <3>1
  <2>5. Bounded(s, limited') /\ limited <= limited'
    BY <1>1, <2>1, <2>3 DEF Bounded
  <2> HIDE DEF s
  <2> QED
    BY <1>1, <2>1, <2>2, <2>3, <2>4, <2>5, ClientsCallKeeps
<1>12. ASSUME NEW c \in Calls, Clients!HfAnswer(c) PROVE ClientsCInv'
  <2>1. kind[c] \in Clients!HfKinds /\ UNCHANGED <<kind, token, lost, turn, limited>>
    BY <1>12 DEF Clients!HfAnswer
  <2>2. PICK s \in Clients!HfBody(c, call[c]) \cup Clients!AsOrganisation(c, call[c])
                \cup {Clients!Retry(call[c]), Clients!Ended(call[c], "permanent")} : call' = [call EXCEPT ![c] = s]
    BY <1>12 DEF Clients!HfAnswer
  <2>3. call[c].holds = NoToken
    BY <1>10, <2>1
  <2>4. Settled(s) /\ Bounded(s, limited)
    BY <1>1, <2>3, Answers
  <2>5. limited <= limited'
    BY <1>1, <2>1
  <2> QED
    BY <1>1, <1>2, <2>1, <2>2, <2>3, <2>4, <2>5
<1>13. ASSUME NEW c \in Calls, Clients!HfRateLimited(c) PROVE ClientsCInv'
  <2> DEFINE s == Clients!Again(call[c])
  <2>1. /\ kind[c] \in Clients!HfKinds /\ call' = [call EXCEPT ![c] = s] /\ limited' = limited + 1
        /\ UNCHANGED <<kind, token, lost, turn>>
    BY <1>13 DEF Clients!HfRateLimited
  <2>2. Settled(s) /\ s.attempt = call[c].attempt + 1
    BY <1>1, AgainSettles DEF Bounded
  <2>3. call[c].attempt \in Nat /\ MaxRetries \in Nat /\ call[c].holds = NoToken
    BY <1>1, <1>10, <2>1 DEF CallRecord, ClientsAssumptions, Clients!LimitsAssumption
  <2> HIDE DEF s
  <2>4. Bounded(s, limited') /\ limited <= limited'
    BY <1>1, <2>1, <2>2, <2>3 DEF Bounded, Settled
  <2> QED
    BY <1>1, <1>2, <2>1, <2>2, <2>3, <2>4
<1>14. ASSUME NEW t \in Tokens, Clients!ResetPasses(t) PROVE ClientsCInv'
  BY <1>14, ResetKeeps
<1>15. CASE UNCHANGED Clients!clientVars
  BY <1>15
     DEF Clients!clientVars, ClientsCInv, ClientsTypes, Bounds, HoldsWhileSent, OneHolder, InUseMeansHeld,
               LostStaysInUse, SleepersWatch
<1> QED
  BY <1>3, <1>4, <1>5, <1>6, <1>7, <1>8, <1>9, <1>11, <1>12, <1>13, <1>14, <1>15
     DEF Clients!Next, Clients!Request

LEMMA ClientsStarts == ClientsAssumptions /\ Clients!Init => ClientsCInv
<1> SUFFICES ASSUME ClientsAssumptions, Clients!Init PROVE ClientsCInv
  OBVIOUS
<1>1. {MaxRetries, MaxRemaining} \subseteq Nat /\ MaxItems \in Nat \ {0} /\ NoToken \notin Tokens
  BY DEF ClientsAssumptions, Clients!LimitsAssumption, Clients!TokensAssumption
<1>2. Clients!Start \in CallRecord /\ Clients!Start.pc = "acquire" /\ Clients!Start.holds = NoToken /\ Clients!Start.items = 0 /\ Clients!Start.attempt = 1
  BY DEF Clients!Start, CallRecord
<1>3. \A c \in Calls : call[c] = Clients!Start
  BY DEF Clients!Init
<1>4. ClientsTypes
  <2>1. kind \in [Calls -> Clients!GitHubKinds \cup Clients!HfKinds \cup {"none"}]
    BY DEF Clients!Init, ClientsAssumptions, Clients!WorkloadsAssumption
  <2>2. token \in [Tokens -> TokenRecord]
    BY <1>1 DEF Clients!Init, TokenRecord
  <2> QED
    BY <1>2, <2>1, <2>2 DEF Clients!Init, ClientsTypes
<1>5. Bounds
  <2>1. 0 <= MaxItems /\ 1 <= MaxRetries + 1 + 0
    BY <1>1
  <2> QED
    BY <1>2, <1>3, <2>1 DEF Bounds, Bounded, Clients!Init
<1>6. HoldsWhileSent /\ OneHolder /\ SleepersWatch
  BY <1>2, <1>3 DEF HoldsWhileSent, OneHolder, SleepersWatch
<1>7. InUseMeansHeld /\ LostStaysInUse
  BY <1>1, <1>2, <1>3 DEF Clients!Init, InUseMeansHeld, LostStaysInUse
<1> QED
  BY <1>4, <1>5, <1>6, <1>7 DEF ClientsCInv

LEMMA AlwaysCInv == ClientsAssumptions => (Clients!Spec => []ClientsCInv)
<1> SUFFICES ASSUME ClientsAssumptions PROVE Clients!Spec => []ClientsCInv
  OBVIOUS
<1>1. Clients!Init => ClientsCInv
  BY ClientsStarts
<1>2. ClientsCInv /\ [Clients!Next]_Clients!clientVars => ClientsCInv'
  BY ClientsKeeps
<1> QED
  BY <1>1, <1>2, PTL DEF Clients!Spec

\* Every variable has its type; no call keeps more than it was asked for, nor
\* tries again more often than its retries and the rate limits allow, of which
\* there may be any number (gh/client.py and hf/client.py).
THEOREM ClientsTypeCorrect == ClientsAssumptions => (Clients!Spec => []Clients!TypeOK)
<1> SUFFICES ASSUME ClientsAssumptions PROVE Clients!Spec => []Clients!TypeOK
  OBVIOUS
<1>1. ClientsCInv => Clients!TypeOK
  BY DEF ClientsCInv, ClientsTypes, TokenRecord, Bounds, Bounded, Clients!TypeOK
<1> QED
  BY <1>1, AlwaysCInv, PTL

\* A token is free, with exactly one call, or lost; and no call sleeps beside a
\* token it could have, unless its timer has run out (token_pool.py, acquire and
\* release).
THEOREM TokensAreKept == ClientsAssumptions => (Clients!Spec => []Clients!TokensFlow)
<1> SUFFICES ASSUME ClientsAssumptions PROVE Clients!Spec => []Clients!TokensFlow
  OBVIOUS
<1>1. ASSUME ClientsCInv PROVE Clients!TokensFlow
  <2>1. ASSUME NEW t \in Tokens
        PROVE  Clients!Cardinality({c \in Calls : call[c].holds = t}) = IF token[t].inUse /\ t \notin lost THEN 1 ELSE 0
    <3> DEFINE holders == {c \in Calls : call[c].holds = t}
    <3>1. CASE token[t].inUse /\ t \notin lost
      <4>1. PICK c \in Calls : call[c].holds = t
        BY <1>1, <3>1 DEF ClientsCInv, InUseMeansHeld
      <4>2. t # NoToken
        BY DEF ClientsAssumptions, Clients!TokensAssumption
      <4>3. holders = {c}
        BY <1>1, <4>1, <4>2 DEF ClientsCInv, OneHolder
      <4> QED
        BY <3>1, <4>3, ClientsFS_Singleton
    <3>2. CASE ~(token[t].inUse /\ t \notin lost)
      <4>1. holders = {}
        BY <1>1, <3>2 DEF ClientsCInv, InUseMeansHeld
      <4> QED
        BY <3>2, <4>1, ClientsFS_EmptySet
    <3> QED
      BY <3>1, <3>2
  <2>2. ASSUME NEW c \in Calls, call[c].pc = "waiting", ~Clients!TimerRunsOut(c), NEW t \in Tokens, Clients!Available(t)
        PROVE  FALSE
    <3>1. ~token[t].inUse /\ (token[t].remaining > 0 \/ ~token[t].limited)
      BY <2>2 DEF Clients!Available
    <3>2. t \in call[c].timers /\ token[t].remaining = 0
      BY <1>1, <2>2, <3>1 DEF ClientsCInv, SleepersWatch
    <3>3. token[t].limited
      BY <2>2, <3>2 DEF Clients!TimerRunsOut
    <3> QED
      BY <3>1, <3>2, <3>3
  <2> QED
    BY <2>1, <2>2 DEF Clients!TokensFlow
<1>2. ClientsCInv => Clients!TokensFlow
  BY <1>1
<1> QED
  BY <1>2, AlwaysCInv, PTL

-----------------------------------------------------------------------------
(* The part in the system.                                                  *)

\* A behaviour of the system is this part's, or leaves it alone.
LEMMA ClientsAlone ==
    /\ Init /\ part = "clients" => Clients!Init
    /\ [Next]_vars /\ part = "clients" => (part = "clients")' /\ [Clients!Next]_(Clients!clientVars)
    /\ [Next]_vars /\ ~(part = "clients") => (~(part = "clients"))'
<1> USE DEF ClientsNext, LinkedInNext, IndexNext, ScheduleNext, BillingNext, SearchNext, CommandsNext
<1>1. Init /\ part = "clients" => Clients!Init
  BY DEF Init
<1>2. Next => part' = part
  BY DEF Next
<1>3. Next /\ part = "clients" => Clients!Next
  BY DEF Next
<1>4. UNCHANGED vars => part' = part /\ UNCHANGED Clients!clientVars
  BY DEF vars, clientVars, Clients!clientVars
<1> QED
  BY <1>1, <1>2, <1>3, <1>4

WholeClients ==
    Clients!TypeOK /\ Clients!TokensFlow

LEMMA ClientsAlwaysHold == ClientsAssumptions => (Spec => [](part = "clients" => WholeClients))
<1> SUFFICES ASSUME ClientsAssumptions PROVE Spec => [](part = "clients" => WholeClients)
  OBVIOUS
<1>1. Clients!Spec => []WholeClients
  <2>1. Clients!Spec => []Clients!TypeOK
    BY ClientsTypeCorrect
  <2>2. Clients!Spec => []Clients!TokensFlow
    BY TokensAreKept
  <2>3. Clients!TypeOK /\ Clients!TokensFlow => WholeClients
    BY DEF WholeClients
  <2> HIDE DEF WholeClients
  <2> QED
    BY <2>1, <2>2, <2>3, PTL
<1>2. Init /\ part = "clients" => Clients!Init
  BY ClientsAlone
<1>3. [Next]_vars /\ part = "clients" => (part = "clients")' /\ [Clients!Next]_(Clients!clientVars)
  BY ClientsAlone
<1>4. [Next]_vars /\ ~(part = "clients") => (~(part = "clients"))'
  BY ClientsAlone
<1> HIDE DEF WholeClients, Init, Next, Clients!Init, Clients!Next
<1> QED
  BY <1>1, <1>2, <1>3, <1>4, PTL DEF Spec, Clients!Spec

\* In every behaviour of the system's clients no token is lost or held twice, and no
\* call sleeps beside a token it could have, for any tokens and calls (token_pool.py).
THEOREM TokensKept == ClientsAssumptions => (Spec => []TokensFlow)
<1>1. (part = "clients" => WholeClients) => TokensFlow
  BY DEF WholeClients, TokensFlow
<1> HIDE DEF WholeClients, TokensFlow
<1> QED
  BY <1>1, ClientsAlwaysHold, PTL

-----------------------------------------------------------------------------
(* LinkedIn ingestion (LinkedInIngest).                                    *)

LEMMA LinkedInCounting ==
    \A S : LinkedIn!Cardinality(S) = Cardinality(S) /\ (LinkedIn!IsFiniteSet(S) <=> IsFiniteSet(S))
  BY Zenon DEF LinkedIn!Cardinality, Cardinality, LinkedIn!IsFiniteSet, IsFiniteSet

LEMMA LinkedInFS_EmptySet ==
    /\ LinkedIn!IsFiniteSet({}) /\ LinkedIn!Cardinality({}) = 0
    /\ \A S : LinkedIn!IsFiniteSet(S) => (LinkedIn!Cardinality(S) = 0 <=> S = {})
  BY FS_EmptySet, LinkedInCounting

LEMMA LinkedInFS_CardinalityType ==
    ASSUME NEW S, LinkedIn!IsFiniteSet(S) PROVE LinkedIn!Cardinality(S) \in Nat
  BY FS_CardinalityType, LinkedInCounting

LEMMA LinkedInFS_RemoveElement ==
    ASSUME NEW S, NEW x, LinkedIn!IsFiniteSet(S)
    PROVE  /\ LinkedIn!IsFiniteSet(S \ {x})
           /\ LinkedIn!Cardinality(S \ {x}) = IF x \in S THEN LinkedIn!Cardinality(S) - 1 ELSE LinkedIn!Cardinality(S)
  BY FS_RemoveElement, LinkedInCounting

LEMMA LinkedInFS_Subset ==
    ASSUME NEW S, NEW T, LinkedIn!IsFiniteSet(S), T \subseteq S
    PROVE  /\ LinkedIn!IsFiniteSet(T) /\ LinkedIn!Cardinality(T) <= LinkedIn!Cardinality(S)
           /\ LinkedIn!Cardinality(S) = LinkedIn!Cardinality(T) => S = T
  BY FS_Subset, LinkedInCounting

LinkedInAssumptions == LinkedIn!LimitsAssumption /\ LinkedIn!UrlsAssumption

Places == {"idle", "get", "recent", "ingesting", "fetch", "sleep", "response", "store", "success",
           "complete", "close", "nodata", "giveup", "handler", "handled", "dead"}
\* Where a worker has an address, and where it has marked it as being ingested.
Busy == Places \ {"idle", "get", "dead"}
InHand == {"fetch", "sleep", "response", "store", "success", "complete", "nodata", "giveup"}

PendingRow == [status : {"absent", "pending", "ingesting", "completed", "failed"}, priority : 0..3]
WorkerRecord == [pc : Places, url : LinkedIn!Urls \cup {None}]

TablesTyped ==
    /\ pending \in [LinkedIn!Urls -> PendingRow]
    /\ checkpoint \in [LinkedIn!Urls -> {"absent", "success", "failed", "old"}]
    /\ stored \subseteq LinkedIn!Urls
WorkersTyped ==
    /\ worker \in [Workers -> WorkerRecord]
    /\ \A w \in Workers : worker[w].pc \in Busy => worker[w].url \in LinkedIn!Urls
LinkedInRunTyped ==
    /\ queue \in Seq(LinkedIn!Urls) /\ spent \in Nat /\ sent \in Nat
    /\ window \in [count : 0..Rpm, over : BOOLEAN]
    /\ lnCount \in [runs : Nat, faults : Nat, minutes : Nat]

\* What may still be paid for is paid within the budget and one address for every other worker.
Flying == {w \in Workers : worker[w].pc \in {"sleep", "response"}}
Paid == spent + LinkedIn!Cardinality(Flying) <= Budget + LinkedIn!Cardinality(Workers) - 1

\* The window knows of all that was sent but what the sleepers sent together.
Sent == IF window.over THEN sent = 0 ELSE sent <= window.count + LinkedIn!Cardinality(Workers) - 1

StoredFirst ==
    /\ \A u \in LinkedIn!Urls : pending[u].status = "completed" \/ checkpoint[u] \in {"success", "old"} => u \in stored
    /\ \A w \in Workers : worker[w].pc \in {"success", "complete"} => worker[w].url \in stored

HeldUnlessFault == lnCount.faults = 0 =>
    /\ \A u \in LinkedIn!Urls : pending[u].status = "ingesting" =>
         \E w \in Workers : worker[w].url = u /\ worker[w].pc \in InHand
    /\ \A w \in Workers : worker[w].pc \notin {"handler", "handled", "dead"}

LInv == TablesTyped /\ WorkersTyped /\ LinkedInRunTyped /\ Paid /\ Sent /\ StoredFirst /\ HeldUnlessFault

-----------------------------------------------------------------------------
LEMMA WorkersCount ==
    ASSUME LinkedIn!LimitsAssumption PROVE LinkedIn!Cardinality(Workers) \in Nat /\ LinkedIn!Cardinality(Workers) >= 1
  BY LinkedInFS_CardinalityType, LinkedInFS_EmptySet DEF LinkedIn!LimitsAssumption

LEMMA FlyingCount ==
    ASSUME LinkedIn!LimitsAssumption, NEW S \in SUBSET Workers
    PROVE  LinkedIn!IsFiniteSet(S) /\ LinkedIn!Cardinality(S) \in Nat /\ LinkedIn!Cardinality(S) <= LinkedIn!Cardinality(Workers)
  BY LinkedInFS_Subset, LinkedInFS_CardinalityType DEF LinkedIn!LimitsAssumption

LEMMA LinkedInStarts == ASSUME LinkedIn!LimitsAssumption, LinkedIn!Init PROVE LInv
<1>1. TablesTyped
  BY DEF LinkedIn!Init, TablesTyped, PendingRow
<1>2. WorkersTyped
  BY DEF LinkedIn!Init, WorkersTyped, WorkerRecord, LinkedIn!Resting, Places, Busy
<1>3. LinkedInRunTyped
  <2>1. <<>> \in Seq(LinkedIn!Urls) /\ 0 \in 0..Rpm
    BY DEF LinkedIn!LimitsAssumption
  <2> QED
    BY <2>1 DEF LinkedIn!Init, LinkedInRunTyped
<1>4. Paid
  <2>1. Flying = {}
    BY DEF LinkedIn!Init, LinkedIn!Resting, Flying
  <2> QED
    BY <2>1, LinkedInFS_EmptySet, WorkersCount DEF Paid, LinkedIn!Init, LinkedIn!LimitsAssumption
<1>5. Sent
  BY WorkersCount DEF Sent, LinkedIn!Init
<1>6. StoredFirst /\ HeldUnlessFault
  BY DEF StoredFirst, HeldUnlessFault, LinkedIn!Init, LinkedIn!Resting
<1> QED
  BY <1>1, <1>2, <1>3, <1>4, <1>5, <1>6 DEF LInv

-----------------------------------------------------------------------------
(* Steps of one worker.                                                    *)

\* A worker moves on, with the address it has.
Moves(w, pc) ==
    /\ worker' \in [Workers -> WorkerRecord]
    /\ worker'[w].pc = pc /\ worker'[w].url = worker[w].url
    /\ \A v \in Workers : v # w => worker'[v] = worker[v]

LEMMA GotoMoves ==
    ASSUME WorkersTyped, NEW w \in Workers, NEW pc \in Places, LinkedIn!Goto(w, pc)
    PROVE  Moves(w, pc)
<1>1. worker[w] \in WorkerRecord
  BY DEF WorkersTyped
<1>2. [worker[w] EXCEPT !.pc = pc] \in WorkerRecord /\ [worker[w] EXCEPT !.pc = pc].pc = pc
      /\ [worker[w] EXCEPT !.pc = pc].url = worker[w].url
  BY <1>1 DEF WorkerRecord
<1>3. worker' = [worker EXCEPT ![w] = [worker[w] EXCEPT !.pc = pc]]
  BY DEF LinkedIn!Goto, WorkersTyped
<1> DEFINE next == [worker[w] EXCEPT !.pc = pc]
<1> HIDE DEF next
<1>4. worker' = [worker EXCEPT ![w] = next]
  BY <1>3 DEF next
<1>5. next \in WorkerRecord /\ next.pc = pc /\ next.url = worker[w].url
  BY <1>2 DEF next
<1> QED
  BY <1>4, <1>5 DEF WorkersTyped, Moves

\* Neither place is one where something is to be paid for.
LEMMA MovesAside ==
    ASSUME LinkedIn!LimitsAssumption, LInv, NEW w \in Workers, NEW pc \in Places, Moves(w, pc),
           worker[w].pc \notin {"sleep", "response"}, pc \notin {"sleep", "response"}, spent' = spent
    PROVE  Paid'
<1>1. Flying' = Flying
  BY DEF Moves, Flying
<1> QED
  BY <1>1 DEF LInv, Paid

LEMMA MovesTyped ==
    ASSUME LInv, NEW w \in Workers, NEW pc \in Places, Moves(w, pc), pc \in Busy => worker[w].pc \in Busy
    PROVE  WorkersTyped'
  BY DEF LInv, WorkersTyped, Moves

LEMMA MovesHold ==
    ASSUME LInv, NEW w \in Workers, NEW pc \in Places, Moves(w, pc), lnCount' = lnCount,
           worker[w].pc \in InHand => pc \in InHand, pc \notin {"handler", "handled", "dead"},
           \A u \in LinkedIn!Urls : pending'[u].status = "ingesting" =>
             pending[u].status = "ingesting" \/ (u = worker[w].url /\ pc \in InHand)
    PROVE  HeldUnlessFault'
<1> SUFFICES ASSUME lnCount.faults = 0 PROVE HeldUnlessFault'
  BY DEF HeldUnlessFault
<1>1. \A v \in Workers : worker'[v].pc \notin {"handler", "handled", "dead"}
  BY DEF LInv, HeldUnlessFault, Moves
<1>2. ASSUME NEW u \in LinkedIn!Urls, pending'[u].status = "ingesting"
      PROVE  \E v \in Workers : worker'[v].url = u /\ worker'[v].pc \in InHand
  <2>1. CASE u = worker[w].url /\ pc \in InHand
    BY <2>1 DEF Moves
  <2>2. CASE pending[u].status = "ingesting"
    <3>1. PICK v \in Workers : worker[v].url = u /\ worker[v].pc \in InHand
      BY <2>2 DEF LInv, HeldUnlessFault
    <3> QED
      BY <3>1 DEF Moves
  <2> QED
    BY <1>2, <2>1, <2>2
<1> QED
  BY <1>1, <1>2 DEF HeldUnlessFault

LEMMA GetKeeps ==
    ASSUME LinkedIn!LimitsAssumption, LInv, NEW w \in Workers, LinkedIn!Get(w)
    PROVE  LInv'
<1>0. /\ worker[w].pc = "get" /\ lnCount' = lnCount /\ pending' = pending /\ checkpoint' = checkpoint
      /\ stored' = stored /\ spent' = spent /\ window' = window /\ sent' = sent
  BY DEF LinkedIn!Get
<1>1. TablesTyped' /\ Sent'
  BY <1>0 DEF LInv, TablesTyped, Sent
<1>2. /\ queue' \in Seq(LinkedIn!Urls)
      /\ worker' = worker \/ Moves(w, "idle") \/ (\E u \in LinkedIn!Urls : worker' = [worker EXCEPT ![w] = [pc |-> "recent", url |-> u]])
  <2>1. CASE queue = <<>> /\ LinkedIn!Goto(w, "idle") /\ UNCHANGED queue
    BY <2>1, GotoMoves DEF LInv, LinkedInRunTyped, Places
  <2>2. CASE queue # <<>> /\ queue' = Tail(queue)
    <3>1. Head(queue) \in LinkedIn!Urls /\ Tail(queue) \in Seq(LinkedIn!Urls)
      BY <2>2 DEF LInv, LinkedInRunTyped
    <3> QED
      BY <2>2, <3>1, <1>0 DEF LinkedIn!Get
  <2> QED
    BY <2>1, <2>2 DEF LinkedIn!Get
<1>3. LinkedInRunTyped'
  BY <1>0, <1>2 DEF LInv, LinkedInRunTyped
<1>4. ASSUME NEW pc \in {"idle", "recent", "get"}, worker' \in [Workers -> WorkerRecord], worker'[w].pc = pc,
             pc = "recent" => worker'[w].url \in LinkedIn!Urls, \A v \in Workers : v # w => worker'[v] = worker[v]
      PROVE  WorkersTyped' /\ Paid' /\ StoredFirst' /\ HeldUnlessFault'
  <2>1. WorkersTyped'
    BY <1>4 DEF LInv, WorkersTyped, Busy
  <2>2. Flying' = Flying
    BY <1>0, <1>4 DEF Flying
  <2>3. Paid'
    BY <1>0, <2>2 DEF LInv, Paid
  <2>4. StoredFirst'
    BY <1>0, <1>4 DEF LInv, StoredFirst
  <2>5. HeldUnlessFault'
    BY <1>0, <1>4 DEF LInv, HeldUnlessFault, InHand
  <2> QED
    BY <2>1, <2>3, <2>4, <2>5
<1>5. CASE worker' = worker
  BY <1>0, <1>4, <1>5, <1>1, <1>3 DEF LInv, WorkersTyped
<1>6. CASE Moves(w, "idle")
  BY <1>4, <1>6, <1>1, <1>3 DEF LInv, Moves
<1>7. ASSUME NEW u \in LinkedIn!Urls, worker' = [worker EXCEPT ![w] = [pc |-> "recent", url |-> u]] PROVE LInv'
  <2>1. [pc |-> "recent", url |-> u] \in WorkerRecord
    BY DEF WorkerRecord, Places
  <2>2. /\ worker' \in [Workers -> WorkerRecord] /\ worker'[w] = [pc |-> "recent", url |-> u]
        /\ \A v \in Workers : v # w => worker'[v] = worker[v]
    BY <1>7, <2>1 DEF LInv, WorkersTyped
  <2> QED
    BY <1>4, <2>2, <1>1, <1>3 DEF LInv
<1> QED
  BY <1>2, <1>5, <1>6, <1>7

LEMMA RecentKeeps ==
    ASSUME LinkedIn!LimitsAssumption, LInv, NEW w \in Workers, LinkedIn!RecentlyIngested(w)
    PROVE  LInv'
<1> DEFINE pc == IF checkpoint[worker[w].url] = "success" THEN "get" ELSE "ingesting"
<1>0. worker[w].pc = "recent" /\ LinkedIn!Goto(w, pc) /\ UNCHANGED <<pending, checkpoint, stored, queue, spent, window, sent, lnCount>>
  BY DEF LinkedIn!RecentlyIngested
<1>1. pc \in {"get", "ingesting"}
  OBVIOUS
<1> HIDE DEF pc
<1>2. Moves(w, pc)
  BY <1>0, <1>1, GotoMoves DEF LInv, Places
<1>3. TablesTyped' /\ LinkedInRunTyped' /\ Sent'
  BY <1>0 DEF LInv, TablesTyped, LinkedInRunTyped, Sent
<1>4. WorkersTyped'
  BY <1>0, <1>1, <1>2, MovesTyped DEF Busy, Places
<1>5. Paid'
  BY <1>0, <1>1, <1>2, MovesAside DEF Places
<1>6. StoredFirst'
  BY <1>0, <1>1, <1>2 DEF LInv, StoredFirst, Moves
<1>7. HeldUnlessFault'
  BY <1>0, <1>1, <1>2, MovesHold DEF Places, InHand
<1> QED
  BY <1>3, <1>4, <1>5, <1>6, <1>7 DEF LInv

\* A status that is written with the place that goes with it.
LEMMA MarkPendingKeeps ==
    ASSUME LinkedIn!LimitsAssumption, LInv, NEW w \in Workers, NEW pc \in Places, NEW status, NEW next \in Places,
           LinkedIn!MarkPending(w, pc, status, next),
           <<pc, status, next>> \in {<<"ingesting", "ingesting", "fetch">>, <<"complete", "completed", "close">>,
                                    <<"giveup", "failed", "close">>, <<"handled", "failed", "get">>}
    PROVE  LInv'
<1> DEFINE u == worker[w].url
<1>0. worker[w].pc = pc /\ pending' = LinkedIn!Marked(u, status) /\ LinkedIn!Goto(w, next) /\ UNCHANGED <<checkpoint, stored, queue, spent, window, sent, lnCount>>
  BY DEF LinkedIn!MarkPending
<1>1. Moves(w, next)
  BY <1>0, GotoMoves DEF LInv
<1>2. u \in LinkedIn!Urls /\ status \in {"ingesting", "completed", "failed"}
  BY <1>0 DEF LInv, WorkersTyped, Busy, Places
<1>3. /\ pending' \in [LinkedIn!Urls -> PendingRow]
      /\ \A v \in LinkedIn!Urls : v # u => pending'[v] = pending[v]
      /\ pending'[u] = pending[u] \/ pending'[u].status = status
  <2>1. pending[u] \in PendingRow
    BY <1>2 DEF LInv, TablesTyped
  <2>2. [pending[u] EXCEPT !.status = status] \in PendingRow /\ [pending[u] EXCEPT !.status = status].status = status
    BY <1>2, <2>1 DEF PendingRow
  <2>3. pending' = pending \/ pending' = [pending EXCEPT ![u] = [pending[u] EXCEPT !.status = status]]
    BY <1>0 DEF LinkedIn!Marked
  <2> DEFINE changed == [pending[u] EXCEPT !.status = status]
  <2> HIDE DEF changed
  <2>4. pending' = pending \/ pending' = [pending EXCEPT ![u] = changed]
    BY <2>3 DEF changed
  <2>5. changed \in PendingRow /\ changed.status = status
    BY <2>2 DEF changed
  <2> QED
    BY <1>2, <2>4, <2>5 DEF LInv, TablesTyped
<1>3a. pending[u].status = "absent" => pending' = pending
  BY <1>0 DEF LinkedIn!Marked
<1>3b. pending[u].status # "absent" => pending'[u].status = status
  <2>1. pending[u] \in PendingRow
    BY <1>2 DEF LInv, TablesTyped
  <2> QED
    BY <1>0, <1>2, <2>1 DEF LinkedIn!Marked, LInv, TablesTyped, PendingRow
<1> HIDE DEF u
<1>4. TablesTyped' /\ LinkedInRunTyped' /\ Sent'
  BY <1>0, <1>3 DEF LInv, TablesTyped, LinkedInRunTyped, Sent
<1>5. WorkersTyped'
  BY <1>0, <1>1, MovesTyped DEF Busy, Places
<1>6. Paid'
  BY <1>0, <1>1, MovesAside
<1>7. StoredFirst'
  <2>1. \A v \in Workers : worker'[v].pc \in {"success", "complete"} => worker'[v].url \in stored
    BY <1>1 DEF LInv, StoredFirst, Moves
  <2>2. status = "completed" => u \in stored
    BY <1>0 DEF LInv, StoredFirst, u
  <2>3. \A v \in LinkedIn!Urls : pending'[v].status = "completed" \/ checkpoint[v] \in {"success", "old"} => v \in stored
    BY <1>2, <1>3, <2>2 DEF LInv, StoredFirst
  <2> QED
    BY <1>0, <2>1, <2>3 DEF StoredFirst
<1>8. HeldUnlessFault'
  <2> SUFFICES ASSUME lnCount.faults = 0 PROVE HeldUnlessFault'
    BY <1>0 DEF HeldUnlessFault
  <2>1. \A v \in Workers : worker'[v].pc \notin {"handler", "handled", "dead"}
    BY <1>1 DEF LInv, HeldUnlessFault, Moves
  <2>2. ASSUME NEW v \in LinkedIn!Urls, pending'[v].status = "ingesting"
        PROVE  \E x \in Workers : worker'[x].url = v /\ worker'[x].pc \in InHand
    <3>1. CASE v = u /\ status = "ingesting"
      BY <1>1, <3>1 DEF Moves, u, InHand
    <3>2. CASE v = u /\ status # "ingesting"
      <4>1. pending[u].status = "absent"
        BY <1>3b, <2>2, <3>2
      <4> QED
        BY <1>3a, <2>2, <3>2, <4>1
    <3>3. CASE v # u
      <4>1. pending[v].status = "ingesting"
        BY <1>3, <2>2, <3>3
      <4>2. PICK x \in Workers : worker[x].url = v /\ worker[x].pc \in InHand
        BY <4>1 DEF LInv, HeldUnlessFault
      <4>3. x # w
        BY <3>3, <4>2 DEF u
      <4> QED
        BY <1>1, <4>2, <4>3 DEF Moves
    <3> QED
      BY <3>1, <3>2, <3>3
  <2> QED
    BY <2>1, <2>2 DEF HeldUnlessFault
<1> QED
  BY <1>4, <1>5, <1>6, <1>7, <1>8 DEF LInv

LEMMA MarkCheckpointKeeps ==
    ASSUME LinkedIn!LimitsAssumption, LInv, NEW w \in Workers, NEW pc \in Places, NEW status, NEW next \in Places,
           LinkedIn!MarkCheckpoint(w, pc, status, next),
           <<pc, status, next>> \in {<<"success", "success", "complete">>, <<"nodata", "failed", "giveup">>,
                                    <<"handler", "failed", "handled">>}
    PROVE  LInv'
<1> DEFINE u == worker[w].url
<1>0. worker[w].pc = pc /\ checkpoint' = [checkpoint EXCEPT ![u] = status] /\ LinkedIn!Goto(w, next)
      /\ UNCHANGED <<pending, stored, queue, spent, window, sent, lnCount>>
  BY DEF LinkedIn!MarkCheckpoint
<1>1. Moves(w, next)
  BY <1>0, GotoMoves DEF LInv
<1>2. u \in LinkedIn!Urls /\ status \in {"success", "failed"}
  BY <1>0 DEF LInv, WorkersTyped, Busy, Places
<1>3. /\ checkpoint' \in [LinkedIn!Urls -> {"absent", "success", "failed", "old"}]
      /\ \A v \in LinkedIn!Urls : checkpoint'[v] = IF v = u THEN status ELSE checkpoint[v]
  BY <1>0, <1>2 DEF LInv, TablesTyped
<1>4. TablesTyped' /\ LinkedInRunTyped' /\ Sent'
  BY <1>0, <1>3 DEF LInv, TablesTyped, LinkedInRunTyped, Sent
<1>5. WorkersTyped'
  BY <1>0, <1>1, MovesTyped DEF Busy, Places
<1>6. Paid'
  BY <1>0, <1>1, MovesAside
<1>7. StoredFirst'
  <2>1. pc \in {"success", "complete"} => u \in stored
    BY <1>0 DEF LInv, StoredFirst
  <2> HIDE DEF u
  <2>2. \A v \in Workers : worker'[v].pc \in {"success", "complete"} => worker'[v].url \in stored
    BY <1>1, <2>1 DEF LInv, StoredFirst, Moves, u
  <2>3. \A v \in LinkedIn!Urls : pending[v].status = "completed" \/ checkpoint'[v] \in {"success", "old"} => v \in stored
    BY <1>2, <1>3, <2>1 DEF LInv, StoredFirst
  <2> QED
    BY <1>0, <2>2, <2>3 DEF StoredFirst
<1>8. CASE pc # "handler"
  <2>1. HeldUnlessFault'
    BY <1>0, <1>1, <1>8, MovesHold DEF InHand
  <2> QED
    BY <1>4, <1>5, <1>6, <1>7, <2>1 DEF LInv
<1>9. CASE pc = "handler"
  <2>1. HeldUnlessFault'
    BY <1>0, <1>9 DEF LInv, HeldUnlessFault
  <2> QED
    BY <1>4, <1>5, <1>6, <1>7, <2>1 DEF LInv
<1> QED
  BY <1>8, <1>9

LEMMA LinkedInFetchKeeps ==
    ASSUME LinkedIn!LimitsAssumption, LInv, NEW w \in Workers, LinkedIn!Fetch(w)
    PROVE  LInv'
<1> DEFINE used0 == IF window.over THEN 0 ELSE window.count
<1>0. worker[w].pc = "fetch" /\ UNCHANGED <<pending, checkpoint, stored, queue, spent, lnCount>>
  BY DEF LinkedIn!Fetch
<1>1. used0 \in Nat /\ spent \in Nat /\ sent \in Nat /\ window.count \in 0..Rpm /\ window.over \in BOOLEAN
  BY DEF LInv, LinkedInRunTyped
<1>2. ASSUME NEW pc \in {"nodata", "sleep", "response"}, LinkedIn!Goto(w, pc)
      PROVE  TablesTyped' /\ WorkersTyped' /\ StoredFirst' /\ HeldUnlessFault' /\ Moves(w, pc)
  <2>1. Moves(w, pc)
    BY <1>2, GotoMoves DEF LInv, Places
  <2>2. WorkersTyped'
    BY <1>0, <2>1, MovesTyped DEF Busy, Places
  <2>3. StoredFirst'
    BY <1>0, <2>1 DEF LInv, StoredFirst, Moves
  <2>4. HeldUnlessFault'
    BY <1>0, <2>1, MovesHold DEF InHand, Places
  <2> QED
    BY <1>0, <2>1, <2>2, <2>3, <2>4 DEF LInv, TablesTyped
<1>3. ASSUME NEW pc \in {"sleep", "response"}, Moves(w, pc), spent < Budget PROVE Paid'
  <2>1. Flying' = Flying \cup {w}
    BY <1>3 DEF Moves, Flying
  <2>2. LinkedIn!Cardinality(Flying') \in Nat /\ LinkedIn!Cardinality(Flying') <= LinkedIn!Cardinality(Workers)
    <3>1. Flying \cup {w} \in SUBSET Workers
      BY DEF Flying
    <3> QED
      BY <2>1, <3>1, FlyingCount
  <2> QED
    BY <1>0, <1>1, <1>3, <2>2, WorkersCount DEF Paid, LinkedIn!LimitsAssumption
<1>4. CASE spent >= Budget /\ LinkedIn!Goto(w, "nodata") /\ UNCHANGED <<window, sent>>
  <2>1. Paid'
    BY <1>0, <1>2, <1>4, MovesAside DEF Places
  <2> QED
    BY <1>0, <1>2, <1>4, <2>1 DEF LInv, LinkedInRunTyped, Sent
<1>5. CASE spent < Budget /\ LinkedIn!Goto(w, "sleep") /\ UNCHANGED <<window, sent>>
  BY <1>0, <1>2, <1>3, <1>5 DEF LInv, LinkedInRunTyped, Sent
<1>6. CASE /\ spent < Budget /\ used0 < Rpm
           /\ window' = [count |-> used0 + 1, over |-> FALSE]
           /\ sent' = sent + 1
           /\ LinkedIn!Goto(w, "response")
  <2>1. LinkedInRunTyped'
    BY <1>0, <1>1, <1>6 DEF LInv, LinkedInRunTyped, LinkedIn!LimitsAssumption
  <2>2. Sent'
    <3>1. window'.over = FALSE /\ window'.count = used0 + 1
      BY <1>6
    <3>2. sent <= used0 + LinkedIn!Cardinality(Workers) - 1
      BY <1>1, WorkersCount DEF LInv, Sent
    <3> HIDE DEF used0
    <3> QED
      BY <1>1, <1>6, <3>1, <3>2, WorkersCount DEF Sent
  <2> QED
    BY <1>2, <1>3, <1>6, <2>1, <2>2 DEF LInv
<1> QED
  BY <1>4, <1>5, <1>6 DEF LinkedIn!Fetch

LEMMA ResponseKeeps ==
    ASSUME LinkedIn!LimitsAssumption, LInv, NEW w \in Workers, LinkedIn!Response(w)
    PROVE  LInv'
<1>0. worker[w].pc = "response" /\ UNCHANGED <<pending, checkpoint, stored, queue, window, sent, lnCount>>
  BY DEF LinkedIn!Response
<1>1. PICK pc \in {"store", "nodata"} : LinkedIn!Goto(w, pc) /\ spent' \in {spent, spent + 1}
  BY DEF LinkedIn!Response
<1>2. Moves(w, pc)
  BY <1>1, GotoMoves DEF LInv, Places
<1>3. WorkersTyped'
  BY <1>0, <1>1, <1>2, MovesTyped DEF Busy, Places
<1>4. StoredFirst'
  BY <1>0, <1>1, <1>2 DEF LInv, StoredFirst, Moves
<1>5. HeldUnlessFault'
  BY <1>0, <1>1, <1>2, MovesHold DEF InHand, Places
<1>6. spent \in Nat
  BY DEF LInv, LinkedInRunTyped
<1>7. Paid'
  <2>1. Flying' = Flying \ {w} /\ w \in Flying /\ Flying \in SUBSET Workers
    BY <1>0, <1>1, <1>2 DEF Moves, Flying
  <2>2. LinkedIn!Cardinality(Flying') = LinkedIn!Cardinality(Flying) - 1
    BY <2>1, FlyingCount, LinkedInFS_RemoveElement
  <2>3. LinkedIn!Cardinality(Flying) \in Nat
    BY <2>1, FlyingCount
  <2> QED
    BY <1>1, <1>6, <2>2, <2>3, WorkersCount DEF LInv, Paid, LinkedIn!LimitsAssumption
<1>8. TablesTyped' /\ LinkedInRunTyped' /\ Sent'
  BY <1>0, <1>1, <1>6 DEF LInv, TablesTyped, LinkedInRunTyped, Sent
<1> QED
  BY <1>3, <1>4, <1>5, <1>7, <1>8 DEF LInv

LEMMA UpsertUserKeeps ==
    ASSUME LinkedIn!LimitsAssumption, LInv, NEW w \in Workers, LinkedIn!UpsertUser(w)
    PROVE  LInv'
<1>0. /\ worker[w].pc = "store" /\ LinkedIn!Goto(w, "success") /\ stored' = stored \cup {worker[w].url}
      /\ UNCHANGED <<pending, checkpoint, queue, spent, window, sent, lnCount>>
  BY DEF LinkedIn!UpsertUser
<1>1. Moves(w, "success") /\ worker[w].url \in LinkedIn!Urls
  BY <1>0, GotoMoves DEF LInv, Places, WorkersTyped, Busy
<1>2. WorkersTyped'
  BY <1>0, <1>1, MovesTyped DEF Busy, Places
<1>3. StoredFirst'
  BY <1>0, <1>1 DEF LInv, StoredFirst, Moves
<1>4. HeldUnlessFault'
  BY <1>0, <1>1, MovesHold DEF InHand, Places
<1>5. Paid'
  BY <1>0, <1>1, MovesAside DEF Places
<1>6. TablesTyped' /\ LinkedInRunTyped' /\ Sent'
  BY <1>0, <1>1 DEF LInv, TablesTyped, LinkedInRunTyped, Sent
<1> QED
  BY <1>2, <1>3, <1>4, <1>5, <1>6 DEF LInv

LEMMA CloseKeeps ==
    ASSUME LinkedIn!LimitsAssumption, LInv, NEW w \in Workers, LinkedIn!Close(w)
    PROVE  LInv'
<1>0. worker[w].pc = "close" /\ LinkedIn!Goto(w, "get") /\ UNCHANGED <<pending, checkpoint, stored, queue, spent, window, sent, lnCount>>
  BY DEF LinkedIn!Close
<1>1. Moves(w, "get")
  BY <1>0, GotoMoves DEF LInv, Places
<1>2. WorkersTyped'
  BY <1>0, <1>1, MovesTyped DEF Busy, Places
<1>3. StoredFirst'
  BY <1>0, <1>1 DEF LInv, StoredFirst, Moves
<1>4. HeldUnlessFault'
  BY <1>0, <1>1, MovesHold DEF InHand, Places
<1>5. Paid'
  BY <1>0, <1>1, MovesAside DEF Places
<1>6. TablesTyped' /\ LinkedInRunTyped' /\ Sent'
  BY <1>0 DEF LInv, TablesTyped, LinkedInRunTyped, Sent
<1> QED
  BY <1>2, <1>3, <1>4, <1>5, <1>6 DEF LInv

LEMMA FaultCounted ==
    ASSUME LInv, lnCount' = [lnCount EXCEPT !.faults = @ + 1]
    PROVE  lnCount' \in [runs : Nat, faults : Nat, minutes : Nat] /\ HeldUnlessFault'
<1>1. lnCount' \in [runs : Nat, faults : Nat, minutes : Nat] /\ lnCount'.faults # 0
  BY DEF LInv, LinkedInRunTyped
<1> QED
  BY <1>1 DEF HeldUnlessFault

LEMMA LinkedInRaiseKeeps ==
    ASSUME LinkedIn!LimitsAssumption, LInv, NEW w \in Workers, LinkedIn!Raise(w)
    PROVE  LInv'
<1>0. lnCount' = [lnCount EXCEPT !.faults = @ + 1] /\ UNCHANGED <<pending, checkpoint, stored, queue, spent, window, sent>>
  BY DEF LinkedIn!Raise
<1>1. PICK pc \in {"handler", "dead"} :
        /\ LinkedIn!Goto(w, pc)
        /\ worker[w].pc \in Busy \ {"sleep", "response"}
  BY DEF LinkedIn!Raise, Busy, Places
<1>2. Moves(w, pc)
  BY <1>1, GotoMoves DEF LInv, Places
<1>3. WorkersTyped'
  BY <1>1, <1>2, MovesTyped DEF Places
<1>4. StoredFirst'
  BY <1>0, <1>1, <1>2 DEF LInv, StoredFirst, Moves
<1>5. HeldUnlessFault' /\ lnCount' \in [runs : Nat, faults : Nat, minutes : Nat]
  BY <1>0, FaultCounted
<1>6. Paid'
  BY <1>0, <1>1, <1>2, MovesAside DEF Places
<1>7. TablesTyped' /\ LinkedInRunTyped' /\ Sent'
  BY <1>0, <1>5 DEF LInv, TablesTyped, LinkedInRunTyped, Sent
<1> QED
  BY <1>3, <1>4, <1>5, <1>6, <1>7 DEF LInv

-----------------------------------------------------------------------------
(* The rest.                                                               *)

LEMMA DiscoverKeeps ==
    ASSUME LinkedIn!LimitsAssumption, LInv, LinkedIn!Discover
    PROVE  LInv'
<1>0. UNCHANGED <<checkpoint, stored, queue, worker, spent, window, sent, lnCount>>
  BY DEF LinkedIn!Discover
<1>1. /\ \A u \in LinkedIn!Urls : pending'[u].status = pending[u].status \/ pending'[u].status = "pending"
      /\ pending' \in [LinkedIn!Urls -> PendingRow]
  <2> DEFINE P(u) == (CHOOSE m \in LinkedIn!Discovered : m.url = u).priority
  <2>1. ASSUME NEW u \in LinkedIn!Urls, \E m \in LinkedIn!Discovered : m.url = u PROVE P(u) \in 0..3
    <3>1. (CHOOSE m \in LinkedIn!Discovered : m.url = u) \in LinkedIn!Discovered
      BY <2>1
    <3>2. \A m \in LinkedIn!Discovered : m.priority \in 0..3
      BY DEF LinkedIn!Discovered, LinkedIn!AllMentions, LinkedIn!Mentions
    <3> QED
      BY <3>1, <3>2
  <2>2. pending' = [u \in LinkedIn!Urls |->
         IF \E m \in LinkedIn!Discovered : m.url = u
         THEN IF pending[u].status = "absent" THEN [status |-> "pending", priority |-> P(u)]
              ELSE [pending[u] EXCEPT !.priority = IF P(u) < @ THEN P(u) ELSE @]
         ELSE pending[u]]
    BY DEF LinkedIn!Discover
  <2> HIDE DEF P
  <2>3. \A u \in LinkedIn!Urls : pending[u] \in PendingRow
    BY DEF LInv, TablesTyped
  <2>4. ASSUME NEW u \in LinkedIn!Urls
        PROVE  /\ pending'[u] \in PendingRow
               /\ pending'[u].status = pending[u].status \/ pending'[u].status = "pending"
    <3>1. CASE ~\E m \in LinkedIn!Discovered : m.url = u
      BY <2>2, <2>3, <3>1
    <3>2. CASE (\E m \in LinkedIn!Discovered : m.url = u) /\ pending[u].status = "absent"
      <4>1. pending'[u] = [status |-> "pending", priority |-> P(u)]
        BY <2>2, <3>2
      <4> QED
        BY <2>1, <3>2, <4>1 DEF PendingRow
    <3>3. CASE (\E m \in LinkedIn!Discovered : m.url = u) /\ pending[u].status # "absent"
      <4>1. pending'[u] = [pending[u] EXCEPT !.priority = IF P(u) < @ THEN P(u) ELSE @]
        BY <2>2, <3>3
      <4> QED
        BY <2>1, <2>3, <3>3, <4>1 DEF PendingRow
    <3> QED
      BY <3>1, <3>2, <3>3
  <2> QED
    BY <2>2, <2>4
<1>2. TablesTyped' /\ WorkersTyped' /\ LinkedInRunTyped' /\ Sent'
  <2>1. pending' \in [LinkedIn!Urls -> PendingRow]
    BY <1>1
  <2>2. TablesTyped'
    BY <1>0, <2>1 DEF LInv, TablesTyped
  <2> QED
    BY <1>0, <2>2 DEF LInv, WorkersTyped, LinkedInRunTyped, Sent
<1>3. Paid'
  BY <1>0 DEF LInv, Paid, Flying
<1>4. StoredFirst' /\ HeldUnlessFault'
  BY <1>0, <1>1 DEF LInv, StoredFirst, HeldUnlessFault
<1> QED
  BY <1>2, <1>3, <1>4 DEF LInv

LEMMA ListsAreLists ==
    ASSUME LinkedIn!UrlsAssumption, NEW urls \in LinkedIn!ListPendingUrls \cup LnGiven
    PROVE  urls \in Seq(LinkedIn!Urls)
<1>1. CASE urls \in LnGiven
  <2>1. urls \in Seq(LinkedIn!ToSet(urls)) /\ LinkedIn!ToSet(urls) \subseteq LinkedIn!Urls
    BY <1>1 DEF LinkedIn!UrlsAssumption, LinkedIn!Urls
  <2> QED
    BY <2>1
<1>2. CASE urls \in LinkedIn!ListPendingUrls
  <2>1. urls \in [1..LinkedIn!Cardinality(LinkedIn!PendingUrls) -> LinkedIn!PendingUrls]
    BY <1>2 DEF LinkedIn!ListPendingUrls, LinkedIn!SetToSeqs
  <2>2. LinkedIn!PendingUrls \in SUBSET LinkedIn!Urls
    BY DEF LinkedIn!PendingUrls
  <2>3. LinkedIn!Cardinality(LinkedIn!PendingUrls) \in Nat
    BY <2>2, LinkedInFS_Subset, LinkedInFS_CardinalityType DEF LinkedIn!UrlsAssumption
  <2> QED
    BY <2>1, <2>2, <2>3
<1> QED
  BY <1>1, <1>2

LEMMA StartRunKeeps ==
    ASSUME LinkedIn!LimitsAssumption, LinkedIn!UrlsAssumption, LInv, NEW urls \in LinkedIn!ListPendingUrls \cup LnGiven, LinkedIn!StartRun(urls)
    PROVE  LInv'
<1>0. /\ \A w \in Workers : worker[w].pc \in {"idle", "dead"}
      /\ worker' = [w \in Workers |-> [LinkedIn!Resting EXCEPT !.pc = "get"]]
      /\ spent' = 0 /\ window' = [count |-> 0, over |-> FALSE] /\ sent' = 0
      /\ lnCount' = [lnCount EXCEPT !.runs = @ + 1]
      /\ UNCHANGED <<pending, checkpoint, stored>>
  BY DEF LinkedIn!StartRun
<1>1. queue' \in Seq(LinkedIn!Urls)
  <2>1. urls \in Seq(LinkedIn!Urls) /\ Len(urls) \in Nat
    BY ListsAreLists
  <2> DEFINE last == IF Len(urls) < MaxProfiles THEN Len(urls) ELSE MaxProfiles
  <2>2. last \in Nat /\ last <= Len(urls)
    BY <2>1 DEF LinkedIn!LimitsAssumption
  <2> HIDE DEF last
  <2>3. SubSeq(urls, 1, last) \in Seq(LinkedIn!Urls)
    BY <2>1, <2>2
  <2>4. queue' = SubSeq(urls, 1, last)
    BY DEF LinkedIn!StartRun, last
  <2> QED
    BY <2>3, <2>4
<1>2. \A w \in Workers : worker'[w] = [pc |-> "get", url |-> None]
  BY <1>0 DEF LinkedIn!Resting
<1>3. WorkersTyped'
  <2>1. [pc |-> "get", url |-> None] \in WorkerRecord
    BY DEF WorkerRecord, Places
  <2>2. worker' = [w \in Workers |-> [pc |-> "get", url |-> None]]
    BY <1>0 DEF LinkedIn!Resting
  <2> QED
    BY <2>1, <2>2 DEF WorkersTyped, Busy
<1>4. LinkedInRunTyped'
  <2>1. lnCount' \in [runs : Nat, faults : Nat, minutes : Nat] /\ 0 \in 0..Rpm
    BY <1>0, SMTT(40) DEF LInv, LinkedInRunTyped, LinkedIn!LimitsAssumption
  <2> QED
    BY <1>0, <1>1, <2>1 DEF LinkedInRunTyped
<1>5. Paid'
  <2>1. Flying' = {}
    BY <1>2 DEF Flying
  <2> QED
    BY <1>0, <2>1, LinkedInFS_EmptySet, WorkersCount DEF Paid, LinkedIn!LimitsAssumption
<1>6. Sent'
  BY <1>0, WorkersCount DEF Sent
<1>7. TablesTyped' /\ StoredFirst'
  BY <1>0, <1>2 DEF LInv, TablesTyped, StoredFirst
<1>8. HeldUnlessFault'
  <2> SUFFICES ASSUME lnCount.faults = 0 PROVE HeldUnlessFault'
    BY <1>0 DEF HeldUnlessFault, LInv, LinkedInRunTyped
  <2>1. \A u \in LinkedIn!Urls : pending[u].status # "ingesting"
    BY <1>0 DEF LInv, HeldUnlessFault, InHand
  <2> QED
    BY <1>0, <1>2, <2>1 DEF HeldUnlessFault
<1> QED
  BY <1>3, <1>4, <1>5, <1>6, <1>7, <1>8 DEF LInv

LEMMA MinuteKeeps ==
    ASSUME LinkedIn!LimitsAssumption, LInv, LinkedIn!MinutePasses
    PROVE  LInv'
<1> DEFINE up == {w \in Workers : worker[w].pc = "sleep"}
<1>0. /\ lnCount' = [lnCount EXCEPT !.minutes = @ + 1] /\ sent' = LinkedIn!Cardinality(up)
      /\ window' = IF up = {} THEN [window EXCEPT !.over = TRUE] ELSE [count |-> 1, over |-> FALSE]
      /\ UNCHANGED <<pending, checkpoint, stored, queue, spent>>
  BY DEF LinkedIn!MinutePasses
<1>1. up \in SUBSET Workers /\ LinkedIn!Cardinality(up) \in Nat /\ LinkedIn!Cardinality(up) <= LinkedIn!Cardinality(Workers)
  BY FlyingCount
<1>2. \A w \in Workers : worker'[w] = IF w \in up THEN [worker[w] EXCEPT !.pc = "response"] ELSE worker[w]
  BY DEF LinkedIn!MinutePasses
<1>3. /\ worker' \in [Workers -> WorkerRecord]
      /\ \A w \in Workers : worker'[w].url = worker[w].url
      /\ \A w \in Workers : worker'[w].pc = IF worker[w].pc = "sleep" THEN "response" ELSE worker[w].pc
  <2>1. \A w \in Workers : worker[w] \in WorkerRecord
    BY DEF LInv, WorkersTyped
  <2>2. \A w \in Workers : LET r == [worker[w] EXCEPT !.pc = "response"]
                           IN r \in WorkerRecord /\ r.pc = "response" /\ r.url = worker[w].url
    BY <2>1 DEF WorkerRecord, Places
  <2>3. worker' = [w \in Workers |-> IF w \in up THEN [worker[w] EXCEPT !.pc = "response"] ELSE worker[w]]
    BY DEF LinkedIn!MinutePasses
  <2>4. \A w \in Workers : worker'[w] \in WorkerRecord
    BY <1>2, <2>1, <2>2
  <2>5. worker' \in [Workers -> WorkerRecord]
    BY <2>3, <2>4
  <2> QED
    BY <1>2, <2>2, <2>5
<1> HIDE DEF up
<1>4. WorkersTyped'
  BY <1>3 DEF LInv, WorkersTyped, Busy, Places
<1>5. Flying' = Flying
  BY <1>3 DEF Flying
<1>6. Paid'
  BY <1>0, <1>5 DEF LInv, Paid
<1>7. LinkedInRunTyped'
  <2>1. window' \in [count : 0..Rpm, over : BOOLEAN]
    <3>1. window \in [count : 0..Rpm, over : BOOLEAN] /\ 1 \in 0..Rpm
      BY DEF LInv, LinkedInRunTyped, LinkedIn!LimitsAssumption
    <3> QED
      BY <1>0, <3>1
  <2>2. lnCount' \in [runs : Nat, faults : Nat, minutes : Nat]
    BY <1>0 DEF LInv, LinkedInRunTyped
  <2> QED
    BY <1>0, <1>1, <2>1, <2>2 DEF LInv, LinkedInRunTyped
<1>8. Sent'
  <2>1. CASE up = {}
    <3>1. sent' = 0 /\ window'.over = TRUE
      BY <1>0, <2>1, LinkedInFS_EmptySet DEF LInv, LinkedInRunTyped
    <3> QED
      BY <3>1 DEF Sent
  <2>2. CASE up # {}
    BY <1>0, <1>1, <2>2, WorkersCount DEF Sent
  <2> QED
    BY <2>1, <2>2
<1>9. TablesTyped' /\ StoredFirst'
  BY <1>0, <1>3 DEF LInv, TablesTyped, StoredFirst
<1>10. HeldUnlessFault'
  <2>1. lnCount'.faults = lnCount.faults
    BY <1>0 DEF LInv, LinkedInRunTyped
  <2> QED
    BY <1>0, <1>3, <2>1 DEF LInv, HeldUnlessFault, InHand
<1> QED
  BY <1>4, <1>6, <1>7, <1>8, <1>9, <1>10 DEF LInv

LEMMA CrashKeeps ==
    ASSUME LinkedIn!LimitsAssumption, LInv, LinkedIn!Crash
    PROVE  LInv'
<1>0. /\ worker' = [w \in Workers |-> LinkedIn!Resting] /\ queue' = <<>>
      /\ lnCount' = [lnCount EXCEPT !.faults = @ + 1]
      /\ UNCHANGED <<pending, checkpoint, stored, spent, window, sent>>
  BY DEF LinkedIn!Crash
<1>1. LinkedIn!Resting \in WorkerRecord /\ LinkedIn!Resting.pc = "idle"
  BY DEF LinkedIn!Resting, WorkerRecord, Places
<1>2. WorkersTyped'
  BY <1>0, <1>1 DEF WorkersTyped, Busy
<1>3. HeldUnlessFault' /\ lnCount' \in [runs : Nat, faults : Nat, minutes : Nat]
  BY <1>0, FaultCounted
<1>4. LinkedInRunTyped'
  <2>1. <<>> \in Seq(LinkedIn!Urls)
    OBVIOUS
  <2> QED
    BY <1>0, <1>3, <2>1 DEF LInv, LinkedInRunTyped
<1>5. Paid'
  <2>1. Flying' = {}
    BY <1>0, <1>1 DEF Flying
  <2>2. Flying \in SUBSET Workers
    BY DEF Flying
  <2>3. LinkedIn!Cardinality(Flying) \in Nat
    BY <2>2, FlyingCount
  <2> QED
    BY <1>0, <2>1, <2>3, LinkedInFS_EmptySet, WorkersCount, SMTT(40)
       DEF LInv, Paid, LinkedIn!LimitsAssumption, LinkedInRunTyped
<1>6. TablesTyped' /\ Sent'
  BY <1>0 DEF LInv, TablesTyped, Sent
<1>7. StoredFirst'
  BY <1>0, <1>1 DEF LInv, StoredFirst
<1> QED
  BY <1>2, <1>3, <1>4, <1>5, <1>6, <1>7 DEF LInv

LEMMA WeekKeeps ==
    ASSUME LinkedIn!LimitsAssumption, LInv, NEW u \in LinkedIn!Urls, LinkedIn!WeekPasses(u)
    PROVE  LInv'
<1>0. /\ checkpoint[u] = "success" /\ checkpoint' = [checkpoint EXCEPT ![u] = "old"]
      /\ UNCHANGED <<pending, stored, queue, worker, spent, window, sent, lnCount>>
  BY DEF LinkedIn!WeekPasses
<1>1. TablesTyped'
  BY <1>0 DEF LInv, TablesTyped
<1>2. StoredFirst'
  <2>1. \A v \in LinkedIn!Urls : checkpoint'[v] = IF v = u THEN "old" ELSE checkpoint[v]
    BY <1>0 DEF LInv, TablesTyped
  <2> QED
    BY <1>0, <2>1 DEF LInv, StoredFirst
<1> QED
  BY <1>0, <1>1, <1>2 DEF LInv, WorkersTyped, LinkedInRunTyped, Paid, Flying, Sent, HeldUnlessFault

LEMMA StepKeeps ==
    ASSUME LinkedIn!LimitsAssumption, LInv, NEW w \in Workers, LinkedIn!Step(w)
    PROVE  LInv'
<1>1. ASSUME NEW pc \in Places, NEW status, NEW next \in Places, LinkedIn!MarkPending(w, pc, status, next),
             <<pc, status, next>> \in {<<"ingesting", "ingesting", "fetch">>, <<"complete", "completed", "close">>,
                                      <<"giveup", "failed", "close">>, <<"handled", "failed", "get">>}
      PROVE  LInv'
  BY <1>1, MarkPendingKeeps
<1>2. ASSUME NEW pc \in Places, NEW status, NEW next \in Places, LinkedIn!MarkCheckpoint(w, pc, status, next),
             <<pc, status, next>> \in {<<"success", "success", "complete">>, <<"nodata", "failed", "giveup">>,
                                      <<"handler", "failed", "handled">>}
      PROVE  LInv'
  BY <1>2, MarkCheckpointKeeps
<1>3. CASE LinkedIn!Get(w) \/ LinkedIn!RecentlyIngested(w) \/ LinkedIn!Fetch(w) \/ LinkedIn!Response(w)
  BY <1>3, GetKeeps, RecentKeeps, LinkedInFetchKeeps, ResponseKeeps
<1>4. CASE LinkedIn!UpsertUser(w) \/ LinkedIn!Close(w) \/ LinkedIn!Raise(w)
  BY <1>4, UpsertUserKeeps, CloseKeeps, LinkedInRaiseKeeps
<1>5. CASE LinkedIn!MarkPending(w, "ingesting", "ingesting", "fetch")
  BY <1>1, <1>5 DEF Places
<1>6. CASE LinkedIn!MarkPending(w, "complete", "completed", "close")
  BY <1>1, <1>6 DEF Places
<1>7. CASE LinkedIn!MarkPending(w, "giveup", "failed", "close")
  BY <1>1, <1>7 DEF Places
<1>8. CASE LinkedIn!MarkPending(w, "handled", "failed", "get")
  BY <1>1, <1>8 DEF Places
<1>9. CASE LinkedIn!MarkCheckpoint(w, "success", "success", "complete")
  BY <1>2, <1>9 DEF Places
<1>10. CASE LinkedIn!MarkCheckpoint(w, "nodata", "failed", "giveup")
  BY <1>2, <1>10 DEF Places
<1>11. CASE LinkedIn!MarkCheckpoint(w, "handler", "failed", "handled")
  BY <1>2, <1>11 DEF Places
<1> QED
  BY <1>3, <1>4, <1>5, <1>6, <1>7, <1>8, <1>9, <1>10, <1>11 DEF LinkedIn!Step

LEMMA LinkedInKeeps == ASSUME LinkedIn!LimitsAssumption, LinkedIn!UrlsAssumption, LInv, [LinkedIn!Next]_LinkedIn!lnVars PROVE LInv'
<1>1. CASE LinkedIn!Discover \/ LinkedIn!MinutePasses \/ LinkedIn!Crash
  BY <1>1, DiscoverKeeps, MinuteKeeps, CrashKeeps
<1>2. ASSUME NEW urls \in LinkedIn!ListPendingUrls \cup LnGiven, LinkedIn!StartRun(urls) PROVE LInv'
  BY <1>2, StartRunKeeps
<1>3. ASSUME NEW w \in Workers, LinkedIn!Step(w) PROVE LInv'
  BY <1>3, StepKeeps
<1>4. ASSUME NEW u \in LinkedIn!Urls, LinkedIn!WeekPasses(u) PROVE LInv'
  BY <1>4, WeekKeeps
<1>5. CASE UNCHANGED LinkedIn!lnVars
  BY <1>5
     DEF LinkedIn!lnVars, LInv, TablesTyped, WorkersTyped, LinkedInRunTyped, Paid, Flying, Sent,
         StoredFirst, HeldUnlessFault
<1> QED
  BY <1>1, <1>2, <1>3, <1>4, <1>5 DEF LinkedIn!Next

LEMMA LinkedInGives == ASSUME LinkedIn!LimitsAssumption, LInv PROVE LinkedIn!TypeOK /\ LinkedIn!LimitsHeld /\ LinkedIn!TablesAgree
<1>1. LinkedIn!TypeOK
  BY DEF LInv, TablesTyped, PendingRow, WorkersTyped, WorkerRecord, LinkedInRunTyped, LinkedIn!TypeOK
<1>2. LinkedIn!LimitsHeld
  <2>1. Flying \in SUBSET Workers
    BY DEF Flying
  <2>2. LinkedIn!Cardinality(Flying) \in Nat
    BY <2>1, FlyingCount
  <2>3. spent <= Budget + LinkedIn!Cardinality(Workers) - 1
    BY <2>2, WorkersCount DEF LInv, Paid, LinkedInRunTyped, LinkedIn!LimitsAssumption
  <2>4. sent <= Rpm + LinkedIn!Cardinality(Workers) - 1
    BY WorkersCount DEF LInv, Sent, LinkedInRunTyped, LinkedIn!LimitsAssumption
  <2> QED
    BY <2>3, <2>4 DEF LinkedIn!LimitsHeld
<1>3. LinkedIn!TablesAgree
  <2>1. \A u \in LinkedIn!Urls : pending[u].status = "completed" \/ checkpoint[u] \in {"success", "old"} => u \in stored
    BY DEF LInv, StoredFirst
  <2>2. \A u \in LinkedIn!Urls : pending[u].status = "ingesting" =>
             lnCount.faults > 0 \/ \E w \in Workers : worker[w].url = u /\ worker[w].pc # "get"
    <3>1. lnCount.faults = 0 \/ lnCount.faults > 0
      BY DEF LInv, LinkedInRunTyped
    <3> QED
      BY <3>1 DEF LInv, HeldUnlessFault, InHand
  <2> QED
    BY <2>1, <2>2 DEF LinkedIn!TablesAgree
<1> QED
  BY <1>1, <1>2, <1>3

\* Addresses, workers and counts have their types; the budget is overrun by what was
\* under way when it ran out and the rate by those that slept through a window; and
\* what is stored, marked and pending of an address agrees, for any workers, budget,
\* rate, crashes and failing statements (ln/client.py, ln/orchestrator.py).
THEOREM LinkedInSafe ==
    LinkedInAssumptions =>
      (LinkedIn!Spec => [](LinkedIn!TypeOK /\ LinkedIn!LimitsHeld /\ LinkedIn!TablesAgree))
<1> SUFFICES ASSUME LinkedInAssumptions PROVE LinkedIn!Spec => [](LinkedIn!TypeOK /\ LinkedIn!LimitsHeld /\ LinkedIn!TablesAgree)
  OBVIOUS
<1> USE DEF LinkedInAssumptions
<1>1. LinkedIn!Init => LInv
  BY LinkedInStarts
<1>2. LInv /\ [LinkedIn!Next]_LinkedIn!lnVars => LInv'
  BY LinkedInKeeps
<1>3. LInv => LinkedIn!TypeOK /\ LinkedIn!LimitsHeld /\ LinkedIn!TablesAgree
  BY LinkedInGives
<1> QED
  BY <1>1, <1>2, <1>3, PTL DEF LinkedIn!Spec

-----------------------------------------------------------------------------
(* The part in the system.                                                  *)

\* A behaviour of the system is this part's, or leaves it alone.
LEMMA LinkedInAlone ==
    /\ Init /\ part = "linkedin" => LinkedIn!Init
    /\ [Next]_vars /\ part = "linkedin" => (part = "linkedin")' /\ [LinkedIn!Next]_(LinkedIn!lnVars)
    /\ [Next]_vars /\ ~(part = "linkedin") => (~(part = "linkedin"))'
<1> USE DEF ClientsNext, LinkedInNext, IndexNext, ScheduleNext, BillingNext, SearchNext, CommandsNext
<1>1. Init /\ part = "linkedin" => LinkedIn!Init
  BY DEF Init
<1>2. Next => part' = part
  BY DEF Next
<1>3. Next /\ part = "linkedin" => LinkedIn!Next
  BY DEF Next
<1>4. UNCHANGED vars => part' = part /\ UNCHANGED LinkedIn!lnVars
  BY DEF vars, lnVars, LinkedIn!lnVars
<1> QED
  BY <1>1, <1>2, <1>3, <1>4

WholeLinkedIn ==
    LinkedIn!TypeOK /\ LinkedIn!LimitsHeld /\ LinkedIn!TablesAgree

LEMMA LinkedInAlwaysHold == LinkedInAssumptions => (Spec => [](part = "linkedin" => WholeLinkedIn))
<1> SUFFICES ASSUME LinkedInAssumptions PROVE Spec => [](part = "linkedin" => WholeLinkedIn)
  OBVIOUS
<1>1. LinkedIn!Spec => []WholeLinkedIn
  BY LinkedInSafe DEF WholeLinkedIn
<1>2. Init /\ part = "linkedin" => LinkedIn!Init
  BY LinkedInAlone
<1>3. [Next]_vars /\ part = "linkedin" => (part = "linkedin")' /\ [LinkedIn!Next]_(LinkedIn!lnVars)
  BY LinkedInAlone
<1>4. [Next]_vars /\ ~(part = "linkedin") => (~(part = "linkedin"))'
  BY LinkedInAlone
<1> HIDE DEF WholeLinkedIn, Init, Next, LinkedIn!Init, LinkedIn!Next
<1> QED
  BY <1>1, <1>2, <1>3, <1>4, PTL DEF Spec, LinkedIn!Spec

\* LinkedIn's budget and rate are overrun only by what was under way, and its three
\* tables agree about an address, for any workers, budget and rate (ln/client.py,
\* ln/orchestrator.py).
THEOREM LinkedInIsHeld == LinkedInAssumptions => (Spec => []LinkedInHolds)
<1>1. (part = "linkedin" => WholeLinkedIn) => LinkedInHolds
  BY DEF WholeLinkedIn, LinkedInHolds
<1> HIDE DEF WholeLinkedIn, LinkedInHolds
<1> QED
  BY <1>1, LinkedInAlwaysHold, PTL

-----------------------------------------------------------------------------
(* Batch embedding (SearchIndex).                                          *)

LEMMA IndexCounting ==
    \A S : Index!Cardinality(S) = Cardinality(S) /\ (Index!IsFiniteSet(S) <=> IsFiniteSet(S))
  BY Zenon DEF Index!Cardinality, Cardinality, Index!IsFiniteSet, IsFiniteSet

LEMMA IndexFS_CardinalityType ==
    ASSUME NEW S, Index!IsFiniteSet(S) PROVE Index!Cardinality(S) \in Nat
  BY FS_CardinalityType, IndexCounting

LEMMA IndexFS_Subset ==
    ASSUME NEW S, NEW T, Index!IsFiniteSet(S), T \subseteq S
    PROVE  /\ Index!IsFiniteSet(T) /\ Index!Cardinality(T) <= Index!Cardinality(S)
           /\ Index!Cardinality(S) = Index!Cardinality(T) => S = T
  BY FS_Subset, IndexCounting

LEMMA IndexFS_Difference ==
    ASSUME NEW S, Index!IsFiniteSet(S), NEW T
    PROVE  /\ Index!IsFiniteSet(S \ T)
           /\ Index!Cardinality(S \ T) = Index!Cardinality(S) - Index!Cardinality(S \cap T)
  BY FS_Difference, IndexCounting

LEMMA IndexFS_Interval ==
    ASSUME NEW a \in Int, NEW b \in Int
    PROVE  Index!IsFiniteSet(a..b) /\ Index!Cardinality(a..b) = IF a > b THEN 0 ELSE b - a + 1
  BY FS_Interval, IndexCounting

LEMMA IndexFS_Bijection ==
    ASSUME NEW S, NEW T, Index!IsFiniteSet(S), ExistsBijection(S, T)
    PROVE  Index!IsFiniteSet(T) /\ Index!Cardinality(S) = Index!Cardinality(T)
  BY FS_Bijection, IndexCounting

IndexAssumptions == Index!RowsAssumption /\ Index!BoundsAssumption

RowRecord == [text : BOOLEAN, vector : {"none", "own"}, named : Nat, bare : Nat]
Entry == [id : Rows, vector : {"none", "own"}]
PassRecord == [pc : {"off", "fetch", "index", "mark", "done"}, force : BOOLEAN, total : Nat,
               offset : Nat, batch : Seq(Entry), next : Nat, embedded : Nat, quiet : BOOLEAN]
Counts == [passes : Nat, syncs : Nat, failures : Nat]

\* A field that is set to what it was stays as it was.
LEMMA SamePass ==
    ASSUME NEW q \in PassRecord, NEW n, NEW pc
    PROVE  /\ [q EXCEPT !.next = n, !.pc = pc]
                = [q EXCEPT !.next = n, !.pc = pc, !.embedded = q.embedded, !.quiet = q.quiet]
           /\ [q EXCEPT !.next = n, !.pc = pc, !.quiet = FALSE]
                = [q EXCEPT !.next = n, !.pc = pc, !.embedded = q.embedded, !.quiet = FALSE]
  BY DEF PassRecord

IndexTypes ==
    /\ Index!Stored \subseteq Rows /\ row \in [Index!Stored -> RowRecord]
    /\ unindexed \subseteq Index!Stored
    /\ pass \in PassRecord /\ indexCount \in Counts

BareCounted ==
    /\ indexCount.syncs <= MaxSyncs
    /\ \A r \in Index!Stored : row[r].bare + (IF r \in unindexed THEN 1 ELSE 0) <= indexCount.syncs

InBatch == pass.pc \in {"index", "mark"}
Before(i) == i \in 1..Len(pass.batch) /\ i < pass.next

\* The batch names rows there are, each once, with the marks they have.
BatchKnown == InBatch =>
    /\ pass.batch # <<>>
    /\ pass.next <= Len(pass.batch) + 1
    /\ pass.next = Len(pass.batch) + 1 <=> pass.pc = "mark"
    /\ pass.next >= 1
    /\ \A i \in 1..Len(pass.batch) : /\ pass.batch[i].id \in Index!Stored
                                     /\ pass.batch[i].vector = row[pass.batch[i].id].vector
    /\ \A i, j \in 1..Len(pass.batch) : pass.batch[i].id = pass.batch[j].id => i = j

\* A row with a point is marked, or will be by the batch that is under way.
NamedOnce ==
    \A r \in Index!Stored :
      /\ row[r].named <= 1
      /\ row[r].named > 0 /\ row[r].vector = "none" =>
           InBatch /\ pass.embedded > 0 /\ \E i \in 1..Len(pass.batch) : Before(i) /\ pass.batch[i].id = r

\* Without a failure what is marked has a point, and so has what the batch has passed.
MarkedNamed ==
    indexCount.failures = 0 =>
      /\ \A r \in Index!Stored : row[r].vector = "own" => row[r].named > 0
      /\ InBatch => \A i \in 1..Len(pass.batch) :
           Before(i) /\ pass.batch[i].vector = "none" => row[pass.batch[i].id].named > 0

\* What is left and what was done add up to what there was.
Left == Index!Cardinality(Index!Eligible(FALSE))
IndexAddsUp ==
    pass.quiet /\ ~pass.force =>
      /\ pass.pc = "fetch" \/ InBatch => Left + pass.offset = pass.total
      /\ InBatch => /\ pass.embedded = pass.next - 1
                    /\ \A i \in 1..Len(pass.batch) : pass.batch[i].id \in Index!Eligible(FALSE)
      /\ pass.pc = "done" => 2 * Left <= pass.total

SInv == IndexTypes /\ BareCounted /\ BatchKnown /\ NamedOnce /\ MarkedNamed /\ IndexAddsUp

-----------------------------------------------------------------------------
LEMMA EligibleFinite ==
    ASSUME IndexAssumptions, IndexTypes, NEW force
    PROVE  Index!IsFiniteSet(Index!Eligible(force)) /\ Index!Cardinality(Index!Eligible(force)) \in Nat
<1>1. Index!Eligible(force) \in SUBSET Rows /\ Index!IsFiniteSet(Rows)
  BY DEF IndexAssumptions, Index!RowsAssumption, IndexTypes, Index!Eligible
<1> QED
  BY <1>1, IndexFS_Subset, IndexFS_CardinalityType

LEMMA EligibleFiniteNext ==
    ASSUME IndexAssumptions, IndexTypes', NEW force
    PROVE  Index!IsFiniteSet(Index!Eligible(force)') /\ Index!Cardinality(Index!Eligible(force)') \in Nat
<1>1. Index!Eligible(force)' \in SUBSET Rows /\ Index!IsFiniteSet(Rows)
  BY DEF IndexAssumptions, Index!RowsAssumption, IndexTypes, Index!Eligible, Index!Stored
<1> QED
  BY <1>1, IndexFS_Subset, IndexFS_CardinalityType

LEMMA IndexStarts == ASSUME IndexAssumptions, Index!Init PROVE SInv
<1>1. PICK ids \in SUBSET Rows, texts \in SUBSET Rows :
        row = [r \in ids |-> [text |-> r \in texts, vector |-> "none", named |-> 0, bare |-> 0]]
  BY DEF Index!Init
<1>2. IndexTypes
  <2>1. Index!Stored = ids /\ row \in [Index!Stored -> RowRecord]
    BY <1>1 DEF Index!Stored, RowRecord
  <2>2. pass \in PassRecord /\ indexCount \in Counts
    BY DEF Index!Init, Index!NoPass, PassRecord, Counts
  <2> QED
    BY <2>1, <2>2 DEF IndexTypes, Index!Init
<1>3. BareCounted
  BY <1>1 DEF BareCounted, Index!Init, Index!Stored, IndexAssumptions, Index!BoundsAssumption
<1>4. BatchKnown /\ IndexAddsUp
  BY DEF BatchKnown, IndexAddsUp, Index!Init, Index!NoPass, InBatch
<1>5. NamedOnce /\ MarkedNamed
  BY <1>1 DEF NamedOnce, MarkedNamed, Index!Init, Index!NoPass, InBatch, Index!Stored
<1> QED
  BY <1>2, <1>3, <1>4, <1>5 DEF SInv

\* What leaves the batch's rows and marks alone.
LEMMA UpsertKeeps ==
    ASSUME IndexAssumptions, SInv, NEW r \in Rows, NEW text \in BOOLEAN, Index!UpsertCohesive(r, text)
    PROVE  SInv'
<1> USE DEF SInv
<1>1. /\ Index!Stored' = Index!Stored \cup {r} /\ row' \in [Index!Stored' -> RowRecord]
      /\ \A q \in Index!Stored : /\ row'[q].vector = row[q].vector /\ row'[q].named = row[q].named
                                 /\ row'[q].bare = row[q].bare
      /\ r \notin Index!Stored => row'[r].vector = "none" /\ row'[r].named = 0 /\ row'[r].bare = 0
      /\ unindexed' = unindexed \cup {r}
  <2>1. row' = [q \in Index!Stored \cup {r} |->
                 IF q # r THEN row[q]
                 ELSE IF r \in Index!Stored THEN [row[r] EXCEPT !.text = text]
                 ELSE [text |-> text, vector |-> "none", named |-> 0, bare |-> 0]]
    BY DEF Index!UpsertCohesive
  <2>2. Index!Stored' = Index!Stored \cup {r}
    BY <2>1 DEF Index!Stored
  <2>3. \A q \in Index!Stored : row[q] \in RowRecord
    BY DEF IndexTypes
  <2>4. \A q \in Index!Stored' : row'[q] \in RowRecord
    BY <2>1, <2>2, <2>3 DEF RowRecord
  <2> QED
    BY <2>1, <2>2, <2>3, <2>4 DEF Index!UpsertCohesive, RowRecord
<1>2. /\ pass' \in PassRecord /\ pass'.quiet = FALSE /\ pass'.pc = pass.pc /\ pass'.batch = pass.batch
      /\ pass'.next = pass.next /\ pass'.embedded = pass.embedded
  BY DEF Index!UpsertCohesive, IndexTypes, PassRecord
<1>3. /\ indexCount' \in Counts /\ indexCount'.syncs = indexCount.syncs + 1 /\ indexCount.syncs < MaxSyncs
      /\ indexCount'.failures = indexCount.failures
  BY DEF Index!UpsertCohesive, IndexTypes, Counts
<1>4. IndexTypes'
  BY <1>1, <1>2, <1>3 DEF IndexTypes
<1>5. BareCounted'
  <2>1. \A q \in Index!Stored : row[q].bare \in Nat
    BY DEF IndexTypes, RowRecord
  <2> QED
    BY <1>1, <1>3, <2>1 DEF BareCounted, IndexTypes, IndexAssumptions, Index!BoundsAssumption, Counts
<1>6. BatchKnown'
  BY <1>1, <1>2 DEF BatchKnown, InBatch
<1>7. NamedOnce'
  BY <1>1, <1>2 DEF NamedOnce, InBatch, Before, BatchKnown
<1>8. MarkedNamed'
  BY <1>1, <1>2, <1>3 DEF MarkedNamed, InBatch, Before, BatchKnown
<1>9. IndexAddsUp'
  BY <1>2 DEF IndexAddsUp
<1> QED
  BY <1>4, <1>5, <1>6, <1>7, <1>8, <1>9

LEMMA IndexKeeps ==
    ASSUME IndexAssumptions, SInv, NEW r \in Rows, Index!IndexProfile(r)
    PROVE  SInv'
<1> USE DEF SInv
<1>0. r \in unindexed /\ r \in Index!Stored /\ unindexed' = unindexed \ {r} /\ pass' = pass /\ indexCount' = indexCount
  BY DEF Index!IndexProfile, IndexTypes
<1>1. \A q \in Index!Stored : row[q] \in RowRecord
  BY DEF IndexTypes
<1>2. row' = row \/ row' = [row EXCEPT ![r].bare = @ + 1]
  BY DEF Index!IndexProfile
<1>3. /\ Index!Stored' = Index!Stored /\ \A q \in Index!Stored : row'[q] \in RowRecord
      /\ \A q \in Index!Stored : /\ row'[q].vector = row[q].vector /\ row'[q].named = row[q].named
                                 /\ row'[q].text = row[q].text
      /\ \A q \in Index!Stored : row'[q].bare = row[q].bare \/ (q = r /\ row'[q].bare = row[q].bare + 1)
      /\ row' \in [Index!Stored' -> RowRecord]
  <2>1. CASE row' = row
    <3>1. Index!Stored' = Index!Stored /\ row' \in [Index!Stored -> RowRecord]
      BY <2>1 DEF Index!Stored, IndexTypes
    <3> QED
      BY <1>1, <2>1, <3>1
  <2>2. CASE row' = [row EXCEPT ![r].bare = @ + 1]
    <3>1. Index!Stored' = Index!Stored
      BY <2>2 DEF Index!Stored, IndexTypes
    <3>2. \A q \in Index!Stored : row'[q] = IF q = r THEN [row[r] EXCEPT !.bare = @ + 1] ELSE row[q]
      BY <2>2 DEF IndexTypes
    <3>3. [row[r] EXCEPT !.bare = @ + 1] \in RowRecord
      BY <1>0, <1>1 DEF RowRecord
    <3>4. row' \in [Index!Stored -> RowRecord]
      BY <1>1, <2>2, <3>3 DEF IndexTypes
    <3>5. /\ [row[r] EXCEPT !.bare = @ + 1].vector = row[r].vector
          /\ [row[r] EXCEPT !.bare = @ + 1].named = row[r].named
          /\ [row[r] EXCEPT !.bare = @ + 1].text = row[r].text
          /\ [row[r] EXCEPT !.bare = @ + 1].bare = row[r].bare + 1
      BY <1>0, <1>1 DEF RowRecord
    <3>6. \A q \in Index!Stored : row'[q] \in RowRecord
      BY <3>4
    <3>7. \A q \in Index!Stored : /\ row'[q].vector = row[q].vector /\ row'[q].named = row[q].named
                                 /\ row'[q].text = row[q].text
      BY <3>2, <3>5
    <3>8. \A q \in Index!Stored : row'[q].bare = row[q].bare \/ (q = r /\ row'[q].bare = row[q].bare + 1)
      BY <3>2, <3>5
    <3> QED
      BY <3>1, <3>4, <3>6, <3>7, <3>8
  <2> QED
    BY <1>2, <2>1, <2>2
<1>4. IndexTypes'
  BY <1>0, <1>3 DEF IndexTypes
<1>5. BareCounted'
  <2>1. \A q \in Index!Stored : row[q].bare \in Nat
    BY DEF IndexTypes, RowRecord
  <2> QED
    BY <1>0, <1>3, <2>1 DEF BareCounted, IndexTypes, Counts
<1>6. BatchKnown' /\ NamedOnce' /\ MarkedNamed'
  BY <1>0, <1>3 DEF BatchKnown, NamedOnce, MarkedNamed, InBatch, Before
<1>7. Index!Eligible(FALSE)' = Index!Eligible(FALSE)
  BY <1>3 DEF Index!Eligible
<1>8. IndexAddsUp'
  BY <1>0, <1>7 DEF IndexAddsUp, InBatch, Left
<1> QED
  BY <1>4, <1>5, <1>6, <1>8

LEMMA CountKeeps ==
    ASSUME IndexAssumptions, SInv, NEW force \in BOOLEAN, Index!CountEligible(force)
    PROVE  SInv'
<1> USE DEF SInv
<1> DEFINE n == Index!Cardinality(Index!Eligible(force))
<1>0. n \in Nat
  BY EligibleFinite
<1>1. row' = row /\ unindexed' = unindexed /\ ~InBatch
  BY DEF Index!CountEligible, InBatch
<1>2. pass' = [Index!NoPass EXCEPT !.pc = IF n = 0 THEN "done" ELSE "fetch", !.force = force, !.total = n]
  BY DEF Index!CountEligible
<1>3. /\ pass' \in PassRecord /\ pass'.pc \in {"done", "fetch"} /\ pass'.force = force
      /\ pass'.total = n /\ pass'.offset = 0 /\ (pass'.pc = "done" => n = 0)
  <2> HIDE DEF n
  <2>1. <<>> \in Seq(Entry)
    OBVIOUS
  <2>2. pass' = [pc |-> IF n = 0 THEN "done" ELSE "fetch", force |-> force, total |-> n, offset |-> 0,
                 batch |-> <<>>, next |-> 1, embedded |-> 0, quiet |-> TRUE]
    BY <1>2 DEF Index!NoPass
  <2> QED
    BY <1>0, <2>1, <2>2 DEF PassRecord
<1>4. indexCount' \in Counts /\ indexCount'.syncs = indexCount.syncs /\ indexCount'.failures = indexCount.failures
  BY DEF Index!CountEligible, IndexTypes, Counts
<1>5. Index!Stored' = Index!Stored /\ ~InBatch'
  BY <1>1, <1>3 DEF Index!Stored, InBatch
<1>6. IndexTypes'
  BY <1>1, <1>3, <1>4, <1>5 DEF IndexTypes
<1>7. BareCounted'
  BY <1>1, <1>4, <1>5 DEF BareCounted
<1>8. BatchKnown'
  BY <1>5 DEF BatchKnown
<1>9. NamedOnce'
  BY <1>1, <1>5 DEF NamedOnce
<1>10. MarkedNamed'
  BY <1>1, <1>4, <1>5 DEF MarkedNamed
<1>11. IndexAddsUp'
  <2>1. Index!Eligible(FALSE)' = Index!Eligible(FALSE)
    BY <1>1 DEF Index!Eligible, Index!Stored
  <2>2. CASE force = FALSE
    <3>1. Left' = n
      BY <2>1, <2>2 DEF Left
    <3> HIDE DEF n
    <3>2. pass'.pc = "fetch" => Left' + pass'.offset = pass'.total
      BY <1>0, <1>3, <3>1
    <3>3. pass'.pc = "done" => 2 * Left' <= pass'.total
      BY <1>0, <1>3, <3>1
    <3> QED
      BY <1>5, <3>2, <3>3 DEF IndexAddsUp
  <2>3. CASE force = TRUE
    BY <1>3, <2>3 DEF IndexAddsUp
  <2> QED
    BY <2>2, <2>3
<1> QED
  BY <1>6, <1>7, <1>8, <1>9, <1>10, <1>11

\* A page of a sequence that names each id once names ids, each once.
LEMMA PageOf ==
    ASSUME NEW ids, Index!IsFiniteSet(ids), NEW sorted \in Index!SetToSeqs(ids), NEW offset \in Nat, NEW size \in Nat \ {0}
    PROVE  LET last == IF offset + size < Len(sorted) THEN offset + size ELSE Len(sorted)
               page == SubSeq(sorted, offset + 1, last)
           IN /\ Len(sorted) = Index!Cardinality(ids) /\ Len(sorted) \in Nat
              /\ page \in Seq(ids)
              /\ page = <<>> <=> Len(sorted) <= offset
              /\ page # <<>> => Len(page) = last - offset
              /\ Len(page) <= size
              /\ \A i, j \in 1..Len(page) : page[i] = page[j] => i = j
<1> DEFINE last == IF offset + size < Len(sorted) THEN offset + size ELSE Len(sorted)
           page == SubSeq(sorted, offset + 1, last)
<1>1. Index!Cardinality(ids) \in Nat
  BY IndexFS_CardinalityType
<1>2. /\ sorted \in [1..Index!Cardinality(ids) -> ids]
      /\ \A i, j \in 1..Index!Cardinality(ids) : i # j => sorted[i] # sorted[j]
  BY DEF Index!SetToSeqs
<1>3. sorted \in Seq(ids) /\ Len(sorted) = Index!Cardinality(ids)
  BY <1>1, <1>2
<1>4. last \in Nat /\ last <= Len(sorted)
  BY <1>1, <1>3
<1>5. CASE Len(sorted) <= offset
  <2>1. page = <<>>
    BY <1>1, <1>3, <1>5
  <2> QED
    BY <1>1, <1>3, <1>5, <2>1
<1>6. CASE Len(sorted) > offset
  <2>1. last > offset
    BY <1>1, <1>3, <1>6
  <2>2. page \in Seq(ids) /\ Len(page) = last - offset /\ \A i \in 1..Len(page) : page[i] = sorted[offset + i]
    BY <1>1, <1>3, <1>4, <2>1
  <2>3. \A i, j \in 1..Len(page) : page[i] = page[j] => i = j
    BY <1>1, <1>2, <1>3, <1>4, <2>1, <2>2
  <2>4. Len(page) <= size /\ page # <<>>
    BY <1>1, <1>3, <1>4, <2>1, <2>2
  <2> QED
    BY <1>1, <1>3, <1>6, <2>2, <2>3, <2>4
<1>7. Len(sorted) <= offset \/ Len(sorted) > offset
  BY <1>1, <1>3
<1> QED
  BY <1>5, <1>6, <1>7

LEMMA IndexFetchKeeps ==
    ASSUME IndexAssumptions, SInv, Index!FetchBatch
    PROVE  SInv'
<1> USE DEF SInv
<1>0. row' = row /\ unindexed' = unindexed /\ indexCount' = indexCount /\ pass.pc = "fetch" /\ ~InBatch
  BY DEF Index!FetchBatch, InBatch
<1>1. PICK sorted \in Index!Sorted(Index!Eligible(pass.force)) :
        LET last == IF pass.offset + BatchSize < Len(sorted) THEN pass.offset + BatchSize ELSE Len(sorted)
            page == SubSeq(sorted, pass.offset + 1, last)
            batch == [i \in DOMAIN page |-> [id |-> page[i], vector |-> row[page[i]].vector]]
        IN pass' = IF pass.offset >= pass.total \/ batch = <<>> THEN [pass EXCEPT !.pc = "done"]
                   ELSE [pass EXCEPT !.pc = "index", !.batch = batch, !.next = 1, !.embedded = 0]
  BY DEF Index!FetchBatch
<1> DEFINE ids == Index!Eligible(pass.force)
           last == IF pass.offset + BatchSize < Len(sorted) THEN pass.offset + BatchSize ELSE Len(sorted)
           page == SubSeq(sorted, pass.offset + 1, last)
           batch == [i \in DOMAIN page |-> [id |-> page[i], vector |-> row[page[i]].vector]]
<1>2. Index!IsFiniteSet(ids) /\ Index!Cardinality(ids) \in Nat
  BY EligibleFinite
<1>3. sorted \in Index!SetToSeqs(ids) /\ pass.offset \in Nat /\ BatchSize \in Nat \ {0} /\ pass.total \in Nat
  BY DEF Index!Sorted, IndexTypes, PassRecord, IndexAssumptions, Index!BoundsAssumption
<1>4. /\ Len(sorted) = Index!Cardinality(ids)
      /\ page \in Seq(ids)
      /\ page = <<>> <=> Len(sorted) <= pass.offset
      /\ \A i, j \in 1..Len(page) : page[i] = page[j] => i = j
  <2> HIDE DEF ids
  <2> QED
    BY <1>2, <1>3, PageOf
<1>5. pass' = IF pass.offset >= pass.total \/ batch = <<>> THEN [pass EXCEPT !.pc = "done"]
              ELSE [pass EXCEPT !.pc = "index", !.batch = batch, !.next = 1, !.embedded = 0]
  BY <1>1
<1> HIDE DEF page
<1>6. \A r \in ids : r \in Index!Stored /\ r \in Rows /\ row[r].vector \in {"none", "own"}
                   /\ (pass.force \/ row[r].vector = "none")
  BY DEF Index!Eligible, IndexTypes, RowRecord
<1>7. /\ batch \in Seq(Entry) /\ Len(batch) = Len(page) /\ (batch = <<>> <=> page = <<>>)
      /\ \A i \in 1..Len(batch) : batch[i].id = page[i] /\ batch[i].vector = row[page[i]].vector /\ page[i] \in ids
  <2>1. DOMAIN page = 1..Len(page) /\ Len(page) \in Nat /\ \A i \in 1..Len(page) : page[i] \in ids
    BY <1>4
  <2>2. \A i \in 1..Len(page) : [id |-> page[i], vector |-> row[page[i]].vector] \in Entry
    BY <1>6, <2>1 DEF Entry
  <2>3. batch \in [1..Len(page) -> Entry]
    BY <2>1, <2>2
  <2>4. batch \in Seq(Entry) /\ Len(batch) = Len(page)
    BY <2>1, <2>3
  <2>5. batch = <<>> <=> page = <<>>
    BY <1>4, <2>4
  <2> QED
    BY <2>1, <2>4, <2>5
<1> HIDE DEF batch
<1>8. Index!Stored' = Index!Stored /\ Index!Eligible(FALSE)' = Index!Eligible(FALSE)
  BY <1>0 DEF Index!Stored, Index!Eligible
<1>9. BareCounted'
  BY <1>0, <1>8 DEF BareCounted
<1>10. CASE pass.offset >= pass.total \/ batch = <<>>
  <2>1. /\ pass' \in PassRecord /\ pass'.pc = "done" /\ pass'.quiet = pass.quiet /\ pass'.force = pass.force
        /\ pass'.total = pass.total
    BY <1>5, <1>10 DEF IndexTypes, PassRecord
  <2>2. IndexTypes' /\ ~InBatch'
    BY <1>0, <1>8, <2>1 DEF IndexTypes, InBatch
  <2>3. BatchKnown' /\ NamedOnce' /\ MarkedNamed'
    BY <1>0, <1>8, <2>2 DEF BatchKnown, NamedOnce, MarkedNamed
  <2>4. IndexAddsUp'
    <3> SUFFICES ASSUME pass.quiet, ~pass.force PROVE 2 * Left <= pass.total
      BY <1>8, <2>1, <2>2 DEF IndexAddsUp, Left
    <3>1. Left + pass.offset = pass.total
      BY <1>0 DEF IndexAddsUp
    <3>2. pass.force = FALSE
      BY DEF IndexTypes, PassRecord
    <3>3. Left = Index!Cardinality(ids)
      BY <3>2 DEF Left
    <3>4. pass.offset >= pass.total \/ Index!Cardinality(ids) <= pass.offset
      BY <1>4, <1>7, <1>10
    <3> QED
      BY <1>2, <1>3, <3>1, <3>3, <3>4
  <2> QED
    BY <1>9, <2>2, <2>3, <2>4
<1>11. CASE ~(pass.offset >= pass.total \/ batch = <<>>)
  <2>1. /\ pass' \in PassRecord /\ pass'.pc = "index" /\ pass'.quiet = pass.quiet /\ pass'.force = pass.force
        /\ pass'.total = pass.total /\ pass'.offset = pass.offset
        /\ pass'.batch = batch /\ pass'.next = 1 /\ pass'.embedded = 0
    BY <1>5, <1>7, <1>11 DEF IndexTypes, PassRecord
  <2>2. IndexTypes' /\ InBatch'
    BY <1>0, <1>8, <2>1 DEF IndexTypes, InBatch
  <2>3. BatchKnown'
    <3>1. Len(batch) # 0
      BY <1>7, <1>11
    <3>2. \A i, j \in 1..Len(batch) : batch[i].id = batch[j].id => i = j
      BY <1>4, <1>7
    <3>3. \A i \in 1..Len(batch) : batch[i].id \in Index!Stored /\ batch[i].vector = row[batch[i].id].vector
      BY <1>6, <1>7
    <3>4. Len(batch) \in Nat
      BY <1>7
    <3> QED
      BY <1>0, <1>8, <1>11, <2>1, <3>1, <3>2, <3>3, <3>4 DEF BatchKnown
  <2>4. NamedOnce'
    BY <1>0, <1>8 DEF NamedOnce
  <2>5. MarkedNamed'
    BY <1>0, <1>8, <2>1 DEF MarkedNamed, Before
  <2>6. IndexAddsUp'
    <3> SUFFICES ASSUME pass.quiet, ~pass.force
                 PROVE  /\ Left + pass.offset = pass.total
                        /\ \A i \in 1..Len(batch) : batch[i].id \in Index!Eligible(FALSE)
      <4>1. Left' = Left
        BY <1>8 DEF Left
      <4>2. IndexTypes => pass'.embedded = pass'.next - 1
        BY <2>1
      <4> QED
        BY <1>8, <2>1, <2>2, <4>1, <4>2 DEF IndexAddsUp
    <3>1. Left + pass.offset = pass.total
      BY <1>0 DEF IndexAddsUp
    <3>2. pass.force = FALSE
      BY DEF IndexTypes, PassRecord
    <3> QED
      BY <1>7, <3>1, <3>2
  <2> QED
    BY <1>9, <2>2, <2>3, <2>4, <2>5, <2>6
<1> QED
  BY <1>10, <1>11

LEMMA BatchIndexKeeps ==
    ASSUME IndexAssumptions, SInv, Index!BatchIndex
    PROVE  SInv'
<1> USE DEF SInv
<1> DEFINE p == pass.batch[pass.next]
           ending == IF pass.next = Len(pass.batch) THEN "mark" ELSE "index"
<1>0. pass.pc = "index" /\ InBatch /\ unindexed' = unindexed
  BY DEF Index!BatchIndex, InBatch
<1>1. /\ pass.batch \in Seq(Entry) /\ Len(pass.batch) \in Nat /\ pass.next \in 1..Len(pass.batch)
      /\ pass.embedded \in Nat
  BY <1>0 DEF BatchKnown, IndexTypes, PassRecord
<1>2. p \in Entry /\ p.id \in Index!Stored /\ p.vector = row[p.id].vector
  BY <1>0, <1>1 DEF BatchKnown
<1>3. \A r \in Index!Stored : row[r] \in RowRecord
  BY DEF IndexTypes
<1>4. ASSUME NEW embedded \in Nat, NEW quiet \in BOOLEAN,
             pass' = [pass EXCEPT !.next = @ + 1, !.pc = ending, !.embedded = embedded, !.quiet = quiet]
      PROVE  /\ pass' \in PassRecord /\ pass'.pc = ending /\ InBatch' /\ pass'.next = pass.next + 1
             /\ pass'.batch = pass.batch /\ pass'.embedded = embedded /\ pass'.quiet = quiet
             /\ pass'.force = pass.force /\ pass'.total = pass.total /\ pass'.offset = pass.offset
  <2>1. ending \in {"index", "mark"} /\ pass \in PassRecord /\ pass.next + 1 \in Nat
    BY <1>1 DEF IndexTypes
  <2> HIDE DEF ending
  <2>2. pass' = [pc |-> ending, force |-> pass.force, total |-> pass.total, offset |-> pass.offset,
                 batch |-> pass.batch, next |-> pass.next + 1, embedded |-> embedded, quiet |-> quiet]
    BY <1>4, <2>1 DEF PassRecord
  <2>3. pass' \in PassRecord
    BY <2>1, <2>2 DEF PassRecord
  <2> QED
    BY <2>1, <2>2, <2>3 DEF InBatch
<1>5. \A i \in 1..Len(pass.batch) : Before(i) => i # pass.next
  BY <1>1 DEF Before
<1>6. CASE /\ p.vector = "none"
           /\ row' = [row EXCEPT ![p.id].named = @ + 1]
           /\ pass' = [pass EXCEPT !.next = @ + 1, !.pc = ending, !.embedded = @ + 1]
           /\ indexCount' = indexCount
  <2>1. pass' = [pass EXCEPT !.next = @ + 1, !.pc = ending, !.embedded = pass.embedded + 1, !.quiet = pass.quiet]
    BY <1>6 DEF IndexTypes, PassRecord
  <2>2. /\ pass' \in PassRecord /\ pass'.pc = ending /\ InBatch' /\ pass'.next = pass.next + 1
        /\ pass'.batch = pass.batch /\ pass'.embedded = pass.embedded + 1 /\ pass'.quiet = pass.quiet
        /\ pass'.force = pass.force /\ pass'.total = pass.total /\ pass'.offset = pass.offset
    <3>1. pass.embedded + 1 \in Nat /\ pass.quiet \in BOOLEAN
      BY <1>1 DEF IndexTypes, PassRecord
    <3> HIDE DEF ending
    <3> QED
      BY <2>1, <3>1, <1>4
  <2>3. row[p.id].named = 0
    BY <1>0, <1>1, <1>2, <1>3, <1>5, <1>6, SMTT(40) DEF NamedOnce, BatchKnown, RowRecord
  <2>4. /\ Index!Stored' = Index!Stored /\ row' \in [Index!Stored -> RowRecord]
        /\ \A r \in Index!Stored : row'[r].vector = row[r].vector /\ row'[r].bare = row[r].bare /\ row'[r].text = row[r].text
        /\ \A r \in Index!Stored : row'[r].named = IF r = p.id THEN 1 ELSE row[r].named
    <3> DEFINE one == [row[p.id] EXCEPT !.named = @ + 1]
    <3>1. one \in RowRecord /\ one.vector = row[p.id].vector /\ one.bare = row[p.id].bare
          /\ one.text = row[p.id].text /\ one.named = 1
      BY <1>2, <1>3, <2>3 DEF RowRecord
    <3>2. Index!Stored' = Index!Stored /\ row' = [row EXCEPT ![p.id] = one]
      BY <1>6 DEF Index!Stored, IndexTypes
    <3> HIDE DEF one
    <3>3. \A r \in Index!Stored : row'[r] = IF r = p.id THEN one ELSE row[r]
      BY <3>2 DEF IndexTypes
    <3>4. row' \in [Index!Stored -> RowRecord]
      BY <3>1, <3>2 DEF IndexTypes
    <3>5. \A r \in Index!Stored : row'[r].vector = row[r].vector /\ row'[r].bare = row[r].bare /\ row'[r].text = row[r].text
      BY <3>1, <3>3
    <3>6. \A r \in Index!Stored : row'[r].named = IF r = p.id THEN 1 ELSE row[r].named
      BY <3>1, <3>3
    <3> QED
      BY <3>2, <3>4, <3>5, <3>6
  <2>5. IndexTypes'
    BY <1>0, <1>6, <2>2, <2>4 DEF IndexTypes
  <2>6. BareCounted'
    BY <1>0, <1>6, <2>4 DEF BareCounted
  <2>7. BatchKnown'
    BY <1>0, <1>1, <2>2, <2>4 DEF BatchKnown
  <2>8. NamedOnce'
    <3>1. ASSUME NEW r \in Index!Stored, row'[r].named > 0, row'[r].vector = "none"
          PROVE  \E i \in 1..Len(pass.batch) : i < pass.next + 1 /\ pass.batch[i].id = r
      <4>1. CASE r = p.id
        BY <1>1, <4>1
      <4>2. CASE r # p.id
        <5>1. PICK i \in 1..Len(pass.batch) : Before(i) /\ pass.batch[i].id = r
          BY <2>4, <3>1, <4>2 DEF NamedOnce
        <5> QED
          BY <1>1, <5>1 DEF Before
      <4> QED
        BY <4>1, <4>2
    <3>2. \A r \in Index!Stored : row'[r].named <= 1
      BY <2>4 DEF NamedOnce
    <3> QED
      BY <1>1, <2>2, <2>4, <3>1, <3>2, SMTT(40) DEF NamedOnce, Before
  <2>9. MarkedNamed'
    <3> SUFFICES ASSUME indexCount.failures = 0 PROVE
            /\ \A r \in Index!Stored : row'[r].vector = "own" => row'[r].named > 0
            /\ \A i \in 1..Len(pass.batch) : i < pass.next + 1 /\ pass.batch[i].vector = "none"
                  => row'[pass.batch[i].id].named > 0
      <4>1. indexCount' = indexCount
        BY <1>6
      <4> HIDE DEF p, ending
      <4> QED
        BY <2>2, <2>4, <4>1 DEF MarkedNamed, Before
    <3>1. \A r \in Index!Stored : row'[r].vector = "own" => row'[r].named > 0
      BY <2>4 DEF MarkedNamed
    <3>2. ASSUME NEW i \in 1..Len(pass.batch), i < pass.next + 1, pass.batch[i].vector = "none"
          PROVE  row'[pass.batch[i].id].named > 0
      <4>1. pass.batch[i].id \in Index!Stored
        BY <1>0 DEF BatchKnown
      <4>2. i = pass.next \/ Before(i)
        BY <1>1, <3>2 DEF Before
      <4>3. Before(i) => row[pass.batch[i].id].named > 0
        BY <1>0, <3>2 DEF MarkedNamed
      <4> QED
        BY <2>4, <4>1, <4>2, <4>3
    <3> QED
      BY <3>1, <3>2
  <2>10. IndexAddsUp'
    <3>1. Index!Eligible(FALSE)' = Index!Eligible(FALSE)
      BY <2>4 DEF Index!Eligible
    <3>2. Left' = Left
      BY <3>1 DEF Left
    <3> QED
      <4>1. pass'.pc # "done" /\ pass'.pc # "fetch" /\ InBatch'
        BY <2>2
      <4>2. pass.quiet /\ ~pass.force =>
              /\ Left + pass.offset = pass.total /\ pass.embedded = pass.next - 1
              /\ \A i \in 1..Len(pass.batch) : pass.batch[i].id \in Index!Eligible(FALSE)
        BY <1>0 DEF IndexAddsUp
      <4>3. pass.embedded = pass.next - 1 => pass'.embedded = pass'.next - 1
        BY <1>1, <2>2
      <4> QED
        BY <2>2, <3>1, <3>2, <4>1, <4>2, <4>3 DEF IndexAddsUp
  <2> QED
    BY <2>5, <2>6, <2>7, <2>8, <2>9, <2>10
<1>7. CASE /\ row' = row
           /\ \/ p.vector # "none" /\ indexCount' = indexCount
                 /\ pass' = [pass EXCEPT !.next = @ + 1, !.pc = ending]
              \/ /\ pass' = [pass EXCEPT !.next = @ + 1, !.pc = ending, !.quiet = FALSE]
                 /\ indexCount' = [indexCount EXCEPT !.failures = @ + 1]
  <2>0. pass \in PassRecord
    BY DEF IndexTypes
  <2>1. \/ /\ p.vector # "none" /\ indexCount' = indexCount
           /\ pass' = [pass EXCEPT !.next = @ + 1, !.pc = ending, !.embedded = pass.embedded, !.quiet = pass.quiet]
        \/ /\ pass' = [pass EXCEPT !.next = @ + 1, !.pc = ending, !.embedded = pass.embedded, !.quiet = FALSE]
           /\ indexCount' = [indexCount EXCEPT !.failures = @ + 1]
    <3> HIDE DEF p, ending
    <3> QED
      BY <1>7, <2>0, SamePass
  <2>2. /\ pass' \in PassRecord /\ pass'.pc = ending /\ InBatch' /\ pass'.next = pass.next + 1
        /\ pass'.batch = pass.batch /\ pass'.embedded = pass.embedded
        /\ pass'.force = pass.force /\ pass'.total = pass.total /\ pass'.offset = pass.offset
        /\ \/ p.vector # "none" /\ indexCount' = indexCount /\ pass'.quiet = pass.quiet
           \/ pass'.quiet = FALSE /\ indexCount' = [indexCount EXCEPT !.failures = @ + 1]
    <3>1. pass.embedded \in Nat /\ pass.quiet \in BOOLEAN
      BY <1>1 DEF IndexTypes, PassRecord
    <3> HIDE DEF ending
    <3> QED
      BY <2>1, <3>1, <1>4
  <2>3. /\ indexCount' \in Counts /\ indexCount'.syncs = indexCount.syncs
        /\ indexCount'.failures = 0 => p.vector # "none" /\ indexCount.failures = 0
    BY <2>2 DEF IndexTypes, Counts
  <2>4. Index!Stored' = Index!Stored /\ Index!Eligible(FALSE)' = Index!Eligible(FALSE)
    BY <1>7 DEF Index!Stored, Index!Eligible
  <2>5. IndexTypes'
    BY <1>0, <1>7, <2>2, <2>3, <2>4 DEF IndexTypes
  <2>6. BareCounted'
    BY <1>0, <1>7, <2>3, <2>4 DEF BareCounted
  <2>7. BatchKnown'
    BY <1>0, <1>1, <1>7, <2>2, <2>4 DEF BatchKnown
  <2>8. NamedOnce'
    <3>1. \A i \in 1..Len(pass.batch) : Before(i) => Before(i)'
      BY <1>1, <2>2 DEF Before
    <3> QED
      BY <1>7, <2>2, <2>4, <3>1 DEF NamedOnce
  <2>9. MarkedNamed'
    <3> SUFFICES ASSUME indexCount.failures = 0, p.vector # "none" PROVE
            /\ \A r \in Index!Stored : row[r].vector = "own" => row[r].named > 0
            /\ \A i \in 1..Len(pass.batch) : i < pass.next + 1 /\ pass.batch[i].vector = "none"
                  => row[pass.batch[i].id].named > 0
      BY <1>7, <2>2, <2>3, <2>4 DEF MarkedNamed, Before
    <3>1. \A i \in 1..Len(pass.batch) : i < pass.next + 1 => i = pass.next \/ Before(i)
      BY <1>1 DEF Before
    <3> QED
      BY <1>0, <3>1 DEF MarkedNamed
  <2>10. IndexAddsUp'
    <3> SUFFICES ASSUME pass'.quiet, ~pass.force PROVE IndexAddsUp'
      BY <2>2 DEF IndexAddsUp
    <3>1. p.vector # "none" /\ pass'.quiet = pass.quiet
      BY <2>2
    <3>2. p.id \in Index!Eligible(FALSE)
      BY <1>0, <1>1, <3>1 DEF IndexAddsUp
    <3>3. FALSE
      BY <1>2, <3>1, <3>2 DEF Index!Eligible
    <3> QED
      BY <3>3
  <2> QED
    BY <2>5, <2>6, <2>7, <2>8, <2>9, <2>10
<1> QED
  BY <1>6, <1>7 DEF Index!BatchIndex

LEMMA MarkKeeps ==
    ASSUME IndexAssumptions, SInv, Index!MarkBatch
    PROVE  SInv'
<1> USE DEF SInv
<1> DEFINE ids == {p.id : p \in {pass.batch[i] : i \in DOMAIN pass.batch}}
<1>0. pass.pc = "mark" /\ InBatch /\ unindexed' = unindexed /\ indexCount' = indexCount
  BY DEF Index!MarkBatch, InBatch
<1>1. /\ pass.batch \in Seq(Entry) /\ Len(pass.batch) \in Nat /\ Len(pass.batch) > 0
      /\ pass.next = Len(pass.batch) + 1 /\ pass.embedded \in Nat /\ pass.offset \in Nat
  BY <1>0 DEF BatchKnown, IndexTypes, PassRecord
<1>2. \A r : r \in ids <=> \E i \in 1..Len(pass.batch) : pass.batch[i].id = r
  BY <1>1
<1>3. ids \subseteq Index!Stored
  BY <1>0, <1>2 DEF BatchKnown
<1>4. row' = IF pass.embedded = 0 THEN row
             ELSE [r \in Index!Stored |-> IF r \in ids THEN [row[r] EXCEPT !.vector = "own"] ELSE row[r]]
  BY DEF Index!MarkBatch
<1> HIDE DEF ids
<1>5. \A r \in Index!Stored : row[r] \in RowRecord
  BY DEF IndexTypes
<1>6. /\ Index!Stored' = Index!Stored /\ row' \in [Index!Stored -> RowRecord]
      /\ \A r \in Index!Stored : /\ row'[r].named = row[r].named /\ row'[r].bare = row[r].bare /\ row'[r].text = row[r].text
                                 /\ row'[r].vector = IF pass.embedded > 0 /\ r \in ids THEN "own" ELSE row[r].vector
  <2>1. CASE pass.embedded = 0
    BY <1>1, <1>4, <2>1 DEF Index!Stored, IndexTypes
  <2>2. CASE pass.embedded > 0
    <3>1. row' = [r \in Index!Stored |-> IF r \in ids THEN [row[r] EXCEPT !.vector = "own"] ELSE row[r]]
      BY <1>4, <2>2
    <3>2. \A r \in Index!Stored : LET q == [row[r] EXCEPT !.vector = "own"]
                                 IN q \in RowRecord /\ q.named = row[r].named /\ q.bare = row[r].bare /\ q.text = row[r].text
                                    /\ q.vector = "own"
      BY <1>5 DEF RowRecord
    <3>3. Index!Stored' = Index!Stored
      BY <3>1 DEF Index!Stored
    <3>4. \A r \in Index!Stored : row'[r] \in RowRecord
      BY <1>5, <3>1, <3>2
    <3>5. row' \in [Index!Stored -> RowRecord]
      BY <3>1, <3>4
    <3>6. \A r \in Index!Stored : /\ row'[r].named = row[r].named /\ row'[r].bare = row[r].bare /\ row'[r].text = row[r].text
                                 /\ row'[r].vector = IF r \in ids THEN "own" ELSE row[r].vector
      BY <3>1, <3>2
    <3> QED
      BY <2>2, <3>3, <3>5, <3>6
  <2> QED
    BY <1>1, <2>1, <2>2
<1>7. /\ pass' \in PassRecord /\ pass'.pc = "fetch" /\ ~InBatch' /\ pass'.offset = pass.offset + Len(pass.batch)
      /\ pass'.quiet = pass.quiet /\ pass'.force = pass.force /\ pass'.total = pass.total
  <2>1. <<>> \in Seq(Entry) /\ pass.offset + Len(pass.batch) \in Nat
    BY <1>1
  <2> QED
    BY <2>1 DEF Index!MarkBatch, IndexTypes, PassRecord, InBatch
<1>8. IndexTypes'
  BY <1>0, <1>6, <1>7 DEF IndexTypes
<1>9. BareCounted'
  BY <1>0, <1>6 DEF BareCounted
<1>10. BatchKnown'
  BY <1>7 DEF BatchKnown
<1>11. NamedOnce'
  BY <1>0, <1>2, <1>6 DEF NamedOnce
<1>12. MarkedNamed'
  <2> SUFFICES ASSUME indexCount.failures = 0, NEW r \in Index!Stored, row'[r].vector = "own"
               PROVE  row[r].named > 0
    BY <1>0, <1>6, <1>7 DEF MarkedNamed
  <2>1. CASE row[r].vector = "own"
    BY <2>1 DEF MarkedNamed
  <2>2. CASE row[r].vector # "own"
    <3>1. PICK i \in 1..Len(pass.batch) : pass.batch[i].id = r
      BY <1>2, <1>6, <2>2
    <3>2. Before(i) /\ pass.batch[i].vector = "none"
      BY <1>0, <1>1, <1>5, <2>2, <3>1 DEF BatchKnown, Before, RowRecord
    <3> QED
      BY <1>0, <3>1, <3>2 DEF MarkedNamed
  <2> QED
    BY <2>1, <2>2
<1>13. IndexAddsUp'
  <2> SUFFICES ASSUME pass.quiet, ~pass.force PROVE Left' + pass.offset + Len(pass.batch) = pass.total
    <3>1. Left' \in Nat
      BY <1>8, EligibleFiniteNext DEF Left
    <3>2. Left' + pass.offset + Len(pass.batch) = pass.total => Left' + pass'.offset = pass'.total
      BY <1>1, <1>7, <3>1
    <3> QED
      BY <1>7, <3>2 DEF IndexAddsUp
  <2>1. /\ Left + pass.offset = pass.total /\ pass.embedded > 0
        /\ \A i \in 1..Len(pass.batch) : pass.batch[i].id \in Index!Eligible(FALSE)
    <3>1. /\ Left + pass.offset = pass.total /\ pass.embedded = pass.next - 1
          /\ \A i \in 1..Len(pass.batch) : pass.batch[i].id \in Index!Eligible(FALSE)
      BY <1>0 DEF IndexAddsUp
    <3>2. pass.next = Len(pass.batch) + 1 /\ Len(pass.batch) \in Nat /\ Len(pass.batch) > 0
      BY <1>1
    <3>3. pass.next - 1 > 0
      BY <3>2
    <3>4. pass.embedded > 0
      BY <3>1, <3>3
    <3> QED
      BY <3>1, <3>4
  <2>2. ids \subseteq Index!Eligible(FALSE)
    BY <1>2, <2>1
  <2>3. Index!Eligible(FALSE)' = Index!Eligible(FALSE) \ ids
    BY <1>6, <2>1 DEF Index!Eligible
  <2>4. Index!IsFiniteSet(ids) /\ Index!Cardinality(ids) = Len(pass.batch)
    <3> DEFINE n == Len(pass.batch)
               f == [i \in 1..n |-> pass.batch[i].id]
    <3>0. n \in Nat /\ n > 0
      BY <1>1
    <3>1. f \in Bijection(1..n, ids)
      <4>1. f \in [1..n -> ids]
        BY <1>2
      <4>2. \A i, j \in 1..n : f[i] = f[j] => i = j
        BY <1>0 DEF BatchKnown
      <4>3. \A r \in ids : \E i \in 1..n : f[i] = r
        BY <1>2
      <4> HIDE DEF f, n
      <4> QED
        BY <4>1, <4>2, <4>3 DEF Bijection, Injection, Surjection, IsInjective
    <3>2. ExistsBijection(1..n, ids)
      BY <3>1 DEF ExistsBijection
    <3> HIDE DEF n
    <3>3. Index!IsFiniteSet(1..n) /\ Index!Cardinality(1..n) = n
      BY <3>0, IndexFS_Interval
    <3>4. Index!IsFiniteSet(ids) /\ Index!Cardinality(ids) = n
      BY <3>2, <3>3, IndexFS_Bijection
    <3> QED
      BY <3>4 DEF n
  <2>5. /\ Index!IsFiniteSet(Index!Eligible(FALSE)) /\ Index!Cardinality(Index!Eligible(FALSE)) \in Nat
    BY EligibleFinite
  <2>6. Index!Eligible(FALSE) \cap ids = ids
    BY <2>2
  <2>7. Index!Cardinality(Index!Eligible(FALSE) \ ids) = Index!Cardinality(Index!Eligible(FALSE)) - Index!Cardinality(ids)
    BY <2>5, <2>6, IndexFS_Difference
  <2>8. Left' = Left - Len(pass.batch)
    BY <2>3, <2>4, <2>7 DEF Left
  <2>9. Left \in Nat
    BY <2>5 DEF Left
  <2> QED
    BY <1>1, <2>1, <2>8, <2>9
<1> QED
  BY <1>8, <1>9, <1>10, <1>11, <1>12, <1>13

LEMMA IndexAllKeeps == ASSUME IndexAssumptions, SInv, [Index!Next]_Index!indexVars PROVE SInv'
<1>1. ASSUME NEW r \in Rows, NEW text \in BOOLEAN, Index!UpsertCohesive(r, text) PROVE SInv'
  BY <1>1, UpsertKeeps
<1>2. ASSUME NEW r \in Rows, Index!IndexProfile(r) PROVE SInv'
  BY <1>2, IndexKeeps
<1>3. ASSUME NEW force \in BOOLEAN, Index!CountEligible(force) PROVE SInv'
  BY <1>3, CountKeeps
<1>4. CASE Index!FetchBatch
  BY <1>4, IndexFetchKeeps
<1>5. CASE Index!BatchIndex
  BY <1>5, BatchIndexKeeps
<1>6. CASE Index!MarkBatch
  BY <1>6, MarkKeeps
<1>7. CASE UNCHANGED Index!indexVars
  BY <1>7
     DEF SInv, Index!indexVars, IndexTypes, BareCounted, BatchKnown, NamedOnce, MarkedNamed, IndexAddsUp,
         InBatch,
             Before, Index!Stored, Left, Index!Eligible
<1> QED
  BY <1>1, <1>2, <1>3, <1>4, <1>5, <1>6, <1>7 DEF Index!Next

LEMMA IndexGives == ASSUME IndexAssumptions, SInv PROVE Index!TypeOK /\ Index!EmbedPass
<1>1. Index!TypeOK
  <2>1. \A r \in Index!Stored : row[r].named \in 0..1 /\ row[r].bare \in 0..MaxSyncs
    BY
       DEF SInv, IndexTypes, RowRecord, NamedOnce, BareCounted, IndexAssumptions, Index!BoundsAssumption,
           Counts
  <2> QED
    BY <2>1 DEF SInv, IndexTypes, RowRecord, PassRecord, Index!TypeOK
<1>2. Index!EmbedPass
  BY DEF SInv, IndexAddsUp, MarkedNamed, Index!EmbedPass, Left
<1> QED
  BY <1>1, <1>2

\* Rows, passes and marks have their types; and a pass that nothing interrupts has
\* embedded at least half of what it found and left unmarked what it did not reach,
\* for any rows, any size of a batch and any failures (embed.py).
THEOREM IndexSafe ==
    IndexAssumptions => (Index!Spec => [](Index!TypeOK /\ Index!EmbedPass))
<1> SUFFICES ASSUME IndexAssumptions PROVE Index!Spec => [](Index!TypeOK /\ Index!EmbedPass)
  OBVIOUS
<1>1. Index!Init => SInv
  BY IndexStarts
<1>2. SInv /\ [Index!Next]_Index!indexVars => SInv'
  BY IndexAllKeeps
<1>3. SInv => Index!TypeOK /\ Index!EmbedPass
  BY IndexGives
<1> QED
  BY <1>1, <1>2, <1>3, PTL DEF Index!Spec

-----------------------------------------------------------------------------
(* The part in the system.                                                  *)

\* A behaviour of the system is this part's, or leaves it alone.
LEMMA IndexAlone ==
    /\ Init /\ part = "index" => Index!Init
    /\ [Next]_vars /\ part = "index" => (part = "index")' /\ [Index!Next]_(Index!indexVars)
    /\ [Next]_vars /\ ~(part = "index") => (~(part = "index"))'
<1> USE DEF ClientsNext, LinkedInNext, IndexNext, ScheduleNext, BillingNext, SearchNext, CommandsNext
<1>1. Init /\ part = "index" => Index!Init
  BY DEF Init
<1>2. Next => part' = part
  BY DEF Next
<1>3. Next /\ part = "index" => Index!Next
  BY DEF Next
<1>4. UNCHANGED vars => part' = part /\ UNCHANGED Index!indexVars
  BY DEF vars, indexVars, Index!indexVars
<1> QED
  BY <1>1, <1>2, <1>3, <1>4

WholeIndex ==
    Index!TypeOK /\ Index!EmbedPass

LEMMA IndexAlwaysHold == IndexAssumptions => (Spec => [](part = "index" => WholeIndex))
<1> SUFFICES ASSUME IndexAssumptions PROVE Spec => [](part = "index" => WholeIndex)
  OBVIOUS
<1>1. Index!Spec => []WholeIndex
  BY IndexSafe DEF WholeIndex
<1>2. Init /\ part = "index" => Index!Init
  BY IndexAlone
<1>3. [Next]_vars /\ part = "index" => (part = "index")' /\ [Index!Next]_(Index!indexVars)
  BY IndexAlone
<1>4. [Next]_vars /\ ~(part = "index") => (~(part = "index"))'
  BY IndexAlone
<1> HIDE DEF WholeIndex, Init, Next, Index!Init, Index!Next
<1> QED
  BY <1>1, <1>2, <1>3, <1>4, PTL DEF Spec, Index!Spec

\* A batch embedding pass does at least half of its work, and marks nothing that has
\* no point, for any rows and size of a batch (embed.py).
THEOREM PassesEmbed == IndexAssumptions => (Spec => []EmbedPass)
<1>1. (part = "index" => WholeIndex) => EmbedPass
  BY DEF WholeIndex, EmbedPass
<1> HIDE DEF WholeIndex, EmbedPass
<1> QED
  BY <1>1, IndexAlwaysHold, PTL

===============================================================================
