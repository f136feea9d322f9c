---------------------------- MODULE ProfileSearch -----------------------------
(***************************************************************************)
(* One search over the cohesive profiles: a vector search, a keyword       *)
(* search in the database and one in OpenSearch, fused by reciprocal rank, *)
(* reranked if asked for, and read back from the database; and the stored  *)
(* rankings that are shown beside the results.                             *)
(*                                                                         *)
(* A filter is a set of conditions, one for each way the three searches    *)
(* differ in what they apply; an index entry keeps what its profile        *)
(* satisfied when it was indexed.  Scores are whole numbers: Unit stands   *)
(* for 1.0, and a logarithmic scale is a straight one that keeps its order *)
(* and its ends.                                                           *)
(***************************************************************************)
EXTENDS Integers, Sequences, FiniteSets, SequencesExt, FiniteSetsExt

CONSTANTS
    Profiles,
    Satisfies,        \* profile -> the conditions it meets
    Indexed,          \* what the vector index may hold: points in the order they score in
    Filters,          \* the filters of requests
    Limits,           \* the limits of requests
    VectorFactor, KeywordFactor, RerankTop,   \* 15, 10 and 200 in the code
    Unit,
    Weights,          \* the weights of requests: [github_activity, recency]
    None,
    MaxChanges        \* bound: profiles merged away or rebuilt, rankings asked for

Conditions == {"min_stars", "min_contributions", "topics"}
SearchAssumption ==
    /\ IsFiniteSet(Profiles) /\ None \notin Profiles
    /\ Satisfies \in [Profiles -> SUBSET Conditions]
    /\ Indexed \subseteq Seq(Profiles \cup {None}) /\ Filters \subseteq SUBSET Conditions
    /\ Limits \cup {VectorFactor, KeywordFactor, RerankTop, Unit} \subseteq Nat \ {0}
    /\ MaxChanges \in Nat

VARIABLES
    row,       \* id -> the numbers a ranking is made from, for the rows there are
    points,    \* the points of the vector index, best first; None carries no id
    ranking,   \* id -> its profile_ranking row, for those that have one
    ranker,    \* a ranking that is computed and not yet stored
    search,    \* the request and what it has found
    changes

searchVars == <<row, points, ranking, ranker, search, changes>>

NoSearch == [pc |-> "idle", filter |-> {}, limit |-> 0, rerank |-> FALSE,
             lists |-> <<>>, fused |-> <<>>, result |-> <<>>]
Nobody == [of |-> None, scores |-> None]
NewRow == [contributions |-> 1, days |-> 7]
RowsThereAre == {NewRow, [contributions |-> 2, days |-> 400]}

Init ==
    /\ row = [p \in Profiles |-> NewRow]
    /\ points \in Indexed
    /\ ranking = [p \in {} |-> 0] /\ ranker = Nobody
    /\ search = NoSearch /\ changes = 0

----------------------------------------------------------------------------
(* The search.                                                             *)

\* The conditions that a search turns into its own query.
Applied == [vector |-> Conditions,
            keyword |-> {"min_stars", "min_contributions"},
            opensearch |-> {"min_stars"}]
Passes(where, p) == (search.filter \cap Applied[where]) \subseteq Satisfies[p]

Take(s, n) == SubSeq(s, 1, IF n < Len(s) THEN n ELSE Len(s))

\* What a sequence holds of a set, in the order of the sequence.
Only(s, S) ==
    {[k \in DOMAIN at |-> s[at[k]]] :
       at \in {f \in SetToSeqs({i \in DOMAIN s : s[i] \in S}) :
                \A k, n \in DOMAIN f : k < n => f[k] < f[n]}}

Request(filter, limit, rerank) ==
    /\ search.pc = "idle"
    /\ search' = [NoSearch EXCEPT !.pc = "vector", !.filter = filter,
                                  !.limit = limit, !.rerank = rerank]
    /\ UNCHANGED <<row, points, ranking, ranker, changes>>

\* The limit is applied first: a point without its profile's id takes a place
\* and is then left out.
VectorSearch ==
    /\ search.pc = "vector"
    /\ \E matching \in Only(points, {None} \cup {p \in Profiles : Passes("vector", p)}) :
         \E hits \in Only(Take(matching, search.limit * VectorFactor), Profiles) :
           search' = [search EXCEPT !.pc = "opensearch", !.lists = <<hits>>]
    /\ UNCHANGED <<row, points, ranking, ranker, changes>>

Orders(set, n) == UNION {{Take(s, n) : s \in SetToSeqs(found)} : found \in SUBSET set}

\* Whatever is indexed and matches, profiles that are gone too; nothing if it
\* is switched off or fails.
OpenSearchSearch ==
    /\ search.pc = "opensearch"
    /\ \E hits \in Orders({p \in Profiles : Passes("opensearch", p)}, search.limit * KeywordFactor) :
         search' = [search EXCEPT !.pc = "keyword",
                      !.lists = IF hits = <<>> THEN @ ELSE Append(@, hits)]
    /\ UNCHANGED <<row, points, ranking, ranker, changes>>

\* The second of the lists; only rows there are; nothing if it fails.
KeywordSearch ==
    /\ search.pc = "keyword"
    /\ \E hits \in Orders({p \in DOMAIN row : Passes("keyword", p)}, search.limit * KeywordFactor) :
         search' = [search EXCEPT !.pc = "fuse", !.lists = InsertAt(@, 2, hits)]
    /\ UNCHANGED <<row, points, ranking, ranker, changes>>

\* 1 / (60 + rank), as a share of a multiple of every 60 + rank.
K == 60
Whole == 61 * 62 * 63 * 64
Share(rank) == Whole \div (K + rank)

Total(numbers) ==
    LET sum[n \in Nat] == IF n = 0 THEN 0 ELSE sum[n - 1] + numbers[n]
    IN sum[Len(numbers)]

RrfScore(lists, p) ==
    Total([l \in DOMAIN lists |->
             Total([i \in DOMAIN lists[l] |-> IF lists[l][i] = p THEN Share(i) ELSE 0])])

NamedFirst(lists, p, q) ==
    \E l \in DOMAIN lists :
      /\ \E i \in DOMAIN lists[l] : lists[l][i] = p /\ \A j \in 1..i : lists[l][j] # q
      /\ \A k \in 1..(l - 1) : q \notin ToSet(lists[k])

\* Ties stay in the order in which the lists first name the profiles.
Above(lists, p, q) ==
    \/ RrfScore(lists, p) > RrfScore(lists, q)
    \/ RrfScore(lists, p) = RrfScore(lists, q) /\ NamedFirst(lists, p, q)

ReciprocalRankFusion(lists) ==
    {s \in SetToSeqs(UNION {ToSet(lists[l]) : l \in DOMAIN lists}) :
       \A i, j \in DOMAIN s : i < j => Above(lists, s[i], s[j])}

Fuse ==
    /\ search.pc = "fuse"
    /\ \E fused \in ReciprocalRankFusion(search.lists) :
         search' = [search EXCEPT !.pc = IF fused = <<>> THEN "done"
                                         ELSE IF search.rerank THEN "rerank" ELSE "fetch",
                                  !.fused = fused,
                                  !.result = Take(fused, search.limit)]
    /\ UNCHANGED <<row, points, ranking, ranker, changes>>

\* The model orders the best RerankTop of the fused profiles anew.
Rerank ==
    /\ search.pc = "rerank"
    /\ \E order \in SetToSeqs(ToSet(Take(search.fused, RerankTop))) :
         search' = [search EXCEPT !.pc = "fetch", !.result = Take(order, search.limit)]
    /\ UNCHANGED <<row, points, ranking, ranker, changes>>

\* Mutant: the rows stay in the order the database gives them.
FetchUnordered ==
    /\ search.pc = "fetch"
    /\ search' = [search EXCEPT !.pc = "done", !.result = SetToSeq(ToSet(@) \cap DOMAIN row)]
    /\ UNCHANGED <<row, points, ranking, ranker, changes>>

\* Profiles that are gone are left out, nothing comes in their place.
Fetch ==
    /\ search.pc = "fetch"
    /\ \E found \in Only(search.result, DOMAIN row) :
         search' = [search EXCEPT !.pc = "done", !.result = found]
    /\ UNCHANGED <<row, points, ranking, ranker, changes>>

----------------------------------------------------------------------------
(* The rankings.                                                           *)

Clamp(v) == Max({0, Min({Unit, v})})
LogScore(v, scale) == IF v <= 0 THEN 0 ELSE Clamp((v * Unit) \div scale)
GithubActivity(r) == LogScore(r.contributions, 2)
Recency(r) == IF r.days <= 7 THEN Unit ELSE IF r.days <= 365 THEN Unit \div 5 ELSE Unit \div 10
Composite(r, weights) ==
    Clamp((weights.github_activity * GithubActivity(r)
           + weights.recency * Recency(r)) \div Unit)
ComputeScores(r, weights) ==
    [github_activity |-> GithubActivity(r), recency |-> Recency(r),
     composite |-> Composite(r, weights)]

\* A stored ranking is used as it is, however old; only a profile without one
\* is scored.
GetRanking(p, weights) ==
    /\ p \in DOMAIN row \ DOMAIN ranking
    /\ ranker = Nobody /\ changes < MaxChanges
    /\ ranker' = [of |-> p, scores |-> ComputeScores(row[p], weights)]
    /\ changes' = changes + 1
    /\ UNCHANGED <<row, points, ranking, search>>

\* It replaces a row that another request has stored since.
StoreRanking ==
    /\ ranker # Nobody
    /\ ranking' = [p \in DOMAIN ranking \cup {ranker.of} |->
                     IF p = ranker.of THEN ranker.scores ELSE ranking[p]]
    /\ ranker' = Nobody
    /\ UNCHANGED <<row, points, search, changes>>

\* Every profile that has no ranking is given one, with this request's weights.
RankAll(weights) ==
    /\ changes < MaxChanges
    /\ ranking' = [p \in DOMAIN ranking \cup DOMAIN row |->
                     IF p \in DOMAIN ranking THEN ranking[p] ELSE ComputeScores(row[p], weights)]
    /\ changes' = changes + 1
    /\ UNCHANGED <<row, points, ranker, search>>

----------------------------------------------------------------------------
(* The bridge, meanwhile.                                                  *)

MergedAway(p) ==
    /\ changes < MaxChanges /\ p \in DOMAIN row
    /\ row' = [q \in DOMAIN row \ {p} |-> row[q]]
    /\ changes' = changes + 1
    /\ UNCHANGED <<points, ranking, ranker, search>>

Rebuilt(p, r) ==
    /\ changes < MaxChanges /\ p \in DOMAIN row /\ row[p] # r
    /\ row' = [row EXCEPT ![p] = r]
    /\ changes' = changes + 1
    /\ UNCHANGED <<points, ranking, ranker, search>>

Next ==
    \/ \E f \in Filters, n \in Limits, again \in BOOLEAN : Request(f, n, again)
    \/ VectorSearch \/ OpenSearchSearch \/ KeywordSearch \/ Fuse \/ Rerank \/ Fetch
    \/ \E p \in Profiles : MergedAway(p) \/ \E r \in RowsThereAre : Rebuilt(p, r)
    \/ \E w \in Weights : RankAll(w) \/ \E p \in Profiles : GetRanking(p, w)
    \/ StoreRanking

Spec == Init /\ [][Next]_searchVars

----------------------------------------------------------------------------
TypeOK ==
    /\ DOMAIN row \subseteq Profiles /\ DOMAIN ranking \subseteq Profiles
    /\ search.pc \in {"idle", "vector", "opensearch", "keyword", "fuse", "rerank", "fetch", "done"}
    /\ Len(search.lists) <= 3 /\ Len(search.result) <= search.limit
    /\ IsInjective(search.fused) /\ IsInjective(search.result)

\* A profile that every search ranks at least as high, and at least as often,
\* as another is never shown below it unless the reranker has spoken, however
\* many points it has and whichever lists it is missing from.
FusionKeepsOrder ==
    LET Hits(l, n, p) == Cardinality({i \in 1..n : search.lists[l][i] = p})
        Dominates(p, q) == \A l \in DOMAIN search.lists :
                             \A n \in DOMAIN search.lists[l] : Hits(l, n, p) >= Hits(l, n, q)
    IN ~search.rerank /\ search.pc = "done" =>
         \A i, j \in DOMAIN search.result :
            i < j => ~Dominates(search.result[j], search.result[i])

=============================================================================
