------------------------------ MODULE MCServices ------------------------------
(***************************************************************************)
(* Services for TLC, with the operators of two parts that have no state.   *)
(***************************************************************************)
EXTENDS Services, TLC

CONSTANTS a1, a2, c1, c2, c3, u1, u2, p1, p2, p3, ann, e1, e2, e3, e4

\* Three calls at once for GitHub and Hugging Face.
MCWorkloads == {(c1 :> "bundle") @@ (c2 :> "events") @@ (c3 :> "events"),
                (c1 :> "commits") @@ (c2 :> "list") @@ (c3 :> "none"),
                (c1 :> "none") @@ (c2 :> "list") @@ (c3 :> "user")}

\* Two addresses, one of them found with two degrees of trust.
In(u) == [handle |-> u, text |-> None]
MCMentioning == {[social |-> {[handle |-> None, text |-> u2]}, website |-> {}, bio |-> {In(u1)}],
                 [social |-> {}, website |-> {In(u1)}, bio |-> {}]}
MCLnGiven == {<<u1, u2>>}

\* One member for free and two for a price, one of everything else; and one
\* subscription's events.
Allow(people, each) ==
    [k \in {"org_members", "mailboxes", "campaigns", "developer_profiles", "projects"} |->
       IF k = "org_members" THEN people ELSE each]
MCPlanLimit == [free |-> Allow(1, 1), pro |-> Allow(2, 1)]
Event(type, id, plan, status) == [type |-> type, id |-> id, plan |-> plan, status |-> status]
MCEvents == (e1 :> Event("checkout", "s1", None, None))
            @@ (e2 :> Event("updated", "s1", "pro", "active"))
            @@ (e3 :> Event("deleted", "s1", None, None))
            @@ (e4 :> Event("failed", "s1", None, None))

\* Three profiles, one with two points; one point has lost its profile.
MCSatisfies == (p1 :> {"min_stars", "min_contributions", "topics"})
               @@ (p2 :> {"min_stars", "min_contributions"}) @@ (p3 :> {})
MCIndexed == {<<p1, p2, p2, p3>>, <<p3, None, p2, p1>>, <<p2, p1, p3>>}
MCWeights == {[github_activity |-> 6, recency |-> 4]}

\* One person, who is on all platforms.
MCGiven == {{ann}}

(* The tokens of one part are alike, and so are the workers, instances or  *)
(* requests of others: a1 and a2 are all of these.                         *)
Symmetry == Permutations({a1, a2})

(* The two longest pipelines run beside a request or with a fault, not with *)
(* both; the shorter ones with both.                                       *)
OneOrTheOther ==
    part = "commands" /\ Len(run.steps) > 4 => commandCount.commands + commandCount.faults <= 1

(* Two bands of followers and three of stars, pages of one, two pages.     *)
Disc == INSTANCE Discovery
    WITH PerPage <- 1, MaxPages <- 2, Alpha <- 1, Whole <- 4, Open <- 0,
         FollowerBands <- <<[lo |-> 3, hi |-> 0], [lo |-> 1, hi |-> 3]>>,
         StarBands <- <<[lo |-> 4, hi |-> 0], [lo |-> 2, hi |-> 4], [lo |-> 1, hi |-> 2]>>,
         RepoPool <- 4, ModelPool <- 4

(* Texts of up to two characters, of which one is kept.                    *)
Fields == INSTANCE ProfileFields WITH MaxSize <- 2, ClipAt <- 1

ASSUME PartsAssumptions ==
    /\ Clients!TokensAssumption /\ Clients!LimitsAssumption /\ Clients!WorkloadsAssumption
    /\ LinkedIn!LimitsAssumption /\ LinkedIn!UrlsAssumption
    /\ Index!RowsAssumption /\ Index!BoundsAssumption
    /\ Schedule!InstancesAssumption /\ Schedule!PeriodsAssumption /\ Schedule!BoundsAssumption
    /\ Billing!BillingAssumption
    /\ Search!SearchAssumption
    /\ Commands!CommandsAssumption
    /\ Fields!SizesAssumption
    /\ Disc!DiscoveryAssumption

\* The name that is shown is the first text of LinkedIn, GitHub and Hugging Face,
\* cut; the company GitHub's before Hugging Face's, LinkedIn's never; the picture
\* LinkedIn's only when the others have none; and a shown text, unless empty, has
\* its rows in the audit log (merge.py, the layers one after the other).
GhRows == {<<>>} \cup [name : Fields!Text("gh"), avatar : Fields!Text("gh"),
                       company : Fields!Text("gh"), stars : {1}]
HfRows == {<<>>} \cup [name : Fields!Text("hf"), avatar : Fields!Text("hf"), models : {1}]
LnRows == {<<>>} \cup [name : Fields!Text("ln"), avatar : Fields!Text("ln"),
                       headline : Fields!Text("ln"), skills : {{"tla"}}, years : {1}]
FirstText(texts) == LET some == SelectSeq(texts, LAMBDA t : t.size > 0)
                    IN IF some = <<>> THEN Fields!Absent ELSE Fields!Clip(Head(some))

ASSUME LayersKeepPriorities ==
    \A gh \in GhRows, hf \in HfRows, ln \in LnRows :
      LET g == Fields!BuildGh(gh)
          h == Fields!BuildHf(hf)
          l == Fields!BuildLn(ln)
          dev == Fields!MergeDevFields(g, h)
          social == IF l = <<>> THEN [row |-> <<>>] ELSE Fields!MergeSocialFields(l)
          agg == Fields!MergeAggregatedFields(dev.row, social.row)
          shown == Fields!MergeCohesiveFields(agg.row)
          Of(data, f) == Fields!Field(data, f)
      IN /\ shown.display_name
              = FirstText(<<Of(l, "display_name"), Of(g, "display_name"), Of(h, "display_name")>>)
         /\ shown.company = FirstText(<<Of(g, "company"), Of(h, "company")>>)
         /\ shown.avatar_url
              = FirstText(<<Of(g, "avatar_url"), Of(h, "avatar_url"), Of(l, "avatar_url")>>)
         /\ \A f \in {"display_name", "avatar_url", "company", "headline"} :
              shown[f].size > 0 <=> f \in Fields!AuditRows(agg.decisions)

\* Nobody of two who is better on both numbers is cut, or comes behind the other.
NoneBetterBehind(top, Better(_, _)) ==
    \A i \in DOMAIN top : \A l \in {"a", "b"} :
      Better(l, top[i]) => \E j \in 1..i : top[j] = l

\* GitHub's discovery does not pass over who has more followers and more stars than
\* somebody it picks, if a search that did not fail could find the one and the
\* number of followers was answered (gh/discover.py).  Left out are the owners of
\* repositories with as many stars as two bands share, which count twice.
Person(l) == [login : {l}, followers : {0, 2, 3, 4},
              repos : {<<>>, <<1>>, <<2>>, <<3>>, <<1, 3>>}]
ASSUME DiscoveryKeepsOrder ==
    \A a \in Person("a"), b \in Person("b"), fails \in {0, 1, 2}, gone \in {{}, {"a"}} :
      LET person == [a |-> a, b |-> b]
          Top(n) == Disc!DiscoverTopUsers(<<a, b>>, <<fails, 0>>, <<0, 0, 0>>, gone, 0, n)
          Known(l) == /\ l \notin gone
                      /\ person[l].followers \in 1..3 \/ (person[l].followers = 4 /\ fails # 1)
          Better(l, k) == /\ Known(l) /\ person[l].followers > person[k].followers
                          /\ Disc!Sum(person[l].repos) > Disc!Sum(person[k].repos)
                          /\ person[k].repos # <<2>>
      IN \A n \in 1..2 : NoneBetterBehind(Top(n), Better)

\* Hugging Face's does not pass over who has more downloads and more likes; who
\* tops one list and the other counts once (hf/discover.py).
Model(id) == [id : {id}, author : {"a", "b", "none"}, downloads : 0..2, likes : 0..2]
ASSUME AuthorsKeepOrder ==
    \A models \in Model(1) \X Model(2) \X [id : {3}, author : {"a"}, downloads : {1}, likes : 0..1] :
      LET Total(l, f) == Disc!Sum([k \in 1..3 |-> IF models[k].author = l THEN models[k][f] ELSE 0])
          Better(l, k) == /\ Total(l, "downloads") > Total(k, "downloads")
                          /\ Total(l, "likes") > Total(k, "likes")
      IN \A n \in 1..2 : NoneBetterBehind(Disc!DiscoverTopAuthors(models, <<0, 0>>, "none", n), Better)

=============================================================================
