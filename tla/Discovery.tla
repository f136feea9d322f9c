------------------------------ MODULE Discovery ------------------------------
(***************************************************************************)
(* Whom discovery picks: GitHub users by followers and stars, Hugging Face *)
(* authors by downloads and likes.                                         *)
(*                                                                         *)
(* A search answers page by page with what it has, best first; "fails" is  *)
(* the page whose request fails, 0 for none, and the search is given up    *)
(* there.  The score is a rank on either axis, weighed by alpha, which is  *)
(* Alpha of Whole here; who is not asked for, or not answered, has none.   *)
(***************************************************************************)
EXTENDS Integers, Sequences, FiniteSets, SequencesExt, FiniteSetsExt

CONSTANTS
    PerPage, MaxPages,       \* 100 and 10 in the code
    Alpha, Whole,
    FollowerBands, StarBands,   \* sequences of [lo, hi]; hi is Open for the first
    Open,
    RepoPool, ModelPool      \* the repositories and the models that are looked at

DiscoveryAssumption ==
    /\ {PerPage, MaxPages, RepoPool, ModelPool} \subseteq Nat \ {0} /\ Alpha \in 0..Whole
    /\ FollowerBands \in Seq([lo : Nat, hi : Nat \cup {Open}])
    /\ StarBands \in Seq([lo : Nat, hi : Nat \cup {Open}])

Sum(s) == FoldLeft(+, 0, s)
Distinct(s) == FoldLeft(LAMBDA seen, x : IF Contains(seen, x) THEN seen ELSE Append(seen, x), <<>>, s)
Cut(s, n) == SubSeq(s, 1, IF n < Len(s) THEN n ELSE Len(s))

\* Numbers on a boundary are in both bands that meet there, unless one is open.
InBand(n, band) == IF band.hi = Open THEN n > band.lo ELSE n \in band.lo..band.hi

\* The items in the order of a number, ties as they came (Python's sort).
Ordered(items, by) ==
    LET Before(i, j) == \/ items[i][by] > items[j][by]
                        \/ items[i][by] = items[j][by] /\ i < j
    IN [k \in DOMAIN items |-> items[SetToSortSeq(DOMAIN items, Before)[k]]]

\* What a search service finds for a query, best first.
Answered(items, by, band) == Ordered(SelectSeq(items, LAMBDA x : InBand(x[by], band)), by)

\* Pages are read until one is short, one fails, or there are as many as may be.
PagesRead(found, fails, most) ==
    LET short == Len(found) \div PerPage + 1
        read == Min({short, most} \cup IF fails = 0 THEN {} ELSE {fails - 1})
    IN Cut(found, read * PerPage)

----------------------------------------------------------------------------
(* GitHub: people have a login, followers and repos, each the number of    *)
(* its stars.                                                              *)

CollectUsersFromBand(people, band, fails) ==
    PagesRead(Answered(people, "followers", band), fails, MaxPages)

\* Repositories of one band after the other, until there are enough; the stars
\* of each are added to its owner's.
CollectTopRepoOwners(people, fails) ==
    LET repos == FlattenSeq([i \in DOMAIN people |->
                   [k \in DOMAIN people[i].repos |->
                      [owner |-> people[i].login, stars |-> people[i].repos[k]]]])
        Band(b) == PagesRead(Answered(repos, "stars", StarBands[b]), fails[b], MaxPages)
    IN Cut(FlattenSeq([b \in DOMAIN StarBands |-> Band(b)]), RepoPool)

\* The exact number of followers is asked for each, and is 0 for those in lost.
EnrichFollowerCounts(users, lost) ==
    [login \in {users[k].login : k \in DOMAIN users} |->
       IF login \in lost THEN 0
       ELSE users[CHOOSE k \in DOMAIN users : users[k].login = login].followers]

\* The users of the bands, each once, then the owners who are new, whose number
\* of followers nobody asks for.
Candidates(people, fails, starFails, lost, minFollowers) ==
    LET bands == SelectSeq([b \in DOMAIN FollowerBands |-> b],
                           LAMBDA b : FollowerBands[b].lo >= minFollowers)
        users == FlattenSeq([k \in DOMAIN bands |->
                   CollectUsersFromBand(people, FollowerBands[bands[k]], fails[bands[k]])])
        repos == CollectTopRepoOwners(people, starFails)
        stars(login) == Sum([k \in DOMAIN repos |->
                          IF repos[k].owner = login THEN repos[k].stars ELSE 0])
        logins == Distinct([k \in DOMAIN users |-> users[k].login]
                           \o [k \in DOMAIN repos |-> repos[k].owner])
        exact == EnrichFollowerCounts(users, lost)
        followers(login) == IF login \in DOMAIN exact THEN exact[login] ELSE 0
    IN [k \in DOMAIN logins |-> [login |-> logins[k], first |-> followers(logins[k]),
                                 second |-> stars(logins[k])]]

----------------------------------------------------------------------------
(* Both platforms.                                                         *)

\* A rank counts those in front, ties in the order they came.
RankAndScore(users) ==
    LET n == Len(users)
        InFront(i, by) == Cardinality({j \in 1..n :
            users[j][by] > users[i][by] \/ (users[j][by] = users[i][by] /\ j < i)})
        scored == [i \in 1..n |-> [login |-> users[i].login,
            score |-> Alpha * (n - InFront(i, "first")) + (Whole - Alpha) * (n - InFront(i, "second"))]]
        ranked == Ordered(scored, "score")
    IN [k \in 1..n |-> ranked[k].login]

DiscoverTopUsers(people, fails, starFails, lost, minFollowers, n) ==
    Cut(RankAndScore(Candidates(people, fails, starFails, lost, minFollowers)), n)

----------------------------------------------------------------------------
(* Hugging Face: models have an id, an author unless they belong to nobody *)
(* (NoAuthor), downloads and likes.                                        *)

\* As many pages as it takes.
ListTopModels(models, by, fails) ==
    Cut(PagesRead(Ordered(models, by), fails, (ModelPool - 1) \div PerPage + 1), ModelPool)

\* A model that both lists name counts once.
AggregateByAuthor(models, NoAuthor) ==
    LET authored == SelectSeq(Distinct(models), LAMBDA m : m.author # NoAuthor)
        authors == Distinct([k \in DOMAIN authored |-> authored[k].author])
        Total(a, f) == Sum([k \in DOMAIN authored |->
                         IF authored[k].author = a THEN authored[k][f] ELSE 0])
    IN [k \in DOMAIN authors |-> [login |-> authors[k], first |-> Total(authors[k], "downloads"),
                                  second |-> Total(authors[k], "likes")]]

DiscoverTopAuthors(models, fails, NoAuthor, n) ==
    LET listed == ListTopModels(models, "downloads", fails[1])
                  \o ListTopModels(models, "likes", fails[2])
    IN Cut(RankAndScore(AggregateByAuthor(listed, NoAuthor)), n)

=============================================================================
