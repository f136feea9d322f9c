--------------------------- MODULE IdentityBridge ----------------------------
(***************************************************************************)
(* The bridge from raw platform users to developer profiles: the sync      *)
(* workers that find or create a user's profile and rebuild its layers,    *)
(* the resolver that merges profiles of the same person, and the reviewers *)
(* who approve or reject the pairs it left to them.                        *)
(*                                                                         *)
(* All of them use the database at the same time and every statement is    *)
(* its own transaction, except merge_profiles, which is one.  An action is *)
(* a statement and the computation up to the next one.  What a row holds   *)
(* is abstracted to the set of users whose raw data it was built from;     *)
(* ProfileFields says what becomes of the fields.                          *)
(***************************************************************************)
EXTENDS IdentityScore

CONSTANTS
    Ids,                         \* profile ids: random, so any unused one may be next
    GhUsers, HfUsers, LnUsers,   \* rows of gh_users, hf_users and ln_users
    Raw,                         \* user -> the fields the resolver reads of its raw row
    Workers,
    RunModes,                    \* the modes sync runs are started with
    MaxSyncs, MaxResolves, MaxReviews, MaxClaims   \* bounds on runs and requests

IdsAssumption == Ids \subseteq Nat
BridgeBoundsAssumption == {MaxSyncs, MaxResolves, MaxReviews, MaxClaims} \subseteq Nat

Users == GhUsers \cup HfUsers \cup LnUsers

\* The three tables have rows of their own, and None is neither a row nor a set of them.
UsersAssumption ==
    /\ IsFiniteSet(GhUsers) /\ IsFiniteSet(HfUsers) /\ IsFiniteSet(LnUsers)
    /\ GhUsers \cap HfUsers = {} /\ GhUsers \cap LnUsers = {} /\ HfUsers \cap LnUsers = {}
    /\ None \notin Users /\ None \notin Ids /\ \A S \in SUBSET Users : S # None

Tables == {"dev", "social", "agg", "coh"}
Pairs == {p \in Ids \X Ids : p[1] > p[2]}
Grades == {"pending", "approved"}

VARIABLES
    claim,      \* HF user -> the GitHub login its page names
    profile,    \* id -> its developer_profile row, for the ids in use
    rows,       \* table -> id -> the users its row was built from, or None
    candidate,  \* pair -> status of its merge_candidate row
    refers,     \* id -> the profile that recipients and audit rows made for it refer to
    queue,      \* users still to be synced in this run
    worker,     \* worker -> where it is
    resolver,   \* where the resolver is, and the pairs it has still to triage
    review,     \* the review request in flight
    count       \* what the bounds count

vars == <<claim, profile, rows, candidate, refers, queue, worker, resolver, review, count>>
data == <<claim, profile, rows, candidate, refers>>

Known == DOMAIN profile
Live == {p \in Known : ~profile[p].deleted}

\* What a task that waits for work remembers: nothing.
Idle == [pc |-> "idle", item |-> None, p |-> None, has |-> FALSE]
NoTriage == [pc |-> "idle", todo |-> {}, pair |-> None, seen |-> "absent"]
NoReview == [pc |-> "idle", kind |-> None, pair |-> None, seen |-> "absent"]

Init ==
    /\ claim = [h \in HfUsers |-> None]
    /\ profile = [p \in {} |-> None]
    /\ rows = [t \in Tables |-> [p \in Ids |-> None]]
    /\ candidate = [c \in Pairs |-> "absent"]
    /\ refers = [p \in Ids |-> p]
    /\ queue = <<>>
    /\ worker = [w \in Workers |-> Idle]
    /\ resolver = NoTriage
    /\ review = NoReview
    /\ count = [syncs |-> 0, resolves |-> 0, reviews |-> 0, claims |-> 0]

Counted(k) == count' = [count EXCEPT ![k] = @ + 1]

----------------------------------------------------------------------------
(* Around the bridge: a user adds a link to their HF page.               *)

ClaimGitHub(h, g) ==
    /\ count.claims < MaxClaims /\ claim[h] = None
    /\ claim' = [claim EXCEPT ![h] = g]
    /\ Counted("claims")
    /\ UNCHANGED <<profile, rows, candidate, refers, queue, worker, resolver, review>>

----------------------------------------------------------------------------
(* Sync.                                                                   *)

\* The names an item carries: an HF user brings along the login it claims when
\* the run lists it.
Login(u) == IF u \in GhUsers THEN u ELSE IF u \in HfUsers THEN claim[u] ELSE None
HfName(u) == IF u \in HfUsers THEN u ELSE None
ItemOf(u) == [user |-> u, login |-> Login(u)]

Platforms == [full |-> {GhUsers, HfUsers, LnUsers}, gh_only |-> {GhUsers},
              hf_only |-> {HfUsers}, ln_only |-> {LnUsers}]

ModesAssumption == RunModes \subseteq DOMAIN Platforms

Listed(mode, users) == SetToSeq({ItemOf(u) : u \in IF users \in Platforms[mode] THEN users ELSE {}})

\* A run queues the users of the platforms of its mode, platform by platform;
\* one run at a time.
StartSync(mode) ==
    /\ count.syncs < MaxSyncs
    /\ queue = <<>> /\ \A w \in Workers : worker[w] = Idle
    /\ queue' = Listed(mode, GhUsers) \o Listed(mode, HfUsers) \o Listed(mode, LnUsers)
    /\ Counted("syncs")
    /\ UNCHANGED <<data, worker, resolver, review>>

Goto(w, s) == worker' = [worker EXCEPT ![w] = s]
Fail(w) == Goto(w, Idle)    \* the exception is counted and the item marked failed

TakeItem(w) ==
    /\ worker[w].pc = "idle" /\ queue # <<>>
    /\ Goto(w, [Idle EXCEPT !.pc = "search", !.item = Head(queue)])
    /\ queue' = Tail(queue)
    /\ UNCHANGED <<data, resolver, review, count>>

\* Mutant: names are compared as SQL's NULLs are not.
FoundByNull(g, h) == {p \in Live : profile[p].gh = g \/ profile[p].hf = h}

\* The live profiles a name leads to: by GitHub login first, else by HF name.
Found(g, h) ==
    LET byGh == {p \in Live : g # None /\ profile[p].gh = g}
        byHf == {p \in Live : h # None /\ profile[p].hf = h}
    IN IF byGh # {} THEN byGh ELSE byHf

Search(w) ==
    /\ worker[w].pc = "search"
    /\ LET f == Found(worker[w].item.login, HfName(worker[w].item.user))
       IN \/ /\ f = {}
             /\ Goto(w, [worker[w] EXCEPT !.pc = "link"])
          \/ \E p \in f : Goto(w, [worker[w] EXCEPT !.pc = "link", !.p = p])
    /\ UNCHANGED <<data, queue, resolver, review, count>>

\* Both names are unique over all rows, the deleted ones included.
Taken(g, h, p) ==
    \E q \in Known \ {p} : (g # None /\ profile[q].gh = g) \/ (h # None /\ profile[q].hf = h)

\* COALESCE
Or(a, b) == IF a # None THEN a ELSE b

Link(w) ==
    LET s == worker[w]
        g == s.item.login
        h == HfName(s.item.user)
    IN /\ s.pc = "link"
       /\ \/ /\ Taken(g, h, s.p)
             /\ Fail(w)
             /\ UNCHANGED <<profile, rows>>
          \/ /\ ~Taken(g, h, s.p) /\ s.p # None
             /\ profile' = [profile EXCEPT ![s.p].gh = Or(g, @), ![s.p].hf = Or(h, @)]
             /\ Goto(w, [s EXCEPT !.pc = "dev"])
             /\ UNCHANGED rows
          \/ /\ ~Taken(g, h, s.p) /\ s.p = None
             /\ \E p \in Ids \ Known :
                  /\ profile' = [q \in Known \cup {p} |->
                       IF q = p THEN [gh |-> g, hf |-> h, deleted |-> FALSE, into |-> None,
                                      status |-> "pending"]
                       ELSE profile[q]]
                  /\ rows' = [rows EXCEPT !["dev"][p] = {}]
                  /\ Goto(w, [s EXCEPT !.pc = "dev", !.p = p])
       /\ UNCHANGED <<claim, candidate, refers, queue, resolver, review, count>>

\* Mutant: a name without a row contributes too.
DevDataUnchecked(i) == {i.user, i.login}

\* What the item's raw rows contribute to the developer profile.
DevData(i) == {i.user, i.login} \cap (GhUsers \cup HfUsers)

StoreDev(w) ==
    LET s == worker[w]
    IN /\ s.pc = "dev"
       /\ rows' = [rows EXCEPT !["dev"][s.p] = DevData(s.item)]
       /\ profile' = [profile EXCEPT ![s.p].status = "completed"]
       /\ Goto(w, [s EXCEPT !.pc = IF s.item.user \in LnUsers THEN "social" ELSE "agg"])
       /\ UNCHANGED <<claim, candidate, refers, queue, resolver, review, count>>

\* The upserts of the three tables that follow: one statement looks for the
\* profile's row, the next updates the row it found or inserts one.
NextTable == [social |-> "agg", agg |-> "coh"]
Looking == [social |-> "social_store", agg |-> "agg_store", coh |-> "coh_store"]

Look(w, t) ==
    /\ worker[w].pc = t
    /\ Goto(w, [worker[w] EXCEPT !.pc = Looking[t], !.has = rows[t][worker[w].p] # None])
    /\ UNCHANGED <<data, queue, resolver, review, count>>

\* The social profile is built from LinkedIn, the layers above from the item.
Content(t, i) == IF t = "social" THEN {i.user} ELSE DevData(i) \cup ({i.user} \cap LnUsers)

\* A profile has one row in a table, and a LinkedIn address one social row.
Store(w, t) ==
    LET s == worker[w]
        clash == \/ ~s.has /\ rows[t][s.p] # None
                 \/ /\ t = "social"
                    /\ \E q \in Ids \ {s.p} : rows[t][q] # None /\ s.item.user \in rows[t][q]
    IN /\ s.pc = Looking[t]
       /\ \/ /\ clash
             /\ Fail(w)
             /\ UNCHANGED rows
          \/ /\ ~clash
             /\ rows' = IF s.has /\ rows[t][s.p] = None THEN rows
                        ELSE [rows EXCEPT ![t][s.p] = Content(t, s.item)]
             /\ Goto(w, IF t = "coh" THEN Idle ELSE [s EXCEPT !.pc = NextTable[t], !.has = FALSE])
       /\ UNCHANGED <<claim, profile, candidate, refers, queue, resolver, review, count>>

----------------------------------------------------------------------------
(* Merging two profiles: one transaction, undone as a whole when a         *)
(* statement of it fails.                                                  *)

\* The links are copied while the source's row still has them, and both are
\* unique; the cohesive table has no updated_at for the re-pointing to set.
MergeFails(s, t) ==
    \/ profile[t].gh = None /\ profile[s].gh # None
    \/ profile[t].hf = None /\ profile[s].hf # None
    \/ rows["coh"][t] = None

\* Mutant: the target's rows are dropped and the source's lost with them.
DroppedRows(s, t) == [k \in Tables |-> IF k = "dev" THEN rows[k] ELSE [rows[k] EXCEPT ![s] = None, ![t] = None]]

\* The target keeps its own rows; the source's are dropped, or moved to a
\* target that has none.
MovedRows(s, t) ==
    [k \in Tables |->
       IF k = "dev" THEN rows[k]
       ELSE [rows[k] EXCEPT ![s] = None, ![t] = Or(rows[k][t], rows[k][s])]]

\* Mutant: the source is not deleted.
MergeKeepingSource(s, t) ==
    /\ ~MergeFails(s, t)
    /\ rows' = MovedRows(s, t)
    /\ refers' = refers /\ UNCHANGED profile
    /\ candidate' = [candidate EXCEPT ![<<s, t>>] = "merged"]

\* Mutant: merged_into is not written.
MergeIntoNobody(s, t) ==
    /\ ~MergeFails(s, t)
    /\ rows' = MovedRows(s, t)
    /\ refers' = [p \in Ids |-> IF refers[p] = s THEN t ELSE refers[p]]
    /\ profile' = [profile EXCEPT ![s].deleted = TRUE, ![t].status = "pending"]
    /\ candidate' = [candidate EXCEPT ![<<s, t>>] = "merged"]

MergeProfiles(s, t) ==
    /\ ~MergeFails(s, t)
    /\ rows' = MovedRows(s, t)
    /\ refers' = [p \in Ids |-> IF refers[p] = s THEN t ELSE refers[p]]
    /\ profile' = [profile EXCEPT ![s].deleted = TRUE, ![s].into = t, ![s].status = "merged",
                                  ![t].status = "pending"]
    /\ candidate' = [candidate EXCEPT ![<<s, t>>] = "merged"]

----------------------------------------------------------------------------
(* The resolver.                                                           *)

\* The user a link of a loaded profile joins to, and a field of its raw row.
RawOf(u, f) == IF u \in DOMAIN Raw /\ f \in DOMAIN Raw[u] THEN Raw[u][f] ELSE None

\* The profile as the resolver loads it.  The merged name is the GitHub one
\* when there is one.
ProfileData(p) ==
    LET g == profile[p].gh
        h == profile[p].hf
        dev == rows["dev"][p]
        named(set) == FirstOf(SetToSeq({RawOf(u, "name") : u \in dev \cap set}))
    IN [github_username |-> g, huggingface_username |-> h, email_hint |-> None,
        display_name |-> Or(named(GhUsers), named(HfUsers)),
        location |-> None, company |-> None, avatar_url |-> None, website |-> None,
        gh_email |-> RawOf(g, "email"), gh_twitter |-> RawOf(g, "twitter"),
        gh_website |-> RawOf(g, "website"), gh_avatar |-> RawOf(g, "avatar"),
        gh_name |-> RawOf(g, "name"), gh_location |-> None, gh_company |-> None,
        hf_github_username |-> IF h = None THEN None ELSE claim[h],
        hf_twitter |-> RawOf(h, "twitter"), hf_website |-> RawOf(h, "website"),
        hf_fullname |-> RawOf(h, "name"), hf_linkedin |-> RawOf(h, "linkedin"),
        linkedin_url |-> Or(RawOf(g, "linkedin"), RawOf(h, "linkedin"))]

\* The pair with the smaller id as the target.  Ids are random, so that says
\* nothing about which is older.
CanonicalPair(p, q) == IF p > q THEN <<p, q>> ELSE <<q, p>>

\* The pairs of the loaded profiles worth a row, with their triage.
CandidatePairs(loaded) ==
    LET all == [p \in loaded |-> ProfileData(p)]
        set == {all[p] : p \in loaded}
        pairs == {CanonicalPair(x[1], x[2]) : x \in {y \in loaded \X loaded : y[1] # y[2]}}
    IN {[pair |-> c, grade |-> Triage(all[c[1]], all[c[2]])] :
          c \in {x \in pairs : /\ Compared(all[x[1]], all[x[2]], set)
                               /\ Triage(all[x[1]], all[x[2]]) # "skip"}}

\* Everything is computed from what is loaded now, all profiles or those that
\* were created lately; the pairs are then worked through one after the other.
StartResolve ==
    /\ count.resolves < MaxResolves /\ resolver.pc = "idle"
    /\ \E loaded \in SUBSET Live :
         resolver' = [NoTriage EXCEPT !.pc = "next", !.todo = CandidatePairs(loaded)]
    /\ Counted("resolves")
    /\ UNCHANGED <<data, queue, worker, review>>

\* Mutant: only a merged pair is left alone.
TriageUnlessMerged ==
    /\ resolver.pc = "next"
    /\ \/ /\ resolver.todo = {}
          /\ resolver' = NoTriage
       \/ \E c \in resolver.todo :
            resolver' = IF candidate[c.pair] = "merged" THEN [resolver EXCEPT !.todo = @ \ {c}]
                        ELSE [pc |-> "write", todo |-> resolver.todo \ {c}, pair |-> c, seen |-> candidate[c.pair]]
    /\ UNCHANGED <<data, queue, worker, review, count>>

\* The pair's row is read; a merged or rejected one is left alone.
TriageRead ==
    /\ resolver.pc = "next"
    /\ \/ /\ resolver.todo = {}
          /\ resolver' = NoTriage
       \/ \E c \in resolver.todo :
            resolver' = IF candidate[c.pair] \in {"merged", "rejected"}
                        THEN [resolver EXCEPT !.todo = @ \ {c}]
                        ELSE [pc |-> "write", todo |-> resolver.todo \ {c}, pair |-> c,
                              seen |-> candidate[c.pair]]
    /\ UNCHANGED <<data, queue, worker, review, count>>

TriageWrite ==
    /\ resolver.pc = "write"
    /\ candidate' = [candidate EXCEPT ![resolver.pair.pair] = resolver.pair.grade]
    /\ resolver' = IF resolver.pair.grade = "approved" THEN [resolver EXCEPT !.pc = "merge"]
                   ELSE [NoTriage EXCEPT !.pc = "next", !.todo = resolver.todo]
    /\ UNCHANGED <<claim, profile, rows, refers, queue, worker, review, count>>

NextPair == resolver' = [NoTriage EXCEPT !.pc = "next", !.todo = resolver.todo]

AutoMergePair ==
    LET c == resolver.pair.pair
    IN /\ resolver.pc = "merge"
       /\ \/ /\ MergeProfiles(c[1], c[2])
             /\ NextPair
          \/ /\ MergeFails(c[1], c[2])
             /\ resolver' = [resolver EXCEPT !.pc = "downgrade"]
             /\ UNCHANGED <<profile, rows, candidate, refers>>
       /\ UNCHANGED <<claim, queue, worker, review, count>>

Downgrade ==
    /\ resolver.pc = "downgrade"
    /\ candidate' = [candidate EXCEPT ![resolver.pair.pair] = "pending"]
    /\ NextPair
    /\ UNCHANGED <<claim, profile, rows, refers, queue, worker, review, count>>

----------------------------------------------------------------------------
(* Review requests, one in flight at a time.                               *)

ReviewRead(kind, c) ==
    /\ count.reviews < MaxReviews /\ review.pc = "idle"
    /\ candidate[c] \notin {"absent", "merged"}
    /\ kind = "approve" => candidate[c] # "rejected"
    /\ review' = [pc |-> "write", kind |-> kind, pair |-> c, seen |-> candidate[c]]
    /\ Counted("reviews")
    /\ UNCHANGED <<data, queue, worker, resolver>>

ReviewWrite ==
    /\ review.pc = "write"
    /\ \/ /\ review.kind = "reject"
          /\ candidate' = [candidate EXCEPT ![review.pair] = "rejected"]
          /\ review' = NoReview
       \/ /\ review.kind = "approve"
          /\ candidate' = [candidate EXCEPT ![review.pair] = "approved"]
          /\ review' = [review EXCEPT !.pc = "merge"]
    /\ UNCHANGED <<claim, profile, rows, refers, queue, worker, resolver, count>>

\* A merge that fails is answered with the error, and the pair stays approved.
ReviewMerge ==
    /\ review.pc = "merge"
    /\ \/ MergeProfiles(review.pair[1], review.pair[2])
       \/ /\ MergeFails(review.pair[1], review.pair[2])
          /\ UNCHANGED <<profile, rows, candidate, refers>>
    /\ review' = NoReview
    /\ UNCHANGED <<claim, queue, worker, resolver, count>>

----------------------------------------------------------------------------
SyncStep(w) == \/ TakeItem(w) \/ Search(w) \/ Link(w) \/ StoreDev(w)
               \/ \E t \in {"social", "agg", "coh"} : Look(w, t) \/ Store(w, t)

Next ==
    \/ \E h \in HfUsers, g \in GhUsers : ClaimGitHub(h, g)
    \/ \E mode \in RunModes : StartSync(mode)
    \/ \E w \in Workers : SyncStep(w)
    \/ StartResolve \/ TriageRead \/ TriageWrite \/ AutoMergePair \/ Downgrade
    \/ \E kind \in {"approve", "reject"}, c \in Pairs : ReviewRead(kind, c)
    \/ ReviewWrite \/ ReviewMerge

Spec == Init /\ [][Next]_vars

----------------------------------------------------------------------------
(* Properties.                                                             *)

\* Every variable has its type: a row exists only for a profile that does,
\* and a task in flight refers to a pair or a profile.
TypeOK ==
    /\ claim \in [HfUsers -> GhUsers \cup {None}]
    /\ Known \subseteq Ids
    /\ \A p \in Known : profile[p] \in
         [gh : GhUsers \cup {None}, hf : HfUsers \cup {None}, deleted : BOOLEAN,
          into : Ids \cup {None}, status : {"pending", "completed", "merged"}]
    /\ \A t \in Tables, p \in Ids : rows[t][p] # None => p \in Known /\ rows[t][p] \subseteq Users
    /\ refers \in [Ids -> Ids]
    /\ candidate \in [Pairs -> {"absent", "pending", "approved", "merged", "rejected"}]
    /\ \A w \in Workers : worker[w].p \in Known \cup {None}

\* Whatever resolver and reviewers do on what they read earlier, following
\* merged_into from any profile leads to one that is not deleted: no profiles
\* are merged only into one another, so merges form no cycle and leave nobody
\* without a live profile (storage.py, merge_profiles on candidates of an older
\* snapshot).
MergeChainsEnd ==
    \A S \in SUBSET Known :
        S # {} /\ (\A p \in S : profile[p].into # None => profile[p].into \in S)
            => \E p \in S : ~profile[p].deleted

\* A pair recorded as merged is merged: its source is deleted and was merged
\* into some profile, whoever wrote the row last.
MergedCandidatesGone ==
    \A c \in Pairs : candidate[c] = "merged" =>
        profile[c[1]].deleted /\ profile[c[1]].into # None

\* No two Hugging Face users name the same GitHub login on their pages.
OneClaimEach == \A h, k \in HfUsers : claim[h] = claim[k] /\ claim[h] # None => h = k

\* No interleaving of workers, merges and reviews puts one user's data on
\* another's profile: each row of a live profile was built from users it is
\* linked to, unless two pages name one login, since the later one takes the
\* link over (storage.py, the upserts after find_existing_profile, and
\* merge_profiles).
NoForeignData ==
    OneClaimEach =>
      \A t \in Tables, p \in Live : rows[t][p] # None =>
          rows[t][p] \ LnUsers \subseteq {profile[p].gh, profile[p].hf}

\* A rejected pair stays rejected unless somebody acts who read the row before
\* the rejection: no later resolver run and no later request reopens it.
RejectionStands ==
    [][\A c \in Pairs : (candidate[c] = "rejected" /\ candidate'[c] # "rejected") =>
          \/ resolver.pc \in {"write", "merge", "downgrade"} /\ resolver.pair.pair = c
             /\ resolver.seen # "rejected"
          \/ review.pc # "idle" /\ review.pair = c /\ review.seen # "rejected"]_vars

\* A profile that search can find is not lost to it: its cohesive row goes only
\* when the profile itself is merged away.
LiveStaysSearchable ==
    [][\A p \in Live : rows["coh"][p] # None =>
          rows'["coh"][p] # None \/ profile'[p].deleted]_vars

=============================================================================
