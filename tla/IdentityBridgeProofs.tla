------------------------ MODULE IdentityBridgeProofs -------------------------
(***************************************************************************)
(* Proofs about IdentityBridge, for any users, claims, raw rows, workers   *)
(* and bounds: types, where merges lead, that what was recorded stays, and *)
(* whose data a profile holds.                                             *)
(***************************************************************************)
EXTENDS IdentityBridge, FiniteSetTheorems, WellFoundedInduction, TLAPS

Assumptions == IdsAssumption /\ UsersAssumption /\ BridgeBoundsAssumption /\ ModesAssumption

-----------------------------------------------------------------------------
(* Types.                                                                  *)

Names(users) == users \cup {None}
ProfileRecord == [gh : Names(GhUsers), hf : Names(HfUsers), deleted : BOOLEAN,
                  into : Ids \cup {None}, status : {"pending", "completed", "merged"}]
Item == [user : Users, login : Names(GhUsers)]
Lookups == {"social", "agg", "coh"}
Stores == {"social_store", "agg_store", "coh_store"}
WorkerRecord == [pc : {"idle", "search", "link", "dev"} \cup Lookups \cup Stores,
                 item : Item \cup {None}, p : Ids \cup {None}, has : BOOLEAN]
Statuses == {"absent", "pending", "approved", "merged", "rejected"}
Choice == [pair : Pairs, grade : Grades]
ResolverRecord == [pc : {"idle", "next", "write", "merge", "downgrade"}, todo : SUBSET Choice,
                   pair : Choice \cup {None}, seen : Statuses]
ReviewRecord == [pc : {"idle", "write", "merge"}, kind : {"approve", "reject", None},
                 pair : Pairs \cup {None}, seen : Statuses]
RowTypes == [Tables -> [Ids -> (SUBSET Users) \cup {None}]]

Types ==
    /\ claim \in [HfUsers -> Names(GhUsers)]
    /\ Known \subseteq Ids /\ profile \in [Known -> ProfileRecord]
    /\ rows \in RowTypes
    /\ candidate \in [Pairs -> Statuses]
    /\ refers \in [Ids -> Ids]
    /\ queue \in Seq(Item)
    /\ worker \in [Workers -> WorkerRecord]
    /\ resolver \in ResolverRecord
    /\ review \in ReviewRecord

-----------------------------------------------------------------------------
(* The invariant of the tables: a profile is deleted when it was merged,   *)
(* into one with a smaller id; rows and candidates are about known ones.   *)

MergedDown == \A p \in Known : /\ profile[p].deleted <=> profile[p].into # None
                               /\ profile[p].into # None => profile[p].into \in Known /\ profile[p].into < p
RowsOfKnown == \A t \in Tables, p \in Ids : rows[t][p] # None => p \in Known
BothKnown(c) == c[1] \in Known /\ c[2] \in Known
CandidatesOfKnown == \A c \in Pairs : candidate[c] # "absent" => BothKnown(c)

\* What a worker, the resolver and a request stand on.
Resolving == {"write", "merge", "downgrade"}
Stands(s, known) == /\ s.pc # "idle" => s.item \in Item
                    /\ s.p # None => s.p \in known
                    /\ s.pc \in {"idle", "search"} => s.p = None
                    /\ s.pc \notin {"idle", "search", "link"} => s.p # None
WorkersStand == \A w \in Workers : Stands(worker[w], Known)
ResolverStands ==
    /\ \A c \in resolver.todo : BothKnown(c.pair)
    /\ resolver.pc \in Resolving =>
         resolver.pair \in Choice /\ BothKnown(resolver.pair.pair) /\ resolver.seen \notin {"merged", "rejected"}
ReviewStands ==
    /\ review.pc # "idle" => review.pair \in Pairs /\ BothKnown(review.pair)
    /\ review.pc # "idle" /\ review.kind = "approve" => review.seen # "rejected"
    /\ review.pc = "merge" => review.kind = "approve"

ProfilesOK == Known \subseteq Ids /\ profile \in [Known -> ProfileRecord] /\ MergedDown
RowsOK == rows \in RowTypes /\ RowsOfKnown
CandidatesOK == candidate \in [Pairs -> Statuses] /\ CandidatesOfKnown
WorkersOK == worker \in [Workers -> WorkerRecord] /\ WorkersStand
ResolverOK == resolver \in ResolverRecord /\ ResolverStands
ReviewOK == review \in ReviewRecord /\ ReviewStands
OthersOK == claim \in [HfUsers -> Names(GhUsers)] /\ refers \in [Ids -> Ids] /\ queue \in Seq(Item)

TInv == ProfilesOK /\ RowsOK /\ CandidatesOK /\ WorkersOK /\ ResolverOK /\ ReviewOK /\ OthersOK

-----------------------------------------------------------------------------
(* The invariant of the data.  A claim is made once, so an item's login is *)
(* its user's claim for good; the names of a profile agree with the claim, *)
(* and therefore no link of it ever changes (Named, WorkersLed).          *)

ItemAgrees(i) ==
    /\ i.user \in GhUsers => i.login = i.user
    /\ i.user \in HfUsers => i.login \in {None, claim[i.user]}
    /\ i.user \in LnUsers => i.login = None
GoodItems == {i \in Item : ItemAgrees(i)}
ItemsAgree == /\ queue \in Seq(GoodItems)
              /\ \A w \in Workers : worker[w].pc # "idle" => ItemAgrees(worker[w].item)
SocialWorkers == \A w \in Workers : worker[w].pc \in {"social", "social_store"} => worker[w].item.user \in LnUsers
Items == ItemsAgree /\ SocialWorkers

\* The layers of a live profile rest on one another, and a row that a worker
\* has seen is still there.
AggUnderCoh == \A p \in Live : rows["coh"][p] # None => rows["agg"][p] # None
Builds(s) == /\ s.pc \in {"coh", "coh_store"} => rows["agg"][s.p] # None
             /\ \A t \in Lookups : s.pc = Looking[t] /\ s.has => rows[t][s.p] # None
WorkersBuild == \A w \in Workers : worker[w].p \in Live => Builds(worker[w])
SocialRows == \A p \in Ids : rows["social"][p] # None => rows["social"][p] \subseteq LnUsers
Layers == AggUnderCoh /\ WorkersBuild /\ SocialRows

\* A profile with both links has those of one claim.
Named == \A p \in Known : profile[p].gh # None /\ profile[p].hf # None => claim[profile[p].hf] = profile[p].gh

\* A worker was led to its profile by one of its item's names, and once it has
\* linked it, the profile has all of them.
Reaches(i, p) == \/ i.login # None /\ profile[p].gh = i.login
                 \/ HfName(i.user) # None /\ profile[p].hf = HfName(i.user)
Carries(i, p) == i.login \in {None, profile[p].gh} /\ HfName(i.user) \in {None, profile[p].hf}
Led(s) == /\ s.pc = "link" /\ s.p # None => Reaches(s.item, s.p)
          /\ s.pc \notin {"idle", "search", "link"} => Carries(s.item, s.p)
WorkersLed == \A w \in Workers : Led(worker[w])

OwnRows == \A t \in {"dev", "agg", "coh"}, p \in Live : rows[t][p] # None =>
              rows[t][p] \ LnUsers \subseteq {profile[p].gh, profile[p].hf}

OneEach == Named /\ WorkersLed /\ OwnRows
DInv == TInv /\ Items /\ Layers /\ (OneClaimEach => OneEach)

-----------------------------------------------------------------------------
(* Numbers and lists.                                                      *)

LEMMA HasLeast == ASSUME NEW S \in SUBSET Nat, S # {} PROVE \E m \in S : \A n \in S : m <= n
<1> DEFINE R == OpToRel(<, Nat)
<1>1. IsWellFoundedOn(R, Nat)
  BY NatLessThanWellFounded, Zenon
<1>2. \A x, y \in Nat : x < y => <<x, y>> \in R
  BY DEF OpToRel
<1> HIDE DEF R
<1>3. PICK x \in S : \A y \in S : ~(<<y, x>> \in R)
  BY <1>1, WFMin
<1>4. \A y \in S : ~(y < x)
  BY <1>2, <1>3
<1> QED
  BY <1>4

LEMMA ListTyped == ASSUME NEW S, IsFiniteSet(S) PROVE SetToSeq(S) \in Seq(S)
<1> DEFINE n == Cardinality(S)
<1>1. n \in Nat /\ ExistsBijection(1..n, S)
  BY FS_CardinalityType
<1>2. PICK f \in Bijection(1..n, S) : TRUE
  BY <1>1 DEF ExistsBijection
<1>3. f \in [1..n -> S] /\ IsInjective(f)
  BY <1>2 DEF Bijection, Injection, IsInjective
<1>4. SetToSeq(S) \in [1..n -> S]
  BY <1>3 DEF SetToSeq
<1> QED
  BY <1>1, <1>4

\* Each item of a run carries its user's own names.
LEMMA ItemsAreGood ==
    ASSUME UsersAssumption, Types, NEW u \in Users
    PROVE  ItemOf(u) \in GoodItems
<1>1. Login(u) \in Names(GhUsers)
  BY DEF Login, Names, Types
<1>2. ItemOf(u) \in Item
  BY <1>1 DEF ItemOf, Item
<1>3. ItemAgrees(ItemOf(u))
  BY DEF ItemAgrees, ItemOf, Login, UsersAssumption
<1> QED
  BY <1>2, <1>3 DEF GoodItems

LEMMA ListedAreGood ==
    ASSUME UsersAssumption, Types, NEW mode, NEW users, IsFiniteSet(users), users \subseteq Users
    PROVE  Listed(mode, users) \in Seq(GoodItems)
<1> DEFINE some == IF users \in Platforms[mode] THEN users ELSE {}
           items == {ItemOf(u) : u \in some}
           f == [u \in some |-> ItemOf(u)]
<1>1. IsFiniteSet(some) /\ some \subseteq Users
  BY FS_EmptySet
<1>2. f \in Surjection(some, items)
  BY DEF Surjection
<1>3. IsFiniteSet(items)
  BY <1>1, <1>2, FS_Surjection
<1>4. items \subseteq GoodItems
  BY <1>1, ItemsAreGood
<1>5. SetToSeq(items) \in Seq(items)
  BY <1>3, ListTyped
<1>6. Listed(mode, users) = SetToSeq(items)
  BY DEF Listed
<1> HIDE DEF items
<1> QED
  BY <1>4, <1>5, <1>6

-----------------------------------------------------------------------------
(* What the statements do to the tables.                                   *)

\* The links of a profile after an update with the names that are there.
LEMMA LinkedRecord ==
    ASSUME NEW r \in ProfileRecord, NEW g \in Names(GhUsers), NEW h \in Names(HfUsers)
    PROVE  LET q == [[r EXCEPT !.gh = Or(g, @)] EXCEPT !.hf = Or(h, @)]
           IN /\ q \in ProfileRecord /\ q.deleted = r.deleted /\ q.into = r.into
              /\ q.gh = Or(g, r.gh) /\ q.hf = Or(h, r.hf)
  BY DEF ProfileRecord, Or

Linked(p, g, h) ==
    /\ Known' = Known /\ profile' \in [Known -> ProfileRecord]
    /\ profile'[p].gh = Or(g, profile[p].gh) /\ profile'[p].hf = Or(h, profile[p].hf)
    /\ profile'[p].deleted = profile[p].deleted /\ profile'[p].into = profile[p].into
    /\ \A q \in Known \ {p} : profile'[q] = profile[q]

LEMMA LinkEffect ==
    ASSUME Types, NEW p \in Known, NEW g \in Names(GhUsers), NEW h \in Names(HfUsers),
           profile' = [profile EXCEPT ![p].gh = Or(g, @), ![p].hf = Or(h, @)]
    PROVE  Linked(p, g, h)
<1> DEFINE r == profile[p]
           q == [[r EXCEPT !.gh = Or(g, @)] EXCEPT !.hf = Or(h, @)]
<1>1. profile \in [Known -> ProfileRecord] /\ r \in ProfileRecord
  BY DEF Types
<1>2. profile' = [profile EXCEPT ![p] = q]
  BY <1>1
<1>3. /\ q \in ProfileRecord /\ q.deleted = r.deleted /\ q.into = r.into
      /\ q.gh = Or(g, r.gh) /\ q.hf = Or(h, r.hf)
  BY <1>1, LinkedRecord
<1> HIDE DEF q
<1>4. Known' = Known
  BY <1>1, <1>2 DEF Known
<1> QED
  BY <1>1, <1>2, <1>3, <1>4 DEF Linked

\* A profile that a worker creates.
NewProfile(g, h) == [gh |-> g, hf |-> h, deleted |-> FALSE, into |-> None, status |-> "pending"]

LEMMA NewRecord ==
    ASSUME NEW g \in Names(GhUsers), NEW h \in Names(HfUsers)
    PROVE  /\ NewProfile(g, h) \in ProfileRecord /\ ~NewProfile(g, h).deleted
           /\ NewProfile(g, h).into = None /\ NewProfile(g, h).gh = g /\ NewProfile(g, h).hf = h
  BY DEF NewProfile, ProfileRecord

Created(p, g, h) ==
    /\ Known' = Known \cup {p} /\ profile' \in [Known' -> ProfileRecord]
    /\ profile'[p] = NewProfile(g, h)
    /\ \A q \in Known : profile'[q] = profile[q]

LEMMA CreateEffect ==
    ASSUME Types, NEW p \in Ids \ Known, NEW g \in Names(GhUsers), NEW h \in Names(HfUsers),
           profile' = [q \in Known \cup {p} |-> IF q = p THEN NewProfile(g, h) ELSE profile[q]]
    PROVE  Created(p, g, h)
<1> DEFINE n == NewProfile(g, h)
<1>1. n \in ProfileRecord
  BY NewRecord
<1> HIDE DEF n
<1>2. Known' = Known \cup {p}
  BY DEF Known
<1>3. profile \in [Known -> ProfileRecord]
  BY DEF Types
<1>4. profile' = [q \in Known \cup {p} |-> IF q = p THEN n ELSE profile[q]]
  BY DEF n
<1>5. profile' \in [Known' -> ProfileRecord] /\ profile'[p] = n /\ \A q \in Known : profile'[q] = profile[q]
  BY <1>1, <1>2, <1>3, <1>4
<1> QED
  BY <1>2, <1>5 DEF Created, n

\* The status alone.
LEMMA StatusEffect ==
    ASSUME Types, NEW p \in Known, NEW status \in {"pending", "completed", "merged"},
           profile' = [profile EXCEPT ![p].status = status]
    PROVE  Linked(p, None, None)
<1> DEFINE r == profile[p]
           q == [r EXCEPT !.status = status]
<1>1. profile \in [Known -> ProfileRecord] /\ r \in ProfileRecord
  BY DEF Types
<1>2. profile' = [profile EXCEPT ![p] = q]
  BY <1>1
<1>3. q \in ProfileRecord /\ q.deleted = r.deleted /\ q.into = r.into /\ q.gh = r.gh /\ q.hf = r.hf
  BY <1>1 DEF ProfileRecord
<1> HIDE DEF q
<1>4. Known' = Known
  BY <1>1, <1>2 DEF Known
<1> QED
  BY <1>1, <1>2, <1>3, <1>4 DEF Linked, Or

\* A merge, as far as the profiles go.
LEMMA MergedRecords ==
    ASSUME NEW r \in ProfileRecord, NEW t \in Ids
    PROVE  LET q == [[[r EXCEPT !.deleted = TRUE] EXCEPT !.into = t] EXCEPT !.status = "merged"]
               k == [r EXCEPT !.status = "pending"]
           IN /\ q \in ProfileRecord /\ q.deleted = TRUE /\ q.into = t /\ q.gh = r.gh /\ q.hf = r.hf
              /\ k \in ProfileRecord /\ k.deleted = r.deleted /\ k.into = r.into
              /\ k.gh = r.gh /\ k.hf = r.hf
  BY DEF ProfileRecord

MergedInto(s, t) ==
    /\ Known' = Known /\ profile' \in [Known -> ProfileRecord]
    /\ profile'[s].deleted = TRUE /\ profile'[s].into = t
    /\ \A p \in Known : profile'[p].gh = profile[p].gh /\ profile'[p].hf = profile[p].hf
    /\ \A p \in Known \ {s} : profile'[p].deleted = profile[p].deleted /\ profile'[p].into = profile[p].into

LEMMA MergeEffect ==
    ASSUME Types, NEW s \in Known, NEW t \in Known, s # t,
           profile' = [profile EXCEPT ![s].deleted = TRUE, ![s].into = t, ![s].status = "merged",
                                      ![t].status = "pending"]
    PROVE  MergedInto(s, t)
<1> DEFINE q == [[[profile[s] EXCEPT !.deleted = TRUE] EXCEPT !.into = t] EXCEPT !.status = "merged"]
           k == [profile[t] EXCEPT !.status = "pending"]
<1>1. profile \in [Known -> ProfileRecord] /\ profile[s] \in ProfileRecord /\ profile[t] \in ProfileRecord /\ t \in Ids
  BY DEF Types
<1>2. profile' = [[profile EXCEPT ![s] = q] EXCEPT ![t] = k]
  BY <1>1
<1>3. /\ q \in ProfileRecord /\ q.deleted = TRUE /\ q.into = t /\ q.gh = profile[s].gh /\ q.hf = profile[s].hf
      /\ k \in ProfileRecord /\ k.deleted = profile[t].deleted /\ k.into = profile[t].into
      /\ k.gh = profile[t].gh /\ k.hf = profile[t].hf
  BY <1>1, MergedRecords
<1> HIDE DEF q, k
<1>4. Known' = Known
  BY <1>1, <1>2 DEF Known
<1>5. profile' \in [Known -> ProfileRecord] /\ profile'[s] = q /\ profile'[t] = k
      /\ \A p \in Known \ {s, t} : profile'[p] = profile[p]
  BY <1>1, <1>2, <1>3
<1> QED
  BY <1>3, <1>4, <1>5 DEF MergedInto

\* One row, and the rows that a merge moves.
Wrote(t, p, users) ==
    /\ rows' \in RowTypes /\ rows'[t][p] = users
    /\ \A k \in Tables, q \in Ids : k # t \/ q # p => rows'[k][q] = rows[k][q]

LEMMA WriteEffect ==
    ASSUME Types, NEW t \in Tables, NEW p \in Ids, NEW users \in SUBSET Users,
           rows' = [rows EXCEPT ![t][p] = users]
    PROVE  Wrote(t, p, users)
<1>1. rows \in [Tables -> [Ids -> (SUBSET Users) \cup {None}]]
  BY DEF Types, RowTypes
<1> DEFINE row == (SUBSET Users) \cup {None}
<1>2. users \in row
  OBVIOUS
<1> HIDE DEF row
<1>3. rows \in [Tables -> [Ids -> row]]
  BY <1>1 DEF row
<1>4. rows' \in [Tables -> [Ids -> row]]
  BY <1>2, <1>3
<1>5. rows'[t][p] = users /\ \A k \in Tables, q \in Ids : k # t \/ q # p => rows'[k][q] = rows[k][q]
  BY <1>3
<1> QED
  BY <1>4, <1>5 DEF Wrote, RowTypes, row

Moved(s, t) ==
    /\ rows' \in RowTypes
    /\ \A p \in Ids : rows'["dev"][p] = rows["dev"][p]
    /\ \A k \in Lookups : rows'[k][s] = None /\ rows'[k][t] = Or(rows[k][t], rows[k][s])
    /\ \A k \in Lookups, p \in Ids \ {s, t} : rows'[k][p] = rows[k][p]

LEMMA MoveEffect ==
    ASSUME Types, NEW s \in Ids, NEW t \in Ids, s # t, rows' = MovedRows(s, t)
    PROVE  Moved(s, t)
<1> DEFINE row == (SUBSET Users) \cup {None}
           new(k) == [rows[k] EXCEPT ![s] = None, ![t] = Or(rows[k][t], rows[k][s])]
<1>1. rows \in [Tables -> [Ids -> row]] /\ None \in row
  BY DEF Types, RowTypes
<1> HIDE DEF row
<1>2. ASSUME NEW k \in Tables
      PROVE  new(k) \in [Ids -> row] /\ new(k)[s] = None /\ new(k)[t] = Or(rows[k][t], rows[k][s])
             /\ \A p \in Ids \ {s, t} : new(k)[p] = rows[k][p]
  <2>1. rows[k] \in [Ids -> row] /\ Or(rows[k][t], rows[k][s]) \in row
    BY <1>1 DEF Or
  <2> QED
    BY <1>1, <2>1
<1>3. rows' = [k \in Tables |-> IF k = "dev" THEN rows[k] ELSE new(k)]
  BY DEF MovedRows
<1> HIDE DEF new
<1>4. rows' \in [Tables -> [Ids -> row]]
  BY <1>1, <1>2, <1>3
<1>5. rows'["dev"] = rows["dev"] /\ \A k \in Lookups : k \in Tables /\ rows'[k] = new(k)
  BY <1>3 DEF Tables, Lookups
<1> QED
  BY <1>2, <1>4, <1>5 DEF Moved, RowTypes, row

-----------------------------------------------------------------------------
(* The invariant of the tables is inductive.                               *)

LEMMA TInvTypes == ASSUME TInv PROVE Types
  BY DEF TInv, Types, ProfilesOK, RowsOK, CandidatesOK, WorkersOK, ResolverOK, ReviewOK, OthersOK

LEMMA PairsAreTwo ==
    ASSUME IdsAssumption, NEW c \in Pairs
    PROVE  c[1] \in Ids /\ c[2] \in Ids /\ c[2] < c[1] /\ c[1] # c[2] /\ c = <<c[1], c[2]>>
<1>1. c \in Ids \X Ids /\ c[1] > c[2]
  BY DEF Pairs
<1>2. c[1] \in Ids /\ c[2] \in Ids /\ c = <<c[1], c[2]>>
  BY <1>1
<1>3. c[1] \in Nat /\ c[2] \in Nat
  BY <1>2 DEF IdsAssumption
<1>4. c[2] < c[1] /\ c[1] # c[2]
  BY <1>1, <1>3
<1> QED
  BY <1>2, <1>4

\* Profiles: the ways a statement changes them.
Grown == Known \subseteq Known' /\ ProfilesOK'

LEMMA ProfilesKept ==
    ASSUME TInv, UNCHANGED profile
    PROVE  Grown /\ Known' = Known
  BY DEF TInv, Grown, ProfilesOK, MergedDown, Known

LEMMA LinkedGrown ==
    ASSUME TInv, NEW p \in Known, NEW g, NEW h, Linked(p, g, h)
    PROVE  Grown
<1>1. Known' = Known /\ Known \subseteq Ids /\ profile' \in [Known' -> ProfileRecord]
  BY DEF TInv, ProfilesOK, Linked
<1>2. \A q \in Known : profile'[q].deleted = profile[q].deleted /\ profile'[q].into = profile[q].into
  BY DEF Linked
<1>3. MergedDown'
  BY <1>1, <1>2 DEF TInv, ProfilesOK, MergedDown
<1> QED
  BY <1>1, <1>3 DEF Grown, ProfilesOK

LEMMA CreatedGrown ==
    ASSUME TInv, UsersAssumption, NEW p \in Ids \ Known, NEW g \in Names(GhUsers), NEW h \in Names(HfUsers),
           Created(p, g, h)
    PROVE  Grown
<1>1. Known' = Known \cup {p} /\ Known' \subseteq Ids /\ profile' \in [Known' -> ProfileRecord]
  BY DEF TInv, ProfilesOK, Created
<1>2. ~profile'[p].deleted /\ profile'[p].into = None
  BY NewRecord DEF Created
<1>3. \A q \in Known : profile'[q] = profile[q]
  BY DEF Created
<1>4. MergedDown'
  BY <1>1, <1>2, <1>3 DEF TInv, ProfilesOK, MergedDown
<1> QED
  BY <1>1, <1>4 DEF Grown, ProfilesOK

LEMMA MergedGrown ==
    ASSUME TInv, UsersAssumption, NEW s \in Known, NEW t \in Known, t < s, MergedInto(s, t)
    PROVE  Grown
<1>1. Known' = Known /\ Known \subseteq Ids /\ profile' \in [Known' -> ProfileRecord]
  BY DEF TInv, ProfilesOK, MergedInto
<1>2. t # None
  BY <1>1 DEF UsersAssumption
<1>3. MergedDown'
  <2> SUFFICES ASSUME NEW p \in Known
               PROVE  /\ profile'[p].deleted <=> profile'[p].into # None
                      /\ profile'[p].into # None => profile'[p].into \in Known /\ profile'[p].into < p
    BY <1>1 DEF MergedDown
  <2>1. CASE p = s
    BY <1>2, <2>1 DEF MergedInto
  <2>2. CASE p # s
    BY <2>2 DEF MergedInto, TInv, ProfilesOK, MergedDown
  <2> QED
    BY <2>1, <2>2
<1> QED
  BY <1>1, <1>3 DEF Grown, ProfilesOK

\* The other tables, and the tasks, beside profiles that only grow.
LEMMA RowsKept ==
    ASSUME TInv, Grown, UNCHANGED rows
    PROVE  RowsOK'
  BY DEF TInv, RowsOK, RowsOfKnown, Grown

LEMMA RowWritten ==
    ASSUME TInv, Grown, NEW t \in Tables, NEW p \in Known', NEW users, Wrote(t, p, users)
    PROVE  RowsOK'
<1>1. ASSUME NEW k \in Tables, NEW q \in Ids, rows'[k][q] # None
      PROVE  q \in Known'
  <2>1. CASE q = p
    BY <2>1
  <2>2. CASE q # p
    <3>1. rows'[k][q] = rows[k][q]
      BY <2>2 DEF Wrote
    <3> QED
      BY <1>1, <3>1 DEF TInv, RowsOK, RowsOfKnown, Grown
  <2> QED
    BY <2>1, <2>2
<1> QED
  BY <1>1 DEF RowsOK, RowsOfKnown, Wrote

LEMMA CandidatesKept ==
    ASSUME TInv, Grown, UNCHANGED candidate
    PROVE  CandidatesOK'
  BY DEF TInv, CandidatesOK, CandidatesOfKnown, Grown, BothKnown

LEMMA CandidateWritten ==
    ASSUME TInv, Grown, NEW c \in Pairs, BothKnown(c), NEW status \in Statuses,
           candidate' = [candidate EXCEPT ![c] = status]
    PROVE  CandidatesOK'
<1>1. candidate \in [Pairs -> Statuses]
  BY DEF TInv, CandidatesOK
<1>2. candidate' \in [Pairs -> Statuses] /\ \A d \in Pairs : d # c => candidate'[d] = candidate[d]
  BY <1>1
<1>3. ASSUME NEW d \in Pairs, candidate'[d] # "absent"
      PROVE  BothKnown(d)'
  BY <1>2, <1>3 DEF TInv, CandidatesOK, CandidatesOfKnown, BothKnown, Grown
<1> QED
  BY <1>2, <1>3 DEF CandidatesOK, CandidatesOfKnown

LEMMA WorkersKept ==
    ASSUME TInv, Grown, UNCHANGED worker
    PROVE  WorkersOK'
  BY DEF TInv, WorkersOK, WorkersStand, Stands, Grown

Went(w, s) == worker' \in [Workers -> WorkerRecord] /\ worker'[w] = s
              /\ \A v \in Workers \ {w} : worker'[v] = worker[v]

LEMMA GotoEffect ==
    ASSUME TInv, NEW w \in Workers, NEW s \in WorkerRecord, Goto(w, s)
    PROVE  Went(w, s)
  BY DEF TInv, WorkersOK, Goto, Went

LEMMA WorkersMoved ==
    ASSUME TInv, Grown, NEW w \in Workers, NEW s, Went(w, s), Stands(s, Known')
    PROVE  WorkersOK'
<1>1. ASSUME NEW v \in Workers PROVE Stands(worker'[v], Known')
  <2>1. CASE v = w
    BY <2>1 DEF Went
  <2>2. CASE v # w
    BY <2>2 DEF Went, Stands, TInv, WorkersOK, WorkersStand, Grown
  <2> QED
    BY <2>1, <2>2
<1> QED
  BY <1>1 DEF WorkersOK, WorkersStand, Went, Stands

LEMMA ResolverKept ==
    ASSUME TInv, Grown, UNCHANGED resolver
    PROVE  ResolverOK'
  BY DEF TInv, ResolverOK, ResolverStands, BothKnown, Grown

LEMMA ReviewKept ==
    ASSUME TInv, Grown, UNCHANGED review
    PROVE  ReviewOK'
  BY DEF TInv, ReviewOK, ReviewStands, BothKnown, Grown

\* The records a worker goes on with.
LEMMA WorkerMoves ==
    ASSUME NEW s \in WorkerRecord, NEW pc \in {"idle", "search", "link", "dev"} \cup Lookups \cup Stores,
           NEW p \in Ids, NEW has \in BOOLEAN
    PROVE  /\ [s EXCEPT !.pc = pc] \in WorkerRecord /\ [s EXCEPT !.pc = pc].pc = pc
           /\ [s EXCEPT !.pc = pc].item = s.item /\ [s EXCEPT !.pc = pc].p = s.p /\ [s EXCEPT !.pc = pc].has = s.has
           /\ [s EXCEPT !.pc = pc, !.p = p] \in WorkerRecord /\ [s EXCEPT !.pc = pc, !.p = p].pc = pc
           /\ [s EXCEPT !.pc = pc, !.p = p].item = s.item /\ [s EXCEPT !.pc = pc, !.p = p].p = p
           /\ [s EXCEPT !.pc = pc, !.has = has] \in WorkerRecord /\ [s EXCEPT !.pc = pc, !.has = has].pc = pc
           /\ [s EXCEPT !.pc = pc, !.has = has].item = s.item /\ [s EXCEPT !.pc = pc, !.has = has].p = s.p
           /\ [s EXCEPT !.pc = pc, !.has = has].has = has
  BY DEF WorkerRecord

LEMMA IdleStands == Idle \in WorkerRecord /\ Idle.pc = "idle" /\ Idle.p = None /\ Idle.has = FALSE
  BY DEF Idle, WorkerRecord, Item, Users, Names, Lookups, Stores

LEMMA TInvInit == ASSUME Assumptions, Init PROVE TInv
<1>1. Known = {}
  BY DEF Init, Known
<1>2. ProfilesOK
  BY <1>1 DEF Init, ProfilesOK, MergedDown
<1>3. RowsOK
  BY DEF Init, RowsOK, RowsOfKnown, RowTypes
<1>4. CandidatesOK
  BY DEF Init, CandidatesOK, CandidatesOfKnown, Statuses
<1>5. WorkersOK
  BY IdleStands DEF Init, WorkersOK, WorkersStand, Stands
<1>6. ResolverOK
  BY DEF Init, NoTriage, ResolverOK, ResolverStands, ResolverRecord, Resolving, Statuses
<1>7. ReviewOK
  BY DEF Init, NoReview, ReviewOK, ReviewStands, ReviewRecord, Statuses
<1>8. OthersOK
  BY DEF Init, OthersOK, Names
<1> QED
  BY <1>2, <1>3, <1>4, <1>5, <1>6, <1>7, <1>8 DEF TInv

\* Statements of the sync workers and what is around them.
LEMMA ClaimKeepsTypes ==
    ASSUME TInv, NEW h \in HfUsers, NEW g \in GhUsers, ClaimGitHub(h, g)
    PROVE  TInv'
<1>1. UNCHANGED <<profile, rows, candidate, worker, resolver, review>> /\ UNCHANGED <<refers, queue>>
      /\ claim' = [claim EXCEPT ![h] = g]
  BY DEF ClaimGitHub
<1>2. Grown
  BY <1>1, ProfilesKept
<1>3. OthersOK'
  BY <1>1 DEF TInv, OthersOK, Names
<1> QED
  BY <1>1, <1>2, <1>3, RowsKept, CandidatesKept, WorkersKept, ResolverKept, ReviewKept DEF TInv, Grown

LEMMA StartSyncKeepsTypes ==
    ASSUME TInv, UsersAssumption, NEW mode, StartSync(mode)
    PROVE  TInv' /\ queue' \in Seq(GoodItems)
<1>1. UNCHANGED <<profile, rows, candidate, worker, resolver, review>> /\ UNCHANGED <<refers, claim>>
      /\ queue' = Listed(mode, GhUsers) \o Listed(mode, HfUsers) \o Listed(mode, LnUsers)
  BY DEF StartSync, data
<1>2. Grown
  BY <1>1, ProfilesKept
<1>3. Listed(mode, GhUsers) \in Seq(GoodItems) /\ Listed(mode, HfUsers) \in Seq(GoodItems)
      /\ Listed(mode, LnUsers) \in Seq(GoodItems)
  BY TInvTypes, ListedAreGood DEF UsersAssumption, Users
<1>4. queue' \in Seq(GoodItems)
  BY <1>1, <1>3
<1>5. queue' \in Seq(Item)
  BY <1>4 DEF GoodItems
<1>6. OthersOK'
  BY <1>1, <1>5 DEF TInv, OthersOK
<1> QED
  BY <1>1, <1>2, <1>4, <1>6, RowsKept, CandidatesKept, WorkersKept, ResolverKept, ReviewKept DEF TInv, Grown

TakenItem(w) == [Idle EXCEPT !.pc = "search", !.item = Head(queue)]

LEMMA TakenRecord ==
    ASSUME TInv, queue # <<>>
    PROVE  \A w : /\ TakenItem(w) \in WorkerRecord /\ TakenItem(w).pc = "search"
                  /\ TakenItem(w).item = Head(queue) /\ TakenItem(w).p = None /\ TakenItem(w).has = FALSE
                  /\ Head(queue) \in Item /\ Tail(queue) \in Seq(Item)
<1>1. Head(queue) \in Item /\ Tail(queue) \in Seq(Item)
  BY DEF TInv, OthersOK
<1> QED
  BY <1>1 DEF TakenItem, Idle, WorkerRecord

LEMMA TakeItemKeepsTypes ==
    ASSUME TInv, NEW w \in Workers, TakeItem(w)
    PROVE  TInv' /\ Went(w, TakenItem(w))
<1> DEFINE s == TakenItem(w)
<1>1. UNCHANGED <<profile, rows, candidate, resolver, review>> /\ UNCHANGED <<refers, claim>>
      /\ queue' = Tail(queue) /\ queue # <<>> /\ Goto(w, s)
  BY DEF TakeItem, data, TakenItem
<1>2. Grown /\ Known' = Known
  BY <1>1, ProfilesKept
<1>3. s \in WorkerRecord /\ s.item \in Item /\ s.p = None /\ s.pc = "search" /\ Tail(queue) \in Seq(Item)
  BY <1>1, TakenRecord
<1> HIDE DEF s
<1>4. Went(w, s)
  BY <1>1, <1>3, GotoEffect
<1>5. WorkersOK'
  BY <1>2, <1>3, <1>4, WorkersMoved DEF Stands
<1>6. OthersOK'
  BY <1>1, <1>3 DEF TInv, OthersOK
<1> QED
  BY <1>1, <1>2, <1>4, <1>5, <1>6, RowsKept, CandidatesKept, ResolverKept, ReviewKept DEF TInv, Grown, s

\* A worker goes on, and its tables are as they say.
LEMMA WorkerKeepsTypes ==
    ASSUME TInv, Grown, RowsOK', NEW w \in Workers, NEW s \in WorkerRecord, Goto(w, s), Stands(s, Known'),
           UNCHANGED <<claim, candidate, refers, queue, resolver, review>>
    PROVE  TInv' /\ Went(w, s)
<1>1. Went(w, s)
  BY GotoEffect
<1>2. WorkersOK'
  BY <1>1, WorkersMoved
<1>3. OthersOK'
  BY DEF TInv, OthersOK
<1> QED
  BY <1>1, <1>2, <1>3, CandidatesKept, ResolverKept, ReviewKept DEF TInv, Grown

LEMMA WorkerFacts ==
    ASSUME TInv, NEW w \in Workers
    PROVE  worker[w] \in WorkerRecord /\ Stands(worker[w], Known) /\ Known \subseteq Ids
  BY DEF TInv, WorkersOK, WorkersStand, ProfilesOK

LEMMA FoundAreLive ==
    ASSUME NEW g, NEW h, NEW p \in Found(g, h)
    PROVE  p \in Live /\ ((g # None /\ profile[p].gh = g) \/ (h # None /\ profile[p].hf = h))
<1> DEFINE byGh == {q \in Live : g # None /\ profile[q].gh = g}
           byHf == {q \in Live : h # None /\ profile[q].hf = h}
<1>1. p \in byGh \/ p \in byHf
  BY DEF Found
<1> QED
  BY <1>1

LEMMA SearchKeepsTypes ==
    ASSUME TInv, UsersAssumption, NEW w \in Workers, Search(w)
    PROVE  /\ TInv' /\ UNCHANGED <<data, queue>> /\ worker[w].pc = "search"
           /\ \E p \in Found(worker[w].item.login, HfName(worker[w].item.user)) \cup {None}, s \in WorkerRecord :
                Went(w, s) /\ s.pc = "link" /\ s.item = worker[w].item /\ s.p = p
<1> DEFINE f == Found(worker[w].item.login, HfName(worker[w].item.user))
<1>1. worker[w].pc = "search" /\ UNCHANGED <<data, queue, resolver, review>>
  BY DEF Search
<1>2. worker[w] \in WorkerRecord /\ Stands(worker[w], Known) /\ Known \subseteq Ids
  BY WorkerFacts
<1>3. Grown /\ RowsOK' /\ Known' = Known /\ f \subseteq Known
  BY <1>1, ProfilesKept, RowsKept, FoundAreLive DEF data, Live
<1>4. PICK p \in f \cup {None}, s \in WorkerRecord :
          Goto(w, s) /\ s.pc = "link" /\ s.item = worker[w].item /\ s.p = p
  <2>1. CASE Goto(w, [worker[w] EXCEPT !.pc = "link"])
    <3> DEFINE s == [worker[w] EXCEPT !.pc = "link"]
    <3>1. s \in WorkerRecord /\ s.pc = "link" /\ s.item = worker[w].item /\ s.p = worker[w].p
      BY <1>2 DEF WorkerRecord
    <3>2. Goto(w, s) /\ s.p = None
      BY <1>1, <1>2, <2>1, <3>1 DEF Stands
    <3> HIDE DEF s, f
    <3> QED
      BY <3>1, <3>2
  <2>2. ASSUME NEW p \in f, Goto(w, [worker[w] EXCEPT !.pc = "link", !.p = p])
        PROVE  \E q \in f \cup {None}, s \in WorkerRecord :
                 Goto(w, s) /\ s.pc = "link" /\ s.item = worker[w].item /\ s.p = q
    <3> DEFINE s == [worker[w] EXCEPT !.pc = "link", !.p = p]
    <3>1. p \in Ids
      BY <1>2, <1>3
    <3>2. s \in WorkerRecord /\ s.pc = "link" /\ s.item = worker[w].item /\ s.p = p
      BY <1>2, <3>1 DEF WorkerRecord
    <3>3. Goto(w, s)
      BY <2>2
    <3> HIDE DEF s, f
    <3> QED
      BY <3>2, <3>3
  <2>3. Goto(w, [worker[w] EXCEPT !.pc = "link"]) \/ \E p \in f : Goto(w, [worker[w] EXCEPT !.pc = "link", !.p = p])
    BY DEF Search
  <2> HIDE DEF f
  <2> QED
    BY <2>1, <2>2, <2>3
<1> HIDE DEF f
<1>5. Stands(s, Known')
  BY <1>1, <1>2, <1>3, <1>4 DEF Stands
<1>6. TInv' /\ Went(w, s)
  BY <1>1, <1>3, <1>4, <1>5, WorkerKeepsTypes DEF data
<1> QED
  BY <1>1, <1>4, <1>6 DEF f

LEMMA LinkKeepsTypes ==
    ASSUME TInv, UsersAssumption, NEW w \in Workers, Link(w),
           NEW g, g = worker[w].item.login, NEW h, h = HfName(worker[w].item.user)
    PROVE  /\ TInv' /\ UNCHANGED <<claim, queue>> /\ worker[w].pc = "link"
           /\ g \in Names(GhUsers) /\ h \in Names(HfUsers)
           /\ \/ UNCHANGED <<profile, rows>> /\ Went(w, Idle)
              \/ \E s \in WorkerRecord :
                   /\ Went(w, s) /\ s.pc = "dev" /\ s.item = worker[w].item
                   /\ \/ worker[w].p # None /\ s.p = worker[w].p /\ Linked(s.p, g, h) /\ UNCHANGED rows
                      \/ worker[w].p = None /\ s.p \in Ids \ Known /\ Created(s.p, g, h) /\ Wrote("dev", s.p, {})
<1> DEFINE o == worker[w]
<1>1. o.pc = "link" /\ UNCHANGED <<claim, candidate, refers, queue, resolver, review>>
  BY DEF Link
<1>2. o \in WorkerRecord /\ Stands(o, Known) /\ Known \subseteq Ids /\ o.item \in Item
  BY <1>1, WorkerFacts DEF Stands
<1>3. g \in Names(GhUsers) /\ h \in Names(HfUsers)
  BY <1>2 DEF Item, HfName, Names
<1>4. CASE Fail(w) /\ UNCHANGED <<profile, rows>>
  <2>1. Grown /\ RowsOK'
    BY <1>4, ProfilesKept, RowsKept
  <2>2. Idle \in WorkerRecord /\ Goto(w, Idle) /\ Stands(Idle, Known')
    BY <1>4, IdleStands DEF Fail, Stands
  <2> QED
    BY <1>1, <1>3, <1>4, <2>1, <2>2, WorkerKeepsTypes
<1>5. CASE /\ o.p # None /\ profile' = [profile EXCEPT ![o.p].gh = Or(g, @), ![o.p].hf = Or(h, @)]
           /\ Goto(w, [o EXCEPT !.pc = "dev"]) /\ UNCHANGED rows
  <2> DEFINE s == [o EXCEPT !.pc = "dev"]
  <2>1. s \in WorkerRecord /\ s.pc = "dev" /\ s.item = o.item /\ s.p = o.p
    BY <1>2 DEF WorkerRecord
  <2>2. Goto(w, s)
    BY <1>5
  <2> HIDE DEF s
  <2>3. o.p \in Known
    BY <1>2, <1>5 DEF Stands
  <2>4. Linked(o.p, g, h)
    BY <1>3, <1>5, <2>3, TInvTypes, LinkEffect
  <2>5. Grown /\ RowsOK' /\ Known' = Known
    <3>1. Grown
      BY <2>3, <2>4, LinkedGrown
    <3>2. Known' = Known
      BY <2>4 DEF Linked
    <3> QED
      BY <1>5, <3>1, <3>2, RowsKept
  <2>6. Stands(s, Known')
    BY <1>2, <1>5, <2>1, <2>3, <2>5 DEF Stands
  <2>7. TInv' /\ Went(w, s)
    BY <1>1, <2>1, <2>2, <2>5, <2>6, WorkerKeepsTypes
  <2>8. s.p = o.p /\ Linked(s.p, g, h) /\ UNCHANGED rows
    BY <1>5, <2>1, <2>4
  <2> QED
    BY <1>1, <1>3, <1>5, <2>1, <2>7, <2>8
<1>6. ASSUME NEW p \in Ids \ Known, o.p = None,
             profile' = [q \in Known \cup {p} |-> IF q = p THEN NewProfile(g, h) ELSE profile[q]],
             rows' = [rows EXCEPT !["dev"][p] = {}], Goto(w, [o EXCEPT !.pc = "dev", !.p = p])
      PROVE  TInv' /\ \E s \in WorkerRecord : /\ Went(w, s) /\ s.pc = "dev" /\ s.item = o.item
                                               /\ s.p = p /\ Created(p, g, h) /\ Wrote("dev", p, {})
  <2> DEFINE s == [o EXCEPT !.pc = "dev", !.p = p]
  <2>1. s \in WorkerRecord /\ s.pc = "dev" /\ s.item = o.item /\ s.p = p
    BY <1>2 DEF WorkerRecord
  <2>2. Goto(w, s)
    BY <1>6
  <2> HIDE DEF s
  <2>3. Created(p, g, h)
    BY <1>3, <1>6, TInvTypes, CreateEffect
  <2>4. Wrote("dev", p, {})
    BY <1>6, TInvTypes, WriteEffect DEF Tables
  <2>5. Grown /\ p \in Known' /\ p # None
    BY <1>3, <2>3, CreatedGrown DEF Created, UsersAssumption
  <2>6. RowsOK'
    BY <2>4, <2>5, RowWritten DEF Tables
  <2>7. Stands(s, Known')
    BY <1>2, <2>1, <2>5 DEF Stands
  <2>8. TInv' /\ Went(w, s)
    BY <1>1, <2>1, <2>2, <2>5, <2>6, <2>7, WorkerKeepsTypes
  <2> QED
    BY <2>1, <2>3, <2>4, <2>8
<1>7. \/ Fail(w) /\ UNCHANGED <<profile, rows>>
      \/ /\ o.p # None /\ profile' = [profile EXCEPT ![o.p].gh = Or(g, @), ![o.p].hf = Or(h, @)]
         /\ Goto(w, [o EXCEPT !.pc = "dev"]) /\ UNCHANGED rows
      \/ /\ o.p = None
         /\ \E p \in Ids \ Known :
              /\ profile' = [q \in Known \cup {p} |-> IF q = p THEN NewProfile(g, h) ELSE profile[q]]
              /\ rows' = [rows EXCEPT !["dev"][p] = {}]
              /\ Goto(w, [o EXCEPT !.pc = "dev", !.p = p])
  BY DEF Link, NewProfile
<1> HIDE DEF o
<1>8. CASE /\ o.p = None
           /\ \E p \in Ids \ Known :
                /\ profile' = [q \in Known \cup {p} |-> IF q = p THEN NewProfile(g, h) ELSE profile[q]]
                /\ rows' = [rows EXCEPT !["dev"][p] = {}]
                /\ Goto(w, [o EXCEPT !.pc = "dev", !.p = p])
  <2>1. PICK p \in Ids \ Known :
              /\ profile' = [q \in Known \cup {p} |-> IF q = p THEN NewProfile(g, h) ELSE profile[q]]
              /\ rows' = [rows EXCEPT !["dev"][p] = {}]
              /\ Goto(w, [o EXCEPT !.pc = "dev", !.p = p])
    BY <1>8
  <2>2. TInv' /\ \E s \in WorkerRecord : /\ Went(w, s) /\ s.pc = "dev" /\ s.item = o.item
                                         /\ s.p = p /\ Created(p, g, h) /\ Wrote("dev", p, {})
    BY <1>6, <1>8, <2>1
  <2>3. PICK s \in WorkerRecord : /\ Went(w, s) /\ s.pc = "dev" /\ s.item = o.item
                                  /\ s.p = p /\ Created(p, g, h) /\ Wrote("dev", p, {})
    BY <2>2
  <2>4. s.p \in Ids \ Known /\ Created(s.p, g, h) /\ Wrote("dev", s.p, {})
    BY <2>3
  <2> QED
    BY <1>1, <1>3, <1>8, <2>2, <2>3, <2>4 DEF o
<1> QED
  BY <1>4, <1>5, <1>7, <1>8

LEMMA StoreDevKeepsTypes ==
    ASSUME TInv, UsersAssumption, NEW w \in Workers, StoreDev(w)
    PROVE  /\ TInv' /\ UNCHANGED <<claim, queue>> /\ worker[w].pc = "dev"
           /\ worker[w].p \in Known /\ worker[w].item \in Item
           /\ Linked(worker[w].p, None, None) /\ Wrote("dev", worker[w].p, DevData(worker[w].item))
           /\ \E s \in WorkerRecord :
                /\ Went(w, s) /\ s.item = worker[w].item /\ s.p = worker[w].p
                /\ s.pc = IF worker[w].item.user \in LnUsers THEN "social" ELSE "agg"
<1> DEFINE o == worker[w]
           pc == IF o.item.user \in LnUsers THEN "social" ELSE "agg"
           s == [o EXCEPT !.pc = pc]
<1>1. o.pc = "dev" /\ UNCHANGED <<claim, candidate, refers, queue, resolver, review>>
      /\ rows' = [rows EXCEPT !["dev"][o.p] = DevData(o.item)]
      /\ profile' = [profile EXCEPT ![o.p].status = "completed"] /\ Goto(w, s)
  BY DEF StoreDev
<1>2. o \in WorkerRecord /\ Stands(o, Known) /\ Known \subseteq Ids /\ o.item \in Item /\ o.p \in Known
  BY <1>1, WorkerFacts DEF Stands
<1>3. s \in WorkerRecord /\ s.pc = pc /\ s.item = o.item /\ s.p = o.p /\ pc \in {"social", "agg"}
  BY <1>2 DEF WorkerRecord, Lookups
<1> HIDE DEF s
<1>4. Linked(o.p, None, None)
  BY <1>1, <1>2, TInvTypes, StatusEffect
<1>5. DevData(o.item) \in SUBSET Users
  BY DEF DevData, Users
<1>6. Wrote("dev", o.p, DevData(o.item))
  BY <1>1, <1>2, <1>5, TInvTypes, WriteEffect DEF Tables
<1>7. Grown /\ Known' = Known
  BY <1>2, <1>4, LinkedGrown DEF Linked
<1>8. RowsOK'
  BY <1>2, <1>6, <1>7, RowWritten DEF Tables
<1>9. Stands(s, Known')
  BY <1>1, <1>2, <1>3, <1>7 DEF Stands
<1>10. TInv' /\ Went(w, s)
  BY <1>1, <1>3, <1>7, <1>8, <1>9, WorkerKeepsTypes
<1> QED
  BY <1>1, <1>2, <1>3, <1>4, <1>6, <1>10

LEMMA LookKeepsTypes ==
    ASSUME TInv, UsersAssumption, NEW w \in Workers, NEW t \in Lookups, Look(w, t)
    PROVE  /\ TInv' /\ UNCHANGED <<data, queue>> /\ worker[w].pc = t
           /\ \E s \in WorkerRecord :
                /\ Went(w, s) /\ s.item = worker[w].item /\ s.p = worker[w].p
                /\ s.pc = Looking[t] /\ s.has = (rows[t][worker[w].p] # None)
<1> DEFINE o == worker[w]
           has == rows[t][o.p] # None
           s == [o EXCEPT !.pc = Looking[t], !.has = has]
<1>1. o.pc = t /\ UNCHANGED <<data, queue, resolver, review>> /\ Goto(w, s)
  BY DEF Look
<1>2. o \in WorkerRecord /\ Stands(o, Known)
  BY WorkerFacts
<1>3. s \in WorkerRecord /\ s.pc = Looking[t] /\ s.item = o.item /\ s.p = o.p /\ s.has = has
      /\ Looking[t] \in Stores
  <2>1. Looking[t] \in Stores
    BY DEF Looking, Lookups, Stores
  <2>2. has \in BOOLEAN
    OBVIOUS
  <2> HIDE DEF has
  <2> QED
    BY <1>2, <2>1, <2>2 DEF WorkerRecord
<1> HIDE DEF s
<1>4. Grown /\ RowsOK' /\ Known' = Known
  BY <1>1, ProfilesKept, RowsKept DEF data
<1>5. Stands(s, Known')
  BY <1>1, <1>2, <1>3, <1>4 DEF Stands, Lookups, Stores
<1>6. TInv' /\ Went(w, s)
  BY <1>1, <1>3, <1>4, <1>5, WorkerKeepsTypes DEF data
<1> QED
  BY <1>1, <1>3, <1>6

Clash(w, t) == \/ ~worker[w].has /\ rows[t][worker[w].p] # None
               \/ /\ t = "social"
                  /\ \E q \in Ids \ {worker[w].p} : rows[t][q] # None /\ worker[w].item.user \in rows[t][q]

LEMMA StoreKeepsTypes ==
    ASSUME TInv, UsersAssumption, NEW w \in Workers, NEW t \in Lookups, Store(w, t)
    PROVE  /\ TInv' /\ UNCHANGED <<claim, profile, queue>> /\ worker[w].pc = Looking[t]
           /\ worker[w].p \in Known /\ worker[w].item \in Item
           /\ \/ UNCHANGED rows /\ Went(w, Idle)
              \/ /\ \/ UNCHANGED rows /\ worker[w].has /\ rows[t][worker[w].p] = None
                    \/ Wrote(t, worker[w].p, Content(t, worker[w].item))
                 /\ \/ t = "coh" /\ Went(w, Idle)
                    \/ /\ t # "coh"
                       /\ \E s \in WorkerRecord : /\ Went(w, s) /\ s.item = worker[w].item /\ s.p = worker[w].p
                                                  /\ s.pc = NextTable[t] /\ s.has = FALSE
<1> DEFINE o == worker[w]
           s == [o EXCEPT !.pc = NextTable[t], !.has = FALSE]
<1>1. o.pc = Looking[t] /\ UNCHANGED <<claim, profile, candidate, refers, queue, resolver, review>>
  BY DEF Store
<1>2. o \in WorkerRecord /\ Stands(o, Known) /\ Known \subseteq Ids /\ o.item \in Item /\ o.p \in Known
  BY <1>1, WorkerFacts DEF Stands, Looking, Lookups, Stores
<1>3. t \in Tables /\ (t # "coh" => NextTable[t] \in Lookups)
  BY DEF Tables, NextTable, Lookups
<1>4. t # "coh" => s \in WorkerRecord /\ s.pc = NextTable[t] /\ s.item = o.item /\ s.p = o.p /\ s.has = FALSE
  BY <1>2, <1>3 DEF WorkerRecord
<1>5. Grown /\ Known' = Known
  BY <1>1, ProfilesKept
<1>6. Idle \in WorkerRecord /\ Stands(Idle, Known')
  BY IdleStands DEF Stands
<1>7. t # "coh" => Stands(s, Known')
  <2>1. o.p # None
    BY <1>2 DEF UsersAssumption
  <2> QED
    BY <1>2, <1>3, <1>4, <1>5, <2>1 DEF Stands, Lookups
<1>8. \/ Fail(w) /\ UNCHANGED rows
      \/ /\ rows' = IF o.has /\ rows[t][o.p] = None THEN rows
                    ELSE [rows EXCEPT ![t][o.p] = Content(t, o.item)]
         /\ Goto(w, IF t = "coh" THEN Idle ELSE s)
  BY DEF Store
<1> HIDE DEF s
<1>9. CASE Fail(w) /\ UNCHANGED rows
  <2>1. RowsOK' /\ Goto(w, Idle)
    BY <1>5, <1>9, RowsKept DEF Fail
  <2>2. TInv' /\ Went(w, Idle)
    BY <1>1, <1>5, <1>6, <2>1, WorkerKeepsTypes
  <2> QED
    BY <1>1, <1>2, <1>9, <2>2
<1>10. CASE /\ rows' = IF o.has /\ rows[t][o.p] = None THEN rows
                       ELSE [rows EXCEPT ![t][o.p] = Content(t, o.item)]
            /\ Goto(w, IF t = "coh" THEN Idle ELSE s)
  <2>1. Content(t, o.item) \in SUBSET Users
    <3>1. o.item.user \in Users
      BY <1>2 DEF Item
    <3> QED
      BY <3>1 DEF Content, DevData, Users
  <2>2. \/ UNCHANGED rows /\ o.has /\ rows[t][o.p] = None
        \/ Wrote(t, o.p, Content(t, o.item))
    <3>1. CASE o.has /\ rows[t][o.p] = None
      BY <1>10, <3>1
    <3>2. CASE ~(o.has /\ rows[t][o.p] = None)
      <4>1. rows' = [rows EXCEPT ![t][o.p] = Content(t, o.item)]
        BY <1>10, <3>2
      <4> QED
        BY <1>2, <1>3, <2>1, <4>1, TInvTypes, WriteEffect
    <3> QED
      BY <3>1, <3>2
  <2>3. RowsOK'
    <3>1. CASE UNCHANGED rows
      BY <1>5, <3>1, RowsKept
    <3>2. CASE Wrote(t, o.p, Content(t, o.item))
      BY <1>2, <1>3, <1>5, <3>2, RowWritten
    <3> QED
      BY <2>2, <3>1, <3>2
  <2>4. CASE t = "coh"
    <3>1. TInv' /\ Went(w, Idle)
      BY <1>1, <1>5, <1>6, <1>10, <2>3, <2>4, WorkerKeepsTypes
    <3> QED
      BY <1>1, <1>2, <2>2, <2>4, <3>1
  <2>5. CASE t # "coh"
    <3>1. TInv' /\ Went(w, s)
      BY <1>1, <1>4, <1>5, <1>7, <1>10, <2>3, <2>5, WorkerKeepsTypes
    <3> QED
      BY <1>1, <1>2, <1>4, <2>2, <2>5, <3>1
  <2> QED
    BY <2>4, <2>5
<1> QED
  BY <1>8, <1>9, <1>10

-----------------------------------------------------------------------------
(* Merges, the resolver and the reviewers.                                 *)

LEMMA MergeKeepsTables ==
    ASSUME TInv, Assumptions, NEW c \in Pairs, BothKnown(c), MergeProfiles(c[1], c[2])
    PROVE  /\ Grown /\ RowsOK' /\ CandidatesOK' /\ refers' \in [Ids -> Ids]
           /\ MergedInto(c[1], c[2]) /\ Moved(c[1], c[2]) /\ ~MergeFails(c[1], c[2])
           /\ candidate' = [candidate EXCEPT ![c] = "merged"]
<1>1. /\ c[1] \in Ids /\ c[2] \in Ids /\ c[2] < c[1] /\ c[1] # c[2] /\ c = <<c[1], c[2]>>
      /\ c[1] \in Known /\ c[2] \in Known
  BY PairsAreTwo DEF Assumptions, BothKnown
<1>2. MergedInto(c[1], c[2])
  BY <1>1, TInvTypes, MergeEffect DEF MergeProfiles
<1>3. Moved(c[1], c[2])
  BY <1>1, TInvTypes, MoveEffect DEF MergeProfiles
<1>4. Grown /\ Known' = Known
  BY <1>1, <1>2, MergedGrown DEF MergedInto, Assumptions
<1>5. RowsOK'
  <2>1. ASSUME NEW k \in Tables, NEW p \in Ids, rows'[k][p] # None
        PROVE  p \in Known
    <3>1. CASE p \in {c[1], c[2]}
      BY <1>1, <3>1
    <3>2. CASE p \notin {c[1], c[2]}
      <4>1. rows'[k][p] = rows[k][p]
        BY <1>3, <3>2 DEF Moved, Tables, Lookups
      <4> QED
        BY <2>1, <4>1 DEF TInv, RowsOK, RowsOfKnown
    <3> QED
      BY <3>1, <3>2
  <2> QED
    BY <1>3, <1>4, <2>1 DEF RowsOK, RowsOfKnown, Moved
<1>6. candidate' = [candidate EXCEPT ![c] = "merged"] /\ ~MergeFails(c[1], c[2])
  BY <1>1 DEF MergeProfiles
<1>7. CandidatesOK'
  BY <1>4, <1>6, CandidateWritten DEF Statuses
<1>8. refers' \in [Ids -> Ids]
  BY <1>1 DEF MergeProfiles, TInv, OthersOK
<1> QED
  BY <1>2, <1>3, <1>4, <1>5, <1>6, <1>7, <1>8

LEMMA TriagedPairs ==
    ASSUME IdsAssumption, NEW loaded, loaded \subseteq Ids
    PROVE  \A c \in CandidatePairs(loaded) : c \in Choice /\ c.pair[1] \in loaded /\ c.pair[2] \in loaded
<1> DEFINE all == [p \in loaded |-> ProfileData(p)]
           set == {all[p] : p \in loaded}
           pairs == {CanonicalPair(x[1], x[2]) : x \in {y \in loaded \X loaded : y[1] # y[2]}}
           grade(x) == Triage(all[x[1]], all[x[2]])
           worth(x) == Compared(all[x[1]], all[x[2]], set)
           some == {x \in pairs : worth(x) /\ grade(x) # "skip"}
<1>1. CandidatePairs(loaded) = {[pair |-> c, grade |-> grade(c)] : c \in some}
  BY DEF CandidatePairs
<1>2. \A x : grade(x) \in {"approved", "pending", "skip"}
  BY DEF Triage
<1>3. ASSUME NEW c \in pairs PROVE c \in Pairs /\ c[1] \in loaded /\ c[2] \in loaded
  <2>1. PICK x \in loaded \X loaded : x[1] # x[2] /\ c = CanonicalPair(x[1], x[2])
    OBVIOUS
  <2>2. x[1] \in loaded /\ x[2] \in loaded /\ x[1] \in Nat /\ x[2] \in Nat
    BY <2>1 DEF IdsAssumption
  <2>3. CASE x[1] > x[2]
    <3>1. c = <<x[1], x[2]>>
      BY <2>1, <2>3 DEF CanonicalPair
    <3> QED
      BY <2>2, <2>3, <3>1 DEF Pairs
  <2>4. CASE ~(x[1] > x[2])
    <3>1. c = <<x[2], x[1]>> /\ x[2] > x[1]
      BY <2>1, <2>2, <2>4 DEF CanonicalPair
    <3> QED
      BY <2>2, <3>1 DEF Pairs
  <2> QED
    BY <2>3, <2>4
<1> HIDE DEF grade, worth, pairs
<1>4. ASSUME NEW c \in some PROVE grade(c) \in Grades /\ c \in pairs
  BY <1>2 DEF Grades
<1> HIDE DEF some
<1> QED
  BY <1>1, <1>3, <1>4 DEF Choice

\* The resolver or a request goes on, and the tables are as they say.
LEMMA ResolverKeepsTypes ==
    ASSUME TInv, Grown, RowsOK', CandidatesOK', ResolverOK', refers' \in [Ids -> Ids],
           UNCHANGED <<claim, queue, worker, review>>
    PROVE  TInv'
<1>1. OthersOK'
  BY DEF TInv, OthersOK
<1> QED
  BY <1>1, WorkersKept, ReviewKept DEF TInv, Grown

LEMMA ReviewKeepsTypes ==
    ASSUME TInv, Grown, RowsOK', CandidatesOK', ReviewOK', refers' \in [Ids -> Ids],
           UNCHANGED <<claim, queue, worker, resolver>>
    PROVE  TInv'
<1>1. OthersOK'
  BY DEF TInv, OthersOK
<1> QED
  BY <1>1, WorkersKept, ResolverKept DEF TInv, Grown

LEMMA ResolverFacts ==
    ASSUME TInv
    PROVE  /\ resolver \in ResolverRecord /\ candidate \in [Pairs -> Statuses] /\ refers \in [Ids -> Ids]
           /\ resolver.todo \subseteq Choice
           /\ resolver.pc \in Resolving =>
                /\ resolver.pair \in Choice /\ resolver.pair.pair \in Pairs /\ BothKnown(resolver.pair.pair)
                /\ resolver.pair.grade \in Grades /\ resolver.seen \notin {"merged", "rejected"}
<1>1. /\ resolver \in ResolverRecord /\ candidate \in [Pairs -> Statuses] /\ refers \in [Ids -> Ids]
      /\ resolver.todo \subseteq Choice
  BY DEF TInv, ResolverOK, ResolverRecord, CandidatesOK, OthersOK
<1>2. ASSUME resolver.pc \in Resolving
      PROVE  resolver.pair \in Choice /\ BothKnown(resolver.pair.pair) /\ resolver.seen \notin {"merged", "rejected"}
  BY <1>2 DEF TInv, ResolverOK, ResolverStands, ResolverRecord
<1> QED
  BY <1>1, <1>2 DEF Choice

NextPairs(todo) == [NoTriage EXCEPT !.pc = "next", !.todo = todo]

LEMMA NextPairsRecord ==
    ASSUME NEW todo \in SUBSET Choice
    PROVE  NextPairs(todo) \in ResolverRecord /\ NextPairs(todo).pc = "next" /\ NextPairs(todo).todo = todo
  BY DEF NextPairs, NoTriage, ResolverRecord, Statuses

LEMMA NextPairsStand ==
    ASSUME TInv, Grown, NEW todo \in SUBSET Choice, resolver' = NextPairs(todo),
           \A c \in todo : BothKnown(c.pair)'
    PROVE  ResolverOK'
<1>1. resolver' \in ResolverRecord /\ resolver'.pc = "next" /\ resolver'.todo = todo
  BY NextPairsRecord
<1> QED
  BY <1>1 DEF ResolverOK, ResolverStands, Resolving

LEMMA StartResolveKeepsTypes == ASSUME TInv, IdsAssumption, StartResolve PROVE TInv'
<1>1. PICK loaded \in SUBSET Live : resolver' = NextPairs(CandidatePairs(loaded))
  BY DEF StartResolve, NextPairs
<1>2. UNCHANGED <<claim, profile, rows, candidate, refers, queue, worker, review>>
  BY DEF StartResolve, data
<1>3. Grown /\ Known' = Known /\ loaded \subseteq Known /\ Known \subseteq Ids
  BY <1>2, ProfilesKept DEF TInv, ProfilesOK, Live
<1> DEFINE todo == CandidatePairs(loaded)
<1>4. \A c \in todo : c \in Choice /\ c.pair[1] \in loaded /\ c.pair[2] \in loaded
  BY <1>3, TriagedPairs
<1> HIDE DEF todo
<1>5. todo \in SUBSET Choice /\ \A c \in todo : BothKnown(c.pair)'
  BY <1>3, <1>4 DEF BothKnown
<1>6. ResolverOK'
  BY <1>1, <1>3, <1>5, NextPairsStand DEF todo
<1> QED
  BY <1>2, <1>3, <1>6, RowsKept, CandidatesKept, ResolverFacts, ResolverKeepsTypes

LEMMA TriageReadKeepsTypes == ASSUME TInv, TriageRead PROVE TInv'
<1>1. UNCHANGED <<claim, profile, rows, candidate, refers, queue, worker, review>>
  BY DEF TriageRead, data
<1>2. Grown /\ Known' = Known
  BY <1>1, ProfilesKept
<1>3. \A c \in resolver.todo : c \in Choice /\ BothKnown(c.pair)
  BY ResolverFacts DEF TInv, ResolverOK, ResolverStands
<1>4. \A d : BothKnown(d)' <=> BothKnown(d)
  BY <1>2 DEF BothKnown
<1>5. ResolverOK'
  <2>1. CASE resolver' = NoTriage
    BY <2>1 DEF ResolverOK, ResolverStands, NoTriage, ResolverRecord, Resolving, Statuses
  <2>2. ASSUME NEW c \in resolver.todo, resolver' = [resolver EXCEPT !.todo = @ \ {c}], resolver.pc = "next"
        PROVE  ResolverOK'
    <3>1. resolver' \in ResolverRecord /\ resolver'.pc = "next" /\ resolver'.todo \subseteq resolver.todo
      BY <2>2, ResolverFacts DEF ResolverRecord
    <3> QED
      BY <1>3, <1>4, <3>1 DEF ResolverOK, ResolverStands, Resolving
  <2>3. ASSUME NEW c \in resolver.todo, candidate[c.pair] \notin {"merged", "rejected"},
               resolver' = [pc |-> "write", todo |-> resolver.todo \ {c}, pair |-> c, seen |-> candidate[c.pair]]
        PROVE  ResolverOK'
    <3>1. candidate[c.pair] \in Statuses /\ resolver.todo \subseteq Choice /\ c \in Choice
      BY <1>3, ResolverFacts DEF Choice
    <3>2. resolver' \in ResolverRecord /\ resolver'.pair = c /\ resolver'.seen = candidate[c.pair]
          /\ resolver'.todo = resolver.todo \ {c}
      BY <2>3, <3>1 DEF ResolverRecord
    <3> QED
      BY <1>3, <1>4, <2>3, <3>1, <3>2 DEF ResolverOK, ResolverStands
  <2>4. /\ resolver.pc = "next"
        /\ \/ resolver' = NoTriage
           \/ \E c \in resolver.todo :
                resolver' = IF candidate[c.pair] \in {"merged", "rejected"}
                            THEN [resolver EXCEPT !.todo = @ \ {c}]
                            ELSE [pc |-> "write", todo |-> resolver.todo \ {c}, pair |-> c,
                                  seen |-> candidate[c.pair]]
    BY DEF TriageRead
  <2>5. CASE resolver' # NoTriage
    <3>1. PICK c \in resolver.todo :
                resolver' = IF candidate[c.pair] \in {"merged", "rejected"}
                            THEN [resolver EXCEPT !.todo = @ \ {c}]
                            ELSE [pc |-> "write", todo |-> resolver.todo \ {c}, pair |-> c,
                                  seen |-> candidate[c.pair]]
      BY <2>4, <2>5
    <3>2. CASE candidate[c.pair] \in {"merged", "rejected"}
      <4>1. resolver' = [resolver EXCEPT !.todo = @ \ {c}]
        BY <3>1, <3>2
      <4> QED
        BY <2>2, <2>4, <4>1
    <3>3. CASE candidate[c.pair] \notin {"merged", "rejected"}
      <4>1. resolver' = [pc |-> "write", todo |-> resolver.todo \ {c}, pair |-> c, seen |-> candidate[c.pair]]
        BY <3>1, <3>3
      <4> QED
        BY <2>3, <3>3, <4>1
    <3> QED
      BY <3>2, <3>3
  <2> QED
    BY <2>1, <2>5
<1> QED
  BY <1>1, <1>2, <1>5, RowsKept, CandidatesKept, ResolverFacts, ResolverKeepsTypes

\* The resolver stays with its pair.
LEMMA SamePairStands ==
    ASSUME TInv, Grown, resolver.pc \in Resolving, NEW pc \in {"merge", "downgrade"},
           resolver' = [resolver EXCEPT !.pc = pc]
    PROVE  ResolverOK'
<1>1. resolver' \in ResolverRecord /\ resolver'.pair = resolver.pair /\ resolver'.seen = resolver.seen
      /\ resolver'.todo = resolver.todo
  BY ResolverFacts DEF ResolverRecord
<1>2. \A c \in resolver.todo : BothKnown(c.pair)'
  BY DEF TInv, ResolverOK, ResolverStands, BothKnown, Grown
<1>3. BothKnown(resolver.pair.pair)'
  BY ResolverFacts DEF BothKnown, Grown
<1> QED
  BY <1>1, <1>2, <1>3, ResolverFacts DEF ResolverOK, ResolverStands

\* It goes on to the next.
LEMMA NextPairStands == ASSUME TInv, Grown, NextPair PROVE ResolverOK'
<1>1. resolver' = NextPairs(resolver.todo)
  BY DEF NextPair, NextPairs
<1>2. resolver.todo \in SUBSET Choice /\ \A c \in resolver.todo : BothKnown(c.pair)'
  BY ResolverFacts DEF TInv, ResolverOK, ResolverStands, BothKnown, Grown
<1> QED
  BY <1>1, <1>2, NextPairsStand

LEMMA TriageWriteKeepsTypes == ASSUME TInv, TriageWrite PROVE TInv'
<1> DEFINE c == resolver.pair.pair
<1>1. UNCHANGED <<claim, profile, rows, refers, queue, worker, review>> /\ resolver.pc \in Resolving
      /\ candidate' = [candidate EXCEPT ![c] = resolver.pair.grade]
  BY DEF TriageWrite, Resolving
<1>2. Grown /\ Known' = Known
  BY <1>1, ProfilesKept
<1>3. c \in Pairs /\ BothKnown(c) /\ resolver.pair.grade \in Statuses
  BY <1>1, ResolverFacts DEF Grades, Statuses
<1> HIDE DEF c
<1>4. CandidatesOK'
  BY <1>1, <1>2, <1>3, CandidateWritten
<1>5. ResolverOK'
  <2>1. CASE resolver' = [resolver EXCEPT !.pc = "merge"]
    BY <1>1, <1>2, <2>1, SamePairStands
  <2>2. CASE NextPair
    BY <1>2, <2>2, NextPairStands
  <2> QED
    BY <2>1, <2>2 DEF TriageWrite, NextPair
<1> QED
  BY <1>1, <1>2, <1>4, <1>5, RowsKept, ResolverFacts, ResolverKeepsTypes

LEMMA AutoMergeKeepsTypes == ASSUME TInv, Assumptions, AutoMergePair PROVE TInv'
<1> DEFINE c == resolver.pair.pair
<1>1. UNCHANGED <<claim, queue, worker, review>> /\ resolver.pc \in Resolving
      /\ \/ MergeProfiles(c[1], c[2]) /\ NextPair
         \/ resolver' = [resolver EXCEPT !.pc = "downgrade"] /\ UNCHANGED <<profile, rows, candidate, refers>>
  BY DEF AutoMergePair, Resolving
<1>2. c \in Pairs /\ BothKnown(c)
  BY <1>1, ResolverFacts
<1> HIDE DEF c
<1>3. CASE MergeProfiles(c[1], c[2]) /\ NextPair
  <2>1. Grown /\ RowsOK' /\ CandidatesOK' /\ refers' \in [Ids -> Ids]
    BY <1>2, <1>3, MergeKeepsTables
  <2>2. ResolverOK'
    BY <1>3, <2>1, NextPairStands
  <2> QED
    BY <1>1, <2>1, <2>2, ResolverKeepsTypes
<1>4. CASE resolver' = [resolver EXCEPT !.pc = "downgrade"] /\ UNCHANGED <<profile, rows, candidate, refers>>
  <2>1. Grown
    BY <1>4, ProfilesKept
  <2>2. ResolverOK'
    BY <1>1, <1>4, <2>1, SamePairStands
  <2> QED
    BY <1>1, <1>4, <2>1, <2>2, RowsKept, CandidatesKept, ResolverFacts, ResolverKeepsTypes
<1> QED
  BY <1>1, <1>3, <1>4

LEMMA DowngradeKeepsTypes == ASSUME TInv, Downgrade PROVE TInv'
<1> DEFINE c == resolver.pair.pair
<1>1. UNCHANGED <<claim, profile, rows, refers, queue, worker, review>> /\ resolver.pc \in Resolving
      /\ candidate' = [candidate EXCEPT ![c] = "pending"] /\ NextPair
  BY DEF Downgrade, Resolving
<1>2. Grown /\ Known' = Known
  BY <1>1, ProfilesKept
<1>3. c \in Pairs /\ BothKnown(c)
  BY <1>1, ResolverFacts
<1> HIDE DEF c
<1>4. CandidatesOK'
  BY <1>1, <1>2, <1>3, CandidateWritten DEF Statuses
<1>5. ResolverOK'
  BY <1>1, <1>2, NextPairStands
<1> QED
  BY <1>1, <1>2, <1>4, <1>5, RowsKept, ResolverFacts, ResolverKeepsTypes

LEMMA ReviewFacts ==
    ASSUME TInv
    PROVE  /\ review \in ReviewRecord /\ refers \in [Ids -> Ids]
           /\ review.pc # "idle" => review.pair \in Pairs /\ BothKnown(review.pair)
           /\ review.pc # "idle" /\ review.kind = "approve" => review.seen # "rejected"
           /\ review.pc = "merge" => review.kind = "approve"
  BY DEF TInv, ReviewOK, ReviewStands, OthersOK

LEMMA NoReviewStands == ASSUME review' = NoReview PROVE ReviewOK'
  BY DEF ReviewOK, ReviewStands, NoReview, ReviewRecord, Statuses

LEMMA ReviewReadKeepsTypes ==
    ASSUME TInv, NEW kind \in {"approve", "reject"}, NEW c \in Pairs, ReviewRead(kind, c)
    PROVE  TInv'
<1>1. UNCHANGED <<claim, profile, rows, candidate, refers, queue, worker, resolver>>
      /\ candidate[c] \notin {"absent", "merged"} /\ (kind = "approve" => candidate[c] # "rejected")
      /\ review' = [pc |-> "write", kind |-> kind, pair |-> c, seen |-> candidate[c]]
  BY DEF ReviewRead, data
<1>2. Grown /\ Known' = Known
  BY <1>1, ProfilesKept
<1>3. BothKnown(c) /\ candidate[c] \in Statuses
  BY <1>1 DEF TInv, CandidatesOK, CandidatesOfKnown
<1>4. BothKnown(c)'
  BY <1>2, <1>3 DEF BothKnown
<1>5. review' \in ReviewRecord /\ review'.pc = "write" /\ review'.pair = c /\ review'.kind = kind
      /\ review'.seen = candidate[c]
  BY <1>1, <1>3 DEF ReviewRecord
<1>6. ReviewOK'
  BY <1>1, <1>4, <1>5 DEF ReviewOK, ReviewStands
<1> QED
  BY <1>1, <1>2, <1>6, RowsKept, CandidatesKept, ReviewFacts, ReviewKeepsTypes

LEMMA ReviewWriteKeepsTypes == ASSUME TInv, ReviewWrite PROVE TInv'
<1> DEFINE c == review.pair
<1>1. UNCHANGED <<claim, profile, rows, refers, queue, worker, resolver>> /\ review.pc = "write"
      /\ \/ candidate' = [candidate EXCEPT ![c] = "rejected"] /\ review' = NoReview
         \/ /\ candidate' = [candidate EXCEPT ![c] = "approved"] /\ review' = [review EXCEPT !.pc = "merge"]
            /\ review.kind = "approve"
  BY DEF ReviewWrite
<1>2. Grown /\ Known' = Known
  BY <1>1, ProfilesKept
<1>3. c \in Pairs /\ BothKnown(c)
  BY <1>1, ReviewFacts
<1>4. CandidatesOK'
  BY <1>1, <1>2, <1>3, CandidateWritten DEF Statuses
<1>5. ReviewOK'
  <2>1. CASE review' = NoReview
    BY <2>1, NoReviewStands
  <2>2. CASE review' = [review EXCEPT !.pc = "merge"] /\ review.kind = "approve"
    <3>1. review' \in ReviewRecord /\ review'.pc = "merge" /\ review'.pair = c /\ review'.kind = "approve"
          /\ review'.seen = review.seen
      BY <2>2, ReviewFacts DEF ReviewRecord
    <3>2. BothKnown(c)'
      BY <1>2, <1>3, <3>1 DEF BothKnown
    <3> QED
      BY <1>1, <1>3, <2>2, <3>1, <3>2, ReviewFacts DEF ReviewOK, ReviewStands
  <2> QED
    BY <1>1, <2>1, <2>2
<1> QED
  BY <1>1, <1>2, <1>4, <1>5, RowsKept, ReviewFacts, ReviewKeepsTypes

LEMMA ReviewMergeKeepsTypes == ASSUME TInv, Assumptions, ReviewMerge PROVE TInv'
<1> DEFINE c == review.pair
<1>1. UNCHANGED <<claim, queue, worker, resolver>> /\ review.pc = "merge" /\ review' = NoReview
      /\ (MergeProfiles(c[1], c[2]) \/ UNCHANGED <<profile, rows, candidate, refers>>)
  BY DEF ReviewMerge
<1>2. c \in Pairs /\ BothKnown(c)
  BY <1>1, ReviewFacts
<1> HIDE DEF c
<1>3. ReviewOK'
  BY <1>1, NoReviewStands
<1>4. CASE MergeProfiles(c[1], c[2])
  <2>1. Grown /\ RowsOK' /\ CandidatesOK' /\ refers' \in [Ids -> Ids]
    BY <1>2, <1>4, MergeKeepsTables
  <2> QED
    BY <1>1, <1>3, <2>1, ReviewKeepsTypes
<1>5. CASE UNCHANGED <<profile, rows, candidate, refers>>
  <2>1. Grown
    BY <1>5, ProfilesKept
  <2> QED
    BY <1>1, <1>3, <1>5, <2>1, RowsKept, CandidatesKept, ReviewFacts, ReviewKeepsTypes
<1> QED
  BY <1>1, <1>4, <1>5

LEMMA TInvStutters == ASSUME TInv, UNCHANGED vars PROVE TInv'
<1>1. UNCHANGED <<claim, profile, rows, candidate, refers, queue, worker, resolver, review>>
  BY DEF vars
<1>2. Grown
  BY <1>1, ProfilesKept
<1>3. OthersOK'
  BY <1>1 DEF TInv, OthersOK
<1> QED
  BY <1>1, <1>2, <1>3, RowsKept, CandidatesKept, WorkersKept, ResolverKept, ReviewKept DEF TInv, Grown

LEMMA TInvNext == ASSUME Assumptions, TInv, [Next]_vars PROVE TInv'
<1> USE DEF Assumptions
<1>1. ASSUME NEW h \in HfUsers, NEW g \in GhUsers, ClaimGitHub(h, g) PROVE TInv'
  BY <1>1, ClaimKeepsTypes
<1>2. ASSUME NEW mode \in RunModes, StartSync(mode) PROVE TInv'
  BY <1>2, StartSyncKeepsTypes
<1>3. ASSUME NEW w \in Workers, SyncStep(w) PROVE TInv'
  <2>1. CASE TakeItem(w) \/ Search(w) \/ StoreDev(w)
    BY <2>1, TakeItemKeepsTypes, SearchKeepsTypes, StoreDevKeepsTypes
  <2>2. CASE Link(w)
    BY <2>2, LinkKeepsTypes
  <2>3. ASSUME NEW t \in Lookups, Look(w, t) \/ Store(w, t) PROVE TInv'
    BY <2>3, LookKeepsTypes, StoreKeepsTypes
  <2> QED
    BY <1>3, <2>1, <2>2, <2>3 DEF SyncStep, Lookups
<1>4. CASE StartResolve \/ TriageRead \/ TriageWrite \/ AutoMergePair \/ Downgrade
  BY <1>4, StartResolveKeepsTypes, TriageReadKeepsTypes, TriageWriteKeepsTypes, AutoMergeKeepsTypes,
     DowngradeKeepsTypes
<1>5. ASSUME NEW kind \in {"approve", "reject"}, NEW c \in Pairs, ReviewRead(kind, c) PROVE TInv'
  BY <1>5, ReviewReadKeepsTypes
<1>6. CASE ReviewWrite \/ ReviewMerge
  BY <1>6, ReviewWriteKeepsTypes, ReviewMergeKeepsTypes
<1>7. CASE UNCHANGED vars
  BY <1>7, TInvStutters
<1> QED
  BY <1>1, <1>2, <1>3, <1>4, <1>5, <1>6, <1>7 DEF Next

LEMMA AlwaysTInv == Assumptions => (Spec => []TInv)
<1> SUFFICES ASSUME Assumptions PROVE Spec => []TInv
  OBVIOUS
<1>1. Init => TInv
  BY TInvInit
<1>2. TInv /\ [Next]_vars => TInv'
  BY TInvNext
<1> QED
  BY <1>1, <1>2, PTL DEF Spec

-----------------------------------------------------------------------------
(* The theorems about the tables.                                          *)

\* Every variable has its type: links, rows, candidates and tasks in flight are
\* about profiles there are, however many workers, runs and requests there are
\* (bridge/orchestrator.py, bridge/resolver.py and bridge/storage.py).
THEOREM TypeCorrect == Assumptions => (Spec => []TypeOK)
<1> SUFFICES ASSUME Assumptions PROVE Spec => []TypeOK
  OBVIOUS
<1>1. ASSUME TInv PROVE TypeOK
  <2>1. \A p \in Known : profile[p] \in ProfileRecord
    BY <1>1 DEF TInv, ProfilesOK
  <2>2. \A t \in Tables, p \in Ids : rows[t][p] # None => p \in Known /\ rows[t][p] \subseteq Users
    BY <1>1 DEF TInv, RowsOK, RowsOfKnown, RowTypes
  <2>3. \A w \in Workers : worker[w].p \in Known \cup {None}
    BY <1>1 DEF TInv, WorkersOK, WorkersStand, Stands
  <2>4. candidate \in [Pairs -> Statuses] /\ Known \subseteq Ids /\ refers \in [Ids -> Ids]
        /\ claim \in [HfUsers -> Names(GhUsers)]
    BY <1>1 DEF TInv, CandidatesOK, ProfilesOK, OthersOK
  <2> QED
    BY <2>1, <2>2, <2>3, <2>4 DEF TypeOK, ProfileRecord, Names, Statuses
<1> QED
  BY <1>1, AlwaysTInv, PTL

\* Merges, whoever performs them on whatever was read before, lead from every
\* profile to one that lives (bridge/storage.py, merge_profiles): a profile is
\* merged only into one with a smaller id.
THEOREM ChainsEnd == Assumptions => (Spec => []MergeChainsEnd)
<1> SUFFICES ASSUME Assumptions PROVE Spec => []MergeChainsEnd
  OBVIOUS
<1>1. ASSUME TInv PROVE MergeChainsEnd
  <2> SUFFICES ASSUME NEW S \in SUBSET Known, S # {},
                      \A p \in S : profile[p].into # None => profile[p].into \in S
               PROVE  \E p \in S : ~profile[p].deleted
    BY DEF MergeChainsEnd
  <2>1. S \in SUBSET Nat
    BY <1>1 DEF TInv, ProfilesOK, Assumptions, IdsAssumption
  <2>2. PICK m \in S : \A n \in S : m <= n
    BY <2>1, HasLeast
  <2>3. profile[m].into = None
    <3> SUFFICES ASSUME profile[m].into # None PROVE FALSE
      OBVIOUS
    <3>1. profile[m].into \in S /\ profile[m].into < m
      BY <1>1 DEF TInv, ProfilesOK, MergedDown
    <3>2. m <= profile[m].into /\ m \in Nat /\ profile[m].into \in Nat
      BY <2>1, <2>2, <3>1
    <3> QED
      BY <3>1, <3>2
  <2> QED
    BY <1>1, <2>3 DEF TInv, ProfilesOK, MergedDown
<1> QED
  BY <1>1, AlwaysTInv, PTL

\* What is merged stays merged; what a candidate says of it is so.
MergedStay == Known \subseteq Known' /\ \A p \in Known : profile[p].into # None => profile'[p].into # None

LEMMA LinkedStay == ASSUME NEW p, NEW g, NEW h, p \in Known, Linked(p, g, h) PROVE MergedStay
  BY DEF Linked, MergedStay

LEMMA MergedStays ==
    ASSUME UsersAssumption, TInv, NEW s \in Known, NEW t \in Known, MergedInto(s, t)
    PROVE  MergedStay
  BY DEF MergedInto, MergedStay, UsersAssumption, TInv, ProfilesOK

Marked(c, status) == candidate' = [candidate EXCEPT ![c] = status]

LEMMA StepsKeepMerged ==
    ASSUME Assumptions, TInv, [Next]_vars
    PROVE  /\ MergedStay
           /\ \A c \in Pairs : candidate'[c] = "merged" =>
                candidate[c] = "merged" \/ (c[1] \in Known' /\ profile'[c[1]].into # None)
<1> USE DEF Assumptions
<1> DEFINE Goal == /\ MergedStay
                   /\ \A c \in Pairs : candidate'[c] = "merged" =>
                        candidate[c] = "merged" \/ (c[1] \in Known' /\ profile'[c[1]].into # None)
<1>1. ASSUME UNCHANGED profile PROVE MergedStay
  BY <1>1 DEF MergedStay, Known
<1>2. ASSUME MergedStay, UNCHANGED candidate PROVE Goal
  BY <1>2
<1>3. ASSUME UNCHANGED profile, NEW c, NEW status, status # "merged", Marked(c, status)
      PROVE  Goal
  <2>1. candidate \in [Pairs -> Statuses]
    BY DEF TInv, CandidatesOK
  <2> QED
    BY <1>1, <1>3, <2>1 DEF Marked
<1>4. ASSUME NEW c \in Pairs, BothKnown(c), MergeProfiles(c[1], c[2]) PROVE Goal
  <2>1. MergedInto(c[1], c[2]) /\ candidate' = [candidate EXCEPT ![c] = "merged"] /\ c[1] \in Known /\ c[2] \in Known
    BY <1>4, MergeKeepsTables DEF BothKnown
  <2>2. MergedStay
    BY <2>1, MergedStays
  <2>3. candidate \in [Pairs -> Statuses]
    BY DEF TInv, CandidatesOK
  <2>4. c[1] \in Known' /\ profile'[c[1]].into # None
    BY <2>1 DEF MergedInto, UsersAssumption, TInv, ProfilesOK
  <2> QED
    BY <2>1, <2>2, <2>3, <2>4
<1> SUFFICES Goal
  OBVIOUS
<1> HIDE DEF Goal
<1>5. CASE \E h \in HfUsers, g \in GhUsers : ClaimGitHub(h, g)
  BY <1>1, <1>2, <1>5 DEF ClaimGitHub
<1>6. CASE \E mode \in RunModes : StartSync(mode)
  BY <1>1, <1>2, <1>6 DEF StartSync, data
<1>7. ASSUME NEW w \in Workers, SyncStep(w) PROVE Goal
  <2>1. UNCHANGED candidate
    BY <1>7 DEF SyncStep, TakeItem, Search, Link, StoreDev, Look, Store, data
  <2>2. CASE TakeItem(w) \/ Search(w) \/ \E t \in Lookups : Look(w, t) \/ Store(w, t)
    BY <1>1, <1>2, <2>1, <2>2 DEF TakeItem, Search, Look, Store, data
  <2>3. CASE Link(w)
    <3>1. PICK g, h : g = worker[w].item.login /\ h = HfName(worker[w].item.user)
      OBVIOUS
    <3>2. \/ UNCHANGED profile
          \/ worker[w].p # None /\ Linked(worker[w].p, g, h)
          \/ \E p \in Ids \ Known : Created(p, g, h)
      BY <2>3, <3>1, LinkKeepsTypes
    <3>3. worker[w].p # None => worker[w].p \in Known
      BY WorkerFacts DEF Stands
    <3>4. MergedStay
      BY <1>1, <3>2, <3>3, LinkedStay DEF Created, MergedStay
    <3> QED
      BY <1>2, <2>1, <3>4
  <2>4. CASE StoreDev(w)
    <3>1. MergedStay
      BY <2>4, StoreDevKeepsTypes, LinkedStay
    <3> QED
      BY <1>2, <2>1, <3>1
  <2> QED
    BY <1>7, <2>2, <2>3, <2>4 DEF SyncStep, Lookups
<1>8. CASE StartResolve \/ TriageRead
  BY <1>1, <1>2, <1>8 DEF StartResolve, TriageRead, data
<1>9. CASE TriageWrite
  <2>1. resolver.pair.grade # "merged"
    BY <1>9, ResolverFacts DEF TriageWrite, Resolving, Grades
  <2>2. Marked(resolver.pair.pair, resolver.pair.grade) /\ UNCHANGED profile
    BY <1>9 DEF TriageWrite, Marked
  <2> QED
    BY <1>3, <2>1, <2>2
<1>10. CASE AutoMergePair
  <2>1. resolver.pair.pair \in Pairs /\ BothKnown(resolver.pair.pair)
    BY <1>10, ResolverFacts DEF AutoMergePair, Resolving
  <2> DEFINE c == resolver.pair.pair
  <2>2. MergeProfiles(c[1], c[2]) \/ UNCHANGED <<profile, candidate>>
    BY <1>10 DEF AutoMergePair
  <2> HIDE DEF c
  <2> QED
    BY <1>1, <1>2, <1>4, <2>1, <2>2 DEF c
<1>11. CASE Downgrade
  <2>1. Marked(resolver.pair.pair, "pending") /\ UNCHANGED profile
    BY <1>11 DEF Downgrade, Marked
  <2> QED
    BY <1>3, <2>1
<1>12. CASE \E kind \in {"approve", "reject"}, c \in Pairs : ReviewRead(kind, c)
  BY <1>1, <1>2, <1>12 DEF ReviewRead, data
<1>13. CASE ReviewWrite
  <2>1. (Marked(review.pair, "rejected") \/ Marked(review.pair, "approved")) /\ UNCHANGED profile
    BY <1>13 DEF ReviewWrite, Marked
  <2> QED
    BY <1>3, <2>1
<1>14. CASE ReviewMerge
  <2>1. review.pair \in Pairs /\ BothKnown(review.pair)
    BY <1>14, ReviewFacts DEF ReviewMerge
  <2> DEFINE c == review.pair
  <2>2. MergeProfiles(c[1], c[2]) \/ UNCHANGED <<profile, candidate>>
    BY <1>14 DEF ReviewMerge
  <2> HIDE DEF c
  <2> QED
    BY <1>1, <1>2, <1>4, <2>1, <2>2 DEF c
<1>15. CASE UNCHANGED vars
  BY <1>1, <1>2, <1>15 DEF vars
<1>16. Goal
  BY <1>5, <1>6, <1>7, <1>8, <1>9, <1>10, <1>11, <1>12, <1>13, <1>14, <1>15 DEF Next
<1> QED
  BY <1>16 DEF Goal

\* A pair recorded as merged is merged, whoever wrote the row last: its source
\* is deleted and was merged into some profile (bridge/storage.py,
\* merge_profiles; resolver.py and ingest_identity_api.py, the writers of the
\* status).
THEOREM MergedAreGone == Assumptions => (Spec => []MergedCandidatesGone)
<1> SUFFICES ASSUME Assumptions PROVE Spec => []MergedCandidatesGone
  OBVIOUS
<1> DEFINE Gone == \A c \in Pairs : candidate[c] = "merged" => c[1] \in Known /\ profile[c[1]].into # None
<1>1. Init => Gone
  BY DEF Init
<1>2. TInv /\ Gone /\ [Next]_vars => Gone'
  <2> SUFFICES ASSUME TInv, Gone, [Next]_vars, NEW c \in Pairs, candidate'[c] = "merged"
               PROVE  c[1] \in Known' /\ profile'[c[1]].into # None
    OBVIOUS
  <2>1. candidate[c] = "merged" \/ (c[1] \in Known' /\ profile'[c[1]].into # None)
    BY StepsKeepMerged
  <2>2. MergedStay
    BY StepsKeepMerged
  <2> QED
    BY <2>1, <2>2 DEF MergedStay
<1>3. TInv /\ Gone => MergedCandidatesGone
  BY DEF TInv, ProfilesOK, MergedDown, MergedCandidatesGone
<1> HIDE DEF Gone
<1> QED
  BY <1>1, <1>2, <1>3, AlwaysTInv, PTL DEF Spec

-----------------------------------------------------------------------------
(* What no step may do.                                                    *)

LEMMA StepsKeepRejections == ASSUME Assumptions, TInv, [Next]_vars PROVE
    \A c \in Pairs : (candidate[c] = "rejected" /\ candidate'[c] # "rejected") =>
        \/ resolver.pc \in Resolving /\ resolver.pair.pair = c /\ resolver.seen # "rejected"
        \/ review.pc # "idle" /\ review.pair = c /\ review.seen # "rejected"
<1> SUFFICES ASSUME NEW c \in Pairs, candidate[c] = "rejected", candidate'[c] # "rejected"
             PROVE  \/ resolver.pc \in Resolving /\ resolver.pair.pair = c /\ resolver.seen # "rejected"
                    \/ review.pc # "idle" /\ review.pair = c /\ review.seen # "rejected"
  OBVIOUS
<1>1. candidate \in [Pairs -> Statuses]
  BY DEF TInv, CandidatesOK
<1>2. ASSUME NEW d, NEW status, Marked(d, status) PROVE c = d /\ status # "rejected"
  BY <1>1, <1>2 DEF Marked
<1>3. ASSUME NEW d \in Pairs, BothKnown(d), MergeProfiles(d[1], d[2]) PROVE Marked(d, "merged")
  BY <1>3, MergeKeepsTables DEF Marked
<1>4. CASE TriageWrite \/ AutoMergePair \/ Downgrade
  <2> DEFINE d == resolver.pair.pair
  <2>1. resolver.pc \in Resolving /\ d \in Pairs /\ BothKnown(d) /\ resolver.seen # "rejected"
    BY <1>4, ResolverFacts DEF TriageWrite, AutoMergePair, Downgrade, Resolving
  <2>2. \/ Marked(d, resolver.pair.grade) \/ Marked(d, "pending") \/ MergeProfiles(d[1], d[2])
        \/ UNCHANGED candidate
    BY <1>4 DEF TriageWrite, AutoMergePair, Downgrade, Marked
  <2> HIDE DEF d
  <2>3. c = d
    BY <1>2, <1>3, <2>1, <2>2
  <2> QED
    BY <2>1, <2>3 DEF d
<1>5. CASE ReviewWrite \/ ReviewMerge
  <2> DEFINE d == review.pair
  <2>1. review.pc # "idle" /\ d \in Pairs /\ BothKnown(d) /\ (review.kind = "approve" => review.seen # "rejected")
        /\ (review.pc = "merge" => review.kind = "approve")
    BY <1>5, ReviewFacts DEF ReviewWrite, ReviewMerge
  <2>2. \/ Marked(d, "rejected") \/ (Marked(d, "approved") /\ review.kind = "approve")
        \/ (MergeProfiles(d[1], d[2]) /\ review.pc = "merge") \/ UNCHANGED candidate
    BY <1>5 DEF ReviewWrite, ReviewMerge, Marked
  <2> HIDE DEF d
  <2>3. c = d /\ review.kind = "approve"
    BY <1>2, <1>3, <2>1, <2>2
  <2> QED
    BY <2>1, <2>3 DEF d
<1>6. candidate' # candidate
  OBVIOUS
<1>7. TriageWrite \/ AutoMergePair \/ Downgrade \/ ReviewWrite \/ ReviewMerge
  BY <1>6 DEF Next, vars, data, SyncStep, ClaimGitHub, StartSync, TakeItem, Search, Link, StoreDev, Look, Store,
       StartResolve, TriageRead, ReviewRead
<1> QED
  BY <1>4, <1>5, <1>7

\* A rejected pair stays rejected unless somebody acts who read it before the
\* rejection: no later resolver run and no later request reopens it
\* (bridge/resolver.py, the triage; ingest_identity_api.py, approve and reject).
THEOREM RejectionsStand == Assumptions => (Spec => RejectionStands)
<1> SUFFICES ASSUME Assumptions PROVE Spec => RejectionStands
  OBVIOUS
<1> DEFINE Stays == \A c \in Pairs : (candidate[c] = "rejected" /\ candidate'[c] # "rejected") =>
                        \/ resolver.pc \in {"write", "merge", "downgrade"} /\ resolver.pair.pair = c
                           /\ resolver.seen # "rejected"
                        \/ review.pc # "idle" /\ review.pair = c /\ review.seen # "rejected"
<1>1. TInv /\ [Next]_vars => [Stays]_vars
  BY StepsKeepRejections DEF Resolving
<1>2. RejectionStands <=> [][Stays]_vars
  BY DEF RejectionStands
<1> HIDE DEF Stays
<1> QED
  BY <1>1, <1>2, AlwaysTInv, PTL DEF Spec

LEMMA ContentTyped ==
    ASSUME UsersAssumption, NEW t, NEW i \in Item
    PROVE  Content(t, i) \in SUBSET Users /\ Content(t, i) # None /\ DevData(i) \in SUBSET Users /\ DevData(i) # None
<1>1. i.user \in Users
  BY DEF Item
<1>2. Content(t, i) \in SUBSET Users /\ DevData(i) \in SUBSET Users
  BY <1>1 DEF Content, DevData, Users
<1> QED
  BY <1>2 DEF UsersAssumption

LEMMA StepsKeepSearchable == ASSUME Assumptions, TInv, [Next]_vars PROVE
    \A p \in Live : rows["coh"][p] # None => rows'["coh"][p] # None \/ profile'[p].deleted
<1> USE DEF Assumptions
<1> SUFFICES ASSUME NEW p \in Live, rows["coh"][p] # None, ~(rows'["coh"][p] # None)
             PROVE  profile'[p].deleted
  OBVIOUS
<1>1. p \in Ids /\ "coh" \in Tables /\ "coh" \in Lookups
  BY DEF Live, TInv, ProfilesOK, Tables, Lookups
<1>2. ASSUME NEW t, NEW q, NEW users, Wrote(t, q, users), users # None PROVE FALSE
  BY <1>1, <1>2 DEF Wrote
<1>3. ASSUME NEW d \in Pairs, BothKnown(d), MergeProfiles(d[1], d[2]) PROVE profile'[p].deleted
  <2>1. Moved(d[1], d[2]) /\ MergedInto(d[1], d[2])
    BY <1>3, MergeKeepsTables
  <2>2. p # d[2]
    BY <1>1, <2>1 DEF Moved, Or
  <2>3. p = d[1]
    BY <1>1, <2>1, <2>2 DEF Moved
  <2> QED
    BY <2>1, <2>3 DEF MergedInto
<1>4. rows' # rows
  OBVIOUS
<1>5. (\E w \in Workers : Link(w) \/ StoreDev(w) \/ \E t \in Lookups : Store(w, t)) \/ AutoMergePair \/ ReviewMerge
  BY <1>4 DEF Next, vars, data, SyncStep, ClaimGitHub, StartSync, TakeItem, Search, Look, Lookups,
       StartResolve, TriageRead, TriageWrite, Downgrade, ReviewRead, ReviewWrite
<1>6. ASSUME NEW w \in Workers, Link(w) PROVE FALSE
  <2>1. PICK g, h : g = worker[w].item.login /\ h = HfName(worker[w].item.user)
    OBVIOUS
  <2>2. PICK q : Wrote("dev", q, {})
    BY <1>4, <1>6, <2>1, LinkKeepsTypes
  <2> QED
    BY <1>2, <2>2 DEF UsersAssumption
<1>7. ASSUME NEW w \in Workers, StoreDev(w) PROVE FALSE
  BY <1>2, <1>7, StoreDevKeepsTypes, ContentTyped
<1>8. ASSUME NEW w \in Workers, NEW t \in Lookups, Store(w, t) PROVE FALSE
  <2>1. Wrote(t, worker[w].p, Content(t, worker[w].item)) /\ worker[w].item \in Item
    BY <1>4, <1>8, StoreKeepsTypes
  <2> QED
    BY <1>2, <2>1, ContentTyped
<1>9. CASE AutoMergePair
  <2> DEFINE d == resolver.pair.pair
  <2>1. d \in Pairs /\ BothKnown(d)
    BY <1>9, ResolverFacts DEF AutoMergePair, Resolving
  <2>2. MergeProfiles(d[1], d[2])
    BY <1>4, <1>9 DEF AutoMergePair
  <2> HIDE DEF d
  <2> QED
    BY <1>3, <2>1, <2>2
<1>10. CASE ReviewMerge
  <2> DEFINE d == review.pair
  <2>1. d \in Pairs /\ BothKnown(d)
    BY <1>10, ReviewFacts DEF ReviewMerge
  <2>2. MergeProfiles(d[1], d[2])
    BY <1>4, <1>10 DEF ReviewMerge
  <2> HIDE DEF d
  <2> QED
    BY <1>3, <2>1, <2>2
<1> QED
  BY <1>5, <1>6, <1>7, <1>8, <1>9, <1>10

\* A live profile that search can find is not lost to it: no step takes its
\* cohesive row but the one that merges the profile away (bridge/storage.py,
\* merge_profiles and the upserts).
THEOREM SearchableStays == Assumptions => (Spec => LiveStaysSearchable)
<1> SUFFICES ASSUME Assumptions PROVE Spec => LiveStaysSearchable
  OBVIOUS
<1> DEFINE Stays == \A p \in Live : rows["coh"][p] # None => rows'["coh"][p] # None \/ profile'[p].deleted
<1>1. TInv /\ [Next]_vars => [Stays]_vars
  BY StepsKeepSearchable
<1>2. LiveStaysSearchable <=> [][Stays]_vars
  BY DEF LiveStaysSearchable
<1> HIDE DEF Stays
<1> QED
  BY <1>1, <1>2, AlwaysTInv, PTL DEF Spec

-----------------------------------------------------------------------------
(* The invariant of the data is inductive.                                 *)

LEMMA DInvInit == ASSUME Assumptions, Init PROVE DInv
<1>1. TInv
  BY TInvInit
<1>2. Known = {} /\ Live = {}
  BY DEF Init, Known, Live
<1>3. Items
  BY IdleStands DEF Init, Items, ItemsAgree, SocialWorkers
<1>4. Layers
  <2>1. SocialRows
    BY DEF Init, SocialRows, Tables
  <2> QED
    BY <1>2, <2>1, IdleStands DEF Init, Layers, AggUnderCoh, WorkersBuild
<1>5. OneEach
  BY <1>2, IdleStands DEF Init, OneEach, Named, WorkersLed, Led, OwnRows
<1> QED
  BY <1>1, <1>3, <1>4, <1>5 DEF DInv

\* Parts that a worker's step leaves to the other workers.
LinksKept == /\ Known \subseteq Known' /\ UNCHANGED claim
             /\ \A q \in Known : /\ profile[q].gh # None => profile'[q].gh = profile[q].gh
                                 /\ profile[q].hf # None => profile'[q].hf = profile[q].hf
LiveKept == \A q \in Live' : q \in Known => q \in Live
RowsUp == \A k \in Tables, q \in Ids : rows[k][q] # None => rows'[k][q] # None

LEMMA ItemsStep ==
    ASSUME Items, UNCHANGED <<claim, queue>>, NEW w \in Workers, NEW s, Went(w, s),
           s.pc # "idle" => worker[w].pc # "idle" /\ s.item = worker[w].item,
           s.pc \in {"social", "social_store"} => s.item.user \in LnUsers
    PROVE  Items'
<1>1. \A i : ItemAgrees(i)' <=> ItemAgrees(i)
  BY DEF ItemAgrees
<1>2. GoodItems' = GoodItems
  BY <1>1 DEF GoodItems
<1>3. ASSUME NEW v \in Workers
      PROVE  /\ worker'[v].pc # "idle" => ItemAgrees(worker'[v].item)
             /\ worker'[v].pc \in {"social", "social_store"} => worker'[v].item.user \in LnUsers
  <2>1. CASE v = w
    <3>1. worker'[v] = s
      BY <2>1 DEF Went
    <3> QED
      BY <3>1 DEF Items, ItemsAgree
  <2>2. CASE v # w
    <3>1. worker'[v] = worker[v]
      BY <2>2 DEF Went
    <3> QED
      BY <3>1 DEF Items, ItemsAgree, SocialWorkers
  <2> QED
    BY <2>1, <2>2
<1>4. \A v \in Workers : worker'[v].pc # "idle" => ItemAgrees(worker[v].item)'
  BY <1>3 DEF ItemAgrees
<1> QED
  BY <1>2, <1>3, <1>4 DEF Items, ItemsAgree, SocialWorkers

LEMMA LedStep ==
    ASSUME UsersAssumption, TInv, WorkersLed, LinksKept, NEW w \in Workers, NEW s, Went(w, s), Led(s)'
    PROVE  WorkersLed'
<1> SUFFICES ASSUME NEW v \in Workers PROVE Led(worker[v])'
  BY DEF WorkersLed
<1>1. CASE v = w
  <2>1. worker'[v] = s
    BY <1>1 DEF Went
  <2> QED
    BY <2>1 DEF Led, Reaches, Carries
<1>2. CASE v # w
  <2>1. worker'[v] = worker[v] /\ Led(worker[v]) /\ Stands(worker[v], Known)
    BY <1>2, WorkerFacts DEF Went, WorkersLed
  <2>2. ASSUME NEW i, NEW p \in Known, Reaches(i, p) PROVE Reaches(i, p)'
    BY <2>2 DEF Reaches, LinksKept
  <2>3. ASSUME NEW i, NEW p \in Known, Carries(i, p) PROVE Carries(i, p)'
    BY <2>3 DEF Carries, LinksKept
  <2> DEFINE o == worker[v]
  <2>4. o.p # None => o.p \in Known
    BY <2>1 DEF Stands
  <2>5. o.pc = "link" /\ o.p # None => Reaches(o.item, o.p)
    BY <2>1 DEF Led
  <2>6. o.pc \notin {"idle", "search", "link"} => o.p # None /\ Carries(o.item, o.p)
    BY <2>1 DEF Led, Stands
  <2>7. PICK r : r = o
    OBVIOUS
  <2>8. Led(r)'
    BY <2>2, <2>3, <2>4, <2>5, <2>6, <2>7 DEF Led
  <2> QED
    BY <2>1, <2>7, <2>8 DEF Led, Reaches, Carries
<1> QED
  BY <1>1, <1>2

LEMMA BuildsStep ==
    ASSUME UsersAssumption, TInv, Grown, WorkersBuild, LiveKept, RowsUp, NEW w \in Workers, NEW s, Went(w, s),
           s.p \in Live' => Builds(s)'
    PROVE  WorkersBuild'
<1> SUFFICES ASSUME NEW v \in Workers, worker'[v].p \in Live' PROVE Builds(worker[v])'
  BY DEF WorkersBuild
<1>1. CASE v = w
  <2>1. worker'[v] = s
    BY <1>1 DEF Went
  <2> QED
    BY <2>1 DEF Builds
<1>2. CASE v # w
  <2>1. worker'[v] = worker[v] /\ Stands(worker[v], Known)
    BY <1>2, WorkerFacts DEF Went
  <2>2. worker[v].p # None /\ worker[v].p \in Ids
    BY <2>1 DEF Live, Grown, ProfilesOK, UsersAssumption
  <2>3. worker[v].p \in Live
    BY <2>1, <2>2 DEF Stands, LiveKept
  <2>4. Builds(worker[v])
    BY <2>3 DEF WorkersBuild
  <2>5. \A k \in Lookups : k \in Tables
    BY DEF Lookups, Tables
  <2> QED
    BY <2>1, <2>2, <2>4, <2>5 DEF Builds, RowsUp, Tables
<1> QED
  BY <1>1, <1>2

\* What an item contributes belongs to the profile that carries its names.
LEMMA ContributesOwn ==
    ASSUME UsersAssumption, NEW i \in GoodItems, NEW p, Carries(i, p)
    PROVE  /\ DevData(i) \subseteq {profile[p].gh, profile[p].hf}
           /\ \A t \in {"agg", "coh"} : Content(t, i) \ LnUsers \subseteq {profile[p].gh, profile[p].hf}
<1>1. ASSUME NEW u \in DevData(i) PROVE u \in {profile[p].gh, profile[p].hf}
  <2>1. u \in {i.user, i.login} /\ u \in GhUsers \cup HfUsers /\ u # None
    BY <1>1 DEF DevData, UsersAssumption, Users
  <2>2. CASE u = i.login
    BY <2>1, <2>2 DEF Carries
  <2>3. CASE u = i.user /\ u \in GhUsers
    BY <2>1, <2>3 DEF GoodItems, ItemAgrees, Carries
  <2>4. CASE u = i.user /\ u \in HfUsers
    BY <2>1, <2>4 DEF HfName, Carries
  <2> QED
    BY <2>1, <2>2, <2>3, <2>4
<1>2. \A t \in {"agg", "coh"} : Content(t, i) \ LnUsers \subseteq DevData(i)
  BY DEF Content
<1> QED
  BY <1>1, <1>2

\* A step that changes nothing the invariant of the data is about.
LEMMA DataKept ==
    ASSUME DInv, TInv', UNCHANGED <<claim, profile, rows, queue, worker>>
    PROVE  DInv'
<1>1. Known' = Known /\ Live' = Live
  BY DEF Known, Live
<1>2. GoodItems' = GoodItems
  BY DEF GoodItems, ItemAgrees
<1>3. Items'
  BY <1>2 DEF DInv, Items, ItemsAgree, ItemAgrees, SocialWorkers
<1>4. Layers'
  BY <1>1 DEF DInv, Layers, AggUnderCoh, WorkersBuild, Builds, SocialRows
<1>5. OneClaimEach' => OneEach'
  BY <1>1 DEF DInv, OneClaimEach, OneEach, Named, WorkersLed, Led, Reaches, Carries, OwnRows
<1> QED
  BY <1>3, <1>4, <1>5 DEF DInv

\* Rows that a worker leaves as they are stay the profile's own, also when the
\* profile gets another link.
LEMMA OwnRowsKept ==
    ASSUME UsersAssumption, TInv, OwnRows, LinksKept, LiveKept, NEW t \in {"dev", "agg", "coh"}, NEW p \in Live',
           p \in Known, UNCHANGED rows[t][p], rows[t][p] # None
    PROVE  rows'[t][p] \ LnUsers \subseteq {profile'[p].gh, profile'[p].hf}
<1>1. p \in Live /\ p \in Ids /\ t \in Tables
  BY DEF LiveKept, TInv, ProfilesOK, Tables
<1>2. rows[t][p] \in SUBSET Users
  BY <1>1 DEF TInv, RowsOK, RowTypes
<1>3. rows[t][p] \ LnUsers \subseteq {profile[p].gh, profile[p].hf}
  BY <1>1 DEF OwnRows
<1>4. ASSUME NEW u \in rows[t][p] \ LnUsers PROVE u \in {profile'[p].gh, profile'[p].hf}
  <2>1. u # None
    BY <1>2, <1>4 DEF UsersAssumption
  <2> QED
    BY <1>3, <1>4, <2>1 DEF LinksKept
<1> QED
  BY <1>4

LEMMA LiveOfLinked ==
    ASSUME NEW p \in Known, NEW g, NEW h, Linked(p, g, h)
    PROVE  LiveKept /\ Live' = Live
<1>1. Known' = Known /\ \A q \in Known : profile'[q].deleted = profile[q].deleted
  BY DEF Linked
<1> QED
  BY <1>1 DEF Live, LiveKept

\* Claims.  A user who makes one had none, so no item and no profile relied on it.
LEMMA ClaimKeepsData ==
    ASSUME UsersAssumption, DInv, TInv', NEW h \in HfUsers, NEW g \in GhUsers, ClaimGitHub(h, g)
    PROVE  DInv'
<1>1. UNCHANGED <<profile, rows, queue, worker>> /\ claim[h] = None /\ claim' = [claim EXCEPT ![h] = g]
  BY DEF ClaimGitHub
<1>2. Known' = Known /\ Live' = Live
  BY <1>1 DEF Known, Live
<1>3. claim \in [HfUsers -> Names(GhUsers)]
  BY DEF DInv, TInv, OthersOK
<1>4. \A k \in HfUsers : claim[k] # None => claim'[k] = claim[k]
  BY <1>1, <1>3
<1>5. \A i : ItemAgrees(i) => ItemAgrees(i)'
  BY <1>4 DEF ItemAgrees
<1>6. GoodItems \subseteq GoodItems'
  BY <1>5 DEF GoodItems
<1>7. Items'
  <2>1. queue' \in Seq(GoodItems')
    BY <1>1, <1>6 DEF DInv, Items, ItemsAgree
  <2>2. \A w \in Workers : worker[w].pc # "idle" => ItemAgrees(worker[w].item)
    BY DEF DInv, Items, ItemsAgree
  <2>3. \A w \in Workers : worker'[w].pc # "idle" => (ItemAgrees(worker[w].item))'
    BY <1>1, <1>4, <2>2 DEF ItemAgrees
  <2> QED
    BY <1>1, <2>1, <2>3 DEF DInv, Items, ItemsAgree, SocialWorkers
<1>8. Layers'
  BY <1>1, <1>2 DEF DInv, Layers, AggUnderCoh, WorkersBuild, Builds, SocialRows
<1>9. ASSUME OneClaimEach' PROVE OneEach'
  <2>1. OneClaimEach
    BY <1>4, <1>9 DEF OneClaimEach
  <2>2. OneEach
    BY <2>1 DEF DInv
  <2>3. Named'
    <3>1. \A p \in Known : profile[p].hf \in Names(HfUsers) /\ profile[p].gh \in Names(GhUsers)
      BY DEF DInv, TInv, ProfilesOK, ProfileRecord
    <3> QED
      BY <1>1, <1>2, <1>4, <2>2, <3>1 DEF OneEach, Named, Names
  <2>4. WorkersLed' /\ OwnRows'
    BY <1>1, <1>2, <2>2 DEF OneEach, WorkersLed, Led, Reaches, Carries, OwnRows
  <2> QED
    BY <2>3, <2>4 DEF OneEach
<1> QED
  BY <1>7, <1>8, <1>9 DEF DInv

LEMMA StartSyncKeepsData ==
    ASSUME UsersAssumption, DInv, TInv', NEW mode, StartSync(mode)
    PROVE  DInv'
<1>1. UNCHANGED <<claim, profile, rows, worker>> /\ queue' \in Seq(GoodItems)
  BY StartSyncKeepsTypes DEF StartSync, data, DInv
<1>2. Known' = Known /\ Live' = Live
  BY <1>1 DEF Known, Live
<1>3. GoodItems' = GoodItems
  BY <1>1 DEF GoodItems, ItemAgrees
<1>4. Items'
  BY <1>1, <1>3 DEF DInv, Items, ItemsAgree, ItemAgrees, SocialWorkers
<1>5. Layers'
  BY <1>1, <1>2 DEF DInv, Layers, AggUnderCoh, WorkersBuild, Builds, SocialRows
<1>6. OneClaimEach' => OneEach'
  BY <1>1, <1>2 DEF DInv, OneClaimEach, OneEach, Named, WorkersLed, Led, Reaches, Carries, OwnRows
<1> QED
  BY <1>4, <1>5, <1>6 DEF DInv

\* A worker goes on beside tables that stay as they are.
LEMMA WorkerKeepsData ==
    ASSUME UsersAssumption, DInv, TInv', UNCHANGED <<claim, profile, rows>>, NEW w \in Workers, NEW s, Went(w, s),
           Items', s.p \in Live => Builds(s), OneClaimEach => Led(s)
    PROVE  DInv'
<1>1. Known' = Known /\ Live' = Live /\ LiveKept /\ LinksKept /\ RowsUp
  BY DEF Known, Live, LiveKept, LinksKept, RowsUp
<1>2. Grown
  BY ProfilesKept DEF DInv
<1>3. (s.p \in Live)' => Builds(s)'
  BY <1>1 DEF Builds
<1>4. WorkersBuild'
  BY <1>1, <1>2, <1>3, BuildsStep DEF DInv, Layers
<1>5. Layers'
  BY <1>1, <1>4 DEF DInv, Layers, AggUnderCoh, SocialRows
<1>6. ASSUME OneClaimEach' PROVE OneEach'
  <2>1. OneClaimEach
    BY <1>6 DEF OneClaimEach
  <2>2. OneEach /\ Led(s)
    BY <2>1 DEF DInv
  <2>3. Led(s)'
    BY <2>2 DEF Led, Reaches, Carries
  <2>4. WorkersLed'
    BY <1>1, <2>2, <2>3, LedStep DEF DInv, OneEach
  <2>5. Named' /\ OwnRows'
    BY <1>1, <2>2 DEF OneEach, Named, OwnRows
  <2> QED
    BY <2>4, <2>5 DEF OneEach
<1> QED
  BY <1>5, <1>6 DEF DInv

LEMMA IdleKeepsData ==
    ASSUME UsersAssumption, DInv, TInv', UNCHANGED <<claim, profile, rows, queue>>, NEW w \in Workers, Went(w, Idle)
    PROVE  DInv'
<1>1. Idle.pc = "idle" /\ Idle.p = None /\ Idle.has = FALSE
  BY IdleStands
<1>2. Items'
  BY <1>1, ItemsStep DEF DInv
<1>3. Builds(Idle) /\ Led(Idle)
  BY <1>1 DEF Builds, Led
<1> HIDE DEF Idle
<1> QED
  BY <1>2, <1>3, WorkerKeepsData

LEMMA TakeItemKeepsData ==
    ASSUME UsersAssumption, DInv, NEW w \in Workers, TakeItem(w)
    PROVE  DInv'
<1> DEFINE s == TakenItem(w)
<1>1. TInv' /\ Went(w, s)
  BY TakeItemKeepsTypes DEF DInv
<1>2. UNCHANGED <<claim, profile, rows>> /\ queue # <<>> /\ queue' = Tail(queue)
  BY DEF TakeItem, data
<1>3. s.pc = "search" /\ s.item = Head(queue) /\ s.p = None /\ s.has = FALSE
  BY <1>2, TakenRecord DEF DInv
<1> HIDE DEF s
<1>4. Head(queue) \in GoodItems /\ Tail(queue) \in Seq(GoodItems)
  BY <1>2 DEF DInv, Items, ItemsAgree
<1>5. GoodItems' = GoodItems
  BY <1>2 DEF GoodItems, ItemAgrees
<1>6. Items'
  <2>1. ASSUME NEW v \in Workers
        PROVE  /\ worker'[v].pc # "idle" => ItemAgrees(worker'[v].item)
               /\ worker'[v].pc \in {"social", "social_store"} => worker'[v].item.user \in LnUsers
    <3>1. CASE v = w
      <4>1. worker'[v] = s
        BY <1>1, <3>1 DEF Went
      <4> QED
        BY <1>3, <1>4, <4>1 DEF GoodItems
    <3>2. CASE v # w
      <4>1. worker'[v] = worker[v]
        BY <1>1, <3>2 DEF Went
      <4> QED
        BY <4>1 DEF DInv, Items, ItemsAgree, SocialWorkers
    <3> QED
      BY <3>1, <3>2
  <2>2. \A v \in Workers : worker'[v].pc # "idle" => ItemAgrees(worker[v].item)'
    BY <1>2, <2>1 DEF ItemAgrees
  <2> QED
    BY <1>2, <1>4, <1>5, <2>1, <2>2 DEF Items, ItemsAgree, SocialWorkers
<1>7. Builds(s) /\ Led(s)
  BY <1>3 DEF Builds, Led, Looking, Lookups
<1> QED
  BY <1>1, <1>2, <1>6, <1>7, WorkerKeepsData

LEMMA SearchKeepsData ==
    ASSUME UsersAssumption, DInv, NEW w \in Workers, Search(w)
    PROVE  DInv'
<1>1. TInv' /\ UNCHANGED <<data, queue>> /\ worker[w].pc = "search"
  BY SearchKeepsTypes DEF DInv
<1>2. PICK p \in Found(worker[w].item.login, HfName(worker[w].item.user)) \cup {None}, s \in WorkerRecord :
          Went(w, s) /\ s.pc = "link" /\ s.item = worker[w].item /\ s.p = p
  BY SearchKeepsTypes DEF DInv
<1>3. Items'
  BY <1>1, <1>2, ItemsStep DEF DInv, data
<1>4. Builds(s)
  BY <1>2 DEF Builds, Looking, Lookups
<1>5. Led(s)
  BY <1>2, FoundAreLive DEF Led, Reaches
<1> QED
  BY <1>1, <1>2, <1>3, <1>4, <1>5, WorkerKeepsData DEF data

LEMMA LookKeepsData ==
    ASSUME UsersAssumption, DInv, NEW w \in Workers, NEW t \in Lookups, Look(w, t)
    PROVE  DInv'
<1>1. TInv' /\ UNCHANGED <<data, queue>> /\ worker[w].pc = t
  BY LookKeepsTypes DEF DInv
<1>2. PICK s \in WorkerRecord :
          /\ Went(w, s) /\ s.item = worker[w].item /\ s.p = worker[w].p
          /\ s.pc = Looking[t] /\ s.has = (rows[t][worker[w].p] # None)
  BY LookKeepsTypes DEF DInv
<1>3. s.pc \in Stores /\ (s.pc = "social_store" => t = "social") /\ (s.pc = "coh_store" => t = "coh")
      /\ \A k \in Lookups : Looking[k] = s.pc => k = t
  BY <1>2 DEF Looking, Lookups, Stores
<1>4. Items'
  <2>1. s.pc \in {"social", "social_store"} => s.item.user \in LnUsers
    BY <1>1, <1>2, <1>3 DEF DInv, Items, SocialWorkers, Stores
  <2>2. worker[w].pc # "idle"
    BY <1>1 DEF Lookups
  <2> QED
    BY <1>1, <1>2, <2>1, <2>2, ItemsStep DEF DInv, data
<1>5. s.p \in Live => Builds(s)
  <2> SUFFICES ASSUME s.p \in Live PROVE Builds(s)
    OBVIOUS
  <2>1. Builds(worker[w])
    BY <1>2 DEF DInv, Layers, WorkersBuild
  <2> QED
    BY <1>1, <1>2, <1>3, <2>1 DEF Builds, Stores
<1>6. OneClaimEach => Led(s)
  <2>1. OneClaimEach => Led(worker[w])
    BY DEF DInv, OneEach, WorkersLed
  <2> QED
    BY <1>1, <1>2, <1>3, <2>1 DEF Led, Stores, Lookups
<1> QED
  BY <1>1, <1>2, <1>4, <1>5, <1>6, WorkerKeepsData DEF data

LEMMA WorkersItemIsGood ==
    ASSUME DInv, NEW w \in Workers, worker[w].pc # "idle"
    PROVE  worker[w].item \in GoodItems
  BY WorkerFacts DEF DInv, Items, ItemsAgree, GoodItems, Stands

\* The names of an item: those of its user's claim.
LEMMA NamesOfItem ==
    ASSUME UsersAssumption, TInv, NEW i \in GoodItems, NEW g, g = i.login, NEW h, h = HfName(i.user)
    PROVE  /\ h # None => h \in HfUsers /\ h = i.user
           /\ g # None /\ h # None => claim[h] = g
           /\ g \in Names(GhUsers) /\ h \in Names(HfUsers)
<1>1. i \in Item /\ ItemAgrees(i)
  BY DEF GoodItems
<1> QED
  BY <1>1 DEF HfName, ItemAgrees, Item, Names

\* Linking a profile that an item's name led to changes no link it had.
LEMMA LinkAgrees ==
    ASSUME UsersAssumption, TInv, OneClaimEach, Named, UNCHANGED claim,
           NEW i \in GoodItems, NEW p \in Known, Reaches(i, p),
           Linked(p, i.login, HfName(i.user))
    PROVE  LinksKept /\ Named' /\ Carries(i, p)'
<1> PICK g, h : g = i.login /\ h = HfName(i.user)
  OBVIOUS
<1>1. /\ h # None => h \in HfUsers
      /\ g # None /\ h # None => claim[h] = g
  BY NamesOfItem
<1> PICK a, b : a = profile[p].gh /\ b = profile[p].hf
  OBVIOUS
<1>2. a \in Names(GhUsers) /\ b \in Names(HfUsers)
  BY DEF TInv, ProfilesOK, ProfileRecord
<1>3. a # None /\ b # None => claim[b] = a
  BY DEF Named
<1>4. (g # None /\ a = g) \/ (h # None /\ b = h)
  BY DEF Reaches
<1>5. b # None => b \in HfUsers
  BY <1>2 DEF Names
<1>6. g # None /\ a # None => a = g
  BY <1>1, <1>3, <1>4
<1>7. h # None /\ b # None => b = h
  BY <1>1, <1>3, <1>4, <1>5 DEF OneClaimEach
<1>8. profile'[p].gh = Or(g, a) /\ profile'[p].hf = Or(h, b)
  BY DEF Linked
<1>9. /\ a # None => profile'[p].gh = a
      /\ b # None => profile'[p].hf = b
  BY <1>6, <1>7, <1>8 DEF Or
<1>10. Known' = Known /\ \A q \in Known \ {p} : profile'[q] = profile[q]
  BY DEF Linked
<1>11. LinksKept
  BY <1>9, <1>10 DEF LinksKept
<1>12. Or(g, a) # None /\ Or(h, b) # None => claim[Or(h, b)] = Or(g, a)
  BY <1>1, <1>3, <1>4, <1>6, <1>7 DEF Or
<1>13. Named'
  <2> SUFFICES ASSUME NEW q \in Known, profile'[q].gh # None, profile'[q].hf # None
               PROVE  claim[profile'[q].hf] = profile'[q].gh
    BY <1>10 DEF Named
  <2>1. CASE q = p
    BY <1>8, <1>12, <2>1
  <2>2. CASE q # p
    BY <1>10, <2>2 DEF Named
  <2> QED
    BY <2>1, <2>2
<1>14. Carries(i, p)'
  BY <1>8 DEF Carries, Or
<1> QED
  BY <1>11, <1>13, <1>14

LEMMA LinkKeepsData ==
    ASSUME UsersAssumption, DInv, NEW w \in Workers, Link(w)
    PROVE  DInv'
<1> DEFINE o == worker[w]
<1> TInv
  BY DEF DInv
<1> o.pc = "link"
  BY DEF Link
<1> PICK i \in GoodItems : i = o.item
  BY WorkersItemIsGood
<1> DEFINE g == i.login
           h == HfName(i.user)
<1>1. TInv' /\ UNCHANGED <<claim, queue>> /\ o.pc = "link" /\ g \in Names(GhUsers) /\ h \in Names(HfUsers)
  BY LinkKeepsTypes
<1>2. Stands(o, Known)
  BY WorkerFacts
<1>3. \/ UNCHANGED <<profile, rows>> /\ Went(w, Idle)
      \/ \E s \in WorkerRecord :
           /\ Went(w, s) /\ s.pc = "dev" /\ s.item = i
           /\ \/ o.p # None /\ s.p = o.p /\ Linked(s.p, g, h) /\ UNCHANGED rows
              \/ o.p = None /\ s.p \in Ids \ Known /\ Created(s.p, g, h) /\ Wrote("dev", s.p, {})
  BY LinkKeepsTypes
<1>4. ASSUME NEW s \in WorkerRecord, Went(w, s), s.pc = "dev", s.item = i
      PROVE  Items' /\ Builds(s)'
  <2>1. Items'
    BY <1>1, <1>4, ItemsStep DEF DInv
  <2>2. Builds(s)'
    BY <1>4 DEF Builds, Looking, Lookups
  <2> QED
    BY <2>1, <2>2
<1>5. ASSUME NEW s \in WorkerRecord, Went(w, s), s.pc = "dev", s.item = i,
             o.p # None, s.p = o.p, Linked(s.p, g, h), UNCHANGED rows
      PROVE  DInv'
  <2> DEFINE p == s.p
  <2>1. p \in Known /\ Items' /\ Builds(s)'
    BY <1>2, <1>4, <1>5 DEF Stands
  <2> HIDE DEF g, h
  <2>2. LiveKept /\ Live' = Live /\ Known' = Known
    BY <1>5, <2>1, LiveOfLinked DEF Linked
  <2>3. RowsUp /\ Grown
    BY <1>5, <2>1, LinkedGrown DEF RowsUp
  <2>4. WorkersBuild'
    BY <1>5, <2>1, <2>2, <2>3, BuildsStep DEF DInv, Layers
  <2>5. Layers'
    BY <1>5, <2>2, <2>4 DEF DInv, Layers, AggUnderCoh, SocialRows
  <2>6. ASSUME OneClaimEach' PROVE OneEach'
    <3>1. OneClaimEach
      BY <1>1, <2>6 DEF OneClaimEach
    <3>2. OneEach
      BY <3>1 DEF DInv
    <3>3. Reaches(i, p)
      BY <1>1, <1>5, <3>2 DEF OneEach, WorkersLed, Led
    <3>4. Named /\ UNCHANGED claim /\ Linked(p, i.login, HfName(i.user))
      BY <1>1, <1>5, <3>2 DEF OneEach, g, h
    <3>5. LinksKept /\ Named' /\ Carries(i, p)'
      BY <2>1, <3>1, <3>3, <3>4, LinkAgrees
    <3>6. Led(s)'
      BY <1>5, <3>5 DEF Led
    <3>7. WorkersLed'
      BY <1>5, <3>2, <3>5, <3>6, LedStep DEF OneEach
    <3>8. OwnRows'
      <4> SUFFICES ASSUME NEW t \in {"dev", "agg", "coh"}, NEW q \in Live', rows'[t][q] # None
                   PROVE  rows'[t][q] \ LnUsers \subseteq {profile'[q].gh, profile'[q].hf}
        BY DEF OwnRows
      <4>1. q \in Known /\ UNCHANGED rows[t][q]
        BY <1>5, <2>2 DEF Live
      <4> QED
        BY <1>5, <2>2, <3>2, <3>5, <4>1, OwnRowsKept DEF OneEach
    <3> QED
      BY <3>5, <3>7, <3>8 DEF OneEach
  <2> QED
    BY <1>1, <2>1, <2>5, <2>6 DEF DInv
<1>6. ASSUME NEW s \in WorkerRecord, Went(w, s), s.pc = "dev", s.item = i, o.p = None,
             s.p \in Ids \ Known, Created(s.p, g, h), Wrote("dev", s.p, {})
      PROVE  DInv'
  <2> DEFINE p == s.p
  <2>1. Items' /\ Builds(s)' /\ p \in Ids \ Known
    BY <1>4, <1>6
  <2>2. Known' = Known \cup {p} /\ \A q \in Known : profile'[q] = profile[q]
    BY <1>6 DEF Created
  <2>3. profile'[p].gh = g /\ profile'[p].hf = h
    BY <1>1, <1>6, NewRecord DEF Created
  <2>4. LiveKept /\ LinksKept /\ Live' \subseteq Live \cup {p}
    BY <1>1, <2>2 DEF LiveKept, LinksKept, Live
  <2>5. Grown
    BY <1>1, <1>6, CreatedGrown
  <2>6. \A k \in Tables : rows[k][p] = None
    BY <2>1 DEF TInv, RowsOK, RowsOfKnown
  <2>7. \A k \in Tables, q \in Ids : (k # "dev" \/ q # p) => rows'[k][q] = rows[k][q]
    BY <1>6 DEF Wrote
  <2>8. RowsUp
    BY <2>6, <2>7 DEF RowsUp
  <2>9. WorkersBuild'
    BY <1>6, <2>1, <2>4, <2>5, <2>8, BuildsStep DEF DInv, Layers
  <2>10. Layers'
    <3>1. \A q \in Live' : q \in Ids
      BY <2>5 DEF Live, Grown, ProfilesOK
    <3>2. AggUnderCoh'
      BY <2>4, <2>6, <2>7, <3>1 DEF DInv, Layers, AggUnderCoh, Tables
    <3>3. SocialRows'
      BY <2>7 DEF DInv, Layers, SocialRows, Tables
    <3> QED
      BY <2>9, <3>2, <3>3 DEF Layers
  <2>11. ASSUME OneClaimEach' PROVE OneEach'
    <3>1. OneEach
      BY <1>1, <2>11 DEF OneClaimEach, DInv
    <3>2. Named'
      <4> SUFFICES ASSUME NEW q \in Known', profile'[q].gh # None, profile'[q].hf # None
                   PROVE  claim'[profile'[q].hf] = profile'[q].gh
        BY DEF Named
      <4>1. CASE q = p
        <5>1. g # None /\ h # None => claim[h] = g
          BY NamesOfItem
        <5> QED
          BY <1>1, <2>3, <4>1, <5>1
      <4>2. CASE q # p
        BY <1>1, <2>2, <3>1, <4>2 DEF OneEach, Named
      <4> QED
        BY <4>1, <4>2
    <3>3. Led(s)'
      BY <1>6, <2>3 DEF Led, Carries
    <3>4. WorkersLed'
      BY <1>6, <2>4, <3>1, <3>3, LedStep DEF OneEach
    <3>5. OwnRows'
      <4> SUFFICES ASSUME NEW t \in {"dev", "agg", "coh"}, NEW q \in Live', rows'[t][q] # None
                   PROVE  rows'[t][q] \ LnUsers \subseteq {profile'[q].gh, profile'[q].hf}
        BY DEF OwnRows
      <4>1. t \in Tables
        BY DEF Tables
      <4>2. CASE q = p
        <5>1. rows'[t][p] = {}
          <6>1. CASE t = "dev"
            BY <1>6, <6>1 DEF Wrote
          <6>2. CASE t # "dev"
            BY <2>1, <2>6, <2>7, <4>1, <4>2, <6>2
          <6> QED
            BY <6>1, <6>2
        <5> QED
          BY <4>2, <5>1
      <4>3. CASE q # p
        <5>1. q \in Known /\ q \in Ids
          BY <2>4, <4>3 DEF Live, TInv, ProfilesOK
        <5>2. UNCHANGED rows[t][q]
          BY <2>7, <4>1, <4>3, <5>1
        <5> QED
          BY <2>4, <3>1, <5>1, <5>2, OwnRowsKept DEF OneEach
      <4> QED
        BY <4>2, <4>3
    <3> QED
      BY <3>2, <3>4, <3>5 DEF OneEach
  <2> QED
    BY <1>1, <2>1, <2>10, <2>11 DEF DInv
<1>7. CASE UNCHANGED <<profile, rows>> /\ Went(w, Idle)
  BY <1>1, <1>7, IdleKeepsData
<1> HIDE DEF o, g, h
<1> QED
  BY <1>3, <1>5, <1>6, <1>7

LEMMA StoreDevKeepsData ==
    ASSUME UsersAssumption, DInv, NEW w \in Workers, StoreDev(w)
    PROVE  DInv'
<1> TInv
  BY DEF DInv
<1> DEFINE o == worker[w]
<1>1. /\ TInv' /\ UNCHANGED <<claim, queue>> /\ o.pc = "dev"
      /\ o.p \in Known /\ Linked(o.p, None, None) /\ Wrote("dev", o.p, DevData(o.item))
  BY StoreDevKeepsTypes
<1> PICK s \in WorkerRecord :
      /\ Went(w, s) /\ s.item = o.item /\ s.p = o.p
      /\ s.pc = IF o.item.user \in LnUsers THEN "social" ELSE "agg"
  BY StoreDevKeepsTypes
<1> PICK i \in GoodItems, p \in Known : i = o.item /\ p = o.p
  BY <1>1, WorkersItemIsGood
<1>2. s.pc \in {"social", "agg"} /\ (s.pc = "social" => i.user \in LnUsers)
  OBVIOUS
<1>3. Items'
  BY <1>1, <1>2, ItemsStep DEF DInv
<1>4. Known' = Known /\ \A q \in Known : profile'[q].gh = profile[q].gh /\ profile'[q].hf = profile[q].hf
  BY <1>1 DEF Linked, Or
<1>5. LiveKept /\ Live' = Live /\ LinksKept /\ Grown
  BY <1>1, <1>4, LiveOfLinked, LinkedGrown DEF LinksKept
<1>6. DevData(i) # None
  BY ContentTyped DEF GoodItems
<1>7. p \in Ids /\ \A k \in Tables, q \in Ids : (k # "dev" \/ q # p) => rows'[k][q] = rows[k][q]
  BY <1>1 DEF Wrote, TInv, ProfilesOK
<1>8. rows'["dev"][p] = DevData(i)
  BY <1>1 DEF Wrote
<1>9. RowsUp
  BY <1>6, <1>7, <1>8 DEF RowsUp
<1>10. Builds(s)'
  BY <1>2 DEF Builds, Looking, Lookups
<1>11. WorkersBuild'
  BY <1>5, <1>9, <1>10, BuildsStep DEF DInv, Layers
<1>12. Layers'
  <2>1. Live \subseteq Ids
    BY DEF Live, TInv, ProfilesOK
  <2> QED
    BY <1>5, <1>7, <1>11, <2>1 DEF DInv, Layers, AggUnderCoh, SocialRows, Tables
<1>13. ASSUME OneClaimEach' PROVE OneEach'
  <2>1. OneEach
    BY <1>1, <1>13 DEF OneClaimEach, DInv
  <2>2. Carries(i, p)
    BY <1>1, <2>1 DEF OneEach, WorkersLed, Led
  <2>3. Led(s)'
    BY <1>2, <1>4, <2>2 DEF Led, Carries
  <2>4. WorkersLed'
    BY <1>5, <2>1, <2>3, LedStep DEF OneEach
  <2>5. Named'
    BY <1>1, <1>4, <2>1 DEF OneEach, Named
  <2>6. OwnRows'
    <3> SUFFICES ASSUME NEW t \in {"dev", "agg", "coh"}, NEW q \in Live', rows'[t][q] # None
                 PROVE  rows'[t][q] \ LnUsers \subseteq {profile'[q].gh, profile'[q].hf}
      BY DEF OwnRows
    <3>1. t \in Tables /\ q \in Known /\ q \in Ids
      BY <1>5 DEF Tables, Live, TInv, ProfilesOK
    <3>2. CASE t = "dev" /\ q = p
      <4>1. DevData(i) \subseteq {profile[p].gh, profile[p].hf}
        BY <2>2, ContributesOwn
      <4> QED
        BY <1>4, <1>8, <3>2, <4>1
    <3>3. CASE ~(t = "dev" /\ q = p)
      <4>1. UNCHANGED rows[t][q]
        BY <1>7, <3>1, <3>3
      <4> QED
        BY <1>5, <2>1, <3>1, <4>1, OwnRowsKept DEF OneEach
    <3> QED
      BY <3>2, <3>3
  <2> QED
    BY <2>4, <2>5, <2>6 DEF OneEach
<1> QED
  BY <1>1, <1>3, <1>12, <1>13 DEF DInv

LEMMA StoreKeepsData ==
    ASSUME UsersAssumption, DInv, NEW w \in Workers, NEW t \in Lookups, Store(w, t)
    PROVE  DInv'
<1> TInv
  BY DEF DInv
<1> DEFINE o == worker[w]
<1>1. /\ TInv' /\ UNCHANGED <<claim, profile, queue>> /\ o.pc = Looking[t] /\ o.p \in Known
  BY StoreKeepsTypes
<1>2. \/ UNCHANGED rows /\ Went(w, Idle)
      \/ /\ \/ UNCHANGED rows /\ o.has /\ rows[t][o.p] = None
            \/ Wrote(t, o.p, Content(t, o.item))
         /\ \/ t = "coh" /\ Went(w, Idle)
            \/ /\ t # "coh"
               /\ \E s \in WorkerRecord : /\ Went(w, s) /\ s.item = o.item /\ s.p = o.p
                                          /\ s.pc = NextTable[t] /\ s.has = FALSE
  BY StoreKeepsTypes
<1>3. o.pc \in Stores /\ (t = "social" => o.pc = "social_store") /\ (t = "coh" => o.pc = "coh_store")
      /\ (t # "coh" => NextTable[t] \in {"agg", "coh"} /\ (NextTable[t] = "coh" => t = "agg"))
  BY <1>1 DEF Looking, Lookups, Stores, NextTable
<1> PICK i \in GoodItems, p \in Known : i = o.item /\ p = o.p
  BY <1>1, <1>3, WorkersItemIsGood DEF Stores
<1>4. CASE UNCHANGED rows /\ Went(w, Idle)
  BY <1>1, <1>4, IdleKeepsData
<1>5. ASSUME UNCHANGED rows, NEW s \in WorkerRecord, Went(w, s), s.item = o.item, s.p = o.p,
             s.pc = NextTable[t], s.has = FALSE, t # "coh", o.has, rows[t][o.p] = None
      PROVE  DInv'
  <2>1. Items'
    BY <1>1, <1>3, <1>5, ItemsStep DEF DInv, Stores
  <2>2. s.p \in Live => Builds(s)
    <3>1. s.p \notin Live
      BY <1>1, <1>5 DEF DInv, Layers, WorkersBuild, Builds
    <3> QED
      BY <3>1
  <2>3. OneClaimEach => Led(s)
    BY <1>3, <1>5 DEF DInv, OneEach, WorkersLed, Led, Stores
  <2> QED
    BY <1>1, <1>5, <2>1, <2>2, <2>3, WorkerKeepsData
<1>6. ASSUME Wrote(t, o.p, Content(t, o.item)), NEW s, Went(w, s),
             \/ s = Idle /\ t = "coh"
             \/ s.item = o.item /\ s.p = o.p /\ s.pc = NextTable[t] /\ s.has = FALSE /\ t # "coh"
      PROVE  DInv'
  <2>1. Items'
    BY <1>1, <1>3, <1>6, IdleStands, ItemsStep DEF DInv, Stores
  <2>2. Known' = Known /\ Live' = Live /\ LiveKept /\ LinksKept /\ Grown
    BY <1>1, ProfilesKept DEF Known, Live, LiveKept, LinksKept
  <2>3. p \in Ids /\ t \in Tables /\ Live \subseteq Ids
    BY DEF TInv, ProfilesOK, Live, Lookups, Tables
  <2> DEFINE c == Content(t, i)
  <2>4. c # None
    BY ContentTyped DEF GoodItems
  <2>5. rows'[t][p] = c /\ \A k \in Tables, q \in Ids : (k # t \/ q # p) => rows'[k][q] = rows[k][q]
    BY <1>6 DEF Wrote
  <2>6. t = "social" => c \subseteq LnUsers
    <3>1. t = "social" => i.user \in LnUsers
      BY <1>3 DEF DInv, Items, SocialWorkers
    <3> QED
      BY <3>1 DEF Content
  <2> HIDE DEF c
  <2>7. RowsUp
    BY <2>4, <2>5 DEF RowsUp
  <2>8. s.p \in Live' => Builds(s)'
    <3>1. CASE s = Idle
      BY <3>1, IdleStands DEF Builds
    <3>2. CASE s.pc = NextTable[t] /\ t # "coh" /\ s.p = p /\ s.has = FALSE
      BY <1>3, <2>4, <2>5, <3>2 DEF Builds
    <3> QED
      BY <1>6, <3>1, <3>2
  <2>9. WorkersBuild'
    BY <1>6, <2>2, <2>7, <2>8, BuildsStep DEF DInv, Layers
  <2>10. SocialRows'
    BY <2>5, <2>6 DEF DInv, Layers, SocialRows, Tables
  <2>11. AggUnderCoh'
    <3> SUFFICES ASSUME NEW q \in Live, rows'["coh"][q] # None PROVE rows'["agg"][q] # None
      BY <2>2 DEF AggUnderCoh
    <3>1. CASE rows["agg"][q] # None
      BY <2>3, <2>7, <3>1 DEF RowsUp, Tables
    <3>2. CASE rows["agg"][q] = None
      <4>1. rows["coh"][q] = None
        BY <3>2 DEF DInv, Layers, AggUnderCoh
      <4>2. t = "coh" /\ q = p
        BY <2>3, <2>5, <4>1 DEF Tables
      <4>3. Builds(o)
        BY <4>2 DEF DInv, Layers, WorkersBuild
      <4> QED
        BY <1>3, <3>2, <4>2, <4>3 DEF Builds
    <3> QED
      BY <3>1, <3>2
  <2>12. ASSUME OneClaimEach' PROVE OneEach'
    <3>1. OneEach
      BY <1>1, <2>12 DEF OneClaimEach, DInv
    <3>2. Carries(i, p)
      BY <1>3, <3>1 DEF OneEach, WorkersLed, Led, Stores
    <3>3. Led(s)'
      <4>1. CASE s = Idle
        BY <4>1, IdleStands DEF Led
      <4>2. CASE s.item = i /\ s.p = p /\ s.pc = NextTable[t] /\ t # "coh"
        BY <1>1, <1>3, <3>2, <4>2 DEF Led, Carries
      <4> QED
        BY <1>6, <4>1, <4>2
    <3>4. WorkersLed'
      BY <1>6, <2>2, <3>1, <3>3, LedStep DEF OneEach
    <3>5. Named'
      BY <1>1, <2>2, <3>1 DEF OneEach, Named
    <3>6. OwnRows'
      <4> SUFFICES ASSUME NEW k \in {"dev", "agg", "coh"}, NEW q \in Live', rows'[k][q] # None
                   PROVE  rows'[k][q] \ LnUsers \subseteq {profile'[q].gh, profile'[q].hf}
        BY DEF OwnRows
      <4>1. k \in Tables /\ q \in Known /\ q \in Ids
        BY <2>2, <2>3 DEF Tables, Live
      <4>2. CASE k = t /\ q = p
        <5>1. c \ LnUsers \subseteq {profile[p].gh, profile[p].hf}
          BY <3>2, <4>2, ContributesOwn DEF c, Lookups
        <5> QED
          BY <1>1, <2>5, <4>2, <5>1
      <4>3. CASE ~(k = t /\ q = p)
        <5>1. UNCHANGED rows[k][q]
          BY <2>5, <4>1, <4>3
        <5> QED
          BY <2>2, <3>1, <4>1, <5>1, OwnRowsKept DEF OneEach
      <4> QED
        BY <4>2, <4>3
    <3> QED
      BY <3>4, <3>5, <3>6 DEF OneEach
  <2> QED
    BY <1>1, <2>1, <2>9, <2>10, <2>11, <2>12 DEF DInv, Layers
<1>7. CASE UNCHANGED rows /\ t = "coh" /\ Went(w, Idle)
  BY <1>4, <1>7
<1> HIDE DEF o
<1>8. ASSUME t = "coh", Went(w, Idle), Wrote(t, o.p, Content(t, o.item)) PROVE DInv'
  <2>1. PICK s : s = Idle
    OBVIOUS
  <2> QED
    BY <1>6, <1>8, <2>1
<1> QED
  BY <1>2, <1>4, <1>5, <1>6, <1>7, <1>8

\* A merge: the target's cohesive row, without which the merge fails, rests on
\* an aggregate row, so the target keeps what it has of both and takes only a
\* social row over; the source is no longer live.
LEMMA MergeKeepsData ==
    ASSUME Assumptions, DInv, TInv', NEW c \in Pairs, BothKnown(c), MergeProfiles(c[1], c[2]),
           UNCHANGED <<claim, queue, worker>>
    PROVE  DInv'
<1> USE DEF Assumptions
<1> TInv
  BY DEF DInv
<1> PICK s, t : s = c[1] /\ t = c[2]
  OBVIOUS
<1>1. s \in Ids /\ t \in Ids /\ s # t /\ s \in Known /\ t \in Known
  BY PairsAreTwo DEF BothKnown
<1>2. MergedInto(s, t) /\ Moved(s, t) /\ ~MergeFails(s, t)
  BY MergeKeepsTables
<1>3. Known' = Known /\ \A q \in Known : profile'[q].gh = profile[q].gh /\ profile'[q].hf = profile[q].hf
  BY <1>2 DEF MergedInto
<1>4. \A q \in Live' : q \in Live /\ q # s /\ q \in Known /\ q \in Ids
  BY <1>2 DEF MergedInto, Live, TInv, ProfilesOK
<1>5. rows["coh"][t] # None
  BY <1>2 DEF MergeFails
<1>6. \A q \in Ids : rows'["dev"][q] = rows["dev"][q]
  BY <1>2 DEF Moved
<1>7. \A k \in {"agg", "coh"}, q \in Live' : rows'[k][q] = rows[k][q]
  <2> SUFFICES ASSUME NEW k \in {"agg", "coh"}, NEW q \in Live' PROVE rows'[k][q] = rows[k][q]
    OBVIOUS
  <2>1. k \in Lookups
    BY DEF Lookups
  <2>2. CASE q = t
    <3>1. rows[k][t] # None
      BY <1>4, <1>5, <2>2 DEF DInv, Layers, AggUnderCoh
    <3> QED
      BY <1>2, <2>1, <2>2, <3>1 DEF Moved, Or
  <2>3. CASE q # t
    BY <1>2, <1>4, <2>1, <2>3 DEF Moved
  <2> QED
    BY <2>2, <2>3
<1>8. \A q \in Live' : rows["social"][q] # None => rows'["social"][q] # None
  <2> SUFFICES ASSUME NEW q \in Live', rows["social"][q] # None PROVE rows'["social"][q] # None
    OBVIOUS
  <2>1. CASE q = t
    BY <1>2, <2>1 DEF Moved, Or, Lookups
  <2>2. CASE q # t
    BY <1>2, <1>4, <2>2 DEF Moved, Lookups
  <2> QED
    BY <2>1, <2>2
<1>9. Items'
  <2>1. GoodItems' = GoodItems
    BY DEF GoodItems, ItemAgrees
  <2> QED
    BY <2>1 DEF DInv, Items, ItemsAgree, ItemAgrees, SocialWorkers
<1>10. AggUnderCoh'
  BY <1>4, <1>7 DEF DInv, Layers, AggUnderCoh
<1>11. WorkersBuild'
  <2> SUFFICES ASSUME NEW w \in Workers, worker[w].p \in Live' PROVE Builds(worker[w])'
    BY DEF WorkersBuild
  <2>1. Builds(worker[w])
    BY <1>4 DEF DInv, Layers, WorkersBuild
  <2>2. \A k \in Lookups : rows[k][worker[w].p] # None => rows'[k][worker[w].p] # None
    BY <1>7, <1>8 DEF Lookups
  <2> QED
    BY <2>1, <2>2 DEF Builds, Lookups
<1>12. SocialRows'
  <2> SUFFICES ASSUME NEW q \in Ids, rows'["social"][q] # None PROVE rows'["social"][q] \subseteq LnUsers
    BY DEF SocialRows
  <2>1. rows'["social"][q] \in {rows["social"][q], rows["social"][s]}
    <3>1. CASE q = t
      BY <1>2, <3>1 DEF Moved, Or, Lookups
    <3>2. CASE q = s
      BY <1>2, <3>2 DEF Moved, Lookups
    <3>3. CASE q \notin {s, t}
      BY <1>2, <3>3 DEF Moved, Lookups
    <3> QED
      BY <3>1, <3>2, <3>3
  <2> QED
    BY <1>1, <2>1 DEF DInv, Layers, SocialRows
<1>13. ASSUME OneClaimEach' PROVE OneEach'
  <2>1. OneEach
    BY <1>13 DEF OneClaimEach, DInv
  <2>2. Named'
    BY <1>3, <2>1 DEF OneEach, Named
  <2>3. WorkersLed'
    <3> SUFFICES ASSUME NEW w \in Workers PROVE Led(worker[w])'
      BY DEF WorkersLed
    <3>1. Led(worker[w]) /\ Stands(worker[w], Known)
      BY <2>1, WorkerFacts DEF OneEach, WorkersLed
    <3> QED
      BY <1>3, <3>1 DEF Led, Reaches, Carries, Stands
  <2>4. OwnRows'
    BY <1>3, <1>4, <1>6, <1>7, <2>1 DEF OneEach, OwnRows
  <2> QED
    BY <2>2, <2>3, <2>4 DEF OneEach
<1> QED
  BY <1>9, <1>10, <1>11, <1>12, <1>13 DEF DInv, Layers

LEMMA DInvNext == ASSUME Assumptions, DInv, [Next]_vars PROVE DInv'
<1> USE DEF Assumptions
<1>1. TInv /\ TInv'
  BY TInvNext DEF DInv
<1>2. ASSUME NEW h \in HfUsers, NEW g \in GhUsers, ClaimGitHub(h, g) PROVE DInv'
  BY <1>1, <1>2, ClaimKeepsData
<1>3. ASSUME NEW mode \in RunModes, StartSync(mode) PROVE DInv'
  BY <1>1, <1>3, StartSyncKeepsData
<1>4. ASSUME NEW w \in Workers, SyncStep(w) PROVE DInv'
  <2>1. CASE TakeItem(w) \/ Search(w) \/ StoreDev(w)
    BY <2>1, TakeItemKeepsData, SearchKeepsData, StoreDevKeepsData
  <2>2. CASE Link(w)
    BY <2>2, LinkKeepsData
  <2>3. ASSUME NEW t \in Lookups, Look(w, t) \/ Store(w, t) PROVE DInv'
    BY <2>3, LookKeepsData, StoreKeepsData
  <2> QED
    BY <1>4, <2>1, <2>2, <2>3 DEF SyncStep, Lookups
<1>5. CASE UNCHANGED <<claim, profile, rows, queue, worker>>
  BY <1>1, <1>5, DataKept
<1>6. CASE AutoMergePair
  <2> DEFINE c == resolver.pair.pair
  <2>1. c \in Pairs /\ BothKnown(c)
    BY <1>1, <1>6, ResolverFacts DEF AutoMergePair, Resolving
  <2>2. UNCHANGED <<claim, queue, worker>> /\ (MergeProfiles(c[1], c[2]) \/ UNCHANGED <<profile, rows>>)
    BY <1>6 DEF AutoMergePair
  <2> HIDE DEF c
  <2> QED
    BY <1>1, <1>5, <2>1, <2>2, MergeKeepsData
<1>7. CASE ReviewMerge
  <2> DEFINE c == review.pair
  <2>1. c \in Pairs /\ BothKnown(c)
    BY <1>1, <1>7, ReviewFacts DEF ReviewMerge
  <2>2. UNCHANGED <<claim, queue, worker>> /\ (MergeProfiles(c[1], c[2]) \/ UNCHANGED <<profile, rows>>)
    BY <1>7 DEF ReviewMerge
  <2> HIDE DEF c
  <2> QED
    BY <1>1, <1>5, <2>1, <2>2, MergeKeepsData
<1>8. CASE StartResolve \/ TriageRead \/ TriageWrite \/ Downgrade \/ ReviewWrite \/ UNCHANGED vars
  BY <1>5, <1>8 DEF StartResolve, TriageRead, TriageWrite, Downgrade, ReviewWrite, NextPair, data, vars
<1>9. ASSUME NEW kind \in {"approve", "reject"}, NEW c \in Pairs, ReviewRead(kind, c) PROVE DInv'
  BY <1>5, <1>9 DEF ReviewRead, data
<1> QED
  BY <1>2, <1>3, <1>4, <1>6, <1>7, <1>8, <1>9 DEF Next

\* Whatever is synced, merged and reviewed at the same time, each row of a live
\* profile was built from users it is linked to, as long as no two Hugging Face
\* pages name one GitHub login (bridge/storage.py, the upserts after
\* find_existing_profile, and merge_profiles).
THEOREM NothingForeign == Assumptions => (Spec => []NoForeignData)
<1> SUFFICES ASSUME Assumptions PROVE Spec => []NoForeignData
  OBVIOUS
<1>1. Init => DInv
  BY DInvInit
<1>2. DInv /\ [Next]_vars => DInv'
  BY DInvNext
<1>3. ASSUME DInv PROVE NoForeignData
  <2> SUFFICES ASSUME OneClaimEach, NEW t \in Tables, NEW p \in Live, rows[t][p] # None
               PROVE  rows[t][p] \ LnUsers \subseteq {profile[p].gh, profile[p].hf}
    BY DEF NoForeignData
  <2>1. CASE t = "social"
    BY <1>3, <2>1 DEF DInv, TInv, ProfilesOK, Live, Layers, SocialRows
  <2>2. CASE t # "social"
    BY <1>3, <2>2 DEF DInv, OneEach, OwnRows, Tables
  <2> QED
    BY <2>1, <2>2
<1> QED
  BY <1>1, <1>2, <1>3, PTL DEF Spec

=============================================================================
