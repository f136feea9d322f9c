------------------------- MODULE ServicesBillingProofs ------------------------
(***************************************************************************)
(* Proofs about two parts of Services, for every value of the constants:   *)
(* the plan, members and subscription of an organisation, and the          *)
(* scheduler that polls its table.  The first lemmas of a part say that    *)
(* the part counts as the library does.                                    *)
(***************************************************************************)
EXTENDS Services, FiniteSetTheorems, TLAPS

-----------------------------------------------------------------------------
(* Billing and memberships (OrgBilling).                                   *)

LEMMA BillingCounting ==
    \A S : Billing!Cardinality(S) = Cardinality(S) /\ (Billing!IsFiniteSet(S) <=> IsFiniteSet(S))
  BY Zenon DEF Billing!Cardinality, Cardinality, Billing!IsFiniteSet, IsFiniteSet

LEMMA BillingFS_EmptySet ==
    /\ Billing!IsFiniteSet({}) /\ Billing!Cardinality({}) = 0
    /\ \A S : Billing!IsFiniteSet(S) => (Billing!Cardinality(S) = 0 <=> S = {})
  BY FS_EmptySet, BillingCounting

LEMMA BillingFS_CardinalityType ==
    ASSUME NEW S, Billing!IsFiniteSet(S) PROVE Billing!Cardinality(S) \in Nat
  BY FS_CardinalityType, BillingCounting

LEMMA BillingFS_Singleton ==
    /\ \A x : Billing!IsFiniteSet({x}) /\ Billing!Cardinality({x}) = 1
    /\ \A S : Billing!IsFiniteSet(S) => (Billing!Cardinality(S) = 1 <=> \E x: S = {x})
  BY FS_Singleton, BillingCounting

LEMMA BillingFS_AddElement ==
    ASSUME NEW S, NEW x, Billing!IsFiniteSet(S)
    PROVE  /\ Billing!IsFiniteSet(S \cup {x})
           /\ Billing!Cardinality(S \cup {x}) = IF x \in S THEN Billing!Cardinality(S) ELSE Billing!Cardinality(S) + 1
  BY FS_AddElement, BillingCounting

LEMMA BillingFS_RemoveElement ==
    ASSUME NEW S, NEW x, Billing!IsFiniteSet(S)
    PROVE  /\ Billing!IsFiniteSet(S \ {x})
           /\ Billing!Cardinality(S \ {x}) = IF x \in S THEN Billing!Cardinality(S) - 1 ELSE Billing!Cardinality(S)
  BY FS_RemoveElement, BillingCounting

LEMMA BillingFS_Subset ==
    ASSUME NEW S, NEW T, Billing!IsFiniteSet(S), T \subseteq S
    PROVE  /\ Billing!IsFiniteSet(T) /\ Billing!Cardinality(T) <= Billing!Cardinality(S)
           /\ Billing!Cardinality(S) = Billing!Cardinality(T) => S = T
  BY FS_Subset, BillingCounting

LEMMA BillingFS_Union ==
    ASSUME NEW S, Billing!IsFiniteSet(S), NEW T, Billing!IsFiniteSet(T)
    PROVE  /\ Billing!IsFiniteSet(S \cup T)
           /\ Billing!Cardinality(S \cup T) = Billing!Cardinality(S) + Billing!Cardinality(T) - Billing!Cardinality(S \cap T)
  BY FS_Union, BillingCounting

LEMMA BillingFS_Difference ==
    ASSUME NEW S, Billing!IsFiniteSet(S), NEW T
    PROVE  /\ Billing!IsFiniteSet(S \ T)
           /\ Billing!Cardinality(S \ T) = Billing!Cardinality(S) - Billing!Cardinality(S \cap T)
  BY FS_Difference, BillingCounting

-----------------------------------------------------------------------------
(* Types.                                                                  *)

MemberRow == [n : Nat, email : Others \cup {Owner}, role : {"owner", "admin", "member"},
              status : {"active", "invited"}]
Inserting == [pc : {"insert"}, row : MemberRow, alone : BOOLEAN]
Counting == [pc : {"seats"}, add : SUBSET MemberRow, drop : SUBSET MemberRow,
             alone : BOOLEAN, seats : Nat]
Creating == [pc : {"create"}, resource : Billing!Resources, alone : BOOLEAN]
RequestRecord == {Billing!Idle} \cup Inserting \cup Counting \cup Creating

Statuses == {None, "active", "canceled", "past_due"} \cup {Events[e].status : e \in DOMAIN Events}
Ids == {None} \cup {Events[e].id : e \in DOMAIN Events}
SubRow == [plan : Billing!Plans \cup {None}, status : Statuses, id : Ids, seats : Nat]
Delivering == [pc : {"write"}, event : DOMAIN Events, found : BOOLEAN, row : SubRow, alone : BOOLEAN]

\* A request that changes the members adds one row or drops one.
OneChange(q) ==
    q.pc = "seats" => \/ \E a \in MemberRow : q.add = {a} /\ q.drop = {}
                      \/ \E d \in MemberRow : q.drop = {d} /\ q.add = {}

RequestTypes ==
    /\ request \in [Requests -> RequestRecord]
    /\ \A r \in Requests : OneChange(request[r])
HookTypes == hook \in [Hooks -> {Billing!Idle} \cup Delivering]
RowTypes ==
    /\ orgPlan \in Billing!Plans \cup {None}
    /\ sub \in SubRow /\ (sub = Billing!NoSub \/ sub.plan \in Billing!Plans)
    /\ members \subseteq MemberRow /\ Billing!IsFiniteSet(members)
    /\ used \in [Billing!Resources -> Nat]
OtherTypes ==
    /\ events \subseteq DOMAIN Events /\ accounts \subseteq Others /\ deleted \in BOOLEAN
    /\ seen \in [plans : SUBSET Billing!Plans, seatsRaced : BOOLEAN, plansRaced : BOOLEAN]
    /\ billingCount \in [work : Nat, failures : Nat]

\* Before there is an organisation, nothing else is there.
Unborn ==
    orgPlan = None => /\ members = {} /\ sub = Billing!NoSub /\ used = [k \in Billing!Resources |-> 0]
                      /\ \A r \in Requests : request[r] = Billing!Idle
                      /\ \A h \in Hooks : hook[h] = Billing!Idle
PlansSeen == orgPlan # None => {orgPlan, "free"} \subseteq seen.plans

\* What a delivery found is still there.
Found ==
    \A h \in Hooks : hook[h] # Billing!Idle /\ hook[h].found => sub # Billing!NoSub /\ hook[h].row.plan \in Billing!Plans

BillingTInv == RequestTypes /\ HookTypes /\ RowTypes /\ OtherTypes /\ Unborn /\ PlansSeen /\ Found

-----------------------------------------------------------------------------
(* What a request is about to do.                                          *)

Adds(r) == IF request[r].pc = "seats" THEN request[r].add ELSE {}
Pending(r) == IF request[r].pc = "insert" THEN {request[r].row} ELSE Adds(r)
Drops(r) == IF request[r].pc = "seats" THEN request[r].drop ELSE {}
Wants(r) ==
    IF request[r].pc = "create" THEN request[r].resource
    ELSE IF Pending(r) # {} THEN "org_members" ELSE "none"

\* The same request, alone or not.
SameBut(x, y) ==
    /\ x.pc = y.pc
    /\ x.pc = "insert" => x.row = y.row
    /\ x.pc = "seats" => x.add = y.add /\ x.drop = y.drop /\ x.seats = y.seats
    /\ x.pc = "create" => x.resource = y.resource
SameRequest(q) == SameBut(request'[q], request[q])

LEMMA RequestKinds ==
    ASSUME NEW q \in RequestRecord
    PROVE  /\ q.pc \in {"idle", "insert", "seats", "create"}
           /\ q = Billing!Idle <=> q.pc = "idle"
           /\ q.pc = "insert" => q \in Inserting
           /\ q.pc = "seats" => q \in Counting
           /\ q.pc = "create" => q \in Creating
  BY DEF RequestRecord, Billing!Idle, Inserting, Counting, Creating

LEMMA SameView ==
    ASSUME NEW q, SameRequest(q)
    PROVE  /\ Adds(q)' = Adds(q) /\ Pending(q)' = Pending(q) /\ Drops(q)' = Drops(q)
           /\ Wants(q)' = Wants(q)
  BY DEF SameRequest, SameBut, Adds, Pending, Drops, Wants

\* A request begins: what others are doing stays, but they are not alone.
Begins(r, state) ==
    /\ orgPlan # None /\ request[r] = Billing!Idle /\ request'[r] = state
    /\ state \in RequestRecord /\ state # Billing!Idle
    /\ state.alone => \A q \in Requests : request[q] = Billing!Idle
    /\ \A q \in Requests \ {r} :
          /\ SameRequest(q)
          /\ request'[q] # Billing!Idle => ~request'[q].alone
    /\ billingCount' = [billingCount EXCEPT !.work = @ + 1]
    /\ RequestTypes'

LEMMA BeginEffect ==
    ASSUME BillingTInv, NEW r \in Requests, NEW state \in RequestRecord, state # Billing!Idle, OneChange(state),
           state.alone = Billing!Alone, Billing!Begin(r, state)
    PROVE  Begins(r, state)
<1>1. /\ orgPlan # None /\ request[r] = Billing!Idle
      /\ request' = [q \in Requests |->
            IF q = r THEN state
            ELSE IF request[q] = Billing!Idle THEN Billing!Idle ELSE [request[q] EXCEPT !.alone = FALSE]]
      /\ billingCount' = [billingCount EXCEPT !.work = @ + 1]
  BY DEF Billing!Begin
<1>2. request \in [Requests -> RequestRecord] /\ \A q \in Requests : OneChange(request[q])
  BY DEF BillingTInv, RequestTypes
<1>3. ASSUME NEW q \in Requests \ {r}
      PROVE  /\ request'[q] \in RequestRecord /\ OneChange(request'[q]) /\ SameRequest(q)
             /\ request'[q] # Billing!Idle => ~request'[q].alone
  <2>1. CASE request[q] = Billing!Idle
    BY <1>1, <1>2, <2>1 DEF SameRequest, SameBut, Billing!Idle, RequestRecord
  <2>2. CASE request[q] # Billing!Idle
    <3>1. request'[q] = [request[q] EXCEPT !.alone = FALSE]
      BY <1>1, <2>2
    <3>2. request[q] \in Inserting \/ request[q] \in Counting \/ request[q] \in Creating
      BY <1>2, <2>2 DEF RequestRecord
    <3>3. CASE request[q] \in Inserting
      BY <3>1, <3>3, <1>2 DEF Inserting, RequestRecord, SameRequest, SameBut, OneChange, Billing!Idle
    <3>4. CASE request[q] \in Counting
      <4>1. /\ request'[q] \in Counting /\ request'[q].pc = "seats" /\ ~request'[q].alone
            /\ request'[q].add = request[q].add /\ request'[q].drop = request[q].drop
            /\ request'[q].seats = request[q].seats /\ request[q].pc = "seats"
        BY <3>1, <3>4 DEF Counting
      <4>2. OneChange(request'[q])
        BY <4>1, <1>2 DEF OneChange
      <4> QED
        BY <4>1, <4>2 DEF RequestRecord, SameRequest, SameBut
    <3>5. CASE request[q] \in Creating
      BY <3>1, <3>5, <1>2 DEF Creating, RequestRecord, SameRequest, SameBut, OneChange, Billing!Idle
    <3> QED
      BY <3>2, <3>3, <3>4, <3>5
  <2> QED
    BY <2>1, <2>2
<1>4. state.alone => \A q \in Requests : request[q] = Billing!Idle
  <2>1. DOMAIN request = Requests
    BY <1>2
  <2> QED
    BY <2>1 DEF Billing!Alone, Billing!Busy
<1>5. request'[r] = state
  BY <1>1
<1>6. RequestTypes'
  <2>1. \A q \in Requests : request'[q] \in RequestRecord /\ OneChange(request'[q])
    BY <1>3, <1>5
  <2>2. request' = [q \in Requests |-> request'[q]]
    BY <1>1
  <2> QED
    BY <2>1, <2>2 DEF RequestTypes
<1> QED
  BY <1>1, <1>3, <1>4, <1>5, <1>6 DEF Begins

\* One request changes, and the others stay as they are.
LEMMA OneRequest ==
    ASSUME BillingTInv, NEW r \in Requests, NEW x \in RequestRecord, OneChange(x),
           request' = [request EXCEPT ![r] = x]
    PROVE  /\ RequestTypes' /\ request'[r] = x
           /\ \A q \in Requests \ {r} : request'[q] = request[q] /\ SameRequest(q)
<1>1. request \in [Requests -> RequestRecord] /\ \A q \in Requests : OneChange(request[q])
  BY DEF BillingTInv, RequestTypes
<1>2. request'[r] = x /\ \A q \in Requests \ {r} : request'[q] = request[q]
  BY <1>1
<1>3. RequestTypes'
  BY <1>1, <1>2 DEF RequestTypes
<1> QED
  BY <1>2, <1>3 DEF SameRequest, SameBut

LEMMA IdleRecord == Billing!Idle \in RequestRecord /\ OneChange(Billing!Idle) /\ Billing!Idle.pc = "idle"
  BY DEF RequestRecord, OneChange, Billing!Idle

LEMMA MembersNumber ==
    ASSUME BillingTInv
    PROVE  /\ Billing!Cardinality(members) \in Nat /\ Billing!IsFiniteSet(members) /\ members \subseteq MemberRow
           /\ billingCount.work \in Nat /\ billingCount.failures \in Nat
<1>1. Billing!IsFiniteSet(members) /\ members \subseteq MemberRow
  BY DEF BillingTInv, RowTypes
<1>2. billingCount.work \in Nat /\ billingCount.failures \in Nat
  BY DEF BillingTInv, OtherTypes
<1> QED
  BY <1>1, <1>2, BillingFS_CardinalityType

\* An invitation was checked against the limit, and names a new row.
LEMMA InviteEffect ==
    ASSUME BillingTInv, NEW r \in Requests, NEW email \in Others, NEW role \in {"admin", "member"},
           Billing!CheckInvite(r, email, role)
    PROVE  \E state \in Inserting :
              /\ Begins(r, state) /\ state.row.n = billingCount.work + 1
              /\ Billing!Cardinality(members) < Billing!Limit("org_members")
              /\ UNCHANGED <<orgPlan, sub, members, used, hook, events, seen, accounts, deleted>>
<1> DEFINE row0 == Billing!Row(billingCount.work + 1, email, role)
           state == [pc |-> "insert", row |-> row0, alone |-> Billing!Alone]
<1>1. row0 \in MemberRow /\ row0.n = billingCount.work + 1
  BY MembersNumber DEF Billing!Row, MemberRow
<1>2. Billing!Alone \in BOOLEAN
  BY DEF Billing!Alone
<1> HIDE DEF row0
<1>3. state \in Inserting /\ state.row = row0 /\ state.alone = Billing!Alone /\ state.pc = "insert"
  BY <1>1, <1>2 DEF Inserting
<1>4. Billing!Begin(r, state) /\ Billing!Cardinality(members) < Billing!Limit("org_members")
      /\ UNCHANGED <<orgPlan, sub, members, used, hook, events, seen, accounts, deleted>>
  BY DEF Billing!CheckInvite, row0
<1> HIDE DEF state
<1>5. state \in RequestRecord /\ state # Billing!Idle /\ OneChange(state)
  BY <1>3 DEF RequestRecord, Billing!Idle, OneChange
<1>6. Begins(r, state)
  BY <1>3, <1>4, <1>5, BeginEffect
<1> QED
  BY <1>1, <1>3, <1>4, <1>6

LEMMA RemoveEffect ==
    ASSUME BillingTInv, NEW r \in Requests, NEW row0 \in members, Billing!RemoveMember(r, row0)
    PROVE  \E state \in Counting :
              /\ Begins(r, state) /\ state.drop = {row0} /\ state.add = {}
              /\ state.seats = Billing!Cardinality(members) - 1
              /\ ~Billing!BeingRemoved(row0)
              /\ UNCHANGED <<orgPlan, sub, members, used, hook, events, seen, accounts, deleted>>
<1> DEFINE n == Billing!Cardinality(members) - 1
           state == [pc |-> "seats", add |-> {}, drop |-> {row0}, alone |-> Billing!Alone, seats |-> n]
<1>1. row0 \in MemberRow /\ n \in Nat
  <2>1. Billing!Cardinality(members) # 0
    BY MembersNumber, BillingFS_EmptySet
  <2> QED
    BY <2>1, MembersNumber
<1>2. Billing!Alone \in BOOLEAN
  BY DEF Billing!Alone
<1>4. Billing!Begin(r, state) /\ ~Billing!BeingRemoved(row0)
      /\ UNCHANGED <<orgPlan, sub, members, used, hook, events, seen, accounts, deleted>>
  BY DEF Billing!RemoveMember
<1> HIDE DEF n
<1>3. state \in Counting /\ state.alone = Billing!Alone /\ state.pc = "seats"
      /\ state.add = {} /\ state.drop = {row0} /\ state.seats = n
  BY <1>1, <1>2 DEF Counting
<1> HIDE DEF state
<1>5. state \in RequestRecord /\ state # Billing!Idle /\ OneChange(state)
  BY <1>1, <1>3 DEF RequestRecord, Billing!Idle, OneChange
<1>6. Begins(r, state)
  BY <1>3, <1>4, <1>5, BeginEffect
<1> QED
  BY <1>3, <1>4, <1>6 DEF n

LEMMA CheckLimitEffect ==
    ASSUME BillingTInv, NEW r \in Requests, NEW k \in Billing!Resources, Billing!CheckLimit(r, k)
    PROVE  \E state \in Creating :
              /\ Begins(r, state) /\ state.resource = k
              /\ k \in Billing!Enforced => used[k] < Billing!Limit(k)
              /\ UNCHANGED <<orgPlan, sub, members, used, hook, events, seen, accounts, deleted>>
<1> DEFINE state == [pc |-> "create", resource |-> k, alone |-> Billing!Alone]
<1>2. Billing!Alone \in BOOLEAN
  BY DEF Billing!Alone
<1>3. state \in Creating /\ state.alone = Billing!Alone /\ state.pc = "create" /\ state.resource = k
  BY <1>2 DEF Creating
<1>4. Billing!Begin(r, state) /\ (k \in Billing!Enforced => used[k] < Billing!Limit(k))
      /\ UNCHANGED <<orgPlan, sub, members, used, hook, events, seen, accounts, deleted>>
  BY DEF Billing!CheckLimit
<1> HIDE DEF state
<1>5. state \in RequestRecord /\ state # Billing!Idle /\ OneChange(state)
  BY <1>3 DEF RequestRecord, Billing!Idle, OneChange
<1>6. Begins(r, state)
  BY <1>3, <1>4, <1>5, BeginEffect
<1> QED
  BY <1>3, <1>4, <1>6

\* A request ends or moves on, and the others stay as they are.
MovesTo(r, x) ==
    /\ x \in RequestRecord /\ request[r] # Billing!Idle /\ request'[r] = x
    /\ \A q \in Requests \ {r} : request'[q] = request[q] /\ SameRequest(q)
    /\ RequestTypes'

LEMMA CountInvitedEffect ==
    ASSUME BillingTInv, NEW r \in Requests, Billing!CountInvited(r)
    PROVE  /\ request[r] \in Inserting
           /\ \/ MovesTo(r, Billing!Idle)
              \/ \E x \in Counting :
                    /\ MovesTo(r, x) /\ x.add = {request[r].row} /\ x.drop = {}
                    /\ x.alone = request[r].alone /\ x.seats = Billing!Cardinality(members) + 1
                    /\ Billing!UserRows(request[r].row.email) = {}
                    /\ request[r].row.status = "active" =>
                          \A q \in Requests : \A m \in Adds(q) : m.email # request[r].row.email
           /\ UNCHANGED <<orgPlan, sub, members, used, hook, events, seen, billingCount, accounts, deleted>>
<1> DEFINE row0 == request[r].row
           n == Billing!Cardinality(members) + 1
           x == [pc |-> "seats", add |-> {row0}, drop |-> {}, alone |-> request[r].alone, seats |-> n]
<1>1. request[r] \in Inserting /\ request[r] # Billing!Idle
  <2>1. request[r] \in RequestRecord /\ request[r].pc = "insert"
    BY DEF Billing!CountInvited, BillingTInv, RequestTypes
  <2> QED
    BY <2>1, RequestKinds DEF Billing!Idle
<1>2. row0 \in MemberRow /\ request[r].alone \in BOOLEAN
  BY <1>1 DEF Inserting
<1>3. n \in Nat
  BY MembersNumber
<1>4. request' = [request EXCEPT ![r] = IF Billing!UserRows(row0.email) # {} THEN Billing!Idle ELSE x]
  BY DEF Billing!CountInvited
<1>5. UNCHANGED <<orgPlan, sub, members, used, hook, events, seen, billingCount, accounts, deleted>>
  BY DEF Billing!CountInvited
<1>6. row0.status = "active" =>
        \A q \in Requests : \A m \in Adds(q) : m.email # row0.email
  <2> SUFFICES ASSUME row0.status = "active", NEW q \in Requests, NEW m \in Adds(q)
               PROVE  m.email # row0.email
    OBVIOUS
  <2>1. request[q].pc = "seats" /\ m \in request[q].add
    BY DEF Adds
  <2>2. q \in Billing!Busy(request)
    BY <2>1 DEF Billing!Busy, Billing!Idle, BillingTInv, RequestTypes
  <2> QED
    BY <2>1, <2>2 DEF Billing!CountInvited
<1> HIDE DEF n
<1>7. x \in Counting /\ x.pc = "seats" /\ x.add = {row0} /\ x.drop = {} /\ x.alone = request[r].alone
      /\ x.seats = n
  BY <1>2, <1>3 DEF Counting
<1> HIDE DEF x, row0
<1>8. x \in RequestRecord /\ OneChange(x)
  BY <1>2, <1>7 DEF RequestRecord, OneChange
<1>9. CASE Billing!UserRows(row0.email) # {}
  BY <1>1, <1>4, <1>5, <1>9, IdleRecord, OneRequest DEF MovesTo
<1>10. CASE Billing!UserRows(row0.email) = {}
  <2>1. MovesTo(r, x)
    BY <1>1, <1>4, <1>8, <1>10, OneRequest DEF MovesTo
  <2> QED
    BY <1>1, <1>5, <1>6, <1>7, <1>10, <2>1 DEF n, row0
<1> QED
  BY <1>9, <1>10

LEMMA SyncEffect ==
    ASSUME BillingTInv, NEW r \in Requests, request[r] # Billing!Idle, Billing!SyncSeatCount(r)
    PROVE  /\ request[r] \in Counting /\ MovesTo(r, Billing!Idle)
           /\ members' = (members \ Drops(r)) \cup Adds(r)
           /\ Adds(r) = request[r].add /\ Drops(r) = request[r].drop
           /\ sub' = IF sub = Billing!NoSub THEN Billing!NoSub ELSE [sub EXCEPT !.seats = request[r].seats]
           /\ seen' = [seen EXCEPT !.seatsRaced = ~request[r].alone]
           /\ UNCHANGED <<orgPlan, used, hook, events, billingCount, accounts, deleted>>
<1>1. request[r] \in Counting /\ request[r].pc = "seats"
  <2>1. request[r] \in RequestRecord /\ request[r].pc = "seats"
    BY DEF Billing!SyncSeatCount, BillingTInv, RequestTypes
  <2> QED
    BY <2>1, RequestKinds
<1>2. request' = [request EXCEPT ![r] = Billing!Idle]
  BY DEF Billing!SyncSeatCount
<1>3. MovesTo(r, Billing!Idle)
  BY <1>2, IdleRecord, OneRequest DEF MovesTo
<1> QED
  BY <1>1, <1>3 DEF Billing!SyncSeatCount, Adds, Drops

LEMMA RollBackEffect ==
    ASSUME BillingTInv, NEW r \in Requests, Billing!RollBack(r)
    PROVE  /\ MovesTo(r, Billing!Idle) /\ billingCount' = [billingCount EXCEPT !.failures = @ + 1]
           /\ UNCHANGED <<orgPlan, sub, members, used, hook, events, seen, accounts, deleted>>
<1>1. request' = [request EXCEPT ![r] = Billing!Idle] /\ request[r] # Billing!Idle
  BY DEF Billing!RollBack
<1>2. MovesTo(r, Billing!Idle)
  BY <1>1, IdleRecord, OneRequest DEF MovesTo
<1> QED
  BY <1>2 DEF Billing!RollBack

LEMMA CreateEffect ==
    ASSUME BillingTInv, NEW r \in Requests, request[r] # Billing!Idle, Billing!Create(r)
    PROVE  /\ request[r] \in Creating /\ request[r].resource \in Billing!Resources /\ MovesTo(r, Billing!Idle)
           /\ request[r].pc = "create"
           /\ used' = IF request[r].resource = "developer_profiles" THEN used
                      ELSE [used EXCEPT ![request[r].resource] = @ + 1]
           /\ UNCHANGED <<orgPlan, sub, members, hook, events, seen, billingCount, accounts, deleted>>
<1>1. request[r] \in Creating /\ request[r].pc = "create"
  <2>1. request[r] \in RequestRecord /\ request[r].pc = "create"
    BY DEF Billing!Create, BillingTInv, RequestTypes
  <2> QED
    BY <2>1, RequestKinds
<1>2. request' = [request EXCEPT ![r] = Billing!Idle]
  BY DEF Billing!Create
<1>3. MovesTo(r, Billing!Idle)
  BY <1>2, IdleRecord, OneRequest DEF MovesTo
<1> QED
  BY <1>1, <1>3 DEF Billing!Create, Creating

-----------------------------------------------------------------------------
(* What a delivery does.                                                   *)

SameDelivery(x, y) ==
    /\ x = Billing!Idle <=> y = Billing!Idle
    /\ x # Billing!Idle => x.event = y.event /\ x.found = y.found /\ x.row = y.row

\* A delivery begins: it has read the subscription's row, and knows whether it is alone.
Receives(h, e) ==
    /\ orgPlan # None /\ hook[h] = Billing!Idle /\ HookTypes'
    /\ \/ hook'[h] = Billing!Idle
       \/ /\ hook'[h] \in Delivering /\ hook'[h].row = sub /\ hook'[h].found = Billing!Finds(Events[e])
          /\ hook'[h].alone => \A g \in Hooks : hook[g] = Billing!Idle
    /\ \A g \in Hooks \ {h} :
          /\ SameDelivery(hook'[g], hook[g])
          /\ hook'[g] # Billing!Idle => ~hook'[g].alone

LEMMA ReceiveEffect ==
    ASSUME BillingTInv, NEW h \in Hooks, NEW e \in DOMAIN Events, Billing!ReceiveEvent(h, e)
    PROVE  /\ Receives(h, e) /\ billingCount' = [billingCount EXCEPT !.work = @ + 1]
           /\ UNCHANGED <<orgPlan, sub, members, used, request, events, seen, accounts, deleted>>
<1> DEFINE state == [pc |-> "write", event |-> e, found |-> Billing!Finds(Events[e]), row |-> sub,
                     alone |-> Billing!Busy(hook) = {}]
<1>1. /\ orgPlan # None /\ hook[h] = Billing!Idle
      /\ hook' = [g \in Hooks |->
           IF g = h THEN IF e \in events THEN Billing!Idle ELSE state
           ELSE IF hook[g] = Billing!Idle THEN Billing!Idle ELSE [hook[g] EXCEPT !.alone = FALSE]]
      /\ billingCount' = [billingCount EXCEPT !.work = @ + 1]
      /\ UNCHANGED <<orgPlan, sub, members, used, request, events, seen, accounts, deleted>>
  BY DEF Billing!ReceiveEvent
<1>2. hook \in [Hooks -> {Billing!Idle} \cup Delivering] /\ sub \in SubRow
  BY DEF BillingTInv, HookTypes, RowTypes
<1>3. Billing!Finds(Events[e]) \in BOOLEAN /\ (Billing!Busy(hook) = {}) \in BOOLEAN
  BY DEF Billing!Finds
<1>4. state \in Delivering
  BY <1>2, <1>3 DEF Delivering
<1>5. state.row = sub /\ state.found = Billing!Finds(Events[e]) /\ state.alone = (Billing!Busy(hook) = {})
  OBVIOUS
<1>6. state.alone => \A g \in Hooks : hook[g] = Billing!Idle
  BY <1>2, <1>5 DEF Billing!Busy
<1> HIDE DEF state
<1>7. ASSUME NEW g \in Hooks \ {h}
      PROVE  /\ hook'[g] \in {Billing!Idle} \cup Delivering /\ SameDelivery(hook'[g], hook[g])
             /\ hook'[g] # Billing!Idle => ~hook'[g].alone
  <2>1. CASE hook[g] = Billing!Idle
    BY <1>1, <2>1 DEF SameDelivery
  <2>2. CASE hook[g] # Billing!Idle
    <3>1. hook'[g] = [hook[g] EXCEPT !.alone = FALSE] /\ hook[g] \in Delivering
      BY <1>1, <1>2, <2>2
    <3> QED
      BY <3>1 DEF Delivering, SameDelivery, Billing!Idle
  <2> QED
    BY <2>1, <2>2
<1>8. hook'[h] = Billing!Idle \/ hook'[h] = state
  BY <1>1
<1>9. HookTypes'
  <2>1. \A g \in Hooks : hook'[g] \in {Billing!Idle} \cup Delivering
    BY <1>4, <1>7, <1>8
  <2>2. hook' = [g \in Hooks |-> hook'[g]]
    BY <1>1
  <2> QED
    BY <2>1, <2>2 DEF HookTypes
<1>10. Receives(h, e)
  BY <1>1, <1>4, <1>5, <1>6, <1>7, <1>8, <1>9 DEF Receives
<1> QED
  BY <1>1, <1>10

\* A delivery ends, and the others stay.
Ends(h) ==
    /\ hook[h] \in Delivering /\ hook'[h] = Billing!Idle /\ HookTypes'
    /\ \A g \in Hooks \ {h} : hook'[g] = hook[g]

LEMMA EndEffect ==
    ASSUME BillingTInv, NEW h \in Hooks, hook[h] # Billing!Idle, hook' = [hook EXCEPT ![h] = Billing!Idle]
    PROVE  Ends(h)
<1>1. hook \in [Hooks -> {Billing!Idle} \cup Delivering]
  BY DEF BillingTInv, HookTypes
<1>2. hook' \in [Hooks -> {Billing!Idle} \cup Delivering]
  BY <1>1
<1> QED
  BY <1>1, <1>2 DEF Ends, HookTypes

\* What is written of the subscription: its seats stay, and its plan is set by an
\* update and a deletion only.
WritesRow(h) ==
    LET w == hook[h]
        type == Events[w.event].type
    IN /\ w.found /\ sub' \in SubRow /\ sub'.seats = sub.seats
       /\ \E new \in Billing!Plans :
             /\ sub'.plan = Billing!Column(sub.plan, w.row.plan, new)
             /\ orgPlan' = IF deleted \/ type \notin {"updated", "deleted"} THEN orgPlan ELSE new
             /\ type \notin {"updated", "deleted"} => new = w.row.plan
       /\ seen' \in [plans : SUBSET Billing!Plans, seatsRaced : BOOLEAN, plansRaced : BOOLEAN]
       /\ seen'.plans = seen.plans \cup {orgPlan'} /\ seen'.seatsRaced = seen.seatsRaced
       /\ ~seen'.plansRaced => w.alone /\ (~seen.plansRaced \/ type \in {"updated", "deleted"})

LEMMA DeliverEffect ==
    ASSUME Billing!BillingAssumption, BillingTInv, NEW h \in Hooks, Billing!HandleWebhookEvent(h)
    PROVE  /\ Ends(h) /\ events' \subseteq DOMAIN Events
           /\ WritesRow(h) \/ UNCHANGED <<sub, orgPlan, seen>>
           /\ UNCHANGED <<members, used, request, billingCount, accounts, deleted>>
<1> DEFINE w == hook[h]
           e == Events[w.event]
           new == CASE e.type = "checkout" -> Billing!CheckoutCompleted(w.row, e)
                    [] e.type = "updated"  -> Billing!SubscriptionUpdated(w.row, e)
                    [] e.type = "deleted"  -> Billing!SubscriptionDeleted(w.row)
                    [] OTHER               -> Billing!PaymentFailed(w.row)
<1>1. /\ w # Billing!Idle /\ hook' = [hook EXCEPT ![h] = Billing!Idle]
      /\ events' = events \cup {w.event}
      /\ UNCHANGED <<members, used, request, billingCount, accounts, deleted>>
  BY DEF Billing!HandleWebhookEvent
<1>2. Ends(h) /\ w \in Delivering
  BY <1>1, EndEffect DEF Ends
<1>3. w.event \in DOMAIN Events /\ w.row \in SubRow /\ events' \subseteq DOMAIN Events
  BY <1>1, <1>2 DEF Delivering, BillingTInv, OtherTypes
<1>4. ~w.found => UNCHANGED <<sub, orgPlan, seen>>
  BY DEF Billing!HandleWebhookEvent
<1>5. ASSUME w.found PROVE WritesRow(h)
  <2>1. /\ sub' = Billing!Write(w.row, new)
        /\ orgPlan' = IF deleted THEN orgPlan ELSE Billing!PlanAfter(e, new)
        /\ seen' = [seen EXCEPT !.plans = @ \cup {orgPlan'},
                     !.plansRaced = ~w.alone \/ (@ /\ e.type \notin {"updated", "deleted"})]
    BY <1>5 DEF Billing!HandleWebhookEvent
  <2>2. sub \in SubRow /\ w.row.plan \in Billing!Plans /\ sub # Billing!NoSub
        /\ seen \in [plans : SUBSET Billing!Plans, seatsRaced : BOOLEAN, plansRaced : BOOLEAN]
    BY <1>1, <1>5 DEF BillingTInv, RowTypes, OtherTypes, Found
  <2>3. /\ new \in SubRow /\ new.seats = w.row.seats /\ new.plan \in Billing!Plans
        /\ e.type \notin {"updated", "deleted"} => new.plan = w.row.plan
        /\ e.type = "deleted" => new.plan = "free"
    <3>1. e.status \in Statuses /\ e.id \in Ids /\ "free" \in Billing!Plans
      BY <1>3 DEF Statuses, Ids, Billing!BillingAssumption
    <3>2. {"canceled", "past_due"} \subseteq Statuses /\ None \in Ids
      BY DEF Statuses, Ids
    <3> HIDE DEF w, e
    <3>3. CASE e.type = "checkout"
      BY <1>3, <2>2, <3>1, <3>3 DEF Billing!CheckoutCompleted, SubRow
    <3>4. CASE e.type = "updated"
      <4>1. new = Billing!SubscriptionUpdated(w.row, e)
        BY <3>4
      <4>2. new.plan \in Billing!Plans /\ new.seats = w.row.seats /\ new \in SubRow
        BY <1>3, <2>2, <3>1, <4>1 DEF Billing!SubscriptionUpdated, SubRow
      <4> QED
        BY <3>4, <4>2
    <3>5. CASE e.type = "deleted"
      <4>1. new = Billing!SubscriptionDeleted(w.row)
        BY <3>5
      <4>2. new \in SubRow /\ new.plan = "free" /\ new.seats = w.row.seats
        BY <1>3, <3>1, <3>2, <4>1 DEF Billing!SubscriptionDeleted, SubRow
      <4> QED
        BY <3>1, <3>5, <4>2
    <3>6. CASE e.type \notin {"checkout", "updated", "deleted"}
      <4>1. new = Billing!PaymentFailed(w.row)
        BY <3>6
      <4>2. new \in SubRow /\ new.plan = w.row.plan /\ new.seats = w.row.seats
        BY <1>3, <3>2, <4>1 DEF Billing!PaymentFailed, SubRow
      <4> QED
        BY <2>2, <3>6, <4>2
    <3> QED
      BY <3>3, <3>4, <3>5, <3>6
  <2> HIDE DEF new
  <2>4. /\ sub' \in SubRow /\ sub'.seats = sub.seats
        /\ sub'.plan = Billing!Column(sub.plan, w.row.plan, new.plan)
    BY <1>3, <2>1, <2>2, <2>3 DEF Billing!Write, Billing!Column, SubRow
  <2>5. Billing!PlanAfter(e, new) = IF e.type \in {"updated", "deleted"} THEN new.plan ELSE orgPlan
    <3> HIDE DEF e
    <3> QED
      BY <2>3 DEF Billing!PlanAfter
  <2>6. orgPlan' = IF deleted \/ e.type \notin {"updated", "deleted"} THEN orgPlan ELSE new.plan
    BY <2>1, <2>5
  <2>7. orgPlan' \in Billing!Plans
    <3>1. orgPlan \in Billing!Plans \cup {None} /\ orgPlan # None
      BY <1>1 DEF BillingTInv, RowTypes, Unborn
    <3> QED
      BY <2>3, <2>6, <3>1
  <2>8. /\ seen' \in [plans : SUBSET Billing!Plans, seatsRaced : BOOLEAN, plansRaced : BOOLEAN]
        /\ seen'.plans = seen.plans \cup {orgPlan'} /\ seen'.seatsRaced = seen.seatsRaced
        /\ seen'.plansRaced = (~w.alone \/ (seen.plansRaced /\ e.type \notin {"updated", "deleted"}))
    <3>1. (~w.alone \/ (seen.plansRaced /\ e.type \notin {"updated", "deleted"})) \in BOOLEAN
      OBVIOUS
    <3> DEFINE b == ~w.alone \/ (seen.plansRaced /\ e.type \notin {"updated", "deleted"})
    <3>2. seen' = [seen EXCEPT !.plans = seen.plans \cup {orgPlan'}, !.plansRaced = b]
      BY <2>1
    <3> HIDE DEF b
    <3>3. b \in BOOLEAN
      BY <3>1 DEF b
    <3>4. /\ seen' \in [plans : SUBSET Billing!Plans, seatsRaced : BOOLEAN, plansRaced : BOOLEAN]
          /\ seen'.plans = seen.plans \cup {orgPlan'} /\ seen'.seatsRaced = seen.seatsRaced
          /\ seen'.plansRaced = b
      BY <2>2, <2>7, <3>2, <3>3
    <3> QED
      BY <3>4 DEF b
  <2>9. ~seen'.plansRaced => w.alone /\ (~seen.plansRaced \/ e.type \in {"updated", "deleted"})
    BY <2>8
  <2> QED
    BY <1>5, <2>3, <2>4, <2>6, <2>8, <2>9 DEF WritesRow
<1> QED
  BY <1>1, <1>2, <1>3, <1>4, <1>5

LEMMA FailEffect ==
    ASSUME BillingTInv, NEW h \in Hooks, Billing!WebhookFails(h)
    PROVE  /\ Ends(h) /\ billingCount' = [billingCount EXCEPT !.failures = @ + 1]
           /\ UNCHANGED <<orgPlan, sub, members, used, request, events, seen, accounts, deleted>>
  BY EndEffect DEF Billing!WebhookFails

-----------------------------------------------------------------------------
(* The types are an invariant.                                             *)

\* The organisation's and the subscription's columns and the deliveries stay.
BillingKept == UNCHANGED <<orgPlan, sub, hook, events, seen, accounts, deleted>>

LEMMA CountGrows ==
    ASSUME BillingTInv, \/ billingCount' = billingCount
                        \/ billingCount' = [billingCount EXCEPT !.work = @ + 1]
                        \/ billingCount' = [billingCount EXCEPT !.failures = @ + 1]
    PROVE  billingCount' \in [work : Nat, failures : Nat] /\ billingCount'.work >= billingCount.work
<1>1. billingCount \in [work : Nat, failures : Nat]
  BY DEF BillingTInv, OtherTypes
<1> QED
  BY <1>1

\* A step of a request, with members and rows that have their types.
LEMMA RequestTypesKept ==
    ASSUME BillingTInv, BillingKept, RequestTypes', orgPlan # None,
           members' \subseteq MemberRow, Billing!IsFiniteSet(members'), used' \in [Billing!Resources -> Nat],
           billingCount' \in [work : Nat, failures : Nat]
    PROVE  BillingTInv'
  BY DEF BillingTInv, BillingKept, HookTypes, RowTypes, OtherTypes, Unborn, PlansSeen, Found

LEMMA BusyIsBorn ==
    ASSUME BillingTInv
    PROVE  /\ \A r \in Requests : request[r] # Billing!Idle => orgPlan # None
           /\ \A h \in Hooks : hook[h] # Billing!Idle => orgPlan # None
           /\ members # {} => orgPlan # None
           /\ \A k \in Billing!Resources : used[k] > 0 => orgPlan # None
<1>1. /\ \A r \in Requests : request[r] # Billing!Idle => orgPlan # None
      /\ \A h \in Hooks : hook[h] # Billing!Idle => orgPlan # None
      /\ members # {} => orgPlan # None
  BY DEF BillingTInv, Unborn
<1>2. \A k \in Billing!Resources : used[k] > 0 => orgPlan # None
  BY DEF BillingTInv, Unborn
<1> QED
  BY <1>1, <1>2

LEMMA SyncMembers ==
    ASSUME BillingTInv, NEW r \in Requests, request[r] \in Counting,
           members' = (members \ Drops(r)) \cup Adds(r)
    PROVE  /\ members' \subseteq MemberRow /\ Billing!IsFiniteSet(members')
           /\ Billing!IsFiniteSet(members \ Drops(r)) /\ Billing!IsFiniteSet(Adds(r))
<1>1. request[r].pc = "seats" /\ request[r].add \subseteq MemberRow
  BY DEF Counting
<1>2. Billing!IsFiniteSet(request[r].add)
  <2>1. OneChange(request[r])
    BY DEF BillingTInv, RequestTypes
  <2>2. request[r].add = {} \/ \E a \in MemberRow : request[r].add = {a}
    BY <1>1, <2>1 DEF OneChange
  <2>3. CASE request[r].add = {}
    BY <2>3, BillingFS_EmptySet
  <2>4. CASE \E a \in MemberRow : request[r].add = {a}
    <3>1. PICK a \in MemberRow : request[r].add = {a}
      BY <2>4
    <3> QED
      BY <3>1, BillingFS_Singleton
  <2> QED
    BY <2>2, <2>3, <2>4
<1>3. Billing!IsFiniteSet(members \ Drops(r))
  BY MembersNumber, BillingFS_Difference
<1> QED
  BY <1>1, <1>2, <1>3, MembersNumber, BillingFS_Union DEF Adds

LEMMA CreateOrgTypes ==
    ASSUME Billing!BillingAssumption, BillingTInv, Billing!CreateOrg
    PROVE  /\ BillingTInv' /\ orgPlan = None /\ orgPlan' = "free"
           /\ \E m \in MemberRow : members' = {m} /\ m.n = 0 /\ m.role = "owner"
           /\ sub' = Billing!NoSub \/ (sub'.plan = "free" /\ sub'.seats = 1)
           /\ \A k \in Billing!Resources : used'[k] = IF k = "projects" THEN 1 ELSE 0
           /\ seen'.plans = {"free"} /\ seen'.seatsRaced = seen.seatsRaced
           /\ seen'.plansRaced = seen.plansRaced
           /\ UNCHANGED <<request, hook, events, billingCount, accounts, deleted>>
<1> DEFINE m == Billing!Row(0, Owner, "owner")
<1>1. m \in MemberRow /\ m.n = 0 /\ m.role = "owner"
  BY DEF Billing!Row, MemberRow
<1>2. /\ orgPlan = None /\ orgPlan' = "free" /\ members' = {m}
      /\ used' = [used EXCEPT !["projects"] = 1]
      /\ sub' \in {Billing!NoSub, [plan |-> "free", status |-> "active", id |-> None, seats |-> 1]}
      /\ seen' = [seen EXCEPT !.plans = {"free"}]
      /\ UNCHANGED <<request, hook, events, billingCount, accounts, deleted>>
  BY DEF Billing!CreateOrg
<1> HIDE DEF m
<1>3. "free" \in Billing!Plans /\ None \notin Billing!Plans
  BY DEF Billing!BillingAssumption
<1>4. \A h \in Hooks : hook[h] = Billing!Idle
  BY <1>2 DEF BillingTInv, Unborn
<1>5. /\ sub' \in SubRow /\ (sub' = Billing!NoSub \/ (sub'.plan = "free" /\ sub'.seats = 1))
  <2>1. Billing!NoSub \in SubRow
    BY DEF Billing!NoSub, SubRow, Statuses, Ids
  <2>2. [plan |-> "free", status |-> "active", id |-> None, seats |-> 1] \in SubRow
    BY <1>3 DEF SubRow, Statuses, Ids
  <2> QED
    BY <1>2, <2>1, <2>2
<1>6. members' \subseteq MemberRow /\ Billing!IsFiniteSet(members')
  BY <1>1, <1>2, BillingFS_Singleton
<1>7. used' \in [Billing!Resources -> Nat]
  BY <1>2 DEF BillingTInv, RowTypes
<1>8. /\ seen' \in [plans : SUBSET Billing!Plans, seatsRaced : BOOLEAN, plansRaced : BOOLEAN]
      /\ seen'.plans = {"free"} /\ seen'.seatsRaced = seen.seatsRaced
      /\ seen'.plansRaced = seen.plansRaced
  BY <1>2, <1>3 DEF BillingTInv, OtherTypes
<1>9. \A k \in Billing!Resources : used'[k] = IF k = "projects" THEN 1 ELSE 0
  <2>1. used = [k \in Billing!Resources |-> 0]
    BY <1>2 DEF BillingTInv, Unborn
  <2> QED
    BY <1>2, <2>1
<1>10. RowTypes' /\ OtherTypes'
  BY <1>2, <1>3, <1>5, <1>6, <1>7, <1>8 DEF RowTypes, OtherTypes, BillingTInv
<1>11. Unborn' /\ PlansSeen' /\ Found'
  BY <1>2, <1>3, <1>4, <1>8 DEF Unborn, PlansSeen, Found
<1>12. RequestTypes' /\ HookTypes'
  BY <1>2 DEF BillingTInv, RequestTypes, HookTypes
<1>13. BillingTInv'
  BY <1>10, <1>11, <1>12 DEF BillingTInv
<1> QED
  BY <1>1, <1>2, <1>5, <1>8, <1>9, <1>13

\* A change of role keeps who a row is.
LEMMA ChangeRoleEffect ==
    ASSUME BillingTInv, NEW actor \in members, NEW row0 \in members,
           NEW role \in {"owner", "admin", "member"}, Billing!ChangeRole(actor, row0, role)
    PROVE  \E new \in MemberRow :
              /\ members' = (members \ {row0}) \cup {new} /\ Billing!IsFiniteSet(members')
              /\ new.n = row0.n /\ new.email = row0.email /\ new.status = row0.status
              /\ ~Billing!BeingRemoved(row0)
              /\ UNCHANGED <<orgPlan, sub, used, request, hook, events, seen, billingCount, accounts, deleted>>
<1> DEFINE new == [row0 EXCEPT !.role = role]
<1>1. row0 \in MemberRow
  BY MembersNumber
<1>2. new \in MemberRow /\ new.n = row0.n /\ new.email = row0.email /\ new.status = row0.status
  BY <1>1 DEF MemberRow
<1>3. /\ members' = (members \ {row0}) \cup {new} /\ ~Billing!BeingRemoved(row0)
      /\ UNCHANGED <<orgPlan, sub, used, request, hook, events, seen, billingCount, accounts, deleted>>
  BY DEF Billing!ChangeRole
<1> HIDE DEF new
<1>4. Billing!IsFiniteSet(members')
  BY <1>3, MembersNumber, BillingFS_RemoveElement, BillingFS_AddElement
<1> QED
  BY <1>2, <1>3, <1>4

LEMMA BillingTypesNext == Billing!BillingAssumption /\ BillingTInv /\ [Billing!Next]_Billing!billingVars => BillingTInv'
<1> SUFFICES ASSUME Billing!BillingAssumption, BillingTInv, [Billing!Next]_Billing!billingVars PROVE BillingTInv'
  OBVIOUS
<1> USE DEF BillingKept
<1>0. /\ used \in [Billing!Resources -> Nat] /\ members \subseteq MemberRow /\ Billing!IsFiniteSet(members)
  BY DEF BillingTInv, RowTypes
<1>1. CASE Billing!CreateOrg
  BY <1>1, CreateOrgTypes
<1>2. CASE Billing!DeleteOrg
  BY <1>2
     DEF Billing!DeleteOrg, BillingTInv, RequestTypes, HookTypes, RowTypes, OtherTypes, Unborn, PlansSeen,
         Found
<1>3. ASSUME NEW email \in Others, Billing!AutoProvision(email) PROVE BillingTInv'
  BY <1>3
     DEF Billing!AutoProvision, BillingTInv, RequestTypes, HookTypes, RowTypes, OtherTypes, Unborn,
         PlansSeen, Found
<1>4. ASSUME NEW k \in Billing!Resources, Billing!Delete(k) PROVE BillingTInv'
  <2>1. /\ used[k] > 0 /\ used' = [used EXCEPT ![k] = @ - 1] /\ used[k] \in Nat
        /\ UNCHANGED <<orgPlan, sub, members, request, hook, events, seen, billingCount, accounts, deleted>>
    BY <1>0, <1>4 DEF Billing!Delete
  <2>2. used' \in [Billing!Resources -> Nat]
    BY <1>0, <2>1
  <2>3. RequestTypes' /\ orgPlan # None
    BY <2>1, BusyIsBorn DEF BillingTInv, RequestTypes
  <2> QED
    BY <1>0, <2>1, <2>2, <2>3, CountGrows, RequestTypesKept
<1>5. ASSUME NEW r \in Requests, NEW email \in Others, NEW role \in {"admin", "member"},
             Billing!CheckInvite(r, email, role)
      PROVE  BillingTInv'
  BY <1>0, <1>5, InviteEffect, CountGrows, RequestTypesKept DEF Begins
<1>6. ASSUME NEW r \in Requests, NEW row0 \in members, Billing!RemoveMember(r, row0) PROVE BillingTInv'
  BY <1>0, <1>6, RemoveEffect, CountGrows, RequestTypesKept DEF Begins
<1>7. ASSUME NEW r \in Requests, NEW k \in Billing!Resources, Billing!CheckLimit(r, k) PROVE BillingTInv'
  BY <1>0, <1>7, CheckLimitEffect, CountGrows, RequestTypesKept DEF Begins
<1>8. ASSUME NEW r \in Requests, request[r] # Billing!Idle, Billing!CountInvited(r) PROVE BillingTInv'
  BY <1>0, <1>8, CountInvitedEffect, CountGrows, RequestTypesKept, BusyIsBorn DEF MovesTo
<1>9. ASSUME NEW r \in Requests, request[r] # Billing!Idle, Billing!RollBack(r) PROVE BillingTInv'
  BY <1>0, <1>9, RollBackEffect, CountGrows, RequestTypesKept, BusyIsBorn DEF MovesTo
<1>10. ASSUME NEW r \in Requests, request[r] # Billing!Idle, Billing!Create(r) PROVE BillingTInv'
  <2>1. used' \in [Billing!Resources -> Nat]
    BY <1>0, <1>10, CreateEffect
  <2> QED
    BY <1>0, <1>10, <2>1, CreateEffect, CountGrows, RequestTypesKept, BusyIsBorn DEF MovesTo
<1>11. ASSUME NEW r \in Requests, request[r] # Billing!Idle, Billing!SyncSeatCount(r) PROVE BillingTInv'
  <2>1. /\ request[r] \in Counting /\ MovesTo(r, Billing!Idle)
        /\ members' = (members \ Drops(r)) \cup Adds(r)
        /\ sub' = IF sub = Billing!NoSub THEN Billing!NoSub ELSE [sub EXCEPT !.seats = request[r].seats]
        /\ seen' = [seen EXCEPT !.seatsRaced = ~request[r].alone]
        /\ UNCHANGED <<orgPlan, used, hook, events, billingCount, accounts, deleted>>
    BY <1>11, SyncEffect
  <2>2. members' \subseteq MemberRow /\ Billing!IsFiniteSet(members')
    BY <2>1, SyncMembers
  <2>3. orgPlan # None /\ request[r].seats \in Nat /\ request[r].alone \in BOOLEAN
    BY <1>11, <2>1, BusyIsBorn DEF Counting
  <2>4. /\ sub' \in SubRow /\ (sub' = Billing!NoSub \/ sub'.plan \in Billing!Plans)
        /\ sub'.plan = sub.plan
    BY <2>1, <2>3 DEF BillingTInv, RowTypes, SubRow
  <2>5. sub # Billing!NoSub => sub' # Billing!NoSub
    <3>1. sub # Billing!NoSub => sub.plan # None
      BY DEF BillingTInv, RowTypes, Billing!BillingAssumption
    <3> QED
      BY <2>4, <3>1 DEF Billing!NoSub
  <2>6. seen' \in [plans : SUBSET Billing!Plans, seatsRaced : BOOLEAN, plansRaced : BOOLEAN]
        /\ seen'.plans = seen.plans
    BY <2>1, <2>3 DEF BillingTInv, OtherTypes
  <2>7. RowTypes' /\ OtherTypes' /\ RequestTypes' /\ HookTypes'
    BY <2>1, <2>2, <2>4, <2>6 DEF BillingTInv, RowTypes, OtherTypes, MovesTo, HookTypes
  <2>8. Unborn' /\ PlansSeen' /\ Found'
    BY <2>1, <2>3, <2>5, <2>6 DEF BillingTInv, Unborn, PlansSeen, Found
  <2> QED
    BY <2>7, <2>8 DEF BillingTInv
<1>12. ASSUME NEW actor \in members, NEW row0 \in members,
              NEW role \in {"owner", "admin", "member"}, Billing!ChangeRole(actor, row0, role)
       PROVE  BillingTInv'
  <2>1. PICK new \in MemberRow :
          /\ members' = (members \ {row0}) \cup {new} /\ Billing!IsFiniteSet(members')
          /\ UNCHANGED <<orgPlan, sub, used, request, hook, events, seen, billingCount, accounts, deleted>>
    BY <1>12, ChangeRoleEffect
  <2>2. members' \subseteq MemberRow
    BY <1>0, <2>1
  <2>3. RequestTypes' /\ orgPlan # None
    BY <2>1, BusyIsBorn DEF BillingTInv, RequestTypes
  <2> QED
    BY <1>0, <2>1, <2>2, <2>3, CountGrows, RequestTypesKept
<1>13. ASSUME NEW h \in Hooks, NEW e \in DOMAIN Events, Billing!ReceiveEvent(h, e) PROVE BillingTInv'
  <2>1. /\ Receives(h, e) /\ billingCount' = [billingCount EXCEPT !.work = @ + 1]
        /\ UNCHANGED <<orgPlan, sub, members, used, request, events, seen, accounts, deleted>>
    BY <1>13, ReceiveEffect
  <2>2. Found'
    <3> SUFFICES ASSUME NEW g \in Hooks, hook'[g] # Billing!Idle, hook'[g].found
                 PROVE  sub' # Billing!NoSub /\ hook'[g].row.plan \in Billing!Plans
      BY DEF Found
    <3>1. CASE g = h
      <4>1. Billing!Finds(Events[e]) /\ hook'[g].row = sub
        BY <2>1, <3>1 DEF Receives
      <4> QED
        BY <2>1, <4>1 DEF Billing!Finds, BillingTInv, RowTypes
    <3>2. CASE g # h
      <4>1. hook[g] # Billing!Idle /\ hook[g].found /\ hook'[g].row = hook[g].row
        BY <2>1, <3>2 DEF Receives, SameDelivery
      <4> QED
        BY <2>1, <4>1 DEF BillingTInv, Found
    <3> QED
      BY <3>1, <3>2
  <2>3. orgPlan # None /\ HookTypes'
    BY <2>1 DEF Receives
  <2>4. billingCount' \in [work : Nat, failures : Nat]
    BY <2>1, CountGrows
  <2> QED
    BY <2>1, <2>2, <2>3, <2>4 DEF BillingTInv, RequestTypes, RowTypes, OtherTypes, Unborn, PlansSeen
<1>14. ASSUME NEW h \in Hooks, Billing!HandleWebhookEvent(h) PROVE BillingTInv'
  <2>1. /\ Ends(h) /\ events' \subseteq DOMAIN Events
        /\ WritesRow(h) \/ UNCHANGED <<sub, orgPlan, seen>>
        /\ UNCHANGED <<members, used, request, billingCount, accounts, deleted>>
    BY <1>14, DeliverEffect
  <2>2. orgPlan # None /\ hook[h] # Billing!Idle
    BY <2>1, BusyIsBorn DEF Ends, Delivering, Billing!Idle
  <2>3. CASE UNCHANGED <<sub, orgPlan, seen>>
    BY <2>1, <2>2, <2>3
       DEF Ends, BillingTInv, RequestTypes, RowTypes, OtherTypes, Unborn, PlansSeen, Found
  <2>4. CASE WritesRow(h)
    <3>1. PICK new \in Billing!Plans :
             /\ sub'.plan = Billing!Column(sub.plan, hook[h].row.plan, new)
             /\ orgPlan' = IF deleted \/ Events[hook[h].event].type \notin {"updated", "deleted"}
                           THEN orgPlan ELSE new
      BY <2>4 DEF WritesRow
    <3>2. /\ sub' \in SubRow /\ hook[h].found
          /\ seen' \in [plans : SUBSET Billing!Plans, seatsRaced : BOOLEAN, plansRaced : BOOLEAN]
          /\ seen'.plans = seen.plans \cup {orgPlan'}
      BY <2>4 DEF WritesRow
    <3>3. sub.plan \in Billing!Plans /\ None \notin Billing!Plans
      BY <2>2, <3>2 DEF BillingTInv, RowTypes, Found, Billing!BillingAssumption
    <3>4. sub'.plan \in Billing!Plans /\ sub' # Billing!NoSub
      BY <3>1, <3>3 DEF Billing!Column, Billing!NoSub
    <3>5. orgPlan' \in Billing!Plans /\ orgPlan' # None
      BY <2>2, <3>1, <3>3 DEF BillingTInv, RowTypes
    <3>6. RowTypes' /\ OtherTypes'
      BY <2>1, <3>2, <3>4, <3>5 DEF BillingTInv, RowTypes, OtherTypes
    <3>7. Unborn' /\ PlansSeen' /\ Found'
      BY <2>1, <2>2, <3>2, <3>4, <3>5 DEF BillingTInv, Unborn, PlansSeen, Found, Ends
    <3> QED
      BY <2>1, <3>6, <3>7 DEF BillingTInv, RequestTypes, Ends
  <2> QED
    BY <2>1, <2>3, <2>4
<1>15. ASSUME NEW h \in Hooks, Billing!WebhookFails(h) PROVE BillingTInv'
  <2>1. /\ Ends(h) /\ billingCount' = [billingCount EXCEPT !.failures = @ + 1]
        /\ UNCHANGED <<orgPlan, sub, members, used, request, events, seen, accounts, deleted>>
    BY <1>15, FailEffect
  <2>2. orgPlan # None
    BY <2>1, BusyIsBorn DEF Ends, Delivering, Billing!Idle
  <2>3. billingCount' \in [work : Nat, failures : Nat]
    BY <2>1, CountGrows
  <2> QED
    BY <2>1, <2>2, <2>3
       DEF Ends, BillingTInv, RequestTypes, RowTypes, OtherTypes, Unborn, PlansSeen, Found
<1>16. CASE UNCHANGED Billing!billingVars
  BY <1>16
     DEF Billing!billingVars, BillingTInv, RequestTypes, HookTypes, RowTypes, OtherTypes, Unborn, PlansSeen,
         Found
<1> QED
  BY <1>1, <1>2, <1>3, <1>4, <1>5, <1>6, <1>7, <1>8, <1>9, <1>10, <1>11, <1>12, <1>13, <1>14,
     <1>15, <1>16 DEF Billing!Next

LEMMA BillingTypesInit == Billing!BillingAssumption /\ Billing!Init => BillingTInv
<1> SUFFICES ASSUME Billing!BillingAssumption, Billing!Init PROVE BillingTInv
  OBVIOUS
<1>1. RequestTypes /\ HookTypes
  BY IdleRecord DEF Billing!Init, RequestTypes, HookTypes
<1>2. RowTypes
  BY BillingFS_EmptySet DEF Billing!Init, RowTypes, Billing!NoSub, SubRow, Statuses, Ids
<1>3. OtherTypes
  <2>1. seen \in [plans : SUBSET Billing!Plans, seatsRaced : BOOLEAN, plansRaced : BOOLEAN]
    BY DEF Billing!Init
  <2>2. billingCount \in [work : Nat, failures : Nat]
    BY DEF Billing!Init
  <2>3. events \subseteq DOMAIN Events /\ accounts \subseteq Others /\ deleted \in BOOLEAN
    BY DEF Billing!Init, Billing!BillingAssumption
  <2> QED
    BY <2>1, <2>2, <2>3 DEF OtherTypes
<1>4. Unborn /\ PlansSeen /\ Found
  BY DEF Billing!Init, Unborn, PlansSeen, Found
<1> QED
  BY <1>1, <1>2, <1>3, <1>4 DEF BillingTInv

-----------------------------------------------------------------------------
(* The membership rows.                                                    *)

\* A row's number is its own, whether the row is there or about to be.
Numbered ==
    /\ \A m \in members : m.n <= billingCount.work
    /\ \A r \in Requests : \A p \in Pending(r) : p.n <= billingCount.work
OneNumber ==
    /\ \A m, q \in members : m.n = q.n => m = q
    /\ \A r \in Requests : \A p \in Pending(r) : \A m \in members : m.n # p.n
    /\ \A r, s \in Requests : r # s => \A p \in Pending(r), q \in Pending(s) : p.n # q.n

\* An account has one active row, or one request that is about to add it.
OneUser ==
    /\ \A m, q \in members : m.status = "active" /\ m.email = q.email /\ q.status = "active" => m = q
    /\ \A r \in Requests : \A p \in Adds(r) : p.status = "active" => Billing!UserRows(p.email) = {}
    /\ \A r, s \in Requests : r # s =>
          \A p \in Adds(r), q \in Adds(s) : p.status = "active" /\ q.status = "active" => p.email # q.email

\* What a request removes is there, and no other request removes it.
OneRemover ==
    /\ \A r \in Requests : Drops(r) \subseteq members
    /\ \A r, s \in Requests : r # s => Drops(r) \cap Drops(s) = {}

MInv == Numbered /\ OneNumber /\ OneUser /\ OneRemover

(* What a request that overlaps no other counts.                           *)

\* A request that is alone has nobody beside it, and has counted what it will leave.
AloneRequest ==
    \A r \in Requests : request[r] # Billing!Idle /\ request[r].alone =>
       /\ \A q \in Requests \ {r} : request[q] = Billing!Idle
       /\ request[r].pc = "seats" =>
             request[r].seats = IF request[r].add # {} THEN Billing!Cardinality(members) + 1
                                                       ELSE Billing!Cardinality(members) - 1
AInv == AloneRequest /\ Billing!SeatsCounted

(* What a delivery that overlaps no other has read.                        *)

AloneDelivery ==
    \A h \in Hooks : hook[h] # Billing!Idle /\ hook[h].alone =>
       /\ \A g \in Hooks \ {h} : hook[g] = Billing!Idle
       /\ hook[h].found => hook[h].row.plan = sub.plan
PInv == AloneDelivery /\ Billing!PlansAgree

(* How far a limit is overrun.                                             *)

PendingFor(k) == {r \in Requests : Wants(r) = k}
BillingHeld(k) == IF k = "org_members" THEN Billing!Cardinality(members) ELSE used[k]
First(k) == IF k = "org_members" THEN 1 ELSE 0

\* There is what came with the organisation, or some plan's limit was checked by
\* those who have written and those who are about to.
Room(k) ==
    \/ PendingFor(k) = {} /\ BillingHeld(k) <= First(k)
    \/ \E p \in seen.plans :
          BillingHeld(k) + Billing!Cardinality(PendingFor(k)) <= PlanLimit[p][k] + Billing!Cardinality(Requests) - 1
RInv == \A k \in Billing!Enforced \cup {"org_members"} : Room(k)

-----------------------------------------------------------------------------
(* Rows are told apart, in every step.                                     *)

\* A request of which nothing is left is about to do nothing.
LEMMA Views ==
    ASSUME BillingTInv, NEW r \in Requests
    PROVE  /\ request[r] = Billing!Idle => Pending(r) = {} /\ Adds(r) = {} /\ Drops(r) = {} /\ Wants(r) = "none"
           /\ request[r] \in Inserting =>
                 Pending(r) = {request[r].row} /\ Adds(r) = {} /\ Drops(r) = {} /\ Wants(r) = "org_members"
           /\ request[r] \in Counting =>
                 /\ Pending(r) = request[r].add /\ Adds(r) = request[r].add /\ Drops(r) = request[r].drop
                 /\ Wants(r) = IF request[r].add # {} THEN "org_members" ELSE "none"
           /\ request[r] \in Creating =>
                 Pending(r) = {} /\ Adds(r) = {} /\ Drops(r) = {} /\ Wants(r) = request[r].resource
  BY DEF Pending, Adds, Drops, Wants, Billing!Idle, Inserting, Counting, Creating

LEMMA PendingRows ==
    ASSUME BillingTInv, NEW r \in Requests
    PROVE  Pending(r) \subseteq MemberRow /\ Adds(r) \subseteq Pending(r)
<1>1. request[r] \in RequestRecord
  BY DEF BillingTInv, RequestTypes
<1> QED
  BY <1>1, RequestKinds DEF Pending, Adds, Inserting, Counting

\* Whatever leaves the rows alone, and the requests with no more to do.
LEMMA RowsKept ==
    ASSUME BillingTInv, MInv, members' = members, billingCount' \in [work : Nat, failures : Nat],
           billingCount'.work >= billingCount.work,
           \A q \in Requests : /\ Pending(q)' \subseteq Pending(q) /\ Adds(q)' \subseteq Adds(q)
                               /\ Drops(q)' \subseteq Drops(q)
    PROVE  MInv'
<1>1. /\ members \subseteq MemberRow /\ billingCount.work \in Nat /\ billingCount'.work \in Nat
      /\ \A q \in Requests : Pending(q) \subseteq MemberRow
  BY MembersNumber, PendingRows
<1>2. Numbered'
  <2>1. ASSUME NEW m \in MemberRow, m.n <= billingCount.work PROVE m.n <= billingCount'.work
    BY <1>1, <2>1 DEF MemberRow
  <2> QED
    BY <1>1, <2>1 DEF MInv, Numbered
<1>3. OneNumber'
  BY DEF MInv, OneNumber
<1>4. OneUser'
  <2>1. \A email : Billing!UserRows(email)' = Billing!UserRows(email)
    BY DEF Billing!UserRows
  <2> QED
    BY <2>1 DEF MInv, OneUser
<1>5. OneRemover'
  BY DEF MInv, OneRemover
<1> QED
  BY <1>2, <1>3, <1>4, <1>5 DEF MInv

LEMMA SameRows ==
    ASSUME BillingTInv, MInv, members' = members, request' = request,
           billingCount' \in [work : Nat, failures : Nat], billingCount'.work >= billingCount.work
    PROVE  MInv'
<1>1. \A q \in Requests : Pending(q)' = Pending(q) /\ Adds(q)' = Adds(q) /\ Drops(q)' = Drops(q)
  BY DEF Pending, Adds, Drops
<1> QED
  BY <1>1, RowsKept

LEMMA CountStays == BillingTInv => billingCount \in [work : Nat, failures : Nat] /\ billingCount.work >= billingCount.work
<1> SUFFICES ASSUME BillingTInv PROVE billingCount \in [work : Nat, failures : Nat] /\ billingCount.work >= billingCount.work
  OBVIOUS
<1>1. billingCount \in [work : Nat, failures : Nat]
  BY DEF BillingTInv, OtherTypes
<1> QED
  BY <1>1

\* A request that ends, or begins with no row, leaves the rows as they are told apart.
LEMMA LessToDo ==
    ASSUME BillingTInv, BillingTInv', MInv, members' = members, NEW r \in Requests,
           request'[r] = Billing!Idle \/ request'[r] \in Creating,
           \A q \in Requests \ {r} : SameRequest(q),
           billingCount' \in [work : Nat, failures : Nat], billingCount'.work >= billingCount.work
    PROVE  MInv'
<1>1. \A q \in Requests : /\ Pending(q)' \subseteq Pending(q) /\ Adds(q)' \subseteq Adds(q)
                          /\ Drops(q)' \subseteq Drops(q)
  <2> TAKE q \in Requests
  <2>1. CASE q = r
    <3>1. Pending(q)' = {} /\ Adds(q)' = {} /\ Drops(q)' = {}
      BY <2>1 DEF Pending, Adds, Drops, Billing!Idle, Creating
    <3> QED
      BY <3>1
  <2>2. CASE q # r
    BY <2>2, SameView
  <2> QED
    BY <2>1, <2>2
<1> QED
  BY <1>1, RowsKept

LEMMA InviteRows ==
    ASSUME BillingTInv, MInv, NEW r \in Requests, NEW state \in Inserting, Begins(r, state),
           state.row.n = billingCount.work + 1, members' = members
    PROVE  MInv'
<1>1. /\ Pending(r)' = {state.row} /\ Adds(r)' = {} /\ Drops(r)' = {}
  BY DEF Begins, Pending, Adds, Drops, Inserting
<1>2. \A q \in Requests \ {r} : Pending(q)' = Pending(q) /\ Adds(q)' = Adds(q) /\ Drops(q)' = Drops(q)
  BY SameView DEF Begins
<1>3. /\ members \subseteq MemberRow /\ billingCount.work \in Nat /\ billingCount'.work = billingCount.work + 1
      /\ \A q \in Requests : Pending(q) \subseteq MemberRow
  <2>1. billingCount \in [work : Nat, failures : Nat] /\ billingCount' = [billingCount EXCEPT !.work = @ + 1]
    BY DEF BillingTInv, OtherTypes, Begins
  <2> QED
    BY <2>1, MembersNumber, PendingRows
<1>4. /\ \A m \in members : m.n <= billingCount.work
      /\ \A q \in Requests : \A p \in Pending(q) : p.n <= billingCount.work
  BY DEF MInv, Numbered
<1>5. ASSUME NEW m \in MemberRow, m.n <= billingCount.work
      PROVE  m.n <= billingCount'.work /\ m.n # state.row.n
  BY <1>3, <1>5 DEF MemberRow
<1>6. Numbered'
  <2>1. \A m \in members' : m.n <= billingCount'.work
    BY <1>3, <1>4, <1>5
  <2>2. ASSUME NEW q \in Requests, NEW p \in Pending(q)' PROVE p.n <= billingCount'.work
    <3>1. CASE q = r
      BY <1>1, <1>3, <2>2, <3>1
    <3>2. CASE q # r
      BY <1>2, <1>3, <1>4, <1>5, <2>2, <3>2
    <3> QED
      BY <3>1, <3>2
  <2> QED
    BY <2>1, <2>2 DEF Numbered
<1>7. OneNumber'
  <2>1. \A m \in members : m.n # state.row.n
    BY <1>3, <1>4, <1>5
  <2>2. \A q \in Requests : \A p \in Pending(q) : p.n # state.row.n
    BY <1>3, <1>4, <1>5
  <2>3. \A q \in Requests : \A p \in Pending(q)' : \A m \in members' : m.n # p.n
    BY <1>1, <1>2, <2>1 DEF MInv, OneNumber
  <2>4. \A q, s \in Requests : q # s => \A p \in Pending(q)', x \in Pending(s)' : p.n # x.n
    BY <1>1, <1>2, <2>2 DEF MInv, OneNumber
  <2> QED
    BY <2>3, <2>4 DEF MInv, OneNumber
<1>8. OneUser'
  <2>1. \A email : Billing!UserRows(email)' = Billing!UserRows(email)
    BY DEF Billing!UserRows
  <2>2. \A q \in Requests : Adds(q)' \subseteq Adds(q)
    BY <1>1, <1>2
  <2> QED
    BY <2>1, <2>2 DEF MInv, OneUser
<1>9. OneRemover'
  <2>1. \A q \in Requests : Drops(q)' \subseteq Drops(q)
    BY <1>1, <1>2
  <2> QED
    BY <2>1 DEF MInv, OneRemover
<1> QED
  BY <1>6, <1>7, <1>8, <1>9 DEF MInv

LEMMA RemoveRows ==
    ASSUME BillingTInv, MInv, NEW r \in Requests, NEW row0 \in members, NEW state \in Counting, Begins(r, state),
           state.drop = {row0}, state.add = {}, ~Billing!BeingRemoved(row0), members' = members
    PROVE  MInv'
<1>1. /\ Pending(r)' = {} /\ Adds(r)' = {} /\ Drops(r)' = {row0}
  BY DEF Begins, Pending, Adds, Drops, Counting
<1>2. \A q \in Requests \ {r} : Pending(q)' = Pending(q) /\ Adds(q)' = Adds(q) /\ Drops(q)' = Drops(q)
  BY SameView DEF Begins
<1>3. \A q \in Requests : row0 \notin Drops(q)
  BY DEF Billing!BeingRemoved, Billing!Busy, Drops, Billing!Idle, BillingTInv, RequestTypes
<1>4. billingCount' \in [work : Nat, failures : Nat] /\ billingCount'.work >= billingCount.work
  BY CountGrows DEF Begins
<1>5. \A q \in Requests : Pending(q)' \subseteq Pending(q) /\ Adds(q)' \subseteq Adds(q)
  BY <1>1, <1>2
<1>6. Numbered'
  <2>1. billingCount.work \in Nat /\ billingCount'.work \in Nat
    BY <1>4, MembersNumber
  <2>2. ASSUME NEW m \in MemberRow, m.n <= billingCount.work PROVE m.n <= billingCount'.work
    BY <1>4, <2>1, <2>2 DEF MemberRow
  <2>3. members \subseteq MemberRow /\ \A q \in Requests : Pending(q) \subseteq MemberRow
    BY MembersNumber, PendingRows
  <2> QED
    BY <1>5, <2>2, <2>3 DEF MInv, Numbered
<1>7. OneNumber'
  BY <1>5 DEF MInv, OneNumber
<1>8. OneUser'
  <2>1. \A email : Billing!UserRows(email)' = Billing!UserRows(email)
    BY DEF Billing!UserRows
  <2> QED
    BY <1>5, <2>1 DEF MInv, OneUser
<1>9. OneRemover'
  BY <1>1, <1>2, <1>3 DEF MInv, OneRemover
<1> QED
  BY <1>6, <1>7, <1>8, <1>9 DEF MInv

\* An invitation that is counted is still the one that was pending.
LEMMA CountedRows ==
    ASSUME BillingTInv, MInv, NEW r \in Requests, request[r] \in Inserting, NEW x \in Counting, MovesTo(r, x),
           x.add = {request[r].row}, x.drop = {}, Billing!UserRows(request[r].row.email) = {},
           request[r].row.status = "active" =>
              \A q \in Requests : \A m \in Adds(q) : m.email # request[r].row.email,
           members' = members, billingCount' = billingCount
    PROVE  MInv'
<1> DEFINE row0 == request[r].row
<1>1. /\ Pending(r)' = {row0} /\ Adds(r)' = {row0} /\ Drops(r)' = {} /\ Pending(r) = {row0}
  BY DEF MovesTo, Pending, Adds, Drops, Counting, Inserting
<1>2. \A q \in Requests \ {r} : Pending(q)' = Pending(q) /\ Adds(q)' = Adds(q) /\ Drops(q)' = Drops(q)
  BY SameView DEF MovesTo
<1>3. \A q \in Requests : Pending(q)' = Pending(q) /\ Drops(q)' \subseteq Drops(q)
  BY <1>1, <1>2
<1>4. Numbered' /\ OneNumber' /\ OneRemover'
  BY <1>3 DEF MInv, Numbered, OneNumber, OneRemover
<1>5. OneUser'
  <2> HIDE DEF row0
  <2>1. \A email : Billing!UserRows(email)' = Billing!UserRows(email)
    BY DEF Billing!UserRows
  <2>2. /\ Billing!UserRows(row0.email) = {}
        /\ row0.status = "active" => \A q \in Requests : \A m \in Adds(q) : m.email # row0.email
    BY DEF row0
  <2> QED
    BY <1>1, <1>2, <2>1, <2>2 DEF MInv, OneUser
<1> QED
  BY <1>4, <1>5 DEF MInv

\* The commit: what was pending is a row, and what was to be dropped is none.
LEMMA SyncRows ==
    ASSUME BillingTInv, MInv, NEW r \in Requests, MovesTo(r, Billing!Idle), billingCount' = billingCount,
           members' = (members \ Drops(r)) \cup Adds(r)
    PROVE  MInv'
<1>1. Pending(r)' = {} /\ Adds(r)' = {} /\ Drops(r)' = {}
  BY DEF MovesTo, Pending, Adds, Drops, Billing!Idle
<1>2. \A q \in Requests \ {r} : Pending(q)' = Pending(q) /\ Adds(q)' = Adds(q) /\ Drops(q)' = Drops(q)
  BY SameView DEF MovesTo
<1>3. Adds(r) \subseteq Pending(r)
  BY PendingRows
<1>4. Numbered'
  BY <1>1, <1>2, <1>3 DEF MInv, Numbered
<1>5. \A m, q \in Adds(r) : m = q
  <2>1. Adds(r) = {} \/ \E a \in MemberRow : Adds(r) = {a}
    BY DEF Adds, BillingTInv, RequestTypes, OneChange
  <2> QED
    BY <2>1
<1>6. OneNumber'
  <2>1. \A m, q \in members' : m.n = q.n => m = q
    BY <1>3, <1>5 DEF MInv, OneNumber
  <2>2. \A q \in Requests : \A p \in Pending(q)' : \A m \in members' : m.n # p.n
    <3> SUFFICES ASSUME NEW q \in Requests \ {r}, NEW p \in Pending(q), NEW m \in members'
                 PROVE  m.n # p.n
      BY <1>1, <1>2
    <3>1. CASE m \in members
      BY <3>1 DEF MInv, OneNumber
    <3>2. CASE m \in Adds(r)
      BY <1>3, <3>2 DEF MInv, OneNumber
    <3> QED
      BY <3>1, <3>2
  <2>3. \A q, s \in Requests : q # s => \A p \in Pending(q)', x \in Pending(s)' : p.n # x.n
    BY <1>1, <1>2 DEF MInv, OneNumber
  <2> QED
    BY <2>1, <2>2, <2>3 DEF OneNumber
<1>7. OneUser'
  <2>1. \A m \in Adds(r) : m.status = "active" => \A q \in members : q.status = "active" => q.email # m.email
    BY DEF MInv, OneUser, Billing!UserRows
  <2>2. \A m, q \in members' : m.status = "active" /\ m.email = q.email /\ q.status = "active" => m = q
    BY <1>5, <2>1 DEF MInv, OneUser
  <2>3. \A q \in Requests : \A p \in Adds(q)' : p.status = "active" => Billing!UserRows(p.email)' = {}
    <3> SUFFICES ASSUME NEW q \in Requests \ {r}, NEW p \in Adds(q), p.status = "active", NEW m \in members',
                        m.email = p.email, m.status = "active"
                 PROVE  FALSE
      BY <1>1, <1>2 DEF Billing!UserRows
    <3>1. CASE m \in members
      BY <3>1 DEF MInv, OneUser, Billing!UserRows
    <3>2. CASE m \in Adds(r)
      BY <3>2 DEF MInv, OneUser
    <3> QED
      BY <3>1, <3>2
  <2>4. \A q, s \in Requests : q # s =>
           \A p \in Adds(q)', x \in Adds(s)' : p.status = "active" /\ x.status = "active" => p.email # x.email
    BY <1>1, <1>2 DEF MInv, OneUser
  <2> QED
    BY <2>2, <2>3, <2>4 DEF OneUser
<1>8. OneRemover'
  BY <1>1, <1>2 DEF MInv, OneRemover
<1> QED
  BY <1>4, <1>6, <1>7, <1>8 DEF MInv

LEMMA ChangedRows ==
    ASSUME BillingTInv, MInv, NEW row0 \in members, NEW new \in MemberRow,
           members' = (members \ {row0}) \cup {new}, new.n = row0.n, new.email = row0.email,
           new.status = row0.status, ~Billing!BeingRemoved(row0), request' = request, billingCount' = billingCount
    PROVE  MInv'
<1>1. \A q \in Requests : Pending(q)' = Pending(q) /\ Adds(q)' = Adds(q) /\ Drops(q)' = Drops(q)
  BY DEF Pending, Adds, Drops
<1>2. \A q \in Requests : row0 \notin Drops(q)
  BY DEF Billing!BeingRemoved, Billing!Busy, Drops, Billing!Idle, BillingTInv, RequestTypes
<1>3. Numbered'
  BY <1>1 DEF MInv, Numbered
<1>4. OneNumber'
  BY <1>1 DEF MInv, OneNumber
<1>5. OneUser'
  <2>1. \A m, q \in members' : m.status = "active" /\ m.email = q.email /\ q.status = "active" => m = q
    BY DEF MInv, OneUser
  <2>2. \A email : Billing!UserRows(email) = {} => Billing!UserRows(email)' = {}
    BY DEF Billing!UserRows
  <2> QED
    BY <1>1, <2>1, <2>2 DEF MInv, OneUser
<1>6. OneRemover'
  BY <1>1, <1>2 DEF MInv, OneRemover
<1> QED
  BY <1>3, <1>4, <1>5, <1>6 DEF MInv

LEMMA FirstRow ==
    ASSUME BillingTInv, MInv, orgPlan = None, NEW m \in MemberRow, members' = {m}, m.n = 0,
           request' = request, billingCount' = billingCount
    PROVE  MInv'
<1>1. \A q \in Requests : Pending(q)' = {} /\ Adds(q)' = {} /\ Drops(q)' = {}
  BY DEF Pending, Adds, Drops, Billing!Idle, BillingTInv, Unborn
<1>2. billingCount.work \in Nat
  BY MembersNumber
<1> QED
  BY <1>1, <1>2 DEF MInv, Numbered, OneNumber, OneUser, OneRemover

LEMMA RowsNext == Billing!BillingAssumption /\ BillingTInv /\ BillingTInv' /\ MInv /\ [Billing!Next]_Billing!billingVars => MInv'
<1> SUFFICES ASSUME Billing!BillingAssumption, BillingTInv, BillingTInv', MInv, [Billing!Next]_Billing!billingVars PROVE MInv'
  OBVIOUS
<1>0. /\ billingCount \in [work : Nat, failures : Nat] /\ billingCount.work >= billingCount.work
      /\ billingCount' \in [work : Nat, failures : Nat]
  BY CountStays DEF BillingTInv, OtherTypes
<1>1. CASE Billing!CreateOrg
  <2>1. /\ orgPlan = None /\ UNCHANGED <<request, hook, events, billingCount, accounts, deleted>>
        /\ \E m \in MemberRow : members' = {m} /\ m.n = 0 /\ m.role = "owner"
    BY <1>1, CreateOrgTypes
  <2>2. PICK m \in MemberRow : members' = {m} /\ m.n = 0 /\ m.role = "owner"
    BY <2>1
  <2> QED
    BY <2>1, <2>2, FirstRow
<1>2. CASE Billing!DeleteOrg
  BY <1>0, <1>2, SameRows DEF Billing!DeleteOrg
<1>3. ASSUME NEW email \in Others, Billing!AutoProvision(email) PROVE MInv'
  BY <1>0, <1>3, SameRows DEF Billing!AutoProvision
<1>4. ASSUME NEW k \in Billing!Resources, Billing!Delete(k) PROVE MInv'
  BY <1>0, <1>4, SameRows DEF Billing!Delete
<1>5. ASSUME NEW r \in Requests, NEW email \in Others, NEW role \in {"admin", "member"},
             Billing!CheckInvite(r, email, role)
      PROVE  MInv'
  BY <1>5, InviteEffect, InviteRows
<1>6. ASSUME NEW r \in Requests, NEW row0 \in members, Billing!RemoveMember(r, row0) PROVE MInv'
  BY <1>6, RemoveEffect, RemoveRows
<1>7. ASSUME NEW r \in Requests, NEW k \in Billing!Resources, Billing!CheckLimit(r, k) PROVE MInv'
  <2>1. PICK state \in Creating : /\ Begins(r, state)
           /\ UNCHANGED <<orgPlan, sub, members, used, hook, events, seen, accounts, deleted>>
    BY <1>7, CheckLimitEffect
  <2>2. billingCount'.work >= billingCount.work
    BY <2>1, CountGrows DEF Begins
  <2> QED
    BY <1>0, <2>1, <2>2, LessToDo DEF Begins
<1>8. ASSUME NEW r \in Requests, request[r] # Billing!Idle, Billing!CountInvited(r) PROVE MInv'
  <2>1. /\ request[r] \in Inserting
        /\ UNCHANGED <<orgPlan, sub, members, used, hook, events, seen, billingCount, accounts, deleted>>
        /\ \/ MovesTo(r, Billing!Idle)
           \/ \E x \in Counting :
                    /\ MovesTo(r, x) /\ x.add = {request[r].row} /\ x.drop = {}
                    /\ Billing!UserRows(request[r].row.email) = {}
                    /\ request[r].row.status = "active" =>
                          \A q \in Requests : \A m \in Adds(q) : m.email # request[r].row.email
    BY <1>8, CountInvitedEffect
  <2>2. CASE MovesTo(r, Billing!Idle)
    BY <1>0, <2>1, <2>2, LessToDo DEF MovesTo
  <2> QED
    BY <2>1, <2>2, CountedRows
<1>9. ASSUME NEW r \in Requests, request[r] # Billing!Idle, Billing!RollBack(r) PROVE MInv'
  <2>1. /\ MovesTo(r, Billing!Idle) /\ billingCount' = [billingCount EXCEPT !.failures = @ + 1] /\ members' = members
    BY <1>9, RollBackEffect
  <2>2. billingCount'.work >= billingCount.work
    BY <2>1, CountGrows
  <2> QED
    BY <1>0, <2>1, <2>2, LessToDo DEF MovesTo
<1>10. ASSUME NEW r \in Requests, request[r] # Billing!Idle, Billing!Create(r) PROVE MInv'
  <2>1. MovesTo(r, Billing!Idle) /\ members' = members /\ billingCount' = billingCount
    BY <1>10, CreateEffect
  <2> QED
    BY <1>0, <2>1, LessToDo DEF MovesTo
<1>11. ASSUME NEW r \in Requests, request[r] # Billing!Idle, Billing!SyncSeatCount(r) PROVE MInv'
  BY <1>11, SyncEffect, SyncRows
<1>12. ASSUME NEW actor \in members, NEW row0 \in members,
              NEW role \in {"owner", "admin", "member"}, Billing!ChangeRole(actor, row0, role)
       PROVE  MInv'
  BY <1>12, ChangeRoleEffect, ChangedRows
<1>13. ASSUME NEW h \in Hooks, NEW e \in DOMAIN Events, Billing!ReceiveEvent(h, e) PROVE MInv'
  <2>1. billingCount' = [billingCount EXCEPT !.work = @ + 1] /\ members' = members /\ request' = request
    BY <1>13, ReceiveEffect
  <2> QED
    BY <2>1, CountGrows, SameRows
<1>14. ASSUME NEW h \in Hooks, Billing!HandleWebhookEvent(h) PROVE MInv'
  BY <1>0, <1>14, DeliverEffect, SameRows
<1>15. ASSUME NEW h \in Hooks, Billing!WebhookFails(h) PROVE MInv'
  <2>1. billingCount' = [billingCount EXCEPT !.failures = @ + 1] /\ members' = members /\ request' = request
    BY <1>15, FailEffect
  <2> QED
    BY <2>1, CountGrows, SameRows
<1>16. CASE UNCHANGED Billing!billingVars
  BY <1>0, <1>16, SameRows DEF Billing!billingVars
<1> QED
  BY <1>1, <1>2, <1>3, <1>4, <1>5, <1>6, <1>7, <1>8, <1>9, <1>10, <1>11, <1>12, <1>13, <1>14,
     <1>15, <1>16 DEF Billing!Next

LEMMA RowsInit == Billing!Init => MInv
<1> SUFFICES ASSUME Billing!Init PROVE MInv
  OBVIOUS
<1>1. members = {} /\ \A r \in Requests : request[r] = Billing!Idle
  BY DEF Billing!Init
<1>2. \A r \in Requests : Pending(r) = {} /\ Adds(r) = {} /\ Drops(r) = {}
  BY <1>1 DEF Pending, Adds, Drops, Billing!Idle
<1> QED
  BY <1>1, <1>2 DEF MInv, Numbered, OneNumber, OneUser, OneRemover

LEMMA RowsStay == Billing!BillingAssumption => (Billing!Spec => [](BillingTInv /\ MInv))
<1> SUFFICES ASSUME Billing!BillingAssumption PROVE Billing!Spec => [](BillingTInv /\ MInv)
  OBVIOUS
<1>1. Billing!Init => BillingTInv /\ MInv
  BY BillingTypesInit, RowsInit
<1>2. BillingTInv /\ MInv /\ [Billing!Next]_Billing!billingVars => BillingTInv' /\ MInv'
  BY BillingTypesNext, RowsNext
<1> QED
  BY <1>1, <1>2, PTL DEF Billing!Spec

\* Every row, request and delivery is of its kind, and an account never has two
\* active rows: two invitations of one account wait for each other at the unique
\* index, and the second fails (organization_service.py).
THEOREM BillingTypeCorrect == Billing!BillingAssumption => (Billing!Spec => []Billing!TypeOK)
<1> SUFFICES ASSUME Billing!BillingAssumption PROVE Billing!Spec => []Billing!TypeOK
  OBVIOUS
<1>1. ASSUME BillingTInv, MInv PROVE Billing!TypeOK
  <2>1. orgPlan \in Billing!Plans \cup {None} /\ sub.plan \in Billing!Plans \cup {None} /\ sub.seats \in Nat
        /\ used \in [Billing!Resources -> Nat]
    BY <1>1 DEF BillingTInv, RowTypes, SubRow
  <2>2. events \subseteq DOMAIN Events /\ accounts \subseteq Others /\ deleted \in BOOLEAN
    BY <1>1 DEF BillingTInv, OtherTypes
  <2>3. \A r \in Requests : request[r].pc \in {"idle", "insert", "seats", "create"}
    BY <1>1, RequestKinds DEF BillingTInv, RequestTypes
  <2>4. \A m, q \in members : m.status = "active" /\ m.email = q.email /\ q.status = "active" => m = q
    BY <1>1 DEF MInv, OneUser
  <2> QED
    BY <2>1, <2>2, <2>3, <2>4 DEF Billing!TypeOK
<1>2. BillingTInv /\ MInv => Billing!TypeOK
  BY <1>1
<1> QED
  BY <1>2, RowsStay, PTL

-----------------------------------------------------------------------------
(* The seats that are paid for.                                            *)

LEMMA CountOfSync ==
    ASSUME BillingTInv, MInv, NEW r \in Requests, request[r] \in Counting,
           members' = (members \ Drops(r)) \cup Adds(r)
    PROVE  Billing!Cardinality(members') = IF Adds(r) # {} THEN Billing!Cardinality(members) + 1
                                                           ELSE Billing!Cardinality(members) - 1
<1>1. /\ request[r].pc = "seats" /\ Adds(r) = request[r].add /\ Drops(r) = request[r].drop
      /\ Pending(r) = Adds(r)
  BY DEF Counting, Adds, Drops, Pending
<1>2. \/ \E a \in MemberRow : Adds(r) = {a} /\ Drops(r) = {}
      \/ \E d \in MemberRow : Drops(r) = {d} /\ Adds(r) = {}
  BY <1>1 DEF BillingTInv, RequestTypes, OneChange
<1>3. ASSUME NEW a \in MemberRow, Adds(r) = {a}, Drops(r) = {}
      PROVE  Billing!Cardinality(members') = Billing!Cardinality(members) + 1
  <2>1. a \notin members
    BY <1>1, <1>3 DEF MInv, OneNumber
  <2>2. members' = members \cup {a}
    BY <1>3
  <2> QED
    BY <2>1, <2>2, MembersNumber, BillingFS_AddElement
<1>4. ASSUME NEW d \in MemberRow, Drops(r) = {d}, Adds(r) = {}
      PROVE  Billing!Cardinality(members') = Billing!Cardinality(members) - 1
  <2>1. d \in members
    BY <1>4 DEF MInv, OneRemover
  <2>2. members' = members \ {d}
    BY <1>4
  <2> QED
    BY <2>1, <2>2, MembersNumber, BillingFS_RemoveElement
<1> QED
  BY <1>2, <1>3, <1>4

LEMMA CountOfChange ==
    ASSUME BillingTInv, MInv, NEW row0 \in members, NEW new \in MemberRow,
           members' = (members \ {row0}) \cup {new}, new.n = row0.n
    PROVE  Billing!Cardinality(members') = Billing!Cardinality(members)
<1>1. new \notin members \ {row0}
  BY DEF MInv, OneNumber
<1>2. Billing!IsFiniteSet(members \ {row0}) /\ Billing!Cardinality(members \ {row0}) = Billing!Cardinality(members) - 1
  BY MembersNumber, BillingFS_RemoveElement
<1> DEFINE rest == members \ {row0}
<1>3. Billing!Cardinality(rest \cup {new}) = Billing!Cardinality(rest) + 1
  <2> HIDE DEF rest
  <2>1. Billing!IsFiniteSet(rest) /\ new \notin rest
    BY <1>1, <1>2 DEF rest
  <2> QED
    BY <2>1, BillingFS_AddElement
<1> QED
  BY <1>2, <1>3, MembersNumber

LEMMA SeatsSame ==
    ASSUME AInv, request' = request, Billing!Cardinality(members') = Billing!Cardinality(members),
           sub'.seats = sub.seats, sub' # Billing!NoSub => sub # Billing!NoSub, seen'.seatsRaced = seen.seatsRaced
    PROVE  AInv'
  BY DEF AInv, AloneRequest, Billing!SeatsCounted

\* A request that begins: who was there is alone no more, and it is alone if
\* nobody was there.
LEMMA SeatsBegin ==
    ASSUME BillingTInv, AInv, NEW r \in Requests, NEW state \in RequestRecord, Begins(r, state),
           state.pc = "seats" => state.add = {} /\ state.seats = Billing!Cardinality(members) - 1,
           UNCHANGED <<members, sub, seen>>
    PROVE  AInv'
<1>1. ASSUME NEW q \in Requests, request'[q] # Billing!Idle, request'[q].alone
      PROVE  q = r /\ \A s \in Requests \ {r} : request'[s] = Billing!Idle
  <2>1. q = r
    BY <1>1 DEF Begins
  <2>2. \A s \in Requests : request[s] = Billing!Idle
    BY <1>1, <2>1 DEF Begins
  <2>3. \A s \in Requests \ {r} : request'[s].pc = "idle" /\ request'[s] \in RequestRecord
    BY <2>2 DEF Begins, SameRequest, SameBut, RequestTypes, Billing!Idle
  <2>4. \A s \in Requests \ {r} : request'[s] = Billing!Idle
    BY <2>3, RequestKinds
  <2> QED
    BY <2>1, <2>4
<1>2. request'[r] = state
  BY DEF Begins
<1>3. AloneRequest'
  BY <1>1, <1>2 DEF AloneRequest
<1>4. Billing!SeatsCounted'
  BY DEF AInv, Billing!SeatsCounted
<1> QED
  BY <1>3, <1>4 DEF AInv

\* A request that moves on or ends: no other was alone.
LEMMA SeatsMove ==
    ASSUME BillingTInv, AInv, NEW r \in Requests, NEW x, MovesTo(r, x),
           \/ /\ x = Billing!Idle
           \/ /\ request[r] \in Inserting /\ x \in Counting /\ x.alone = request[r].alone
              /\ x.add # {} /\ x.seats = Billing!Cardinality(members) + 1 /\ members' = members
    PROVE  AloneRequest'
<1>1. ASSUME NEW q \in Requests \ {r} PROVE ~(request'[q] # Billing!Idle /\ request'[q].alone)
  BY <1>1 DEF AInv, AloneRequest, MovesTo
<1>2. ASSUME request'[r] # Billing!Idle, request'[r].alone
      PROVE  /\ \A q \in Requests \ {r} : request'[q] = Billing!Idle
             /\ request'[r].pc = "seats" =>
                  request'[r].seats = IF request'[r].add # {} THEN Billing!Cardinality(members') + 1
                                                              ELSE Billing!Cardinality(members') - 1
  <2>1. /\ request'[r] = x /\ x # Billing!Idle /\ request[r] # Billing!Idle
        /\ \A q \in Requests \ {r} : request'[q] = request[q]
    BY <1>2 DEF MovesTo
  <2>2. request[r].alone /\ x.add # {} /\ x.seats = Billing!Cardinality(members) + 1 /\ members' = members
    BY <1>2, <2>1
  <2> QED
    BY <2>1, <2>2 DEF AInv, AloneRequest
<1> QED
  BY <1>1, <1>2 DEF AloneRequest

LEMMA SeatsNext ==
    Billing!BillingAssumption /\ BillingTInv /\ BillingTInv' /\ MInv /\ AInv /\ [Billing!Next]_Billing!billingVars => AInv'
<1> SUFFICES ASSUME Billing!BillingAssumption, BillingTInv, BillingTInv', MInv, AInv, [Billing!Next]_Billing!billingVars PROVE AInv'
  OBVIOUS
<1>1. CASE Billing!CreateOrg
  <2>1. /\ orgPlan = None /\ UNCHANGED <<request, hook, events, billingCount, accounts, deleted>>
        /\ \E m \in MemberRow : members' = {m} /\ m.n = 0 /\ m.role = "owner"
        /\ sub' = Billing!NoSub \/ (sub'.plan = "free" /\ sub'.seats = 1)
    BY <1>1, CreateOrgTypes
  <2>2. Billing!Cardinality(members') = 1
    BY <2>1, BillingFS_Singleton
  <2>3. \A r \in Requests : request'[r] = Billing!Idle
    BY <2>1 DEF BillingTInv, Unborn
  <2> QED
    BY <2>1, <2>2, <2>3 DEF AInv, AloneRequest, Billing!SeatsCounted
<1>2. CASE Billing!DeleteOrg
  BY <1>2, SeatsSame DEF Billing!DeleteOrg
<1>3. ASSUME NEW email \in Others, Billing!AutoProvision(email) PROVE AInv'
  BY <1>3, SeatsSame DEF Billing!AutoProvision
<1>4. ASSUME NEW k \in Billing!Resources, Billing!Delete(k) PROVE AInv'
  BY <1>4, SeatsSame DEF Billing!Delete
<1>5. ASSUME NEW r \in Requests, NEW email \in Others, NEW role \in {"admin", "member"},
             Billing!CheckInvite(r, email, role)
      PROVE  AInv'
  <2>1. PICK state \in Inserting : /\ Begins(r, state)
           /\ UNCHANGED <<orgPlan, sub, members, used, hook, events, seen, accounts, deleted>>
    BY <1>5, InviteEffect
  <2>2. state.pc = "insert" /\ state \in RequestRecord
    BY DEF Inserting, RequestRecord
  <2> QED
    BY <2>1, <2>2, SeatsBegin
<1>6. ASSUME NEW r \in Requests, NEW row0 \in members, Billing!RemoveMember(r, row0) PROVE AInv'
  <2>1. PICK state \in Counting : /\ Begins(r, state) /\ state.add = {}
           /\ state.seats = Billing!Cardinality(members) - 1
           /\ UNCHANGED <<orgPlan, sub, members, used, hook, events, seen, accounts, deleted>>
    BY <1>6, RemoveEffect
  <2>2. state \in RequestRecord
    BY DEF RequestRecord
  <2> QED
    BY <2>1, <2>2, SeatsBegin
<1>7. ASSUME NEW r \in Requests, NEW k \in Billing!Resources, Billing!CheckLimit(r, k) PROVE AInv'
  <2>1. PICK state \in Creating : /\ Begins(r, state)
           /\ UNCHANGED <<orgPlan, sub, members, used, hook, events, seen, accounts, deleted>>
    BY <1>7, CheckLimitEffect
  <2>2. state.pc = "create" /\ state \in RequestRecord
    BY DEF Creating, RequestRecord
  <2> QED
    BY <2>1, <2>2, SeatsBegin
<1>8. ASSUME NEW r \in Requests, request[r] # Billing!Idle, Billing!CountInvited(r) PROVE AInv'
  <2>1. /\ request[r] \in Inserting
        /\ UNCHANGED <<orgPlan, sub, members, used, hook, events, seen, billingCount, accounts, deleted>>
        /\ \/ MovesTo(r, Billing!Idle)
           \/ \E x \in Counting :
                    /\ MovesTo(r, x) /\ x.add = {request[r].row}
                    /\ x.alone = request[r].alone /\ x.seats = Billing!Cardinality(members) + 1
    BY <1>8, CountInvitedEffect
  <2>2. AloneRequest'
    <3>1. CASE MovesTo(r, Billing!Idle)
      BY <3>1, SeatsMove
    <3>2. CASE \E x \in Counting :
                    /\ MovesTo(r, x) /\ x.add = {request[r].row}
                    /\ x.alone = request[r].alone /\ x.seats = Billing!Cardinality(members) + 1
      BY <2>1, <3>2, SeatsMove
    <3> QED
      BY <2>1, <3>1, <3>2
  <2> QED
    BY <2>1, <2>2 DEF AInv, Billing!SeatsCounted
<1>9. ASSUME NEW r \in Requests, request[r] # Billing!Idle, Billing!RollBack(r) PROVE AInv'
  BY <1>9, RollBackEffect, SeatsMove DEF AInv, Billing!SeatsCounted
<1>10. ASSUME NEW r \in Requests, request[r] # Billing!Idle, Billing!Create(r) PROVE AInv'
  BY <1>10, CreateEffect, SeatsMove DEF AInv, Billing!SeatsCounted
<1>11. ASSUME NEW r \in Requests, request[r] # Billing!Idle, Billing!SyncSeatCount(r) PROVE AInv'
  <2>1. /\ request[r] \in Counting /\ MovesTo(r, Billing!Idle)
        /\ members' = (members \ Drops(r)) \cup Adds(r) /\ Adds(r) = request[r].add
        /\ sub' = IF sub = Billing!NoSub THEN Billing!NoSub ELSE [sub EXCEPT !.seats = request[r].seats]
        /\ seen' = [seen EXCEPT !.seatsRaced = ~request[r].alone]
    BY <1>11, SyncEffect
  <2>2. AloneRequest'
    BY <2>1, SeatsMove
  <2>3. ASSUME sub' # Billing!NoSub, ~seen'.seatsRaced PROVE sub'.seats = Billing!Cardinality(members')
    <3>1. sub # Billing!NoSub /\ sub' = [sub EXCEPT !.seats = request[r].seats] /\ request[r].alone
      BY <2>1, <2>3 DEF BillingTInv, OtherTypes
    <3>2. sub'.seats = request[r].seats
      BY <3>1 DEF BillingTInv, RowTypes, SubRow
    <3>3. request[r].pc = "seats"
      BY <2>1 DEF Counting
    <3>4. request[r].seats = IF Adds(r) # {} THEN Billing!Cardinality(members) + 1 ELSE Billing!Cardinality(members) - 1
      BY <1>11, <2>1, <3>1, <3>3 DEF AInv, AloneRequest
    <3> QED
      BY <2>1, <3>2, <3>4, CountOfSync
  <2> QED
    BY <2>2, <2>3 DEF AInv, Billing!SeatsCounted
<1>12. ASSUME NEW actor \in members, NEW row0 \in members,
              NEW role \in {"owner", "admin", "member"}, Billing!ChangeRole(actor, row0, role)
       PROVE  AInv'
  <2>1. PICK new \in MemberRow :
          /\ members' = (members \ {row0}) \cup {new} /\ new.n = row0.n
          /\ UNCHANGED <<orgPlan, sub, used, request, hook, events, seen, billingCount, accounts, deleted>>
    BY <1>12, ChangeRoleEffect
  <2> QED
    BY <2>1, CountOfChange, SeatsSame
<1>13. ASSUME NEW h \in Hooks, NEW e \in DOMAIN Events, Billing!ReceiveEvent(h, e) PROVE AInv'
  BY <1>13, ReceiveEffect, SeatsSame
<1>14. ASSUME NEW h \in Hooks, Billing!HandleWebhookEvent(h) PROVE AInv'
  <2>1. /\ Ends(h) /\ UNCHANGED <<members, used, request, billingCount, accounts, deleted>>
        /\ WritesRow(h) \/ UNCHANGED <<sub, orgPlan, seen>>
    BY <1>14, DeliverEffect
  <2>2. CASE WritesRow(h)
    <3>1. sub'.seats = sub.seats /\ seen'.seatsRaced = seen.seatsRaced /\ hook[h].found
      BY <2>2 DEF WritesRow
    <3>2. sub # Billing!NoSub
      BY <2>1, <3>1 DEF BillingTInv, Found, Ends, Delivering, Billing!Idle
    <3> QED
      BY <2>1, <3>1, <3>2, SeatsSame
  <2>3. CASE UNCHANGED <<sub, orgPlan, seen>>
    BY <2>1, <2>3, SeatsSame
  <2> QED
    BY <2>1, <2>2, <2>3
<1>15. ASSUME NEW h \in Hooks, Billing!WebhookFails(h) PROVE AInv'
  BY <1>15, FailEffect, SeatsSame
<1>16. CASE UNCHANGED Billing!billingVars
  BY <1>16, SeatsSame DEF Billing!billingVars
<1> QED
  BY <1>1, <1>2, <1>3, <1>4, <1>5, <1>6, <1>7, <1>8, <1>9, <1>10, <1>11, <1>12, <1>13, <1>14,
     <1>15, <1>16 DEF Billing!Next

\* The seats of the subscription are the members there are, when the last request
\* that changed them overlapped no other (billing_service.py, sync_seat_count).
THEOREM SeatsAreCounted == Billing!BillingAssumption => (Billing!Spec => []Billing!SeatsCounted)
<1> SUFFICES ASSUME Billing!BillingAssumption PROVE Billing!Spec => []Billing!SeatsCounted
  OBVIOUS
<1>1. Billing!Init => AInv
  <2> SUFFICES ASSUME Billing!Init PROVE AInv
    OBVIOUS
  <2>1. sub = Billing!NoSub /\ \A r \in Requests : request[r] = Billing!Idle
    BY DEF Billing!Init
  <2> QED
    BY <2>1 DEF AInv, AloneRequest, Billing!SeatsCounted
<1>2. BillingTInv /\ BillingTInv' /\ MInv /\ AInv /\ [Billing!Next]_Billing!billingVars => AInv'
  BY SeatsNext
<1>3. AInv => Billing!SeatsCounted
  BY DEF AInv
<1> QED
  BY <1>1, <1>2, <1>3, RowsStay, PTL DEF Billing!Spec

-----------------------------------------------------------------------------
(* The plan of the organisation and of its subscription.                   *)

LEMMA PlansSame ==
    ASSUME PInv, hook' = hook, sub'.plan = sub.plan, sub' # Billing!NoSub => sub # Billing!NoSub,
           orgPlan' = orgPlan, seen'.plansRaced = seen.plansRaced, deleted => deleted'
    PROVE  PInv'
  BY DEF PInv, AloneDelivery, Billing!PlansAgree

\* What a step of a request, of the organisation or of an account does not touch.
LEMMA PlansKept ==
    ASSUME PInv, UNCHANGED <<hook, sub, orgPlan, seen>>, deleted => deleted'
    PROVE  PInv'
  BY PlansSame

\* A delivery ends: no other was alone.
LEMMA AloneEnds ==
    ASSUME PInv, NEW h \in Hooks, Ends(h)
    PROVE  AloneDelivery'
<1>1. hook[h] # Billing!Idle
  BY DEF Ends, Delivering, Billing!Idle
<1>2. ASSUME NEW g \in Hooks, hook'[g] # Billing!Idle, hook'[g].alone PROVE FALSE
  <2>1. g # h /\ hook[g] = hook'[g]
    BY <1>2 DEF Ends
  <2> QED
    BY <1>1, <1>2, <2>1 DEF PInv, AloneDelivery
<1> QED
  BY <1>2 DEF AloneDelivery

LEMMA PlansNext ==
    Billing!BillingAssumption /\ BillingTInv /\ BillingTInv' /\ PInv /\ [Billing!Next]_Billing!billingVars => PInv'
<1> SUFFICES ASSUME Billing!BillingAssumption, BillingTInv, BillingTInv', PInv, [Billing!Next]_Billing!billingVars PROVE PInv'
  OBVIOUS
<1>1. CASE Billing!CreateOrg
  <2>1. /\ orgPlan = None /\ UNCHANGED <<request, hook, events, billingCount, accounts, deleted>>
        /\ orgPlan' = "free"
    BY <1>1, CreateOrgTypes
  <2>2. \A h \in Hooks : hook'[h] = Billing!Idle
    BY <2>1 DEF BillingTInv, Unborn
  <2>3. sub' = Billing!NoSub \/ (sub'.plan = "free" /\ orgPlan' = "free")
    BY <1>1, CreateOrgTypes
  <2> QED
    BY <2>2, <2>3 DEF PInv, AloneDelivery, Billing!PlansAgree
<1>2. CASE Billing!DeleteOrg
  BY <1>2, PlansKept DEF Billing!DeleteOrg
<1>3. ASSUME NEW email \in Others, Billing!AutoProvision(email) PROVE PInv'
  BY <1>3, PlansKept DEF Billing!AutoProvision
<1>4. ASSUME NEW k \in Billing!Resources, Billing!Delete(k) PROVE PInv'
  BY <1>4, PlansKept DEF Billing!Delete
<1>5. ASSUME NEW r \in Requests, NEW email \in Others, NEW role \in {"admin", "member"},
             Billing!CheckInvite(r, email, role)
      PROVE  PInv'
  BY <1>5, PlansKept DEF Billing!CheckInvite
<1>6. ASSUME NEW r \in Requests, NEW row0 \in members, Billing!RemoveMember(r, row0) PROVE PInv'
  BY <1>6, PlansKept DEF Billing!RemoveMember
<1>7. ASSUME NEW r \in Requests, NEW k \in Billing!Resources, Billing!CheckLimit(r, k) PROVE PInv'
  BY <1>7, PlansKept DEF Billing!CheckLimit
<1>8. ASSUME NEW r \in Requests, request[r] # Billing!Idle, Billing!CountInvited(r) PROVE PInv'
  BY <1>8, PlansKept DEF Billing!CountInvited
<1>9. ASSUME NEW r \in Requests, request[r] # Billing!Idle, Billing!RollBack(r) PROVE PInv'
  BY <1>9, PlansKept DEF Billing!RollBack
<1>10. ASSUME NEW r \in Requests, request[r] # Billing!Idle, Billing!Create(r) PROVE PInv'
  BY <1>10, PlansKept DEF Billing!Create
<1>11. ASSUME NEW r \in Requests, request[r] # Billing!Idle, Billing!SyncSeatCount(r) PROVE PInv'
  <2>1. /\ sub' = IF sub = Billing!NoSub THEN Billing!NoSub ELSE [sub EXCEPT !.seats = request[r].seats]
        /\ seen' = [seen EXCEPT !.seatsRaced = ~request[r].alone]
        /\ UNCHANGED <<orgPlan, used, hook, events, billingCount, accounts, deleted>>
    BY <1>11, SyncEffect
  <2>2. sub'.plan = sub.plan /\ seen'.plansRaced = seen.plansRaced
    BY <2>1 DEF BillingTInv, RowTypes, OtherTypes, SubRow
  <2> QED
    BY <2>1, <2>2, PlansSame
<1>12. ASSUME NEW actor \in members, NEW row0 \in members,
              NEW role \in {"owner", "admin", "member"}, Billing!ChangeRole(actor, row0, role)
       PROVE  PInv'
  BY <1>12, PlansKept DEF Billing!ChangeRole
<1>13. ASSUME NEW h \in Hooks, NEW e \in DOMAIN Events, Billing!ReceiveEvent(h, e) PROVE PInv'
  <2>1. /\ Receives(h, e)
        /\ UNCHANGED <<orgPlan, sub, members, used, request, events, seen, accounts, deleted>>
    BY <1>13, ReceiveEffect
  <2>2. ASSUME NEW g \in Hooks, hook'[g] # Billing!Idle, hook'[g].alone
        PROVE  g = h /\ (\A f \in Hooks \ {h} : hook'[f] = Billing!Idle) /\ hook'[g].row.plan = sub.plan
    <3>1. g = h
      BY <2>1, <2>2 DEF Receives
    <3>2. hook'[h].row = sub /\ \A f \in Hooks : hook[f] = Billing!Idle
      BY <2>1, <2>2, <3>1 DEF Receives
    <3>3. \A f \in Hooks \ {h} : hook'[f] = Billing!Idle
      BY <2>1, <3>2 DEF Receives, SameDelivery
    <3> QED
      BY <3>1, <3>2, <3>3
  <2>3. AloneDelivery'
    BY <2>1, <2>2 DEF AloneDelivery
  <2> QED
    BY <2>1, <2>3 DEF PInv, Billing!PlansAgree
<1>14. ASSUME NEW h \in Hooks, Billing!HandleWebhookEvent(h) PROVE PInv'
  <2>1. /\ Ends(h) /\ UNCHANGED <<members, used, request, billingCount, accounts, deleted>>
        /\ (WritesRow(h) \/ UNCHANGED <<sub, orgPlan, seen>>)
    BY <1>14, DeliverEffect
  <2>2. AloneDelivery'
    BY <2>1, AloneEnds
  <2>3. CASE UNCHANGED <<sub, orgPlan, seen>>
    BY <2>1, <2>2, <2>3 DEF PInv, Billing!PlansAgree
  <2>4. CASE WritesRow(h)
    <3> DEFINE type == Events[hook[h].event].type
    <3>1. PICK new \in Billing!Plans :
             /\ sub'.plan = Billing!Column(sub.plan, hook[h].row.plan, new)
             /\ orgPlan' = IF deleted \/ type \notin {"updated", "deleted"} THEN orgPlan ELSE new
             /\ type \notin {"updated", "deleted"} => new = hook[h].row.plan
      BY <2>4 DEF WritesRow
    <3>2. /\ hook[h].found
          /\ ~seen'.plansRaced => hook[h].alone /\ (~seen.plansRaced \/ type \in {"updated", "deleted"})
      BY <2>4 DEF WritesRow
    <3> HIDE DEF type
    <3>3. ASSUME ~seen'.plansRaced, ~deleted' PROVE orgPlan' = sub'.plan
      <4>1. hook[h] # Billing!Idle /\ hook[h].alone /\ ~deleted
        BY <2>1, <3>2, <3>3 DEF Ends, Delivering, Billing!Idle
      <4>2. hook[h].row.plan = sub.plan /\ sub # Billing!NoSub
        BY <3>2, <4>1 DEF PInv, AloneDelivery, BillingTInv, Found
      <4>3. sub'.plan = new
        BY <3>1, <4>2 DEF Billing!Column
      <4>4. CASE type \in {"updated", "deleted"}
        BY <3>1, <4>1, <4>3, <4>4
      <4>5. CASE type \notin {"updated", "deleted"}
        <5>1. ~seen.plansRaced
          BY <3>2, <3>3, <4>5
        <5>2. orgPlan = sub.plan
          BY <4>1, <4>2, <5>1 DEF PInv, Billing!PlansAgree
        <5> QED
          BY <3>1, <4>2, <4>3, <4>5, <5>2
      <4> QED
        BY <4>4, <4>5
    <3> QED
      BY <2>2, <3>3 DEF PInv, Billing!PlansAgree
  <2> QED
    BY <2>1, <2>3, <2>4
<1>15. ASSUME NEW h \in Hooks, Billing!WebhookFails(h) PROVE PInv'
  <2>1. /\ Ends(h)
        /\ UNCHANGED <<orgPlan, sub, members, used, request, events, seen, accounts, deleted>>
    BY <1>15, FailEffect
  <2>2. AloneDelivery'
    BY <2>1, AloneEnds
  <2> QED
    BY <2>1, <2>2 DEF PInv, Billing!PlansAgree
<1>16. CASE UNCHANGED Billing!billingVars
  BY <1>16, PlansKept DEF Billing!billingVars
<1> QED
  BY <1>1, <1>2, <1>3, <1>4, <1>5, <1>6, <1>7, <1>8, <1>9, <1>10, <1>11, <1>12, <1>13, <1>14,
     <1>15, <1>16 DEF Billing!Next

\* The organisation and its subscription name the same plan, unless deliveries
\* overlapped since the last one that set both, or the organisation is deleted:
\* a delivery writes the columns that differ from what it read, which is what
\* is there when it is alone (billing_service.py, the webhook handlers).
THEOREM PlansAreAgreed == Billing!BillingAssumption => (Billing!Spec => []Billing!PlansAgree)
<1> SUFFICES ASSUME Billing!BillingAssumption PROVE Billing!Spec => []Billing!PlansAgree
  OBVIOUS
<1>1. Billing!Init => PInv
  <2> SUFFICES ASSUME Billing!Init PROVE PInv
    OBVIOUS
  <2>1. sub = Billing!NoSub /\ \A h \in Hooks : hook[h] = Billing!Idle
    BY DEF Billing!Init
  <2> QED
    BY <2>1 DEF PInv, AloneDelivery, Billing!PlansAgree
<1>2. BillingTInv /\ BillingTInv' /\ PInv /\ [Billing!Next]_Billing!billingVars => PInv'
  BY PlansNext
<1>3. PInv => Billing!PlansAgree
  BY DEF PInv
<1> QED
  BY <1>1, <1>2, <1>3, RowsStay, PTL DEF Billing!Spec

-----------------------------------------------------------------------------
(* By how much a plan's limit is overrun.                                  *)

Limited == Billing!Enforced \cup {"org_members"}

LEMMA Numbers ==
    ASSUME Billing!BillingAssumption, BillingTInv, NEW k \in Limited
    PROVE  /\ BillingHeld(k) \in Nat /\ Billing!Cardinality(PendingFor(k)) \in Nat /\ Billing!Cardinality(Requests) \in Nat
           /\ Billing!Cardinality(PendingFor(k)) <= Billing!Cardinality(Requests) /\ Billing!IsFiniteSet(PendingFor(k))
           /\ \A p \in seen.plans : PlanLimit[p][k] \in Nat
<1>1. Billing!IsFiniteSet(Requests) /\ PlanLimit \in [Billing!Plans -> [Billing!Resources \cup {"org_members"} -> Nat]]
  BY DEF Billing!BillingAssumption
<1>2. /\ Billing!IsFiniteSet(PendingFor(k)) /\ Billing!Cardinality(PendingFor(k)) <= Billing!Cardinality(Requests)
      /\ Billing!Cardinality(PendingFor(k)) \in Nat /\ Billing!Cardinality(Requests) \in Nat
  <2>1. PendingFor(k) \subseteq Requests
    BY DEF PendingFor
  <2> QED
    BY <1>1, <2>1, BillingFS_Subset, BillingFS_CardinalityType
<1>3. BillingHeld(k) \in Nat
  <2>1. used \in [Billing!Resources -> Nat]
    BY DEF BillingTInv, RowTypes
  <2> QED
    BY <2>1, MembersNumber DEF BillingHeld, Limited, Billing!Enforced, Billing!Resources
<1>4. seen.plans \subseteq Billing!Plans
  BY DEF BillingTInv, OtherTypes
<1>5. k \in Billing!Resources \cup {"org_members"}
  BY DEF Limited, Billing!Enforced, Billing!Resources
<1> QED
  BY <1>1, <1>2, <1>3, <1>4, <1>5

LEMMA NumbersNext ==
    ASSUME Billing!BillingAssumption, BillingTInv', NEW k \in Limited
    PROVE  /\ BillingHeld(k)' \in Nat /\ Billing!Cardinality(PendingFor(k)') \in Nat
           /\ Billing!Cardinality(PendingFor(k)') <= Billing!Cardinality(Requests)
<1>1. Billing!Cardinality(PendingFor(k)') <= Billing!Cardinality(Requests) /\ Billing!Cardinality(PendingFor(k)') \in Nat
  <2>1. PendingFor(k)' \subseteq Requests /\ Billing!IsFiniteSet(Requests)
    BY DEF PendingFor, Billing!BillingAssumption
  <2> QED
    BY <2>1, BillingFS_Subset, BillingFS_CardinalityType
<1>2. used' \in [Billing!Resources -> Nat] /\ Billing!Cardinality(members') \in Nat
  <2>1. used' \in [Billing!Resources -> Nat] /\ Billing!IsFiniteSet(members')
    BY DEF BillingTInv, RowTypes
  <2> QED
    BY <2>1, BillingFS_CardinalityType
<1>3. BillingHeld(k)' \in Nat
  BY <1>2 DEF BillingHeld, Limited, Billing!Enforced, Billing!Resources
<1> QED
  BY <1>1, <1>3

\* Less is held, or fewer are about to write.
LEMMA RoomLess ==
    ASSUME Billing!BillingAssumption, BillingTInv, BillingTInv', NEW k \in Limited, Room(k),
           PendingFor(k)' \subseteq PendingFor(k), BillingHeld(k)' <= BillingHeld(k), seen.plans \subseteq seen'.plans
    PROVE  Room(k)'
<1>1. /\ BillingHeld(k) \in Nat /\ Billing!Cardinality(PendingFor(k)) \in Nat /\ Billing!Cardinality(Requests) \in Nat
      /\ Billing!IsFiniteSet(PendingFor(k)) /\ \A p \in seen.plans : PlanLimit[p][k] \in Nat
  BY Numbers
<1>2. BillingHeld(k)' \in Nat /\ Billing!Cardinality(PendingFor(k)') \in Nat
  BY NumbersNext
<1>3. Billing!Cardinality(PendingFor(k)') <= Billing!Cardinality(PendingFor(k))
  BY <1>1, BillingFS_Subset
<1>4. CASE PendingFor(k) = {} /\ BillingHeld(k) <= First(k)
  <2>1. First(k) \in Nat /\ First(k)' = First(k)
    BY DEF First
  <2>2. PendingFor(k)' = {} /\ BillingHeld(k)' <= First(k)'
    BY <1>1, <1>2, <1>4, <2>1
  <2> QED
    BY <2>2 DEF Room
<1>5. ASSUME NEW p \in seen.plans,
             BillingHeld(k) + Billing!Cardinality(PendingFor(k)) <= PlanLimit[p][k] + Billing!Cardinality(Requests) - 1
      PROVE  Room(k)'
  <2>1. PlanLimit[p][k] \in Nat /\ p \in seen'.plans
    BY <1>1
  <2>2. BillingHeld(k)' + Billing!Cardinality(PendingFor(k)') <= PlanLimit[p][k] + Billing!Cardinality(Requests) - 1
    BY <1>1, <1>2, <1>3, <1>5, <2>1
  <2> QED
    BY <2>1, <2>2 DEF Room
<1> QED
  BY <1>4, <1>5 DEF Room

\* What was about to be written is written.
LEMMA RoomDone ==
    ASSUME Billing!BillingAssumption, BillingTInv, BillingTInv', NEW k \in Limited, Room(k), NEW r \in PendingFor(k),
           PendingFor(k)' = PendingFor(k) \ {r}, BillingHeld(k)' <= BillingHeld(k) + 1, seen'.plans = seen.plans
    PROVE  Room(k)'
<1>1. /\ BillingHeld(k) \in Nat /\ Billing!Cardinality(PendingFor(k)) \in Nat /\ Billing!Cardinality(Requests) \in Nat
      /\ Billing!IsFiniteSet(PendingFor(k)) /\ \A p \in seen.plans : PlanLimit[p][k] \in Nat
  BY Numbers
<1>2. BillingHeld(k)' \in Nat
  BY NumbersNext
<1>3. Billing!Cardinality(PendingFor(k)') = Billing!Cardinality(PendingFor(k)) - 1
  BY <1>1, BillingFS_RemoveElement
<1>4. PICK p \in seen.plans :
         BillingHeld(k) + Billing!Cardinality(PendingFor(k)) <= PlanLimit[p][k] + Billing!Cardinality(Requests) - 1
  BY DEF Room
<1>5. PlanLimit[p][k] \in Nat /\ p \in seen'.plans
  BY <1>1
<1>6. BillingHeld(k)' + Billing!Cardinality(PendingFor(k)') <= PlanLimit[p][k] + Billing!Cardinality(Requests) - 1
  BY <1>1, <1>2, <1>3, <1>4, <1>5
<1> QED
  BY <1>5, <1>6 DEF Room

\* What is checked against the limit leaves room for every request there can be.
LEMMA RoomChecked ==
    ASSUME Billing!BillingAssumption, BillingTInv, BillingTInv', NEW k \in Limited, orgPlan # None,
           BillingHeld(k) < Billing!Limit(k), BillingHeld(k)' = BillingHeld(k), seen'.plans = seen.plans
    PROVE  Room(k)'
<1>1. BillingHeld(k) \in Nat /\ Billing!Cardinality(Requests) \in Nat /\ \A p \in seen.plans : PlanLimit[p][k] \in Nat
  BY Numbers
<1>2. /\ Billing!Cardinality(PendingFor(k)') \in Nat /\ Billing!Cardinality(PendingFor(k)') <= Billing!Cardinality(Requests)
      /\ BillingHeld(k)' \in Nat
  BY NumbersNext
<1> DEFINE p == IF deleted THEN "free" ELSE orgPlan
<1>3. p \in seen.plans /\ BillingHeld(k) < PlanLimit[p][k]
  BY DEF Billing!Limit, BillingTInv, PlansSeen
<1> HIDE DEF p
<1>4. PlanLimit[p][k] \in Nat /\ p \in seen'.plans
  BY <1>1, <1>3
<1>5. BillingHeld(k)' + Billing!Cardinality(PendingFor(k)') <= PlanLimit[p][k] + Billing!Cardinality(Requests) - 1
  BY <1>1, <1>2, <1>3, <1>4
<1> QED
  BY <1>4, <1>5 DEF Room

LEMMA RoomSame ==
    ASSUME Billing!BillingAssumption, BillingTInv, BillingTInv', NEW k \in Limited, Room(k), request' = request,
           BillingHeld(k)' <= BillingHeld(k), seen.plans \subseteq seen'.plans
    PROVE  Room(k)'
<1>1. PendingFor(k)' = PendingFor(k)
  BY DEF PendingFor, Wants, Pending, Adds
<1> QED
  BY <1>1, RoomLess

\* The requests of a kind, but for the one that moves.
LEMMA OthersPending ==
    ASSUME NEW r \in Requests, NEW k, \A q \in Requests \ {r} : SameRequest(q)
    PROVE  PendingFor(k)' \ {r} = PendingFor(k) \ {r}
<1>1. \A q \in Requests \ {r} : Wants(q)' = Wants(q)
  BY SameView
<1> QED
  BY <1>1 DEF PendingFor

LEMMA RoomMoves ==
    ASSUME Billing!BillingAssumption, BillingTInv, BillingTInv', NEW k \in Limited, Room(k), NEW r \in Requests,
           \A q \in Requests \ {r} : SameRequest(q), Wants(r)' = k => Wants(r) = k,
           BillingHeld(k)' <= BillingHeld(k), seen'.plans = seen.plans
    PROVE  Room(k)'
<1>1. PendingFor(k)' \ {r} = PendingFor(k) \ {r}
  BY OthersPending
<1>2. r \in PendingFor(k)' => r \in PendingFor(k)
  BY DEF PendingFor
<1> QED
  BY <1>1, <1>2, RoomLess

LEMMA RoomWrites ==
    ASSUME Billing!BillingAssumption, BillingTInv, BillingTInv', NEW k \in Limited, Room(k), NEW r \in Requests,
           MovesTo(r, Billing!Idle), Wants(r) = k, BillingHeld(k)' <= BillingHeld(k) + 1, seen'.plans = seen.plans
    PROVE  Room(k)'
<1>1. PendingFor(k)' \ {r} = PendingFor(k) \ {r} /\ r \in PendingFor(k)
  BY OthersPending DEF MovesTo, PendingFor
<1>2. Wants(r)' = "none"
  BY DEF MovesTo, Wants, Pending, Adds, Billing!Idle
<1>3. r \notin PendingFor(k)'
  BY <1>2 DEF PendingFor, Limited, Billing!Enforced
<1> QED
  BY <1>1, <1>3, RoomDone

LEMMA RoomNext ==
    ASSUME Billing!BillingAssumption, BillingTInv, BillingTInv', MInv, NEW k \in Limited, Room(k), [Billing!Next]_Billing!billingVars
    PROVE  Room(k)'
<1>0. /\ BillingHeld(k) \in Nat /\ BillingHeld(k) <= BillingHeld(k)
      /\ k # "none" /\ k # "projects" /\ (k # "org_members" => k \in Billing!Enforced)
      /\ "org_members" \notin Billing!Resources /\ Billing!Enforced \subseteq Billing!Resources /\ used \in [Billing!Resources -> Nat]
  <2>1. BillingHeld(k) \in Nat
    BY Numbers
  <2>2. used \in [Billing!Resources -> Nat]
    BY DEF BillingTInv, RowTypes
  <2> QED
    BY <2>1, <2>2 DEF Limited, Billing!Enforced, Billing!Resources
<1>1. CASE Billing!CreateOrg
  <2>1. /\ orgPlan = None /\ UNCHANGED <<request, hook, events, billingCount, accounts, deleted>>
        /\ \E m \in MemberRow : members' = {m} /\ m.n = 0 /\ m.role = "owner"
        /\ \A j \in Billing!Resources : used'[j] = IF j = "projects" THEN 1 ELSE 0
    BY <1>1, CreateOrgTypes
  <2>2. Billing!Cardinality(members') = 1
    BY <2>1, BillingFS_Singleton
  <2>3. PendingFor(k)' = {}
    BY <1>0, <2>1 DEF BillingTInv, Unborn, PendingFor, Wants, Pending, Adds, Billing!Idle
  <2>4. BillingHeld(k)' <= First(k)'
    BY <1>0, <2>1, <2>2 DEF BillingHeld, First
  <2> QED
    BY <2>3, <2>4 DEF Room
<1>2. CASE Billing!DeleteOrg
  BY <1>0, <1>2, RoomSame DEF Billing!DeleteOrg, BillingHeld
<1>3. ASSUME NEW email \in Others, Billing!AutoProvision(email) PROVE Room(k)'
  BY <1>0, <1>3, RoomSame DEF Billing!AutoProvision, BillingHeld
<1>4. ASSUME NEW j \in Billing!Resources, Billing!Delete(j) PROVE Room(k)'
  <2>1. /\ used' = [used EXCEPT ![j] = @ - 1]
        /\ UNCHANGED <<orgPlan, sub, members, request, hook, events, seen, billingCount, accounts, deleted>>
    BY <1>4 DEF Billing!Delete
  <2>2. BillingHeld(k)' <= BillingHeld(k)
    BY <1>0, <2>1 DEF BillingHeld
  <2> QED
    BY <2>1, <2>2, RoomSame
<1>5. ASSUME NEW r \in Requests, NEW email \in Others, NEW role \in {"admin", "member"},
             Billing!CheckInvite(r, email, role)
      PROVE  Room(k)'
  <2>1. PICK state \in Inserting : /\ Begins(r, state)
           /\ Billing!Cardinality(members) < Billing!Limit("org_members")
           /\ UNCHANGED <<orgPlan, sub, members, used, hook, events, seen, accounts, deleted>>
    BY <1>5, InviteEffect
  <2>2. BillingHeld(k)' = BillingHeld(k) /\ seen' = seen
    BY <2>1 DEF BillingHeld
  <2>3. CASE k = "org_members"
    BY <2>1, <2>2, <2>3, RoomChecked DEF BillingHeld, Begins
  <2>4. CASE k # "org_members"
    <3>1. Wants(r)' = "org_members"
      BY <2>1 DEF Begins, Wants, Pending, Inserting
    <3> QED
      BY <1>0, <2>1, <2>2, <2>4, <3>1, RoomMoves DEF Begins
  <2> QED
    BY <2>3, <2>4
<1>6. ASSUME NEW r \in Requests, NEW row0 \in members, Billing!RemoveMember(r, row0) PROVE Room(k)'
  <2>1. PICK state \in Counting : /\ Begins(r, state) /\ state.add = {}
           /\ UNCHANGED <<orgPlan, sub, members, used, hook, events, seen, accounts, deleted>>
    BY <1>6, RemoveEffect
  <2>2. BillingHeld(k)' = BillingHeld(k) /\ seen' = seen
    BY <2>1 DEF BillingHeld
  <2>3. Wants(r)' = "none"
    BY <2>1 DEF Begins, Wants, Pending, Adds, Counting
  <2> QED
    BY <1>0, <2>1, <2>2, <2>3, RoomMoves DEF Begins
<1>7. ASSUME NEW r \in Requests, NEW j \in Billing!Resources, Billing!CheckLimit(r, j) PROVE Room(k)'
  <2>1. PICK state \in Creating : /\ Begins(r, state) /\ state.resource = j
           /\ (j \in Billing!Enforced => used[j] < Billing!Limit(j))
           /\ UNCHANGED <<orgPlan, sub, members, used, hook, events, seen, accounts, deleted>>
    BY <1>7, CheckLimitEffect
  <2>2. BillingHeld(k)' = BillingHeld(k) /\ seen' = seen
    BY <2>1 DEF BillingHeld
  <2>3. CASE k = j
    <3>1. BillingHeld(k) < Billing!Limit(k)
      BY <1>0, <2>1, <2>3 DEF BillingHeld
    <3> QED
      BY <2>1, <2>2, <3>1, RoomChecked DEF Begins
  <2>4. CASE k # j
    <3>1. Wants(r)' = j
      BY <2>1 DEF Begins, Wants, Creating
    <3> QED
      BY <1>0, <2>1, <2>2, <2>4, <3>1, RoomMoves DEF Begins
  <2> QED
    BY <2>3, <2>4
<1>8. ASSUME NEW r \in Requests, request[r] # Billing!Idle, Billing!CountInvited(r) PROVE Room(k)'
  <2>1. /\ request[r] \in Inserting
        /\ UNCHANGED <<orgPlan, sub, members, used, hook, events, seen, billingCount, accounts, deleted>>
        /\ \/ MovesTo(r, Billing!Idle)
           \/ \E x \in Counting : MovesTo(r, x) /\ x.add = {request[r].row}
    BY <1>8, CountInvitedEffect
  <2>2. Wants(r) = "org_members" /\ BillingHeld(k)' = BillingHeld(k) /\ seen' = seen
    BY <2>1, Views DEF BillingHeld
  <2>3. Wants(r)' \in {"org_members", "none"}
    <3>1. CASE MovesTo(r, Billing!Idle)
      BY <3>1 DEF MovesTo, Wants, Pending, Adds, Billing!Idle
    <3>2. CASE \E x \in Counting : MovesTo(r, x) /\ x.add = {request[r].row}
      BY <3>2 DEF MovesTo, Wants, Pending, Adds, Counting
    <3> QED
      BY <2>1, <3>1, <3>2
  <2>4. \A q \in Requests \ {r} : SameRequest(q)
    BY <2>1 DEF MovesTo
  <2> QED
    BY <1>0, <2>2, <2>3, <2>4, RoomMoves
<1>9. ASSUME NEW r \in Requests, request[r] # Billing!Idle, Billing!RollBack(r) PROVE Room(k)'
  <2>1. /\ MovesTo(r, Billing!Idle)
        /\ UNCHANGED <<orgPlan, sub, members, used, hook, events, seen, accounts, deleted>>
    BY <1>9, RollBackEffect
  <2>2. Wants(r)' = "none" /\ BillingHeld(k)' = BillingHeld(k)
    BY <2>1 DEF MovesTo, Wants, Pending, Adds, Billing!Idle, BillingHeld
  <2> QED
    BY <1>0, <2>1, <2>2, RoomMoves DEF MovesTo
<1>10. ASSUME NEW r \in Requests, request[r] # Billing!Idle, Billing!Create(r) PROVE Room(k)'
  <2>1. /\ request[r] \in Creating /\ request[r].resource \in Billing!Resources /\ MovesTo(r, Billing!Idle)
        /\ used' = IF request[r].resource = "developer_profiles" THEN used
                      ELSE [used EXCEPT ![request[r].resource] = @ + 1]
        /\ UNCHANGED <<orgPlan, sub, members, hook, events, seen, billingCount, accounts, deleted>>
    BY <1>10, CreateEffect
  <2>2. Wants(r) = request[r].resource
    BY <2>1, Views
  <2>3. CASE k = request[r].resource
    <3>1. BillingHeld(k)' <= BillingHeld(k) + 1
      BY <1>0, <2>1, <2>3 DEF BillingHeld
    <3> QED
      BY <2>1, <2>2, <2>3, <3>1, RoomWrites
  <2>4. CASE k # request[r].resource
    <3>1. BillingHeld(k)' = BillingHeld(k)
      BY <1>0, <2>1, <2>4 DEF BillingHeld
    <3>2. Wants(r)' = "none"
      BY <2>1 DEF MovesTo, Wants, Pending, Adds, Billing!Idle
    <3> QED
      BY <1>0, <2>1, <3>1, <3>2, RoomMoves DEF MovesTo
  <2> QED
    BY <2>3, <2>4
<1>11. ASSUME NEW r \in Requests, request[r] # Billing!Idle, Billing!SyncSeatCount(r) PROVE Room(k)'
  <2>1. /\ request[r] \in Counting /\ MovesTo(r, Billing!Idle)
        /\ members' = (members \ Drops(r)) \cup Adds(r) /\ Adds(r) = request[r].add
        /\ seen' = [seen EXCEPT !.seatsRaced = ~request[r].alone]
        /\ UNCHANGED <<orgPlan, used, hook, events, billingCount, accounts, deleted>>
    BY <1>11, SyncEffect
  <2>2. seen'.plans = seen.plans
    BY <2>1 DEF BillingTInv, OtherTypes
  <2>3. Wants(r) = IF Adds(r) # {} THEN "org_members" ELSE "none"
    BY <2>1, Views
  <2>4. Billing!Cardinality(members') = IF Adds(r) # {} THEN Billing!Cardinality(members) + 1 ELSE Billing!Cardinality(members) - 1
    BY <2>1, CountOfSync
  <2>5. Billing!Cardinality(members) \in Nat
    BY MembersNumber
  <2>6. CASE k = "org_members" /\ Adds(r) # {}
    <3>1. BillingHeld(k)' <= BillingHeld(k) + 1
      BY <2>4, <2>5, <2>6 DEF BillingHeld
    <3> QED
      BY <2>1, <2>2, <2>3, <2>6, <3>1, RoomWrites
  <2>7. CASE k # "org_members" \/ Adds(r) = {}
    <3>1. BillingHeld(k)' <= BillingHeld(k)
      BY <1>0, <2>1, <2>4, <2>5, <2>7 DEF BillingHeld
    <3>2. Wants(r)' = "none"
      BY <2>1 DEF MovesTo, Wants, Pending, Adds, Billing!Idle
    <3> QED
      BY <1>0, <2>1, <2>2, <3>1, <3>2, RoomMoves DEF MovesTo
  <2> QED
    BY <2>6, <2>7
<1>12. ASSUME NEW actor \in members, NEW row0 \in members,
              NEW role \in {"owner", "admin", "member"}, Billing!ChangeRole(actor, row0, role)
       PROVE  Room(k)'
  <2>1. PICK new \in MemberRow :
          /\ members' = (members \ {row0}) \cup {new} /\ new.n = row0.n
          /\ UNCHANGED <<orgPlan, sub, used, request, hook, events, seen, billingCount, accounts, deleted>>
    BY <1>12, ChangeRoleEffect
  <2>2. BillingHeld(k)' = BillingHeld(k)
    BY <2>1, CountOfChange DEF BillingHeld
  <2> QED
    BY <1>0, <2>1, <2>2, RoomSame
<1>13. ASSUME NEW h \in Hooks, NEW e \in DOMAIN Events, Billing!ReceiveEvent(h, e) PROVE Room(k)'
  BY <1>0, <1>13, ReceiveEffect, RoomSame DEF BillingHeld
<1>14. ASSUME NEW h \in Hooks, Billing!HandleWebhookEvent(h) PROVE Room(k)'
  <2>1. /\ UNCHANGED <<members, used, request, billingCount, accounts, deleted>>
        /\ (WritesRow(h) \/ UNCHANGED <<sub, orgPlan, seen>>)
    BY <1>14, DeliverEffect
  <2>2. seen.plans \subseteq seen'.plans
    BY <2>1 DEF WritesRow
  <2>3. BillingHeld(k)' = BillingHeld(k)
    BY <2>1 DEF BillingHeld
  <2> QED
    BY <1>0, <2>1, <2>2, <2>3, RoomSame
<1>15. ASSUME NEW h \in Hooks, Billing!WebhookFails(h) PROVE Room(k)'
  BY <1>0, <1>15, FailEffect, RoomSame DEF BillingHeld
<1>16. CASE UNCHANGED Billing!billingVars
  BY <1>0, <1>16, RoomSame DEF Billing!billingVars, BillingHeld
<1> QED
  BY <1>1, <1>2, <1>3, <1>4, <1>5, <1>6, <1>7, <1>8, <1>9, <1>10, <1>11, <1>12, <1>13, <1>14,
     <1>15, <1>16 DEF Billing!Next

\* What an organisation has of a limited resource is at most one less than the
\* requests there can be at a time above what some plan it has had allows
\* (plan_enforcer.py: the rows are counted before one is written).
THEOREM LimitsHold == Billing!BillingAssumption => (Billing!Spec => []Billing!WithinPlan)
<1> SUFFICES ASSUME Billing!BillingAssumption PROVE Billing!Spec => []Billing!WithinPlan
  OBVIOUS
<1>1. Billing!Init => RInv
  <2> SUFFICES ASSUME Billing!Init, NEW k \in Limited PROVE Room(k)
    BY DEF RInv, Limited
  <2>1. /\ members = {} /\ used = [j \in Billing!Resources |-> 0] /\ \A r \in Requests : request[r] = Billing!Idle
    BY DEF Billing!Init
  <2>2. PendingFor(k) = {}
    BY <2>1 DEF PendingFor, Wants, Pending, Adds, Billing!Idle, Limited, Billing!Enforced
  <2>3. BillingHeld(k) <= First(k)
    BY <2>1, BillingFS_EmptySet DEF BillingHeld, First, Limited, Billing!Enforced, Billing!Resources
  <2> QED
    BY <2>2, <2>3 DEF Room
<1>2. BillingTInv /\ BillingTInv' /\ MInv /\ RInv /\ [Billing!Next]_Billing!billingVars => RInv'
  BY RoomNext DEF RInv, Limited
<1>3. ASSUME BillingTInv, RInv PROVE Billing!WithinPlan
  <2> SUFFICES ASSUME NEW k \in Limited, BillingHeld(k) > 0, ~(k = "org_members" /\ Billing!Cardinality(members) = 1)
               PROVE  \E p \in seen.plans : BillingHeld(k) <= PlanLimit[p][k] + Billing!Cardinality(Requests) - 1
    BY DEF Billing!WithinPlan, BillingHeld, Limited
  <2>1. /\ BillingHeld(k) \in Nat /\ Billing!Cardinality(PendingFor(k)) \in Nat /\ Billing!Cardinality(Requests) \in Nat
        /\ \A p \in seen.plans : PlanLimit[p][k] \in Nat
    BY <1>3, Numbers
  <2>2. ~(BillingHeld(k) <= First(k))
    BY <2>1 DEF BillingHeld, First
  <2>3. PICK p \in seen.plans :
           BillingHeld(k) + Billing!Cardinality(PendingFor(k)) <= PlanLimit[p][k] + Billing!Cardinality(Requests) - 1
    BY <1>3, <2>2 DEF RInv, Room, Limited
  <2>4. PlanLimit[p][k] \in Nat
    BY <2>1
  <2>5. BillingHeld(k) <= PlanLimit[p][k] + Billing!Cardinality(Requests) - 1
    BY <2>1, <2>3, <2>4
  <2> QED
    BY <2>5
<1>4. BillingTInv /\ RInv => Billing!WithinPlan
  BY <1>3
<1> QED
  BY <1>1, <1>2, <1>4, RowsStay, PTL DEF Billing!Spec

-----------------------------------------------------------------------------
(* The part in the system.                                                  *)

\* A behaviour of the system is this part's, or leaves it alone.
LEMMA BillingAlone ==
    /\ Init /\ part = "billing" => Billing!Init
    /\ [Next]_vars /\ part = "billing" => (part = "billing")' /\ [Billing!Next]_(Billing!billingVars)
    /\ [Next]_vars /\ ~(part = "billing") => (~(part = "billing"))'
<1> USE DEF ClientsNext, LinkedInNext, IndexNext, ScheduleNext, BillingNext, SearchNext, CommandsNext
<1>1. Init /\ part = "billing" => Billing!Init
  BY DEF Init
<1>2. Next => part' = part
  BY DEF Next
<1>3. Next /\ part = "billing" => Billing!Next
  BY DEF Next
<1>4. UNCHANGED vars => part' = part /\ UNCHANGED Billing!billingVars
  BY DEF vars, billingVars, Billing!billingVars
<1> QED
  BY <1>1, <1>2, <1>3, <1>4

WholeBilling ==
    /\ Billing!TypeOK
    /\ Billing!WithinPlan
    /\ Billing!SeatsCounted
    /\ Billing!PlansAgree

LEMMA BillingAlwaysHold == Billing!BillingAssumption => (Spec => [](part = "billing" => WholeBilling))
<1> SUFFICES ASSUME Billing!BillingAssumption PROVE Spec => [](part = "billing" => WholeBilling)
  OBVIOUS
<1>1. Billing!Spec => []WholeBilling
  <2>1. Billing!Spec => []Billing!TypeOK
    BY BillingTypeCorrect
  <2>2. Billing!Spec => []Billing!WithinPlan
    BY LimitsHold
  <2>3. Billing!Spec => []Billing!SeatsCounted
    BY SeatsAreCounted
  <2>4. Billing!Spec => []Billing!PlansAgree
    BY PlansAreAgreed
  <2>5. Billing!TypeOK /\ Billing!WithinPlan /\ Billing!SeatsCounted /\ Billing!PlansAgree => WholeBilling
    BY DEF WholeBilling
  <2> HIDE DEF WholeBilling
  <2> QED
    BY <2>1, <2>2, <2>3, <2>4, <2>5, PTL
<1>2. Init /\ part = "billing" => Billing!Init
  BY BillingAlone
<1>3. [Next]_vars /\ part = "billing" => (part = "billing")' /\ [Billing!Next]_(Billing!billingVars)
  BY BillingAlone
<1>4. [Next]_vars /\ ~(part = "billing") => (~(part = "billing"))'
  BY BillingAlone
<1> HIDE DEF WholeBilling, Init, Next, Billing!Init, Billing!Next
<1> QED
  BY <1>1, <1>2, <1>3, <1>4, PTL DEF Spec, Billing!Spec

\* Limits are overrun only by overlapping requests, and the plan and the seats of the
\* subscription are the organisation's, for any people, plans, requests and webhooks
\* (billing_service.py, plan_enforcer.py).
THEOREM BillingIsKept == Billing!BillingAssumption => (Spec => []BillingHolds)
<1>1. (part = "billing" => WholeBilling) => BillingHolds
  BY DEF WholeBilling, BillingHolds
<1> HIDE DEF WholeBilling, BillingHolds
<1> QED
  BY <1>1, BillingAlwaysHold, PTL

-----------------------------------------------------------------------------
(* The scheduler (PipelineSchedule).                                       *)

LEMMA ScheduleCounting ==
    \A S : Schedule!Cardinality(S) = Cardinality(S) /\ (Schedule!IsFiniteSet(S) <=> IsFiniteSet(S))
  BY Zenon DEF Schedule!Cardinality, Cardinality, Schedule!IsFiniteSet, IsFiniteSet

LEMMA ScheduleFS_EmptySet ==
    /\ Schedule!IsFiniteSet({}) /\ Schedule!Cardinality({}) = 0
    /\ \A S : Schedule!IsFiniteSet(S) => (Schedule!Cardinality(S) = 0 <=> S = {})
  BY FS_EmptySet, ScheduleCounting

LEMMA ScheduleFS_CardinalityType ==
    ASSUME NEW S, Schedule!IsFiniteSet(S) PROVE Schedule!Cardinality(S) \in Nat
  BY FS_CardinalityType, ScheduleCounting

LEMMA ScheduleFS_AddElement ==
    ASSUME NEW S, NEW x, Schedule!IsFiniteSet(S)
    PROVE  /\ Schedule!IsFiniteSet(S \cup {x})
           /\ Schedule!Cardinality(S \cup {x}) = IF x \in S THEN Schedule!Cardinality(S) ELSE Schedule!Cardinality(S) + 1
  BY FS_AddElement, ScheduleCounting

LEMMA ScheduleFS_RemoveElement ==
    ASSUME NEW S, NEW x, Schedule!IsFiniteSet(S)
    PROVE  /\ Schedule!IsFiniteSet(S \ {x})
           /\ Schedule!Cardinality(S \ {x}) = IF x \in S THEN Schedule!Cardinality(S) - 1 ELSE Schedule!Cardinality(S)
  BY FS_RemoveElement, ScheduleCounting

LEMMA ScheduleFS_Subset ==
    ASSUME NEW S, NEW T, Schedule!IsFiniteSet(S), T \subseteq S
    PROVE  /\ Schedule!IsFiniteSet(T) /\ Schedule!Cardinality(T) <= Schedule!Cardinality(S)
           /\ Schedule!Cardinality(S) = Schedule!Cardinality(T) => S = T
  BY FS_Subset, ScheduleCounting

LEMMA ScheduleFS_Union ==
    ASSUME NEW S, Schedule!IsFiniteSet(S), NEW T, Schedule!IsFiniteSet(T)
    PROVE  /\ Schedule!IsFiniteSet(S \cup T)
           /\ Schedule!Cardinality(S \cup T) = Schedule!Cardinality(S) + Schedule!Cardinality(T) - Schedule!Cardinality(S \cap T)
  BY FS_Union, ScheduleCounting

\* What is assumed of the constants; the model-checked instance asserts it.
ScheduleAssumptions == Schedule!InstancesAssumption /\ Schedule!PeriodsAssumption /\ Schedule!BoundsAssumption

-----------------------------------------------------------------------------
(* Types.                                                                  *)

Time == 0..(MaxTime + 1)
ScheduleRow == [period : Periods, enabled : BOOLEAN, nextRun : Nat]
DueRow == [id : Schedules, period : Periods, at : Nat]
PollRecord == [pc : {"sleep", "spawn", "write"}, now : Nat,
               due : SUBSET DueRow, row : SUBSET DueRow]

ClockTypes ==
    /\ now \in 0..MaxTime /\ rewound \in BOOLEAN
    /\ scheduleCount \in [requests : Nat, failures : Nat]
ScheduleTypes ==
    /\ DOMAIN schedule \subseteq Schedules
    /\ schedule \in [DOMAIN schedule -> ScheduleRow]
FiredTypes == fired \in [Schedules -> [Time -> Nat]]

\* A poll has one row for each schedule that was due when it began, and at most
\* one of them between its spawn and its write.
PollFits(p, clock) ==
    /\ p.pc = "sleep" => p = Schedule!Sleeping
    /\ p.pc = "spawn" => p.row = {}
    /\ p.pc = "write" => \E r \in DueRow : p.row = {r}
    /\ p.now <= clock
    /\ \A r \in p.due \cup p.row : r.at <= p.now
    /\ \A r, q \in p.due \cup p.row : r.id = q.id => r = q
    /\ p.due \cap p.row = {}
PollTypes ==
    /\ poller \in [Instances -> PollRecord]
    /\ \A i \in Instances : PollFits(poller[i], now)

ScheduleTInv == ClockTypes /\ ScheduleTypes /\ FiredTypes /\ PollTypes

\* The next time lies after the time it is computed from.
LEMMA NextIsLater ==
    ASSUME NEW p \in Nat \ {0}, NEW t \in Nat
    PROVE  Schedule!GetNext(p, t) \in Nat /\ Schedule!GetNext(p, t) > t
<1> DEFINE d == t \div p
           m == t % p
<1>1. d \in Int /\ m \in 0..(p - 1) /\ t = p * d + m
  OBVIOUS
<1>2. d >= 0
  OBVIOUS
<1> HIDE DEF d, m
<1>3. (d + 1) * p = p * d + p
  BY <1>1
<1>4. (d + 1) * p \in Nat
  BY <1>1, <1>2, <1>3
<1> QED
  BY <1>1, <1>3, <1>4 DEF Schedule!GetNext, d

LEMMA PeriodsArePositive ==
    ASSUME Schedule!PeriodsAssumption
    PROVE  \A p \in Periods : p \in Nat \ {0}
  BY DEF Schedule!PeriodsAssumption

LEMMA ScheduleTypesInit == ScheduleAssumptions /\ Schedule!Init => ScheduleTInv
<1> SUFFICES ASSUME ScheduleAssumptions, Schedule!Init PROVE ScheduleTInv
  OBVIOUS
<1>1. MaxTime \in Nat
  BY DEF ScheduleAssumptions, Schedule!BoundsAssumption
<1>2. ClockTypes
  <2>1. now \in 0..MaxTime
    BY <1>1 DEF Schedule!Init
  <2>2. scheduleCount \in [requests : Nat, failures : Nat]
    BY DEF Schedule!Init
  <2>3. rewound \in BOOLEAN
    BY DEF Schedule!Init
  <2> QED
    BY <2>1, <2>2, <2>3 DEF ClockTypes
<1>2b. FiredTypes
  <2>1. [t \in Time |-> 0] \in [Time -> Nat]
    OBVIOUS
  <2>2. fired = [s \in Schedules |-> [t \in Time |-> 0]]
    BY DEF Schedule!Init, Time
  <2> QED
    BY <2>1, <2>2 DEF FiredTypes
<1>2a. ScheduleTypes
  <2>1. schedule = [s \in {} |-> 0] /\ DOMAIN schedule = {}
    BY DEF Schedule!Init
  <2>2. schedule \in [{} -> ScheduleRow]
    BY <2>1
  <2> QED
    BY <2>1, <2>2 DEF ScheduleTypes
<1>3. Schedule!Sleeping \in PollRecord /\ PollFits(Schedule!Sleeping, now)
  BY <1>1 DEF Schedule!Sleeping, PollRecord, PollFits, Schedule!Init
<1>4. PollTypes
  BY <1>3 DEF PollTypes, Schedule!Init
<1> QED
  BY <1>2, <1>2a, <1>2b, <1>4 DEF ScheduleTInv

-----------------------------------------------------------------------------
(* What each step does.                                                    *)

\* The place of one poll changes, to one that fits.
Polled(i, p) ==
    /\ p \in PollRecord /\ PollFits(p, now)
    /\ poller' = [poller EXCEPT ![i] = p]
    /\ now' = now

LEMMA PolledTypes ==
    ASSUME ScheduleTInv, NEW i \in Instances, NEW p, Polled(i, p)
    PROVE  PollTypes' /\ poller'[i] = p /\ \A j \in Instances \ {i} : poller'[j] = poller[j]
<1>1. /\ poller' \in [Instances -> PollRecord]
      /\ poller'[i] = p /\ \A j \in Instances \ {i} : poller'[j] = poller[j]
  BY DEF Polled, ScheduleTInv, PollTypes
<1>2. \A j \in Instances : PollFits(poller'[j], now)
  BY <1>1 DEF Polled, ScheduleTInv, PollTypes
<1>3. now' = now
  BY DEF Polled
<1> QED
  BY <1>1, <1>2, <1>3 DEF PollTypes

LEMMA TickTypes == ScheduleAssumptions /\ ScheduleTInv /\ Schedule!Tick => ScheduleTInv'
<1> SUFFICES ASSUME ScheduleAssumptions, ScheduleTInv, Schedule!Tick PROVE ScheduleTInv'
  OBVIOUS
<1>1. MaxTime \in Nat
  BY DEF ScheduleAssumptions, Schedule!BoundsAssumption
<1>2. now' \in 0..MaxTime /\ now <= now' /\ now \in Nat /\ now' \in Nat
  BY <1>1 DEF Schedule!Tick, ScheduleTInv, ClockTypes
<1>3. ClockTypes'
  BY <1>2 DEF Schedule!Tick, ScheduleTInv, ClockTypes
<1>4. ScheduleTypes' /\ FiredTypes'
  BY DEF Schedule!Tick, ScheduleTInv, ScheduleTypes, FiredTypes
<1>5. PollTypes'
  <2>1. \A p \in PollRecord : PollFits(p, now) => PollFits(p, now')
    BY <1>2 DEF PollFits, PollRecord
  <2>2. poller' = poller
    BY DEF Schedule!Tick
  <2> QED
    BY <2>1, <2>2 DEF ScheduleTInv, PollTypes
<1> QED
  BY <1>3, <1>4, <1>5 DEF ScheduleTInv

\* A poll begins with the rows that are due.
LEMMA BeginsEffect ==
    ASSUME ScheduleTInv, NEW i \in Instances, Schedule!PollSchedules(i)
    PROVE  \E p : /\ Polled(i, p) /\ p.pc = "spawn" /\ p.row = {}
                  /\ poller[i] = Schedule!Sleeping
                  /\ \A r \in p.due : /\ r.id \in DOMAIN schedule
                                      /\ r.at = schedule[r.id].nextRun
<1> DEFINE D == {[id |-> s, period |-> schedule[s].period, at |-> schedule[s].nextRun] : s \in Schedule!Due}
           p == [pc |-> "spawn", now |-> now, row |-> {}, due |-> D]
<1>1. \A s \in Schedule!Due : /\ s \in DOMAIN schedule /\ s \in Schedules
                              /\ schedule[s] \in ScheduleRow /\ schedule[s].nextRun <= now
  BY DEF Schedule!Due, ScheduleTInv, ScheduleTypes
<1>2. \A r \in D : /\ r \in DueRow /\ r.id \in DOMAIN schedule
                   /\ r.at = schedule[r.id].nextRun /\ r.at <= now
                   /\ r = [id |-> r.id, period |-> schedule[r.id].period, at |-> schedule[r.id].nextRun]
  BY <1>1 DEF DueRow, ScheduleRow
<1>3. now \in Nat
  BY DEF ScheduleTInv, ClockTypes
<1>4. poller' = [poller EXCEPT ![i] = p] /\ now' = now /\ poller[i].pc = "sleep"
  BY DEF Schedule!PollSchedules
<1>5. poller[i] = Schedule!Sleeping
  BY <1>4 DEF ScheduleTInv, PollTypes, PollFits
<1> HIDE DEF D
<1>6. p \in PollRecord
  BY <1>2, <1>3 DEF PollRecord
<1>7. PollFits(p, now)
  BY <1>2, <1>3 DEF PollFits
<1>8. Polled(i, p)
  BY <1>4, <1>6, <1>7 DEF Polled
<1>9. \A r \in p.due : r.id \in DOMAIN schedule /\ r.at = schedule[r.id].nextRun
  BY <1>2
<1>10. p.pc = "spawn" /\ p.row = {}
  OBVIOUS
<1> HIDE DEF p
<1> QED
  BY <1>5, <1>8, <1>9, <1>10

SpawnedRun(i, r, p) ==
    /\ Polled(i, p) /\ r \in DueRow
    /\ p.pc = "write" /\ p.due = poller[i].due \ {r} /\ p.row = {r}
    /\ poller[i].row = {} /\ r.at \in Time
    /\ fired' = [fired EXCEPT ![r.id][r.at] = @ + 1]

\* A run is spawned for one of the due rows, or the poll is over.
LEMMA SpawnEffect ==
    ASSUME ScheduleAssumptions, ScheduleTInv, NEW i \in Instances, Schedule!Spawn(i)
    PROVE  \/ Polled(i, Schedule!Sleeping) /\ poller[i].due = {} /\ poller[i].row = {} /\ fired' = fired
           \/ \E r \in poller[i].due : \E p : SpawnedRun(i, r, p)
<1>1. /\ poller[i] \in PollRecord /\ PollFits(poller[i], now)
      /\ poller[i].pc = "spawn" /\ poller[i].row = {} /\ now' = now /\ now \in Nat
  <2>1. poller[i] \in PollRecord /\ PollFits(poller[i], now) /\ now \in Nat
    BY DEF ScheduleTInv, PollTypes, ClockTypes
  <2>2. poller[i].pc = "spawn" /\ now' = now
    BY DEF Schedule!Spawn
  <2> QED
    BY <2>1, <2>2 DEF PollFits
<1>2. CASE poller[i].due = {} /\ poller' = [poller EXCEPT ![i] = Schedule!Sleeping] /\ fired' = fired
  <2>1. Schedule!Sleeping \in PollRecord /\ PollFits(Schedule!Sleeping, now)
    BY <1>1 DEF Schedule!Sleeping, PollRecord, PollFits
  <2> QED
    BY <1>1, <1>2, <2>1 DEF Polled
<1>3. ASSUME NEW r \in poller[i].due,
             fired' = [fired EXCEPT ![r.id][r.at] = @ + 1],
             poller' = [poller EXCEPT ![i].pc = "write", ![i].due = @ \ {r}, ![i].row = {r}]
      PROVE  \E p : SpawnedRun(i, r, p)
  <2> DEFINE p == [poller[i] EXCEPT !.pc = "write", !.due = @ \ {r}, !.row = {r}]
  <2>1. /\ r \in DueRow /\ r.at \in Nat /\ r.at <= poller[i].now /\ poller[i].now <= now
        /\ poller[i].now \in Nat
    BY <1>1 DEF PollRecord, PollFits, DueRow
  <2>2. p \in PollRecord /\ p.pc = "write" /\ p.due = poller[i].due \ {r} /\ p.row = {r}
        /\ p.now = poller[i].now
    BY <1>1, <2>1 DEF PollRecord
  <2>3. poller' = [poller EXCEPT ![i] = p]
    BY <1>3
  <2> HIDE DEF p
  <2>4. PollFits(p, now)
    BY <1>1, <2>1, <2>2 DEF PollFits
  <2>5. Polled(i, p)
    BY <1>1, <2>2, <2>3, <2>4 DEF Polled
  <2>6. r.at \in Time
    BY <2>1 DEF ScheduleTInv, ClockTypes, Time, ScheduleAssumptions, Schedule!BoundsAssumption
  <2> QED
    BY <1>1, <1>3, <2>1, <2>2, <2>5, <2>6 DEF SpawnedRun
<1> QED
  BY <1>2, <1>3 DEF Schedule!Spawn

\* The write of a row that is not there any more does nothing.
Written(i, r, p, next) ==
    /\ Polled(i, p) /\ p.pc = "spawn" /\ p.due = poller[i].due /\ p.row = {}
    /\ poller[i].row = {r} /\ r.at < next
    /\ fired' = fired /\ scheduleCount' = scheduleCount
    /\ IF r.id \in DOMAIN schedule
       THEN /\ schedule' = [schedule EXCEPT ![r.id].nextRun = next]
            /\ rewound' = (rewound \/ next < schedule[r.id].nextRun)
       ELSE schedule' = schedule /\ rewound' = rewound

LEMMA WriteEffect ==
    ASSUME ScheduleAssumptions, ScheduleTInv, NEW i \in Instances, Schedule!WriteNextRun(i)
    PROVE  \E r \in DueRow, next \in Nat : \E p : Written(i, r, p, next)
<1>1. /\ poller[i] \in PollRecord /\ PollFits(poller[i], now) /\ now' = now /\ now \in Nat
      /\ poller[i].pc = "write" /\ fired' = fired /\ scheduleCount' = scheduleCount
  <2>1. poller[i] \in PollRecord /\ PollFits(poller[i], now) /\ now \in Nat
    BY DEF ScheduleTInv, PollTypes, ClockTypes
  <2> QED
    BY <2>1 DEF Schedule!WriteNextRun
<1>2. PICK r \in DueRow : poller[i].row = {r}
  BY <1>1 DEF PollFits
<1> DEFINE p == [poller[i] EXCEPT !.pc = "spawn", !.row = {}]
           next == Schedule!GetNext(r.period, poller[i].now)
<1>3. /\ r.period \in Nat \ {0} /\ r.at \in Nat /\ poller[i].now \in Nat
      /\ r.at <= poller[i].now /\ poller[i].now <= now
  BY <1>1, <1>2, PeriodsArePositive DEF ScheduleAssumptions, PollFits, PollRecord, DueRow
<1>4. next \in Nat /\ r.at < next
  <2>1. next \in Nat /\ next > poller[i].now
    BY <1>3, NextIsLater
  <2> HIDE DEF next
  <2> QED
    BY <1>3, <2>1
<1>5. /\ poller' = [poller EXCEPT ![i] = p]
      /\ IF r.id \in DOMAIN schedule
         THEN /\ schedule' = [schedule EXCEPT ![r.id].nextRun = next]
              /\ rewound' = (rewound \/ next < schedule[r.id].nextRun)
         ELSE schedule' = schedule /\ rewound' = rewound
  BY <1>2 DEF Schedule!WriteNextRun
<1>6. p \in PollRecord /\ p.pc = "spawn" /\ p.due = poller[i].due /\ p.row = {}
      /\ p.now = poller[i].now
  BY <1>1 DEF PollRecord
<1> HIDE DEF p, next
<1>7. PollFits(p, now)
  BY <1>1, <1>3, <1>6 DEF PollFits
<1>8. Polled(i, p)
  BY <1>1, <1>5, <1>6, <1>7 DEF Polled
<1>9. Written(i, r, p, next)
  BY <1>1, <1>2, <1>4, <1>5, <1>6, <1>8 DEF Written
<1> QED
  BY <1>4, <1>9

LEMMA PollFailsEffect ==
    ASSUME ScheduleTInv, NEW i \in Instances, Schedule!PollFails(i)
    PROVE  /\ Polled(i, Schedule!Sleeping) /\ scheduleCount' = [scheduleCount EXCEPT !.failures = @ + 1]
           /\ UNCHANGED <<schedule, fired, rewound>>
<1>1. Schedule!Sleeping \in PollRecord /\ PollFits(Schedule!Sleeping, now)
  BY DEF Schedule!Sleeping, PollRecord, PollFits, ScheduleTInv, ClockTypes
<1> QED
  BY <1>1 DEF Schedule!PollFails, Polled

\* A request changes one row of the table, and what it leaves there is due later.
Requested(s) ==
    /\ UNCHANGED <<now, poller, fired, rewound>>
    /\ scheduleCount' = [scheduleCount EXCEPT !.requests = @ + 1]
    /\ DOMAIN schedule' \subseteq Schedules
    /\ schedule' \in [DOMAIN schedule' -> ScheduleRow]
    /\ \A q \in DOMAIN schedule' :
          \/ q \in DOMAIN schedule /\ schedule'[q].nextRun = schedule[q].nextRun
          \/ q = s /\ schedule'[q].nextRun > now

LEMMA RequestEffect ==
    ASSUME ScheduleAssumptions, ScheduleTInv, NEW s \in Schedules,
           \/ \E p \in Periods, e \in BOOLEAN : Schedule!ScheduleCreate(s, p, e)
           \/ \E p \in {{}} \cup {{q} : q \in Periods}, e \in {{}, {TRUE}, {FALSE}} : Schedule!ScheduleUpdate(s, p, e)
           \/ Schedule!ScheduleDelete(s)
    PROVE  Requested(s)
<1>1. /\ DOMAIN schedule \subseteq Schedules /\ schedule \in [DOMAIN schedule -> ScheduleRow]
      /\ now \in Nat
  BY DEF ScheduleTInv, ScheduleTypes, ClockTypes
<1>2. \A p \in Periods : Schedule!GetNext(p, now) \in Nat /\ Schedule!GetNext(p, now) > now
  BY <1>1, NextIsLater, PeriodsArePositive DEF ScheduleAssumptions
<1>3. \A p \in Periods, e \in BOOLEAN :
         /\ [period |-> p, enabled |-> e, nextRun |-> Schedule!GetNext(p, now)] \in ScheduleRow
         /\ [period |-> p, enabled |-> e, nextRun |-> Schedule!GetNext(p, now)].nextRun > now
  BY <1>2 DEF ScheduleRow
<1>4. UNCHANGED <<now, poller, fired, rewound>> /\ scheduleCount' = [scheduleCount EXCEPT !.requests = @ + 1]
  BY DEF Schedule!ScheduleCreate, Schedule!ScheduleUpdate, Schedule!ScheduleDelete, Schedule!Request
<1>5. ASSUME NEW p \in Periods, NEW e \in BOOLEAN, Schedule!ScheduleCreate(s, p, e)
      PROVE  Requested(s)
  <2> DEFINE row0 == [period |-> p, enabled |-> e, nextRun |-> Schedule!GetNext(p, now)]
  <2>1. row0 \in ScheduleRow /\ row0.nextRun > now
    BY <1>3
  <2>2. schedule' = [q \in DOMAIN schedule \cup {s} |-> IF q = s THEN row0 ELSE schedule[q]]
    BY <1>5 DEF Schedule!ScheduleCreate
  <2> HIDE DEF row0
  <2> QED
    BY <1>1, <1>4, <2>1, <2>2 DEF Requested
<1>6. ASSUME s \in DOMAIN schedule, NEW e \in BOOLEAN, schedule' = [schedule EXCEPT ![s].enabled = e]
      PROVE  Requested(s)
  <2>1. /\ schedule[s] \in ScheduleRow
        /\ [schedule[s] EXCEPT !.enabled = e] \in ScheduleRow
        /\ [schedule[s] EXCEPT !.enabled = e].nextRun = schedule[s].nextRun
    BY <1>1, <1>6 DEF ScheduleRow
  <2>2. schedule' = [schedule EXCEPT ![s] = [schedule[s] EXCEPT !.enabled = e]]
    BY <1>6
  <2> QED
    BY <1>1, <1>4, <1>6, <2>1, <2>2 DEF Requested
<1>7. ASSUME s \in DOMAIN schedule, NEW row0 \in ScheduleRow, row0.nextRun > now,
             schedule' = [schedule EXCEPT ![s] = row0]
      PROVE  Requested(s)
  BY <1>1, <1>4, <1>7 DEF Requested
<1>8. ASSUME NEW periods \in {{}} \cup {{q} : q \in Periods}, NEW enabled \in {{}, {TRUE}, {FALSE}},
             Schedule!ScheduleUpdate(s, periods, enabled)
      PROVE  Requested(s)
  <2>1. s \in DOMAIN schedule /\ schedule[s].enabled \in BOOLEAN
    BY <1>1, <1>8 DEF Schedule!ScheduleUpdate, ScheduleRow
  <2>2. PICK e \in enabled \cup (IF enabled = {} THEN {schedule[s].enabled} ELSE {}) :
           \/ schedule' = [schedule EXCEPT ![s].enabled = e]
           \/ \E p \in periods : schedule' = [schedule EXCEPT ![s] =
                                     [period |-> p, enabled |-> e, nextRun |-> Schedule!GetNext(p, now)]]
    BY <1>8 DEF Schedule!ScheduleUpdate
  <2>3. periods \subseteq Periods
    OBVIOUS
  <2>4. e \in BOOLEAN
    <3>1. e \in enabled \/ e = schedule[s].enabled
      BY <2>2
    <3>2. enabled \subseteq {TRUE, FALSE}
      OBVIOUS
    <3> QED
      BY <2>1, <3>1, <3>2
  <2> QED
    BY <1>3, <1>6, <1>7, <2>1, <2>2, <2>3, <2>4
<1>9. ASSUME Schedule!ScheduleDelete(s) PROVE Requested(s)
  <2>1. schedule' = [q \in DOMAIN schedule \ {s} |-> schedule[q]]
    BY <1>9 DEF Schedule!ScheduleDelete
  <2> QED
    BY <1>1, <1>4, <2>1 DEF Requested
<1> QED
  BY <1>5, <1>8, <1>9

-----------------------------------------------------------------------------
(* The types are an invariant.                                             *)

LEMMA ScheduleTypesNext == ScheduleAssumptions /\ ScheduleTInv /\ [Schedule!Next]_Schedule!scheduleVars => ScheduleTInv'
<1> SUFFICES ASSUME ScheduleAssumptions, ScheduleTInv, [Schedule!Next]_Schedule!scheduleVars PROVE ScheduleTInv'
  OBVIOUS
<1>1. CASE Schedule!Tick
  BY <1>1, TickTypes
<1>2. ASSUME NEW i \in Instances, Schedule!PollSchedules(i) PROVE ScheduleTInv'
  <2>1. PollTypes'
    BY <1>2, BeginsEffect, PolledTypes
  <2>2. UNCHANGED <<now, schedule, fired, rewound, scheduleCount>>
    BY <1>2 DEF Schedule!PollSchedules
  <2> QED
    BY <2>1, <2>2 DEF ScheduleTInv, ClockTypes, ScheduleTypes, FiredTypes
<1>3. ASSUME NEW i \in Instances, Schedule!Spawn(i) PROVE ScheduleTInv'
  <2>1. UNCHANGED <<now, schedule, rewound, scheduleCount>>
    BY <1>3 DEF Schedule!Spawn
  <2>2. PollTypes'
    BY <1>3, SpawnEffect, PolledTypes DEF SpawnedRun
  <2>3. FiredTypes'
    <3>1. CASE fired' = fired
      BY <3>1 DEF ScheduleTInv, FiredTypes
    <3>2. ASSUME NEW r \in DueRow, r.at \in Time, fired' = [fired EXCEPT ![r.id][r.at] = @ + 1]
          PROVE  FiredTypes'
      <4>1. r.id \in Schedules /\ fired[r.id] \in [Time -> Nat]
        BY DEF DueRow, ScheduleTInv, FiredTypes
      <4>2. [fired[r.id] EXCEPT ![r.at] = @ + 1] \in [Time -> Nat]
        BY <3>2, <4>1
      <4> QED
        BY <3>2, <4>1, <4>2 DEF ScheduleTInv, FiredTypes
    <3> QED
      BY <1>3, <3>1, <3>2, SpawnEffect DEF SpawnedRun
  <2> QED
    BY <2>1, <2>2, <2>3 DEF ScheduleTInv, ClockTypes, ScheduleTypes
<1>4. ASSUME NEW i \in Instances, Schedule!WriteNextRun(i) PROVE ScheduleTInv'
  <2>1. PICK r \in DueRow, next \in Nat : \E p : Written(i, r, p, next)
    BY <1>4, WriteEffect
  <2>2. PollTypes'
    BY <2>1, PolledTypes DEF Written
  <2>3. now' = now /\ fired' = fired /\ scheduleCount' = scheduleCount
    BY <1>4 DEF Schedule!WriteNextRun
  <2>4. ScheduleTypes'
    <3>1. CASE schedule' = schedule
      BY <3>1 DEF ScheduleTInv, ScheduleTypes
    <3>2. CASE r.id \in DOMAIN schedule /\ schedule' = [schedule EXCEPT ![r.id].nextRun = next]
      <4>1. [schedule[r.id] EXCEPT !.nextRun = next] \in ScheduleRow
        BY <3>2 DEF ScheduleTInv, ScheduleTypes, ScheduleRow
      <4>2. schedule' = [schedule EXCEPT ![r.id] = [schedule[r.id] EXCEPT !.nextRun = next]]
        BY <3>2
      <4> QED
        BY <3>2, <4>1, <4>2 DEF ScheduleTInv, ScheduleTypes
    <3> QED
      BY <2>1, <3>1, <3>2 DEF Written
  <2>5. rewound' \in BOOLEAN
    <3>1. rewound' = rewound \/ \E b : rewound' = (rewound \/ next < b)
      BY <2>1 DEF Written
    <3> QED
      BY <3>1 DEF ScheduleTInv, ClockTypes
  <2> QED
    BY <2>2, <2>3, <2>4, <2>5 DEF ScheduleTInv, ClockTypes, FiredTypes
<1>5. ASSUME NEW i \in Instances, Schedule!PollFails(i) PROVE ScheduleTInv'
  <2>1. PollTypes'
    BY <1>5, PollFailsEffect, PolledTypes
  <2>2. /\ UNCHANGED <<now, schedule, fired, rewound>>
        /\ scheduleCount' = [scheduleCount EXCEPT !.failures = @ + 1]
    BY <1>5 DEF Schedule!PollFails
  <2>3. scheduleCount' \in [requests : Nat, failures : Nat]
    BY <2>2 DEF ScheduleTInv, ClockTypes
  <2> QED
    BY <2>1, <2>2, <2>3 DEF ScheduleTInv, ClockTypes, ScheduleTypes, FiredTypes
<1>6. ASSUME NEW s \in Schedules, Requested(s) PROVE ScheduleTInv'
  <2>1. scheduleCount' \in [requests : Nat, failures : Nat]
    BY <1>6 DEF Requested, ScheduleTInv, ClockTypes
  <2>2. UNCHANGED <<now, poller, fired, rewound>> /\ ScheduleTypes'
    BY <1>6 DEF Requested, ScheduleTypes
  <2> QED
    BY <2>1, <2>2 DEF ScheduleTInv, ClockTypes, FiredTypes, PollTypes
<1>7. CASE UNCHANGED Schedule!scheduleVars
  BY <1>7 DEF Schedule!scheduleVars, ScheduleTInv, ClockTypes, ScheduleTypes, FiredTypes, PollTypes
<1> QED
  BY <1>1, <1>2, <1>3, <1>4, <1>5, <1>6, <1>7, RequestEffect DEF Schedule!Next

\* Every variable has its type, for any instances, schedules and periods.
THEOREM ScheduleTypeCorrect == ScheduleAssumptions => (Schedule!Spec => []Schedule!TypeOK)
<1> SUFFICES ASSUME ScheduleAssumptions PROVE Schedule!Spec => []Schedule!TypeOK
  OBVIOUS
<1>1. ScheduleTInv => Schedule!TypeOK
  BY DEF ScheduleTInv, Schedule!TypeOK, ClockTypes, ScheduleTypes, PollTypes, ScheduleRow, PollRecord
<1>2. Schedule!Init => ScheduleTInv
  BY ScheduleTypesInit
<1>3. ScheduleTInv /\ [Schedule!Next]_Schedule!scheduleVars => ScheduleTInv'
  BY ScheduleTypesNext
<1> QED
  BY <1>1, <1>2, <1>3, PTL DEF Schedule!Spec

-----------------------------------------------------------------------------
(* Runs are counted by the instances that spawn them.                      *)

\* The instances that are going to spawn this run, and those that spawned it and
\* have not yet written when the schedule is due next.
Planned(s, t) == {i \in Instances : \E r \in poller[i].due : r.id = s /\ r.at = t}
Unwritten(s, t) == {i \in Instances : \E r \in poller[i].row : r.id = s /\ r.at = t}

AtMostOnce ==
    \A s \in Schedules, t \in Time :
        fired[s][t] + Schedule!Cardinality(Planned(s, t)) <= Schedule!Cardinality(Instances)

\* A run that has been spawned while the row still names its time was spawned by
\* instances that are before their write; later times were not spawned yet.
SpawnersStandBeforeWrite ==
    \A s \in DOMAIN schedule, t \in Time : t = schedule[s].nextRun =>
        fired[s][t] <= Schedule!Cardinality(Unwritten(s, t))
NothingAhead ==
    /\ \A s \in DOMAIN schedule, t \in Time : t > schedule[s].nextRun => fired[s][t] = 0
    /\ \A i \in Instances : \A r \in poller[i].due :
          r.id \in DOMAIN schedule => r.at <= schedule[r.id].nextRun
OnlyPast == \A s \in Schedules, t \in Time : t > now => fired[s][t] = 0

FInv ==
    /\ OnlyPast
    /\ scheduleCount.failures = 0 /\ ~rewound => AtMostOnce /\ SpawnersStandBeforeWrite /\ NothingAhead

LEMMA CountsAreFinite ==
    ASSUME ScheduleAssumptions, NEW S \in SUBSET Instances
    PROVE  Schedule!IsFiniteSet(S) /\ Schedule!Cardinality(S) \in Nat /\ Schedule!Cardinality(S) <= Schedule!Cardinality(Instances)
           /\ Schedule!Cardinality(Instances) \in Nat
  BY ScheduleFS_Subset, ScheduleFS_CardinalityType DEF ScheduleAssumptions, Schedule!InstancesAssumption

LEMMA AddOne ==
    ASSUME ScheduleAssumptions, NEW S \in SUBSET Instances, NEW i \in Instances \ S
    PROVE  Schedule!Cardinality(S \cup {i}) = Schedule!Cardinality(S) + 1
  BY CountsAreFinite, ScheduleFS_AddElement

LEMMA RemoveOne ==
    ASSUME ScheduleAssumptions, NEW S \in SUBSET Instances, NEW i \in S
    PROVE  Schedule!Cardinality(S \ {i}) = Schedule!Cardinality(S) - 1
  BY CountsAreFinite, ScheduleFS_RemoveElement

\* Instances in two disjoint sets, and one in neither.
LEMMA RoomForOne ==
    ASSUME ScheduleAssumptions, NEW S \in SUBSET Instances, NEW T \in SUBSET Instances,
           S \cap T = {}, NEW i \in Instances \ (S \cup T)
    PROVE  Schedule!Cardinality(S) + Schedule!Cardinality(T) + 1 <= Schedule!Cardinality(Instances)
<1>1. Schedule!Cardinality(S \cup T) = Schedule!Cardinality(S) + Schedule!Cardinality(T)
  <2>1. Schedule!IsFiniteSet(S) /\ Schedule!IsFiniteSet(T) /\ Schedule!Cardinality(S) \in Nat /\ Schedule!Cardinality(T) \in Nat
    BY CountsAreFinite
  <2>2. Schedule!Cardinality(S \cup T) = Schedule!Cardinality(S) + Schedule!Cardinality(T) - Schedule!Cardinality(S \cap T)
    BY <2>1, ScheduleFS_Union
  <2>3. Schedule!Cardinality(S \cap T) = 0
    BY ScheduleFS_EmptySet
  <2> QED
    BY <2>1, <2>2, <2>3
<1>2. Schedule!Cardinality((S \cup T) \cup {i}) = Schedule!Cardinality(S \cup T) + 1
  BY AddOne
<1>3. Schedule!Cardinality((S \cup T) \cup {i}) <= Schedule!Cardinality(Instances)
  BY CountsAreFinite
<1> QED
  BY <1>1, <1>2, <1>3

LEMMA FiredNumbers ==
    ASSUME ScheduleTInv
    PROVE  /\ \A s \in Schedules, t \in Time : fired[s][t] \in Nat
           /\ \A s \in DOMAIN schedule : s \in Schedules /\ schedule[s].nextRun \in Nat
           /\ now \in Nat /\ Time \subseteq Int
           /\ scheduleCount.failures \in Nat
<1>1. \A s \in Schedules, t \in Time : fired[s][t] \in Nat
  BY DEF ScheduleTInv, FiredTypes
<1>2. \A s \in DOMAIN schedule : s \in Schedules /\ schedule[s].nextRun \in Nat
  BY DEF ScheduleTInv, ScheduleTypes, ScheduleRow
<1>3. now \in Nat /\ scheduleCount.failures \in Nat
  BY DEF ScheduleTInv, ClockTypes
<1>4. Time \subseteq Int
  BY DEF Time
<1> QED
  BY <1>1, <1>2, <1>3, <1>4

\* A poll's rows are of distinct schedules, so no instance is to spawn a run and
\* to write its schedule.
LEMMA PollRows ==
    ASSUME ScheduleTInv, NEW i \in Instances
    PROVE  /\ \A r, q \in poller[i].due \cup poller[i].row : r.id = q.id => r = q
           /\ poller[i].due \cap poller[i].row = {}
           /\ \A r \in poller[i].due \cup poller[i].row :
                 r.id \in Schedules /\ r.at \in Nat /\ r.at <= now
<1>1. poller[i] \in PollRecord /\ PollFits(poller[i], now) /\ now \in Nat
  BY DEF ScheduleTInv, PollTypes, ClockTypes
<1>2. /\ \A r, q \in poller[i].due \cup poller[i].row : r.id = q.id => r = q
      /\ poller[i].due \cap poller[i].row = {}
  BY <1>1 DEF PollFits
<1>3. ASSUME NEW r \in poller[i].due \cup poller[i].row
      PROVE  r.id \in Schedules /\ r.at \in Nat /\ r.at <= now
  <2>1. r \in DueRow /\ poller[i].now \in Nat
    BY <1>1 DEF PollRecord
  <2>2. r.at <= poller[i].now /\ poller[i].now <= now
    BY <1>1 DEF PollFits
  <2> QED
    BY <1>1, <2>1, <2>2 DEF DueRow
<1> QED
  BY <1>2, <1>3

\* Only the place of one instance can differ in these sets.
LEMMA SameElsewhere ==
    ASSUME ScheduleTInv, NEW i \in Instances, NEW p, Polled(i, p), NEW s, NEW t
    PROVE  /\ Planned(s, t)' = (Planned(s, t) \ {i})
                 \cup (IF \E r \in p.due : r.id = s /\ r.at = t THEN {i} ELSE {})
           /\ Unwritten(s, t)' = (Unwritten(s, t) \ {i})
                 \cup (IF \E r \in p.row : r.id = s /\ r.at = t THEN {i} ELSE {})
<1>1. poller'[i] = p /\ \A j \in Instances \ {i} : poller'[j] = poller[j]
  BY PolledTypes
<1> QED
  BY <1>1 DEF Planned, Unwritten

LEMMA SpawnerSets ==
    ASSUME NEW s, NEW t
    PROVE  Planned(s, t) \subseteq Instances /\ Unwritten(s, t) \subseteq Instances
  BY DEF Planned, Unwritten

-----------------------------------------------------------------------------
(* Each step keeps the count.                                              *)

LEMMA BeginsCount ==
    ASSUME ScheduleAssumptions, ScheduleTInv, FInv, NEW i \in Instances, Schedule!PollSchedules(i)
    PROVE  FInv'
<1>1. UNCHANGED <<now, schedule, fired, rewound, scheduleCount>>
  BY DEF Schedule!PollSchedules
<1>2. PICK p : /\ Polled(i, p) /\ p.pc = "spawn" /\ p.row = {}
               /\ poller[i] = Schedule!Sleeping
               /\ \A r \in p.due : r.id \in DOMAIN schedule /\ r.at = schedule[r.id].nextRun
  BY BeginsEffect
<1>3. \A s, t : i \notin Planned(s, t) /\ i \notin Unwritten(s, t)
  BY <1>2 DEF Planned, Unwritten, Schedule!Sleeping
<1>4. OnlyPast'
  BY <1>1 DEF FInv, OnlyPast
<1>5. ASSUME scheduleCount.failures = 0, ~rewound
      PROVE  (AtMostOnce /\ SpawnersStandBeforeWrite /\ NothingAhead)'
  <2>1. AtMostOnce /\ SpawnersStandBeforeWrite /\ NothingAhead
    BY <1>5 DEF FInv
  <2>2. ASSUME NEW s \in Schedules, NEW t \in Time
        PROVE  fired[s][t] + Schedule!Cardinality(Planned(s, t)') <= Schedule!Cardinality(Instances)
    <3>1. CASE \E r \in p.due : r.id = s /\ r.at = t
      <4>1. s \in DOMAIN schedule /\ t = schedule[s].nextRun
        BY <1>2, <3>1
      <4>2. fired[s][t] <= Schedule!Cardinality(Unwritten(s, t))
        BY <2>1, <4>1 DEF SpawnersStandBeforeWrite
      <4>3. Planned(s, t)' = Planned(s, t) \cup {i}
        BY <1>2, <1>3, <3>1, SameElsewhere
      <4>4. Planned(s, t) \cap Unwritten(s, t) = {}
        BY PollRows DEF Planned, Unwritten
      <4>5. /\ Schedule!Cardinality(Planned(s, t)) + Schedule!Cardinality(Unwritten(s, t)) + 1 <= Schedule!Cardinality(Instances)
            /\ Schedule!Cardinality(Planned(s, t)') = Schedule!Cardinality(Planned(s, t)) + 1
        BY <1>3, <4>3, <4>4, RoomForOne, AddOne, SpawnerSets
      <4>6. /\ Schedule!Cardinality(Planned(s, t)) \in Nat /\ Schedule!Cardinality(Unwritten(s, t)) \in Nat
            /\ Schedule!Cardinality(Instances) \in Nat /\ fired[s][t] \in Nat
        BY CountsAreFinite, SpawnerSets, FiredNumbers
      <4> QED
        BY <4>2, <4>5, <4>6
    <3>2. CASE ~\E r \in p.due : r.id = s /\ r.at = t
      <4>1. Planned(s, t)' = Planned(s, t)
        <5>1. Planned(s, t)' = (Planned(s, t) \ {i}) \cup (IF \E r \in p.due : r.id = s /\ r.at = t THEN {i} ELSE {})
          BY <1>2, SameElsewhere
        <5>2. Planned(s, t)' = Planned(s, t) \ {i}
          BY <3>2, <5>1
        <5> QED
          BY <1>3, <5>2
      <4> QED
        BY <2>1, <4>1 DEF AtMostOnce
    <3> QED
      BY <3>1, <3>2
  <2>3. ASSUME NEW s, NEW t PROVE Unwritten(s, t)' = Unwritten(s, t)
    <3>1. Unwritten(s, t)' = (Unwritten(s, t) \ {i}) \cup {}
      BY <1>2, SameElsewhere
    <3> QED
      BY <1>3, <3>1
  <2>4. AtMostOnce'
    BY <1>1, <2>2 DEF AtMostOnce
  <2>5. SpawnersStandBeforeWrite'
    BY <1>1, <2>1, <2>3 DEF SpawnersStandBeforeWrite
  <2>6. NothingAhead'
    <3>1. \A j \in Instances : \A r \in poller'[j].due :
             r.id \in DOMAIN schedule => r.at <= schedule[r.id].nextRun
      <4>1. poller'[i] = p /\ \A j \in Instances \ {i} : poller'[j] = poller[j]
        BY <1>2, PolledTypes
      <4> QED
        BY <1>2, <2>1, <4>1, FiredNumbers DEF NothingAhead
    <3> QED
      BY <1>1, <2>1, <3>1 DEF NothingAhead
  <2> QED
    BY <2>4, <2>5, <2>6
<1> QED
  BY <1>1, <1>4, <1>5 DEF FInv

LEMMA SpawnCount ==
    ASSUME ScheduleAssumptions, ScheduleTInv, FInv, NEW i \in Instances, Schedule!Spawn(i)
    PROVE  FInv'
<1>1. UNCHANGED <<now, schedule, rewound, scheduleCount>>
  BY DEF Schedule!Spawn
<1>2. CASE Polled(i, Schedule!Sleeping) /\ poller[i].due = {} /\ poller[i].row = {} /\ fired' = fired
  <2>1. \A s, t : i \notin Planned(s, t) /\ i \notin Unwritten(s, t)
    BY <1>2 DEF Planned, Unwritten
  <2>2. ASSUME NEW s, NEW t
        PROVE  Planned(s, t)' = Planned(s, t) /\ Unwritten(s, t)' = Unwritten(s, t)
    <3>1. Schedule!Sleeping.due = {} /\ Schedule!Sleeping.row = {}
      BY DEF Schedule!Sleeping
    <3>2. /\ Planned(s, t)' = (Planned(s, t) \ {i}) \cup {}
          /\ Unwritten(s, t)' = (Unwritten(s, t) \ {i}) \cup {}
      BY <1>2, <3>1, SameElsewhere
    <3> QED
      BY <2>1, <3>2
  <2>3. \A j \in Instances : poller'[j].due \subseteq poller[j].due
    BY <1>2, PolledTypes DEF Schedule!Sleeping
  <2> QED
    BY <1>1, <1>2, <2>2, <2>3
       DEF FInv, OnlyPast, AtMostOnce, SpawnersStandBeforeWrite, NothingAhead
<1>3. ASSUME NEW r \in poller[i].due, NEW p, SpawnedRun(i, r, p)
      PROVE  FInv'
  <2>1. /\ Polled(i, p) /\ p.due = poller[i].due \ {r} /\ p.row = {r} /\ poller[i].row = {}
        /\ r.id \in Schedules /\ r.at \in Time /\ r.at <= now
        /\ fired' = [fired EXCEPT ![r.id][r.at] = @ + 1]
    BY <1>3, PollRows DEF SpawnedRun
  <2>2. /\ fired'[r.id][r.at] = fired[r.id][r.at] + 1
        /\ \A s \in Schedules, t \in Time : s # r.id \/ t # r.at => fired'[s][t] = fired[s][t]
    BY <2>1 DEF ScheduleTInv, FiredTypes
  <2>3. \A q \in poller[i].due : q.id = r.id => q = r
    BY PollRows
  <2>4. /\ Planned(r.id, r.at)' = Planned(r.id, r.at) \ {i} /\ i \in Planned(r.id, r.at)
        /\ Unwritten(r.id, r.at)' = Unwritten(r.id, r.at) \cup {i} /\ i \notin Unwritten(r.id, r.at)
    <3>1. ~\E q \in p.due : q.id = r.id /\ q.at = r.at
      BY <2>1, <2>3
    <3>2. \E q \in p.row : q.id = r.id /\ q.at = r.at
      BY <2>1
    <3>3. i \in Planned(r.id, r.at) /\ i \notin Unwritten(r.id, r.at)
      BY <2>1 DEF Planned, Unwritten
    <3>4. /\ Planned(r.id, r.at)' = (Planned(r.id, r.at) \ {i}) \cup {}
          /\ Unwritten(r.id, r.at)' = (Unwritten(r.id, r.at) \ {i}) \cup {i}
      BY <2>1, <3>1, <3>2, SameElsewhere
    <3> QED
      BY <3>3, <3>4
  <2>5. ASSUME NEW s, NEW t, s # r.id \/ t # r.at
        PROVE  Planned(s, t)' = Planned(s, t) /\ Unwritten(s, t)' = Unwritten(s, t)
    <3>1. (\E q \in p.due : q.id = s /\ q.at = t) <=> (\E q \in poller[i].due : q.id = s /\ q.at = t)
      BY <2>1, <2>5
    <3>2. ~(\E q \in p.row : q.id = s /\ q.at = t) /\ i \notin Unwritten(s, t)
      BY <2>1, <2>5 DEF Unwritten
    <3>3. i \in Planned(s, t) <=> \E q \in poller[i].due : q.id = s /\ q.at = t
      BY DEF Planned
    <3>4. /\ Planned(s, t)' = (Planned(s, t) \ {i})
                 \cup (IF \E q \in p.due : q.id = s /\ q.at = t THEN {i} ELSE {})
          /\ Unwritten(s, t)' = (Unwritten(s, t) \ {i})
                 \cup (IF \E q \in p.row : q.id = s /\ q.at = t THEN {i} ELSE {})
      BY <2>1, SameElsewhere
    <3>5. Unwritten(s, t)' = Unwritten(s, t)
      BY <3>2, <3>4
    <3>6. Planned(s, t)' = Planned(s, t)
      BY <3>1, <3>3, <3>4
    <3> QED
      BY <3>5, <3>6
  <2>6. OnlyPast'
    <3>1. ASSUME NEW s \in Schedules, NEW t \in Time, t > now PROVE fired'[s][t] = 0
      <4>1. t # r.at
        BY <2>1, <3>1, FiredNumbers
      <4> QED
        BY <2>2, <3>1, <4>1 DEF FInv, OnlyPast
    <3> QED
      BY <1>1, <3>1 DEF OnlyPast
  <2>7. ASSUME scheduleCount.failures = 0, ~rewound
        PROVE  (AtMostOnce /\ SpawnersStandBeforeWrite /\ NothingAhead)'
    <3>1. AtMostOnce /\ SpawnersStandBeforeWrite /\ NothingAhead
      BY <2>7 DEF FInv
    <3>2. /\ Schedule!Cardinality(Planned(r.id, r.at)') = Schedule!Cardinality(Planned(r.id, r.at)) - 1
          /\ Schedule!Cardinality(Unwritten(r.id, r.at)') = Schedule!Cardinality(Unwritten(r.id, r.at)) + 1
      BY <2>4, AddOne, RemoveOne, SpawnerSets
    <3>3. /\ Schedule!Cardinality(Planned(r.id, r.at)) \in Nat /\ Schedule!Cardinality(Unwritten(r.id, r.at)) \in Nat
          /\ Schedule!Cardinality(Instances) \in Nat /\ fired[r.id][r.at] \in Nat
      BY <2>1, CountsAreFinite, SpawnerSets, FiredNumbers
    <3>4. AtMostOnce'
      <4>1. fired'[r.id][r.at] + Schedule!Cardinality(Planned(r.id, r.at)') <= Schedule!Cardinality(Instances)
        BY <2>1, <2>2, <3>1, <3>2, <3>3 DEF AtMostOnce
      <4>2. \A s \in Schedules, t \in Time :
               fired'[s][t] + Schedule!Cardinality(Planned(s, t)') <= Schedule!Cardinality(Instances)
        BY <2>2, <2>5, <3>1, <4>1 DEF AtMostOnce
      <4> QED
        BY <4>2 DEF AtMostOnce
    <3>5. SpawnersStandBeforeWrite'
      <4>1. ASSUME NEW s \in DOMAIN schedule, NEW t \in Time, t = schedule[s].nextRun
            PROVE  fired'[s][t] <= Schedule!Cardinality(Unwritten(s, t)')
        <5>1. s \in Schedules /\ fired[s][t] <= Schedule!Cardinality(Unwritten(s, t))
          BY <3>1, <4>1, FiredNumbers DEF SpawnersStandBeforeWrite
        <5> QED
          BY <2>2, <2>5, <3>2, <3>3, <5>1
      <4> QED
        BY <1>1, <4>1 DEF SpawnersStandBeforeWrite
    <3>6. NothingAhead'
      <4>1. ASSUME NEW s \in DOMAIN schedule, NEW t \in Time, t > schedule[s].nextRun
            PROVE  fired'[s][t] = 0
        <5>1. fired[s][t] = 0 /\ s \in Schedules
          BY <3>1, <4>1, FiredNumbers DEF NothingAhead
        <5>2. s # r.id \/ t # r.at
          <6>1. r.id \in DOMAIN schedule => r.at <= schedule[r.id].nextRun
            BY <3>1 DEF NothingAhead
          <6> QED
            BY <4>1, <6>1, FiredNumbers
        <5> QED
          BY <2>2, <5>1, <5>2
      <4>2. \A j \in Instances : poller'[j].due \subseteq poller[j].due
        BY <2>1, PolledTypes
      <4> QED
        BY <1>1, <3>1, <4>1, <4>2 DEF NothingAhead
    <3> QED
      BY <3>4, <3>5, <3>6
  <2> QED
    BY <1>1, <2>6, <2>7 DEF FInv
<1> QED
  BY <1>2, <1>3, SpawnEffect

LEMMA WriteCount ==
    ASSUME ScheduleAssumptions, ScheduleTInv, FInv, NEW i \in Instances, Schedule!WriteNextRun(i)
    PROVE  FInv'
<1>1. PICK r \in DueRow, next \in Nat : \E p : Written(i, r, p, next)
  BY WriteEffect
<1>2. PICK p : Written(i, r, p, next)
  BY <1>1
<1>3. /\ Polled(i, p) /\ p.due = poller[i].due /\ p.row = {} /\ poller[i].row = {r}
      /\ r.at < next /\ r.at \in Nat
      /\ UNCHANGED <<now, fired, scheduleCount>>
  BY <1>2 DEF Written, Polled, DueRow
<1>4. ASSUME NEW s, NEW t
      PROVE  /\ Planned(s, t)' = Planned(s, t)
             /\ s # r.id \/ t # r.at => Unwritten(s, t)' = Unwritten(s, t)
  <2>1. i \in Planned(s, t) <=> \E q \in poller[i].due : q.id = s /\ q.at = t
    BY DEF Planned
  <2>2. Planned(s, t)' = (Planned(s, t) \ {i})
                 \cup (IF \E q \in poller[i].due : q.id = s /\ q.at = t THEN {i} ELSE {})
    BY <1>3, SameElsewhere
  <2>3. Unwritten(s, t)' = (Unwritten(s, t) \ {i}) \cup {}
    BY <1>3, SameElsewhere
  <2>4. s # r.id \/ t # r.at => i \notin Unwritten(s, t)
    BY <1>3 DEF Unwritten
  <2> QED
    BY <2>1, <2>2, <2>3, <2>4
<1>5. OnlyPast'
  BY <1>3 DEF FInv, OnlyPast
<1>6. \A j \in Instances : poller'[j].due = poller[j].due
  BY <1>3, PolledTypes
<1>7. ASSUME scheduleCount.failures = 0, ~rewound'
      PROVE  (AtMostOnce /\ SpawnersStandBeforeWrite /\ NothingAhead)'
  <2>1. ~rewound
    <3>1. rewound' = rewound \/ \E b : rewound' = (rewound \/ next < b)
      BY <1>2 DEF Written
    <3> QED
      BY <1>7, <3>1
  <2>2. AtMostOnce /\ SpawnersStandBeforeWrite /\ NothingAhead
    BY <1>7, <2>1 DEF FInv
  <2>3. AtMostOnce'
    BY <1>3, <1>4, <2>2 DEF AtMostOnce
  <2>4. CASE r.id \notin DOMAIN schedule
    <3>1. schedule' = schedule
      BY <1>2, <2>4 DEF Written
    <3> QED
      BY <1>3, <1>4, <1>6, <2>2, <2>3, <2>4, <3>1 DEF SpawnersStandBeforeWrite, NothingAhead
  <2>5. CASE r.id \in DOMAIN schedule
    <3>1. /\ schedule' = [schedule EXCEPT ![r.id].nextRun = next]
          /\ rewound' = (rewound \/ next < schedule[r.id].nextRun)
      BY <1>2, <2>5 DEF Written
    <3>2. /\ DOMAIN schedule' = DOMAIN schedule
          /\ schedule'[r.id].nextRun = next
          /\ \A s \in DOMAIN schedule \ {r.id} : schedule'[s].nextRun = schedule[s].nextRun
      BY <2>5, <3>1 DEF ScheduleTInv, ScheduleTypes, ScheduleRow
    <3>3. schedule[r.id].nextRun <= next
      <4>1. ~(next < schedule[r.id].nextRun)
        BY <1>7, <3>1
      <4> QED
        BY <2>5, <4>1, FiredNumbers
    <3>4. SpawnersStandBeforeWrite'
      <4>1. ASSUME NEW s \in DOMAIN schedule, NEW t \in Time, t = schedule'[s].nextRun
            PROVE  fired[s][t] <= Schedule!Cardinality(Unwritten(s, t)')
        <5>1. CASE s # r.id
          BY <1>4, <2>2, <3>2, <4>1, <5>1 DEF SpawnersStandBeforeWrite
        <5>2. CASE s = r.id /\ t = schedule[s].nextRun
          BY <1>3, <1>4, <2>2, <3>2, <4>1, <5>2 DEF SpawnersStandBeforeWrite
        <5>3. CASE s = r.id /\ t # schedule[s].nextRun
          <6>1. t > schedule[s].nextRun
            BY <3>2, <3>3, <4>1, <5>3, FiredNumbers
          <6>2. fired[s][t] = 0
            BY <2>2, <6>1 DEF NothingAhead
          <6>3. Unwritten(s, t)' = Unwritten(s, t) /\ Unwritten(s, t) \subseteq Instances
            BY <1>3, <1>4, <3>2, <4>1, <5>3, SpawnerSets
          <6> QED
            BY <6>2, <6>3, CountsAreFinite
        <5> QED
          BY <5>1, <5>2, <5>3
      <4> QED
        BY <1>3, <3>2, <4>1 DEF SpawnersStandBeforeWrite
    <3>5. \A s \in DOMAIN schedule : /\ schedule[s].nextRun <= schedule'[s].nextRun
                                    /\ schedule'[s].nextRun \in Nat /\ schedule[s].nextRun \in Nat
      BY <3>2, <3>3, FiredNumbers
    <3>6. NothingAhead'
      <4>1. ASSUME NEW s \in DOMAIN schedule, NEW t \in Time, t > schedule'[s].nextRun
            PROVE  fired[s][t] = 0
        BY <2>2, <3>5, <4>1, FiredNumbers DEF NothingAhead
      <4>2. ASSUME NEW j \in Instances, NEW q \in poller[j].due, q.id \in DOMAIN schedule
            PROVE  q.at <= schedule'[q.id].nextRun
        <5>1. q.at <= schedule[q.id].nextRun /\ q.at \in Nat
          BY <2>2, <4>2, PollRows DEF NothingAhead
        <5> QED
          BY <3>5, <4>2, <5>1
      <4> QED
        BY <1>3, <1>6, <3>2, <4>1, <4>2 DEF NothingAhead
    <3> QED
      BY <2>3, <3>4, <3>6
  <2> QED
    BY <2>4, <2>5
<1> QED
  BY <1>3, <1>5, <1>7 DEF FInv

LEMMA RequestCount ==
    ASSUME ScheduleAssumptions, ScheduleTInv, FInv, NEW s \in Schedules, Requested(s)
    PROVE  FInv'
<1>1. UNCHANGED <<now, poller, fired, rewound>> /\ scheduleCount'.failures = scheduleCount.failures
  BY DEF Requested, ScheduleTInv, ClockTypes
<1>2. /\ DOMAIN schedule' \subseteq Schedules
      /\ \A q \in DOMAIN schedule' : schedule'[q].nextRun \in Nat
  BY DEF Requested, ScheduleRow
<1>3. OnlyPast /\ OnlyPast'
  BY <1>1 DEF FInv, OnlyPast
<1>4. \A q, t : Planned(q, t)' = Planned(q, t) /\ Unwritten(q, t)' = Unwritten(q, t)
  BY <1>1 DEF Planned, Unwritten
<1>5. ASSUME AtMostOnce, SpawnersStandBeforeWrite, NothingAhead
      PROVE  (AtMostOnce /\ SpawnersStandBeforeWrite /\ NothingAhead)'
  <2>1. AtMostOnce'
    BY <1>1, <1>4, <1>5 DEF AtMostOnce
  <2>2. \A q \in DOMAIN schedule' :
           \/ q \in DOMAIN schedule /\ schedule'[q].nextRun = schedule[q].nextRun
           \/ schedule'[q].nextRun > now
    BY DEF Requested
  <2>3. SpawnersStandBeforeWrite'
    <3>1. ASSUME NEW q \in DOMAIN schedule', NEW t \in Time, t = schedule'[q].nextRun
          PROVE  fired[q][t] <= Schedule!Cardinality(Unwritten(q, t))
      <4>1. CASE q \in DOMAIN schedule /\ schedule'[q].nextRun = schedule[q].nextRun
        BY <1>5, <3>1, <4>1 DEF SpawnersStandBeforeWrite
      <4>2. CASE schedule'[q].nextRun > now
        <5>1. fired[q][t] = 0
          BY <1>2, <1>3, <3>1, <4>2 DEF OnlyPast
        <5> QED
          BY <5>1, CountsAreFinite, SpawnerSets
      <4> QED
        BY <2>2, <4>1, <4>2
    <3> QED
      BY <1>1, <1>4, <3>1 DEF SpawnersStandBeforeWrite
  <2>4. NothingAhead'
    <3>1. ASSUME NEW q \in DOMAIN schedule', NEW t \in Time, t > schedule'[q].nextRun
          PROVE  fired[q][t] = 0
      <4>1. CASE q \in DOMAIN schedule /\ schedule'[q].nextRun = schedule[q].nextRun
        BY <1>5, <3>1, <4>1 DEF NothingAhead
      <4>2. CASE schedule'[q].nextRun > now
        <5>1. t > now
          BY <1>2, <3>1, <4>2, FiredNumbers
        <5> QED
          BY <1>2, <1>3, <5>1 DEF OnlyPast
      <4> QED
        BY <2>2, <4>1, <4>2
    <3>2. ASSUME NEW j \in Instances, NEW r \in poller[j].due, r.id \in DOMAIN schedule'
          PROVE  r.at <= schedule'[r.id].nextRun
      <4>1. r.at \in Nat /\ r.at <= now
        BY PollRows
      <4>2. CASE r.id \in DOMAIN schedule /\ schedule'[r.id].nextRun = schedule[r.id].nextRun
        BY <1>5, <4>2 DEF NothingAhead
      <4>3. CASE schedule'[r.id].nextRun > now
        BY <1>2, <3>2, <4>1, <4>3, FiredNumbers
      <4> QED
        BY <2>2, <3>2, <4>2, <4>3
    <3> QED
      BY <1>1, <3>1, <3>2 DEF NothingAhead
  <2> QED
    BY <2>1, <2>3, <2>4
<1> QED
  BY <1>1, <1>3, <1>5 DEF FInv

LEMMA CountNext == ScheduleAssumptions /\ ScheduleTInv /\ FInv /\ [Schedule!Next]_Schedule!scheduleVars => FInv'
<1> SUFFICES ASSUME ScheduleAssumptions, ScheduleTInv, FInv, [Schedule!Next]_Schedule!scheduleVars PROVE FInv'
  OBVIOUS
<1>1. CASE Schedule!Tick
  <2>1. UNCHANGED <<schedule, poller, fired, rewound, scheduleCount>> /\ now' = now + 1
    BY <1>1 DEF Schedule!Tick
  <2>2. OnlyPast'
    BY <2>1, FiredNumbers DEF FInv, OnlyPast
  <2> QED
    BY <2>1, <2>2 DEF FInv, AtMostOnce, SpawnersStandBeforeWrite, NothingAhead, Planned, Unwritten
<1>2. ASSUME NEW i \in Instances, Schedule!PollFails(i) PROVE FInv'
  <2>1. scheduleCount'.failures = scheduleCount.failures + 1 /\ UNCHANGED <<now, fired>>
    BY <1>2 DEF Schedule!PollFails, ScheduleTInv, ClockTypes
  <2>2. scheduleCount'.failures # 0
    BY <2>1, FiredNumbers
  <2> QED
    BY <2>1, <2>2 DEF FInv, OnlyPast
<1>3. CASE UNCHANGED Schedule!scheduleVars
  BY <1>3 DEF Schedule!scheduleVars, FInv, OnlyPast, AtMostOnce, SpawnersStandBeforeWrite, NothingAhead,
     Planned, Unwritten
<1> QED
  BY <1>1, <1>2, <1>3, BeginsCount, SpawnCount, WriteCount, RequestCount, RequestEffect
     DEF Schedule!Next

LEMMA CountInit == ScheduleAssumptions /\ Schedule!Init => FInv
<1> SUFFICES ASSUME ScheduleAssumptions, Schedule!Init PROVE FInv
  OBVIOUS
<1>1. DOMAIN schedule = {} /\ \A i \in Instances : poller[i].due = {}
  BY DEF Schedule!Init, Schedule!Sleeping
<1>2. \A s \in Schedules, t \in Time : fired[s][t] = 0
  BY DEF Schedule!Init, Time
<1>3. \A s, t : Planned(s, t) = {}
  BY <1>1 DEF Planned
<1>4. Schedule!Cardinality({}) = 0 /\ Schedule!Cardinality(Instances) \in Nat
  BY ScheduleFS_EmptySet, CountsAreFinite
<1>5. OnlyPast
  BY <1>2 DEF OnlyPast
<1>6. AtMostOnce
  BY <1>2, <1>3, <1>4 DEF AtMostOnce
<1>7. SpawnersStandBeforeWrite
  BY <1>1 DEF SpawnersStandBeforeWrite
<1>8. NothingAhead
  BY <1>1 DEF NothingAhead
<1> QED
  BY <1>5, <1>6, <1>7, <1>8 DEF FInv

\* However polls, late writes and requests interleave, each instance spawns the
\* run of one due time at most once (scheduler.py, _poll_schedules), as long as no
\* poll fails before its write and no late write moves next_run_at back.
THEOREM OneRunForEachInstance == ScheduleAssumptions => (Schedule!Spec => []Schedule!FiredOncePerInstance)
<1> SUFFICES ASSUME ScheduleAssumptions PROVE Schedule!Spec => []Schedule!FiredOncePerInstance
  OBVIOUS
<1>1. ScheduleTInv /\ FInv => Schedule!FiredOncePerInstance
  <2> SUFFICES ASSUME ScheduleTInv, FInv, scheduleCount.failures = 0, ~rewound,
                      NEW s \in Schedules, NEW t \in DOMAIN fired[s]
               PROVE  fired[s][t] <= Schedule!Cardinality(Instances)
    BY DEF Schedule!FiredOncePerInstance
  <2>1. t \in Time
    BY DEF ScheduleTInv, FiredTypes
  <2>2. fired[s][t] + Schedule!Cardinality(Planned(s, t)) <= Schedule!Cardinality(Instances)
    BY <2>1 DEF FInv, AtMostOnce
  <2> QED
    BY <2>1, <2>2, CountsAreFinite, SpawnerSets, FiredNumbers
<1>2. Schedule!Init => ScheduleTInv /\ FInv
  BY ScheduleTypesInit, CountInit
<1>3. ScheduleTInv /\ FInv /\ [Schedule!Next]_Schedule!scheduleVars => ScheduleTInv' /\ FInv'
  BY ScheduleTypesNext, CountNext
<1> QED
  BY <1>1, <1>2, <1>3, PTL DEF Schedule!Spec

-----------------------------------------------------------------------------
(* The part in the system.                                                  *)

\* A behaviour of the system is this part's, or leaves it alone.
LEMMA ScheduleAlone ==
    /\ Init /\ part = "schedule" => Schedule!Init
    /\ [Next]_vars /\ part = "schedule" => (part = "schedule")' /\ [Schedule!Next]_(Schedule!scheduleVars)
    /\ [Next]_vars /\ ~(part = "schedule") => (~(part = "schedule"))'
<1> USE DEF ClientsNext, LinkedInNext, IndexNext, ScheduleNext, BillingNext, SearchNext, CommandsNext
<1>1. Init /\ part = "schedule" => Schedule!Init
  BY DEF Init
<1>2. Next => part' = part
  BY DEF Next
<1>3. Next /\ part = "schedule" => Schedule!Next
  BY DEF Next
<1>4. UNCHANGED vars => part' = part /\ UNCHANGED Schedule!scheduleVars
  BY DEF vars, scheduleVars, Schedule!scheduleVars
<1> QED
  BY <1>1, <1>2, <1>3, <1>4

WholeSchedule ==
    Schedule!TypeOK /\ Schedule!FiredOncePerInstance

LEMMA ScheduleAlwaysHold == ScheduleAssumptions => (Spec => [](part = "schedule" => WholeSchedule))
<1> SUFFICES ASSUME ScheduleAssumptions PROVE Spec => [](part = "schedule" => WholeSchedule)
  OBVIOUS
<1>1. Schedule!Spec => []WholeSchedule
  <2>1. Schedule!Spec => []Schedule!TypeOK
    BY ScheduleTypeCorrect
  <2>2. Schedule!Spec => []Schedule!FiredOncePerInstance
    BY OneRunForEachInstance
  <2>3. Schedule!TypeOK /\ Schedule!FiredOncePerInstance => WholeSchedule
    BY DEF WholeSchedule
  <2> HIDE DEF WholeSchedule
  <2> QED
    BY <2>1, <2>2, <2>3, PTL
<1>2. Init /\ part = "schedule" => Schedule!Init
  BY ScheduleAlone
<1>3. [Next]_vars /\ part = "schedule" => (part = "schedule")' /\ [Schedule!Next]_(Schedule!scheduleVars)
  BY ScheduleAlone
<1>4. [Next]_vars /\ ~(part = "schedule") => (~(part = "schedule"))'
  BY ScheduleAlone
<1> HIDE DEF WholeSchedule, Init, Next, Schedule!Init, Schedule!Next
<1> QED
  BY <1>1, <1>2, <1>3, <1>4, PTL DEF Spec, Schedule!Spec

\* One due time of a schedule spawns at most one run for each instance, for any
\* instances, schedules and periods (scheduler.py).
THEOREM FiredOnce == ScheduleAssumptions => (Spec => []FiredOncePerInstance)
<1>1. (part = "schedule" => WholeSchedule) => FiredOncePerInstance
  BY DEF WholeSchedule, FiredOncePerInstance
<1> HIDE DEF WholeSchedule, FiredOncePerInstance
<1> QED
  BY <1>1, ScheduleAlwaysHold, PTL

===============================================================================
