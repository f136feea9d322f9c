------------------------------ MODULE OrgBilling ------------------------------
(***************************************************************************)
(* One organisation: its members, the rows its plan limits, and the        *)
(* subscription that Stripe's webhooks keep.                               *)
(*                                                                         *)
(* A request is a transaction that reads what is committed when it reads;  *)
(* the steps are the reads another request can come between, and the write *)
(* that commits.  The subscription row is locked from a request's write to *)
(* its commit, so both are one step.                                       *)
(***************************************************************************)
EXTENDS Integers, FiniteSets

CONSTANTS
    Owner, Others,      \* emails: who creates the organisation, who is invited
    Accounts,           \* those of Others that have a user row from the start
    PlanLimit,          \* plan -> resource -> how many; "org_members" is one
    Events,             \* webhook event -> [type, id, plan]
    Requests, Hooks,    \* requests and webhook deliveries that may overlap
    None,
    MaxWork, MaxFailures     \* bounds: requests and deliveries, failed commits

Plans == DOMAIN PlanLimit
Resources == {"mailboxes", "campaigns", "developer_profiles", "projects"}
BillingAssumption ==
    /\ Plans \subseteq {"free", "pro", "enterprise"} /\ "free" \in Plans
    /\ PlanLimit \in [Plans -> [Resources \cup {"org_members"} -> Nat]]
    /\ None \notin Plans /\ IsFiniteSet(Requests)
    /\ Accounts \subseteq Others /\ Owner \notin Others
    /\ {MaxWork, MaxFailures} \subseteq Nat

VARIABLES
    orgPlan,   \* organization.plan, None before the organisation is created
    sub,       \* its subscription row, or NoSub
    members,   \* membership rows
    used,      \* resource -> rows that the enforcer counts
    request,   \* request -> where it is
    hook,      \* delivery -> where it is
    events,    \* billing_event rows
    seen,      \* history: overlaps, and the plans so far
    count,     \* what the bounds count
    accounts,  \* who of Others has a user row
    deleted    \* organization.is_deleted

billingVars == <<orgPlan, sub, members, used, request, hook, events, seen, count, accounts, deleted>>

NoSub == [plan |-> None, status |-> None, id |-> None, seats |-> 0]
Idle == [pc |-> "idle"]
Busy(procs) == {p \in DOMAIN procs : procs[p] # Idle}

Init ==
    /\ orgPlan = None /\ sub = NoSub /\ members = {} /\ events = {}
    /\ used = [k \in Resources |-> 0]
    /\ request = [r \in Requests |-> Idle] /\ hook = [h \in Hooks |-> Idle]
    /\ seen = [plans |-> {}, seatsRaced |-> FALSE, plansRaced |-> FALSE]
    /\ count = [work |-> 0, failures |-> 0] /\ accounts = Accounts /\ deleted = FALSE

\* A membership row: an account's row names its user, of which there is one per
\* organisation; an invitation of somebody without an account names the email only.
Row(n, email, role) ==
    [n |-> n, email |-> email, role |-> role,
     status |-> IF email \in accounts \cup {Owner} THEN "active" ELSE "invited"]
UserRows(email) == {m \in members : m.email = email /\ m.status = "active"}
Invited(email) == {m \in members : m.email = email /\ m.status = "invited"}

----------------------------------------------------------------------------
(* The organisation.                                                       *)

\* The owner's membership and the default project come with it; a Stripe
\* customer only if Stripe answers.
CreateOrg ==
    /\ orgPlan = None
    /\ orgPlan' = "free"
    /\ members' = {Row(0, Owner, "owner")}
    /\ used' = [used EXCEPT !["projects"] = 1]
    /\ sub' \in {NoSub, [plan |-> "free", status |-> "active", id |-> None, seats |-> 1]}
    /\ seen' = [seen EXCEPT !.plans = {"free"}]
    /\ UNCHANGED <<request, hook, events, count, accounts, deleted>>

\* First sign-in: a user row, and an organisation, membership and project of its
\* own.  An invitation that names the email stays as it is, for ever.
AutoProvision(email) ==
    /\ email \in Others \ accounts
    /\ accounts' = accounts \cup {email}
    /\ UNCHANGED <<orgPlan, sub, members, used, request, hook, events, seen, count, deleted>>

\* The row only: members and subscription stay, and members' requests are still
\* accepted.
DeleteOrg ==
    /\ orgPlan # None /\ ~deleted
    /\ deleted' = TRUE
    /\ UNCHANGED <<orgPlan, sub, members, used, request, hook, events, seen, count, accounts>>

\* An organisation that is not found is taken to be on the free plan.
Limit(resource) == PlanLimit[IF deleted THEN "free" ELSE orgPlan][resource]

\* A request takes a slot; every request under way knows whether it was alone.
Alone == Busy(request) = {}
Begin(r, state) ==
    /\ orgPlan # None /\ request[r] = Idle /\ count.work < MaxWork
    /\ request' = [q \in Requests |->
         IF q = r THEN state
         ELSE IF request[q] = Idle THEN Idle ELSE [request[q] EXCEPT !.alone = FALSE]]
    /\ count' = [count EXCEPT !.work = @ + 1]

\* The limit, then the duplicate checks: a second invitation of an email with
\* two of them finds more than one row, which is an error too.
CheckInvite(r, email, role) ==
    /\ orgPlan # None /\ Cardinality(members) < Limit("org_members")
    /\ Invited(email) = {} /\ UserRows(email) = {}
    /\ Begin(r, [pc |-> "insert", row |-> Row(count.work + 1, email, role), alone |-> Alone])
    /\ UNCHANGED <<orgPlan, sub, members, used, hook, events, seen, accounts, deleted>>

\* The row is written, visible to this transaction alone, and the members are
\* counted.  The second row of one user waits for the first, and fails.
CountInvited(r) ==
    LET row == request[r].row
    IN /\ request[r].pc = "insert"
       /\ row.status = "active" =>
            \A q \in Busy(request) : request[q].pc = "seats" =>
               \A m \in request[q].add : m.email # row.email
       /\ request' = [request EXCEPT ![r] =
            IF UserRows(row.email) # {} THEN Idle
            ELSE [pc |-> "seats", add |-> {row}, drop |-> {}, alone |-> request[r].alone,
                  seats |-> Cardinality(members) + 1]]
       /\ UNCHANGED <<orgPlan, sub, members, used, hook, events, seen, count, accounts, deleted>>

\* Only a row with a user is found, and not an owner's.  Who deletes or changes a
\* row that is being deleted waits, and finds it gone.
BeingRemoved(row) == \E q \in Busy(request) : request[q].pc = "seats" /\ row \in request[q].drop

RemoveMember(r, row) ==
    /\ row \in members /\ row.status = "active" /\ row.role # "owner"
    /\ ~BeingRemoved(row)
    /\ Begin(r, [pc |-> "seats", add |-> {}, drop |-> {row},
                 alone |-> Alone, seats |-> Cardinality(members) - 1])
    /\ UNCHANGED <<orgPlan, sub, members, used, hook, events, seen, accounts, deleted>>

\* sync_seat_count and the commit.  Without a subscription row nothing is
\* written; what Stripe is told is not kept here.  A commit may fail.
SyncSeatCount(r) ==
    /\ request[r].pc = "seats"
    /\ members' = (members \ request[r].drop) \cup request[r].add
    /\ sub' = IF sub = NoSub THEN NoSub ELSE [sub EXCEPT !.seats = request[r].seats]
    /\ seen' = [seen EXCEPT !.seatsRaced = ~request[r].alone]
    /\ request' = [request EXCEPT ![r] = Idle]
    /\ UNCHANGED <<orgPlan, used, hook, events, count, accounts, deleted>>

RollBack(r) ==
    /\ request[r] # Idle /\ count.failures < MaxFailures
    /\ request' = [request EXCEPT ![r] = Idle]
    /\ count' = [count EXCEPT !.failures = @ + 1]
    /\ UNCHANGED <<orgPlan, sub, members, used, hook, events, seen, accounts, deleted>>

\* An owner may change anybody's role, its own too; an admin anybody's but an owner's.
ChangeRole(actor, row, role) ==
    /\ {actor, row} \subseteq members /\ row.status = "active"
    /\ actor.status = "active" /\ actor.role \in {"owner", "admin"}
    /\ row.role = "owner" => actor.role = "owner"
    /\ row.role # role /\ ~BeingRemoved(row)
    /\ members' = (members \ {row}) \cup {[row EXCEPT !.role = role]}
    /\ UNCHANGED <<orgPlan, sub, used, request, hook, events, seen, count, accounts, deleted>>

\* The limit of a resource is checked before its row is written.  A profile is
\* created without a project, so the count of a project's profiles stays as it
\* is; nobody asks for the limit on projects.
Enforced == {"mailboxes", "campaigns", "developer_profiles"}

CheckLimit(r, resource) ==
    /\ orgPlan # None
    /\ resource \in Enforced => used[resource] < Limit(resource)
    /\ Begin(r, [pc |-> "create", resource |-> resource, alone |-> Alone])
    /\ UNCHANGED <<orgPlan, sub, members, used, hook, events, seen, accounts, deleted>>

Create(r) ==
    /\ request[r].pc = "create"
    /\ used' = IF request[r].resource = "developer_profiles" THEN used
               ELSE [used EXCEPT ![request[r].resource] = @ + 1]
    /\ request' = [request EXCEPT ![r] = Idle]
    /\ UNCHANGED <<orgPlan, sub, members, hook, events, seen, count, accounts, deleted>>

\* Mailboxes, campaigns and projects are deleted softly and counted no more.  A
\* project whose rows are counted here is not: with it, they could not be reached.
Delete(resource) ==
    /\ used[resource] > IF resource = "projects" THEN 1 ELSE 0
    /\ used' = [used EXCEPT ![resource] = @ - 1]
    /\ UNCHANGED <<orgPlan, sub, members, request, hook, events, seen, count, accounts, deleted>>

----------------------------------------------------------------------------
(* The webhooks.                                                           *)

\* The row an event is about: the one linked to its Stripe subscription, else,
\* for an update, the one of its customer.
Finds(e) == sub # NoSub /\ (sub.id = e.id \/ e.type = "updated" \/ e.type = "checkout")

\* The event row is inserted, so that the same event cannot be under way twice,
\* and the subscription is read.
ReceiveEvent(h, e) ==
    /\ hook[h] = Idle /\ orgPlan # None /\ count.work < MaxWork
    /\ \A g \in Busy(hook) : hook[g].event # e
    /\ hook' = [g \in Hooks |->
         IF g = h
         THEN IF e \in events THEN Idle
              ELSE [pc |-> "write", event |-> e, found |-> Finds(Events[e]), row |-> sub,
                    alone |-> Busy(hook) = {}]
         ELSE IF hook[g] = Idle THEN Idle ELSE [hook[g] EXCEPT !.alone = FALSE]]
    /\ count' = [count EXCEPT !.work = @ + 1]
    /\ UNCHANGED <<orgPlan, sub, members, used, request, events, seen, accounts, deleted>>

\* Only the columns that differ from what was read are written.
Column(is, read, set) == IF set = read THEN is ELSE set
Write(row, new) ==
    [plan   |-> Column(sub.plan, row.plan, new.plan),
     status |-> Column(sub.status, row.status, new.status),
     id     |-> Column(sub.id, row.id, new.id),
     seats  |-> Column(sub.seats, row.seats, new.seats)]

CheckoutCompleted(row, e) == [row EXCEPT !.id = e.id]
SubscriptionUpdated(row, e) ==
    [row EXCEPT !.id = IF @ = None THEN e.id ELSE @,
                !.plan = IF e.plan \in Plans THEN e.plan ELSE @,
                !.status = e.status]
\* Mutant: the plan is left on the row.
SubscriptionDeletedWithPlan(row) == [row EXCEPT !.status = "canceled", !.id = None]

SubscriptionDeleted(row) ==
    [row EXCEPT !.status = "canceled", !.plan = "free", !.id = None]
PaymentFailed(row) == [row EXCEPT !.status = "past_due"]

\* The plan the organisation is given along with the subscription's new row.
PlanAfter(e, new) == CASE e.type = "updated" -> new.plan
                       [] e.type = "deleted" -> "free"
                       [] OTHER -> orgPlan

HandleWebhookEvent(h) ==
    LET w == hook[h]
        e == Events[w.event]
        new == CASE e.type = "checkout" -> CheckoutCompleted(w.row, e)
                 [] e.type = "updated"  -> SubscriptionUpdated(w.row, e)
                 [] e.type = "deleted"  -> SubscriptionDeleted(w.row)
                 [] OTHER               -> PaymentFailed(w.row)
    IN /\ w # Idle
       /\ events' = events \cup {w.event}
       /\ IF w.found
          THEN /\ sub' = Write(w.row, new)
               /\ orgPlan' = IF deleted THEN orgPlan ELSE PlanAfter(e, new)
               /\ seen' = [seen EXCEPT !.plans = @ \cup {orgPlan'},
                    !.plansRaced = ~w.alone \/ (@ /\ e.type \notin {"updated", "deleted"})]
          ELSE UNCHANGED <<sub, orgPlan, seen>>
       /\ hook' = [hook EXCEPT ![h] = Idle]
       /\ UNCHANGED <<members, used, request, count, accounts, deleted>>

\* The event is not recorded either, and Stripe delivers it again.
WebhookFails(h) ==
    /\ hook[h] # Idle /\ count.failures < MaxFailures
    /\ hook' = [hook EXCEPT ![h] = Idle]
    /\ count' = [count EXCEPT !.failures = @ + 1]
    /\ UNCHANGED <<orgPlan, sub, members, used, request, events, seen, accounts, deleted>>

----------------------------------------------------------------------------
Next ==
    \/ CreateOrg
    \/ DeleteOrg
    \/ \E email \in Others : AutoProvision(email)
    \/ \E k \in Resources : Delete(k)
    \/ \E r \in Requests :
         \/ \E email \in Others, role \in {"admin", "member"} : CheckInvite(r, email, role)
         \/ \E row \in members : RemoveMember(r, row)
         \/ \E k \in Resources : CheckLimit(r, k)
         \/ request[r] # Idle /\ (CountInvited(r) \/ SyncSeatCount(r) \/ RollBack(r) \/ Create(r))
    \/ \E actor, row \in members, role \in {"owner", "admin", "member"} : ChangeRole(actor, row, role)
    \/ \E h \in Hooks : HandleWebhookEvent(h) \/ WebhookFails(h) \/ \E e \in DOMAIN Events : ReceiveEvent(h, e)

Spec == Init /\ [][Next]_billingVars

----------------------------------------------------------------------------
TypeOK ==
    /\ orgPlan \in Plans \cup {None}
    /\ sub.plan \in Plans \cup {None} /\ sub.seats \in Nat
    /\ \A m, q \in members : m.status = "active" /\ m.email = q.email /\ q.status = "active" => m = q
    /\ used \in [Resources -> Nat]
    /\ events \subseteq DOMAIN Events /\ accounts \subseteq Others /\ deleted \in BOOLEAN
    /\ \A r \in Requests : request[r].pc \in {"idle", "insert", "seats", "create"}

\* A plan's limit is overrun by no more rows than requests can be between the
\* check and the commit, and never beyond what the largest plan the organisation
\* has had allows: the enforcer counts, then the service writes.
WithinPlan ==
    LET Most(k) == {PlanLimit[p][k] : p \in seen.plans}
        Held(k) == IF k = "org_members" THEN Cardinality(members) ELSE used[k]
    IN \A k \in Enforced \cup {"org_members"} :
         Held(k) > 0 /\ ~(k = "org_members" /\ Cardinality(members) = 1)
           => \E n \in Most(k) : Held(k) <= n + Cardinality(Requests) - 1

\* Seats are what the last membership request counted, so when it overlapped
\* no other the seats that are paid for are the members there are.
SeatsCounted == sub # NoSub /\ ~seen.seatsRaced => sub.seats = Cardinality(members)

\* The organisation and its subscription name the same plan, unless webhooks
\* overlapped since the last one that set both, or the organisation is deleted.
PlansAgree == sub # NoSub /\ ~seen.plansRaced /\ ~deleted => orgPlan = sub.plan

=============================================================================
