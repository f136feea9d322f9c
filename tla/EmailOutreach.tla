---------------------------- MODULE EmailOutreach ----------------------------
(***************************************************************************)
(* One email campaign: the requests that start, pause, resume and cancel   *)
(* it and that remove its recipients, the replies, bounces and             *)
(* unsubscriptions that stop a recipient's sequence, and the send workers  *)
(* (one for each application process) that take scheduled messages from    *)
(* the database, hand them to the provider and schedule the next step.     *)
(*                                                                         *)
(* A request and a batch of a worker is one transaction each, at           *)
(* PostgreSQL's level READ COMMITTED: its writes are staged and become     *)
(* visible when it commits, the rows it wrote or selected FOR UPDATE are   *)
(* locked until then, and every statement sees what was committed when it  *)
(* began.  An email is out when the provider has it, whatever becomes of   *)
(* the transaction.  An action is one statement, or one call of the        *)
(* provider.                                                               *)
(***************************************************************************)
EXTENDS Integers, FiniteSets, Functions

CONSTANTS
    Workers,      \* send workers
    Clients,      \* requests that may be in flight together
    Recipients,   \* the recipients of the campaign, one for each address
    Steps,        \* the number of its steps
    EmailSteps,   \* the steps of type "email"
    BatchSize,    \* send_worker_batch_size
    Limit,        \* daily_send_limit of the mailbox
    MaxRetries,   \* max_retries of a message: 3 in the code
    StopOn,       \* the events that stop a sequence: stop_on_reply, stop_on_bounce
    Copies,       \* bound on the message rows of one recipient and step
    Ops,          \* the requests that are made
    MaxOps,       \* bound on the number of requests
    MaxRollBacks, \* bound on batches rolled back: by a crash, or by a deadlock
    MaxFailures   \* bound on calls of the provider that do not succeed

Transitions == {"start", "pause", "resume", "cancel"}
Events == {"replied", "bounced", "unsubscribed"}

ASSUME TransactionsAssumption == Workers \cap Clients = {}
ASSUME StepsAssumption == Steps \in Nat \ {0} /\ EmailSteps \subseteq 1..Steps
ASSUME BatchAssumption == {BatchSize, Copies, MaxRetries} \subseteq Nat \ {0}
ASSUME StopAssumption == StopOn \subseteq {"replied", "bounced"}
ASSUME OpsAssumption == Ops \subseteq Transitions \cup Events \cup {"remove", "disconnect"}
ASSUME BoundsAssumption == {Limit, MaxOps, MaxRollBacks, MaxFailures} \subseteq Nat

\* A message row: recipient, step, and which of their rows it is.
Messages == Recipients \X (1..Steps) \X (1..Copies)
to(m) == m[1]

VARIABLES
    campaign,  \* email_campaign.status
    rcpt,      \* recipient -> its row
    msg,       \* message -> its row
    mailbox,   \* the mailbox row
    unsub,     \* the addresses in email_unsubscribe
    tx,        \* worker -> its batch
    client,    \* request -> its transaction
    sent,      \* history: message -> how often the provider got it
    undone,    \* history: message -> how often such a send was rolled back
    late,      \* history: recipient -> emails handed over after the unsubscription
    starts,    \* history: how often start_campaign was carried out
    ops, rollbacks, failures   \* what the bounds count

database == <<campaign, rcpt, msg, mailbox, unsub>>
history == <<sent, undone, late, starts>>
counters == <<ops, rollbacks, failures>>
vars == <<database, tx, client, history, counters>>

NoMessage == <<>>
NotRead == -1
IdleTx == [pc |-> "idle", rows |-> <<>>, left |-> {}, cur |-> NoMessage, plan |-> 0,
           new |-> {}, moved |-> <<>>, count |-> NotRead, counted |-> FALSE, out |-> {}]
IdleClient == [pc |-> "idle", op |-> "none", m |-> NoMessage, r |-> "none",
               rows |-> {}, seen |-> <<>>, todo |-> {}]

Init ==
    /\ campaign = "draft"
    /\ rcpt = [r \in Recipients |-> [status |-> "active", order |-> 0, deleted |-> FALSE]]
    /\ msg = [m \in Messages |-> [status |-> "none", tries |-> 0]]
    /\ mailbox = [connected |-> TRUE, sends |-> 0]
    /\ unsub = {}
    /\ tx = [w \in Workers |-> IdleTx]
    /\ client = [c \in Clients |-> IdleClient]
    /\ sent = [m \in Messages |-> 0]
    /\ undone = [m \in Messages |-> 0]
    /\ late = [r \in Recipients |-> 0]
    /\ starts = 0
    /\ ops = 0 /\ rollbacks = 0 /\ failures = 0

-----------------------------------------------------------------------------
(* Row locks follow from where the transactions are.                       *)

Transactions == Workers \cup Clients
CampaignRow == <<"campaign">>
MailboxRow == <<"mailbox">>
MessageRow(m) == <<"message", m>>
RecipientRow(r) == <<"recipient", r>>

Batch(w) == DOMAIN tx[w].rows

\* Mutant: a plain SELECT, the one for SQLite.
HeldWithoutForUpdate(w) ==
    {RecipientRow(r) : r \in DOMAIN tx[w].moved}
        \cup (IF tx[w].counted THEN {MailboxRow} ELSE {})

HeldBySender(w) ==
    {MessageRow(m) : m \in Batch(w)} \cup {RecipientRow(r) : r \in DOMAIN tx[w].moved}
        \cup (IF tx[w].counted THEN {MailboxRow} ELSE {})

\* Mutant: the messages are cancelled before the recipient is written.
HeldCancelFirst(c) ==
    IF client[c].pc \notin {"stop", "snapshot", "cancel"} THEN {}
    ELSE {CampaignRow}
           \cup (IF client[c].op = "unsubscribed" THEN {} ELSE {MessageRow(client[c].m)})

\* An event has counted itself in the campaign's row and, but for an
\* unsubscription, written its message; then it writes the recipient.
HeldByEvent(c) ==
    IF client[c].pc \notin {"stop", "snapshot", "cancel"} THEN {}
    ELSE {CampaignRow}
           \cup (IF client[c].op = "unsubscribed" THEN {} ELSE {MessageRow(client[c].m)})
           \cup (IF client[c].pc = "stop" THEN {} ELSE {RecipientRow(client[c].r)})
HeldByRequest(c) ==
    CASE client[c].op = "start" /\ client[c].pc = "schedule" ->
            {CampaignRow} \cup {RecipientRow(to(m)) : m \in client[c].rows}
      [] client[c].op = "remove" /\ client[c].pc = "delete" ->
            {MessageRow(m) : m \in client[c].rows}
      [] client[c].op \in Events -> HeldByEvent(c)
      [] OTHER -> {}
Held(x) == IF x \in Workers THEN HeldBySender(x) ELSE HeldByRequest(x)

\* The locked rows the next statement of a transaction writes.
SenderNeeds(w) ==
    CASE tx[w].pc = "count" /\ mailbox.connected -> {MailboxRow}
      [] tx[w].pc = "write" -> {RecipientRow(to(tx[w].cur))}
      [] OTHER -> {}
RequestNeeds(c) ==
    CASE client[c].pc = "write" -> {CampaignRow}
      [] client[c].pc = "record" ->
            {CampaignRow} \cup (IF client[c].op = "unsubscribed" THEN {}
                                ELSE {MessageRow(client[c].m)})
      [] client[c].pc \in {"stop", "delete"} -> {RecipientRow(client[c].r)}
      [] client[c].pc = "cancel" -> {MessageRow(m) : m \in client[c].rows}
      [] client[c].pc = "schedule" -> {RecipientRow(r) : r \in client[c].todo}
      [] OTHER -> {}
Needs(x) == IF x \in Workers THEN SenderNeeds(x) ELSE RequestNeeds(x)

Blocks(y, rows) == Held(y) \cap rows # {}
WaitsFor(x) == {y \in Transactions \ {x} : Blocks(y, Needs(x))}
Free(x, row) == \A y \in Transactions \ {x} : ~Blocks(y, {row})

\* The row an INSERT makes: the first that is not there yet.
Taken(m) ==
    \/ msg[m].status # "none"
    \/ \E w \in Workers : m \in tx[w].new
    \/ \E c \in Clients : client[c].op = "start" /\ m \in client[c].rows
NewRow(r, n) ==
    {<<r, n, k>> : k \in {k \in 1..Copies : /\ ~Taken(<<r, n, k>>)
                                            /\ \A j \in 1..(k - 1) : Taken(<<r, n, j>>)}}

Scheduled(r) == {m \in Messages : to(m) = r /\ msg[m].status = "scheduled"}

-----------------------------------------------------------------------------
(* A send worker: process_send_queue and the transaction around it.        *)

WorkerAt(w, pc) == tx[w].pc = pc
SendFrame == UNCHANGED <<database, client, undone, starts, ops, rollbacks>>

\* get_scheduled_messages: FOR UPDATE SKIP LOCKED.
GetScheduledMessages(w) ==
    /\ WorkerAt(w, "idle")
    /\ \E batch \in SUBSET {m \in Messages :
                               msg[m].status = "scheduled" /\ Free(w, MessageRow(m))} :
          /\ Cardinality(batch) \in 1..BatchSize
          /\ tx' = [tx EXCEPT ![w] = [IdleTx EXCEPT !.pc = "next", !.left = batch,
                                                    !.rows = Restrict(msg, batch)]]
    /\ SendFrame /\ UNCHANGED <<sent, late, failures>>

Leave(w, m, status) ==
    [tx[w] EXCEPT !.pc = "next", !.left = @ \ {m}, !.rows[m].status = status]

\* The number of emails sent today is read once for a batch, the
\* unsubscriptions for each message.
CheckMessage(w) ==
    /\ WorkerAt(w, "next")
    /\ \E m \in tx[w].left :
          LET count == IF tx[w].count = NotRead THEN mailbox.sends ELSE tx[w].count
              checked == CASE ~mailbox.connected -> Leave(w, m, "failed")
                           [] mailbox.connected /\ count >= Limit -> Leave(w, m, "scheduled")
                           [] mailbox.connected /\ count < Limit /\ to(m) \in unsub ->
                                Leave(w, m, "cancelled")
                           [] OTHER -> [tx[w] EXCEPT !.pc = "send", !.cur = m]
          IN  tx' = [tx EXCEPT ![w] = [checked EXCEPT !.count = count]]
    /\ SendFrame /\ UNCHANGED <<sent, late, failures>>

\* The provider has the message, and now it is out.
HandOver(m) ==
    /\ sent' = [sent EXCEPT ![m] = @ + 1]
    /\ late' = [late EXCEPT ![to(m)] = @ + (IF to(m) \in unsub THEN 1 ELSE 0)]

SendSucceeds(w) ==
    LET m == tx[w].cur IN
    /\ WorkerAt(w, "send")
    /\ HandOver(m)
    /\ tx' = [tx EXCEPT ![w].pc = "count", ![w].rows[m].status = "sent",
                        ![w].out = @ \cup {m}]
    /\ SendFrame /\ UNCHANGED failures

\* Mutant: a message that is retried does not count the failure.
RetryUncounted(row) ==
    [row EXCEPT !.status = IF row.tries + 1 >= MaxRetries THEN "failed" ELSE "scheduled"]

\* _handle_failure: back to the queue until the retries are used up.
HandleFailure(row) ==
    [status |-> IF row.tries + 1 >= MaxRetries THEN "failed" ELSE "scheduled",
     tries |-> row.tries + 1]

\* The provider refuses, or the connection breaks before or after it accepts:
\* _send returns False or, for a provider behind HTTP, may raise.
SendFails(w) ==
    LET m == tx[w].cur IN
    /\ WorkerAt(w, "send")
    /\ failures < MaxFailures
    /\ \E row \in {HandleFailure(tx[w].rows[m]), [tx[w].rows[m] EXCEPT !.status = "failed"]},
          accepted \in BOOLEAN :
          /\ IF accepted THEN HandOver(m) ELSE UNCHANGED <<sent, late>>
          /\ tx' = [tx EXCEPT ![w] = [tx[w] EXCEPT !.pc = "next", !.left = @ \ {m},
                        !.rows[m] = row, !.out = IF accepted THEN @ \cup {m} ELSE @]]
    /\ failures' = failures + 1
    /\ SendFrame

\* increment_send_count adds one to the number that was read.
IncrementSendCount(w) ==
    /\ WorkerAt(w, "count")
    /\ WaitsFor(w) = {}
    /\ tx' = [tx EXCEPT ![w] =
                 IF mailbox.connected
                 THEN [tx[w] EXCEPT !.pc = "advance", !.count = @ + 1, !.counted = TRUE]
                 ELSE [tx[w] EXCEPT !.pc = "advance"]]
    /\ SendFrame /\ UNCHANGED <<sent, late, failures>>

\* advance_recipient reads the campaign and the recipient, and inserts the
\* message of the next step if that is an email.
AdvanceRecipient(w) ==
    LET r == to(tx[w].cur)
        order == IF r \in DOMAIN tx[w].moved THEN tx[w].moved[r].order ELSE rcpt[r].order
        nextStep == order + 1
        done == [tx[w] EXCEPT !.pc = "next", !.left = @ \ {tx[w].cur}]
    IN
    /\ WorkerAt(w, "advance")
    /\ \/ /\ rcpt[r].deleted \/ campaign # "active"
          /\ tx' = [tx EXCEPT ![w] = done]
       \/ /\ ~rcpt[r].deleted /\ campaign = "active"
          /\ IF nextStep > Steps
             THEN tx' = [tx EXCEPT ![w].pc = "write", ![w].plan = nextStep]
             ELSE IF nextStep \in EmailSteps /\ mailbox.connected
             THEN \E m \in NewRow(r, nextStep) :
                     tx' = [tx EXCEPT ![w].pc = "write", ![w].plan = nextStep,
                                      ![w].new = @ \cup {m}]
             ELSE tx' = [tx EXCEPT ![w] = done]
    /\ SendFrame /\ UNCHANGED <<sent, late, failures>>

\* Mutant: the last step is passed like the others.
WrittenPast(w, r) == [order |-> tx[w].plan, completed |-> FALSE]

\* Mutant: the row keeps its step.
WrittenAgain(w, r) ==
    [order |-> IF r \in DOMAIN tx[w].moved THEN tx[w].moved[r].order ELSE rcpt[r].order,
     completed |-> tx[w].plan > Steps]

\* The recipient's row: its next step, or completed.
Written(w, r) ==
    LET known == IF r \in DOMAIN tx[w].moved THEN tx[w].moved[r]
                 ELSE [order |-> rcpt[r].order, completed |-> FALSE]
    IN  IF tx[w].plan > Steps THEN [known EXCEPT !.completed = TRUE]
        ELSE [known EXCEPT !.order = tx[w].plan]

WriteRecipient(w) ==
    LET r == to(tx[w].cur) IN
    /\ WorkerAt(w, "write")
    /\ WaitsFor(w) = {}
    /\ tx' = [tx EXCEPT ![w] =
                 [tx[w] EXCEPT !.pc = "next", !.left = @ \ {tx[w].cur},
                               !.moved = [x \in DOMAIN @ \cup {r} |->
                                            IF x = r THEN Written(w, r) ELSE @[x]]]]
    /\ SendFrame /\ UNCHANGED <<sent, late, failures>>

\* Only the columns that were set are written.
Commit(w) ==
    /\ WorkerAt(w, "next")
    /\ tx[w].left = {}
    /\ msg' = [m \in Messages |->
                 IF m \in Batch(w) THEN tx[w].rows[m]
                 ELSE IF m \in tx[w].new THEN [status |-> "scheduled", tries |-> 0]
                 ELSE msg[m]]
    /\ rcpt' = [r \in Recipients |->
                  IF r \in DOMAIN tx[w].moved
                  THEN [rcpt[r] EXCEPT !.order = tx[w].moved[r].order,
                           !.status = IF tx[w].moved[r].completed THEN "completed" ELSE @]
                  ELSE rcpt[r]]
    /\ mailbox' = IF tx[w].counted THEN [mailbox EXCEPT !.sends = tx[w].count] ELSE mailbox
    /\ tx' = [tx EXCEPT ![w] = IdleTx]
    /\ UNCHANGED <<campaign, unsub, client, history, counters>>

\* What went out stays out.
RollBack(w) ==
    /\ rollbacks < MaxRollBacks
    /\ rollbacks' = rollbacks + 1
    /\ undone' = [m \in Messages |-> undone[m] + (IF m \in tx[w].out THEN 1 ELSE 0)]
    /\ tx' = [tx EXCEPT ![w] = IdleTx]
    /\ UNCHANGED <<database, client, sent, late, starts, ops, failures>>

\* The process stops in the middle of a batch.
Crash(w) == ~WorkerAt(w, "idle") /\ RollBack(w)

ProcessSendQueue(w) ==
    \/ GetScheduledMessages(w) \/ CheckMessage(w) \/ SendSucceeds(w) \/ SendFails(w)
    \/ IncrementSendCount(w) \/ AdvanceRecipient(w) \/ WriteRecipient(w) \/ Commit(w)


-----------------------------------------------------------------------------
(* The requests.                                                           *)

At(c, pc) == client[c].pc = pc
Begin(c, tr) ==
    /\ At(c, "idle")
    /\ ops < MaxOps
    /\ ops' = ops + 1
    /\ client' = [client EXCEPT ![c] = tr]
    /\ UNCHANGED <<database, tx, history, rollbacks, failures>>
StepTo(c, tr) ==
    /\ client' = [client EXCEPT ![c] = tr]
    /\ UNCHANGED <<database, tx, history, counters>>
End(c) == client' = [client EXCEPT ![c] = IdleClient]

\* _transition: the check, and later the write.
From(op) == CASE op \in {"start", "resume"} -> {"draft", "paused"}
              [] op = "pause" -> {"active"}
              [] op = "cancel" -> {"draft", "active", "paused"}
Target(op) == CASE op \in {"start", "resume"} -> "active"
                [] op = "pause" -> "paused"
                [] op = "cancel" -> "cancelled"

ReadCampaign(c, op) ==
    /\ op \in Transitions \cap Ops
    /\ campaign \in From(op)
    /\ op = "start" => starts + Cardinality({d \in Clients : client[d].op = "start"}) < Copies
    /\ Begin(c, [IdleClient EXCEPT !.pc = "write", !.op = op])

WriteCampaign(c) ==
    /\ At(c, "write")
    /\ WaitsFor(c) = {}
    /\ \/ /\ client[c].op # "start"
          /\ campaign' = Target(client[c].op)
          /\ End(c)
          /\ UNCHANGED <<rcpt, msg, mailbox, unsub, tx, history, counters>>
       \/ /\ client[c].op = "start"
          /\ LET listed == {r \in Recipients : ~rcpt[r].deleted /\ rcpt[r].status = "active"}
             IN  StepTo(c, [client[c] EXCEPT !.pc = "schedule",
                               !.seen = [r \in listed |-> rcpt[r].order],
                               !.todo = IF 1 \in EmailSteps THEN listed ELSE {}])

\* _schedule_message of the first step, for one recipient.
ScheduleFirst(c) ==
    /\ At(c, "schedule")
    /\ \E r \in client[c].todo :
          LET next == [client[c] EXCEPT !.todo = @ \ {r}] IN
          IF mailbox.connected
          THEN /\ Free(c, RecipientRow(r))
               /\ \E m \in NewRow(r, 1) : StepTo(c, [next EXCEPT !.rows = @ \cup {m}])
          ELSE StepTo(c, next)

\* The order is written where it was another when the recipients were listed.
CommitStart(c) ==
    LET started == {to(m) : m \in client[c].rows} IN
    /\ At(c, "schedule")
    /\ client[c].todo = {}
    /\ campaign' = "active"
    /\ msg' = [m \in Messages |-> IF m \in client[c].rows
                                  THEN [status |-> "scheduled", tries |-> 0] ELSE msg[m]]
    /\ rcpt' = [r \in Recipients |->
                   IF r \in started /\ client[c].seen[r] # 1
                   THEN [rcpt[r] EXCEPT !.order = 1] ELSE rcpt[r]]
    /\ starts' = starts + 1
    /\ End(c)
    /\ UNCHANGED <<mailbox, unsub, tx, sent, undone, late, counters>>

\* A reply, a bounce or an unsubscription comes for a message that went out.
\* (Of two unsubscriptions of one address at the same time the second fails.)
Event(c, op, m) ==
    /\ op \in Events \cap Ops
    /\ sent[m] > 0
    /\ op = "unsubscribed" =>
          \A d \in Clients : ~(client[d].op = op /\ client[d].r = to(m))
    /\ Begin(c, [IdleClient EXCEPT !.pc = "record", !.op = op, !.m = m, !.r = to(m)])

\* The message's row and the campaign's counter.
RecordEvent(c) ==
    /\ At(c, "record")
    /\ WaitsFor(c) = {}
    /\ StepTo(c, [client[c] EXCEPT !.pc = "stop"])

CommitEvent(c, cancelled, stopped) ==
    LET op == client[c].op IN
    /\ msg' = [m \in Messages |->
                  IF op = "bounced" /\ m = client[c].m
                  THEN [msg[m] EXCEPT !.status = "bounced"]
                  ELSE IF m \in cancelled THEN [msg[m] EXCEPT !.status = "cancelled"]
                  ELSE msg[m]]
    /\ rcpt' = [r \in Recipients |->
                   IF r \in stopped THEN [rcpt[r] EXCEPT !.status = op] ELSE rcpt[r]]
    /\ unsub' = IF op = "unsubscribed" THEN unsub \cup {client[c].r} ELSE unsub
    /\ End(c)
    /\ UNCHANGED <<campaign, mailbox, tx, history, counters>>

\* The recipient's row, unless the recipient was removed or the event stops
\* nothing.
StopRecipient(c) ==
    /\ At(c, "stop")
    /\ WaitsFor(c) = {}
    /\ IF ~rcpt[client[c].r].deleted /\ client[c].op \in StopOn \cup {"unsubscribed"}
       THEN StepTo(c, [client[c] EXCEPT !.pc = "snapshot"])
       ELSE CommitEvent(c, {}, {})

\* Mutant: nothing is cancelled, the check before a send is left to do it.
CancelNothing(c) ==
    /\ At(c, "snapshot")
    /\ StepTo(c, [client[c] EXCEPT !.pc = "cancel"])

\* cancel_scheduled_for_recipient: the rows the statement sees when it begins,
\* each waited for and, if it is still scheduled then, cancelled.
BeginCancel(c) ==
    /\ At(c, "snapshot")
    /\ StepTo(c, [client[c] EXCEPT
                     !.pc = "cancel",
                     !.rows = Scheduled(client[c].r)
                                \ (IF client[c].op = "bounced" THEN {client[c].m} ELSE {})])

Cancel(c) ==
    LET still == {m \in client[c].rows : msg[m].status = "scheduled"} IN
    /\ At(c, "cancel")
    /\ WaitsFor(c) = {}
    /\ IF client[c].op = "remove"
       THEN StepTo(c, [client[c] EXCEPT !.pc = "delete", !.rows = still])
       ELSE CommitEvent(c, still, {client[c].r})

\* remove_recipient: the messages first, then the recipient.
Remove(c, r) ==
    /\ "remove" \in Ops
    /\ ~rcpt[r].deleted
    /\ Begin(c, [IdleClient EXCEPT !.pc = "snapshot", !.op = "remove", !.r = r])

DeleteRecipient(c) ==
    /\ At(c, "delete")
    /\ WaitsFor(c) = {}
    /\ rcpt' = [rcpt EXCEPT ![client[c].r].deleted = TRUE]
    /\ msg' = [m \in Messages |-> IF m \in client[c].rows
                                  THEN [msg[m] EXCEPT !.status = "cancelled"] ELSE msg[m]]
    /\ End(c)
    /\ UNCHANGED <<campaign, mailbox, unsub, tx, history, counters>>

\* The mailbox is disconnected by a request of its own.
Disconnect ==
    /\ "disconnect" \in Ops
    /\ ops < MaxOps
    /\ mailbox.connected
    /\ \A w \in Workers : ~tx[w].counted
    /\ mailbox' = [mailbox EXCEPT !.connected = FALSE]
    /\ ops' = ops + 1
    /\ UNCHANGED <<campaign, rcpt, msg, unsub, tx, client, history, rollbacks, failures>>

Request(c) ==
    \/ \E op \in Transitions : ReadCampaign(c, op)
    \/ \E op \in Events, m \in Messages : Event(c, op, m)
    \/ \E r \in Recipients : Remove(c, r)
Proceed(c) ==
    \/ WriteCampaign(c) \/ ScheduleFirst(c) \/ CommitStart(c)
    \/ RecordEvent(c) \/ StopRecipient(c) \/ BeginCancel(c) \/ Cancel(c)
    \/ DeleteRecipient(c)

-----------------------------------------------------------------------------
(* The database aborts one transaction of a circle of waiting ones: a      *)
(* batch rolls back, a request fails.                                      *)

Circle(S) == S # {} /\ \A x \in S : WaitsFor(x) \cap S # {}

Deadlock ==
    \E S \in SUBSET {x \in Transactions : WaitsFor(x) # {}} :
        /\ Circle(S)
        /\ \A T \in SUBSET S : Circle(T) => T = S
        /\ \/ \E w \in S \cap Workers : RollBack(w)
           \/ \E c \in S \cap Clients : StepTo(c, IdleClient)

\* Nothing is left to send and no transaction is open.
Quiet ==
    /\ \A w \in Workers : WorkerAt(w, "idle")
    /\ \A c \in Clients : At(c, "idle")
    /\ \A r \in Recipients : Scheduled(r) = {}
    /\ UNCHANGED vars

Next ==
    \/ \E w \in Workers : ProcessSendQueue(w) \/ Crash(w)
    \/ \E c \in Clients : Request(c) \/ Proceed(c)
    \/ Disconnect
    \/ Deadlock
    \/ Quiet

Spec == Init /\ [][Next]_vars

\* The send worker polls for ever, a request runs to its end, and the database
\* looks for deadlocks.
FairSpec ==
    /\ Spec
    /\ \A w \in Workers : WF_vars(ProcessSendQueue(w))
    /\ \A c \in Clients : WF_vars(Proceed(c))
    /\ WF_vars(Deadlock)

-----------------------------------------------------------------------------
(* Properties.                                                             *)

\* Every variable has its type.
TypeOK ==
    /\ campaign \in {"draft", "active", "paused", "cancelled"}
    /\ rcpt \in [Recipients -> [status : {"active", "completed"} \cup Events,
                               order : 0..Steps, deleted : BOOLEAN]]
    /\ msg \in [Messages -> [status : {"none", "scheduled", "sent", "failed", "cancelled",
                                       "bounced"}, tries : 0..MaxRetries]]
    /\ mailbox \in [connected : BOOLEAN, sends : 0..Limit]
    /\ unsub \subseteq Recipients
    /\ \A w \in Workers :
          /\ tx[w].pc \in {"idle", "next", "send", "count", "advance", "write"}
          /\ tx[w].left \subseteq Batch(w) /\ Batch(w) \subseteq Messages
          /\ tx[w].new \subseteq Messages /\ tx[w].count \in NotRead..Limit
          /\ tx[w].cur \in Messages \cup {NoMessage} /\ tx[w].plan \in 0..(Steps + 1)
    /\ \A c \in Clients :
          /\ client[c].pc \in {"idle", "write", "schedule", "record", "stop", "snapshot",
                              "cancel", "delete"}
          /\ client[c].op \in Ops \cup {"none"} /\ client[c].rows \subseteq Messages

\* The retries of a message, those of the open batch included.
Tries(m) ==
    IF \E w \in Workers : m \in Batch(w)
    THEN tx[CHOOSE w \in Workers : m \in Batch(w)].rows[m].tries
    ELSE msg[m].tries

\* No message goes out twice but for a counted retry after a failure that the
\* provider had accepted, or for a batch that was rolled back after the send:
\* two send workers, and a worker and a request, never send one row both (the
\* FOR UPDATE SKIP LOCKED of get_scheduled_messages, kept until the commit).
SendsExplained == \A m \in Messages : sent[m] <= 1 + Tries(m) + undone[m]

\* In a campaign started once, a step's message is written once for each
\* recipient, and only after that of the step before has gone out: pausing,
\* resuming, rolled back batches and retries do not make advance_recipient
\* repeat or skip a step.  (A second start sends the first step again; from
\* three steps on the step it makes can overtake the one before.)
Rows(r, n) == {m \in Messages : m[1] = r /\ m[2] = n /\ msg[m].status # "none"}
StepsInTurn ==
    starts <= 1 => \A r \in Recipients, n \in EmailSteps :
        /\ Cardinality(Rows(r, n)) <= 1
        /\ n > 1 /\ Rows(r, n) # {} =>
              \E m \in Rows(r, n - 1) : msg[m].status \in {"sent", "bounced"}

\* A recipient who replied, bounced or unsubscribed has nothing scheduled, even
\* if a worker was sending to them, or start_campaign was scheduling for them,
\* when the event came: the event's row locks, taken in this order, make its
\* cancellation see every row written before it, and keep later ones away.
StoppedIsSilent ==
    \A r \in Recipients : rcpt[r].status \in Events /\ ~rcpt[r].deleted => Scheduled(r) = {}

\* Nobody who has unsubscribed gets an email of the campaign afterwards, the one
\* that a worker is just handing over included (process_unsubscribe waits for
\* it) -- but for a recipient who had been removed, whose messages it leaves to
\* the check before each send.
UnsubscribedIsLeftAlone == \A r \in Recipients : late[r] > 0 => rcpt[r].deleted

\* A recipient whose sequence was stopped is never active or completed again:
\* advance_recipient does not look at the status it overwrites.
StoppedStays ==
    [][\A r \in Recipients : rcpt[r].status \in Events => rcpt'[r].status \in Events]_vars

\* In a started campaign that is not paused or cancelled and whose mailbox stays
\* connected, the sequence of every recipient comes to an end: all steps sent, stopped by an event, or a message
\* of theirs not sent for good.
Over(r) ==
    \/ rcpt[r].deleted \/ rcpt[r].status # "active"
    \/ \E m \in Messages : to(m) = r /\ msg[m].status \in {"failed", "cancelled", "bounced"}
SequenceEnds ==
    \A r \in Recipients :
        \/ <>(campaign \in {"paused", "cancelled"} \/ ~mailbox.connected)
        \/ starts > 0 ~> Over(r)

\* common/enum/email.py:43: "CANCELLED: Campaign permanently stopped."  No
\* message is taken for sending once the campaign is cancelled.
CancelledSendsNothing ==
    [][campaign = "cancelled" => \A w \in Workers : tx'[w].left \subseteq tx[w].left]_vars

=============================================================================
