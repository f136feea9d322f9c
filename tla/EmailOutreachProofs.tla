------------------------- MODULE EmailOutreachProofs -------------------------
(***************************************************************************)
(* Proofs about EmailOutreach for any number of send workers, requests,    *)
(* recipients and steps.                                                   *)
(***************************************************************************)
EXTENDS EmailOutreach, FiniteSetTheorems, TLAPS

-----------------------------------------------------------------------------
(* Types: those of TypeOK, and those of the transactions' private state.   *)

MessageStatus == {"none", "scheduled", "sent", "failed", "cancelled", "bounced"}
MessageData == [status : MessageStatus, tries : 0..MaxRetries]
RecipientData == [status : {"active", "completed"} \cup Events, order : 0..Steps,
                  deleted : BOOLEAN]
MovedData == [order : 0..Steps, completed : BOOLEAN]
Partial(S, T) == UNION {[D -> T] : D \in SUBSET S}

TxPC == {"idle", "next", "send", "count", "advance", "write"}
TxRecord ==
    [pc : TxPC, rows : Partial(Messages, MessageData), left : SUBSET Messages,
     cur : Messages \cup {NoMessage}, plan : 0..(Steps + 1), new : SUBSET Messages,
     moved : Partial(Recipients, MovedData), count : NotRead..Limit,
     counted : BOOLEAN, out : SUBSET Messages]

LEMMA PartialFunction ==
    ASSUME NEW S, NEW T, NEW f
    PROVE  f \in Partial(S, T) <=>
              DOMAIN f \in SUBSET S /\ f \in [DOMAIN f -> T]
  BY DEF Partial

LEMMA IdleTxType == IdleTx \in TxRecord
<1>1. <<>> \in Partial(Messages, MessageData)
  <2>1. <<>> \in [{} -> MessageData]
    OBVIOUS
  <2> QED
    BY <2>1 DEF Partial
<1>2. <<>> \in Partial(Recipients, MovedData)
  <2>1. <<>> \in [{} -> MovedData]
    OBVIOUS
  <2> QED
    BY <2>1 DEF Partial
<1>3. NotRead \in NotRead..Limit /\ 0 \in 0..(Steps + 1)
  BY StepsAssumption, BoundsAssumption DEF NotRead
<1> QED
  BY <1>1, <1>2, <1>3 DEF IdleTx, TxRecord, TxPC

\* One worker's batch changes, and stays a batch.
TxFields == {"pc", "rows", "left", "cur", "plan", "new", "moved", "count", "counted", "out"}
IsBatch(t) == DOMAIN t = TxFields /\ t = [x \in DOMAIN t |-> t[x]]
Only(w) ==
    /\ \A v \in Workers : v # w => tx'[v] = tx[v]
    /\ IsBatch(tx'[w])
    /\ tx' = [v \in Workers |-> tx'[v]]

MailboxData == [connected : BOOLEAN, sends : 0..Limit]
TxTypes == tx \in [Workers -> TxRecord]

SameRows(w) == tx'[w].rows = tx[w].rows /\ tx'[w].left = tx[w].left /\ tx'[w].out = tx[w].out
SamePlan(w) ==
    /\ tx'[w].cur = tx[w].cur /\ tx'[w].plan = tx[w].plan
    /\ tx'[w].new = tx[w].new /\ tx'[w].moved = tx[w].moved
SameNew(w) == tx'[w].new = tx[w].new /\ tx'[w].moved = tx[w].moved
SameCount(w) == tx'[w].count = tx[w].count /\ tx'[w].counted = tx[w].counted

\* What a worker's step does to its batch, field by field.
TakesBatch(w) ==
    /\ tx[w].pc = "idle" /\ tx'[w].pc = "next"
    /\ DOMAIN tx'[w].rows = tx'[w].left
    /\ tx'[w].rows = [m \in tx'[w].left |-> msg[m]]
    /\ \A m \in tx'[w].left :
          /\ m \in Messages /\ msg[m].status = "scheduled" /\ Free(w, MessageRow(m))
          /\ tx'[w].rows[m] = msg[m]
    /\ tx'[w].moved = <<>> /\ tx'[w].new = {} /\ tx'[w].out = {}
    /\ tx'[w].cur = NoMessage /\ tx'[w].plan = 0
    /\ tx'[w].count = NotRead /\ tx'[w].counted = FALSE

CountRead(w) == IF tx[w].count = NotRead THEN mailbox.sends ELSE tx[w].count

Leaves(w, m) ==
    /\ m \in tx[w].left
    /\ tx[w].pc = "next" /\ tx'[w].pc = "next"
    /\ tx'[w].left = tx[w].left \ {m} /\ tx'[w].out = tx[w].out
    /\ \E s \in {"failed", "scheduled", "cancelled"} :
          tx'[w].rows = [tx[w].rows EXCEPT ![m].status = s]
    /\ SamePlan(w)
    /\ tx'[w].count = CountRead(w) /\ tx'[w].counted = tx[w].counted

GoesToSend(w, m) ==
    /\ m \in tx[w].left
    /\ tx[w].pc = "next" /\ tx'[w].pc = "send" /\ tx'[w].cur = m
    /\ SameRows(w) /\ SameNew(w) /\ tx'[w].plan = tx[w].plan
    /\ tx'[w].count = CountRead(w) /\ tx'[w].counted = tx[w].counted
    /\ CountRead(w) < Limit
    /\ to(m) \notin unsub

Sends(w) ==
    /\ tx[w].pc = "send" /\ tx'[w].pc = "count"
    /\ tx'[w].rows = [tx[w].rows EXCEPT ![tx[w].cur].status = "sent"]
    /\ tx'[w].out = tx[w].out \cup {tx[w].cur}
    /\ tx'[w].left = tx[w].left
    /\ SamePlan(w) /\ SameCount(w)

Fails(w) ==
    /\ tx[w].pc = "send" /\ tx'[w].pc = "next"
    /\ tx'[w].left = tx[w].left \ {tx[w].cur}
    /\ \E row \in {HandleFailure(tx[w].rows[tx[w].cur]),
                   [tx[w].rows[tx[w].cur] EXCEPT !.status = "failed"]} :
          tx'[w].rows = [tx[w].rows EXCEPT ![tx[w].cur] = row]
    /\ SamePlan(w) /\ SameCount(w)

Counts(w) ==
    /\ tx[w].pc = "count" /\ tx'[w].pc = "advance"
    /\ SameRows(w) /\ SamePlan(w)
    /\ \/ SameCount(w)
       \/ /\ tx'[w].count = tx[w].count + 1 /\ tx'[w].counted = TRUE
          /\ \A y \in Transactions \ {w} : MailboxRow \notin Held(y)

OrderSeen(w, r) ==
    IF r \in DOMAIN tx[w].moved THEN tx[w].moved[r].order ELSE rcpt[r].order

Plans(w) ==
    /\ tx[w].pc = "advance" /\ tx'[w].pc = "write"
    /\ ~rcpt[to(tx[w].cur)].deleted
    /\ SameRows(w) /\ SameCount(w)
    /\ tx'[w].cur = tx[w].cur /\ tx'[w].moved = tx[w].moved
    /\ tx'[w].plan = OrderSeen(w, to(tx[w].cur)) + 1
    /\ \/ tx'[w].plan > Steps /\ tx'[w].new = tx[w].new
       \/ /\ tx'[w].plan \in EmailSteps
          /\ \E m \in NewRow(to(tx[w].cur), tx'[w].plan) : tx'[w].new = tx[w].new \cup {m}

PassesOn(w) ==
    /\ tx[w].pc = "advance" /\ tx'[w].pc = "next"
    /\ tx'[w].left = tx[w].left \ {tx[w].cur}
    /\ tx'[w].rows = tx[w].rows /\ tx'[w].out = tx[w].out
    /\ SamePlan(w) /\ SameCount(w)

Moves(w) ==
    LET r == to(tx[w].cur) IN
    /\ tx[w].pc = "write" /\ tx'[w].pc = "next"
    /\ \A y \in Transactions \ {w} : RecipientRow(r) \notin Held(y)
    /\ tx'[w].left = tx[w].left \ {tx[w].cur}
    /\ tx'[w].rows = tx[w].rows /\ tx'[w].out = tx[w].out
    /\ SameCount(w)
    /\ tx'[w].cur = tx[w].cur /\ tx'[w].plan = tx[w].plan /\ tx'[w].new = tx[w].new
    /\ DOMAIN tx'[w].moved = DOMAIN tx[w].moved \cup {r}
    /\ tx'[w].moved[r] = Written(w, r)
    /\ tx'[w].moved = [x \in DOMAIN tx'[w].moved |-> tx'[w].moved[x]]
    /\ \A x \in DOMAIN tx[w].moved \ {r} : tx'[w].moved[x] = tx[w].moved[x]

LEMMA TakesBatchEffect ==
    ASSUME NEW w \in Workers, TxTypes, GetScheduledMessages(w)
    PROVE  TakesBatch(w) /\ Only(w)
<1>1. PICK batch \in SUBSET {m \in Messages : msg[m].status = "scheduled"
                                                /\ Free(w, MessageRow(m))} :
          tx' = [tx EXCEPT ![w] = [IdleTx EXCEPT !.pc = "next", !.left = batch,
                                                 !.rows = Restrict(msg, batch)]]
  BY DEF GetScheduledMessages
<1>2. tx[w].pc = "idle"
  BY DEF GetScheduledMessages, WorkerAt
<1>3. /\ DOMAIN Restrict(msg, batch) = batch /\ \A m \in batch : Restrict(msg, batch)[m] = msg[m]
      /\ Restrict(msg, batch) = [m \in batch |-> msg[m]]
  BY DEF Restrict
<1> HIDE DEF Restrict
<1> QED
  <2>1. /\ tx'[w] = [IdleTx EXCEPT !.pc = "next", !.left = batch, !.rows = Restrict(msg, batch)]
        /\ \A v \in Workers : v # w => tx'[v] = tx[v]
        /\ tx' = [v \in Workers |-> tx'[v]]
    BY <1>1 DEF TxTypes
  <2>2. IsBatch(tx'[w])
    <3> HIDE DEF IdleTx
    <3> QED
      BY <2>1, IdleTxType DEF IsBatch, TxFields, TxRecord
  <2>3. TakesBatch(w)
    BY <1>2, <1>3, <2>1 DEF TakesBatch, IdleTx
  <2> QED
    BY <2>1, <2>2, <2>3 DEF Only

LEMMA CheckMessageEffect ==
    ASSUME NEW w \in Workers, TxTypes, mailbox \in MailboxData, CheckMessage(w)
    PROVE  (\E m \in tx[w].left : Leaves(w, m) \/ GoesToSend(w, m)) /\ Only(w)
<1>1. PICK m, checked :
         /\ m \in tx[w].left
         /\ checked = CASE ~mailbox.connected -> Leave(w, m, "failed")
                        [] mailbox.connected /\ CountRead(w) >= Limit -> Leave(w, m, "scheduled")
                        [] mailbox.connected /\ CountRead(w) < Limit /\ to(m) \in unsub ->
                             Leave(w, m, "cancelled")
                        [] OTHER -> [tx[w] EXCEPT !.pc = "send", !.cur = m]
         /\ tx' = [tx EXCEPT ![w] = [checked EXCEPT !.count = CountRead(w)]]
  BY DEF CheckMessage, CountRead
<1>a. m \in tx[w].left
  BY <1>1
<1>2. /\ tx[w].pc = "next" /\ tx[w] \in TxRecord
      /\ \A v \in Workers : v # w => tx'[v] = tx[v]
      /\ tx' = [v \in Workers |-> tx'[v]]
      /\ tx'[w] = [checked EXCEPT !.count = CountRead(w)]
  <2>1. tx[w].pc = "next"
    BY DEF CheckMessage, WorkerAt
  <2>2. PICK new : tx' = [tx EXCEPT ![w] = new] /\ new = [checked EXCEPT !.count = CountRead(w)]
    BY <1>1
  <2> QED
    BY <2>1, <2>2 DEF TxTypes
<1>3. CountRead(w) \in Int /\ Limit \in Int /\ mailbox.connected \in BOOLEAN
  BY <1>2, BoundsAssumption DEF CountRead, NotRead, MailboxData, TxRecord
<1>4. ASSUME NEW s \in {"failed", "scheduled", "cancelled"}, checked = Leave(w, m, s)
      PROVE  Leaves(w, m) /\ Only(w)
  BY <1>a, <1>2, <1>4 DEF Leave, Leaves, SamePlan, TxRecord, Only, IsBatch, TxFields
<1>5. ASSUME checked = [tx[w] EXCEPT !.pc = "send", !.cur = m],
             CountRead(w) < Limit, to(m) \notin unsub
      PROVE  GoesToSend(w, m) /\ Only(w)
  BY <1>a, <1>2, <1>5 DEF GoesToSend, SameRows, SameNew, TxRecord, Only, IsBatch, TxFields
<1> HIDE DEF CountRead
<1>6. CASE ~mailbox.connected
  BY <1>a, <1>1, <1>2, <1>4, <1>6
<1>7. CASE mailbox.connected /\ CountRead(w) >= Limit
  <2>1. checked = Leave(w, m, "scheduled")
    BY <1>1, <1>3, <1>7
  <2> QED
    BY <1>a, <2>1, <1>2, <1>4
<1>8. CASE mailbox.connected /\ CountRead(w) < Limit /\ to(m) \in unsub
  <2>1. checked = Leave(w, m, "cancelled")
    BY <1>1, <1>3, <1>8
  <2> QED
    BY <1>a, <2>1, <1>2, <1>4
<1>9. CASE mailbox.connected /\ CountRead(w) < Limit /\ to(m) \notin unsub
  <2>1. checked = [tx[w] EXCEPT !.pc = "send", !.cur = m]
    BY <1>1, <1>3, <1>9
  <2> QED
    BY <1>a, <2>1, <1>2, <1>5, <1>9
<1> QED
  BY <1>3, <1>6, <1>7, <1>8, <1>9

LEMMA SendSucceedsEffect ==
    ASSUME NEW w \in Workers, TxTypes, SendSucceeds(w)
    PROVE  Sends(w) /\ Only(w)
  BY ZenonT(40) DEF SendSucceeds, WorkerAt, TxTypes, TxRecord, Only, IsBatch, TxFields, Sends, SamePlan, SameCount

LEMMA SendFailsEffect ==
    ASSUME NEW w \in Workers, TxTypes, SendFails(w)
    PROVE  /\ Fails(w) /\ Only(w)
           /\ \/ tx'[w].out = tx[w].out \cup {tx[w].cur} /\ HandOver(tx[w].cur)
              \/ tx'[w].out = tx[w].out /\ UNCHANGED <<sent, late>>
<1> DEFINE m == tx[w].cur
<1>1. PICK row \in {HandleFailure(tx[w].rows[m]), [tx[w].rows[m] EXCEPT !.status = "failed"]},
           accepted \in BOOLEAN :
         /\ IF accepted THEN HandOver(m) ELSE UNCHANGED <<sent, late>>
         /\ tx' = [tx EXCEPT ![w] = [tx[w] EXCEPT !.pc = "next", !.left = @ \ {m},
                        !.rows[m] = row, !.out = IF accepted THEN @ \cup {m} ELSE @]]
  BY DEF SendFails
<1>2. tx[w].pc = "send"
  BY DEF SendFails, WorkerAt
<1>t. tx[w] \in TxRecord /\ Only(w)
  BY <1>1, ZenonT(40) DEF TxTypes, TxRecord, Only, IsBatch, TxFields
<1>r. tx'[w] = [tx[w] EXCEPT !.pc = "next", !.left = @ \ {m}, !.rows[m] = row,
                             !.out = IF accepted THEN @ \cup {m} ELSE @]
  BY <1>1 DEF TxTypes
<1> HIDE DEF m
<1>3. /\ Only(w) /\ tx'[w].pc = "next" /\ tx'[w].left = tx[w].left \ {m}
      /\ tx'[w].rows = [tx[w].rows EXCEPT ![m] = row]
      /\ tx'[w].out = IF accepted THEN tx[w].out \cup {m} ELSE tx[w].out
      /\ SamePlan(w) /\ SameCount(w)
  BY <1>t, <1>r DEF TxRecord, SamePlan, SameCount
<1> QED
  BY <1>1, <1>2, <1>3 DEF Fails, m

LEMMA IncrementSendCountEffect ==
    ASSUME NEW w \in Workers, TxTypes, IncrementSendCount(w)
    PROVE  Counts(w) /\ Only(w)
<1>1. mailbox.connected => \A y \in Transactions \ {w} : MailboxRow \notin Held(y)
  BY DEF IncrementSendCount, WorkerAt, WaitsFor, Blocks, Needs, SenderNeeds
<1> DEFINE more == IF mailbox.connected
                   THEN [tx[w] EXCEPT !.pc = "advance", !.count = @ + 1, !.counted = TRUE]
                   ELSE [tx[w] EXCEPT !.pc = "advance"]
<1>2. tx[w].pc = "count" /\ tx' = [tx EXCEPT ![w] = more]
  BY DEF IncrementSendCount, WorkerAt
<1>3. tx[w] \in TxRecord /\ tx'[w] = more /\ Only(w)
  BY <1>2 DEF TxTypes, TxRecord, Only, IsBatch, TxFields
<1>t. tx[w] \in TxRecord /\ tx[w].pc = "count" /\ Only(w)
  BY <1>2, <1>3
<1>4. CASE mailbox.connected
  <2>1. tx'[w] = [tx[w] EXCEPT !.pc = "advance", !.count = @ + 1, !.counted = TRUE]
    BY <1>3, <1>4
  <2> HIDE DEF more
  <2> QED
    BY <1>1, <1>t, <1>4, <2>1 DEF TxRecord, Counts, SameRows, SamePlan
<1>5. CASE ~mailbox.connected
  <2>1. tx'[w] = [tx[w] EXCEPT !.pc = "advance"]
    BY <1>3, <1>5
  <2> HIDE DEF more
  <2> QED
    BY <1>t, <2>1 DEF TxRecord, Counts, SameRows, SamePlan, SameCount
<1> QED
  BY <1>4, <1>5

LEMMA AdvanceRecipientEffect ==
    ASSUME NEW w \in Workers, TxTypes, AdvanceRecipient(w)
    PROVE  (Plans(w) \/ PassesOn(w)) /\ Only(w)
<1> DEFINE r == to(tx[w].cur)
           n == OrderSeen(w, r) + 1
           past == tx' = [tx EXCEPT ![w] = [tx[w] EXCEPT !.pc = "next", !.left = @ \ {tx[w].cur}]]
<1>1. /\ tx[w].pc = "advance"
      /\ \/ past
         \/ /\ ~rcpt[r].deleted /\ campaign = "active"
            /\ IF n > Steps
               THEN tx' = [tx EXCEPT ![w].pc = "write", ![w].plan = n]
               ELSE IF n \in EmailSteps /\ mailbox.connected
               THEN \E m \in NewRow(r, n) :
                       tx' = [tx EXCEPT ![w].pc = "write", ![w].plan = n, ![w].new = @ \cup {m}]
               ELSE past
  BY DEF AdvanceRecipient, WorkerAt, OrderSeen
<1>2. CASE past
  BY <1>1, <1>2 DEF PassesOn, TxTypes, TxRecord, Only, IsBatch, TxFields, SamePlan, SameCount
<1> HIDE DEF n, r
<1>3. CASE ~rcpt[r].deleted /\ n > Steps /\ tx' = [tx EXCEPT ![w].pc = "write", ![w].plan = n]
  <2>1. /\ Only(w) /\ tx'[w].pc = "write" /\ SameRows(w) /\ SameCount(w)
        /\ tx'[w].cur = tx[w].cur /\ tx'[w].moved = tx[w].moved
        /\ tx'[w].plan = n /\ tx'[w].new = tx[w].new
    BY <1>3 DEF TxTypes, TxRecord, Only, IsBatch, TxFields, SameRows, SameCount
  <2> QED
    BY <1>1, <1>3, <2>1 DEF Plans, n, r
<1>4. ASSUME ~rcpt[r].deleted, n \in EmailSteps, NEW m \in NewRow(r, n),
             tx' = [tx EXCEPT ![w].pc = "write", ![w].plan = n, ![w].new = @ \cup {m}]
      PROVE  Plans(w) /\ Only(w)
  <2>1. /\ Only(w) /\ tx'[w].pc = "write" /\ SameRows(w) /\ SameCount(w)
        /\ tx'[w].cur = tx[w].cur /\ tx'[w].moved = tx[w].moved
        /\ tx'[w].plan = n /\ tx'[w].new = tx[w].new \cup {m}
    BY <1>4, ZenonT(40) DEF TxTypes, TxRecord, Only, IsBatch, TxFields, SameRows, SameCount
  <2> QED
    BY <1>1, <1>4, <2>1 DEF Plans, n, r
<1> QED
  BY <1>1, <1>2, <1>3, <1>4

LEMMA WriteRecipientEffect ==
    ASSUME NEW w \in Workers, TxTypes, WriteRecipient(w)
    PROVE  Moves(w) /\ Only(w)
<1> DEFINE r == to(tx[w].cur)
           mv == [x \in DOMAIN tx[w].moved \cup {r} |->
                     IF x = r THEN Written(w, r) ELSE tx[w].moved[x]]
<1>a. tx[w] \in TxRecord /\ tx[w].pc = "write"
  BY DEF WriteRecipient, WorkerAt, TxTypes
<1>1. /\ tx[w].pc = "write"
      /\ tx' = [tx EXCEPT ![w] = [tx[w] EXCEPT !.pc = "next", !.left = @ \ {tx[w].cur},
                                               !.moved = mv]]
  BY <1>a, Zenon DEF WriteRecipient, WorkerAt
<1>2. \A y \in Transactions \ {w} : RecipientRow(r) \notin Held(y)
  BY DEF WriteRecipient, WorkerAt, WaitsFor, Blocks, Needs, SenderNeeds
<1>3. /\ DOMAIN mv = DOMAIN tx[w].moved \cup {r} /\ mv[r] = Written(w, r)
      /\ mv = [x \in DOMAIN mv |-> mv[x]]
      /\ \A x \in DOMAIN tx[w].moved \ {r} : mv[x] = tx[w].moved[x]
  OBVIOUS
<1> HIDE DEF mv
<1>4. /\ Only(w) /\ tx'[w].pc = "next" /\ tx'[w].left = tx[w].left \ {tx[w].cur}
      /\ tx'[w].rows = tx[w].rows /\ tx'[w].out = tx[w].out /\ SameCount(w)
      /\ tx'[w].cur = tx[w].cur /\ tx'[w].plan = tx[w].plan /\ tx'[w].new = tx[w].new
      /\ tx'[w].moved = mv
  BY <1>1 DEF TxTypes, TxRecord, Only, IsBatch, TxFields, SameCount
<1> QED
  BY <1>1, <1>2, <1>3, <1>4 DEF Moves

-----------------------------------------------------------------------------
(* The same for requests.                                                  *)

ClientPC == {"idle", "write", "schedule", "record", "stop", "snapshot", "cancel", "delete"}
ClientRecord ==
    [pc : ClientPC, op : Ops \cup {"none"}, m : Messages \cup {NoMessage},
     r : Recipients \cup {"none"}, rows : SUBSET Messages,
     seen : Partial(Recipients, 0..Steps), todo : SUBSET Recipients]
ClientTypes == client \in [Clients -> ClientRecord]

OnlyRequest(c) ==
    /\ \A d \in Clients : d # c => client'[d] = client[d]
    /\ client' = [d \in Clients |-> client'[d]]
SameRequest(c) ==
    /\ client'[c].op = client[c].op /\ client'[c].m = client[c].m
    /\ client'[c].r = client[c].r
SameList(c) == client'[c].seen = client[c].seen
NoOther(x, row) == \A y \in Transactions \ {x} : row \notin Held(y)

Ends(c) == client'[c] = IdleClient

Begins(c) ==
    /\ client[c].pc = "idle" /\ client'[c].rows = {}
    /\ \/ client'[c].pc = "write" /\ client'[c].op \in Transitions
       \/ /\ client'[c].pc = "record" /\ client'[c].op \in Events
          /\ client'[c].m \in Messages /\ client'[c].r = to(client'[c].m)
          /\ sent[client'[c].m] > 0
       \/ /\ client'[c].pc = "snapshot" /\ client'[c].op = "remove"
          /\ client'[c].r \in Recipients

Lists(c) ==
    /\ client[c].pc = "write" /\ client[c].op = "start"
    /\ client'[c].pc = "schedule" /\ SameRequest(c) /\ client'[c].rows = client[c].rows
    /\ client'[c].todo \subseteq DOMAIN client'[c].seen
    /\ \A r \in DOMAIN client'[c].seen :
          /\ r \in Recipients /\ rcpt[r].status = "active"
          /\ client'[c].seen[r] = rcpt[r].order
    /\ NoOther(c, CampaignRow)

SchedulesOne(c) ==
    /\ client[c].pc = "schedule" /\ client'[c].pc = "schedule"
    /\ SameRequest(c) /\ SameList(c)
    /\ \E r \in client[c].todo :
          /\ client'[c].todo = client[c].todo \ {r}
          /\ \/ client'[c].rows = client[c].rows
             \/ /\ NoOther(c, RecipientRow(r))
                /\ \E m \in NewRow(r, 1) : client'[c].rows = client[c].rows \cup {m}

Records(c) ==
    /\ client[c].pc = "record" /\ client'[c].pc = "stop"
    /\ SameRequest(c) /\ client'[c].rows = client[c].rows
    /\ NoOther(c, CampaignRow)
    /\ client[c].op # "unsubscribed" => NoOther(c, MessageRow(client[c].m))

Locks(c) ==
    /\ client[c].pc = "stop" /\ client'[c].pc = "snapshot"
    /\ SameRequest(c) /\ client'[c].rows = client[c].rows
    /\ NoOther(c, RecipientRow(client[c].r))

Snapshots(c) ==
    /\ client[c].pc = "snapshot" /\ client'[c].pc = "cancel" /\ SameRequest(c)
    /\ client'[c].rows = Scheduled(client[c].r)
                           \ (IF client[c].op = "bounced" THEN {client[c].m} ELSE {})

TakesRows(c) ==
    /\ client[c].pc = "cancel" /\ client[c].op = "remove"
    /\ client'[c].pc = "delete" /\ SameRequest(c)
    /\ client'[c].rows = {m \in client[c].rows : msg[m].status = "scheduled"}
    /\ \A m \in client'[c].rows : NoOther(c, MessageRow(m))

DatabaseKept == UNCHANGED <<campaign, rcpt, msg, mailbox, unsub>>
HistoryKept == UNCHANGED <<sent, undone, late, starts>>

LEMMA IdleClientType == IdleClient \in ClientRecord
<1>1. <<>> \in Partial(Recipients, 0..Steps)
  <2>1. <<>> \in [{} -> 0..Steps]
    OBVIOUS
  <2> QED
    BY <2>1 DEF Partial
<1> QED
  BY <1>1 DEF IdleClient, ClientRecord, ClientPC

LEMMA RequestEffect ==
    ASSUME NEW c \in Clients, ClientTypes, Request(c)
    PROVE  /\ Begins(c) /\ OnlyRequest(c) /\ client'[c] \in ClientRecord
           /\ DatabaseKept /\ HistoryKept /\ tx' = tx
<1>1. PICK tr :
         /\ Begin(c, tr)
         /\ \/ \E op \in Transitions \cap Ops :
                  tr = [IdleClient EXCEPT !.pc = "write", !.op = op]
            \/ \E op \in Events \cap Ops, m \in Messages :
                  sent[m] > 0 /\
                  tr = [IdleClient EXCEPT !.pc = "record", !.op = op, !.m = m, !.r = to(m)]
            \/ "remove" \in Ops /\ \E r \in Recipients :
                  tr = [IdleClient EXCEPT !.pc = "snapshot", !.op = "remove", !.r = r]
  BY DEF Request, ReadCampaign, Event, Remove
<1>2. /\ client'[c] = tr /\ OnlyRequest(c) /\ client[c].pc = "idle"
      /\ DatabaseKept /\ HistoryKept /\ tx' = tx
  BY <1>1 DEF Begin, At, ClientTypes, OnlyRequest, DatabaseKept, HistoryKept, database, history
<1>3. IdleClient \in ClientRecord /\ IdleClient.rows = {}
  BY IdleClientType DEF IdleClient
<1>4. ASSUME NEW op \in Transitions \cap Ops,
             tr = [IdleClient EXCEPT !.pc = "write", !.op = op]
      PROVE  tr \in ClientRecord /\ Begins(c)
  <2> HIDE DEF IdleClient
  <2>1. tr \in ClientRecord /\ tr.pc = "write" /\ tr.op = op /\ tr.rows = {}
    BY <1>3, <1>4 DEF ClientRecord, ClientPC
  <2> QED
    BY <1>2, <2>1 DEF Begins
<1>5. ASSUME NEW op \in Events \cap Ops, NEW m \in Messages, sent[m] > 0,
             tr = [IdleClient EXCEPT !.pc = "record", !.op = op, !.m = m, !.r = to(m)]
      PROVE  tr \in ClientRecord /\ Begins(c)
  <2> HIDE DEF IdleClient
  <2>0. to(m) \in Recipients
    BY DEF to, Messages
  <2>1. /\ tr \in ClientRecord /\ tr.pc = "record" /\ tr.op = op /\ tr.rows = {}
        /\ tr.m = m /\ tr.r = to(m)
    BY <1>3, <1>5, <2>0 DEF ClientRecord, ClientPC
  <2> QED
    BY <1>2, <1>5, <2>1 DEF Begins
<1>6. ASSUME "remove" \in Ops, NEW r \in Recipients,
             tr = [IdleClient EXCEPT !.pc = "snapshot", !.op = "remove", !.r = r]
      PROVE  tr \in ClientRecord /\ Begins(c)
  <2> HIDE DEF IdleClient
  <2>1. /\ tr \in ClientRecord /\ tr.pc = "snapshot" /\ tr.op = "remove" /\ tr.rows = {}
        /\ tr.r = r
    BY <1>3, <1>6 DEF ClientRecord, ClientPC
  <2> QED
    BY <1>2, <2>1 DEF Begins
<1> QED
  BY <1>1, <1>2, <1>4, <1>5, <1>6

LEMMA StepToParts ==
    ASSUME NEW c \in Clients, ClientTypes, NEW tr, StepTo(c, tr)
    PROVE  /\ client'[c] = tr /\ OnlyRequest(c) /\ client[c] \in ClientRecord
           /\ DatabaseKept /\ HistoryKept /\ tx' = tx
  BY DEF StepTo, ClientTypes, OnlyRequest, DatabaseKept, HistoryKept, database, history

LEMMA EndParts ==
    ASSUME NEW c \in Clients, ClientTypes, End(c)
    PROVE  Ends(c) /\ OnlyRequest(c)
  BY DEF End, Ends, ClientTypes, OnlyRequest

LEMMA NothingWaitedFor ==
    ASSUME NEW x \in Transactions, WaitsFor(x) = {}, NEW row \in Needs(x)
    PROVE  NoOther(x, row)
  BY DEF WaitsFor, Blocks, NoOther

RequestNeedsRow ==
    \A c \in Clients : Needs(c) = RequestNeeds(c)
LEMMA NeedsOfRequest == RequestNeedsRow
  BY TransactionsAssumption DEF RequestNeedsRow, Needs

\* The order of the recipients at the time they are listed.
Orders == rcpt \in [Recipients -> RecipientData]

LEMMA ListsEffect ==
    ASSUME NEW c \in Clients, ClientTypes, Orders, WriteCampaign(c), client[c].op = "start"
    PROVE  /\ Lists(c) /\ OnlyRequest(c) /\ client'[c] \in ClientRecord
           /\ DatabaseKept /\ HistoryKept /\ tx' = tx
<1> DEFINE listed == {r \in Recipients : ~rcpt[r].deleted /\ rcpt[r].status = "active"}
           list == [r \in listed |-> rcpt[r].order]
           work == IF 1 \in EmailSteps THEN listed ELSE {}
<1>1. StepTo(c, [client[c] EXCEPT !.pc = "schedule", !.seen = list, !.todo = work])
  BY DEF WriteCampaign
<1>2. list \in Partial(Recipients, 0..Steps)
  <2>1. \A r \in listed : rcpt[r].order \in 0..Steps
    BY DEF Orders, RecipientData
  <2>2. list \in [listed -> 0..Steps] /\ listed \in SUBSET Recipients
    BY <2>1
  <2> HIDE DEF list, listed
  <2> QED
    BY <2>2 DEF Partial
<1>3. /\ work \subseteq DOMAIN list /\ work \in SUBSET Recipients
      /\ \A r \in DOMAIN list : /\ r \in Recipients /\ rcpt[r].status = "active"
                                /\ list[r] = rcpt[r].order
  OBVIOUS
<1>4. NoOther(c, CampaignRow)
  <2>1. CampaignRow \in Needs(c) /\ WaitsFor(c) = {}
    BY NeedsOfRequest DEF RequestNeedsRow, WriteCampaign, At, RequestNeeds
  <2> QED
    BY <2>1, NothingWaitedFor DEF Transactions
<1> HIDE DEF list, listed, work
<1>5. /\ client'[c] = [client[c] EXCEPT !.pc = "schedule", !.seen = list, !.todo = work]
      /\ client[c] \in ClientRecord /\ client[c].pc = "write"
      /\ OnlyRequest(c) /\ DatabaseKept /\ HistoryKept /\ tx' = tx
  BY <1>1, StepToParts DEF WriteCampaign, At
<1>6. /\ client'[c] \in ClientRecord /\ client'[c].pc = "schedule" /\ SameRequest(c)
      /\ client'[c].seen = list /\ client'[c].todo = work /\ client'[c].rows = client[c].rows
  BY <1>2, <1>3, <1>5 DEF ClientRecord, ClientPC, SameRequest
<1> QED
  BY <1>3, <1>4, <1>5, <1>6 DEF Lists

LEMMA ScheduleFirstEffect ==
    ASSUME NEW c \in Clients, ClientTypes, ScheduleFirst(c)
    PROVE  /\ SchedulesOne(c) /\ OnlyRequest(c)
           /\ client'[c].rows \subseteq Messages => client'[c] \in ClientRecord
           /\ DatabaseKept /\ HistoryKept /\ tx' = tx
<1>1. PICK r, R :
         /\ r \in client[c].todo
         /\ StepTo(c, [client[c] EXCEPT !.todo = @ \ {r}, !.rows = R])
         /\ \/ R = client[c].rows
            \/ /\ Free(c, RecipientRow(r))
               /\ \E m \in NewRow(r, 1) : R = client[c].rows \cup {m}
  <2>1. PICK r \in client[c].todo :
           \/ StepTo(c, [client[c] EXCEPT !.todo = @ \ {r}])
           \/ /\ Free(c, RecipientRow(r))
              /\ \E m \in NewRow(r, 1) :
                    StepTo(c, [[client[c] EXCEPT !.todo = @ \ {r}] EXCEPT !.rows = @ \cup {m}])
    BY DEF ScheduleFirst
  <2>2. client[c] \in ClientRecord
    BY DEF ClientTypes
  <2>3. [client[c] EXCEPT !.todo = @ \ {r}]
           = [client[c] EXCEPT !.todo = @ \ {r}, !.rows = client[c].rows]
    BY <2>2 DEF ClientRecord
  <2>4. \A m : [[client[c] EXCEPT !.todo = @ \ {r}] EXCEPT !.rows = @ \cup {m}]
                  = [client[c] EXCEPT !.todo = @ \ {r}, !.rows = client[c].rows \cup {m}]
    BY <2>2 DEF ClientRecord
  <2> QED
    BY <2>1, <2>3, <2>4
<1>2. /\ client'[c] = [client[c] EXCEPT !.todo = @ \ {r}, !.rows = R]
      /\ client[c] \in ClientRecord /\ client[c].pc = "schedule"
      /\ OnlyRequest(c) /\ DatabaseKept /\ HistoryKept /\ tx' = tx
  BY <1>1, StepToParts DEF ScheduleFirst, At
<1>3. /\ R \subseteq Messages => client'[c] \in ClientRecord
      /\ client'[c].pc = "schedule" /\ SameRequest(c) /\ SameList(c)
      /\ client'[c].todo = client[c].todo \ {r} /\ client'[c].rows = R
  BY <1>2 DEF ClientRecord, ClientPC, SameRequest, SameList
<1>4. Free(c, RecipientRow(r)) => NoOther(c, RecipientRow(r))
  BY DEF Free, Blocks, NoOther
<1> QED
  BY <1>1, <1>2, <1>3, <1>4 DEF SchedulesOne

LEMMA RecordEventEffect ==
    ASSUME NEW c \in Clients, ClientTypes, RecordEvent(c)
    PROVE  /\ Records(c) /\ OnlyRequest(c) /\ client'[c] \in ClientRecord
           /\ DatabaseKept /\ HistoryKept /\ tx' = tx
<1>1. /\ client'[c] = [client[c] EXCEPT !.pc = "stop"]
      /\ client[c] \in ClientRecord /\ client[c].pc = "record"
      /\ OnlyRequest(c) /\ DatabaseKept /\ HistoryKept /\ tx' = tx
  BY StepToParts DEF RecordEvent, At
<1>2. /\ client'[c] \in ClientRecord /\ client'[c].pc = "stop" /\ SameRequest(c)
      /\ client'[c].rows = client[c].rows
  BY <1>1 DEF ClientRecord, ClientPC, SameRequest
<1>3. /\ CampaignRow \in Needs(c) /\ WaitsFor(c) = {}
      /\ client[c].op # "unsubscribed" => MessageRow(client[c].m) \in Needs(c)
  BY NeedsOfRequest, <1>1 DEF RequestNeedsRow, RecordEvent, RequestNeeds
<1>4. NoOther(c, CampaignRow)
  BY <1>3, NothingWaitedFor DEF Transactions
<1>5. client[c].op # "unsubscribed" => NoOther(c, MessageRow(client[c].m))
  BY <1>3, NothingWaitedFor DEF Transactions
<1> QED
  BY <1>1, <1>2, <1>4, <1>5 DEF Records

LEMMA StopRecipientEffect ==
    ASSUME NEW c \in Clients, ClientTypes, StopRecipient(c), ~CommitEvent(c, {}, {})
    PROVE  /\ Locks(c) /\ OnlyRequest(c) /\ client'[c] \in ClientRecord
           /\ DatabaseKept /\ HistoryKept /\ tx' = tx
<1>1. /\ client'[c] = [client[c] EXCEPT !.pc = "snapshot"]
      /\ client[c] \in ClientRecord /\ client[c].pc = "stop"
      /\ OnlyRequest(c) /\ DatabaseKept /\ HistoryKept /\ tx' = tx
  BY StepToParts DEF StopRecipient, At
<1>2. /\ client'[c] \in ClientRecord /\ client'[c].pc = "snapshot" /\ SameRequest(c)
      /\ client'[c].rows = client[c].rows
  BY <1>1 DEF ClientRecord, ClientPC, SameRequest
<1>3. RecipientRow(client[c].r) \in Needs(c) /\ WaitsFor(c) = {}
  BY NeedsOfRequest, <1>1 DEF RequestNeedsRow, StopRecipient, RequestNeeds
<1>4. NoOther(c, RecipientRow(client[c].r))
  BY <1>3, NothingWaitedFor DEF Transactions
<1> QED
  BY <1>1, <1>2, <1>4 DEF Locks

LEMMA BeginCancelEffect ==
    ASSUME NEW c \in Clients, ClientTypes, BeginCancel(c)
    PROVE  /\ Snapshots(c) /\ OnlyRequest(c) /\ client'[c] \in ClientRecord
           /\ DatabaseKept /\ HistoryKept /\ tx' = tx
<1> DEFINE R == Scheduled(client[c].r)
                   \ (IF client[c].op = "bounced" THEN {client[c].m} ELSE {})
<1>1. /\ client'[c] = [client[c] EXCEPT !.pc = "cancel", !.rows = R]
      /\ client[c] \in ClientRecord /\ client[c].pc = "snapshot"
      /\ OnlyRequest(c) /\ DatabaseKept /\ HistoryKept /\ tx' = tx
  BY StepToParts DEF BeginCancel, At
<1>2. R \in SUBSET Messages
  BY DEF Scheduled
<1>3. /\ client'[c] \in ClientRecord /\ client'[c].pc = "cancel" /\ SameRequest(c)
      /\ client'[c].rows = R
  <2> HIDE DEF R
  <2> QED
    BY <1>1, <1>2 DEF ClientRecord, ClientPC, SameRequest
<1> QED
  BY <1>1, <1>3 DEF Snapshots

LEMMA CancelledRowsAreFree ==
    ASSUME NEW c \in Clients, Cancel(c), NEW m \in client[c].rows
    PROVE  NoOther(c, MessageRow(m))
<1>1. MessageRow(m) \in Needs(c) /\ WaitsFor(c) = {}
  BY NeedsOfRequest DEF RequestNeedsRow, Cancel, At, RequestNeeds
<1> QED
  BY <1>1, NothingWaitedFor DEF Transactions

LEMMA RemoveTakesRowsEffect ==
    ASSUME NEW c \in Clients, ClientTypes, Cancel(c), client[c].op = "remove"
    PROVE  /\ TakesRows(c) /\ OnlyRequest(c) /\ client'[c] \in ClientRecord
           /\ DatabaseKept /\ HistoryKept /\ tx' = tx
<1> DEFINE R == {m \in client[c].rows : msg[m].status = "scheduled"}
<1>1. /\ client'[c] = [client[c] EXCEPT !.pc = "delete", !.rows = R]
      /\ client[c] \in ClientRecord /\ client[c].pc = "cancel"
      /\ OnlyRequest(c) /\ DatabaseKept /\ HistoryKept /\ tx' = tx
  BY StepToParts DEF Cancel, At
<1>2. R \in SUBSET Messages /\ R \subseteq client[c].rows
  BY <1>1 DEF ClientRecord
<1>3. /\ client'[c] \in ClientRecord /\ client'[c].pc = "delete" /\ SameRequest(c)
      /\ client'[c].rows = R
  <2> HIDE DEF R
  <2> QED
    BY <1>1, <1>2 DEF ClientRecord, ClientPC, SameRequest
<1> QED
  BY <1>1, <1>2, <1>3, CancelledRowsAreFree DEF TakesRows

-----------------------------------------------------------------------------
(* The shape of a batch and of a request.                                  *)

\* A message of the batch that was not tried yet.
Handled(w) == IF tx[w].pc \in {"count", "advance", "write"} THEN {tx[w].cur} ELSE {}
Waiting(w) == tx[w].left \ Handled(w)

PlaceShape(w) ==
    /\ tx[w].left \subseteq Batch(w)
    /\ tx[w].pc = "idle" => /\ Batch(w) = {} /\ tx[w].new = {}
                            /\ DOMAIN tx[w].moved = {} /\ tx[w].counted = FALSE
    /\ tx[w].pc \in {"send", "count", "advance", "write"} => tx[w].cur \in tx[w].left
    /\ tx[w].pc \in {"send", "count"} => tx[w].count \in Nat /\ tx[w].count < Limit
    /\ tx[w].counted => tx[w].count \in Nat
    /\ tx[w].pc = "write" => tx[w].plan \in 1..(Steps + 1)
RowsShape(w) ==
    /\ tx[w].pc \in {"count", "advance", "write"} => tx[w].rows[tx[w].cur].status = "sent"
    /\ tx[w].out \subseteq Batch(w) \ Waiting(w)
    /\ \A m \in Waiting(w) : tx[w].rows[m].status = "scheduled"
    /\ \A m \in Batch(w) :
          /\ tx[w].rows[m].status # "none"
          /\ tx[w].rows[m].status = "scheduled" => tx[w].rows[m].tries < MaxRetries
MovesMade(w) ==
    /\ \A r \in DOMAIN tx[w].moved : \E m \in Batch(w) \ tx[w].left : to(m) = r
    /\ \A m \in tx[w].new : \/ to(m) \in DOMAIN tx[w].moved
                            \/ tx[w].pc = "write" /\ to(m) = to(tx[w].cur)
BatchShape(w) == PlaceShape(w) /\ RowsShape(w) /\ MovesMade(w)

RequestShape(c) ==
    /\ client[c].pc = "idle" => client[c].op = "none"
    /\ client[c].pc = "write" => client[c].op \in Transitions
    /\ client[c].pc = "schedule" => client[c].op = "start"
    /\ client[c].pc \in {"record", "stop"} => client[c].op \in Events
    /\ client[c].pc \in {"snapshot", "cancel"} => client[c].op \in Events \cup {"remove"}
    /\ client[c].pc = "delete" => client[c].op = "remove"
    /\ client[c].op \in Events => client[c].m \in Messages /\ client[c].r = to(client[c].m)
    /\ client[c].op = "remove" => client[c].r \in Recipients
    /\ client[c].pc \notin {"schedule", "cancel", "delete"} => client[c].rows = {}
    /\ client[c].pc = "schedule" =>
          /\ client[c].todo \subseteq DOMAIN client[c].seen
          /\ \A m \in client[c].rows : /\ m[2] = 1 /\ to(m) \in DOMAIN client[c].seen
                                       /\ to(m) \notin client[c].todo
          /\ \A m, n \in client[c].rows : to(m) = to(n) => m = n

MessageTypes ==
    /\ msg \in [Messages -> MessageData]
    /\ \A m \in Messages : msg[m].status = "scheduled" => msg[m].tries < MaxRetries
DatabaseTypes ==
    /\ campaign \in {"draft", "active", "paused", "cancelled"}
    /\ Orders /\ MessageTypes
    /\ mailbox \in MailboxData
    /\ unsub \subseteq Recipients
HistoryTypes ==
    /\ sent \in [Messages -> Nat] /\ undone \in [Messages -> Nat]
    /\ late \in [Recipients -> Nat] /\ starts \in Nat
BatchTypes == TxTypes /\ \A w \in Workers : BatchShape(w)
RequestTypes == ClientTypes /\ \A c \in Clients : RequestShape(c)
TInv == DatabaseTypes /\ HistoryTypes /\ BatchTypes /\ RequestTypes

-----------------------------------------------------------------------------
(* A batch keeps its shape.                                                *)

\* The row of one message of the batch changes.
Rewrites(w, m, row) ==
    /\ tx'[w].rows \in Partial(Messages, MessageData)
    /\ DOMAIN tx'[w].rows = DOMAIN tx[w].rows
    /\ tx'[w].rows[m] = row
    /\ \A n \in DOMAIN tx[w].rows \ {m} : tx'[w].rows[n] = tx[w].rows[n]

LEMMA OneRowWritten ==
    ASSUME NEW f \in Partial(Messages, MessageData), NEW m \in DOMAIN f,
           NEW row \in MessageData, NEW g, g = [f EXCEPT ![m] = row]
    PROVE  /\ g \in Partial(Messages, MessageData) /\ DOMAIN g = DOMAIN f /\ g[m] = row
           /\ \A n \in DOMAIN f \ {m} : g[n] = f[n]
<1>1. f \in [DOMAIN f -> MessageData] /\ DOMAIN f \in SUBSET Messages
  BY DEF Partial
<1>2. g \in [DOMAIN f -> MessageData]
  BY <1>1
<1> QED
  BY <1>1, <1>2 DEF Partial

LEMMA StatusWritten ==
    ASSUME NEW f \in Partial(Messages, MessageData), NEW m \in DOMAIN f,
           NEW s \in MessageStatus, NEW g, g = [f EXCEPT ![m].status = s]
    PROVE  /\ g \in Partial(Messages, MessageData) /\ DOMAIN g = DOMAIN f
           /\ g[m] \in MessageData /\ g[m].status = s /\ g[m].tries = f[m].tries
           /\ \A n \in DOMAIN f \ {m} : g[n] = f[n]
<1>1. f \in [DOMAIN f -> MessageData] /\ DOMAIN f \in SUBSET Messages
  BY DEF Partial
<1>2. f[m] \in MessageData
  BY <1>1
<1> DEFINE row == [f[m] EXCEPT !.status = s]
<1>3. row \in MessageData /\ row.status = s /\ row.tries = f[m].tries
  BY <1>2 DEF MessageData
<1>4. g = [f EXCEPT ![m] = row]
  OBVIOUS
<1>5. /\ g \in Partial(Messages, MessageData) /\ DOMAIN g = DOMAIN f /\ g[m] = row
      /\ \A n \in DOMAIN f \ {m} : g[n] = f[n]
  <2>1. g \in [DOMAIN f -> MessageData]
    BY <1>1, <1>3, <1>4
  <2>2. DOMAIN g = DOMAIN f
    BY <1>4
  <2>3. g \in Partial(Messages, MessageData)
    BY <1>1, <2>1 DEF Partial
  <2> HIDE DEF row
  <2> QED
    BY <1>1, <1>4, <2>2, <2>3
<1> HIDE DEF row
<1> QED
  BY <1>3, <1>5

LEMMA LeavesRow ==
    ASSUME NEW w \in Workers, TxTypes, BatchShape(w), NEW m, Leaves(w, m)
    PROVE  \E row \in MessageData :
              /\ Rewrites(w, m, row) /\ row.tries = tx[w].rows[m].tries
              /\ row.status \in {"failed", "scheduled", "cancelled"}
<1>1. PICK s \in {"failed", "scheduled", "cancelled"} :
         tx'[w].rows = [tx[w].rows EXCEPT ![m].status = s]
  BY DEF Leaves
<1>2. m \in DOMAIN tx[w].rows /\ tx[w].rows \in Partial(Messages, MessageData)
  BY DEF Leaves, BatchShape, PlaceShape, RowsShape, TxTypes, TxRecord, Batch
<1>3. s \in MessageStatus
  BY DEF MessageStatus
<1> QED
  BY <1>1, <1>2, <1>3, StatusWritten DEF Rewrites

LEMMA SendsRow ==
    ASSUME NEW w \in Workers, TxTypes, BatchShape(w), Sends(w)
    PROVE  \E row \in MessageData :
              /\ Rewrites(w, tx[w].cur, row) /\ row.tries = tx[w].rows[tx[w].cur].tries
              /\ row.status = "sent"
<1>1. tx'[w].rows = [tx[w].rows EXCEPT ![tx[w].cur].status = "sent"]
  BY DEF Sends
<1>2. tx[w].cur \in DOMAIN tx[w].rows /\ tx[w].rows \in Partial(Messages, MessageData)
  BY DEF Sends, BatchShape, PlaceShape, RowsShape, TxTypes, TxRecord, Batch
<1>3. "sent" \in MessageStatus
  BY DEF MessageStatus
<1> QED
  BY <1>1, <1>2, <1>3, StatusWritten DEF Rewrites

\* A message that fails is a retry more, or failed for good.
LEMMA FailsRow ==
    ASSUME NEW w \in Workers, TxTypes, BatchShape(w), Fails(w)
    PROVE  \E row \in MessageData :
              /\ Rewrites(w, tx[w].cur, row)
              /\ \/ row.status = "failed" /\ row.tries = tx[w].rows[tx[w].cur].tries
                 \/ /\ row.status \in {"failed", "scheduled"}
                    /\ row.tries = tx[w].rows[tx[w].cur].tries + 1
                    /\ row.status = "scheduled" => row.tries < MaxRetries
<1> DEFINE m == tx[w].cur
           old == tx[w].rows[m]
<1>1. PICK row \in {HandleFailure(old), [old EXCEPT !.status = "failed"]} :
         tx'[w].rows = [tx[w].rows EXCEPT ![m] = row]
  BY DEF Fails
<1>2. m \in DOMAIN tx[w].rows /\ tx[w].rows \in Partial(Messages, MessageData)
  BY DEF Fails, BatchShape, PlaceShape, RowsShape, TxTypes, TxRecord, Batch
<1>3. old \in MessageData /\ old.tries < MaxRetries
  <2>1. old \in MessageData
    BY <1>2 DEF Partial
  <2>2. m \in Waiting(w)
    BY DEF Fails, BatchShape, PlaceShape, RowsShape, Waiting, Handled
  <2> QED
    BY <1>2, <2>1, <2>2 DEF BatchShape, PlaceShape, RowsShape, Batch
<1> HIDE DEF old
<1>4. /\ row \in MessageData
      /\ \/ row.status = "failed" /\ row.tries = old.tries
         \/ /\ row.status \in {"failed", "scheduled"} /\ row.tries = old.tries + 1
            /\ row.status = "scheduled" => row.tries < MaxRetries
  <2>0. old.tries \in Nat /\ MaxRetries \in Nat /\ old.tries + 1 \in 0..MaxRetries
    BY <1>3, BatchAssumption DEF MessageData
  <2>1. CASE row = [old EXCEPT !.status = "failed"]
    BY <1>3, <2>1 DEF MessageData, MessageStatus
  <2>2. CASE row = HandleFailure(old)
    <3>1. /\ row \in [status : {"failed", "scheduled"}, tries : 0..MaxRetries]
          /\ row.tries = old.tries + 1
          /\ row.status = "scheduled" => ~(old.tries + 1 >= MaxRetries)
      BY <2>0, <2>2 DEF HandleFailure
    <3> QED
      BY <2>0, <3>1 DEF MessageData, MessageStatus
  <2> QED
    BY <1>1, <2>1, <2>2
<1>5. Rewrites(w, m, row)
  BY <1>1, <1>2, <1>4, OneRowWritten DEF Rewrites
<1> HIDE DEF m
<1> QED
  BY <1>4, <1>5 DEF m, old

LEMMA BatchIsTyped ==
    ASSUME NEW w \in Workers, Only(w),
           tx'[w].pc \in TxPC, tx'[w].rows \in Partial(Messages, MessageData),
           tx'[w].left \in SUBSET Messages, tx'[w].cur \in Messages \cup {NoMessage},
           tx'[w].plan \in 0..(Steps + 1), tx'[w].new \in SUBSET Messages,
           tx'[w].moved \in Partial(Recipients, MovedData),
           tx'[w].count \in NotRead..Limit, tx'[w].counted \in BOOLEAN,
           tx'[w].out \in SUBSET Messages
    PROVE  tx'[w] \in TxRecord
  BY DEF TxRecord, Only, IsBatch, TxFields

LEMMA OldBatch ==
    ASSUME NEW w \in Workers, TxTypes
    PROVE  /\ tx[w].pc \in TxPC /\ tx[w].rows \in Partial(Messages, MessageData)
           /\ Batch(w) \in SUBSET Messages
           /\ tx[w].left \in SUBSET Messages /\ tx[w].cur \in Messages \cup {NoMessage}
           /\ tx[w].plan \in 0..(Steps + 1) /\ tx[w].new \in SUBSET Messages
           /\ tx[w].moved \in Partial(Recipients, MovedData)
           /\ tx[w].count \in NotRead..Limit /\ tx[w].counted \in BOOLEAN
           /\ tx[w].out \in SUBSET Messages
  BY DEF TxTypes, TxRecord, Batch, Partial

LEMMA CountReadType ==
    ASSUME NEW w \in Workers, TxTypes, mailbox \in MailboxData
    PROVE  CountRead(w) \in 0..Limit
  BY OldBatch, BoundsAssumption DEF CountRead, MailboxData, NotRead

LEMMA TakesBatchShape ==
    ASSUME NEW w \in Workers, TxTypes, MessageTypes, TakesBatch(w), Only(w)
    PROVE  tx'[w] \in TxRecord /\ BatchShape(w)'
<1>1. tx'[w] \in TxRecord
  <2>1. NotRead \in NotRead..Limit /\ 0 \in 0..(Steps + 1)
    BY BoundsAssumption, StepsAssumption DEF NotRead
  <2>2. tx'[w].left \in SUBSET Messages
    BY DEF TakesBatch
  <2>3. tx'[w].rows \in [tx'[w].left -> MessageData]
    BY <2>2 DEF TakesBatch, MessageTypes
  <2>4. tx'[w].rows \in Partial(Messages, MessageData)
    BY <2>2, <2>3 DEF Partial
  <2>5. tx'[w].moved \in Partial(Recipients, MovedData)
    BY IdleTxType DEF TxRecord, IdleTx, TakesBatch
  <2> QED
    BY <2>1, <2>2, <2>4, <2>5, BatchIsTyped DEF TakesBatch, TxPC
<1>2. BatchShape(w)'
  <2>1. /\ Batch(w)' = tx'[w].left /\ Waiting(w)' = tx'[w].left
        /\ tx'[w].pc = "next" /\ tx'[w].counted = FALSE /\ tx'[w].out = {} /\ tx'[w].new = {}
        /\ DOMAIN tx'[w].moved = {}
    BY DEF TakesBatch, Batch, Waiting, Handled
  <2>2. \A m \in tx'[w].left : /\ tx'[w].rows[m].status = "scheduled"
                               /\ tx'[w].rows[m].tries < MaxRetries
    BY DEF TakesBatch, MessageTypes
  <2> HIDE DEF Batch, Waiting
  <2> QED
    BY <2>1, <2>2 DEF BatchShape, PlaceShape, RowsShape, MovesMade
<1> QED
  BY <1>1, <1>2

LEMMA LeavesShape ==
    ASSUME NEW w \in Workers, TxTypes, BatchShape(w), mailbox \in MailboxData,
           NEW m, Leaves(w, m), Only(w)
    PROVE  tx'[w] \in TxRecord /\ BatchShape(w)'
<1>0. PICK row \in MessageData :
         /\ Rewrites(w, m, row) /\ row.tries = tx[w].rows[m].tries
         /\ row.status \in {"failed", "scheduled", "cancelled"}
  BY LeavesRow
<1>1. tx'[w] \in TxRecord
  BY <1>0, OldBatch, CountReadType, BatchIsTyped, BoundsAssumption
     DEF Leaves, SamePlan, Rewrites, TxPC, NotRead
<1>2. BatchShape(w)'
  <2>1. CountRead(w) \in Nat
    BY CountReadType, BoundsAssumption
  <2>2. m \in Waiting(w) /\ tx[w].rows[m].status = "scheduled" /\ m \in Batch(w)
        /\ tx[w].rows[m].tries < MaxRetries /\ Waiting(w) \subseteq Batch(w)
    BY DEF BatchShape, PlaceShape, RowsShape, Leaves, Waiting, Handled
  <2>3. Waiting(w)' = Waiting(w) \ {m} /\ Batch(w)' = Batch(w)
    BY <1>0 DEF Leaves, Waiting, Handled, Rewrites, Batch
  <2> HIDE DEF Waiting, Batch
  <2>4. /\ tx'[w].pc = "next" /\ tx[w].pc = "next" /\ tx'[w].left = tx[w].left \ {m}
        /\ tx'[w].out = tx[w].out /\ tx'[w].new = tx[w].new /\ tx'[w].moved = tx[w].moved
        /\ tx'[w].count = CountRead(w) /\ m \in tx[w].left
    BY DEF Leaves, SamePlan
  <2>5. /\ tx'[w].rows[m].tries < MaxRetries /\ tx'[w].rows[m].status # "none"
        /\ \A n \in Batch(w) \ {m} : tx'[w].rows[n] = tx[w].rows[n]
    BY <1>0, <2>2 DEF Rewrites, Batch
  <2>6. PlaceShape(w)'
    BY <2>1, <2>2, <2>3, <2>4, <2>5 DEF BatchShape, PlaceShape
  <2>7. RowsShape(w)'
    BY <2>1, <2>2, <2>3, <2>4, <2>5 DEF BatchShape, RowsShape
  <2>8. MovesMade(w)'
    BY <2>1, <2>2, <2>3, <2>4, <2>5 DEF BatchShape, MovesMade
  <2> QED
    BY <2>6, <2>7, <2>8 DEF BatchShape
<1> QED
  BY <1>1, <1>2

LEMMA GoesToSendShape ==
    ASSUME NEW w \in Workers, TxTypes, BatchShape(w), mailbox \in MailboxData,
           NEW m, GoesToSend(w, m), Only(w)
    PROVE  tx'[w] \in TxRecord /\ BatchShape(w)'
<1>1. tx'[w] \in TxRecord
  BY OldBatch, CountReadType, BatchIsTyped, BoundsAssumption
     DEF GoesToSend, SameRows, SameNew, TxPC, NotRead
<1>2. BatchShape(w)'
  <2>1. CountRead(w) \in Nat
    BY CountReadType, BoundsAssumption
  <2>2. Waiting(w)' = Waiting(w) /\ Batch(w)' = Batch(w)
    BY DEF GoesToSend, Waiting, Handled, SameRows, Batch
  <2>6. PlaceShape(w)'
    BY <2>1, <2>2 DEF BatchShape, PlaceShape, GoesToSend, SameRows, SameNew
  <2>7. RowsShape(w)'
    BY <2>1, <2>2 DEF BatchShape, RowsShape, GoesToSend, SameRows, SameNew
  <2>8. MovesMade(w)'
    BY <2>1, <2>2 DEF BatchShape, MovesMade, GoesToSend, SameRows, SameNew
  <2> QED
    BY <2>6, <2>7, <2>8 DEF BatchShape
<1> QED
  BY <1>1, <1>2

LEMMA SendsShape ==
    ASSUME NEW w \in Workers, TxTypes, BatchShape(w), Sends(w), Only(w)
    PROVE  tx'[w] \in TxRecord /\ BatchShape(w)'
<1>0. PICK row \in MessageData :
         Rewrites(w, tx[w].cur, row) /\ row.status = "sent"
  BY SendsRow
<1> DEFINE m == tx[w].cur
<1>1. tx'[w] \in TxRecord
  <2>1. m \in Messages
    BY OldBatch DEF BatchShape, PlaceShape, RowsShape, Sends
  <2> QED
    BY <1>0, <2>1, OldBatch, BatchIsTyped DEF Sends, SamePlan, SameCount, Rewrites, TxPC
<1>2. BatchShape(w)'
  <2>2. m \in Waiting(w) /\ m \in Batch(w) /\ Waiting(w) \subseteq Batch(w)
    BY DEF BatchShape, PlaceShape, RowsShape, Sends, Waiting, Handled
  <2>3. Waiting(w)' = Waiting(w) \ {m} /\ Batch(w)' = Batch(w)
    BY <1>0 DEF Sends, Waiting, Handled, Rewrites, Batch, SamePlan
  <2>4. /\ tx'[w].pc = "count" /\ tx[w].pc = "send" /\ tx'[w].left = tx[w].left
        /\ tx'[w].out = tx[w].out \cup {m} /\ tx'[w].new = tx[w].new
        /\ tx'[w].moved = tx[w].moved /\ tx'[w].count = tx[w].count /\ tx'[w].cur = m
        /\ tx'[w].counted = tx[w].counted /\ m \in tx[w].left
    BY DEF Sends, SamePlan, SameCount, BatchShape, PlaceShape, RowsShape
  <2>5. /\ tx'[w].rows[m].status = "sent"
        /\ \A n \in Batch(w) \ {m} : tx'[w].rows[n] = tx[w].rows[n]
    BY <1>0 DEF Rewrites, Batch
  <2> HIDE DEF Waiting, Batch, m
  <2>6. PlaceShape(w)'
    BY <2>2, <2>3, <2>4, <2>5 DEF BatchShape, PlaceShape
  <2>7. RowsShape(w)'
    BY <2>2, <2>3, <2>4, <2>5 DEF BatchShape, RowsShape
  <2>8. MovesMade(w)'
    BY <2>2, <2>3, <2>4, <2>5 DEF BatchShape, MovesMade
  <2> QED
    BY <2>6, <2>7, <2>8 DEF BatchShape
<1> QED
  BY <1>1, <1>2

LEMMA FailsShape ==
    ASSUME NEW w \in Workers, TxTypes, BatchShape(w), Fails(w), Only(w),
           \/ tx'[w].out = tx[w].out \cup {tx[w].cur}
           \/ tx'[w].out = tx[w].out
    PROVE  tx'[w] \in TxRecord /\ BatchShape(w)'
<1>0. PICK row \in MessageData :
         /\ Rewrites(w, tx[w].cur, row) /\ row.status # "none"
         /\ row.status = "scheduled" => row.tries < MaxRetries
  BY FailsRow
<1> DEFINE m == tx[w].cur
<1>1. tx'[w] \in TxRecord
  <2>1. m \in Messages
    BY OldBatch DEF BatchShape, PlaceShape, RowsShape, Fails
  <2> QED
    BY <1>0, <2>1, OldBatch, BatchIsTyped DEF Fails, SamePlan, SameCount, Rewrites, TxPC
<1>2. BatchShape(w)'
  <2>2. m \in Waiting(w) /\ m \in Batch(w) /\ Waiting(w) \subseteq Batch(w)
    BY DEF BatchShape, PlaceShape, RowsShape, Fails, Waiting, Handled
  <2>3. Waiting(w)' = Waiting(w) \ {m} /\ Batch(w)' = Batch(w)
    BY <1>0 DEF Fails, Waiting, Handled, Rewrites, Batch, SamePlan
  <2>4. /\ tx'[w].pc = "next" /\ tx[w].pc = "send" /\ tx'[w].left = tx[w].left \ {m}
        /\ tx'[w].out \subseteq tx[w].out \cup {m} /\ tx'[w].new = tx[w].new
        /\ tx'[w].moved = tx[w].moved /\ tx'[w].count = tx[w].count
        /\ tx'[w].counted = tx[w].counted /\ m \in tx[w].left
    BY DEF Fails, SamePlan, SameCount, BatchShape, PlaceShape, RowsShape
  <2>5. /\ tx'[w].rows[m].status # "none"
        /\ tx'[w].rows[m].status = "scheduled" => tx'[w].rows[m].tries < MaxRetries
        /\ \A n \in Batch(w) \ {m} : tx'[w].rows[n] = tx[w].rows[n]
    BY <1>0 DEF Rewrites, Batch
  <2> HIDE DEF Waiting, Batch, m
  <2>6. PlaceShape(w)'
    BY <2>2, <2>3, <2>4, <2>5 DEF BatchShape, PlaceShape
  <2>7. RowsShape(w)'
    BY <2>2, <2>3, <2>4, <2>5 DEF BatchShape, RowsShape
  <2>8. MovesMade(w)'
    BY <2>2, <2>3, <2>4, <2>5 DEF BatchShape, MovesMade
  <2> QED
    BY <2>6, <2>7, <2>8 DEF BatchShape
<1> QED
  BY <1>1, <1>2

LEMMA CountsShape ==
    ASSUME NEW w \in Workers, TxTypes, BatchShape(w), Counts(w), Only(w)
    PROVE  tx'[w] \in TxRecord /\ BatchShape(w)'
<1>0. tx[w].count \in Nat /\ tx[w].count < Limit /\ Limit \in Nat
  BY BoundsAssumption DEF Counts, BatchShape, PlaceShape, RowsShape
<1>1. tx'[w] \in TxRecord
  <2>1. tx'[w].count \in NotRead..Limit /\ tx'[w].counted \in BOOLEAN
    <3>1. CASE SameCount(w)
      BY <3>1, OldBatch DEF SameCount
    <3>2. CASE tx'[w].count = tx[w].count + 1 /\ tx'[w].counted = TRUE
      <4>1. tx[w].count + 1 \in NotRead..Limit
        BY <1>0 DEF NotRead
      <4> QED
        BY <3>2, <4>1
    <3> QED
      BY <3>1, <3>2 DEF Counts
  <2> QED
    BY <2>1, OldBatch, BatchIsTyped DEF Counts, SameRows, SamePlan, TxPC
<1>2. BatchShape(w)'
  <2>1. Waiting(w)' = Waiting(w) /\ Batch(w)' = Batch(w)
    BY DEF Counts, Waiting, Handled, SameRows, SamePlan, Batch
  <2>6. PlaceShape(w)'
    BY <1>0, <2>1 DEF BatchShape, PlaceShape, Counts, SameRows, SamePlan, SameCount
  <2>7. RowsShape(w)'
    BY <1>0, <2>1 DEF BatchShape, RowsShape, Counts, SameRows, SamePlan, SameCount
  <2>8. MovesMade(w)'
    BY <1>0, <2>1 DEF BatchShape, MovesMade, Counts, SameRows, SamePlan, SameCount
  <2> QED
    BY <2>6, <2>7, <2>8 DEF BatchShape
<1> QED
  BY <1>1, <1>2

LEMMA OrderSeenType ==
    ASSUME NEW w \in Workers, TxTypes, Orders, NEW r \in Recipients
    PROVE  OrderSeen(w, r) \in 0..Steps
<1>1. tx[w].moved \in [DOMAIN tx[w].moved -> MovedData]
  BY OldBatch DEF Partial
<1> QED
  BY <1>1 DEF OrderSeen, MovedData, Orders, RecipientData

LEMMA NewRowType ==
    ASSUME NEW r \in Recipients, NEW n \in 1..Steps, NEW m \in NewRow(r, n)
    PROVE  m \in Messages /\ to(m) = r /\ m[2] = n /\ ~Taken(m)
<1>1. PICK k \in 1..Copies : m = <<r, n, k>> /\ ~Taken(<<r, n, k>>)
  BY DEF NewRow
<1>2. m \in Messages /\ m[1] = r /\ m[2] = n
  BY <1>1 DEF Messages
<1> QED
  BY <1>1, <1>2 DEF to

LEMMA PlansShape ==
    ASSUME NEW w \in Workers, TxTypes, Orders, BatchShape(w), Plans(w), Only(w)
    PROVE  tx'[w] \in TxRecord /\ BatchShape(w)'
<1> DEFINE r == to(tx[w].cur)
           n == tx'[w].plan
<1>0. r \in Recipients /\ tx[w].cur \in tx[w].left
  BY OldBatch DEF Plans, BatchShape, PlaceShape, RowsShape, to, Messages
<1>1. n \in 1..(Steps + 1)
  BY <1>0, OrderSeenType, StepsAssumption DEF Plans
<1>2. \/ tx'[w].new = tx[w].new
      \/ \E m \in Messages : to(m) = r /\ tx'[w].new = tx[w].new \cup {m}
  <2>1. EmailSteps \subseteq 1..Steps
    BY StepsAssumption
  <2> QED
    BY <1>0, <2>1, NewRowType DEF Plans
<1>3. tx'[w] \in TxRecord
  BY <1>1, <1>2, OldBatch, BatchIsTyped DEF Plans, SameRows, SameCount, TxPC
<1>4. BatchShape(w)'
  <2>1. Waiting(w)' = Waiting(w) /\ Batch(w)' = Batch(w)
    BY DEF Plans, Waiting, Handled, SameRows, SamePlan, Batch
  <2> HIDE DEF Waiting, Batch
  <2>6. PlaceShape(w)'
    BY <1>0, <1>1, <1>2, <2>1 DEF BatchShape, PlaceShape, Plans, SameRows, SameCount
  <2>7. RowsShape(w)'
    BY <1>0, <1>1, <1>2, <2>1 DEF BatchShape, RowsShape, Plans, SameRows, SameCount
  <2>8. MovesMade(w)'
    BY <1>0, <1>1, <1>2, <2>1 DEF BatchShape, MovesMade, Plans, SameRows, SameCount
  <2> QED
    BY <2>6, <2>7, <2>8 DEF BatchShape
<1> QED
  BY <1>3, <1>4

LEMMA PassesOnShape ==
    ASSUME NEW w \in Workers, TxTypes, BatchShape(w), PassesOn(w), Only(w)
    PROVE  tx'[w] \in TxRecord /\ BatchShape(w)'
<1>1. tx'[w] \in TxRecord
  BY OldBatch, BatchIsTyped DEF PassesOn, SamePlan, SameCount, TxPC
<1>2. BatchShape(w)'
  <2>1. Waiting(w)' = Waiting(w) /\ Batch(w)' = Batch(w)
    BY DEF PassesOn, Waiting, Handled, SamePlan, Batch
  <2> HIDE DEF Waiting, Batch
  <2>6. PlaceShape(w)'
    BY <2>1 DEF BatchShape, PlaceShape, PassesOn, SamePlan, SameCount
  <2>7. RowsShape(w)'
    BY <2>1 DEF BatchShape, RowsShape, PassesOn, SamePlan, SameCount
  <2>8. MovesMade(w)'
    BY <2>1 DEF BatchShape, MovesMade, PassesOn, SamePlan, SameCount
  <2> QED
    BY <2>6, <2>7, <2>8 DEF BatchShape
<1> QED
  BY <1>1, <1>2

LEMMA WrittenType ==
    ASSUME NEW w \in Workers, TxTypes, Orders, BatchShape(w), tx[w].pc = "write",
           NEW r \in Recipients
    PROVE  /\ Written(w, r) \in MovedData
           /\ Written(w, r).order = IF tx[w].plan > Steps THEN OrderSeen(w, r)
                                    ELSE tx[w].plan
<1> DEFINE known == IF r \in DOMAIN tx[w].moved THEN tx[w].moved[r]
                    ELSE [order |-> rcpt[r].order, completed |-> FALSE]
<1>1. tx[w].plan \in 1..(Steps + 1) /\ Steps \in Nat
  BY StepsAssumption DEF BatchShape, PlaceShape, RowsShape
<1>2. known \in MovedData /\ known.order = OrderSeen(w, r)
  <2>1. tx[w].moved \in [DOMAIN tx[w].moved -> MovedData]
    BY OldBatch DEF Partial
  <2>2. CASE r \in DOMAIN tx[w].moved
    BY <2>1, <2>2 DEF OrderSeen
  <2>3. CASE r \notin DOMAIN tx[w].moved
    BY <2>3 DEF OrderSeen, MovedData, Orders, RecipientData
  <2> QED
    BY <2>2, <2>3
<1>3. Written(w, r) = IF tx[w].plan > Steps THEN [known EXCEPT !.completed = TRUE]
                      ELSE [known EXCEPT !.order = tx[w].plan]
  BY DEF Written
<1> HIDE DEF known
<1>4. CASE tx[w].plan > Steps
  <2>1. Written(w, r) = [known EXCEPT !.completed = TRUE]
    BY <1>3, <1>4
  <2> QED
    BY <1>2, <1>4, <2>1 DEF MovedData
<1>5. CASE ~(tx[w].plan > Steps)
  <2>1. Written(w, r) = [known EXCEPT !.order = tx[w].plan] /\ tx[w].plan \in 0..Steps
    BY <1>1, <1>3, <1>5
  <2> QED
    BY <1>2, <1>5, <2>1 DEF MovedData
<1> QED
  BY <1>4, <1>5

LEMMA MovesShape ==
    ASSUME NEW w \in Workers, TxTypes, Orders, BatchShape(w), Moves(w), Only(w)
    PROVE  tx'[w] \in TxRecord /\ BatchShape(w)'
<1> DEFINE r == to(tx[w].cur)
<1>0. r \in Recipients /\ tx[w].cur \in tx[w].left /\ tx[w].pc = "write"
  BY OldBatch DEF Moves, BatchShape, PlaceShape, RowsShape, to, Messages
<1>1. tx'[w].moved \in Partial(Recipients, MovedData)
  <2>1. tx[w].moved \in [DOMAIN tx[w].moved -> MovedData]
        /\ DOMAIN tx[w].moved \in SUBSET Recipients
    BY OldBatch DEF Partial
  <2>2. DOMAIN tx'[w].moved \in SUBSET Recipients
    BY <1>0, <2>1 DEF Moves
  <2>3. \A x \in DOMAIN tx'[w].moved : tx'[w].moved[x] \in MovedData
    BY <1>0, <2>1, WrittenType DEF Moves
  <2>4. tx'[w].moved \in [DOMAIN tx'[w].moved -> MovedData]
    BY <2>3 DEF Moves
  <2> QED
    BY <2>2, <2>4, PartialFunction
<1>3. tx'[w] \in TxRecord
  BY <1>1, OldBatch, BatchIsTyped DEF Moves, SameCount, TxPC
<1>4. BatchShape(w)'
  <2>1. Waiting(w)' = Waiting(w) /\ Batch(w)' = Batch(w)
    BY DEF Moves, Waiting, Handled, Batch
  <2> HIDE DEF Waiting, Batch
  <2>6. PlaceShape(w)'
    BY <1>0, <2>1 DEF BatchShape, PlaceShape, Moves, SameCount
  <2>7. RowsShape(w)'
    BY <1>0, <2>1 DEF BatchShape, RowsShape, Moves, SameCount
  <2>8. MovesMade(w)'
    BY <1>0, <2>1 DEF BatchShape, PlaceShape, MovesMade, Moves, SameCount
  <2> QED
    BY <2>6, <2>7, <2>8 DEF BatchShape
<1> QED
  BY <1>3, <1>4

-----------------------------------------------------------------------------
(* The steps of the system, by what they change.                           *)

\* A worker's batch changes, and the database does not.
Quietly(w) ==
    \/ TakesBatch(w) \/ (\E m : Leaves(w, m)) \/ (\E m : GoesToSend(w, m))
    \/ Counts(w) \/ Plans(w) \/ PassesOn(w) \/ Moves(w)
BatchStep(w) ==
    /\ Only(w) /\ DatabaseKept /\ client' = client /\ UNCHANGED <<undone, starts>>
    /\ \/ Quietly(w) /\ UNCHANGED <<sent, late>>
       \/ Sends(w) /\ HandOver(tx[w].cur)
       \/ /\ Fails(w)
          /\ \/ tx'[w].out = tx[w].out \cup {tx[w].cur} /\ HandOver(tx[w].cur)
             \/ tx'[w].out = tx[w].out /\ UNCHANGED <<sent, late>>

\* A request moves on, or ends without a change of a recipient or a message.
RequestStep(c) ==
    /\ OnlyRequest(c) /\ client'[c] \in ClientRecord
    /\ UNCHANGED <<rcpt, msg, mailbox, unsub, tx>> /\ HistoryKept
    /\ campaign' \in {"draft", "active", "paused", "cancelled"}
    /\ \/ Begins(c) \/ Lists(c) \/ SchedulesOne(c) \/ Records(c) \/ Locks(c)
       \/ Snapshots(c) \/ TakesRows(c) \/ Ends(c)

EventEnds(c, cancelled, stopped) ==
    /\ CommitEvent(c, cancelled, stopped) /\ client[c].op \in Events
    /\ \/ /\ client[c].pc = "stop" /\ cancelled = {} /\ stopped = {}
          /\ rcpt[client[c].r].deleted \/ client[c].op # "unsubscribed"
       \/ /\ client[c].pc = "cancel"
          /\ cancelled = {m \in client[c].rows : msg[m].status = "scheduled"}
          /\ \A m \in client[c].rows : NoOther(c, MessageRow(m))
          /\ stopped = {client[c].r}

LEMMA NewRowsAreMessages ==
    ASSUME NEW c \in Clients, RequestTypes, SchedulesOne(c)
    PROVE  client'[c].rows \subseteq Messages
<1>1. 1 \in 1..Steps
  BY StepsAssumption
<1>2. client[c].rows \subseteq Messages /\ client[c].todo \subseteq Recipients
  BY DEF RequestTypes, ClientTypes, ClientRecord
<1> QED
  BY <1>1, <1>2, NewRowType DEF SchedulesOne

LEMMA WorkerCases ==
    ASSUME NEW w \in Workers, TInv, ProcessSendQueue(w), ~Commit(w)
    PROVE  BatchStep(w)
<1>0. TxTypes /\ mailbox \in MailboxData
  BY DEF TInv, BatchTypes, DatabaseTypes
<1> DEFINE Rest == DatabaseKept /\ client' = client /\ UNCHANGED <<undone, starts>>
<1>1. CASE GetScheduledMessages(w)
  <2>1. TakesBatch(w) /\ Only(w)
    BY <1>0, <1>1, TakesBatchEffect
  <2>2. Rest /\ UNCHANGED <<sent, late>>
    BY <1>1 DEF GetScheduledMessages, SendFrame, database, DatabaseKept
  <2> QED
    BY <2>1, <2>2 DEF BatchStep, Quietly
<1>2. CASE CheckMessage(w)
  <2>1. (\E m \in tx[w].left : Leaves(w, m) \/ GoesToSend(w, m)) /\ Only(w)
    BY <1>0, <1>2, CheckMessageEffect
  <2>2. Rest /\ UNCHANGED <<sent, late>>
    BY <1>2 DEF CheckMessage, SendFrame, database, DatabaseKept
  <2> QED
    BY <2>1, <2>2 DEF BatchStep, Quietly
<1>3. CASE SendSucceeds(w)
  <2>1. Sends(w) /\ Only(w)
    BY <1>0, <1>3, SendSucceedsEffect
  <2>2. Rest /\ HandOver(tx[w].cur)
    BY <1>3 DEF SendSucceeds, SendFrame, database, DatabaseKept
  <2> QED
    BY <2>1, <2>2 DEF BatchStep
<1>4. CASE SendFails(w)
  <2>1. /\ Fails(w) /\ Only(w)
        /\ \/ tx'[w].out = tx[w].out \cup {tx[w].cur} /\ HandOver(tx[w].cur)
           \/ tx'[w].out = tx[w].out /\ UNCHANGED <<sent, late>>
    BY <1>0, <1>4, SendFailsEffect
  <2>2. Rest
    BY <1>4 DEF SendFails, SendFrame, database, DatabaseKept
  <2> QED
    BY <2>1, <2>2 DEF BatchStep
<1>5. CASE IncrementSendCount(w)
  <2>1. Counts(w) /\ Only(w)
    BY <1>0, <1>5, IncrementSendCountEffect
  <2>2. Rest /\ UNCHANGED <<sent, late>>
    BY <1>5 DEF IncrementSendCount, SendFrame, database, DatabaseKept
  <2> QED
    BY <2>1, <2>2 DEF BatchStep, Quietly
<1>6. CASE AdvanceRecipient(w)
  <2>1. (Plans(w) \/ PassesOn(w)) /\ Only(w)
    BY <1>0, <1>6, AdvanceRecipientEffect
  <2>2. Rest /\ UNCHANGED <<sent, late>>
    BY <1>6 DEF AdvanceRecipient, SendFrame, database, DatabaseKept
  <2> QED
    BY <2>1, <2>2 DEF BatchStep, Quietly
<1>7. CASE WriteRecipient(w)
  <2>1. Moves(w) /\ Only(w)
    BY <1>0, <1>7, WriteRecipientEffect
  <2>2. Rest /\ UNCHANGED <<sent, late>>
    BY <1>7 DEF WriteRecipient, SendFrame, database, DatabaseKept
  <2> QED
    BY <2>1, <2>2 DEF BatchStep, Quietly
<1> QED
  BY <1>1, <1>2, <1>3, <1>4, <1>5, <1>6, <1>7 DEF ProcessSendQueue

LEMMA EndsIsStep ==
    ASSUME NEW c \in Clients, ClientTypes, End(c),
           UNCHANGED <<rcpt, msg, mailbox, unsub, tx>>, HistoryKept,
           campaign' \in {"draft", "active", "paused", "cancelled"}
    PROVE  RequestStep(c)
<1>1. Ends(c) /\ OnlyRequest(c)
  BY EndParts
<1> QED
  BY <1>1, IdleClientType DEF RequestStep, Ends

LEMMA RequestCases ==
    ASSUME NEW c \in Clients, TInv, Request(c) \/ Proceed(c)
    PROVE  \/ RequestStep(c) \/ CommitStart(c) \/ DeleteRecipient(c)
           \/ \E cancelled, stopped : EventEnds(c, cancelled, stopped)
<1>0. /\ ClientTypes /\ Orders /\ RequestShape(c) /\ RequestTypes
      /\ campaign \in {"draft", "active", "paused", "cancelled"}
  BY DEF TInv, RequestTypes, DatabaseTypes
<1> DEFINE Kept == DatabaseKept /\ HistoryKept /\ tx' = tx
<1>k. ASSUME Kept, OnlyRequest(c), client'[c] \in ClientRecord,
             \/ Begins(c) \/ Lists(c) \/ SchedulesOne(c) \/ Records(c) \/ Locks(c)
             \/ Snapshots(c) \/ TakesRows(c)
      PROVE  RequestStep(c)
  BY <1>0, <1>k DEF RequestStep, DatabaseKept
<1>1. CASE Request(c)
  BY <1>0, <1>1, <1>k, RequestEffect
<1>2. CASE WriteCampaign(c)
  <2>1. CASE client[c].op = "start"
    BY <1>0, <1>2, <1>k, <2>1, ListsEffect
  <2>2. CASE client[c].op # "start"
    <3>1. /\ End(c) /\ campaign' = Target(client[c].op)
          /\ UNCHANGED <<rcpt, msg, mailbox, unsub, tx>> /\ HistoryKept
      BY <1>2, <2>2 DEF WriteCampaign, HistoryKept, history
    <3>2. client[c].op \in Transitions
      BY <1>0, <1>2 DEF RequestShape, WriteCampaign, At
    <3>3. Target(client[c].op) \in {"draft", "active", "paused", "cancelled"}
      BY <3>2 DEF Target, Transitions
    <3> QED
      BY <1>0, <3>1, <3>3, EndsIsStep
  <2> QED
    BY <2>1, <2>2
<1>3. CASE ScheduleFirst(c)
  <2>1. /\ SchedulesOne(c) /\ OnlyRequest(c) /\ Kept
        /\ client'[c].rows \subseteq Messages => client'[c] \in ClientRecord
    BY <1>0, <1>3, ScheduleFirstEffect
  <2> QED
    BY <1>0, <1>k, <2>1, NewRowsAreMessages
<1>4. CASE RecordEvent(c)
  BY <1>0, <1>4, <1>k, RecordEventEffect
<1>5. CASE StopRecipient(c)
  <2>1. CASE CommitEvent(c, {}, {})
    <3>1. \/ ~CommitEvent(c, {}, {})
          \/ rcpt[client[c].r].deleted \/ client[c].op # "unsubscribed"
          \/ StepTo(c, [client[c] EXCEPT !.pc = "snapshot"])
      BY <1>5 DEF StopRecipient
    <3>2. CASE StepTo(c, [client[c] EXCEPT !.pc = "snapshot"])
      <4>1. client'[c].pc = "snapshot"
        BY <1>0, <3>2, StepToParts DEF ClientRecord
      <4>2. client'[c].pc = "idle"
        BY <1>0, <2>1, EndParts DEF CommitEvent, Ends, IdleClient
      <4> QED
        BY <4>1, <4>2
    <3>3. client[c].op \in Events /\ client[c].pc = "stop"
      BY <1>0, <1>5 DEF RequestShape, StopRecipient, At
    <3> QED
      BY <2>1, <3>1, <3>2, <3>3 DEF EventEnds
  <2>2. CASE ~CommitEvent(c, {}, {})
    BY <1>0, <1>5, <1>k, <2>2, StopRecipientEffect
  <2> QED
    BY <2>1, <2>2
<1>6. CASE BeginCancel(c)
  BY <1>0, <1>6, <1>k, BeginCancelEffect
<1>7. CASE Cancel(c)
  <2>1. CASE client[c].op = "remove"
    BY <1>0, <1>7, <1>k, <2>1, RemoveTakesRowsEffect
  <2>2. CASE client[c].op # "remove"
    <3> DEFINE still == {m \in client[c].rows : msg[m].status = "scheduled"}
    <3>1. CommitEvent(c, still, {client[c].r}) /\ client[c].pc = "cancel"
      BY <1>7, <2>2 DEF Cancel, At
    <3>2. client[c].op \in Events
      BY <1>0, <2>2, <3>1 DEF RequestShape
    <3>3. \A m \in client[c].rows : NoOther(c, MessageRow(m))
      BY <1>7, CancelledRowsAreFree
    <3> QED
      BY <3>1, <3>2, <3>3 DEF EventEnds
  <2> QED
    BY <2>1, <2>2
<1> QED
  BY <1>1, <1>2, <1>3, <1>4, <1>5, <1>6, <1>7 DEF Proceed

LEMMA Cases ==
    ASSUME TInv, [Next]_vars
    PROVE  \/ \E w \in Workers : BatchStep(w) \/ Commit(w) \/ RollBack(w)
           \/ \E c \in Clients : \/ RequestStep(c) \/ CommitStart(c) \/ DeleteRecipient(c)
                                 \/ \E cancelled, stopped : EventEnds(c, cancelled, stopped)
           \/ Disconnect
           \/ UNCHANGED <<database, tx, client, history>>
<1>1. CASE \E w \in Workers : ProcessSendQueue(w) \/ Crash(w)
  BY <1>1, WorkerCases DEF Crash
<1>2. CASE \E c \in Clients : Request(c) \/ Proceed(c)
  BY <1>2, RequestCases
<1>3. CASE Deadlock
  <2>1. ASSUME NEW c \in Clients, StepTo(c, IdleClient)
        PROVE  RequestStep(c)
    <3>1. ClientTypes /\ campaign \in {"draft", "active", "paused", "cancelled"}
      BY DEF TInv, RequestTypes, DatabaseTypes
    <3>2. /\ UNCHANGED <<rcpt, msg, mailbox, unsub, tx>> /\ HistoryKept /\ End(c)
          /\ campaign' = campaign
      BY <2>1 DEF StepTo, End, database, HistoryKept, history
    <3> QED
      BY <3>1, <3>2, EndsIsStep
  <2>2. \/ \E w \in Workers : RollBack(w)
        \/ \E c \in Clients : StepTo(c, IdleClient)
    BY <1>3 DEF Deadlock
  <2> QED
    BY <2>1, <2>2
<1>4. CASE Quiet \/ UNCHANGED vars
  BY <1>4 DEF Quiet, vars
<1> QED
  BY <1>1, <1>2, <1>3, <1>4 DEF Next

-----------------------------------------------------------------------------
(* Types.                                                                  *)

LEMMA BatchStepShape ==
    ASSUME NEW w \in Workers, TInv, BatchStep(w)
    PROVE  tx'[w] \in TxRecord /\ BatchShape(w)'
<1>0. /\ TxTypes /\ BatchShape(w) /\ Orders /\ MessageTypes /\ mailbox \in MailboxData
      /\ Only(w)
  BY DEF TInv, BatchTypes, DatabaseTypes, BatchStep
<1>1. CASE Quietly(w)
  BY <1>0, <1>1, TakesBatchShape, LeavesShape, GoesToSendShape, CountsShape, PlansShape,
     PassesOnShape, MovesShape DEF Quietly
<1>2. CASE Sends(w)
  BY <1>0, <1>2, SendsShape
<1>3. CASE /\ Fails(w)
           /\ \/ tx'[w].out = tx[w].out \cup {tx[w].cur}
              \/ tx'[w].out = tx[w].out
  BY <1>0, <1>3, FailsShape
<1> QED
  BY <1>1, <1>2, <1>3 DEF BatchStep

LEMMA SameBatch ==
    ASSUME NEW v, tx'[v] = tx[v], BatchShape(v)
    PROVE  BatchShape(v)'
  BY DEF BatchShape, PlaceShape, RowsShape, MovesMade, Batch, Waiting, Handled

LEMMA IdleBatchShape ==
    ASSUME NEW w, tx'[w] = IdleTx
    PROVE  BatchShape(w)'
  BY DEF BatchShape, PlaceShape, RowsShape, MovesMade, Batch, Waiting, Handled, IdleTx

LEMMA BatchTypesNext ==
    ASSUME BatchTypes, NEW w \in Workers, tx' = [v \in Workers |-> tx'[v]],
           \A v \in Workers : v # w => tx'[v] = tx[v],
           tx'[w] \in TxRecord, BatchShape(w)'
    PROVE  BatchTypes'
<1>1. \A v \in Workers : tx'[v] \in TxRecord
  BY DEF BatchTypes, TxTypes
<1>2. TxTypes'
  BY <1>1 DEF TxTypes
<1>3. \A v \in Workers : BatchShape(v)'
  BY SameBatch DEF BatchTypes
<1> QED
  BY <1>2, <1>3 DEF BatchTypes

\* A batch ends: what it leaves is in the database.
BatchEnds(w) == tx'[w] = IdleTx /\ \A v \in Workers : v # w => tx'[v] = tx[v]

LEMMA BatchEndsTypes ==
    ASSUME NEW w \in Workers, BatchTypes, tx' = [tx EXCEPT ![w] = IdleTx]
    PROVE  BatchEnds(w) /\ BatchTypes'
<1>1. BatchEnds(w) /\ tx' = [v \in Workers |-> tx'[v]]
  BY DEF BatchTypes, TxTypes, BatchEnds
<1> QED
  BY <1>1, IdleTxType, IdleBatchShape, BatchTypesNext DEF BatchEnds

LEMMA SameRequestShape ==
    ASSUME NEW d, client'[d] = client[d], RequestShape(d)
    PROVE  RequestShape(d)'
  BY DEF RequestShape

LEMMA IdleRequestShape ==
    ASSUME NEW c, client'[c] = IdleClient
    PROVE  RequestShape(c)'
  BY DEF RequestShape, IdleClient, Events

LEMMA RequestStepShape ==
    ASSUME NEW c \in Clients, RequestTypes, RequestStep(c)
    PROVE  RequestShape(c)'
<1>0. RequestShape(c) /\ client[c] \in ClientRecord /\ client'[c] \in ClientRecord
  BY DEF RequestTypes, ClientTypes, RequestStep
<1>1. CASE Begins(c)
  BY <1>1 DEF Begins, RequestShape, Transitions, Events
<1>2. CASE Lists(c)
  BY <1>0, <1>2 DEF Lists, RequestShape, SameRequest, Events
<1>3. CASE SchedulesOne(c)
  <2>1. PICK r \in client[c].todo :
           /\ client'[c].todo = client[c].todo \ {r}
           /\ \/ client'[c].rows = client[c].rows
              \/ \E m \in NewRow(r, 1) : client'[c].rows = client[c].rows \cup {m}
    BY <1>3 DEF SchedulesOne
  <2>2. /\ client'[c].pc = "schedule" /\ client[c].pc = "schedule" /\ SameRequest(c)
        /\ client'[c].seen = client[c].seen
    BY <1>3 DEF SchedulesOne, SameList
  <2>3. \A m \in NewRow(r, 1) : to(m) = r /\ m[2] = 1
    <3>1. r \in Recipients /\ 1 \in 1..Steps
      BY <1>0, <2>1, StepsAssumption DEF ClientRecord
    <3> QED
      BY <3>1, NewRowType
  <2> QED
    BY <1>0, <2>1, <2>2, <2>3 DEF RequestShape, SameRequest, Events
<1>4. CASE Records(c)
  BY <1>0, <1>4 DEF Records, RequestShape, SameRequest, Events
<1>5. CASE Locks(c)
  BY <1>0, <1>5 DEF Locks, RequestShape, SameRequest, Events
<1>6. CASE Snapshots(c)
  BY <1>0, <1>6 DEF Snapshots, RequestShape, SameRequest, Events
<1>7. CASE TakesRows(c)
  BY <1>0, <1>7 DEF TakesRows, RequestShape, SameRequest, Events
<1>8. CASE Ends(c)
  BY <1>8, IdleRequestShape DEF Ends
<1> QED
  BY <1>1, <1>2, <1>3, <1>4, <1>5, <1>6, <1>7, <1>8 DEF RequestStep

LEMMA RequestTypesNext ==
    ASSUME RequestTypes, NEW c \in Clients, OnlyRequest(c),
           client'[c] \in ClientRecord, RequestShape(c)'
    PROVE  RequestTypes'
<1>1. \A d \in Clients : client'[d] \in ClientRecord
  BY DEF RequestTypes, ClientTypes, OnlyRequest
<1>2. ClientTypes'
  BY <1>1 DEF ClientTypes, OnlyRequest
<1>3. \A d \in Clients : RequestShape(d)'
  BY SameRequestShape DEF RequestTypes, OnlyRequest
<1> QED
  BY <1>2, <1>3 DEF RequestTypes

LEMMA EndTypes ==
    ASSUME RequestTypes, NEW c \in Clients, End(c)
    PROVE  RequestTypes' /\ Ends(c) /\ OnlyRequest(c)
<1>1. Ends(c) /\ OnlyRequest(c)
  BY EndParts DEF RequestTypes
<1> QED
  BY <1>1, IdleClientType, IdleRequestShape, RequestTypesNext DEF Ends

\* What a commit writes, row by row.
LEMMA CommitEffect ==
    ASSUME NEW w \in Workers, TInv, Commit(w)
    PROVE  /\ tx[w].pc = "next" /\ tx[w].left = {}
           /\ \A m \in Messages :
                 msg'[m] = IF m \in Batch(w) THEN tx[w].rows[m]
                           ELSE IF m \in tx[w].new THEN [status |-> "scheduled", tries |-> 0]
                           ELSE msg[m]
           /\ \A r \in Recipients :
                 /\ rcpt'[r].deleted = rcpt[r].deleted
                 /\ r \in DOMAIN tx[w].moved =>
                       /\ rcpt'[r].order = tx[w].moved[r].order
                       /\ rcpt'[r].status \in {"completed", rcpt[r].status}
                 /\ r \notin DOMAIN tx[w].moved => rcpt'[r] = rcpt[r]
           /\ BatchEnds(w) /\ UNCHANGED <<campaign, unsub, client>> /\ HistoryKept
<1>1. BatchTypes /\ tx' = [tx EXCEPT ![w] = IdleTx]
  BY DEF TInv, Commit
<1>2. BatchEnds(w)
  BY <1>1, BatchEndsTypes
<1>3. ASSUME NEW r \in Recipients
      PROVE  /\ rcpt'[r].deleted = rcpt[r].deleted
             /\ r \in DOMAIN tx[w].moved =>
                   /\ rcpt'[r].order = tx[w].moved[r].order
                   /\ rcpt'[r].status \in {"completed", rcpt[r].status}
             /\ r \notin DOMAIN tx[w].moved => rcpt'[r] = rcpt[r]
  <2>1. rcpt[r] \in RecipientData
    BY DEF TInv, DatabaseTypes, Orders
  <2>2. CASE r \in DOMAIN tx[w].moved
    <3>1. rcpt'[r] = [rcpt[r] EXCEPT !.order = tx[w].moved[r].order,
                        !.status = IF tx[w].moved[r].completed THEN "completed" ELSE @]
      BY <2>2 DEF Commit
    <3> QED
      BY <2>1, <2>2, <3>1 DEF RecipientData
  <2>3. CASE r \notin DOMAIN tx[w].moved
    BY <2>3 DEF Commit
  <2> QED
    BY <2>2, <2>3
<1> QED
  BY <1>2, <1>3 DEF Commit, WorkerAt, HistoryKept, history

LEMMA CommitTypes ==
    ASSUME NEW w \in Workers, TInv, Commit(w)
    PROVE  TInv'
<1>0. /\ TxTypes /\ BatchShape(w) /\ BatchTypes /\ Orders /\ MessageTypes
      /\ mailbox \in MailboxData
  BY DEF TInv, BatchTypes, DatabaseTypes
<1>1. MessageTypes'
  <2>1. \A m \in Batch(w) : tx[w].rows[m] \in MessageData
    BY <1>0, OldBatch DEF Partial, Batch
  <2>2. [status |-> "scheduled", tries |-> 0] \in MessageData /\ 0 < MaxRetries
    BY BatchAssumption DEF MessageData, MessageStatus
  <2>3. \A m \in Messages : msg'[m] \in MessageData
    BY <1>0, <2>1, <2>2, CommitEffect DEF MessageTypes
  <2>4. \A m \in Messages : msg'[m].status = "scheduled" => msg'[m].tries < MaxRetries
    BY <1>0, <2>2, CommitEffect DEF MessageTypes, BatchShape, RowsShape
  <2>5. msg' = [m \in Messages |-> msg'[m]]
    BY DEF Commit
  <2> QED
    BY <2>3, <2>4, <2>5 DEF MessageTypes
<1>2. Orders'
  <2>1. ASSUME NEW r \in Recipients
        PROVE  rcpt'[r] \in RecipientData
    <3>1. rcpt[r] \in RecipientData
      BY <1>0 DEF Orders
    <3>2. CASE r \in DOMAIN tx[w].moved
      <4>1. tx[w].moved[r] \in MovedData
        BY <1>0, <3>2, OldBatch DEF Partial
      <4>2. PICK s : /\ s \in {"completed", rcpt[r].status}
                     /\ rcpt'[r] = [rcpt[r] EXCEPT !.order = tx[w].moved[r].order, !.status = s]
        BY <3>1, <3>2 DEF Commit
      <4> QED
        BY <3>1, <4>1, <4>2 DEF RecipientData, MovedData
    <3>3. CASE r \notin DOMAIN tx[w].moved
      BY <3>1, <3>3, CommitEffect
    <3> QED
      BY <3>2, <3>3
  <2>2. rcpt' = [r \in Recipients |-> rcpt'[r]]
    BY DEF Commit
  <2> QED
    BY <2>1, <2>2 DEF Orders
<1>3. mailbox' \in MailboxData
  <2>1. CASE tx[w].counted
    <3>1. tx[w].count \in 0..Limit
      BY <1>0, <2>1, OldBatch, BoundsAssumption DEF BatchShape, PlaceShape, NotRead
    <3> QED
      BY <1>0, <2>1, <3>1 DEF Commit, MailboxData
  <2>2. CASE ~tx[w].counted
    BY <1>0, <2>2 DEF Commit
  <2> QED
    BY <2>1, <2>2
<1>4. DatabaseTypes'
  BY <1>1, <1>2, <1>3 DEF DatabaseTypes, TInv, Commit
<1>5. BatchTypes'
  BY <1>0, BatchEndsTypes DEF Commit
<1>6. RequestTypes'
  BY DEF TInv, RequestTypes, ClientTypes, RequestShape, Commit
<1>7. HistoryTypes'
  BY DEF TInv, HistoryTypes, Commit, history
<1> QED
  BY <1>4, <1>5, <1>6, <1>7 DEF TInv

LEMMA KeptTypes ==
    /\ DatabaseTypes /\ DatabaseKept => DatabaseTypes'
    /\ HistoryTypes /\ HistoryKept => HistoryTypes'
    /\ BatchTypes /\ tx' = tx => BatchTypes'
    /\ RequestTypes /\ client' = client => RequestTypes'
<1>1. DatabaseTypes /\ DatabaseKept => DatabaseTypes'
  BY DEF DatabaseTypes, DatabaseKept, Orders, MessageTypes
<1>2. HistoryTypes /\ HistoryKept => HistoryTypes'
  BY DEF HistoryTypes, HistoryKept
<1>3. BatchTypes /\ tx' = tx => BatchTypes'
  BY SameBatch DEF BatchTypes, TxTypes
<1>4. RequestTypes /\ client' = client => RequestTypes'
  BY SameRequestShape DEF RequestTypes, ClientTypes
<1> QED
  BY <1>1, <1>2, <1>3, <1>4

LEMMA BatchStepTypes ==
    ASSUME NEW w \in Workers, TInv, BatchStep(w)
    PROVE  TInv'
<1>0. BatchTypes /\ DatabaseTypes /\ HistoryTypes /\ RequestTypes
  BY DEF TInv
<1>1. BatchTypes'
  BY <1>0, BatchStepShape, BatchTypesNext DEF BatchStep, Only
<1>2. DatabaseTypes' /\ RequestTypes'
  BY <1>0, KeptTypes DEF BatchStep
<1>3. HistoryTypes'
  <2>1. CASE UNCHANGED <<sent, late>>
    BY <1>0, <2>1 DEF HistoryTypes, BatchStep
  <2>2. CASE HandOver(tx[w].cur) /\ (Sends(w) \/ Fails(w))
    <3>0. tx[w].cur \in Messages /\ to(tx[w].cur) \in Recipients
      <4>1. tx[w].cur \in tx[w].left /\ tx[w].left \subseteq Messages
        BY <1>0, <2>2, OldBatch DEF BatchTypes, BatchShape, PlaceShape, Sends, Fails
      <4> QED
        BY <4>1 DEF to, Messages
    <3>1. PICK n \in {0, 1} : /\ late' = [late EXCEPT ![to(tx[w].cur)] = @ + n]
                              /\ sent' = [sent EXCEPT ![tx[w].cur] = @ + 1]
      BY <2>2 DEF HandOver
    <3>2. sent \in [Messages -> Nat] /\ late \in [Recipients -> Nat]
      BY <1>0 DEF HistoryTypes
    <3>3. sent' \in [Messages -> Nat]
      <4>1. sent[tx[w].cur] + 1 \in Nat
        BY <3>0, <3>2
      <4> QED
        BY <3>1, <3>2, <4>1
    <3>4. late' \in [Recipients -> Nat]
      <4>1. late[to(tx[w].cur)] + n \in Nat
        BY <3>0, <3>2
      <4> QED
        BY <3>1, <3>2, <4>1
    <3> QED
      BY <1>0, <3>3, <3>4 DEF HistoryTypes, BatchStep
  <2> QED
    BY <2>1, <2>2 DEF BatchStep
<1> QED
  BY <1>1, <1>2, <1>3 DEF TInv

LEMMA RollBackTypes ==
    ASSUME NEW w \in Workers, TInv, RollBack(w)
    PROVE  TInv'
<1>1. BatchTypes'
  BY BatchEndsTypes DEF TInv, RollBack
<1>2. DatabaseTypes' /\ RequestTypes'
  BY KeptTypes DEF TInv, RollBack, database, DatabaseKept
<1>3. HistoryTypes'
  BY DEF TInv, HistoryTypes, RollBack
<1> QED
  BY <1>1, <1>2, <1>3 DEF TInv

LEMMA RequestStepTypes ==
    ASSUME NEW c \in Clients, TInv, RequestStep(c)
    PROVE  TInv'
<1>1. RequestTypes'
  BY RequestStepShape, RequestTypesNext DEF TInv, RequestStep
<1>2. BatchTypes' /\ HistoryTypes'
  BY KeptTypes DEF TInv, RequestStep
<1>3. DatabaseTypes'
  BY DEF TInv, DatabaseTypes, RequestStep, Orders, MessageTypes
<1> QED
  BY <1>1, <1>2, <1>3 DEF TInv

LEMMA RowWithStatus ==
    ASSUME MessageTypes, NEW m \in Messages, NEW s \in MessageStatus, s # "scheduled",
           msg'[m] = [msg[m] EXCEPT !.status = s]
    PROVE  /\ msg'[m] \in MessageData /\ msg'[m].status = s
           /\ msg'[m].tries = msg[m].tries
  BY DEF MessageTypes, MessageData

\* What the requests that commit write.
Started(c) == {to(m) : m \in client[c].rows}
LEMMA CommitStartEffect ==
    ASSUME NEW c \in Clients, TInv, CommitStart(c)
    PROVE  /\ client[c].pc = "schedule" /\ client[c].op = "start" /\ client[c].todo = {}
           /\ \A m \in client[c].rows : m \in Messages
                 /\ msg'[m].status = "scheduled" /\ msg'[m].tries = 0
           /\ \A m \in Messages \ client[c].rows : msg'[m] = msg[m]
           /\ \A r \in Recipients :
                 /\ rcpt'[r].deleted = rcpt[r].deleted /\ rcpt'[r].status = rcpt[r].status
                 /\ rcpt'[r].order = rcpt[r].order \/ rcpt'[r].order = 1
                 /\ r \in Started(c) /\ client[c].seen[r] # 1 => rcpt'[r].order = 1
                 /\ r \notin Started(c) => rcpt'[r].order = rcpt[r].order
           /\ starts' = starts + 1
           /\ Ends(c) /\ OnlyRequest(c)
           /\ UNCHANGED <<unsub, tx, sent, undone, late>>
           /\ TInv'
<1>0. /\ client[c].pc = "schedule" /\ client[c].op = "start" /\ client[c].todo = {}
      /\ client[c].rows \subseteq Messages /\ MessageTypes /\ Orders /\ RequestTypes
  BY DEF TInv, RequestTypes, ClientTypes, ClientRecord, CommitStart, At, RequestShape,
         DatabaseTypes
<1>1. RequestTypes' /\ Ends(c) /\ OnlyRequest(c)
  BY <1>0, EndTypes DEF CommitStart
<1>2. /\ \A m \in client[c].rows : m \in Messages
            /\ msg'[m] = [status |-> "scheduled", tries |-> 0]
      /\ \A m \in Messages \ client[c].rows : msg'[m] = msg[m]
      /\ msg' = [m \in Messages |-> msg'[m]]
  BY <1>0 DEF CommitStart
<1>3. MessageTypes'
  <2>1. [status |-> "scheduled", tries |-> 0] \in MessageData /\ 0 < MaxRetries
    BY BatchAssumption DEF MessageData, MessageStatus
  <2> QED
    BY <1>0, <1>2, <2>1 DEF MessageTypes
<1>4. ASSUME NEW r \in Recipients
      PROVE  /\ rcpt'[r] \in RecipientData
             /\ rcpt'[r].deleted = rcpt[r].deleted /\ rcpt'[r].status = rcpt[r].status
             /\ rcpt'[r].order = rcpt[r].order \/ rcpt'[r].order = 1
             /\ r \in Started(c) /\ client[c].seen[r] # 1 => rcpt'[r].order = 1
             /\ r \notin Started(c) => rcpt'[r].order = rcpt[r].order
  <2>1. rcpt[r] \in RecipientData /\ 1 \in 0..Steps
    BY <1>0, StepsAssumption DEF Orders
  <2>2. rcpt'[r] = IF r \in Started(c) /\ client[c].seen[r] # 1
                   THEN [rcpt[r] EXCEPT !.order = 1] ELSE rcpt[r]
    BY DEF CommitStart, Started
  <2> QED
    BY <2>1, <2>2 DEF RecipientData
<1>5. Orders'
  <2>1. rcpt' = [r \in Recipients |-> rcpt'[r]]
    BY DEF CommitStart
  <2> QED
    BY <1>4, <2>1 DEF Orders
<1>6. DatabaseTypes'
  BY <1>3, <1>5 DEF TInv, DatabaseTypes, CommitStart
<1>7. HistoryTypes'
  BY DEF TInv, HistoryTypes, CommitStart
<1>8. BatchTypes'
  BY KeptTypes DEF TInv, CommitStart
<1>9. TInv'
  BY <1>1, <1>6, <1>7, <1>8 DEF TInv
<1> QED
  BY <1>0, <1>1, <1>2, <1>4, <1>9 DEF CommitStart

LEMMA EventEndsEffect ==
    ASSUME NEW c \in Clients, TInv, NEW cancelled, NEW stopped,
           EventEnds(c, cancelled, stopped)
    PROVE  /\ \A m \in Messages :
                 /\ msg'[m].tries = msg[m].tries
                 /\ \/ msg'[m] = msg[m] /\ m \notin cancelled
                       /\ ~(client[c].op = "bounced" /\ m = client[c].m)
                    \/ /\ client[c].op = "bounced" /\ m = client[c].m
                       /\ msg'[m].status = "bounced"
                    \/ /\ m \in cancelled /\ msg'[m].status = "cancelled"
           /\ \A r \in Recipients :
                 /\ rcpt'[r].deleted = rcpt[r].deleted /\ rcpt'[r].order = rcpt[r].order
                 /\ r \in stopped => rcpt'[r].status \in Events
                 /\ r \notin stopped => rcpt'[r].status = rcpt[r].status
           /\ unsub' = IF client[c].op = "unsubscribed" THEN unsub \cup {client[c].r} ELSE unsub
           /\ Ends(c) /\ OnlyRequest(c)
           /\ UNCHANGED <<tx, sent, undone, late, starts>>
           /\ TInv'
<1>0. /\ MessageTypes /\ Orders /\ RequestTypes /\ client[c].op \in Events
      /\ client[c].r \in Recipients
  BY DEF TInv, RequestTypes, DatabaseTypes, EventEnds, RequestShape, to, Messages
<1>1. RequestTypes' /\ Ends(c) /\ OnlyRequest(c)
  BY <1>0, EndTypes DEF EventEnds, CommitEvent
<1>2. ASSUME NEW m \in Messages
      PROVE  /\ msg'[m] \in MessageData /\ msg'[m].tries = msg[m].tries
             /\ \/ msg'[m] = msg[m] /\ m \notin cancelled
                   /\ ~(client[c].op = "bounced" /\ m = client[c].m)
                \/ /\ client[c].op = "bounced" /\ m = client[c].m
                   /\ msg'[m].status = "bounced"
                \/ /\ m \in cancelled /\ msg'[m].status = "cancelled"
  <2>1. CASE client[c].op = "bounced" /\ m = client[c].m
    <3>1. msg'[m] = [msg[m] EXCEPT !.status = "bounced"]
      BY <2>1 DEF EventEnds, CommitEvent
    <3> QED
      BY <1>0, <2>1, <3>1, RowWithStatus DEF MessageStatus
  <2>2. CASE ~(client[c].op = "bounced" /\ m = client[c].m) /\ m \in cancelled
    <3>1. msg'[m] = [msg[m] EXCEPT !.status = "cancelled"]
      BY <2>2 DEF EventEnds, CommitEvent
    <3> QED
      BY <1>0, <2>2, <3>1, RowWithStatus DEF MessageStatus
  <2>3. CASE ~(client[c].op = "bounced" /\ m = client[c].m) /\ m \notin cancelled
    <3>1. msg'[m] = msg[m]
      BY <2>3 DEF EventEnds, CommitEvent
    <3> QED
      BY <1>0, <2>3, <3>1 DEF MessageTypes
  <2> QED
    BY <2>1, <2>2, <2>3
<1>3. MessageTypes'
  <2>1. msg' = [m \in Messages |-> msg'[m]]
    BY DEF EventEnds, CommitEvent
  <2> QED
    BY <1>0, <1>2, <2>1 DEF MessageTypes
<1>4. ASSUME NEW r \in Recipients
      PROVE  /\ rcpt'[r] \in RecipientData
             /\ rcpt'[r].deleted = rcpt[r].deleted /\ rcpt'[r].order = rcpt[r].order
             /\ r \in stopped => rcpt'[r].status \in Events
             /\ r \notin stopped => rcpt'[r].status = rcpt[r].status
  <2>1. rcpt[r] \in RecipientData
    BY <1>0 DEF Orders
  <2>2. rcpt'[r] = IF r \in stopped THEN [rcpt[r] EXCEPT !.status = client[c].op] ELSE rcpt[r]
    BY DEF EventEnds, CommitEvent
  <2> QED
    BY <1>0, <2>1, <2>2 DEF RecipientData
<1>5. Orders'
  <2>1. rcpt' = [r \in Recipients |-> rcpt'[r]]
    BY DEF EventEnds, CommitEvent
  <2> QED
    BY <1>4, <2>1 DEF Orders
<1>6. DatabaseTypes'
  BY <1>0, <1>3, <1>5 DEF TInv, DatabaseTypes, EventEnds, CommitEvent
<1>7. HistoryTypes' /\ BatchTypes'
  BY KeptTypes DEF TInv, EventEnds, CommitEvent, HistoryKept, history
<1>8. TInv'
  BY <1>1, <1>6, <1>7 DEF TInv
<1> QED
  BY <1>1, <1>2, <1>4, <1>8 DEF EventEnds, CommitEvent, history

LEMMA DeleteRecipientEffect ==
    ASSUME NEW c \in Clients, TInv, DeleteRecipient(c)
    PROVE  /\ client[c].pc = "delete" /\ client[c].op = "remove"
           /\ \A m \in Messages :
                 /\ msg'[m].tries = msg[m].tries
                 /\ \/ msg'[m] = msg[m] /\ m \notin client[c].rows
                    \/ m \in client[c].rows /\ msg'[m].status = "cancelled"
           /\ \A r \in Recipients :
                 /\ rcpt'[r].status = rcpt[r].status /\ rcpt'[r].order = rcpt[r].order
                 /\ rcpt[r].deleted => rcpt'[r].deleted
           /\ Ends(c) /\ OnlyRequest(c)
           /\ UNCHANGED <<unsub, tx, sent, undone, late, starts>>
           /\ TInv'
<1>0. /\ MessageTypes /\ Orders /\ RequestTypes
      /\ client[c].pc = "delete" /\ client[c].op = "remove"
  BY DEF TInv, RequestTypes, DatabaseTypes, DeleteRecipient, At, RequestShape
<1>1. RequestTypes' /\ Ends(c) /\ OnlyRequest(c)
  BY <1>0, EndTypes DEF DeleteRecipient
<1>2. ASSUME NEW m \in Messages
      PROVE  /\ msg'[m] \in MessageData /\ msg'[m].tries = msg[m].tries
             /\ \/ msg'[m] = msg[m] /\ m \notin client[c].rows
                \/ m \in client[c].rows /\ msg'[m].status = "cancelled"
  <2>1. CASE m \in client[c].rows
    <3>1. msg'[m] = [msg[m] EXCEPT !.status = "cancelled"]
      BY <2>1 DEF DeleteRecipient
    <3> QED
      BY <1>0, <2>1, <3>1, RowWithStatus DEF MessageStatus
  <2>2. CASE m \notin client[c].rows
    <3>1. msg'[m] = msg[m]
      BY <2>2 DEF DeleteRecipient
    <3> QED
      BY <1>0, <2>2, <3>1 DEF MessageTypes
  <2> QED
    BY <2>1, <2>2
<1>3. MessageTypes'
  <2>1. msg' = [m \in Messages |-> msg'[m]]
    BY DEF DeleteRecipient
  <2> QED
    BY <1>0, <1>2, <2>1 DEF MessageTypes
<1>4. ASSUME NEW r \in Recipients
      PROVE  /\ rcpt'[r] \in RecipientData
             /\ rcpt'[r].status = rcpt[r].status /\ rcpt'[r].order = rcpt[r].order
             /\ rcpt[r].deleted => rcpt'[r].deleted
  <2>1. rcpt[r] \in RecipientData /\ rcpt \in [Recipients -> RecipientData]
    BY <1>0 DEF Orders
  <2>2. rcpt'[r] = IF r = client[c].r THEN [rcpt[r] EXCEPT !.deleted = TRUE] ELSE rcpt[r]
    BY <2>1 DEF DeleteRecipient
  <2> QED
    BY <2>1, <2>2 DEF RecipientData
<1>5. Orders'
  <2>1. rcpt' = [r \in Recipients |-> rcpt'[r]]
    BY <1>0 DEF DeleteRecipient, Orders
  <2> QED
    BY <1>4, <2>1 DEF Orders
<1>6. DatabaseTypes'
  BY <1>3, <1>5 DEF TInv, DatabaseTypes, DeleteRecipient
<1>7. HistoryTypes' /\ BatchTypes'
  BY KeptTypes DEF TInv, DeleteRecipient, HistoryKept, history
<1>8. TInv'
  BY <1>1, <1>6, <1>7 DEF TInv
<1> QED
  BY <1>0, <1>1, <1>2, <1>4, <1>8 DEF DeleteRecipient, history

LEMMA TypesInit == Init => TInv
<1> SUFFICES ASSUME Init PROVE TInv
  OBVIOUS
<1>1. DatabaseTypes
  <2>1. 0 \in 0..Steps /\ 0 \in 0..MaxRetries /\ 0 \in 0..Limit
    BY StepsAssumption, BatchAssumption, BoundsAssumption
  <2>2. Orders
    BY <2>1 DEF Init, Orders, RecipientData
  <2>3. MessageTypes
    BY <2>1 DEF Init, MessageTypes, MessageData, MessageStatus
  <2> QED
    BY <2>1, <2>2, <2>3 DEF Init, DatabaseTypes, MailboxData
<1>2. HistoryTypes
  BY DEF Init, HistoryTypes
<1>3. BatchTypes
  <2>1. TxTypes
    BY IdleTxType DEF Init, TxTypes
  <2>2. \A w \in Workers : BatchShape(w)
    BY DEF Init, BatchShape, PlaceShape, RowsShape, MovesMade, Batch, Waiting, Handled, IdleTx
  <2> QED
    BY <2>1, <2>2 DEF BatchTypes
<1>4. RequestTypes
  <2>1. ClientTypes
    BY IdleClientType DEF Init, ClientTypes
  <2>2. \A c \in Clients : RequestShape(c)
    BY DEF Init, RequestShape, IdleClient, Events
  <2> QED
    BY <2>1, <2>2 DEF RequestTypes
<1> QED
  BY <1>1, <1>2, <1>3, <1>4 DEF TInv

LEMMA TypesNext == TInv /\ [Next]_vars => TInv'
<1> SUFFICES ASSUME TInv, [Next]_vars PROVE TInv'
  OBVIOUS
<1>1. CASE Disconnect
  <2>1. mailbox' \in MailboxData
    BY <1>1 DEF TInv, DatabaseTypes, Disconnect, MailboxData
  <2>2. DatabaseTypes'
    BY <1>1, <2>1 DEF TInv, DatabaseTypes, Disconnect, Orders, MessageTypes
  <2> QED
    BY <1>1, <2>2, KeptTypes DEF TInv, Disconnect, HistoryKept, history
<1>2. CASE UNCHANGED <<database, tx, client, history>>
  BY <1>2, KeptTypes DEF TInv, database, DatabaseKept, HistoryKept, history
<1> QED
  BY <1>1, <1>2, Cases, BatchStepTypes, CommitTypes, RollBackTypes, RequestStepTypes,
     CommitStartEffect, DeleteRecipientEffect, EventEndsEffect

\* Every variable has its type.
THEOREM TypeCorrect == Spec => []TypeOK
<1>1. TInv => TypeOK
  <2> SUFFICES ASSUME TInv PROVE TypeOK
    OBVIOUS
  <2>1. ASSUME NEW w \in Workers
        PROVE  /\ tx[w].pc \in {"idle", "next", "send", "count", "advance", "write"}
               /\ tx[w].left \subseteq Batch(w) /\ Batch(w) \subseteq Messages
               /\ tx[w].new \subseteq Messages /\ tx[w].count \in NotRead..Limit
               /\ tx[w].cur \in Messages \cup {NoMessage} /\ tx[w].plan \in 0..(Steps + 1)
    BY OldBatch DEF TInv, BatchTypes, BatchShape, PlaceShape, TxPC
  <2>2. ASSUME NEW c \in Clients
        PROVE  /\ client[c].pc \in {"idle", "write", "schedule", "record", "stop", "snapshot",
                                    "cancel", "delete"}
               /\ client[c].op \in Ops \cup {"none"} /\ client[c].rows \subseteq Messages
    BY DEF TInv, RequestTypes, ClientTypes, ClientRecord, ClientPC
  <2> QED
    BY <2>1, <2>2 DEF TypeOK, TInv, DatabaseTypes, Orders, MessageTypes, RecipientData,
       MessageData, MessageStatus, MailboxData
<1> QED
  BY <1>1, TypesInit, TypesNext, PTL DEF Spec

-----------------------------------------------------------------------------
(* Locks: no row is held by two transactions, and what a transaction has   *)
(* read under its locks is still so.                                       *)

Exclusive == \A x, y \in Transactions : x # y => Held(x) \cap Held(y) = {}

\* The rows a transaction is inserting.
Making(x) ==
    IF x \in Workers THEN tx[x].new
    ELSE IF client[x].op = "start" THEN client[x].rows ELSE {}
Apart == \A x, y \in Transactions : x # y => Making(x) \cap Making(y) = {}

BatchFits(w) ==
    /\ \A m \in Batch(w) : msg[m].status = "scheduled"
    /\ \A m \in Waiting(w) : tx[w].rows[m] = msg[m]
    /\ \A m \in tx[w].new : msg[m].status = "none"
RequestFits(c) ==
    /\ client[c].op = "start" => \A m \in client[c].rows : msg[m].status = "none"
    /\ client[c].op \in Events => msg[client[c].m].status # "none"
    /\ client[c].pc = "delete" => \A m \in client[c].rows : msg[m].status = "scheduled"
NoneFresh ==
    \A m \in Messages : msg[m].status = "none" => sent[m] = 0 /\ undone[m] = 0 /\ msg[m].tries = 0
LInv ==
    /\ Exclusive /\ Apart /\ NoneFresh
    /\ \A w \in Workers : BatchFits(w)
    /\ \A c \in Clients : RequestFits(c)

LEMMA HeldByWorker ==
    ASSUME NEW w \in Workers, NEW row
    PROVE  row \in Held(w) <=>
              \/ \E m \in Batch(w) : row = MessageRow(m)
              \/ \E r \in DOMAIN tx[w].moved : row = RecipientRow(r)
              \/ tx[w].counted /\ row = MailboxRow
  BY DEF Held, HeldBySender

LEMMA HeldByClient ==
    ASSUME NEW c \in Clients, NEW row
    PROVE  row \in Held(c) <=>
              \/ /\ client[c].op = "start" /\ client[c].pc = "schedule"
                 /\ row = CampaignRow \/ \E m \in client[c].rows : row = RecipientRow(to(m))
              \/ /\ client[c].op = "remove" /\ client[c].pc = "delete"
                 /\ \E m \in client[c].rows : row = MessageRow(m)
              \/ /\ client[c].op \in Events /\ client[c].pc \in {"stop", "snapshot", "cancel"}
                 /\ \/ row = CampaignRow
                    \/ client[c].op # "unsubscribed" /\ row = MessageRow(client[c].m)
                    \/ client[c].pc # "stop" /\ row = RecipientRow(client[c].r)
<1>1. Held(c) = HeldByRequest(c)
  BY TransactionsAssumption DEF Held
<1>2. CASE client[c].op = "start" /\ client[c].pc = "schedule"
  BY <1>1, <1>2 DEF HeldByRequest, Events
<1>3. CASE client[c].op = "remove" /\ client[c].pc = "delete"
  BY <1>1, <1>3 DEF HeldByRequest, Events
<1>4. CASE client[c].op \in Events
  <2>1. Held(c) = HeldByEvent(c)
    BY <1>1, <1>4 DEF HeldByRequest, Events
  <2>2. client[c].op # "start" /\ client[c].op # "remove"
    BY <1>4 DEF Events
  <2> QED
    BY <1>4, <2>1, <2>2 DEF HeldByEvent
<1>5. CASE /\ ~(client[c].op = "start" /\ client[c].pc = "schedule")
           /\ ~(client[c].op = "remove" /\ client[c].pc = "delete")
           /\ client[c].op \notin Events
  <2>1. Held(c) = {}
    BY <1>1, <1>5 DEF HeldByRequest
  <2> QED
    BY <1>5, <2>1
<1> QED
  BY <1>2, <1>3, <1>4, <1>5

LEMMA RowNames ==
    /\ \A m : MessageRow(m) # CampaignRow /\ MessageRow(m) # MailboxRow
    /\ \A r : RecipientRow(r) # CampaignRow /\ RecipientRow(r) # MailboxRow
    /\ \A m, r : MessageRow(m) # RecipientRow(r)
    /\ \A m, n : MessageRow(m) = MessageRow(n) => m = n
    /\ \A r, s : RecipientRow(r) = RecipientRow(s) => r = s
  BY DEF MessageRow, RecipientRow, CampaignRow, MailboxRow

HeldRule ==
    \A c \in Clients : \A row \in Held(c) :
       \/ /\ client[c].op = "start" /\ client[c].pc = "schedule"
          /\ row = CampaignRow \/ \E m \in client[c].rows : row = RecipientRow(to(m))
       \/ /\ client[c].op = "remove" /\ client[c].pc = "delete"
          /\ \E m \in client[c].rows : row = MessageRow(m)
       \/ /\ client[c].op \in Events /\ client[c].pc \in {"stop", "snapshot", "cancel"}
          /\ \/ row = CampaignRow
             \/ client[c].op # "unsubscribed" /\ row = MessageRow(client[c].m)
             \/ client[c].pc # "stop" /\ row = RecipientRow(client[c].r)
LEMMA HeldAlways == HeldRule
  BY HeldByClient DEF HeldRule

\* Only one transaction takes a step.
OthersStay(x) ==
    /\ \A v \in Workers : v # x => tx'[v] = tx[v]
    /\ \A d \in Clients : d # x => client'[d] = client[d]

LEMMA OthersKeepLocks ==
    ASSUME NEW x \in Transactions, OthersStay(x), NEW y \in Transactions, y # x
    PROVE  Held(y)' = Held(y) /\ Making(y)' = Making(y)
<1>1. CASE y \in Workers
  BY <1>1 DEF OthersStay, Held, HeldBySender, Batch, Making
<1>2. CASE y \in Clients
  <2>1. client'[y] = client[y] /\ y \notin Workers
    BY <1>2, TransactionsAssumption DEF OthersStay
  <2> QED
    BY <2>1 DEF Held, HeldByRequest, HeldByEvent, Making
<1> QED
  BY <1>1, <1>2 DEF Transactions

LEMMA LocksStep ==
    ASSUME NEW x \in Transactions, Exclusive, OthersStay(x),
           \A row \in Held(x)' : row \in Held(x) \/ NoOther(x, row)
    PROVE  Exclusive'
<1>1. \A y \in Transactions \ {x} : Held(y)' = Held(y)
  BY OthersKeepLocks
<1>2. \A y \in Transactions \ {x} : Held(x)' \cap Held(y)' = {}
  BY <1>1 DEF Exclusive, NoOther
<1>3. \A y, z \in Transactions \ {x} : y # z => Held(y)' \cap Held(z)' = {}
  BY <1>1 DEF Exclusive
<1> QED
  BY <1>2, <1>3 DEF Exclusive, Transactions

LEMMA HeldAlone ==
    ASSUME Exclusive, NEW x \in Transactions, NEW row \in Held(x)
    PROVE  NoOther(x, row)
  BY DEF Exclusive, NoOther

LEMMA MakingStep ==
    ASSUME NEW x \in Transactions, Apart, OthersStay(x),
           \A m \in Making(x)' : m \in Making(x) \/ ~Taken(m)
    PROVE  Apart'
<1>1. \A y \in Transactions \ {x} : Making(y)' = Making(y)
  BY OthersKeepLocks
<1>2. \A y \in Transactions : \A m \in Making(y) : Taken(m)
  BY DEF Making, Taken, Transactions
<1>3. \A y \in Transactions \ {x} : Making(x)' \cap Making(y)' = {}
  BY <1>1, <1>2 DEF Apart
<1>4. \A y, z \in Transactions \ {x} : y # z => Making(y)' \cap Making(z)' = {}
  BY <1>1 DEF Apart
<1> QED
  BY <1>3, <1>4 DEF Apart, Transactions

\* A transaction changes only messages that it makes or that nobody else holds.
MessagesStep(x) ==
    \A m \in Messages :
       \/ msg'[m] = msg[m]
       \/ msg'[m].status # "none" /\ m \in Making(x)
       \/ /\ msg'[m].status # "none" /\ msg[m].status # "none"
          /\ NoOther(x, MessageRow(m))

LEMMA OtherBatchesFit ==
    ASSUME LInv, BatchTypes, NEW x \in Transactions, OthersStay(x), MessagesStep(x),
           NEW w \in Workers, w # x
    PROVE  BatchFits(w)'
<1>1. tx'[w] = tx[w] /\ w \in Transactions /\ BatchFits(w)
  BY DEF OthersStay, LInv, Transactions
<1>2. Batch(w) \subseteq Messages /\ tx[w].new \subseteq Messages /\ Waiting(w) \subseteq Batch(w)
  BY OldBatch DEF BatchTypes, BatchShape, PlaceShape, Waiting
<1>3. ASSUME NEW m \in Batch(w)
      PROVE  msg'[m] = msg[m]
  <2>1. MessageRow(m) \in Held(w)
    BY HeldByWorker
  <2>2. ~NoOther(x, MessageRow(m))
    BY <1>1, <2>1 DEF NoOther
  <2>3. m \notin Making(x)
    <3>1. msg[m].status = "scheduled"
      BY <1>1 DEF BatchFits
    <3>2. \A n \in Making(x) : msg[n].status = "none"
      BY DEF LInv, BatchFits, RequestFits, Making, Transactions
    <3> QED
      BY <3>1, <3>2
  <2> QED
    BY <1>2, <2>2, <2>3 DEF MessagesStep
<1>4. ASSUME NEW m \in tx[w].new
      PROVE  msg'[m].status = "none"
  <2>1. m \in Making(w) /\ m \in Messages
    BY <1>2 DEF Making
  <2>2. m \notin Making(x)
    BY <1>1, <2>1 DEF LInv, Apart
  <2>3. msg[m].status = "none"
    BY <1>1 DEF BatchFits
  <2> QED
    BY <2>1, <2>2, <2>3 DEF MessagesStep
<1> QED
  BY <1>1, <1>2, <1>3, <1>4 DEF BatchFits, Batch, Waiting, Handled

LEMMA MakingIsFresh ==
    ASSUME LInv, NEW x \in Transactions, NEW m \in Making(x)
    PROVE  msg[m].status = "none"
  BY DEF LInv, BatchFits, RequestFits, Making, Transactions

LEMMA OtherRequestsFit ==
    ASSUME LInv, RequestTypes, NEW x \in Transactions, OthersStay(x), MessagesStep(x),
           NEW d \in Clients, d # x
    PROVE  RequestFits(d)'
<1>1. /\ client'[d] = client[d] /\ d \in Transactions /\ RequestFits(d) /\ RequestShape(d)
      /\ client[d] \in ClientRecord /\ d \notin Workers
  BY TransactionsAssumption DEF OthersStay, LInv, Transactions, RequestTypes, ClientTypes
<1>2. client[d].rows \subseteq Messages
  BY <1>1 DEF ClientRecord
<1>3. ASSUME client[d].op = "start", NEW m \in client[d].rows
      PROVE  msg'[m].status = "none"
  <2>1. m \in Making(d) /\ m \in Messages /\ msg[m].status = "none"
    BY <1>1, <1>2, <1>3 DEF Making, RequestFits
  <2>2. m \notin Making(x)
    BY <1>1, <2>1 DEF LInv, Apart
  <2> QED
    BY <2>1, <2>2 DEF MessagesStep
<1>4. ASSUME client[d].op \in Events
      PROVE  msg'[client[d].m].status # "none"
  BY <1>1, <1>4 DEF MessagesStep, RequestFits, RequestShape
<1>5. ASSUME client[d].pc = "delete", NEW m \in client[d].rows
      PROVE  msg'[m].status = "scheduled"
  <2>1. MessageRow(m) \in Held(d) /\ m \in Messages /\ msg[m].status = "scheduled"
    BY <1>1, <1>2, <1>5, HeldByClient DEF RequestShape, RequestFits
  <2>2. ~NoOther(x, MessageRow(m))
    BY <1>1, <2>1 DEF NoOther
  <2>3. m \notin Making(x)
    BY <2>1, MakingIsFresh
  <2> QED
    BY <2>1, <2>2, <2>3 DEF MessagesStep
<1> QED
  BY <1>1, <1>3, <1>4, <1>5 DEF RequestFits

\* What a worker's step does to the rows and locks of its batch.
LEMMA BatchStepRows ==
    ASSUME NEW w \in Workers, TInv, BatchStep(w)
    PROVE  /\ TakesBatch(w) \/ Batch(w)' = Batch(w)
           /\ \A m \in Waiting(w)' :
                 TakesBatch(w) \/ (m \in Waiting(w) /\ tx'[w].rows[m] = tx[w].rows[m])
           /\ \A r \in DOMAIN tx'[w].moved :
                 r \in DOMAIN tx[w].moved \/ NoOther(w, RecipientRow(r))
           /\ tx'[w].counted => tx[w].counted \/ NoOther(w, MailboxRow)
           /\ \A m \in tx'[w].new : m \in tx[w].new \/ (m \in Messages /\ ~Taken(m))
<1>0. TxTypes /\ BatchShape(w)
  BY DEF TInv, BatchTypes
<1> DEFINE Goal ==
        /\ TakesBatch(w) \/ Batch(w)' = Batch(w)
        /\ \A m \in Waiting(w)' :
              TakesBatch(w) \/ (m \in Waiting(w) /\ tx'[w].rows[m] = tx[w].rows[m])
        /\ \A r \in DOMAIN tx'[w].moved :
              r \in DOMAIN tx[w].moved \/ NoOther(w, RecipientRow(r))
        /\ tx'[w].counted => tx[w].counted \/ NoOther(w, MailboxRow)
        /\ \A m \in tx'[w].new : m \in tx[w].new \/ (m \in Messages /\ ~Taken(m))
<1>1. CASE TakesBatch(w)
  <2>1. DOMAIN tx'[w].moved = {} /\ tx'[w].new = {} /\ tx'[w].counted = FALSE
    BY <1>1 DEF TakesBatch
  <2> QED
    BY <1>1, <2>1
<1>2. ASSUME NEW m, Leaves(w, m) PROVE Goal
  <2>1. PICK row : Rewrites(w, m, row)
    BY <1>0, <1>2, LeavesRow
  <2>2. /\ Batch(w)' = Batch(w) /\ Waiting(w)' = Waiting(w) \ {m}
        /\ Waiting(w) \subseteq Batch(w)
    BY <1>0, <1>2, <2>1 DEF Leaves, Rewrites, Batch, Waiting, Handled, BatchShape, PlaceShape
  <2> QED
    BY <1>2, <2>1, <2>2 DEF Leaves, SamePlan, Rewrites, Batch
<1>3. ASSUME NEW m, GoesToSend(w, m) PROVE Goal
  BY <1>3 DEF GoesToSend, SameRows, SameNew, Batch, Waiting, Handled
<1>4. CASE Counts(w)
  BY <1>4 DEF Counts, SameRows, SamePlan, SameCount, Batch, Waiting, Handled, NoOther
<1>5. CASE Plans(w)
  <2>1. /\ Batch(w)' = Batch(w) /\ Waiting(w)' = Waiting(w) /\ tx'[w].rows = tx[w].rows
        /\ tx'[w].moved = tx[w].moved /\ tx'[w].counted = tx[w].counted
    BY <1>5 DEF Plans, SameRows, SameCount, Batch, Waiting, Handled
  <2>2. to(tx[w].cur) \in Recipients /\ EmailSteps \subseteq 1..Steps
    BY <1>0, <1>5, OldBatch, StepsAssumption
       DEF Plans, BatchShape, PlaceShape, to, Messages
  <2>3. \A m \in tx'[w].new : m \in tx[w].new \/ (m \in Messages /\ ~Taken(m))
    <3>1. CASE tx'[w].new = tx[w].new
      BY <3>1
    <3>2. ASSUME tx'[w].plan \in EmailSteps, NEW n \in NewRow(to(tx[w].cur), tx'[w].plan),
                 tx'[w].new = tx[w].new \cup {n}
          PROVE  n \in Messages /\ ~Taken(n)
      <4>1. tx'[w].plan \in 1..Steps
        BY <2>2, <3>2
      <4> QED
        BY <2>2, <3>2, <4>1, NewRowType
    <3> QED
      BY <1>5, <3>1, <3>2 DEF Plans
  <2> QED
    BY <2>1, <2>3
<1>6. CASE PassesOn(w)
  BY <1>6 DEF PassesOn, SamePlan, SameCount, Batch, Waiting, Handled
<1>7. CASE Moves(w)
  BY <1>7 DEF Moves, SameCount, Batch, Waiting, Handled, NoOther
<1>8. CASE Sends(w)
  <2>1. PICK row : Rewrites(w, tx[w].cur, row)
    BY <1>0, <1>8, SendsRow
  <2>2. /\ Batch(w)' = Batch(w) /\ Waiting(w)' = Waiting(w) \ {tx[w].cur}
        /\ Waiting(w) \subseteq Batch(w)
    BY <1>0, <1>8, <2>1
       DEF Sends, SamePlan, Rewrites, Batch, Waiting, Handled, BatchShape, PlaceShape
  <2> QED
    BY <1>8, <2>1, <2>2 DEF Sends, SamePlan, SameCount, Rewrites, Batch
<1>9. CASE Fails(w)
  <2>1. PICK row : Rewrites(w, tx[w].cur, row)
    BY <1>0, <1>9, FailsRow
  <2>2. /\ Batch(w)' = Batch(w) /\ Waiting(w)' = Waiting(w) \ {tx[w].cur}
        /\ Waiting(w) \subseteq Batch(w)
    BY <1>0, <1>9, <2>1
       DEF Fails, SamePlan, Rewrites, Batch, Waiting, Handled, BatchShape, PlaceShape
  <2> QED
    BY <1>9, <2>1, <2>2 DEF Fails, SamePlan, SameCount, Rewrites, Batch
<1> QED
  BY <1>1, <1>2, <1>3, <1>4, <1>5, <1>6, <1>7, <1>8, <1>9 DEF BatchStep, Quietly

LEMMA SentByHolder ==
    ASSUME NEW w \in Workers, TInv, BatchStep(w)
    PROVE  /\ \A m \in Messages \ Batch(w) : sent'[m] = sent[m]
           /\ undone' = undone
<1>1. CASE UNCHANGED <<sent, late>>
  BY <1>1 DEF BatchStep
<1>2. CASE HandOver(tx[w].cur) /\ (Sends(w) \/ Fails(w))
  <2>1. tx[w].cur \in Batch(w)
    BY <1>2 DEF TInv, BatchTypes, BatchShape, PlaceShape, Sends, Fails
  <2> QED
    BY <1>2, <2>1 DEF HandOver, TInv, HistoryTypes, BatchStep
<1> QED
  BY <1>1, <1>2 DEF BatchStep

LEMMA BatchStepLocks ==
    ASSUME NEW w \in Workers, TInv, LInv, BatchStep(w)
    PROVE  LInv'
<1>0. /\ OthersStay(w) /\ w \in Transactions /\ MessagesStep(w) /\ msg' = msg
      /\ BatchTypes /\ RequestTypes /\ TxTypes /\ BatchFits(w)
  BY DEF BatchStep, Only, OthersStay, Transactions, MessagesStep, DatabaseKept, TInv,
         BatchTypes, LInv
<1>1. Exclusive'
  <2>1. ASSUME NEW row \in Held(w)'
        PROVE  row \in Held(w) \/ NoOther(w, row)
    <3>1. \/ \E m \in Batch(w)' : row = MessageRow(m)
          \/ \E r \in DOMAIN tx'[w].moved : row = RecipientRow(r)
          \/ tx'[w].counted /\ row = MailboxRow
      BY <2>1 DEF Held, HeldBySender, Batch
    <3>2. ASSUME NEW m \in Batch(w)', row = MessageRow(m)
          PROVE  row \in Held(w) \/ NoOther(w, row)
      <4>1. CASE TakesBatch(w)
        <5>1. Free(w, MessageRow(m))
          BY <3>2, <4>1 DEF TakesBatch, Batch
        <5> QED
          BY <3>2, <5>1 DEF Free, Blocks, NoOther
      <4>2. CASE Batch(w)' = Batch(w)
        BY <3>2, <4>2, HeldByWorker
      <4> QED
        BY <4>1, <4>2, BatchStepRows
    <3>3. ASSUME NEW r \in DOMAIN tx'[w].moved, row = RecipientRow(r)
          PROVE  row \in Held(w) \/ NoOther(w, row)
      BY <3>3, BatchStepRows, HeldByWorker
    <3>4. ASSUME tx'[w].counted, row = MailboxRow
          PROVE  row \in Held(w) \/ NoOther(w, row)
      BY <3>4, BatchStepRows, HeldByWorker
    <3> QED
      BY <3>1, <3>2, <3>3, <3>4
  <2> QED
    BY <1>0, <2>1, LocksStep DEF LInv
<1>2. Apart'
  <2>1. \A m \in Making(w)' : m \in Making(w) \/ ~Taken(m)
    BY BatchStepRows DEF Making
  <2> QED
    BY <1>0, <2>1, MakingStep DEF LInv
<1>3. BatchFits(w)'
  <2>1. ASSUME NEW m \in Batch(w)'
        PROVE  msg[m].status = "scheduled"
    <3>1. CASE TakesBatch(w)
      BY <2>1, <3>1 DEF TakesBatch, Batch
    <3>2. CASE Batch(w)' = Batch(w)
      BY <1>0, <2>1, <3>2 DEF BatchFits
    <3> QED
      BY <3>1, <3>2, BatchStepRows
  <2>2. ASSUME NEW m \in Waiting(w)'
        PROVE  tx'[w].rows[m] = msg[m]
    <3>1. CASE TakesBatch(w)
      BY <2>2, <3>1 DEF TakesBatch, Waiting, Handled
    <3>2. CASE m \in Waiting(w) /\ tx'[w].rows[m] = tx[w].rows[m]
      BY <1>0, <3>2 DEF BatchFits
    <3> QED
      BY <2>2, <3>1, <3>2, BatchStepRows
  <2>3. ASSUME NEW m \in tx'[w].new
        PROVE  msg[m].status = "none"
    BY <1>0, <2>3, BatchStepRows DEF BatchFits, Taken
  <2> QED
    BY <1>0, <2>1, <2>2, <2>3 DEF BatchFits
<1>4. \A v \in Workers : BatchFits(v)'
  BY <1>0, <1>3, OtherBatchesFit
<1>5. \A c \in Clients : RequestFits(c)'
  BY <1>0, OtherRequestsFit, TransactionsAssumption
<1>6. NoneFresh'
  <2>1. \A m \in Messages : msg[m].status = "none" => m \notin Batch(w)
    BY <1>0 DEF BatchFits
  <2> QED
    BY <1>0, <2>1, SentByHolder DEF LInv, NoneFresh
<1> QED
  BY <1>1, <1>2, <1>4, <1>5, <1>6 DEF LInv

\* A transaction that ends holds nothing.
LEMMA EndedLocks ==
    ASSUME NEW x \in Transactions, Exclusive, Apart, OthersStay(x),
           (x \in Workers /\ tx'[x] = IdleTx) \/ (x \in Clients /\ client'[x] = IdleClient)
    PROVE  Exclusive' /\ Apart'
<1>1. Held(x)' = {} /\ Making(x)' = {}
  <2>1. CASE x \in Workers /\ tx'[x] = IdleTx
    <3>1. DOMAIN tx'[x].rows = {} /\ DOMAIN tx'[x].moved = {} /\ tx'[x].counted = FALSE
          /\ tx'[x].new = {}
      BY <2>1 DEF IdleTx
    <3> QED
      BY <2>1, <3>1 DEF Held, HeldBySender, Making, Batch
  <2>2. CASE x \in Clients /\ client'[x] = IdleClient
    <3>1. x \notin Workers /\ client'[x].op = "none"
      BY <2>2, TransactionsAssumption DEF IdleClient
    <3> QED
      BY <2>2, <3>1 DEF Held, HeldByRequest, Making, Events
  <2> QED
    BY <2>1, <2>2
<1> QED
  BY <1>1, LocksStep, MakingStep

LEMMA IdleBatchFits ==
    ASSUME NEW w, tx'[w] = IdleTx
    PROVE  BatchFits(w)'
  BY DEF BatchFits, Batch, Waiting, Handled, IdleTx

LEMMA IdleRequestFits ==
    ASSUME NEW c, client'[c] = IdleClient
    PROVE  RequestFits(c)'
  BY DEF RequestFits, IdleClient, Events

\* A transaction that ends and writes only what is its own.
LEMMA EndedFits ==
    ASSUME LInv, BatchTypes, RequestTypes,
           NEW x \in Transactions, OthersStay(x), MessagesStep(x), NoneFresh',
           (x \in Workers /\ tx'[x] = IdleTx) \/ (x \in Clients /\ client'[x] = IdleClient)
    PROVE  LInv'
<1>1. Exclusive' /\ Apart'
  BY EndedLocks DEF LInv
<1>2. \A v \in Workers : BatchFits(v)'
  BY OtherBatchesFit, IdleBatchFits, TransactionsAssumption
<1>3. \A d \in Clients : RequestFits(d)'
  BY OtherRequestsFit, IdleRequestFits, TransactionsAssumption
<1> QED
  BY <1>1, <1>2, <1>3 DEF LInv

LEMMA FreshStep ==
    ASSUME NoneFresh, NEW x, MessagesStep(x), UNCHANGED <<sent, undone>>
    PROVE  NoneFresh'
  BY DEF NoneFresh, MessagesStep

LEMMA CommitLocks ==
    ASSUME NEW w \in Workers, TInv, LInv, Commit(w)
    PROVE  LInv' /\ MessagesStep(w) /\ OthersStay(w)
<1>1. OthersStay(w) /\ w \in Transactions /\ tx'[w] = IdleTx
  BY CommitEffect DEF OthersStay, BatchEnds, Transactions
<1>2. MessagesStep(w)
  <2>1. ASSUME NEW m \in Batch(w)
        PROVE  NoOther(w, MessageRow(m)) /\ msg[m].status # "none"
               /\ tx[w].rows[m].status # "none"
    <3>1. MessageRow(m) \in Held(w)
      BY HeldByWorker
    <3> QED
      BY <1>1, <3>1, HeldAlone
         DEF LInv, BatchFits, TInv, BatchTypes, BatchShape, RowsShape
  <2>2. tx[w].new = Making(w)
    BY DEF Making
  <2> QED
    BY <2>1, <2>2, CommitEffect DEF MessagesStep
<1> QED
  BY <1>1, <1>2, EndedFits, FreshStep, CommitEffect DEF TInv, LInv, HistoryKept

LEMMA RollBackLocks ==
    ASSUME NEW w \in Workers, TInv, LInv, RollBack(w)
    PROVE  LInv'
<1>1. /\ OthersStay(w) /\ w \in Transactions /\ tx'[w] = IdleTx /\ MessagesStep(w)
      /\ BatchTypes /\ RequestTypes
  BY BatchEndsTypes DEF RollBack, TInv, OthersStay, BatchEnds, Transactions, MessagesStep, database
<1>2. NoneFresh'
  <2>1. \A m \in tx[w].out : msg[m].status = "scheduled"
    BY DEF TInv, BatchTypes, BatchShape, RowsShape, LInv, BatchFits
  <2>2. \A m \in Messages : undone'[m] = undone[m] + (IF m \in tx[w].out THEN 1 ELSE 0)
    BY DEF RollBack
  <2>3. \A m \in Messages : undone[m] \in Nat
    BY DEF TInv, HistoryTypes
  <2> QED
    BY <2>1, <2>2, <2>3 DEF LInv, NoneFresh, RollBack, database
<1> QED
  BY <1>1, <1>2, EndedFits

LEMMA RequestStepLocks ==
    ASSUME NEW c \in Clients, TInv, LInv, RequestStep(c)
    PROVE  LInv'
<1>0. /\ OthersStay(c) /\ c \in Transactions /\ MessagesStep(c) /\ msg' = msg
      /\ UNCHANGED <<sent, undone>> /\ c \notin Workers
      /\ BatchTypes /\ RequestTypes /\ RequestShape(c) /\ client[c] \in ClientRecord
      /\ RequestShape(c)'
  BY TransactionsAssumption, RequestStepShape
     DEF RequestStep, OnlyRequest, OthersStay, Transactions, MessagesStep, TInv, HistoryKept,
         RequestTypes, ClientTypes
<1>1. NoneFresh'
  BY <1>0, FreshStep DEF LInv
<1>2. CASE Ends(c)
  BY <1>0, <1>1, <1>2, EndedFits DEF Ends
<1>3. ASSUME ~Ends(c)
      PROVE  \A row \in Held(c)' : row \in Held(c) \/ NoOther(c, row)
  <2> SUFFICES ASSUME NEW row \in Held(c)'
               PROVE  row \in Held(c) \/ NoOther(c, row)
    OBVIOUS
  <2>0. \/ /\ client'[c].op = "start" /\ client'[c].pc = "schedule"
           /\ row = CampaignRow \/ \E m \in client'[c].rows : row = RecipientRow(to(m))
        \/ /\ client'[c].op = "remove" /\ client'[c].pc = "delete"
           /\ \E m \in client'[c].rows : row = MessageRow(m)
        \/ /\ client'[c].op \in Events /\ client'[c].pc \in {"stop", "snapshot", "cancel"}
           /\ \/ row = CampaignRow
              \/ client'[c].op # "unsubscribed" /\ row = MessageRow(client'[c].m)
              \/ client'[c].pc # "stop" /\ row = RecipientRow(client'[c].r)
    <3>1. HeldRule'
      BY HeldAlways, PTL
    <3> QED
      BY <3>1 DEF HeldRule
  <2>1. CASE Begins(c)
    BY <2>0, <2>1 DEF Begins, Events
  <2>2. CASE Lists(c)
    BY <1>0, <2>0, <2>2 DEF Lists, SameRequest, RequestShape
  <2>3. CASE SchedulesOne(c)
    <3>1. PICK r \in client[c].todo :
             \/ client'[c].rows = client[c].rows
             \/ /\ NoOther(c, RecipientRow(r))
                /\ \E m \in NewRow(r, 1) : client'[c].rows = client[c].rows \cup {m}
      BY <2>3 DEF SchedulesOne
    <3>2. \A m \in NewRow(r, 1) : to(m) = r
      <4>1. r \in Recipients /\ 1 \in 1..Steps
        BY <1>0, StepsAssumption DEF ClientRecord
      <4> QED
        BY <4>1, NewRowType
    <3>3. client[c].op = "start" /\ client[c].pc = "schedule" /\ client'[c].op = "start"
      BY <1>0, <2>3 DEF SchedulesOne, SameRequest, RequestShape
    <3>4. row = CampaignRow \/ \E m \in client'[c].rows : row = RecipientRow(to(m))
      BY <2>0, <3>3 DEF Events
    <3>5. row = CampaignRow => row \in Held(c)
      BY <3>3, HeldByClient
    <3>6. ASSUME NEW m \in client'[c].rows, row = RecipientRow(to(m))
          PROVE  row \in Held(c) \/ NoOther(c, row)
      <4>1. CASE m \in client[c].rows
        BY <3>3, <3>6, <4>1, HeldByClient
      <4>2. CASE m \notin client[c].rows
        BY <3>1, <3>2, <3>6, <4>2
      <4> QED
        BY <4>1, <4>2
    <3> QED
      BY <3>4, <3>5, <3>6
  <2>4. CASE Records(c)
    BY <1>0, <2>0, <2>4 DEF Records, SameRequest, RequestShape
  <2>5. CASE Locks(c)
    <3>1. client[c].op \in Events /\ client[c].pc = "stop" /\ client'[c].pc = "snapshot"
      BY <1>0, <2>5 DEF Locks, RequestShape
    <3>2. \/ row = CampaignRow
          \/ client[c].op # "unsubscribed" /\ row = MessageRow(client[c].m)
          \/ row = RecipientRow(client[c].r)
      BY <2>0, <2>5 DEF Locks, SameRequest
    <3> QED
      BY <2>5, <3>1, <3>2, HeldByClient DEF Locks
  <2>6. CASE Snapshots(c)
    <3>1. client[c].pc = "snapshot" /\ client'[c].pc = "cancel" /\ client[c].op \in Events
      BY <2>0, <2>6 DEF Snapshots, SameRequest
    <3>2. \/ row = CampaignRow
          \/ client[c].op # "unsubscribed" /\ row = MessageRow(client[c].m)
          \/ row = RecipientRow(client[c].r)
      BY <2>0, <2>6, <3>1 DEF Snapshots, SameRequest
    <3> QED
      BY <3>1, <3>2, HeldByClient
  <2>7. CASE TakesRows(c)
    BY <2>0, <2>7 DEF TakesRows, SameRequest, Events
  <2> QED
    BY <1>3, <2>1, <2>2, <2>3, <2>4, <2>5, <2>6, <2>7 DEF RequestStep
<1>4. ASSUME ~Ends(c)
      PROVE  \A m \in Making(c)' : m \in Making(c) \/ ~Taken(m)
  <2>1. CASE SchedulesOne(c)
    <3>1. client[c].op = "start" /\ client'[c].op = "start"
      BY <1>0, <2>1 DEF SchedulesOne, SameRequest, RequestShape
    <3>2. \A r \in client[c].todo : \A m \in NewRow(r, 1) : ~Taken(m)
      <4>1. client[c].todo \subseteq Recipients /\ 1 \in 1..Steps
        BY <1>0, StepsAssumption DEF ClientRecord
      <4> QED
        BY <4>1, NewRowType
    <3> QED
      BY <1>0, <2>1, <3>1, <3>2 DEF SchedulesOne, Making
  <2>2. CASE Begins(c) \/ Lists(c)
    BY <1>0, <2>2 DEF Begins, Lists, Making, RequestShape
  <2>3. CASE Records(c) \/ Locks(c) \/ Snapshots(c) \/ TakesRows(c)
    BY <1>0, <2>3 DEF Records, Locks, Snapshots, TakesRows, SameRequest, Making, RequestShape,
       Events
  <2> QED
    BY <1>4, <2>1, <2>2, <2>3 DEF RequestStep
<1>5. ASSUME ~Ends(c)
      PROVE  RequestFits(c)'
  <2>0. RequestFits(c)
    BY DEF LInv
  <2>1. ASSUME client'[c].op = "start", NEW m \in client'[c].rows
        PROVE  msg[m].status = "none"
    <3>1. m \in Making(c)'
      BY <1>0, <2>1 DEF Making
    <3>2. m \in Making(c) => msg[m].status = "none"
      BY <1>0, MakingIsFresh
    <3> QED
      BY <1>4, <1>5, <3>1, <3>2 DEF Taken
  <2>2. ASSUME client'[c].op \in Events
        PROVE  msg[client'[c].m].status # "none"
    <3>1. CASE Begins(c)
      <4>1. client'[c].m \in Messages /\ sent[client'[c].m] > 0
        BY <2>2, <3>1 DEF Begins, Events, Transitions
      <4> QED
        BY <4>1 DEF LInv, NoneFresh, TInv, HistoryTypes
    <3>2. CASE SameRequest(c)
      BY <2>0, <2>2, <3>2 DEF SameRequest, RequestFits
    <3> QED
      BY <1>5, <3>1, <3>2
         DEF RequestStep, Lists, SchedulesOne, Records, Locks, Snapshots, TakesRows
  <2>3. ASSUME client'[c].pc = "delete", NEW m \in client'[c].rows
        PROVE  msg[m].status = "scheduled"
    <3>1. TakesRows(c)
      BY <1>5, <2>3
         DEF RequestStep, Begins, Lists, SchedulesOne, Records, Locks, Snapshots
    <3> QED
      BY <2>3, <3>1 DEF TakesRows
  <2> QED
    BY <1>0, <2>1, <2>2, <2>3 DEF RequestFits
<1>6. CASE ~Ends(c)
  <2>1. Exclusive' /\ Apart'
    BY <1>0, <1>3, <1>4, <1>6, LocksStep, MakingStep DEF LInv
  <2>2. \A v \in Workers : BatchFits(v)'
    BY <1>0, OtherBatchesFit
  <2>3. \A d \in Clients : RequestFits(d)'
    BY <1>0, <1>5, <1>6, OtherRequestsFit
  <2> QED
    BY <1>1, <2>1, <2>2, <2>3 DEF LInv
<1> QED
  BY <1>2, <1>6

\* A request that commits writes what is its own, or what nobody else holds.
RequestCommits(c) ==
    \/ CommitStart(c) \/ DeleteRecipient(c)
    \/ \E cancelled, stopped : EventEnds(c, cancelled, stopped)

LEMMA CommitsOwnRows ==
    ASSUME NEW c \in Clients, TInv, LInv, RequestCommits(c)
    PROVE  /\ MessagesStep(c) /\ OthersStay(c) /\ client'[c] = IdleClient /\ tx' = tx
           /\ UNCHANGED <<sent, undone, late>>
<1>0. c \in Transactions /\ c \notin Workers /\ RequestShape(c) /\ RequestFits(c)
  BY TransactionsAssumption DEF Transactions, TInv, RequestTypes, LInv
<1>1. CASE CommitStart(c)
  <2>1. \A m \in client[c].rows : m \in Making(c)
    BY <1>0, <1>1, CommitStartEffect DEF Making
  <2> QED
    BY <1>1, <2>1, CommitStartEffect DEF MessagesStep, OthersStay, OnlyRequest, Ends
<1>2. CASE DeleteRecipient(c)
  <2>1. ASSUME NEW m \in client[c].rows
        PROVE  NoOther(c, MessageRow(m)) /\ msg[m].status # "none"
    <3>1. MessageRow(m) \in Held(c)
      BY <1>2, DeleteRecipientEffect, HeldByClient
    <3> QED
      BY <1>0, <1>2, <3>1, DeleteRecipientEffect, HeldAlone DEF LInv, RequestFits
  <2> QED
    BY <1>2, <2>1, DeleteRecipientEffect DEF MessagesStep, OthersStay, OnlyRequest, Ends
<1>3. ASSUME NEW cancelled, NEW stopped, EventEnds(c, cancelled, stopped)
      PROVE  /\ MessagesStep(c) /\ OthersStay(c) /\ client'[c] = IdleClient /\ tx' = tx
             /\ UNCHANGED <<sent, undone, late>>
  <2>1. \A m \in cancelled : NoOther(c, MessageRow(m)) /\ msg[m].status # "none"
    BY <1>3 DEF EventEnds
  <2>2. client[c].op = "bounced" =>
           NoOther(c, MessageRow(client[c].m)) /\ msg[client[c].m].status # "none"
    <3>1. client[c].op \in Events /\ client[c].pc \in {"stop", "cancel"}
      BY <1>3 DEF EventEnds
    <3>2. client[c].op = "bounced" => MessageRow(client[c].m) \in Held(c)
      BY <3>1, HeldByClient
    <3> QED
      BY <1>0, <3>1, <3>2, HeldAlone DEF LInv, RequestFits
  <2>3. MessagesStep(c)
    BY <1>3, <2>1, <2>2, EventEndsEffect DEF MessagesStep
  <2> QED
    BY <1>3, <2>3, EventEndsEffect DEF OthersStay, OnlyRequest, Ends
<1> QED
  BY <1>1, <1>2, <1>3 DEF RequestCommits

LEMMA RequestCommitsLocks ==
    ASSUME NEW c \in Clients, TInv, LInv, RequestCommits(c)
    PROVE  LInv'
<1>1. c \in Transactions
  BY DEF Transactions
<1>2. NoneFresh'
  BY CommitsOwnRows, FreshStep DEF LInv
<1> QED
  BY <1>1, <1>2, CommitsOwnRows, EndedFits DEF TInv

\* The steps that change neither messages nor transactions.
Bystander == UNCHANGED <<rcpt, msg, unsub, tx, client, sent, undone, late, starts>>

LEMMA BystanderLocks ==
    ASSUME LInv, Bystander
    PROVE  LInv'
<1>1. \A x : Held(x)' = Held(x) /\ Making(x)' = Making(x)
  BY DEF Bystander, Held, HeldBySender, HeldByRequest, HeldByEvent, Making, Batch
<1>2. Exclusive' /\ Apart'
  BY <1>1 DEF LInv, Exclusive, Apart
<1>3. /\ \A w \in Workers : BatchFits(w)'
      /\ \A c \in Clients : RequestFits(c)'
  BY DEF Bystander, LInv, BatchFits, RequestFits, Batch, Waiting, Handled
<1> QED
  BY <1>2, <1>3 DEF LInv, NoneFresh, Bystander

LEMMA AllCases ==
    ASSUME TInv, [Next]_vars
    PROVE  \/ \E w \in Workers : BatchStep(w) \/ Commit(w) \/ RollBack(w)
           \/ \E c \in Clients : RequestStep(c) \/ RequestCommits(c)
           \/ Bystander
<1>1. Disconnect \/ UNCHANGED <<database, tx, client, history>> => Bystander
  BY DEF Disconnect, Bystander, database, history
<1> QED
  BY <1>1, Cases DEF RequestCommits

LEMMA LocksNext == TInv /\ LInv /\ [Next]_vars => LInv'
  BY AllCases, BatchStepLocks, CommitLocks, RollBackLocks, RequestStepLocks,
     RequestCommitsLocks, BystanderLocks

LEMMA LocksInit == Init => LInv
<1> SUFFICES ASSUME Init PROVE LInv
  OBVIOUS
<1>1. \A x \in Transactions : Held(x) = {} /\ Making(x) = {}
  BY DEF Init, Transactions, Held, HeldBySender, HeldByRequest, Making, Batch, IdleTx,
         IdleClient, Events
<1>2. Exclusive /\ Apart
  BY <1>1 DEF Exclusive, Apart
<1>3. /\ \A w \in Workers : BatchFits(w)
      /\ \A c \in Clients : RequestFits(c)
  BY DEF Init, BatchFits, RequestFits, Batch, Waiting, Handled, IdleTx, IdleClient, Events
<1> QED
  BY <1>2, <1>3 DEF LInv, NoneFresh, Init

-----------------------------------------------------------------------------
(* Every email that went out is accounted for.                             *)

Spare(row) == IF row.status \in {"none", "scheduled"} THEN 0 ELSE 1
Worth(row) == row.tries + Spare(row)
Out(m) == IF \E w \in Workers : m \in tx[w].out THEN 1 ELSE 0
Explained(m) ==
    /\ sent[m] <= Worth(msg[m]) + undone[m] + Out(m)
    /\ \A w \in Workers : m \in Batch(w) => sent[m] <= Worth(tx[w].rows[m]) + undone[m]
SInv == \A m \in Messages : Explained(m)

LEMMA Numbers ==
    ASSUME TInv, NEW m \in Messages
    PROVE  /\ sent[m] \in Nat /\ undone[m] \in Nat /\ msg[m].tries \in Nat
           /\ Worth(msg[m]) \in Nat /\ Out(m) \in {0, 1}
           /\ \A w \in Workers : m \in Batch(w) =>
                 tx[w].rows[m].tries \in Nat /\ Worth(tx[w].rows[m]) \in Nat
<1>1. msg[m] \in MessageData /\ sent[m] \in Nat /\ undone[m] \in Nat
  BY DEF TInv, DatabaseTypes, MessageTypes, HistoryTypes
<1>2. \A w \in Workers : m \in Batch(w) => tx[w].rows[m] \in MessageData
  BY OldBatch DEF TInv, BatchTypes, Batch, Partial
<1>3. \A row \in MessageData : row.tries \in Nat /\ Worth(row) \in Nat
  BY BatchAssumption DEF MessageData, Worth, Spare
<1> QED
  BY <1>1, <1>2, <1>3 DEF Out

LEMMA NumbersNext ==
    ASSUME TInv', NEW m \in Messages
    PROVE  /\ sent'[m] \in Nat /\ undone'[m] \in Nat /\ msg'[m].tries \in Nat
           /\ Worth(msg'[m]) \in Nat /\ Out(m)' \in {0, 1}
<1>1. msg'[m] \in MessageData /\ sent'[m] \in Nat /\ undone'[m] \in Nat
  BY DEF TInv, DatabaseTypes, MessageTypes, HistoryTypes
<1>3. \A row \in MessageData : row.tries \in Nat /\ Worth(row) \in Nat
  BY BatchAssumption DEF MessageData, Worth, Spare
<1> QED
  BY <1>1, <1>3 DEF Out

\* A send makes the row of its message worth one more.
LEMMA RowsPay ==
    ASSUME NEW w \in Workers, TInv, LInv, BatchStep(w), ~TakesBatch(w),
           NEW m \in Batch(w)
    PROVE  /\ m \in Messages
           /\ Worth(tx'[w].rows[m]) \in Nat
           /\ sent'[m] - sent[m] <= Worth(tx'[w].rows[m]) - Worth(tx[w].rows[m])
<1>0. /\ TxTypes /\ BatchShape(w) /\ BatchFits(w) /\ sent \in [Messages -> Nat]
      /\ m \in Messages /\ sent[m] \in Nat
      /\ tx[w].rows[m].tries \in Nat /\ Worth(tx[w].rows[m]) \in Nat
  BY OldBatch, Numbers DEF TInv, BatchTypes, LInv, HistoryTypes
<1> DEFINE Goal == /\ Worth(tx'[w].rows[m]) \in Nat
                   /\ sent'[m] - sent[m] <= Worth(tx'[w].rows[m]) - Worth(tx[w].rows[m])
<1>1. ASSUME tx'[w].rows[m] = tx[w].rows[m], sent'[m] = sent[m]
      PROVE  Goal
  BY <1>0, <1>1
<1>2. ASSUME NEW n, Leaves(w, n), sent' = sent PROVE Goal
  <2>1. PICK row \in MessageData :
           /\ Rewrites(w, n, row) /\ row.tries = tx[w].rows[n].tries
           /\ row.status \in {"failed", "scheduled", "cancelled"}
    BY <1>0, <1>2, LeavesRow
  <2>2. CASE m = n
    <3>1. n \in Waiting(w)
      BY <1>0, <1>2 DEF Leaves, Waiting, Handled
    <3>2. tx[w].rows[n].status = "scheduled"
      BY <1>0, <3>1 DEF BatchShape, RowsShape
    <3> QED
      BY <1>0, <1>2, <2>1, <2>2, <3>2 DEF Worth, Spare, Rewrites
  <2>3. CASE m # n
    <3>1. tx'[w].rows[m] = tx[w].rows[m]
      BY <2>1, <2>3 DEF Rewrites, Batch
    <3> QED
      BY <1>0, <1>2, <3>1
  <2> QED
    BY <2>2, <2>3
<1>3. ASSUME tx[w].pc = "send", NEW row \in MessageData, Rewrites(w, tx[w].cur, row),
             \/ sent' = sent /\ row.tries >= tx[w].rows[tx[w].cur].tries
             \/ /\ HandOver(tx[w].cur)
                /\ \/ /\ row.status \in {"sent", "failed"}
                      /\ row.tries = tx[w].rows[tx[w].cur].tries
                   \/ row.tries = tx[w].rows[tx[w].cur].tries + 1
      PROVE  Goal
  <2>1. CASE m = tx[w].cur
    <3>1. m \in Waiting(w)
      BY <1>0, <1>3, <2>1 DEF Waiting, Handled, BatchShape, PlaceShape
    <3>2. tx[w].rows[m].status = "scheduled"
      BY <1>0, <3>1 DEF BatchShape, RowsShape
    <3>3. Spare(tx[w].rows[m]) = 0 /\ Spare(row) \in {0, 1}
      BY <3>2 DEF Spare
    <3>4. tx'[w].rows[m] = row /\ row.tries \in Nat
      BY <1>3, <2>1, BatchAssumption DEF Rewrites, MessageData
    <3>5. HandOver(m) => sent'[m] = sent[m] + 1
      BY <1>0 DEF HandOver
    <3>6. row.status \in {"sent", "failed"} => Spare(row) = 1
      BY DEF Spare
    <3> QED
      BY <1>0, <1>3, <2>1, <3>3, <3>4, <3>5, <3>6 DEF Worth
  <2>2. CASE m # tx[w].cur
    <3>1. tx'[w].rows[m] = tx[w].rows[m]
      BY <1>3, <2>2 DEF Rewrites, Batch
    <3>2. sent'[m] = sent[m]
      BY <1>0, <1>3, <2>2 DEF HandOver
    <3> QED
      BY <1>1, <3>1, <3>2
  <2> QED
    BY <2>1, <2>2
<1>4. CASE Sends(w) /\ HandOver(tx[w].cur)
  BY <1>0, <1>3, <1>4, SendsRow DEF Sends
<1>5. CASE /\ Fails(w)
           /\ \/ HandOver(tx[w].cur)
              \/ UNCHANGED <<sent, late>>
  <2>1. PICK row \in MessageData :
              /\ Rewrites(w, tx[w].cur, row)
              /\ \/ row.status = "failed" /\ row.tries = tx[w].rows[tx[w].cur].tries
                 \/ row.tries = tx[w].rows[tx[w].cur].tries + 1
    BY <1>0, <1>5, FailsRow
  <2>2. tx[w].pc = "send" /\ tx[w].rows[tx[w].cur].tries \in Nat
    <3>1. tx[w].cur \in Batch(w) /\ tx[w].pc = "send"
      BY <1>0, <1>5 DEF Fails, BatchShape, PlaceShape
    <3>2. tx[w].cur \in Messages
      BY <1>0, <3>1, OldBatch
    <3> QED
      BY <3>1, <3>2, Numbers
  <2>3. row.tries >= tx[w].rows[tx[w].cur].tries
    BY <2>1, <2>2
  <2>4. row.status = "failed" => row.status \in {"sent", "failed"}
    OBVIOUS
  <2>5. CASE sent' = sent
    BY <1>0, <1>3, <2>1, <2>2, <2>3, <2>5
  <2>6. CASE HandOver(tx[w].cur)
    <3>1. \/ /\ row.status \in {"sent", "failed"}
             /\ row.tries = tx[w].rows[tx[w].cur].tries
          \/ row.tries = tx[w].rows[tx[w].cur].tries + 1
      BY <2>1, <2>4
    <3> QED
      BY <1>0, <1>3, <2>1, <2>2, <2>6, <3>1
  <2> QED
    BY <1>5, <2>5, <2>6
<1>6. CASE (Counts(w) \/ Plans(w) \/ PassesOn(w) \/ Moves(w)) /\ UNCHANGED <<sent, late>>
  <2>1. tx'[w].rows = tx[w].rows
    BY <1>6 DEF Counts, Plans, PassesOn, Moves, SameRows
  <2> QED
    BY <1>0, <1>1, <1>6, <2>1
<1>7. ASSUME NEW n, GoesToSend(w, n), UNCHANGED <<sent, late>> PROVE Goal
  BY <1>1, <1>7 DEF GoesToSend, SameRows
<1> QED
  BY <1>0, <1>2, <1>4, <1>5, <1>6, <1>7 DEF BatchStep, Quietly

\* A message is sent by the worker that holds it, once in a batch.
LEMMA OutPays ==
    ASSUME NEW w \in Workers, TInv, LInv, BatchStep(w), NEW m \in Messages
    PROVE  sent'[m] \in Nat /\ sent'[m] - sent[m] <= Out(m)' - Out(m)
<1>0. /\ TxTypes /\ BatchShape(w) /\ sent \in [Messages -> Nat] /\ sent[m] \in Nat
      /\ Out(m) \in {0, 1} /\ Out(m)' \in {0, 1} /\ Only(w)
  BY Numbers DEF TInv, BatchTypes, HistoryTypes, BatchStep, Out
<1>1. ASSUME tx'[w].out = tx[w].out
      PROVE  Out(m)' = Out(m)
  <2>1. \A v \in Workers : tx'[v].out = tx[v].out
    BY <1>0, <1>1 DEF Only
  <2> QED
    BY <2>1 DEF Out
<1>2. ASSUME tx[w].pc = "send", tx'[w].out = tx[w].out \cup {tx[w].cur}, HandOver(tx[w].cur)
      PROVE  sent'[m] \in Nat /\ sent'[m] - sent[m] <= Out(m)' - Out(m)
  <2>1. CASE m = tx[w].cur
    <3>1. m \in Waiting(w) /\ m \in Batch(w)
      BY <1>0, <1>2, <2>1 DEF Waiting, Handled, BatchShape, PlaceShape
    <3>2. \A v \in Workers : m \notin tx[v].out
      <4>1. m \notin tx[w].out
        BY <1>0, <3>1 DEF BatchShape, RowsShape
      <4>2. ASSUME NEW v \in Workers, v # w, m \in tx[v].out PROVE FALSE
        <5>1. m \in Batch(v)
          BY <4>2 DEF TInv, BatchTypes, BatchShape, RowsShape
        <5>2. MessageRow(m) \in Held(v) /\ MessageRow(m) \in Held(w)
          BY <3>1, <5>1, HeldByWorker
        <5> QED
          BY <4>2, <5>2 DEF LInv, Exclusive, Transactions
      <4> QED
        BY <4>1, <4>2
    <3>3. Out(m) = 0 /\ Out(m)' = 1
      BY <1>2, <2>1, <3>2 DEF Out
    <3>4. sent'[m] = sent[m] + 1
      BY <1>0, <1>2, <2>1 DEF HandOver
    <3> QED
      BY <1>0, <3>3, <3>4
  <2>2. CASE m # tx[w].cur
    <3>1. sent'[m] = sent[m]
      BY <1>0, <1>2, <2>2 DEF HandOver
    <3>2. \A v \in Workers : m \in tx'[v].out <=> m \in tx[v].out
      BY <1>0, <1>2, <2>2 DEF Only
    <3>3. Out(m)' = Out(m)
      BY <3>2 DEF Out
    <3> QED
      BY <1>0, <3>1, <3>3
  <2> QED
    BY <2>1, <2>2
<1>3. CASE Quietly(w) /\ UNCHANGED <<sent, late>>
  <2>1. CASE TakesBatch(w)
    <3>1. tx'[w].out = {} /\ tx[w].out = {}
      BY <1>0, <2>1 DEF TakesBatch, BatchShape, PlaceShape, RowsShape
    <3> QED
      BY <1>0, <1>1, <1>3, <3>1
  <2>2. CASE ~TakesBatch(w)
    <3>1. tx'[w].out = tx[w].out
      BY <1>3, <2>2 DEF Quietly, Leaves, GoesToSend, Counts, Plans, PassesOn, Moves, SameRows
    <3> QED
      BY <1>0, <1>1, <1>3, <3>1
  <2> QED
    BY <2>1, <2>2
<1>4. CASE Fails(w) /\ tx'[w].out = tx[w].out /\ UNCHANGED <<sent, late>>
  BY <1>0, <1>1, <1>4
<1>5. CASE Sends(w) /\ HandOver(tx[w].cur)
  BY <1>2, <1>5 DEF Sends
<1>6. CASE Fails(w) /\ tx'[w].out = tx[w].out \cup {tx[w].cur} /\ HandOver(tx[w].cur)
  BY <1>2, <1>6 DEF Fails
<1> QED
  BY <1>3, <1>4, <1>5, <1>6 DEF BatchStep

LEMMA NobodyElseHasIt ==
    ASSUME LInv, NEW w \in Workers, NEW m, NoOther(w, MessageRow(m)), NEW v \in Workers,
           v # w
    PROVE  m \notin Batch(v)
  BY HeldByWorker DEF NoOther, Transactions

LEMMA BatchStepExplained ==
    ASSUME NEW w \in Workers, TInv, TInv', LInv, SInv, BatchStep(w)
    PROVE  SInv'
<1> SUFFICES ASSUME NEW m \in Messages PROVE Explained(m)'
  BY DEF SInv
<1>0. /\ Explained(m) /\ msg' = msg /\ undone' = undone /\ Only(w)
      /\ sent[m] \in Nat /\ undone[m] \in Nat /\ Worth(msg[m]) \in Nat /\ Out(m) \in {0, 1}
      /\ Out(m)' \in {0, 1}
      /\ sent'[m] \in Nat /\ sent'[m] - sent[m] <= Out(m)' - Out(m)
  BY Numbers, OutPays DEF SInv, BatchStep, DatabaseKept, Out
<1>1. sent'[m] <= Worth(msg'[m]) + undone'[m] + Out(m)'
  BY <1>0 DEF Explained
<1>2. ASSUME NEW v \in Workers, m \in Batch(v)'
      PROVE  sent'[m] <= Worth(tx'[v].rows[m]) + undone'[m]
  <2>1. CASE v # w
    <3>1. tx'[v] = tx[v] /\ m \in Batch(v)
      BY <1>0, <1>2, <2>1 DEF Only, Batch
    <3>2. m \notin Batch(w)
      <4>1. MessageRow(m) \in Held(v)
        BY <3>1, HeldByWorker
      <4> QED
        BY <2>1, <4>1, HeldByWorker DEF LInv, Exclusive, Transactions
    <3>3. sent'[m] = sent[m]
      BY <3>2, SentByHolder
    <3> QED
      BY <1>0, <3>1, <3>3 DEF Explained
  <2>2. CASE v = w /\ TakesBatch(w)
    <3>1. /\ tx'[w].rows[m] = msg[m] /\ Free(w, MessageRow(m)) /\ tx[w].pc = "idle"
      BY <1>2, <2>2 DEF TakesBatch, Batch
    <3>2. \A u \in Workers : m \notin Batch(u)
      <4>1. m \notin Batch(w)
        BY <3>1 DEF TInv, BatchTypes, BatchShape, PlaceShape
      <4>2. NoOther(w, MessageRow(m))
        BY <3>1 DEF Free, Blocks, NoOther
      <4> QED
        BY <4>1, <4>2, NobodyElseHasIt
    <3>3. Out(m) = 0
      BY <3>2 DEF Out, TInv, BatchTypes, BatchShape, RowsShape
    <3>4. sent'[m] = sent[m]
      BY <3>2, SentByHolder
    <3> QED
      BY <1>0, <2>2, <3>1, <3>3, <3>4 DEF Explained
  <2>3. CASE v = w /\ ~TakesBatch(w)
    <3>1. m \in Batch(w)
      BY <1>2, <2>3, BatchStepRows
    <3>2. /\ Worth(tx'[w].rows[m]) \in Nat /\ Worth(tx[w].rows[m]) \in Nat
          /\ sent'[m] - sent[m] <= Worth(tx'[w].rows[m]) - Worth(tx[w].rows[m])
      BY <2>3, <3>1, RowsPay, Numbers
    <3>3. sent[m] <= Worth(tx[w].rows[m]) + undone[m]
      BY <1>0, <3>1 DEF Explained
    <3> QED
      BY <1>0, <2>3, <3>2, <3>3
  <2> QED
    BY <2>1, <2>2, <2>3
<1> QED
  BY <1>1, <1>2 DEF Explained

LEMMA BatchEndsExplained ==
    ASSUME NEW w \in Workers, BatchEnds(w), TInv, TInv', LInv, NEW m \in Messages,
           Explained(m), sent' = sent, undone'[m] >= undone[m],
           Worth(msg'[m]) + undone'[m] + Out(m)' >= sent[m]
    PROVE  Explained(m)'
<1>1. ASSUME NEW v \in Workers, m \in Batch(v)'
      PROVE  sent'[m] <= Worth(tx'[v].rows[m]) + undone'[m]
  <2>1. v # w
    BY <1>1 DEF BatchEnds, Batch, IdleTx
  <2>2. tx'[v] = tx[v] /\ m \in Batch(v)
    BY <1>1, <2>1 DEF BatchEnds, Batch
  <2>3. sent[m] <= Worth(tx[v].rows[m]) + undone[m]
    BY <2>2 DEF Explained
  <2>4. /\ sent[m] \in Nat /\ undone[m] \in Nat /\ undone'[m] \in Nat
        /\ Worth(tx[v].rows[m]) \in Nat
    BY <2>2, Numbers, NumbersNext
  <2> QED
    BY <2>2, <2>3, <2>4
<1>2. sent'[m] <= Worth(msg'[m]) + undone'[m] + Out(m)'
  BY Numbers, NumbersNext
<1> QED
  BY <1>1, <1>2 DEF Explained

LEMMA OutAfterBatch ==
    ASSUME NEW w \in Workers, BatchEnds(w), NEW m
    PROVE  /\ m \notin tx[w].out => Out(m)' = Out(m)
           /\ Out(m) \in {0, 1} /\ Out(m)' \in {0, 1}
<1>1. tx'[w].out = {} /\ \A v \in Workers : v # w => tx'[v].out = tx[v].out
  BY DEF BatchEnds, IdleTx
<1>2. m \notin tx[w].out => \A v \in Workers : m \in tx'[v].out <=> m \in tx[v].out
  BY <1>1
<1> QED
  BY <1>2 DEF Out

LEMMA CommitExplained ==
    ASSUME NEW w \in Workers, TInv, TInv', LInv, SInv, Commit(w)
    PROVE  SInv'
<1> SUFFICES ASSUME NEW m \in Messages PROVE Explained(m)'
  BY DEF SInv
<1>0. /\ Explained(m) /\ BatchEnds(w) /\ sent' = sent /\ undone' = undone
      /\ sent[m] \in Nat /\ undone[m] \in Nat /\ Worth(msg[m]) \in Nat
      /\ Worth(msg'[m]) \in Nat /\ Out(m) \in {0, 1} /\ Out(m)' \in {0, 1}
  BY Numbers, NumbersNext, CommitEffect DEF SInv, HistoryKept
<1>1. Worth(msg'[m]) + undone'[m] + Out(m)' >= sent[m]
  <2>1. CASE m \in Batch(w)
    <3>1. msg'[m] = tx[w].rows[m]
      BY <2>1, CommitEffect
    <3> QED
      BY <1>0, <2>1, <3>1 DEF Explained
  <2>2. CASE m \notin Batch(w) /\ m \in tx[w].new
    <3>1. sent[m] = 0
      BY <2>2 DEF LInv, BatchFits, NoneFresh
    <3> QED
      BY <1>0, <3>1
  <2>3. CASE m \notin Batch(w) /\ m \notin tx[w].new
    <3>1. msg'[m] = msg[m]
      BY <2>3, CommitEffect
    <3>2. m \notin tx[w].out
      BY <2>3 DEF TInv, BatchTypes, BatchShape, RowsShape
    <3>3. Out(m)' = Out(m)
      BY <1>0, <3>2, OutAfterBatch
    <3> QED
      BY <1>0, <3>1, <3>3 DEF Explained
  <2> QED
    BY <2>1, <2>2, <2>3
<1> QED
  BY <1>0, <1>1, BatchEndsExplained

LEMMA RollBackExplained ==
    ASSUME NEW w \in Workers, TInv, TInv', LInv, SInv, RollBack(w)
    PROVE  SInv'
<1> SUFFICES ASSUME NEW m \in Messages PROVE Explained(m)'
  BY DEF SInv
<1>0. /\ Explained(m) /\ BatchEnds(w) /\ sent' = sent /\ msg' = msg
      /\ undone'[m] = undone[m] + (IF m \in tx[w].out THEN 1 ELSE 0)
      /\ sent[m] \in Nat /\ undone[m] \in Nat /\ undone'[m] \in Nat /\ Worth(msg[m]) \in Nat
  BY Numbers, NumbersNext, BatchEndsTypes DEF SInv, RollBack, TInv, database
<1>1. /\ Out(m) \in {0, 1} /\ Out(m)' \in {0, 1}
      /\ m \notin tx[w].out => Out(m)' = Out(m)
  BY <1>0, OutAfterBatch
<1>2. Worth(msg'[m]) + undone'[m] + Out(m)' >= sent[m]
  BY <1>0, <1>1 DEF Explained
<1>3. undone'[m] >= undone[m]
  BY <1>0
<1> QED
  BY <1>0, <1>2, <1>3, BatchEndsExplained

LEMMA RequestExplained ==
    ASSUME TInv, TInv', LInv, SInv, tx' = tx, UNCHANGED <<sent, undone>>,
           \A m \in Messages : msg[m].status = "none" \/ Worth(msg'[m]) >= Worth(msg[m])
    PROVE  SInv'
<1> SUFFICES ASSUME NEW m \in Messages PROVE Explained(m)'
  BY DEF SInv
<1>0. /\ Explained(m) /\ sent[m] \in Nat /\ undone[m] \in Nat /\ Worth(msg[m]) \in Nat
      /\ Worth(msg'[m]) \in Nat /\ Out(m) \in {0, 1}
  BY Numbers, NumbersNext DEF SInv
<1>1. Out(m)' = Out(m)
  BY DEF Out
<1>2. sent'[m] <= Worth(msg'[m]) + undone'[m] + Out(m)'
  <2>1. CASE msg[m].status = "none"
    BY <1>0, <1>1, <2>1 DEF LInv, NoneFresh
  <2>2. CASE Worth(msg'[m]) >= Worth(msg[m])
    BY <1>0, <1>1, <2>2 DEF Explained
  <2> QED
    BY <2>1, <2>2
<1> QED
  BY <1>0, <1>2 DEF Explained, Batch

LEMMA RequestCommitsWorth ==
    ASSUME NEW c \in Clients, TInv, LInv, RequestCommits(c), NEW m \in Messages
    PROVE  msg[m].status = "none" \/ Worth(msg'[m]) >= Worth(msg[m])
<1>0. Worth(msg[m]) \in Nat /\ msg[m].tries \in Nat
  BY Numbers
<1>1. ASSUME msg'[m].tries = msg[m].tries, msg'[m].status \in {"bounced", "cancelled"}
      PROVE  Worth(msg'[m]) >= Worth(msg[m])
  BY <1>0, <1>1 DEF Worth, Spare
<1>2. CASE CommitStart(c)
  <2>1. CASE m \in client[c].rows
    <3>1. msg[m].status = "none"
      BY <1>2, <2>1, CommitStartEffect DEF LInv, RequestFits
    <3> QED
      BY <3>1
  <2>2. CASE m \notin client[c].rows
    BY <1>0, <1>2, <2>2, CommitStartEffect
  <2> QED
    BY <2>1, <2>2
<1>3. CASE DeleteRecipient(c)
  BY <1>0, <1>1, <1>3, DeleteRecipientEffect
<1>4. ASSUME NEW cancelled, NEW stopped, EventEnds(c, cancelled, stopped)
      PROVE  Worth(msg'[m]) >= Worth(msg[m])
  BY <1>0, <1>1, <1>4, EventEndsEffect
<1> QED
  BY <1>2, <1>3, <1>4 DEF RequestCommits

LEMMA ExplainedNext == TInv /\ TInv' /\ LInv /\ SInv /\ [Next]_vars => SInv'
<1> SUFFICES ASSUME TInv, TInv', LInv, SInv, [Next]_vars PROVE SInv'
  OBVIOUS
<1>1. ASSUME NEW c \in Clients, RequestStep(c) PROVE SInv'
  <2>1. tx' = tx /\ UNCHANGED <<sent, undone>> /\ msg' = msg
    BY <1>1 DEF RequestStep, HistoryKept
  <2> QED
    BY <2>1, RequestExplained, Numbers
<1>2. ASSUME NEW c \in Clients, RequestCommits(c) PROVE SInv'
  BY <1>2, CommitsOwnRows, RequestCommitsWorth, RequestExplained
<1>3. CASE Bystander
  BY <1>3, RequestExplained, Numbers DEF Bystander
<1> QED
  BY <1>1, <1>2, <1>3, AllCases, BatchStepExplained, CommitExplained, RollBackExplained

LEMMA ExplainedInit == Init => SInv
<1> SUFFICES ASSUME Init, NEW m \in Messages PROVE Explained(m)
  BY DEF SInv
<1>1. \A w \in Workers : Batch(w) = {} /\ tx[w].out = {}
  BY DEF Init, Batch, IdleTx
<1>2. sent[m] = 0 /\ undone[m] = 0 /\ Worth(msg[m]) = 0 /\ Out(m) = 0
  BY <1>1 DEF Init, Worth, Spare, Out
<1> QED
  BY <1>1, <1>2 DEF Explained

\* No message goes out twice but for a counted retry or a batch that was
\* rolled back after the send, however workers, requests and crashes
\* interleave.
THEOREM SendsAreExplained == Spec => []SendsExplained
<1>1. TInv /\ SInv => SendsExplained
  <2> SUFFICES ASSUME TInv, SInv, NEW m \in Messages
               PROVE  sent[m] <= 1 + Tries(m) + undone[m]
    BY DEF SendsExplained
  <2>0. /\ Explained(m) /\ sent[m] \in Nat /\ undone[m] \in Nat /\ msg[m].tries \in Nat
        /\ Out(m) \in {0, 1}
    BY Numbers DEF SInv
  <2>1. CASE \E w \in Workers : m \in Batch(w)
    <3> DEFINE v == CHOOSE w \in Workers : m \in Batch(w)
    <3>1. v \in Workers /\ m \in Batch(v)
      BY <2>1
    <3>2. Tries(m) = tx[v].rows[m].tries
      BY <2>1 DEF Tries
    <3> HIDE DEF v
    <3>3. sent[m] <= Worth(tx[v].rows[m]) + undone[m] /\ tx[v].rows[m].tries \in Nat
      BY <2>0, <3>1, Numbers DEF Explained
    <3>4. Worth(tx[v].rows[m]) <= tx[v].rows[m].tries + 1
      BY <3>3 DEF Worth, Spare
    <3> QED
      BY <2>0, <3>1, <3>2, <3>3, <3>4, Numbers
  <2>2. CASE ~\E w \in Workers : m \in Batch(w)
    <3>1. Out(m) = 0
      BY <2>2 DEF Out, TInv, BatchTypes, BatchShape, RowsShape
    <3>2. Tries(m) = msg[m].tries
      BY <2>2 DEF Tries
    <3>3. Worth(msg[m]) <= msg[m].tries + 1 /\ Worth(msg[m]) \in Nat
      BY <2>0, Numbers DEF Worth, Spare
    <3> QED
      BY <2>0, <3>1, <3>2, <3>3 DEF Explained
  <2> QED
    BY <2>1, <2>2
<1> QED
  BY <1>1, TypesInit, TypesNext, LocksInit, LocksNext, ExplainedInit, ExplainedNext, PTL
     DEF Spec

-----------------------------------------------------------------------------
(* A recipient whose sequence was stopped.                                 *)

\* Nothing is scheduled for a stopped recipient, a removed one included.
StoppedSilent == \A r \in Recipients : rcpt[r].status \in Events => Scheduled(r) = {}
UnsubStopped == \A r \in unsub : rcpt[r].status \in Events \/ rcpt[r].deleted
LateGone == \A r \in Recipients : late[r] > 0 => rcpt[r].deleted

\* What start_campaign listed is not stopped while it holds the campaign's row,
\* and what an event is about to cancel is all that is scheduled.
StartSees(c) ==
    client[c].pc = "schedule" => \A r \in DOMAIN client[c].seen : rcpt[r].status \notin Events
CancelSees(c) ==
    client[c].op \in Events /\ client[c].pc = "cancel" =>
       Scheduled(client[c].r) \subseteq
          client[c].rows \cup (IF client[c].op = "bounced" THEN {client[c].m} ELSE {})
QInv ==
    /\ StoppedSilent /\ UnsubStopped /\ LateGone
    /\ \A c \in Clients : StartSees(c) /\ CancelSees(c)

Stays == \A r \in Recipients : rcpt[r].status \in Events => rcpt'[r].status \in Events
NoneScheduledAnew == \A r \in Recipients : Scheduled(r)' \subseteq Scheduled(r)

\* A worker writes and schedules for recipients it has a scheduled message of.
LEMMA MovedIsScheduled ==
    ASSUME NEW w \in Workers, TInv, LInv, NEW r \in DOMAIN tx[w].moved
    PROVE  r \in Recipients /\ Scheduled(r) # {}
<1>1. PICK m \in Batch(w) : to(m) = r
  BY DEF TInv, BatchTypes, BatchShape, MovesMade
<1>2. m \in Messages /\ msg[m].status = "scheduled"
  BY OldBatch DEF TInv, BatchTypes, LInv, BatchFits
<1>3. m \in Scheduled(r)
  BY <1>1, <1>2 DEF Scheduled
<1>4. r \in Recipients
  BY <1>1, <1>2 DEF to, Messages
<1> QED
  BY <1>3, <1>4

LEMMA CommitSchedules ==
    ASSUME NEW w \in Workers, TInv, LInv, Commit(w), NEW r \in Recipients,
           r \notin DOMAIN tx[w].moved
    PROVE  Scheduled(r)' \subseteq Scheduled(r)
<1> SUFFICES ASSUME NEW m \in Messages, to(m) = r, msg'[m].status = "scheduled"
             PROVE  msg[m].status = "scheduled"
  BY DEF Scheduled
<1>1. CASE m \in Batch(w)
  BY <1>1 DEF LInv, BatchFits
<1>2. m \notin tx[w].new
  BY CommitEffect DEF TInv, BatchTypes, BatchShape, MovesMade
<1>3. CASE m \notin Batch(w)
  BY <1>2, <1>3, CommitEffect
<1> QED
  BY <1>1, <1>3

LEMMA CommitStays ==
    ASSUME NEW w \in Workers, TInv, LInv, QInv, Commit(w)
    PROVE  QInv' /\ Stays
<1>0. \A r \in Recipients : /\ rcpt'[r].deleted = rcpt[r].deleted
                            /\ r \notin DOMAIN tx[w].moved => rcpt'[r] = rcpt[r]
                            /\ rcpt'[r].status \in {"completed", rcpt[r].status}
  BY CommitEffect
<1>1. \A r \in Recipients : rcpt[r].status \in Events => r \notin DOMAIN tx[w].moved
  BY MovedIsScheduled DEF QInv, StoppedSilent
<1>2. Stays
  BY <1>0, <1>1 DEF Stays
<1>3. \A r \in Recipients : rcpt'[r].status \in Events => rcpt[r].status \in Events
  BY <1>0 DEF Events
<1>4. StoppedSilent'
  BY <1>1, <1>3, CommitSchedules DEF QInv, StoppedSilent
<1>5. UnsubStopped' /\ LateGone'
  <2>1. unsub' = unsub /\ unsub \subseteq Recipients /\ late' = late
    BY CommitEffect DEF TInv, DatabaseTypes, HistoryKept
  <2> QED
    BY <1>0, <1>2, <2>1 DEF QInv, UnsubStopped, LateGone, Stays
<1>6. ASSUME NEW c \in Clients
      PROVE  StartSees(c)' /\ CancelSees(c)'
  <2>1. /\ client'[c] = client[c] /\ StartSees(c) /\ CancelSees(c) /\ client[c] \in ClientRecord
        /\ RequestShape(c)
    BY CommitEffect DEF QInv, TInv, RequestTypes, ClientTypes
  <2>2. StartSees(c)'
    <3>1. DOMAIN client[c].seen \subseteq Recipients
      BY <2>1 DEF ClientRecord, Partial
    <3> QED
      BY <1>3, <2>1, <3>1 DEF StartSees
  <2>3. CancelSees(c)'
    <3>1. ASSUME client[c].op \in Events, client[c].pc = "cancel"
          PROVE  \A m \in Messages : to(m) = client[c].r /\ msg'[m].status = "scheduled"
                                        => m \in Scheduled(client[c].r)
      <4>1. client[c].r \in Recipients
        BY <2>1, <3>1 DEF RequestShape, to, Messages
      <4>2. RecipientRow(client[c].r) \in Held(c)
        BY <3>1, HeldByClient
      <4>3. client[c].r \notin DOMAIN tx[w].moved
        <5>1. c # w /\ c \in Transactions /\ w \in Transactions
          BY TransactionsAssumption DEF Transactions
        <5>2. RecipientRow(client[c].r) \notin Held(w)
          BY <4>2, <5>1 DEF LInv, Exclusive
        <5> QED
          BY <5>2, HeldByWorker
      <4> QED
        BY <4>1, <4>3, CommitSchedules DEF Scheduled
    <3> QED
      BY <2>1, <3>1 DEF CancelSees, Scheduled
  <2> QED
    BY <2>2, <2>3
<1> QED
  BY <1>2, <1>4, <1>5, <1>6 DEF QInv

\* An email goes to an unsubscribed recipient only if they were removed.
LEMMA SentBeforeStop ==
    ASSUME NEW w \in Workers, TInv, LInv, QInv, BatchStep(w)
    PROVE  LateGone'
<1>1. rcpt' = rcpt /\ LateGone
  BY DEF BatchStep, DatabaseKept, QInv
<1>2. CASE UNCHANGED <<sent, late>>
  BY <1>1, <1>2 DEF LateGone
<1>3. CASE HandOver(tx[w].cur) /\ (Sends(w) \/ Fails(w))
  <2> DEFINE r == to(tx[w].cur)
  <2>1. tx[w].cur \in Batch(w) /\ tx[w].cur \in Messages /\ msg[tx[w].cur].status = "scheduled"
    BY <1>3, OldBatch DEF Sends, Fails, TInv, BatchTypes, BatchShape, PlaceShape, LInv, BatchFits
  <2>2. r \in Recipients /\ Scheduled(r) # {}
    BY <2>1 DEF to, Messages, Scheduled
  <2>3. r \in unsub => rcpt[r].deleted
    BY <2>2 DEF QInv, UnsubStopped, StoppedSilent
  <2>4. late' = [late EXCEPT ![r] = @ + (IF r \in unsub THEN 1 ELSE 0)]
        /\ late \in [Recipients -> Nat]
    BY <1>3 DEF HandOver, TInv, HistoryTypes
  <2> HIDE DEF r
  <2>5. \A x \in Recipients : late'[x] > 0 => late[x] > 0 \/ (x = r /\ r \in unsub)
    <3> SUFFICES ASSUME NEW x \in Recipients, late'[x] > 0
                 PROVE  late[x] > 0 \/ (x = r /\ r \in unsub)
      OBVIOUS
    <3>1. CASE x # r
      BY <2>4, <3>1
    <3>2. CASE x = r /\ r \notin unsub
      <4>1. late'[r] = late[r] + 0 /\ late[r] \in Nat
        BY <2>2, <2>4, <3>2
      <4> QED
        BY <3>2, <4>1
    <3> QED
      BY <3>1, <3>2
  <2> QED
    BY <1>1, <2>3, <2>5 DEF LateGone
<1> QED
  BY <1>2, <1>3 DEF BatchStep

LEMMA SameRowsSameStop ==
    ASSUME QInv, UNCHANGED <<rcpt, msg, unsub>>
    PROVE  StoppedSilent' /\ UnsubStopped' /\ Stays /\ NoneScheduledAnew
  BY DEF QInv, StoppedSilent, UnsubStopped, Stays, Scheduled, NoneScheduledAnew

LEMMA SameClientSees ==
    ASSUME QInv, NEW d \in Clients, client'[d] = client[d], UNCHANGED <<rcpt, msg>>
    PROVE  StartSees(d)' /\ CancelSees(d)'
  BY DEF QInv, StartSees, CancelSees, Scheduled

LEMMA BatchStepStays ==
    ASSUME NEW w \in Workers, TInv, LInv, QInv, BatchStep(w) \/ RollBack(w)
    PROVE  QInv' /\ Stays
<1>1. UNCHANGED <<rcpt, msg, unsub, client>>
  BY DEF BatchStep, DatabaseKept, RollBack, database
<1>2. LateGone'
  BY SentBeforeStop DEF QInv, LateGone, RollBack, database
<1> QED
  BY <1>1, <1>2, SameRowsSameStop, SameClientSees DEF QInv

LEMMA BystanderStays ==
    ASSUME QInv, Bystander
    PROVE  QInv' /\ Stays
<1>1. UNCHANGED <<rcpt, msg, unsub, client, late>>
  BY DEF Bystander
<1> QED
  BY <1>1, SameRowsSameStop, SameClientSees DEF QInv, LateGone

LEMMA RequestStepStays ==
    ASSUME NEW c \in Clients, QInv, RequestStep(c)
    PROVE  QInv' /\ Stays
<1>1. UNCHANGED <<rcpt, msg, unsub, late>> /\ OnlyRequest(c)
  BY DEF RequestStep, HistoryKept
<1>2. StartSees(c)'
  <2>1. ASSUME client'[c].pc = "schedule"
        PROVE  \A r \in DOMAIN client'[c].seen : rcpt[r].status \notin Events
    <3>1. Lists(c) \/ SchedulesOne(c)
      BY <2>1 DEF RequestStep, Begins, Records, Locks, Snapshots, TakesRows, Ends, IdleClient
    <3>2. CASE Lists(c)
      BY <3>2 DEF Lists, Events
    <3>3. CASE SchedulesOne(c)
      BY <3>3 DEF SchedulesOne, SameList, QInv, StartSees
    <3> QED
      BY <3>1, <3>2, <3>3
  <2> QED
    BY <1>1, <2>1 DEF StartSees
<1>3. CancelSees(c)'
  <2>1. ASSUME client'[c].pc = "cancel" PROVE Snapshots(c)
    BY <2>1 DEF RequestStep, Begins, Lists, SchedulesOne, Records, Locks, TakesRows, Ends,
       IdleClient
  <2>2. ASSUME client'[c].pc = "cancel", client'[c].op \in Events,
               NEW m \in Messages, to(m) = client'[c].r, msg'[m].status = "scheduled"
        PROVE  m \in client'[c].rows \/ (client'[c].op = "bounced" /\ m = client'[c].m)
    <3>1. /\ client'[c].r = client[c].r /\ client'[c].op = client[c].op
          /\ client'[c].m = client[c].m
          /\ client'[c].rows = Scheduled(client[c].r)
                           \ (IF client[c].op = "bounced" THEN {client[c].m} ELSE {})
      BY <2>1, <2>2 DEF Snapshots, SameRequest
    <3>2. m \in Scheduled(client[c].r)
      BY <1>1, <2>2, <3>1 DEF Scheduled
    <3> QED
      BY <3>1, <3>2
  <2> QED
    BY <2>2 DEF CancelSees, Scheduled
<1> QED
  BY <1>1, <1>2, <1>3, SameRowsSameStop, SameClientSees DEF QInv, LateGone, OnlyRequest

\* An event and start_campaign both write the campaign's row.
LEMMA EventOrStart ==
    ASSUME TInv, LInv, NEW c \in Clients, NEW d \in Clients, client[c].pc = "schedule",
           client[d].op \in Events, client[d].pc \in {"stop", "cancel"}
    PROVE  FALSE
<1>1. client[c].op = "start" /\ c # d
  BY DEF TInv, RequestTypes, RequestShape, Events
<1>2. CampaignRow \in Held(c) /\ CampaignRow \in Held(d)
  BY <1>1, HeldByClient
<1> QED
  BY <1>1, <1>2 DEF LInv, Exclusive, Transactions

\* The other requests see no more than before.
LEMMA LessIsSeen ==
    ASSUME TInv, QInv, NEW c \in Clients, OnlyRequest(c), Ends(c), NoneScheduledAnew,
           NEW d \in Clients,
           \A r \in Recipients : rcpt'[r].status \in Events =>
                                    rcpt[r].status \in Events \/ client[d].pc # "schedule"
    PROVE  StartSees(d)' /\ CancelSees(d)'
<1>1. CASE d = c
  BY <1>1 DEF Ends, IdleClient, StartSees, CancelSees
<1>2. CASE d # c
  <2>1. /\ client'[d] = client[d] /\ client[d] \in ClientRecord /\ RequestShape(d)
        /\ StartSees(d) /\ CancelSees(d)
    BY <1>2 DEF OnlyRequest, TInv, RequestTypes, ClientTypes, QInv
  <2>2. DOMAIN client[d].seen \subseteq Recipients
    BY <2>1 DEF ClientRecord, Partial
  <2>3. StartSees(d)'
    BY <2>1, <2>2 DEF StartSees
  <2>4. client[d].op \in Events => client[d].r \in Recipients
    BY <2>1 DEF RequestShape, to, Messages
  <2>5. client[d].op \in Events => Scheduled(client[d].r)' \subseteq Scheduled(client[d].r)
    BY <2>1, <2>4 DEF NoneScheduledAnew, Scheduled
  <2> QED
    BY <2>1, <2>3, <2>5 DEF CancelSees
<1> QED
  BY <1>1, <1>2

LEMMA CommitStartStays ==
    ASSUME NEW c \in Clients, TInv, LInv, QInv, CommitStart(c)
    PROVE  QInv' /\ Stays
<1>0. /\ client[c].pc = "schedule" /\ OnlyRequest(c) /\ Ends(c) /\ unsub' = unsub
      /\ late' = late /\ unsub \subseteq Recipients
      /\ \A r \in Recipients : rcpt'[r].deleted = rcpt[r].deleted
                               /\ rcpt'[r].status = rcpt[r].status
  BY CommitStartEffect DEF TInv, DatabaseTypes
<1>1. StoppedSilent'
  <2> SUFFICES ASSUME NEW r \in Recipients, rcpt[r].status \in Events,
                      NEW m \in Messages, to(m) = r, msg'[m].status = "scheduled"
               PROVE  FALSE
    BY <1>0 DEF StoppedSilent, Scheduled
  <2>1. m \notin client[c].rows
    BY <1>0 DEF TInv, RequestTypes, RequestShape, QInv, StartSees
  <2>2. m \in Scheduled(r)
    BY <2>1, CommitStartEffect DEF Scheduled
  <2> QED
    BY <2>2 DEF QInv, StoppedSilent
<1>2. UnsubStopped' /\ LateGone' /\ Stays
  BY <1>0 DEF QInv, UnsubStopped, LateGone, Stays
<1>3. ASSUME NEW d \in Clients PROVE StartSees(d)' /\ CancelSees(d)'
  <2>1. CASE d = c
    BY <1>0, <2>1 DEF Ends, IdleClient, StartSees, CancelSees
  <2>2. CASE d # c
    <3>1. client'[d] = client[d] /\ StartSees(d) /\ client[d] \in ClientRecord
      BY <1>0, <2>2 DEF OnlyRequest, QInv, TInv, RequestTypes, ClientTypes
    <3>2. ~(client[d].op \in Events /\ client[d].pc = "cancel")
      BY <1>0, EventOrStart
    <3>3. DOMAIN client[d].seen \subseteq Recipients
      BY <3>1 DEF ClientRecord, Partial
    <3> QED
      BY <1>0, <3>1, <3>2, <3>3 DEF StartSees, CancelSees
  <2> QED
    BY <2>1, <2>2
<1> QED
  BY <1>1, <1>2, <1>3 DEF QInv

LEMMA DeleteRecipientStays ==
    ASSUME NEW c \in Clients, TInv, LInv, QInv, DeleteRecipient(c)
    PROVE  QInv' /\ Stays
<1>0. /\ OnlyRequest(c) /\ Ends(c) /\ unsub' = unsub /\ late' = late
      /\ unsub \subseteq Recipients
      /\ \A r \in Recipients : /\ rcpt'[r].status = rcpt[r].status
                               /\ rcpt[r].deleted => rcpt'[r].deleted
  BY DeleteRecipientEffect DEF TInv, DatabaseTypes
<1>1. NoneScheduledAnew
  BY DeleteRecipientEffect DEF NoneScheduledAnew, Scheduled
<1>2. StoppedSilent' /\ Stays /\ UnsubStopped' /\ LateGone'
  BY <1>0, <1>1
     DEF QInv, StoppedSilent, UnsubStopped, LateGone, Stays, NoneScheduledAnew
<1>3. \A d \in Clients : StartSees(d)' /\ CancelSees(d)'
  BY <1>0, <1>1, LessIsSeen
<1> QED
  BY <1>2, <1>3 DEF QInv

LEMMA EventEndsStays ==
    ASSUME NEW c \in Clients, TInv, LInv, QInv, NEW cancelled, NEW stopped,
           EventEnds(c, cancelled, stopped)
    PROVE  QInv' /\ Stays
<1>0. /\ OnlyRequest(c) /\ Ends(c) /\ late' = late /\ unsub \subseteq Recipients
      /\ unsub' = IF client[c].op = "unsubscribed" THEN unsub \cup {client[c].r} ELSE unsub
      /\ client[c].op \in Events /\ client[c].pc \in {"stop", "cancel"}
      /\ client[c].r \in Recipients /\ CancelSees(c)
  BY EventEndsEffect
     DEF EventEnds, TInv, DatabaseTypes, RequestTypes, RequestShape, to, Messages, QInv
<1>1. \A r \in Recipients :
         /\ rcpt'[r].deleted = rcpt[r].deleted
         /\ r \in stopped => rcpt'[r].status \in Events
         /\ r \notin stopped => rcpt'[r].status = rcpt[r].status
  BY EventEndsEffect
<1>2. NoneScheduledAnew
  BY EventEndsEffect DEF NoneScheduledAnew, Scheduled
<1>3. \A r \in Recipients : r \in stopped => Scheduled(r)' = {}
  <2> SUFFICES ASSUME NEW r \in Recipients, r \in stopped,
                      NEW m \in Messages, to(m) = r, msg'[m].status = "scheduled"
               PROVE  FALSE
    BY DEF Scheduled
  <2>1. /\ client[c].pc = "cancel" /\ r = client[c].r
        /\ cancelled = {n \in client[c].rows : msg[n].status = "scheduled"}
    BY DEF EventEnds
  <2>2. /\ msg'[m] = msg[m] /\ m \notin cancelled
        /\ ~(client[c].op = "bounced" /\ m = client[c].m)
    BY EventEndsEffect
  <2>3. m \in Scheduled(client[c].r)
    BY <2>1, <2>2 DEF Scheduled
  <2> QED
    BY <1>0, <2>1, <2>2, <2>3 DEF CancelSees
<1>4. StoppedSilent'
  BY <1>1, <1>2, <1>3 DEF QInv, StoppedSilent, NoneScheduledAnew
<1>5. Stays
  BY <1>1 DEF Stays
<1>6. UnsubStopped'
  <2>1. client[c].op = "unsubscribed" => \/ rcpt[client[c].r].deleted
                                         \/ client[c].r \in stopped
    BY DEF EventEnds
  <2> QED
    BY <1>0, <1>1, <1>5, <2>1 DEF QInv, UnsubStopped, Stays
<1>7. LateGone'
  BY <1>0, <1>1 DEF QInv, LateGone
<1>8. ASSUME NEW d \in Clients PROVE StartSees(d)' /\ CancelSees(d)'
  <2>1. client[d].pc # "schedule"
    BY <1>0, EventOrStart
  <2> QED
    BY <1>0, <1>2, <2>1, LessIsSeen
<1> QED
  BY <1>4, <1>5, <1>6, <1>7, <1>8 DEF QInv

LEMMA StoppedNext == TInv /\ LInv /\ QInv /\ [Next]_vars => QInv' /\ Stays
<1> SUFFICES ASSUME TInv, LInv, QInv, [Next]_vars PROVE QInv' /\ Stays
  OBVIOUS
<1>1. ASSUME NEW c \in Clients, RequestCommits(c) PROVE QInv' /\ Stays
  BY <1>1, CommitStartStays, DeleteRecipientStays, EventEndsStays DEF RequestCommits
<1> QED
  BY <1>1, AllCases, BatchStepStays, CommitStays, RequestStepStays, BystanderStays

LEMMA StoppedInit == Init => QInv
  BY DEF Init, QInv, StoppedSilent, UnsubStopped, LateGone, StartSees, CancelSees, IdleClient,
         Events, Scheduled

\* TInv, the locks and QInv together are inductive.
LEMMA StoppedAlways == Spec => [](TInv /\ LInv /\ QInv)
  BY TypesInit, TypesNext, LocksInit, LocksNext, StoppedInit, StoppedNext, PTL DEF Spec

\* A recipient who replied, bounced or unsubscribed has nothing scheduled,
\* whatever a worker or start_campaign was doing when the event came.
THEOREM StoppedRecipientsAreSilent == Spec => []StoppedIsSilent
<1>1. QInv => StoppedIsSilent
  BY DEF QInv, StoppedSilent, StoppedIsSilent
<1> QED
  BY <1>1, StoppedAlways, PTL

\* Nobody who has unsubscribed gets another email, but for recipients who had
\* been removed.
THEOREM UnsubscribedGetNothing == Spec => []UnsubscribedIsLeftAlone
<1>1. QInv => UnsubscribedIsLeftAlone
  BY DEF QInv, LateGone, UnsubscribedIsLeftAlone
<1> QED
  BY <1>1, StoppedAlways, PTL

\* No step of a worker or a request makes a stopped recipient active or
\* completed again.
THEOREM StoppedForGood == Spec => StoppedStays
<1>1. TInv /\ LInv /\ QInv /\ [Next]_vars =>
         [\A r \in Recipients : rcpt[r].status \in Events => rcpt'[r].status \in Events]_vars
  BY StoppedNext DEF Stays
<1> QED
  BY <1>1, StoppedAlways, PTL DEF Spec, StoppedStays

-----------------------------------------------------------------------------
(* Steps in turn, in a campaign started once.                              *)

Row(m) == msg[m].status # "none"
Gone(m) == msg[m].status \in {"sent", "bounced"}
NotStarted ==
    starts = 0 => /\ \A r \in Recipients : rcpt[r].order = 0
                  /\ \A m \in Messages : ~Row(m)
SeesZero(c) ==
    starts = 0 /\ client[c].pc = "schedule" =>
       \A r \in DOMAIN client[c].seen : client[c].seen[r] = 0

\* A recipient's order is the step whose message is last; those before went out.
Behind ==
    \A m \in Messages : Row(m) => /\ m[2] <= rcpt[to(m)].order
                                  /\ m[2] < rcpt[to(m)].order => Gone(m)
Single ==
    \A m, n \in Messages : Row(m) /\ Row(n) /\ to(m) = to(n) /\ m[2] = n[2] => m = n
Passed ==
    \A r \in Recipients, k \in 1..Steps :
       k < rcpt[r].order => \E m \in Messages : to(m) = r /\ m[2] = k /\ Gone(m)
DbTurn == Behind /\ Single /\ Passed

\* A batch moves a recipient one step at most, past a message it has sent.
PlanTurn(w) == tx[w].pc = "write" => tx[w].plan = rcpt[to(tx[w].cur)].order + 1
MovedTurn(w) ==
    \A r \in DOMAIN tx[w].moved :
       /\ tx[w].moved[r].order \in {rcpt[r].order, rcpt[r].order + 1}
       /\ \E m \in Batch(w) : /\ to(m) = r /\ m[2] = rcpt[r].order
                              /\ tx[w].rows[m].status = "sent"
NewTurn(w) ==
    /\ \A m \in tx[w].new :
          /\ m[2] = rcpt[to(m)].order + 1
          /\ to(m) \in DOMAIN tx[w].moved => tx[w].moved[to(m)].order = m[2]
    /\ \A m, n \in tx[w].new : to(m) = to(n) => m = n
BatchTurn(w) == PlanTurn(w) /\ MovedTurn(w) /\ NewTurn(w)

InTurn == starts <= 1 => DbTurn /\ \A w \in Workers : BatchTurn(w)
WInv == NotStarted /\ InTurn /\ \A c \in Clients : SeesZero(c)

LEMMA TurnNumbers ==
    ASSUME TInv
    PROVE  /\ \A m \in Messages : m[2] \in 1..Steps /\ m[2] \in Nat /\ to(m) \in Recipients
           /\ \A r \in Recipients : rcpt[r].order \in 0..Steps /\ rcpt[r].order \in Nat
           /\ Steps \in Nat /\ starts \in Nat
<1>1. Steps \in Nat /\ starts \in Nat
  BY StepsAssumption DEF TInv, HistoryTypes
<1>2. \A r \in Recipients : rcpt[r].order \in 0..Steps
  BY DEF TInv, DatabaseTypes, Orders, RecipientData
<1>3. \A m \in Messages : m[2] \in 1..Steps /\ to(m) \in Recipients
  BY DEF Messages, to
<1> QED
  BY <1>1, <1>2, <1>3

\* What is scheduled for a recipient is the message of the step they are at.
LEMMA OneScheduled ==
    ASSUME TInv, Behind, Single, NEW m \in Messages, msg[m].status = "scheduled"
    PROVE  /\ m[2] = rcpt[to(m)].order
           /\ \A n \in Messages : Row(n) /\ to(n) = to(m) /\ n[2] = m[2] => n = m
           /\ \A n \in Messages : msg[n].status = "scheduled" /\ to(n) = to(m) => n = m
<1>1. \A n \in Messages : msg[n].status = "scheduled" => n[2] = rcpt[to(n)].order
  BY TurnNumbers DEF Behind, Row, Gone
<1> QED
  BY <1>1 DEF Single, Row

LEMMA BatchAt ==
    ASSUME TInv, LInv, Behind, Single, NEW w \in Workers, NEW m \in Batch(w)
    PROVE  /\ m \in Messages /\ msg[m].status = "scheduled" /\ m[2] = rcpt[to(m)].order
           /\ \A n \in Batch(w) : to(n) = to(m) => n = m
           /\ \A n \in Messages : Row(n) /\ to(n) = to(m) /\ n[2] = m[2] => n = m
<1>1. \A n \in Batch(w) : n \in Messages /\ msg[n].status = "scheduled"
  BY OldBatch DEF TInv, BatchTypes, LInv, BatchFits
<1> QED
  BY <1>1, OneScheduled

\* The recipient of the message at hand was not moved before.
LEMMA NotMovedYet ==
    ASSUME TInv, LInv, Behind, Single, NEW w \in Workers,
           tx[w].pc \in {"advance", "write"}
    PROVE  /\ tx[w].cur \in Batch(w) /\ to(tx[w].cur) \in Recipients
           /\ to(tx[w].cur) \notin DOMAIN tx[w].moved
<1>1. tx[w].cur \in tx[w].left /\ tx[w].cur \in Batch(w)
  BY DEF TInv, BatchTypes, BatchShape, PlaceShape
<1>2. \A r \in DOMAIN tx[w].moved : \E m \in Batch(w) \ tx[w].left : to(m) = r
  BY DEF TInv, BatchTypes, BatchShape, MovesMade
<1> QED
  BY <1>1, <1>2, BatchAt, TurnNumbers

\* What is sent in a batch stays sent.
LEMMA SentStays ==
    ASSUME NEW w \in Workers, TInv, BatchStep(w), ~TakesBatch(w)
    PROVE  \A m \in Batch(w) : /\ m \in Batch(w)'
                               /\ tx[w].rows[m].status = "sent" => tx'[w].rows[m].status = "sent"
<1>0. TxTypes /\ BatchShape(w)
  BY DEF TInv, BatchTypes
<1>1. Batch(w)' = Batch(w)
  BY BatchStepRows
<1>2. ASSUME NEW n \in Waiting(w), NEW row, Rewrites(w, n, row)
      PROVE  \A m \in Batch(w) : tx[w].rows[m].status = "sent" => tx'[w].rows[m].status = "sent"
  <2>1. tx[w].rows[n].status = "scheduled"
    BY <1>0 DEF BatchShape, RowsShape
  <2> QED
    BY <1>2, <2>1 DEF Rewrites, Batch
<1>3. ASSUME NEW n, Leaves(w, n)
      PROVE  \E row : n \in Waiting(w) /\ Rewrites(w, n, row)
  <2>1. n \in Waiting(w)
    BY <1>3 DEF Leaves, Waiting, Handled
  <2> QED
    BY <1>0, <1>3, <2>1, LeavesRow
<1>4. CASE Sends(w) \/ Fails(w)
  <2>1. tx[w].cur \in Waiting(w)
    BY <1>0, <1>4 DEF Sends, Fails, Waiting, Handled, BatchShape, PlaceShape
  <2>2. \E row : Rewrites(w, tx[w].cur, row)
    BY <1>0, <1>4, SendsRow, FailsRow
  <2> QED
    BY <1>1, <1>2, <2>1, <2>2
<1>5. CASE \E m : Leaves(w, m)
  BY <1>1, <1>2, <1>3, <1>5
<1>6. CASE (\E m : GoesToSend(w, m)) \/ Counts(w) \/ Plans(w) \/ PassesOn(w) \/ Moves(w)
  <2>1. tx'[w].rows = tx[w].rows
    BY <1>6 DEF GoesToSend, Counts, Plans, PassesOn, Moves, SameRows
  <2> QED
    BY <1>1, <2>1
<1> QED
  BY <1>4, <1>5, <1>6 DEF BatchStep, Quietly

LEMMA MovedTurnKept ==
    ASSUME NEW w \in Workers, TInv, BatchStep(w), ~TakesBatch(w), MovedTurn(w), NewTurn(w),
           tx'[w].moved = tx[w].moved, tx'[w].new = tx[w].new, tx'[w].pc # "write"
    PROVE  BatchTurn(w)'
<1>1. rcpt' = rcpt
  BY DEF BatchStep, DatabaseKept
<1>2. PlanTurn(w)'
  BY DEF PlanTurn
<1>3. NewTurn(w)'
  BY <1>1 DEF NewTurn
<1>4. MovedTurn(w)'
  BY <1>1, SentStays DEF MovedTurn
<1> QED
  BY <1>2, <1>3, <1>4 DEF BatchTurn

LEMMA PlansTurn ==
    ASSUME NEW w \in Workers, TInv, LInv, DbTurn, BatchTurn(w), BatchStep(w), Plans(w),
           ~TakesBatch(w)
    PROVE  BatchTurn(w)'
<1> DEFINE r == to(tx[w].cur)
<1>1. rcpt' = rcpt /\ tx[w].pc = "advance"
  BY DEF BatchStep, DatabaseKept, Plans
<1>2. r \notin DOMAIN tx[w].moved /\ r \in Recipients /\ tx'[w].cur = tx[w].cur
  BY <1>1, NotMovedYet DEF DbTurn, Plans
<1>3. tx'[w].plan = rcpt[r].order + 1
  BY <1>2 DEF Plans, OrderSeen
<1>4. PlanTurn(w)'
  BY <1>1, <1>2, <1>3 DEF PlanTurn
<1>5. MovedTurn(w)'
  <2>1. tx'[w].moved = tx[w].moved
    BY DEF Plans
  <2> QED
    BY <1>1, <2>1, SentStays DEF MovedTurn, BatchTurn
<1>6. NewTurn(w)'
  <2>1. tx'[w].moved = tx[w].moved
    BY DEF Plans
  <2>2. CASE tx'[w].new = tx[w].new
    BY <1>1, <2>1, <2>2 DEF NewTurn, BatchTurn
  <2>3. ASSUME tx'[w].plan \in EmailSteps, NEW m \in NewRow(r, tx'[w].plan),
               tx'[w].new = tx[w].new \cup {m}
        PROVE  NewTurn(w)'
    <3>1. tx'[w].plan \in 1..Steps
      BY <2>3, StepsAssumption
    <3>2. m \in Messages /\ to(m) = r /\ m[2] = rcpt[r].order + 1
      BY <1>2, <1>3, <2>3, <3>1, NewRowType
    <3>3. \A n \in tx[w].new : to(n) # r
      BY <1>1, <1>2 DEF TInv, BatchTypes, BatchShape, MovesMade
    <3> HIDE DEF r
    <3> QED
      BY <1>1, <1>2, <2>1, <2>3, <3>2, <3>3 DEF NewTurn, BatchTurn
  <2> QED
    BY <2>2, <2>3 DEF Plans
<1> QED
  BY <1>4, <1>5, <1>6 DEF BatchTurn

LEMMA MovesTurn ==
    ASSUME NEW w \in Workers, TInv, LInv, DbTurn, BatchTurn(w), BatchStep(w), Moves(w),
           ~TakesBatch(w)
    PROVE  BatchTurn(w)'
<1> DEFINE r == to(tx[w].cur)
<1>1. rcpt' = rcpt /\ tx[w].pc = "write" /\ tx'[w].pc = "next" /\ tx'[w].rows = tx[w].rows
  BY DEF BatchStep, DatabaseKept, Moves
<1>2. r \notin DOMAIN tx[w].moved /\ r \in Recipients /\ tx[w].cur \in Batch(w)
  BY <1>1, NotMovedYet DEF DbTurn
<1>3. tx[w].plan = rcpt[r].order + 1
  BY <1>1 DEF BatchTurn, PlanTurn
<1>4. tx'[w].moved[r].order = IF tx[w].plan > Steps THEN rcpt[r].order ELSE tx[w].plan
  <2>1. TxTypes /\ Orders /\ BatchShape(w)
    BY DEF TInv, BatchTypes, DatabaseTypes
  <2>2. OrderSeen(w, r) = rcpt[r].order
    BY <1>2 DEF OrderSeen
  <2> QED
    BY <1>1, <1>2, <2>1, <2>2, WrittenType DEF Moves
<1>5. /\ DOMAIN tx'[w].moved = DOMAIN tx[w].moved \cup {r} /\ tx'[w].new = tx[w].new
      /\ \A x \in DOMAIN tx[w].moved : tx'[w].moved[x] = tx[w].moved[x]
      /\ Batch(w)' = Batch(w)
  BY <1>1, <1>2 DEF Moves, Batch
<1>6. \E m \in Batch(w) : to(m) = r /\ m[2] = rcpt[r].order /\ tx[w].rows[m].status = "sent"
  <2>1. tx[w].rows[tx[w].cur].status = "sent"
    BY <1>1 DEF TInv, BatchTypes, BatchShape, RowsShape
  <2> QED
    BY <1>2, <2>1, BatchAt DEF DbTurn
<1>7. PlanTurn(w)'
  BY <1>1 DEF PlanTurn
<1> HIDE DEF r
<1>8. MovedTurn(w)'
  <2>1. tx'[w].moved[r].order \in {rcpt[r].order, rcpt[r].order + 1}
    BY <1>3, <1>4
  <2> QED
    BY <1>1, <1>5, <1>6, <2>1 DEF MovedTurn, BatchTurn
<1>9. NewTurn(w)'
  <2>1. ASSUME NEW m \in tx[w].new, to(m) = r
        PROVE  tx'[w].moved[r].order = m[2]
    <3>1. m \in Messages
      BY OldBatch DEF TInv, BatchTypes
    <3>2. m[2] = rcpt[r].order + 1 /\ m[2] \in 1..Steps /\ Steps \in Nat
      BY <2>1, <3>1, TurnNumbers DEF BatchTurn, NewTurn
    <3> QED
      BY <1>3, <1>4, <3>2
  <2> QED
    BY <1>1, <1>5, <2>1 DEF NewTurn, BatchTurn
<1> QED
  BY <1>7, <1>8, <1>9 DEF BatchTurn

LEMMA BatchStepTurn ==
    ASSUME NEW w \in Workers, TInv, LInv, WInv, BatchStep(w)
    PROVE  WInv'
<1>0. UNCHANGED <<rcpt, msg, client, starts>>
  BY DEF BatchStep, DatabaseKept
<1>1. NotStarted' /\ \A c \in Clients : SeesZero(c)'
  BY <1>0 DEF WInv, NotStarted, SeesZero, Row
<1>2. ASSUME starts <= 1
      PROVE  DbTurn' /\ \A v \in Workers : BatchTurn(v)'
  <2>0. DbTurn /\ \A v \in Workers : BatchTurn(v)
    BY <1>2 DEF WInv, InTurn
  <2>1. DbTurn'
    BY <1>0, <2>0 DEF DbTurn, Behind, Single, Passed, Row, Gone
  <2>2. ASSUME NEW v \in Workers, v # w PROVE BatchTurn(v)'
    <3>1. tx'[v] = tx[v]
      BY <2>2 DEF BatchStep, Only
    <3> QED
      BY <1>0, <2>0, <3>1 DEF BatchTurn, PlanTurn, MovedTurn, NewTurn, Batch
  <2>3. CASE TakesBatch(w)
    <3>1. tx'[w].pc = "next" /\ DOMAIN tx'[w].moved = {} /\ tx'[w].new = {}
      BY <2>3 DEF TakesBatch
    <3>2. BatchTurn(w)'
      BY <3>1 DEF BatchTurn, PlanTurn, MovedTurn, NewTurn
    <3> QED
      BY <2>1, <2>2, <3>2
  <2>4. CASE ~TakesBatch(w)
    <3> SUFFICES BatchTurn(w)'
      BY <2>1, <2>2
    <3>1. CASE Plans(w)
      BY <2>0, <2>4, <3>1, PlansTurn
    <3>2. CASE Moves(w)
      BY <2>0, <2>4, <3>2, MovesTurn
    <3>3. CASE \/ (\E m : Leaves(w, m)) \/ (\E m : GoesToSend(w, m))
               \/ Counts(w) \/ PassesOn(w) \/ Sends(w) \/ Fails(w)
      <4>1. tx'[w].moved = tx[w].moved /\ tx'[w].new = tx[w].new /\ tx'[w].pc # "write"
        BY <3>3 DEF Leaves, GoesToSend, Counts, PassesOn, Sends, Fails, SamePlan, SameNew
      <4> QED
        BY <2>0, <2>4, <4>1, MovedTurnKept DEF BatchTurn
    <3> QED
      BY <2>4, <3>1, <3>2, <3>3 DEF BatchStep, Quietly
  <2> QED
    BY <2>3, <2>4
<1> QED
  BY <1>0, <1>1, <1>2 DEF WInv, InTurn

\* A batch that nobody else disturbs.
LEMMA OtherBatchTurn ==
    ASSUME NEW v \in Workers, BatchTurn(v), tx'[v] = tx[v],
           tx[v].pc = "write" => rcpt'[to(tx[v].cur)].order = rcpt[to(tx[v].cur)].order,
           \A r \in DOMAIN tx[v].moved : rcpt'[r].order = rcpt[r].order,
           \A m \in tx[v].new : rcpt'[to(m)].order = rcpt[to(m)].order
    PROVE  BatchTurn(v)'
<1>1. PlanTurn(v)'
  BY DEF BatchTurn, PlanTurn
<1>2. MovedTurn(v)'
  BY DEF BatchTurn, MovedTurn, Batch
<1>3. NewTurn(v)'
  BY DEF BatchTurn, NewTurn
<1> QED
  BY <1>1, <1>2, <1>3 DEF BatchTurn

LEMMA IdleBatchTurn ==
    ASSUME NEW w, tx'[w] = IdleTx
    PROVE  BatchTurn(w)'
  BY DEF BatchTurn, PlanTurn, MovedTurn, NewTurn, IdleTx

\* Two workers have no recipient in common.
LEMMA NoCommonRecipient ==
    ASSUME TInv, LInv, Behind, Single, NEW w \in Workers, NEW v \in Workers, v # w,
           NEW m \in Batch(w), NEW n \in Batch(v)
    PROVE  to(m) # to(n)
<1>1. to(m) = to(n) => m = n
  BY BatchAt DEF Row
<1>2. m # n
  <2>1. MessageRow(m) \in Held(w) /\ MessageRow(n) \in Held(v)
    BY HeldByWorker
  <2> QED
    BY <2>1 DEF LInv, Exclusive, Transactions
<1> QED
  BY <1>1, <1>2

LEMMA TouchedByBatch ==
    ASSUME TInv, NEW w \in Workers
    PROVE  /\ \A r \in DOMAIN tx[w].moved : \E m \in Batch(w) : to(m) = r
           /\ \A m \in tx[w].new : \E n \in Batch(w) : to(m) = to(n)
           /\ tx[w].pc = "write" => tx[w].cur \in Batch(w)
<1>1. BatchShape(w)
  BY DEF TInv, BatchTypes
<1>2. tx[w].pc = "write" => tx[w].cur \in Batch(w)
  BY <1>1 DEF BatchShape, PlaceShape
<1>3. \A r \in DOMAIN tx[w].moved : \E m \in Batch(w) : to(m) = r
  BY <1>1 DEF BatchShape, MovesMade
<1>4. \A m \in tx[w].new : \E n \in Batch(w) : to(m) = to(n)
  BY <1>1, <1>2, <1>3 DEF BatchShape, MovesMade
<1> QED
  BY <1>2, <1>3, <1>4

LEMMA CommitTurn ==
    ASSUME NEW w \in Workers, TInv, LInv, WInv, Commit(w)
    PROVE  WInv'
<1>0. /\ starts' = starts /\ client' = client /\ BatchEnds(w)
      /\ tx[w].pc = "next" /\ tx[w].left = {}
  BY CommitEffect DEF HistoryKept
<1>1. \A m \in Messages :
         msg'[m] = IF m \in Batch(w) THEN tx[w].rows[m]
                   ELSE IF m \in tx[w].new THEN [status |-> "scheduled", tries |-> 0]
                   ELSE msg[m]
  BY CommitEffect
<1>2. \A r \in Recipients :
         /\ r \in DOMAIN tx[w].moved => rcpt'[r].order = tx[w].moved[r].order
         /\ r \notin DOMAIN tx[w].moved => rcpt'[r].order = rcpt[r].order
  BY CommitEffect
<1>3. /\ \A m \in Batch(w) : m \in Messages /\ msg[m].status = "scheduled"
      /\ \A m \in tx[w].new : m \in Messages /\ ~Row(m) /\ m \notin Batch(w)
  BY OldBatch DEF TInv, BatchTypes, LInv, BatchFits, Row
<1>4. ASSUME starts = 0
      PROVE  (\A r \in Recipients : rcpt'[r].order = 0) /\ \A m \in Messages : ~Row(m)'
  <2>1. Batch(w) = {}
    BY <1>3, <1>4 DEF WInv, NotStarted, Row
  <2>2. DOMAIN tx[w].moved = {} /\ tx[w].new = {}
    BY <2>1, TouchedByBatch
  <2> QED
    BY <1>1, <1>2, <1>4, <2>1, <2>2 DEF WInv, NotStarted, Row
<1>5. NotStarted' /\ \A c \in Clients : SeesZero(c)'
  BY <1>0, <1>4 DEF NotStarted, WInv, SeesZero
<1>6. ASSUME starts <= 1
      PROVE  DbTurn' /\ \A v \in Workers : BatchTurn(v)'
  <2>0. Behind /\ Single /\ Passed /\ \A v \in Workers : BatchTurn(v)
    BY <1>6 DEF WInv, InTurn, DbTurn
  <2>1. \A r \in Recipients :
           /\ rcpt[r].order \in Nat /\ rcpt'[r].order \in {rcpt[r].order, rcpt[r].order + 1}
           /\ rcpt'[r].order # rcpt[r].order =>
                 \E b \in Batch(w) : /\ to(b) = r /\ b[2] = rcpt[r].order
                                     /\ tx[w].rows[b].status = "sent"
    BY <1>2, <2>0, TurnNumbers DEF BatchTurn, MovedTurn
  <2>2. \A m \in tx[w].new : m[2] = rcpt[to(m)].order + 1 /\ rcpt'[to(m)].order = m[2]
    <3>1. \A m \in tx[w].new : to(m) \in DOMAIN tx[w].moved /\ to(m) \in Recipients
      BY <1>0, <1>3, TurnNumbers DEF TInv, BatchTypes, BatchShape, MovesMade
    <3> QED
      BY <1>2, <2>0, <3>1 DEF BatchTurn, NewTurn
  <2>3. Behind'
    <3> SUFFICES ASSUME NEW m \in Messages, Row(m)'
                 PROVE  m[2] <= rcpt'[to(m)].order /\ (m[2] < rcpt'[to(m)].order => Gone(m)')
      BY DEF Behind
    <3>0. /\ to(m) \in Recipients /\ m[2] \in Nat
          /\ rcpt[to(m)].order \in Nat /\ rcpt'[to(m)].order \in Nat
      BY <2>1, TurnNumbers
    <3>1. CASE m \in Batch(w)
      <4>1. m[2] = rcpt[to(m)].order
        BY <2>0, <3>1, BatchAt
      <4>2. rcpt'[to(m)].order # rcpt[to(m)].order => tx[w].rows[m].status = "sent"
        BY <2>0, <2>1, <3>0, <3>1, BatchAt
      <4>3. tx[w].rows[m].status = "sent" => Gone(m)'
        BY <1>1, <3>1 DEF Gone
      <4> QED
        BY <2>1, <3>0, <4>1, <4>2, <4>3
    <3>2. CASE m \in tx[w].new
      BY <2>2, <3>0, <3>2
    <3>3. CASE m \notin Batch(w) /\ m \notin tx[w].new
      <4>1. Row(m) /\ (Gone(m) => Gone(m)')
        BY <1>1, <3>3 DEF Row, Gone
      <4>2. m[2] <= rcpt[to(m)].order /\ (m[2] < rcpt[to(m)].order => Gone(m))
        BY <2>0, <4>1 DEF Behind
      <4>3. ASSUME m[2] = rcpt[to(m)].order, rcpt'[to(m)].order # rcpt[to(m)].order
            PROVE  FALSE
        <5>1. PICK b \in Batch(w) : to(b) = to(m) /\ b[2] = rcpt[to(m)].order
          BY <2>1, <3>0, <4>3
        <5>2. m = b
          BY <2>0, <4>1, <4>3, <5>1, BatchAt
        <5> QED
          BY <3>3, <5>2
      <4> QED
        BY <2>1, <3>0, <4>1, <4>2, <4>3
    <3> QED
      BY <3>1, <3>2, <3>3
  <2>4. Single'
    <3> SUFFICES ASSUME NEW m \in Messages, NEW n \in Messages, Row(m)', Row(n)',
                        to(m) = to(n), m[2] = n[2]
                 PROVE  m = n
      BY DEF Single
    <3>1. ASSUME NEW x \in Messages, Row(x)' PROVE Row(x) \/ x \in tx[w].new
      BY <1>1, <1>3, <3>1 DEF Row
    <3>2. \A x \in Messages : Row(x) => x[2] <= rcpt[to(x)].order
      BY <2>0 DEF Behind
    <3>3. CASE Row(m) /\ Row(n)
      BY <2>0, <3>3 DEF Single
    <3>4. CASE m \in tx[w].new /\ n \in tx[w].new
      BY <2>0, <3>4 DEF BatchTurn, NewTurn
    <3>5. ~(m \in tx[w].new /\ Row(n)) /\ ~(n \in tx[w].new /\ Row(m))
      BY <2>1, <2>2, <3>2, TurnNumbers
    <3> QED
      BY <3>1, <3>3, <3>4, <3>5
  <2>5. Passed'
    <3> SUFFICES ASSUME NEW r \in Recipients, NEW k \in 1..Steps, k < rcpt'[r].order
                 PROVE  \E m \in Messages : to(m) = r /\ m[2] = k /\ Gone(m)'
      BY DEF Passed
    <3>1. CASE k < rcpt[r].order
      <4>1. PICK m \in Messages : to(m) = r /\ m[2] = k /\ Gone(m)
        BY <2>0, <3>1 DEF Passed
      <4>2. m \notin Batch(w) /\ m \notin tx[w].new
        BY <1>3, <4>1 DEF Gone, Row
      <4> QED
        BY <1>1, <4>1, <4>2 DEF Gone
    <3>2. CASE ~(k < rcpt[r].order)
      <4>1. k = rcpt[r].order /\ rcpt'[r].order # rcpt[r].order
        BY <2>1, <3>2
      <4>2. PICK b \in Batch(w) : /\ to(b) = r /\ b[2] = rcpt[r].order
                                  /\ tx[w].rows[b].status = "sent"
        BY <2>1, <4>1
      <4> QED
        BY <1>1, <1>3, <4>1, <4>2 DEF Gone
    <3> QED
      BY <3>1, <3>2
  <2>6. ASSUME NEW v \in Workers PROVE BatchTurn(v)'
    <3>1. CASE v = w
      BY <1>0, <3>1, IdleBatchTurn DEF BatchEnds
    <3>2. CASE v # w
      <4>1. \A n \in Batch(v) : rcpt'[to(n)].order = rcpt[to(n)].order
        <5>1. \A n \in Batch(v) : to(n) \notin DOMAIN tx[w].moved
          BY <2>0, <3>2, NoCommonRecipient, TouchedByBatch
        <5>2. \A n \in Batch(v) : to(n) \in Recipients
          BY OldBatch, TurnNumbers DEF TInv, BatchTypes
        <5> QED
          BY <1>2, <5>1, <5>2
      <4>2. tx'[v] = tx[v]
        BY <1>0, <3>2 DEF BatchEnds
      <4>3. tx[v].pc = "write" => rcpt'[to(tx[v].cur)].order = rcpt[to(tx[v].cur)].order
        BY <4>1, TouchedByBatch
      <4>4. \A r \in DOMAIN tx[v].moved : rcpt'[r].order = rcpt[r].order
        BY <4>1, TouchedByBatch
      <4>5. \A m \in tx[v].new : rcpt'[to(m)].order = rcpt[to(m)].order
        BY <4>1, TouchedByBatch
      <4> QED
        BY <2>0, <4>2, <4>3, <4>4, <4>5, OtherBatchTurn
    <3> QED
      BY <3>1, <3>2
  <2> QED
    BY <2>3, <2>4, <2>5, <2>6 DEF DbTurn
<1> QED
  BY <1>0, <1>5, <1>6 DEF WInv, InTurn

LEMMA RollBackTurn ==
    ASSUME NEW w \in Workers, TInv, WInv, RollBack(w)
    PROVE  WInv'
<1>1. UNCHANGED <<rcpt, msg, client, starts>> /\ BatchEnds(w)
  BY BatchEndsTypes DEF RollBack, database, TInv
<1>2. NotStarted' /\ (\A c \in Clients : SeesZero(c)') /\ (DbTurn => DbTurn')
  BY <1>1 DEF WInv, NotStarted, SeesZero, DbTurn, Behind, Single, Passed, Row, Gone
<1>3. ASSUME NEW v \in Workers, BatchTurn(v) PROVE BatchTurn(v)'
  <2>1. CASE v = w
    BY <1>1, <2>1, IdleBatchTurn DEF BatchEnds
  <2>2. CASE v # w
    BY <1>1, <1>3, <2>2, OtherBatchTurn DEF BatchEnds
  <2> QED
    BY <2>1, <2>2
<1> QED
  BY <1>1, <1>2, <1>3 DEF WInv, InTurn

LEMMA QuietRequestTurn ==
    ASSUME WInv, UNCHANGED <<rcpt, msg, tx, starts>>, \A c \in Clients : SeesZero(c)'
    PROVE  WInv'
<1>1. NotStarted' /\ (DbTurn => DbTurn')
  BY DEF WInv, NotStarted, DbTurn, Behind, Single, Passed, Row, Gone
<1>2. \A v \in Workers : BatchTurn(v) => BatchTurn(v)'
  BY DEF BatchTurn, PlanTurn, MovedTurn, NewTurn, Batch
<1> QED
  BY <1>1, <1>2 DEF WInv, InTurn

LEMMA RequestStepTurn ==
    ASSUME NEW c \in Clients, WInv, RequestStep(c)
    PROVE  WInv'
<1>1. UNCHANGED <<rcpt, msg, tx, starts>>
  BY DEF RequestStep, HistoryKept
<1>2. ASSUME NEW d \in Clients PROVE SeesZero(d)'
  <2>1. CASE d # c
    BY <1>1, <2>1 DEF RequestStep, OnlyRequest, WInv, SeesZero
  <2>2. CASE d = c
    <3>1. ASSUME starts = 0, client'[c].pc = "schedule"
          PROVE  \A r \in DOMAIN client'[c].seen : client'[c].seen[r] = 0
      <4>1. Lists(c) \/ SchedulesOne(c)
        BY <3>1 DEF RequestStep, Begins, Records, Locks, Snapshots, TakesRows, Ends, IdleClient
      <4>2. CASE Lists(c)
        BY <3>1, <4>2 DEF Lists, WInv, NotStarted
      <4>3. CASE SchedulesOne(c)
        BY <3>1, <4>3 DEF SchedulesOne, SameList, WInv, SeesZero
      <4> QED
        BY <4>1, <4>2, <4>3
    <3> QED
      BY <1>1, <2>2, <3>1 DEF SeesZero
  <2> QED
    BY <2>1, <2>2
<1> QED
  BY <1>1, <1>2, QuietRequestTurn

LEMMA CommitStartTurn ==
    ASSUME NEW c \in Clients, TInv, LInv, WInv, CommitStart(c)
    PROVE  WInv'
<1>0. /\ client[c].pc = "schedule" /\ client[c].op = "start" /\ starts' = starts + 1
      /\ starts \in Nat /\ tx' = tx /\ RequestShape(c)
      /\ client[c].rows \subseteq Messages
  BY CommitStartEffect
     DEF TInv, HistoryTypes, RequestTypes, ClientTypes, ClientRecord
<1>1. NotStarted' /\ \A d \in Clients : SeesZero(d)'
  BY <1>0 DEF NotStarted, SeesZero
<1>2. ASSUME starts' <= 1
      PROVE  DbTurn' /\ \A v \in Workers : BatchTurn(v)'
  <2>0. starts = 0
    BY <1>0, <1>2
  <2>1. /\ \A r \in Recipients : rcpt[r].order = 0
        /\ \A m \in Messages : ~Row(m)
    BY <2>0 DEF WInv, NotStarted
  <2>2. /\ \A m \in Messages : Row(m)' => m \in client[c].rows
        /\ \A m \in client[c].rows : msg'[m].status = "scheduled"
    BY <2>1, CommitStartEffect DEF Row
  <2>3. \A m \in client[c].rows : m[2] = 1 /\ rcpt'[to(m)].order = 1
    <3>1. \A m \in client[c].rows : /\ m[2] = 1 /\ to(m) \in Started(c) /\ to(m) \in Recipients
                                    /\ client[c].seen[to(m)] # 1
      BY <1>0, <2>0, TurnNumbers DEF RequestShape, WInv, SeesZero, Started
    <3> QED
      BY <3>1, CommitStartEffect
  <2>4. \A r \in Recipients : rcpt'[r].order \in {0, 1}
    BY <2>1, CommitStartEffect
  <2>5. Behind'
    <3> SUFFICES ASSUME NEW m \in Messages, Row(m)'
                 PROVE  m[2] <= rcpt'[to(m)].order /\ ~(m[2] < rcpt'[to(m)].order)
      BY DEF Behind
    <3> QED
      BY <2>2, <2>3
  <2>6. Single'
    BY <1>0, <2>2 DEF Single, RequestShape
  <2>7. Passed'
    BY <2>4, TurnNumbers DEF Passed
  <2>8. ASSUME NEW v \in Workers PROVE BatchTurn(v)'
    <3>1. Batch(v) = {}
      BY <2>1, OldBatch DEF TInv, BatchTypes, LInv, BatchFits, Row
    <3>2. DOMAIN tx[v].moved = {} /\ tx[v].new = {} /\ tx[v].pc # "write"
      BY <3>1, TouchedByBatch
    <3> QED
      BY <1>0, <3>2 DEF BatchTurn, PlanTurn, MovedTurn, NewTurn
  <2> QED
    BY <2>5, <2>6, <2>7, <2>8 DEF DbTurn
<1> QED
  BY <1>1, <1>2 DEF WInv, InTurn

\* Requests that cancel what is scheduled, and bounces.
LEMMA StatusTurn ==
    ASSUME TInv, WInv, tx' = tx, starts' = starts,
           NEW c \in Clients, OnlyRequest(c), Ends(c),
           \A r \in Recipients : rcpt'[r].order = rcpt[r].order,
           \A m \in Messages :
              \/ msg'[m] = msg[m]
              \/ msg[m].status = "scheduled" /\ msg'[m].status = "cancelled"
              \/ Row(m) /\ msg'[m].status = "bounced"
    PROVE  WInv'
<1>1. \A m \in Messages : /\ Row(m)' <=> Row(m)
                          /\ Gone(m) => Gone(m)'
                          /\ Row(m) => Gone(m)' \/ msg'[m] = msg[m] \/ msg[m].status = "scheduled"
  BY DEF Row, Gone
<1>2. NotStarted'
  BY <1>1 DEF WInv, NotStarted
<1>3. ASSUME NEW d \in Clients PROVE SeesZero(d)'
  <2>1. CASE d = c
    BY <2>1 DEF SeesZero, Ends, IdleClient
  <2>2. CASE d # c
    BY <2>2 DEF SeesZero, OnlyRequest, WInv
  <2> QED
    BY <2>1, <2>2
<1>4. ASSUME starts <= 1
      PROVE  DbTurn' /\ \A v \in Workers : BatchTurn(v)'
  <2>0. Behind /\ Single /\ Passed /\ \A v \in Workers : BatchTurn(v)
    BY <1>4 DEF WInv, InTurn, DbTurn
  <2>1. Behind'
    <3> SUFFICES ASSUME NEW m \in Messages, Row(m)
                 PROVE  m[2] <= rcpt[to(m)].order /\ (m[2] < rcpt[to(m)].order => Gone(m)')
      BY <1>1, TurnNumbers DEF Behind
    <3>1. m[2] <= rcpt[to(m)].order /\ (m[2] < rcpt[to(m)].order => Gone(m))
      BY <2>0 DEF Behind
    <3> QED
      BY <1>1, <3>1
  <2>2. Single'
    BY <1>1, <2>0 DEF Single
  <2>3. Passed'
    BY <1>1, <2>0 DEF Passed
  <2>4. ASSUME NEW v \in Workers PROVE BatchTurn(v)'
    <3>1. \A n \in Batch(v) : to(n) \in Recipients
      BY OldBatch, TurnNumbers DEF TInv, BatchTypes
    <3>2. /\ tx[v].pc = "write" => rcpt'[to(tx[v].cur)].order = rcpt[to(tx[v].cur)].order
          /\ \A r \in DOMAIN tx[v].moved : rcpt'[r].order = rcpt[r].order
          /\ \A m \in tx[v].new : rcpt'[to(m)].order = rcpt[to(m)].order
      BY <3>1, TouchedByBatch
    <3> QED
      BY <2>0, <3>2, OtherBatchTurn
  <2> QED
    BY <2>1, <2>2, <2>3, <2>4 DEF DbTurn
<1> QED
  BY <1>2, <1>3, <1>4 DEF WInv, InTurn

LEMMA DeleteRecipientTurn ==
    ASSUME NEW c \in Clients, TInv, LInv, WInv, DeleteRecipient(c)
    PROVE  WInv'
<1>1. \A m \in client[c].rows : msg[m].status = "scheduled"
  BY DeleteRecipientEffect DEF LInv, RequestFits
<1> QED
  BY <1>1, DeleteRecipientEffect, StatusTurn

LEMMA EventEndsTurn ==
    ASSUME NEW c \in Clients, TInv, LInv, WInv, NEW cancelled, NEW stopped,
           EventEnds(c, cancelled, stopped)
    PROVE  WInv'
<1>1. \A m \in cancelled : msg[m].status = "scheduled"
  BY DEF EventEnds
<1>2. Row(client[c].m)
  BY DEF EventEnds, LInv, RequestFits, Row
<1> QED
  BY <1>1, <1>2, EventEndsEffect, StatusTurn

LEMMA TurnNext == TInv /\ LInv /\ WInv /\ [Next]_vars => WInv'
<1> SUFFICES ASSUME TInv, LInv, WInv, [Next]_vars PROVE WInv'
  OBVIOUS
<1>1. ASSUME NEW c \in Clients, RequestCommits(c) PROVE WInv'
  BY <1>1, CommitStartTurn, DeleteRecipientTurn, EventEndsTurn DEF RequestCommits
<1>2. CASE Bystander
  <2>1. UNCHANGED <<rcpt, msg, tx, client, starts>>
    BY <1>2 DEF Bystander
  <2>2. \A c \in Clients : SeesZero(c)'
    BY <2>1 DEF WInv, SeesZero
  <2> QED
    BY <2>1, <2>2, QuietRequestTurn
<1> QED
  BY <1>1, <1>2, AllCases, BatchStepTurn, CommitTurn, RollBackTurn, RequestStepTurn

LEMMA TurnInit == Init => WInv
<1> SUFFICES ASSUME Init PROVE WInv
  OBVIOUS
<1>1. /\ \A m \in Messages : ~Row(m)
      /\ \A r \in Recipients : rcpt[r].order = 0
      /\ \A c \in Clients : client[c].pc # "schedule"
  BY DEF Init, Row, IdleClient
<1>2. \A w \in Workers : BatchTurn(w)
  BY DEF Init, BatchTurn, PlanTurn, MovedTurn, NewTurn, IdleTx
<1>3. DbTurn
  BY <1>1 DEF DbTurn, Behind, Single, Passed
<1> QED
  BY <1>1, <1>2, <1>3 DEF WInv, NotStarted, InTurn, SeesZero

\* In a campaign started once, advance_recipient neither repeats a step nor
\* goes on before the message of the step before went out.
THEOREM StepsGoInTurn == Spec => []StepsInTurn
<1>1. TInv /\ WInv => StepsInTurn
  <2> SUFFICES ASSUME TInv, starts <= 1, Behind, Single, Passed,
                      NEW r \in Recipients, NEW n \in EmailSteps
               PROVE  /\ Cardinality(Rows(r, n)) <= 1
                      /\ n > 1 /\ Rows(r, n) # {} =>
                            \E m \in Rows(r, n - 1) : msg[m].status \in {"sent", "bounced"}
    BY DEF WInv, InTurn, DbTurn, StepsInTurn
  <2>1. \A m : m \in Rows(r, n) => m \in Messages /\ Row(m) /\ to(m) = r /\ m[2] = n
    BY DEF Rows, Row, to
  <2>2. Cardinality(Rows(r, n)) <= 1
    <3>1. CASE Rows(r, n) = {}
      BY <3>1, FS_EmptySet
    <3>2. ASSUME NEW m \in Rows(r, n) PROVE Cardinality(Rows(r, n)) <= 1
      <4>1. Rows(r, n) = {m}
        BY <2>1, <3>2 DEF Single
      <4> QED
        BY <4>1, FS_Singleton
    <3> QED
      BY <3>1, <3>2
  <2>3. ASSUME n > 1, NEW m \in Rows(r, n)
        PROVE  \E p \in Rows(r, n - 1) : msg[p].status \in {"sent", "bounced"}
    <3>1. n \in 1..Steps /\ n - 1 \in 1..Steps /\ n <= rcpt[r].order
          /\ rcpt[r].order \in Nat /\ n \in Nat
      BY <2>1, <2>3, StepsAssumption, TurnNumbers DEF Behind
    <3>2. n - 1 < rcpt[r].order
      BY <3>1
    <3>3. PICK p \in Messages : to(p) = r /\ p[2] = n - 1 /\ Gone(p)
      BY <3>1, <3>2 DEF Passed
    <3> QED
      BY <3>3 DEF Rows, Gone, to
  <2> QED
    BY <2>2, <2>3
<1> QED
  BY <1>1, TypesInit, TypesNext, LocksInit, LocksNext, TurnInit, TurnNext, PTL DEF Spec
=============================================================================
