--------------------------- MODULE DeliveryRecords ---------------------------
(***************************************************************************)
(* What the delivery skills leave behind: the delivery task with its       *)
(* receipts, the attempts of the exchange skills with their execution      *)
(* evidence, the exchange metrics and the subscriptions.  A skill is a     *)
(* list of commits, each of its own database session, made under the write *)
(* lock; the last one is the flush of the delivery card, and any of them   *)
(* can fail, after which the caller may try again.                         *)
(*                                                                         *)
(* A runtime task is flushed from its card.  The card of an imported task  *)
(* is made up from its row, and what a skill does to it is not kept.       *)
(* Requests that overlap are the subject of WritePipeline and              *)
(* OverlappingSkills: here one skill runs at a time.                       *)
(***************************************************************************)
EXTENDS Naturals, Sequences

CONSTANTS Deliveries,      \* delivery codes
          DeliveryAudits,  \* the audit ids, in the order they are given out
          ReceiptNos,      \* numbers on the receipts that partners send
          ReceiptStates,   \* what those receipts say
          AttemptIds,      \* attempt ids that callers name
          MaxCommitFaults  \* bound on failing commits

AuditIds == {DeliveryAudits[i] : i \in DOMAIN DeliveryAudits}

VARIABLES delivery,    \* the task's row: its kind, its state and its receipt fields
          receipts,    \* the rows of delivery_receipt of each task, in order of issue
          exchanges,   \* the rows of delivery_attempt
          evidenceOf,  \* the rows of delivery_execution_evidence, by audit id
          metrics,     \* the rows of exchange_metric_projection
          subscribed,  \* the rows of delivery_subscription
          skill,       \* the skill that holds the lock: its card and its commits to come
          ackedReceipt, \* history: the receipt status last acknowledged
          shown,       \* history: the receipt status a reader must see, "any" if none
          handedOut,   \* history: the download links that were answered
          brokenOff,   \* history: audit ids of skills that did not come to their end
          unanswered,  \* history: tasks whose last skill broke off after its last commit
          given,       \* audit ids given out
          commitFaults

rowsOfDelivery == <<delivery, receipts, exchanges, evidenceOf, metrics, subscribed>>
tellings == <<ackedReceipt, shown, handedOut, brokenOff, unanswered>>
deliveryVars == <<rowsOfDelivery, skill, tellings, given, commitFaults>>

Unnumbered == "unnumbered"
Candidate == "candidate"     \* backflow.candidateObject, which every card has
Reconciled == "RCPT"         \* the number a reconciliation gives

\* Audit ids are unique, and partners number their receipts otherwise than the
\* platform does: not with its audit ids or its RCPT numbers.
ASSUME DeliveryAssumption ==
    /\ DeliveryAudits \in Seq(AuditIds)
    /\ \A i, j \in DOMAIN DeliveryAudits : DeliveryAudits[i] = DeliveryAudits[j] => i = j
    /\ AuditIds \intersect (ReceiptNos \union {Unnumbered, Candidate, Reconciled, "none"}) = {}
    /\ ReceiptNos \intersect {"none", Unnumbered, Reconciled} = {}
    /\ MaxCommitFaults \in Nat

NoSkill == [name |-> "none", task |-> "none", audit |-> "none", card |-> <<>>,
            commits |-> <<>>]

Receipt(no, status, projected, type) ==
    [no |-> no, status |-> status, projected |-> projected, type |-> type]

\* f with key set to value, key new or not.
With(f, key, value) == [k \in DOMAIN f \union {key} |-> IF k = key THEN value ELSE f[k]]

-----------------------------------------------------------------------------
(* The card and its flush                                                  *)

\* DeliveryService.by_id: the card of a runtime task is read from its row, that
\* of an imported one is made up by task_from_record, without receipt fields.
by_id(t) ==
    IF delivery[t].kind = "runtime" THEN delivery[t]
    ELSE [delivery[t] EXCEPT !.receiptStatus = "none", !.receiptNo = "none", !.confirmed = FALSE]

Known(t) == delivery[t].kind # "absent"

\* _receipt_status
receipt_status(card) ==
    IF card.receiptStatus = "reconciled" THEN "reconciled"
    ELSE IF card.confirmed THEN "acknowledged"
    ELSE IF card.state = "failed" THEN "rejected" ELSE "issued"

CardNumber(card) == IF card.receiptNo = "none" THEN Candidate ELSE card.receiptNo

Matching(t, card) == {i \in DOMAIN receipts[t] : receipts[t][i].no = CardNumber(card)}

\* The receipt is looked up by its number with scalar_one_or_none, which raises
\* when two rows have it.
Ambiguous(t, card) == \E i, j \in Matching(t, card) : i # j

\* upsert_from_delivery: the row, and the receipt that projects the card.  A
\* receipt is taken for a projection when its body holds a note, a backflow or a
\* history (_is_delivery_projection_receipt): one that a partner sent with such a
\* body is written over, any other is left as it is.
upsert_from_delivery(t, card) ==
    /\ ~Ambiguous(t, card)
    /\ delivery' = [delivery EXCEPT ![t] = [card EXCEPT !.kind = "runtime"]]
    /\ receipts' = [receipts EXCEPT ![t] =
           IF Matching(t, card) = {}
           THEN Append(@, Receipt(CardNumber(card), receipt_status(card), TRUE, "provision"))
           ELSE [i \in DOMAIN @ |-> IF i \in Matching(t, card) /\ @[i].projected
                                    THEN [@[i] EXCEPT !.status = receipt_status(card),
                                                      !.type = "provision"]
                                    ELSE @[i]]]
    /\ UNCHANGED <<exchanges, evidenceOf, metrics, subscribed>>

\* CardSession.flush: only the cards of runtime tasks are tracked.
Flushes(t) == IF delivery[t].kind = "runtime" THEN <<[do |-> "flush"]>> ELSE <<>>

-----------------------------------------------------------------------------
(* The commits                                                             *)

\* upsert_attempt
upsert_attempt(t, c) ==
    /\ exchanges' = With(exchanges, c.code, [state |-> c.state, evidence |-> skill.audit])
    /\ UNCHANGED <<delivery, receipts, evidenceOf, metrics, subscribed>>

\* add_execution_evidence: one row for each audit id.
add_execution_evidence(t, c) ==
    /\ evidenceOf' = With(evidenceOf, skill.audit,
                          [attempt |-> c.code, status |-> c.state, executor |-> c.executor])
    /\ UNCHANGED <<delivery, receipts, exchanges, metrics, subscribed>>

\* upsert_exchange_metric: the counts of the row are replaced, not added to.
upsert_exchange_metric(t, c) ==
    /\ metrics' = With(metrics, t, [exchange |-> 1, success |-> c.success, failed |-> c.failed])
    /\ UNCHANGED <<delivery, receipts, exchanges, evidenceOf, subscribed>>

\* append_receipt
append_receipt(t, c) ==
    /\ receipts' = [receipts EXCEPT ![t] = Append(@, Receipt(c.no, c.status, c.noted, c.type))]
    /\ UNCHANGED <<delivery, exchanges, evidenceOf, metrics, subscribed>>

\* update_task_payload: the state column alone.
update_task_payload(t, c) ==
    /\ delivery' = [delivery EXCEPT ![t].state = c.state]
    /\ UNCHANGED <<receipts, exchanges, evidenceOf, metrics, subscribed>>

\* upsert_subscription replaces the snapshot, and the terminations kept in it.
upsert_subscription(t, c) ==
    /\ subscribed' = With(subscribed, t, [status |-> c.status, terminations |-> {}])
    /\ UNCHANGED <<delivery, receipts, exchanges, evidenceOf, metrics>>

\* terminate_subscription
terminate_subscription(t, c) ==
    /\ subscribed' = [subscribed EXCEPT ![t] =
                          [status |-> "terminated",
                           terminations |-> @.terminations \union {skill.audit}]]
    /\ UNCHANGED <<delivery, receipts, exchanges, evidenceOf, metrics>>

-----------------------------------------------------------------------------
(* The skills                                                              *)

Begin(name, t, card, commits) ==
    /\ skill = NoSkill /\ given < Len(DeliveryAudits)
    /\ given' = given + 1
    /\ skill' = [name |-> name, task |-> t, audit |-> DeliveryAudits[given + 1], card |-> card,
                 commits |-> commits]
    /\ UNCHANGED <<rowsOfDelivery, tellings, commitFaults>>

NextAudit == DeliveryAudits[given + 1]

ExchangeStates == {"planned", "published", "running", "stopped"}

\* Mutant: the evidence is written first.
EvidenceFirst(t, s, code) ==
    LET row(do) == [do |-> do, code |-> code, state |-> s, executor |-> "builtin_exchange"]
    IN <<row("evidence"), row("attempt"),
         [do |-> "metric", success |-> IF s = "stopped" THEN 0 ELSE 1,
          failed |-> IF s = "stopped" THEN 1 ELSE 0]>> \o Flushes(t)

\* record_attempt: the attempt, its evidence and the metric, then the card.
record_attempt(t, s, code) ==
    LET row(do) == [do |-> do, code |-> code, state |-> s, executor |-> "builtin_exchange"]
    IN <<row("attempt"), row("evidence"),
         [do |-> "metric", success |-> IF s = "stopped" THEN 0 ELSE 1,
          failed |-> IF s = "stopped" THEN 1 ELSE 0]>> \o Flushes(t)

\* delivery.exchange.plan, publish, start and stop; without an attempt id of
\* the caller's the audit id makes one.
Exchange(t, s, named) ==
    /\ Known(t) /\ given < Len(DeliveryAudits)
    /\ Begin("exchange", t, by_id(t),
             record_attempt(t, s, IF named = "none" THEN NextAudit ELSE named))

\* delivery.file.download: the receipt carries the link; the card is unchanged.
record_file_download(t) ==
    /\ Known(t) /\ given < Len(DeliveryAudits)
    /\ Begin("download", t, by_id(t),
             <<[do |-> "receipt", no |-> NextAudit, status |-> "issued", noted |-> FALSE,
                type |-> "file_download"]>>)

\* delivery.receipt.ingest: a task nobody knows gets its receipt too; the
\* receipt's number, if it has one, becomes the card's.  The body may be "noted",
\* that is hold a note, a backflow or a history.
ingest_delivery_receipt(t, no, s, noted, named, counted) ==
    LET card == by_id(t)
        evidence == [do |-> "evidence", code |-> named, state |-> s,
                     executor |-> "exchange_receipt"]
        metric == [do |-> "metric", success |-> 0, failed |-> 0]
    IN Begin("ingest", t,
             [card EXCEPT !.receiptStatus = s,
                          !.receiptNo = IF no = Unnumbered THEN @ ELSE no],
             <<[do |-> "receipt", no |-> no, status |-> s, noted |-> noted,
                type |-> "exchange"]>>
             \o (IF named = "none" THEN <<>> ELSE <<evidence>>)
             \o (IF counted THEN <<metric>> ELSE <<>>) \o Flushes(t))

\* delivery.reconcile-receipt
reconcile_delivery_receipt(t) ==
    LET card == by_id(t)
    IN /\ Known(t) /\ card.state # "failed" /\ card.receiptStatus # "reconciled"
       /\ Begin("reconcile", t,
                [card EXCEPT !.receiptStatus = "reconciled", !.receiptNo = Reconciled],
                Flushes(t))

\* delivery.trigger-recovery: no runtime task is ever in the state failed.
trigger_delivery_recovery(t) ==
    /\ Known(t) /\ by_id(t).state = "failed"
    /\ Begin("recovery", t, [by_id(t) EXCEPT !.state = "warning"], Flushes(t))

\* delivery.replace_or_cancel: the column, then the card with the same state.
replace_or_cancel_delivery(t, s) ==
    /\ Known(t)
    /\ Begin("withdraw", t, [by_id(t) EXCEPT !.state = s],
             <<[do |-> "state", state |-> s]>> \o Flushes(t))

\* delivery.subscription.manage: any action at any status.
manage_delivery_subscription(t, s) ==
    /\ Known(t)
    /\ Begin("subscribe", t, by_id(t), <<[do |-> "subscription", status |-> s]>> \o Flushes(t))

\* subscription.terminate
TerminateSubscription(t) ==
    /\ t \in DOMAIN subscribed
    /\ Begin("terminate", t, by_id(t), <<[do |-> "terminate"]>>)

\* delivery.access.grant: it writes the card itself, that of an imported task
\* too, which makes a runtime task of it.
GrantAccess(t) ==
    LET card == by_id(t)
    IN /\ Known(t) /\ card.state \in {"pending", "warning", "reconciling", "supplementing"}
       /\ Begin("grant", t,
                [card EXCEPT !.state = "completed",
                             !.receiptStatus = IF @ = "none" THEN "granted" ELSE @],
                <<[do |-> "flush"]>>)

\* backflow.confirm, of a request that is completed.
confirm_backflow(t) ==
    LET card == by_id(t)
    IN /\ Known(t) /\ card.receiptStatus = "reconciled" /\ ~card.confirmed
       /\ Begin("confirm", t, [card EXCEPT !.state = "completed", !.confirmed = TRUE], Flushes(t))

\* supplement.submit, summary.confirm and the decisions on the request, which move
\* the task and begin the backflow again.
MoveTask(t, s) ==
    /\ Known(t)
    /\ Begin("move", t, [by_id(t) EXCEPT !.state = s, !.confirmed = FALSE], Flushes(t))

\* service.rating.submit and the other skills that change only the card.
TouchCard(t) ==
    /\ Known(t)
    /\ Begin("touch", t, by_id(t), Flushes(t))

Work ==
    /\ skill # NoSkill /\ skill.commits # <<>>
    /\ LET c == Head(skill.commits)
           t == skill.task
       IN \/ c.do = "attempt" /\ upsert_attempt(t, c)
          \/ c.do = "evidence" /\ add_execution_evidence(t, c)
          \/ c.do = "metric" /\ upsert_exchange_metric(t, c)
          \/ c.do = "receipt" /\ append_receipt(t, c)
          \/ c.do = "state" /\ update_task_payload(t, c)
          \/ c.do = "subscription" /\ upsert_subscription(t, c)
          \/ c.do = "terminate" /\ terminate_subscription(t, c)
          \/ c.do = "flush" /\ upsert_from_delivery(t, skill.card)
    /\ skill' = [skill EXCEPT !.commits = Tail(@)]
    /\ UNCHANGED <<tellings, given, commitFaults>>

\* A receipt that no flush writes over.
LeftAsItIs(receipt) == ~receipt.projected \/ receipt.no = Unnumbered

\* What the reader must see after the answer: the status of a receipt that is not
\* taken for a projection, or that of a first reconciliation; a later one changes
\* the earlier receipt in place, a grant none, and a download adds one.
Telling(t) ==
    IF delivery[t].kind # "runtime" THEN "any"
    ELSE CASE skill.name = "ingest" ->
                  IF LeftAsItIs(receipts[t][Len(receipts[t])])
                  THEN skill.card.receiptStatus ELSE "any"
           [] skill.name = "reconcile" ->
                  IF receipts[t][Len(receipts[t])].no = Reconciled THEN "reconciled" ELSE "any"
           [] skill.name \in {"download", "grant"} -> "any"
           [] OTHER -> shown[t]

Acknowledge ==
    /\ skill # NoSkill /\ skill.commits = <<>>
    /\ LET t == skill.task
       IN /\ ackedReceipt' = [ackedReceipt EXCEPT ![t] = skill.card.receiptStatus]
          /\ shown' = [shown EXCEPT ![t] = Telling(t)]
          /\ handedOut' = IF skill.name = "download" THEN handedOut \union {skill.audit}
                          ELSE handedOut
          /\ unanswered' = unanswered \ {t}
    /\ skill' = NoSkill
    /\ UNCHANGED <<rowsOfDelivery, brokenOff, given, commitFaults>>

Drop(t) ==
    /\ skill' = NoSkill
    /\ brokenOff' = brokenOff \union {skill.audit}
    /\ shown' = [shown EXCEPT ![t] = "any"]
    /\ unanswered' = IF skill.commits = <<>> THEN unanswered \union {t} ELSE unanswered
    /\ UNCHANGED <<rowsOfDelivery, ackedReceipt, handedOut, given>>

\* A commit that fails, or the saving of the state that follows them; the card
\* is dropped.
Fails ==
    /\ skill # NoSkill /\ commitFaults < MaxCommitFaults
    /\ commitFaults' = commitFaults + 1
    /\ Drop(skill.task)

\* The flush that finds two receipts of its number raises.
Raises ==
    /\ skill # NoSkill /\ skill.commits # <<>>
    /\ Head(skill.commits).do = "flush" /\ Ambiguous(skill.task, skill.card)
    /\ Drop(skill.task)
    /\ UNCHANGED commitFaults

-----------------------------------------------------------------------------
(* The specification                                                       *)

RuntimeTask == [kind |-> "runtime", state |-> "pending", receiptStatus |-> "none",
                receiptNo |-> "none", confirmed |-> FALSE]
StartTasks == {RuntimeTask, [RuntimeTask EXCEPT !.kind = "imported", !.state = "failed"],
               [RuntimeTask EXCEPT !.kind = "imported"],
               [RuntimeTask EXCEPT !.kind = "absent"]}

\* A runtime task was flushed when its application was created.
DeliveryInit ==
    /\ delivery \in [Deliveries -> StartTasks]
    /\ receipts = [t \in Deliveries |->
                      IF delivery[t].kind = "runtime"
                      THEN <<Receipt(Candidate, "issued", TRUE, "provision")>> ELSE <<>>]
    /\ exchanges = <<>> /\ evidenceOf = <<>> /\ metrics = <<>> /\ subscribed = <<>>
    /\ skill = NoSkill
    /\ ackedReceipt = [t \in Deliveries |-> "none"]
    /\ shown = [t \in Deliveries |-> "any"]
    /\ handedOut = {} /\ brokenOff = {} /\ unanswered = {}
    /\ given = 0 /\ commitFaults = 0

DeliveryNext ==
    \/ \E t \in Deliveries :
          \/ \E s \in ExchangeStates, a \in AttemptIds \union {"none"} : Exchange(t, s, a)
          \/ record_file_download(t)
          \/ \E no \in ReceiptNos \union {Unnumbered}, s \in ReceiptStates,
                noted \in BOOLEAN, a \in AttemptIds \union {"none"}, counted \in BOOLEAN :
                ingest_delivery_receipt(t, no, s, noted, a, counted)
          \/ reconcile_delivery_receipt(t)
          \/ trigger_delivery_recovery(t)
          \/ \E s \in {"replaced", "cancelled"} : replace_or_cancel_delivery(t, s)
          \/ \E s \in {"active", "paused", "cancelled"} : manage_delivery_subscription(t, s)
          \/ TerminateSubscription(t)
          \/ GrantAccess(t)
          \/ confirm_backflow(t)
          \/ \E s \in {"warning", "supplementing", "reconciling"} : MoveTask(t, s)
          \/ TouchCard(t)
    \/ Work \/ Acknowledge \/ Fails \/ Raises

DeliverySpec == DeliveryInit /\ [][DeliveryNext]_deliveryVars

-----------------------------------------------------------------------------
(* Properties                                                              *)

\* _get_delivery_task: the state is the column's, the receipt status that of the
\* receipt issued last.
get_delivery_task(t) ==
    [status |-> delivery[t].state,
     receiptStatus |-> IF receipts[t] = <<>> THEN "none"
                       ELSE receipts[t][Len(receipts[t])].status]

\* An exchange skill that breaks off leaves an attempt without evidence and never
\* evidence without its attempt, and an attempt tells what its evidence tells,
\* however often a caller repeats it under its own attempt id (record_attempt).
AttemptsBehindEvidence ==
    /\ \A e \in DOMAIN evidenceOf : evidenceOf[e].executor = "builtin_exchange" =>
           evidenceOf[e].attempt \in DOMAIN exchanges
    /\ \A c \in DOMAIN exchanges :
           IF exchanges[c].evidence \in DOMAIN evidenceOf
           THEN evidenceOf[exchanges[c].evidence].status = exchanges[c].state
           ELSE exchanges[c].evidence \in brokenOff \union {skill.audit}

\* A link that was answered has its one receipt (record_file_download).
LinksHaveReceipts ==
    \A a \in handedOut :
        \E t \in Deliveries :
            \E i \in DOMAIN receipts[t] :
                /\ receipts[t][i].no = a /\ receipts[t][i].type = "file_download"
                /\ \A j \in DOMAIN receipts[t] : receipts[t][j].no = a => j = i

\* The card of a runtime task says what was acknowledged last, whatever failed
\* since (the flush is the last commit; only a skill that breaks off after it leaves
\* the card ahead of its answer).
CardsTellAcknowledged ==
    \A t \in Deliveries :
        (delivery[t].kind = "runtime" /\ skill = NoSkill /\ t \notin unanswered) =>
            ackedReceipt[t] \in {"none", delivery[t].receiptStatus}

\* A reader of delivery.view is told the receipt status last acknowledged, where
\* no download, grant or repeated reconciliation came after it.  A partner's receipt
\* with a number and with a note, a backflow or a history in its body is excepted:
\* upsert_from_delivery takes it for the card's projection, and the flush of the very
\* skill that stores it writes its status over.
ReadersToldAcknowledged ==
    \A t \in Deliveries :
        (shown[t] # "any" /\ skill = NoSkill) => get_delivery_task(t).receiptStatus = shown[t]

\* The four together: what the delivery skills leave behind can be followed back
\* from evidence to attempt, from link to receipt and from answer to card.
DeliveryTrailKept ==
    /\ AttemptsBehindEvidence
    /\ LinksHaveReceipts
    /\ CardsTellAcknowledged
    /\ ReadersToldAcknowledged
=============================================================================
