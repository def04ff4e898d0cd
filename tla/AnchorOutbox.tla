---------------------------- MODULE AnchorOutbox ----------------------------
(***************************************************************************)
(* The durable anchor outbox and the daemon threads that drain it          *)
(* (zw_brain/background_tasks/__init__.py and the anchor part of           *)
(* zw_brain/shared/database_store.py).                                     *)
(*                                                                         *)
(* Each worker polls the table, takes the pending rows oldest first,       *)
(* claims a row with one conditional UPDATE, calls the chain adapter,      *)
(* upserts the receipt and flips `delivered`.  Every database call is a    *)
(* transaction of its own, so workers of one process and of its replicas   *)
(* interleave between any two of them.                                     *)
(*                                                                         *)
(* claimed_at is modelled by the ticks left until the row is claimable     *)
(* again: 0 stands for claimed_at NULL and for a lease that went stale,    *)
(* which the WHERE clause does not tell apart.  The replicas are taken to  *)
(* agree on the time.                                                      *)
(***************************************************************************)
EXTENDS Integers, FiniteSets

CONSTANTS
    Hashes,          \* content hashes of outbox rows (unique column)
    Workers,         \* drain loops: daemon threads of this process and replicas
    LeaseTicks,      \* _ANCHOR_CLAIM_LEASE_SECONDS, in clock ticks
    MaxFaults        \* bound on failures, crashes and stops of a behaviour

ASSUME LeaseAssumption == LeaseTicks \in Nat \ {0}
ASSUME WorkersAssumption == IsFiniteSet(Workers)
ASSUME FaultsAssumption == MaxFaults \in Nat

VARIABLES
    created,         \* created_at of each row, 0 while the row does not exist
    stamp,           \* the last created_at handed out
    delivered,       \* rows with delivered = True
    lease,           \* ticks until a row is claimable again
    chainTx,         \* number of transactions the chain holds for a row
    receipt,         \* which transaction audit_receipt names, 0 for no row
    pc,              \* where each worker is
    stopEvent,       \* workers whose _stop_event is set
    batch,           \* rows of the current pass a worker has still to visit
    row,             \* the row a worker is on
    inHand,          \* the transaction named by the receipt a worker holds
    faults,          \* faults so far
    claims,          \* history: successful claims of each row
    lapses           \* history: times a row's lease ran out while pending

dbVars == <<created, stamp, delivered, lease, receipt>>
workerVars == <<pc, stopEvent, batch, row, inHand>>
vars == <<created, stamp, delivered, lease, chainTx, receipt, pc, stopEvent,
          batch, row, inHand, faults, claims, lapses>>

WorkerStates ==
    {"stopped", "sleeping", "draining", "anchoring", "recording", "marking"}

Pending == {h \in Hashes : created[h] # 0 /\ h \notin delivered}

\* ORDER BY created_at over the rows of the pass
Oldest(rows) == {h \in rows : \A g \in rows : created[h] <= created[g]}

\* Workers between a won claim and the transaction it is for.
Anchoring(h) == {w \in Workers : pc[w] = "anchoring" /\ row[w] = h}

-----------------------------------------------------------------------------
Init ==
    /\ created = [h \in Hashes |-> 0]
    /\ stamp = 0
    /\ delivered = {}
    /\ lease = [h \in Hashes |-> 0]
    /\ chainTx = [h \in Hashes |-> 0]
    /\ receipt = [h \in Hashes |-> 0]
    /\ pc = [w \in Workers |-> "stopped"]
    /\ stopEvent = {}
    /\ batch = [w \in Workers |-> {}]
    /\ row \in [Workers -> Hashes]
    /\ inHand = [w \in Workers |-> 0]
    /\ faults = 0
    /\ claims = [h \in Hashes |-> 0]
    /\ lapses = [h \in Hashes |-> 0]

\* A business write leaves its row (pipeline_ops.enqueue_anchor).
append_anchor_outbox(h) ==
    /\ created[h] = 0
    /\ stamp' = stamp + 1
    /\ created' = [created EXCEPT ![h] = stamp + 1]
    /\ UNCHANGED <<delivered, lease, chainTx, receipt, workerVars, faults, claims, lapses>>

\* A service start; a worker whose thread is alive is left alone.
start_anchor_worker(w) ==
    /\ pc[w] = "stopped"
    /\ pc' = [pc EXCEPT ![w] = "sleeping"]
    /\ stopEvent' = stopEvent \ {w}
    /\ UNCHANGED <<dbVars, chainTx, batch, row, inHand, faults, claims, lapses>>

\* A graceful stop only raises the event: the pass under way goes on.
stop_anchor_worker(w) ==
    /\ pc[w] # "stopped"
    /\ w \notin stopEvent
    /\ faults < MaxFaults
    /\ faults' = faults + 1
    /\ stopEvent' = stopEvent \union {w}
    /\ UNCHANGED <<dbVars, chainTx, pc, batch, row, inHand, claims, lapses>>

\* The loop test of AnchorWorker._run fails.
LeaveLoop(w) ==
    /\ pc[w] = "sleeping"
    /\ w \in stopEvent
    /\ pc' = [pc EXCEPT ![w] = "stopped"]
    /\ UNCHANGED <<dbVars, chainTx, stopEvent, batch, row, inHand, faults, claims, lapses>>

\* A pass begins: one SELECT reads the pending rows it will visit.
list_pending_anchor_outbox(w) ==
    /\ pc[w] = "sleeping"
    /\ w \notin stopEvent
    /\ pc' = [pc EXCEPT ![w] = "draining"]
    /\ batch' = [batch EXCEPT ![w] = Pending]
    /\ UNCHANGED <<dbVars, chainTx, stopEvent, row, inHand, faults, claims, lapses>>

\* Mutant: the claim forgets the lease and looks at `delivered` only.
ClaimableIgnoringLease(h) == created[h] # 0 /\ h \notin delivered

\* Mutant: only claimed_at NULL is claimable, a stale lease is not.
ClaimableOnce(h) == created[h] # 0 /\ h \notin delivered /\ claims[h] = 0

\* The WHERE clause of the claiming UPDATE.
Claimable(h) == created[h] # 0 /\ h \notin delivered /\ lease[h] = 0

\* The UPDATE matched the row: this worker holds a fresh lease on it.
claim_anchor_outbox(w, h) ==
    /\ pc[w] = "draining"
    /\ h \in Oldest(batch[w])
    /\ Claimable(h)
    /\ lease' = [lease EXCEPT ![h] = LeaseTicks]
    /\ claims' = [claims EXCEPT ![h] = @ + 1]
    /\ pc' = [pc EXCEPT ![w] = "anchoring"]
    /\ row' = [row EXCEPT ![w] = h]
    /\ batch' = [batch EXCEPT ![w] = @ \ {h}]
    /\ UNCHANGED <<created, stamp, delivered, chainTx, receipt, stopEvent, inHand, faults, lapses>>

\* The UPDATE matched nothing: delivered meanwhile, or another's fresh lease.
SkipRow(w, h) ==
    /\ pc[w] = "draining"
    /\ h \in Oldest(batch[w])
    /\ ~Claimable(h)
    /\ batch' = [batch EXCEPT ![w] = @ \ {h}]
    /\ UNCHANGED <<dbVars, chainTx, pc, stopEvent, row, inHand, faults, claims, lapses>>

\* The adapter's call returns: the chain holds one more transaction.
AnchorReturns(w) ==
    /\ pc[w] = "anchoring"
    /\ chainTx' = [chainTx EXCEPT ![row[w]] = @ + 1]
    /\ inHand' = [inHand EXCEPT ![w] = chainTx[row[w]] + 1]
    /\ pc' = [pc EXCEPT ![w] = "recording"]
    /\ UNCHANGED <<dbVars, stopEvent, batch, row, faults, claims, lapses>>

\* The adapter raises, before or after the transaction reached the chain;
\* _run logs the exception and the rest of the pass is dropped.
AnchorRaises(w) ==
    /\ pc[w] = "anchoring"
    /\ faults < MaxFaults
    /\ faults' = faults + 1
    /\ \/ UNCHANGED chainTx
       \/ chainTx' = [chainTx EXCEPT ![row[w]] = @ + 1]
    /\ pc' = [pc EXCEPT ![w] = "sleeping"]
    /\ batch' = [batch EXCEPT ![w] = {}]
    /\ UNCHANGED <<dbVars, stopEvent, row, inHand, claims, lapses>>

\* Mutant: the insert branch of the upsert is lost.
UpdateReceiptOnly(w) ==
    /\ pc[w] = "recording"
    /\ receipt' = [receipt EXCEPT ![row[w]] = IF @ = 0 THEN 0 ELSE inHand[w]]
    /\ pc' = [pc EXCEPT ![w] = "marking"]
    /\ UNCHANGED <<created, stamp, delivered, lease, chainTx, stopEvent, batch, row,
                   inHand, faults, claims, lapses>>

\* Insert the receipt or overwrite the one that is there.
append_anchor_receipt(w) ==
    /\ pc[w] = "recording"
    /\ receipt' = [receipt EXCEPT ![row[w]] = inHand[w]]
    /\ pc' = [pc EXCEPT ![w] = "marking"]
    /\ UNCHANGED <<created, stamp, delivered, lease, chainTx, stopEvent, batch, row,
                   inHand, faults, claims, lapses>>

mark_anchor_delivered(w) ==
    /\ pc[w] = "marking"
    /\ delivered' = delivered \union {row[w]}
    /\ pc' = [pc EXCEPT ![w] = "draining"]
    /\ UNCHANGED <<created, stamp, lease, chainTx, receipt, stopEvent, batch, row,
                   inHand, faults, claims, lapses>>

EndPass(w) ==
    /\ pc[w] = "draining"
    /\ batch[w] = {}
    /\ pc' = [pc EXCEPT ![w] = "sleeping"]
    /\ UNCHANGED <<dbVars, chainTx, stopEvent, batch, row, inHand, faults, claims, lapses>>

\* A database call of the pass raises: the transaction rolls back, the
\* exception is logged, and the pass is over.  Two inserts of one receipt
\* that collide on the unique content_hash end here too.
PassRaises(w) ==
    /\ pc[w] \in {"draining", "recording", "marking"}
    /\ faults < MaxFaults
    /\ faults' = faults + 1
    /\ pc' = [pc EXCEPT ![w] = "sleeping"]
    /\ batch' = [batch EXCEPT ![w] = {}]
    /\ UNCHANGED <<dbVars, chainTx, stopEvent, row, inHand, claims, lapses>>

\* The process dies (daemon threads die with it); the database stays.
Crash(w) ==
    /\ pc[w] # "stopped"
    /\ faults < MaxFaults
    /\ faults' = faults + 1
    /\ pc' = [pc EXCEPT ![w] = "stopped"]
    /\ batch' = [batch EXCEPT ![w] = {}]
    /\ UNCHANGED <<dbVars, chainTx, stopEvent, row, inHand, claims, lapses>>

\* Time passes: leases get older, and a pending row's lease may run out.
Tick ==
    /\ \E h \in Hashes : lease[h] > 0
    /\ lease' = [h \in Hashes |-> IF lease[h] > 0 THEN lease[h] - 1 ELSE 0]
    /\ lapses' = [h \in Hashes |->
                    IF lease[h] = 1 /\ h \notin delivered THEN lapses[h] + 1 ELSE lapses[h]]
    /\ UNCHANGED <<created, stamp, delivered, chainTx, receipt, workerVars, faults, claims>>

-----------------------------------------------------------------------------
\* What AnchorWorker._run does when nothing goes wrong.
Drain(w) ==
    \/ start_anchor_worker(w)
    \/ LeaveLoop(w)
    \/ list_pending_anchor_outbox(w)
    \/ \E h \in Hashes : claim_anchor_outbox(w, h) \/ SkipRow(w, h)
    \/ AnchorReturns(w)
    \/ append_anchor_receipt(w)
    \/ mark_anchor_delivered(w)
    \/ EndPass(w)

Disturb(w) ==
    \/ stop_anchor_worker(w)
    \/ AnchorRaises(w)
    \/ PassRaises(w)
    \/ Crash(w)

Next ==
    \/ \E h \in Hashes : append_anchor_outbox(h)
    \/ \E w \in Workers : Drain(w) \/ Disturb(w)
    \/ Tick

SafeSpec == Init /\ [][Next]_vars

\* A worker's thread keeps running and the adapter's call comes back (the
\* code sets no timeout on it), a stopped service is started again, and
\* time passes.
Fairness == (\A w \in Workers : WF_vars(Drain(w))) /\ WF_vars(Tick)

Spec == SafeSpec /\ Fairness

-----------------------------------------------------------------------------
\* The values the variables take.
TypeOK ==
    /\ created \in [Hashes -> Nat]
    /\ stamp \in Nat
    /\ delivered \subseteq Hashes
    /\ lease \in [Hashes -> 0 .. LeaseTicks]
    /\ chainTx \in [Hashes -> Nat]
    /\ receipt \in [Hashes -> Nat]
    /\ pc \in [Workers -> WorkerStates]
    /\ stopEvent \subseteq Workers
    /\ batch \in [Workers -> SUBSET Hashes]
    /\ row \in [Workers -> Hashes]
    /\ inHand \in [Workers -> Nat]
    /\ faults \in 0 .. MaxFaults
    /\ claims \in [Hashes -> Nat]
    /\ lapses \in [Hashes -> Nat]

\* A delivered row has a receipt, and the receipt names a transaction the
\* chain really holds: mark_anchor_delivered "runs only after a successful
\* anchor", whatever crashes, failed calls and late workers do in between.
DeliveredIsAnchored ==
    \A h \in delivered : receipt[h] \in 1 .. chainTx[h]

\* What claim_anchor_outbox's lease really buys: one transaction, and one
\* more for every time the lease of the pending row ran out.  A row whose
\* lease never lapsed is anchored at most once, however many drain loops run.
OneTxPerLease ==
    \A h \in Hashes : chainTx[h] <= lapses[h] + 1

\* The outbox keeps what AnchorLedger promises.
Ledger == INSTANCE AnchorLedger WITH
    enqueued  <- {h \in Hashes : created[h] # 0},
    submitted <- {h \in Hashes : chainTx[h] # 0},
    receipted <- {h \in Hashes : receipt[h] # 0},
    settled   <- delivered

\* Every step is one of the ledger's or invisible to it, and every row that
\* entered the outbox is delivered in the end, crashes, stops and failed
\* anchors (finitely many) notwithstanding.
KeepsLedger == Ledger!Spec
=============================================================================
