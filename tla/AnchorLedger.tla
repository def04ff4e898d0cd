---------------------------- MODULE AnchorLedger ----------------------------
(***************************************************************************)
(* What blockchain anchoring promises to the rest of the service, with no  *)
(* word about workers, leases or polling: a row that entered the outbox is *)
(* submitted to the chain, its receipt is recorded, and only then does the *)
(* row count as delivered.  Submitting again is allowed; losing a row,     *)
(* or delivering one without a receipt, is not.                            *)
(***************************************************************************)
EXTENDS Naturals

CONSTANT Hashes      \* content hashes of the audited business writes

VARIABLES
    enqueued,        \* rows of anchor_outbox
    submitted,       \* rows with at least one transaction on the chain
    receipted,       \* rows of audit_receipt
    settled          \* rows with delivered = True

vars == <<enqueued, submitted, receipted, settled>>

Init ==
    /\ enqueued = {}
    /\ submitted = {}
    /\ receipted = {}
    /\ settled = {}

Enqueue(h) ==
    /\ h \notin enqueued
    /\ enqueued' = enqueued \union {h}
    /\ UNCHANGED <<submitted, receipted, settled>>

Submit(h) ==
    /\ h \in enqueued
    /\ submitted' = submitted \union {h}
    /\ UNCHANGED <<enqueued, receipted, settled>>

Record(h) ==
    /\ h \in submitted
    /\ receipted' = receipted \union {h}
    /\ UNCHANGED <<enqueued, submitted, settled>>

Settle(h) ==
    /\ h \in receipted
    /\ settled' = settled \union {h}
    /\ UNCHANGED <<enqueued, submitted, receipted>>

Next == \E h \in Hashes : Enqueue(h) \/ Submit(h) \/ Record(h) \/ Settle(h)

SafeSpec == Init /\ [][Next]_vars

\* Nothing that entered the outbox is forgotten.
NothingForgotten == \A h \in Hashes : (h \in enqueued) ~> (h \in settled)

Spec == SafeSpec /\ NothingForgotten
=============================================================================
