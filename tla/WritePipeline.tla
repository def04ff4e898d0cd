---------------------------- MODULE WritePipeline ----------------------------
(***************************************************************************)
(* One BrainService process under ThreadingMixIn: every request is a       *)
(* thread that runs BrainService.invoke_skill (zw_brain/command/brain.py), *)
(* looks up its card in the CardSession all threads share                  *)
(* (command/card_session.py) and, for a write, runs the middleware chain   *)
(* of SkillPipeline.write (command/pipeline.py) under the write lock.      *)
(*                                                                         *)
(* The content of a card, of the snapshot or of a row is the set of        *)
(* dispatches whose mutation it contains.  A loaded card is an object with *)
(* an identity: the dispatch that loaded (or created) it names it.  A      *)
(* dispatch mutates one card and the snapshot; the id a creating dispatch  *)
(* mints for its card is the dispatch itself.  The three card kinds of the *)
(* session are one map here, and reads are the untraced ones.              *)
(***************************************************************************)
EXTENDS Integers, FiniteSets

CONSTANTS
    Dispatches,      \* requests, each in a thread of its own
    Cards,           \* cards that exist from the start
    Nobody,          \* no dispatch
    MaxInFlight,     \* requests the clients keep open at once
    MaxFaults        \* bound on audit-sink and database failures and crashes

ASSUME NobodyAssumption == Nobody \notin Dispatches
ASSUME DispatchesAssumption == IsFiniteSet(Dispatches)
\* The id of a new card is minted; no card has it yet.
ASSUME CardsAssumption == IsFiniteSet(Cards) /\ Cards \intersect Dispatches = {}
ASSUME BoundsAssumption == MaxInFlight \in Nat /\ MaxFaults \in Nat

Keys == Cards \union Dispatches

\* prefetch: the handler looks its card up before deps.write (request.submit,
\* request.approve, credential.issue); inside: in the mutation closure
\* (application.suspend, conditional approval); create: add_* in the closure.
Kinds == {"prefetch", "inside", "create", "read"}

Stages == {"new", "clear", "count", "route", "lookup", "register", "lock",
           "before", "mutate", "anchor", "flush", "flushing", "persist",
           "record", "recordFailed", "error", "after", "unlock", "leave", "done"}

Outcomes == {"none", "ok", "refused", "failed", "crashed"}

VARIABLES
    job,             \* kind and card of each dispatch
    pc,              \* stage of each dispatch
    outcome,         \* what the caller was told
    depth,           \* BrainService._dispatch_depth
    holder,          \* who holds SkillPipeline._write_lock
    heap,            \* content of each card object
    ref,             \* the card object a dispatch works on
    tracked,         \* CardSession: object registered under a key
    loadedAs,        \* CardSession: fingerprint it was registered with
    toFlush,         \* keys flush() has still to visit
    flushSize,       \* size of the dict flush() iterates over
    snapshot,        \* BrainService._snapshot
    dbCards,         \* application_record, approval_case, delivery_task
    dbSnapshot,      \* the id=1 runtime-state row
    trail,           \* audit events on record
    calls,           \* capability_call rows
    outbox,          \* dispatches with an anchor_outbox row
    raised,          \* history: dispatches whose handler raised
    overlapped,      \* history: two requests were open at once
    faults           \* faults so far

requestVars == <<job, overlapped, pc, outcome, depth, holder>>
cardVars == <<heap, ref, tracked, loadedAs, toFlush, flushSize>>
storeVars == <<snapshot, dbCards, dbSnapshot>>
evidenceVars == <<trail, calls, outbox>>
vars == <<job, pc, outcome, depth, holder, heap, ref, tracked, loadedAs, toFlush,
          flushSize, snapshot, dbCards, dbSnapshot, trail, calls, outbox, raised,
          overlapped, faults>>

Card(d) == job[d].card

TrackedKeys == {k \in Keys : tracked[k] # Nobody}

Empty == [k \in Keys |-> Nobody]

InFlight == {d \in Dispatches : pc[d] \notin {"new", "done"}}

Goto(d, stage) == pc' = [pc EXCEPT ![d] = stage]

Answer(d, what) == outcome' = [outcome EXCEPT ![d] = what]

Fault == faults < MaxFaults /\ faults' = faults + 1

-----------------------------------------------------------------------------
Init ==
    /\ job \in [Dispatches -> [kind : Kinds, card : Keys]]
    /\ \A d \in Dispatches :
          IF job[d].kind = "create" THEN job[d].card = d ELSE job[d].card \in Cards
    /\ pc = [d \in Dispatches |-> "new"]
    /\ outcome = [d \in Dispatches |-> "none"]
    /\ depth = 0
    /\ holder = Nobody
    /\ heap = [d \in Dispatches |-> {}]
    /\ ref = [d \in Dispatches |-> Nobody]
    /\ tracked = Empty
    /\ loadedAs = [k \in Keys |-> {}]
    /\ toFlush = {}
    /\ flushSize = 0
    /\ snapshot = {}
    /\ dbCards = [k \in Keys |-> {}]
    /\ dbSnapshot = {}
    /\ trail = {}
    /\ calls = [d \in Dispatches |-> "none"]
    /\ outbox = {}
    /\ raised = {}
    /\ overlapped = FALSE
    /\ faults = 0

-----------------------------------------------------------------------------
(* invoke_skill: the session epoch, the depth counter, the policy gate.    *)

Arrive(d) ==
    /\ pc[d] = "new"
    /\ Cardinality(InFlight) < MaxInFlight
    /\ Goto(d, IF depth = 0 THEN "clear" ELSE "count")
    /\ overlapped' = (overlapped \/ InFlight # {})
    /\ UNCHANGED <<job, outcome, depth, holder, cardVars, storeVars, evidenceVars, raised,
                   faults>>

ClearEpoch(d) ==
    /\ pc[d] = "clear"
    /\ tracked' = Empty
    /\ Goto(d, "count")
    /\ UNCHANGED <<job, overlapped, outcome, depth, holder, heap, ref, loadedAs, toFlush,
                   flushSize, storeVars, evidenceVars, raised, faults>>

CountIn(d) ==
    /\ pc[d] = "count"
    /\ depth' = depth + 1
    /\ Goto(d, "route")
    /\ UNCHANGED <<job, overlapped, outcome, holder, cardVars, storeVars, evidenceVars,
                   raised, faults>>

\* Role and policy pass; the handler runs up to its lookup or its write.
Route(d) ==
    /\ pc[d] = "route"
    /\ Goto(d, IF job[d].kind \in {"prefetch", "read"} THEN "lookup" ELSE "lock")
    /\ UNCHANGED <<job, overlapped, outcome, depth, holder, cardVars, storeVars, evidenceVars,
                   raised, faults>>

\* Unknown skill, missing input, policy denial, or the handler's own checks.
Refuse(d) ==
    /\ pc[d] \in {"route", "lock"}
    /\ Answer(d, "refused")
    /\ Goto(d, "leave")
    /\ UNCHANGED <<job, overlapped, depth, holder, cardVars, storeVars, evidenceVars, raised,
                   faults>>

Leave(d) ==
    /\ pc[d] = "leave"
    /\ depth' = depth - 1
    /\ Goto(d, "done")
    /\ UNCHANGED <<job, overlapped, outcome, holder, cardVars, storeVars, evidenceVars,
                   raised, faults>>

-----------------------------------------------------------------------------
(* CardSession.get_*: a hit returns the registered object, a miss loads    *)
(* the row and then registers it.                                          *)

AfterLookup(d) ==
    CASE job[d].kind = "prefetch" -> "lock"
      [] job[d].kind = "inside" -> "mutate"
      [] OTHER -> "leave"

AnswerRead(d) ==
    outcome' = IF job[d].kind = "read" THEN [outcome EXCEPT ![d] = "ok"] ELSE outcome

LookupHit(d) ==
    /\ pc[d] = "lookup"
    /\ tracked[Card(d)] # Nobody
    /\ ref' = [ref EXCEPT ![d] = tracked[Card(d)]]
    /\ AnswerRead(d)
    /\ Goto(d, AfterLookup(d))
    /\ UNCHANGED <<job, overlapped, depth, holder, heap, tracked, loadedAs, toFlush,
                   flushSize, storeVars, evidenceVars, raised, faults>>

LookupLoad(d) ==
    /\ pc[d] = "lookup"
    /\ tracked[Card(d)] = Nobody
    /\ heap' = [heap EXCEPT ![d] = dbCards[Card(d)]]
    /\ Goto(d, "register")
    /\ UNCHANGED <<job, overlapped, outcome, depth, holder, ref, tracked, loadedAs, toFlush,
                   flushSize, storeVars, evidenceVars, raised, faults>>

Register(d) ==
    /\ pc[d] = "register"
    /\ tracked' = [tracked EXCEPT ![Card(d)] = d]
    /\ loadedAs' = [loadedAs EXCEPT ![Card(d)] = heap[d]]
    /\ ref' = [ref EXCEPT ![d] = d]
    /\ AnswerRead(d)
    /\ Goto(d, AfterLookup(d))
    /\ UNCHANGED <<job, overlapped, depth, holder, heap, toFlush, flushSize, storeVars,
                   evidenceVars, raised, faults>>

-----------------------------------------------------------------------------
(* SkillPipeline.write, one action per middleware step.                    *)

Acquire(d) ==
    /\ pc[d] = "lock"
    /\ holder = Nobody
    /\ holder' = d
    /\ Goto(d, "before")
    /\ UNCHANGED <<job, overlapped, outcome, depth, cardVars, storeVars, evidenceVars, raised,
                   faults>>

\* PolicyMiddleware: denial or a missing human confirmation, nothing emitted.
ConfirmationRequired(d) ==
    /\ pc[d] = "before"
    /\ Answer(d, "refused")
    /\ Goto(d, "unlock")
    /\ UNCHANGED <<job, overlapped, depth, holder, cardVars, storeVars, evidenceVars, raised,
                   faults>>

AfterBefore(d) == IF job[d].kind = "inside" THEN "lookup" ELSE "mutate"

EmitBefore(d) ==
    /\ pc[d] = "before"
    /\ trail' = trail \union {<<d, "before">>}
    /\ Goto(d, AfterBefore(d))
    /\ UNCHANGED <<job, overlapped, outcome, depth, holder, cardVars, storeVars, calls,
                   outbox, raised, faults>>

\* Mutant: a failed "before" event is logged and the write goes on.
EmitBeforeFailsOpen(d) ==
    /\ pc[d] = "before"
    /\ Fault
    /\ Goto(d, AfterBefore(d))
    /\ UNCHANGED <<job, overlapped, outcome, depth, holder, cardVars, storeVars, evidenceVars,
                   raised>>

\* AuditWriteError: fail-closed, the handler never runs.
EmitBeforeFails(d) ==
    /\ pc[d] = "before"
    /\ Fault
    /\ Answer(d, "failed")
    /\ Goto(d, "unlock")
    /\ UNCHANGED <<job, overlapped, depth, holder, cardVars, storeVars, evidenceVars, raised>>

\* What the closure does to its card and to the snapshot, in place.  A new
\* card is registered with the empty fingerprint.
Mutate(d) ==
    /\ snapshot' = snapshot \union {d}
    /\ IF job[d].kind = "create"
       THEN /\ heap' = [heap EXCEPT ![d] = {d}]
            /\ ref' = [ref EXCEPT ![d] = d]
            /\ tracked' = [tracked EXCEPT ![d] = d]
            /\ loadedAs' = [loadedAs EXCEPT ![d] = {}]
       ELSE /\ heap' = [heap EXCEPT ![ref[d]] = @ \union {d}]
            /\ UNCHANGED <<ref, tracked, loadedAs>>

HandlerReturns(d) ==
    /\ pc[d] = "mutate"
    /\ Mutate(d)
    /\ Goto(d, "anchor")
    /\ UNCHANGED <<job, overlapped, outcome, depth, holder, toFlush, flushSize, dbCards,
                   dbSnapshot, evidenceVars, raised, faults>>

\* The closure raises, before or after it changed things; nothing is undone.
HandlerRaises(d) ==
    /\ pc[d] = "mutate"
    /\ \/ Mutate(d)
       \/ UNCHANGED <<snapshot, heap, ref, tracked, loadedAs>>
    /\ raised' = raised \union {d}
    /\ Goto(d, "recordFailed")
    /\ UNCHANGED <<job, overlapped, outcome, depth, holder, toFlush, flushSize, dbCards,
                   dbSnapshot, evidenceVars, faults>>

\* AnchorMiddleware; without side_effects there is no row, and a failure is
\* logged and swallowed.
EnqueueAnchor(d) ==
    /\ pc[d] = "anchor"
    /\ outbox' \in {outbox, outbox \union {d}}
    /\ Goto(d, "flush")
    /\ UNCHANGED <<job, overlapped, outcome, depth, holder, cardVars, storeVars, trail, calls,
                   raised, faults>>

FlushBegin(d) ==
    /\ pc[d] = "flush"
    /\ toFlush' = TrackedKeys
    /\ flushSize' = Cardinality(TrackedKeys)
    /\ Goto(d, "flushing")
    /\ UNCHANGED <<job, overlapped, outcome, depth, holder, heap, ref, tracked, loadedAs,
                   storeVars, evidenceVars, raised, faults>>

\* Python's check on every step of an iteration over a dict.
SizeKept == Cardinality(TrackedKeys) = flushSize

\* Upsert a card whose fingerprint changed; the whole card is written.
FlushCard(d, k) ==
    /\ pc[d] = "flushing"
    /\ SizeKept
    /\ k \in toFlush
    /\ toFlush' = toFlush \ {k}
    /\ dbCards' = IF tracked[k] # Nobody /\ heap[tracked[k]] # loadedAs[k]
                  THEN [dbCards EXCEPT ![k] = heap[tracked[k]]]
                  ELSE dbCards
    /\ UNCHANGED <<requestVars, heap, ref, tracked, loadedAs, flushSize, snapshot, dbSnapshot,
                   evidenceVars, raised, faults>>

FlushEnd(d) ==
    /\ pc[d] = "flushing"
    /\ SizeKept
    /\ toFlush = {}
    /\ tracked' = Empty
    /\ Goto(d, "persist")
    /\ UNCHANGED <<job, overlapped, outcome, depth, holder, heap, ref, loadedAs, toFlush,
                   flushSize, storeVars, evidenceVars, raised, faults>>

\* "dictionary changed size during iteration": another thread registered a
\* card or cleared the epoch; cards upserted so far stay.
FlushRaises(d) ==
    /\ pc[d] = "flushing"
    /\ ~SizeKept
    /\ toFlush' = {}
    /\ Goto(d, "recordFailed")
    /\ UNCHANGED <<job, overlapped, outcome, depth, holder, heap, ref, tracked, loadedAs,
                   flushSize, storeVars, evidenceVars, raised, faults>>

\* sync_state_views and persist: the whole snapshot into the id=1 row.
Persist(d) ==
    /\ pc[d] = "persist"
    /\ dbSnapshot' = snapshot
    /\ Goto(d, "record")
    /\ UNCHANGED <<job, overlapped, outcome, depth, holder, cardVars, snapshot, dbCards,
                   evidenceVars, raised, faults>>

\* Mutant: a failed save is logged and the write is acknowledged.
PersistFailsSoft(d) ==
    /\ pc[d] \in {"flushing", "persist"}
    /\ Fault
    /\ toFlush' = {}
    /\ Goto(d, "record")
    /\ UNCHANGED <<job, overlapped, outcome, depth, holder, heap, ref, tracked, loadedAs,
                   flushSize, storeVars, evidenceVars, raised>>

\* An upsert of the flush, the projection or the save raises.
StoreFails(d) ==
    /\ pc[d] \in {"flushing", "persist"}
    /\ Fault
    /\ toFlush' = {}
    /\ Goto(d, "recordFailed")
    /\ UNCHANGED <<job, overlapped, outcome, depth, holder, heap, ref, tracked, loadedAs,
                   flushSize, storeVars, evidenceVars, raised>>

\* CapabilityCallMiddleware on the way out.
RecordCall(d) ==
    /\ pc[d] \in {"record", "recordFailed"}
    /\ calls' = [calls EXCEPT ![d] = IF pc[d] = "record" THEN "succeeded" ELSE "failed"]
    /\ Goto(d, IF pc[d] = "record" THEN "after" ELSE "error")
    /\ UNCHANGED <<job, overlapped, outcome, depth, holder, cardVars, storeVars, trail,
                   outbox, raised, faults>>

\* The row cannot be written: the exception reaches AuditEmitMiddleware.
RecordCallFails(d) ==
    /\ pc[d] \in {"record", "recordFailed"}
    /\ Fault
    /\ Goto(d, "error")
    /\ UNCHANGED <<job, overlapped, outcome, depth, holder, cardVars, storeVars, evidenceVars,
                   raised>>

\* Mutant: the error event of a failed write is not emitted.
EmitAfterOnly(d) ==
    /\ pc[d] \in {"after", "error"}
    /\ trail' = IF pc[d] = "after" THEN trail \union {<<d, "after">>} ELSE trail
    /\ Answer(d, IF pc[d] = "after" THEN "ok" ELSE "failed")
    /\ Goto(d, "unlock")
    /\ UNCHANGED <<job, overlapped, depth, holder, cardVars, storeVars, calls, outbox, raised,
                   faults>>

\* The closing event, "after" or "error", and the answer to the caller.
EmitClosing(d) ==
    /\ pc[d] \in {"after", "error"}
    /\ trail' = trail \union {<<d, pc[d]>>}
    /\ Answer(d, IF pc[d] = "after" THEN "ok" ELSE "failed")
    /\ Goto(d, "unlock")
    /\ UNCHANGED <<job, overlapped, depth, holder, cardVars, storeVars, calls, outbox, raised,
                   faults>>

\* AuditWriteError in place of the result: the write is done nonetheless.
EmitClosingFails(d) ==
    /\ pc[d] \in {"after", "error"}
    /\ Fault
    /\ Answer(d, "failed")
    /\ Goto(d, "unlock")
    /\ UNCHANGED <<job, overlapped, depth, holder, cardVars, storeVars, evidenceVars, raised>>

\* Mutant: the lock is released on the successful path only.
ReleaseOnSuccess(d) ==
    /\ pc[d] = "unlock"
    /\ holder' = IF outcome[d] = "ok" THEN Nobody ELSE holder
    /\ Goto(d, "leave")
    /\ UNCHANGED <<job, overlapped, outcome, depth, cardVars, storeVars, evidenceVars, raised,
                   faults>>

Release(d) ==
    /\ pc[d] = "unlock"
    /\ holder' = Nobody
    /\ Goto(d, "leave")
    /\ UNCHANGED <<job, overlapped, outcome, depth, cardVars, storeVars, evidenceVars, raised,
                   faults>>

-----------------------------------------------------------------------------
\* The process dies and a new one starts: the stores stay, the snapshot is
\* read back from its row, the open requests get no answer.
Crash ==
    /\ InFlight # {}
    /\ Fault
    /\ pc' = [d \in Dispatches |-> IF d \in InFlight THEN "done" ELSE pc[d]]
    /\ outcome' = [d \in Dispatches |->
                     IF d \in InFlight THEN "crashed" ELSE outcome[d]]
    /\ depth' = 0
    /\ holder' = Nobody
    /\ tracked' = Empty
    /\ toFlush' = {}
    /\ snapshot' = dbSnapshot
    /\ UNCHANGED <<job, overlapped, heap, ref, loadedAs, flushSize, dbCards, dbSnapshot,
                   evidenceVars, raised>>

\* All requests are answered.
Quiet ==
    /\ \A d \in Dispatches : pc[d] = "done"
    /\ UNCHANGED vars

Step(d) ==
    \/ ClearEpoch(d) \/ CountIn(d) \/ Route(d) \/ Leave(d)
    \/ LookupHit(d) \/ LookupLoad(d) \/ Register(d)
    \/ Acquire(d) \/ EmitBefore(d)
    \/ HandlerReturns(d) \/ EnqueueAnchor(d)
    \/ FlushBegin(d) \/ (\E k \in Keys : FlushCard(d, k)) \/ FlushEnd(d) \/ FlushRaises(d)
    \/ Persist(d) \/ RecordCall(d) \/ EmitClosing(d) \/ Release(d)

Trouble(d) ==
    \/ Refuse(d) \/ ConfirmationRequired(d)
    \/ EmitBeforeFails(d) \/ HandlerRaises(d) \/ StoreFails(d)
    \/ RecordCallFails(d) \/ EmitClosingFails(d)

Next ==
    \/ \E d \in Dispatches : Arrive(d) \/ Step(d) \/ Trouble(d)
    \/ Crash
    \/ Quiet

SafeSpec == Init /\ [][Next]_vars

\* Every started thread keeps running, and the lock goes round.
Spec == SafeSpec /\ \A d \in Dispatches : WF_vars(Step(d))

-----------------------------------------------------------------------------
\* The values the variables take.
TypeOK ==
    /\ job \in [Dispatches -> [kind : Kinds, card : Keys]]
    /\ pc \in [Dispatches -> Stages]
    /\ outcome \in [Dispatches -> Outcomes]
    /\ depth \in 0 .. Cardinality(Dispatches)
    /\ holder \in Dispatches \union {Nobody}
    /\ heap \in [Dispatches -> SUBSET Dispatches]
    /\ ref \in [Dispatches -> Dispatches \union {Nobody}]
    /\ tracked \in [Keys -> Dispatches \union {Nobody}]
    /\ loadedAs \in [Keys -> SUBSET Dispatches]
    /\ toFlush \subseteq Keys
    /\ flushSize \in Nat
    /\ snapshot \subseteq Dispatches
    /\ dbCards \in [Keys -> SUBSET Dispatches]
    /\ dbSnapshot \subseteq Dispatches
    /\ trail \subseteq Dispatches \X {"before", "after", "error"}
    /\ calls \in [Dispatches -> {"none", "succeeded", "failed"}]
    /\ outbox \subseteq Dispatches
    /\ raised \subseteq Dispatches
    /\ overlapped \in BOOLEAN
    /\ faults \in 0 .. MaxFaults

\* Audit is fail-closed: whatever a dispatch left in a store, its "before"
\* event is on record, even if another thread's flush carried it there.
AuditedFirst ==
    \A d \in Dispatches :
        (\/ d \in dbSnapshot
         \/ d \in outbox
         \/ calls[d] # "none"
         \/ \E k \in Keys : d \in dbCards[k])
        => <<d, "before">> \in trail

\* An acknowledged write is in the saved snapshot, has its succeeded
\* capability_call row and its "after" event, and keeps them: the write lock
\* spans mutate and save (H3 in SkillPipeline), so nobody saves a snapshot
\* without it.
AckedIsSaved ==
    \A d \in Dispatches :
        outcome[d] = "ok" /\ job[d].kind # "read"
        => d \in dbSnapshot /\ calls[d] = "succeeded" /\ <<d, "after">> \in trail

\* As long as no sink and no store fails, every audited write closes: with
\* "after" and a succeeded row, or with "error" and a failed row.
TrailCloses ==
    \A d \in Dispatches :
        faults = 0 /\ pc[d] = "done" /\ <<d, "before">> \in trail
        => \/ outcome[d] = "ok" /\ <<d, "after">> \in trail /\ calls[d] = "succeeded"
           \/ outcome[d] = "failed" /\ <<d, "error">> \in trail /\ calls[d] = "failed"

\* "concurrent writes serialize instead of racing": an acknowledged write is
\* in the row of its card.
AckedCardWritten ==
    \A d \in Dispatches :
        outcome[d] = "ok" /\ job[d].kind # "read" => d \in dbCards[Card(d)]

\* Requests that come one after the other keep the promises the cards make:
\* an acknowledged write is in the row of its card, and a handler that raised
\* leaves nothing in any row (its cards go with the epoch that invoke_skill
\* clears), whatever fails in between.
SerialWritesKeepCards ==
    ~overlapped =>
        /\ AckedCardWritten
        /\ \A d \in raised : \A k \in Keys : d \notin dbCards[k]

\* Every request that arrived is answered: no path out of the chain keeps
\* the lock.
EveryRequestEnds ==
    \A d \in Dispatches : (pc[d] # "new") ~> (pc[d] = "done")

\* What a caller was told is written stays written: the snapshot of every
\* acknowledged write is saved, and where no two requests overlapped its cards are
\* in the tables and those of a handler that raised are not (PersistMiddleware,
\* CardSession.flush and clear).
WritesKept == AckedIsSaved /\ SerialWritesKeepCards
=============================================================================
