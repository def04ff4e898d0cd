------------------------ MODULE WritePipelineProofs ------------------------
(***************************************************************************)
(* Machine-checked proofs about a write and what it leaves for the readers:*)
(* WritePipeline, for any finite set of requests, any cards, any number of *)
(* requests in flight and of faults; then Workbench, the todos its last    *)
(* stage computes and the pages cut from them, for any applications,       *)
(* entries, resources, cases, organisations and readers.                   *)
(***************************************************************************)
EXTENDS WritePipeline, Workbench, FiniteSetTheorems, TLAPS

-----------------------------------------------------------------------------
(* The inductive invariant, part by part.                                   *)

\* _dispatch_depth counts the dispatches between the counter and its finally.
Counted == {d \in Dispatches : pc[d] \notin {"new", "clear", "count", "done"}}
DepthCounts == depth = Cardinality(Counted)

\* The dispatches whose "before" event is on record.
Audited == {d \in Dispatches : <<d, "before">> \in trail}

\* Past the "before" event: inside the mutation and on the way out.  A lookup of
\* the kind "inside" belongs there too.
Mutating == {"mutate", "anchor", "flush", "flushing", "persist", "record",
             "recordFailed", "error", "after"}
IsPast(d) == pc[d] \in Mutating \/ (pc[d] \in {"lookup", "register"} /\ job[d].kind = "inside")

\* Nothing a dispatch left behind, in memory or in a store, comes before its
\* "before" event; nor is it past that event without it.
OnlyAudited ==
    /\ \A d \in Dispatches : IsPast(d) => d \in Audited
    /\ \A d \in Dispatches : heap[d] \subseteq Audited
    /\ \A k \in Keys : dbCards[k] \subseteq Audited
    /\ snapshot \subseteq Audited /\ dbSnapshot \subseteq Audited /\ outbox \subseteq Audited
    /\ \A d \in Dispatches : calls[d] # "none" => d \in Audited

\* The saved snapshot is part of the one in memory, and a mutation is in both by
\* the stage its dispatch has reached; no answer is given before the last stages.
StageSaves(d) ==
    /\ pc[d] \in {"anchor", "flush", "flushing", "persist"} => d \in snapshot
    /\ pc[d] \in {"record", "after"} => d \in dbSnapshot
    /\ pc[d] = "after" => calls[d] = "succeeded"
    /\ pc[d] \in Mutating \union {"lock", "before"} => job[d].kind # "read"
    /\ outcome[d] = "ok" => pc[d] \in {"unlock", "leave", "done"}
SavedByStage ==
    /\ dbSnapshot \subseteq snapshot
    /\ \A d \in Dispatches : StageSaves(d)

\* How a write closes.
Closes(d) ==
    \/ outcome[d] = "ok" /\ <<d, "after">> \in trail /\ calls[d] = "succeeded"
    \/ outcome[d] = "failed" /\ <<d, "error">> \in trail /\ calls[d] = "failed"

\* As long as nothing failed, an audited dispatch is on its way to its closing
\* event or has passed it.
Underway(d) ==
    faults = 0 /\ d \in Audited =>
        /\ \/ IsPast(d)
           \/ pc[d] \in {"unlock", "leave", "done"} /\ Closes(d)
        /\ pc[d] = "error" => calls[d] = "failed"
OnTheWay == \A d \in Dispatches : Underway(d)

IInv ==
    /\ TypeOK
    /\ DepthCounts
    /\ OnlyAudited
    /\ SavedByStage
    /\ AckedIsSaved
    /\ OnTheWay

-----------------------------------------------------------------------------
(* Types and the depth counter.                                            *)

\* The requests that are counted are finitely many.
LEMMA CountedFinite ==
    /\ IsFiniteSet(Counted)
    /\ Cardinality(Counted) \in Nat
    /\ Cardinality(Counted) <= Cardinality(Dispatches)
    /\ Cardinality(Dispatches) \in Nat
<1>1. Counted \subseteq Dispatches
  BY DEF Counted
<1>. QED  BY <1>1, DispatchesAssumption, FS_Subset, FS_CardinalityType

\* A step between two counted stages, or between two that are not, keeps the count.
LEMMA CountKept ==
    ASSUME TypeOK, DepthCounts, NEW d \in Dispatches, NEW at,
           Goto(d, at), depth' = depth,
           pc[d] \in {"new", "clear", "count", "done"}
                <=> at \in {"new", "clear", "count", "done"}
    PROVE  DepthCounts'
<1>1. Counted' = Counted
  BY DEF TypeOK, Goto, Counted
<1>. QED  BY <1>1 DEF DepthCounts

\* What a mutation does to the objects keeps their types.
LEMMA MutateTypes ==
    ASSUME TypeOK, NEW d \in Dispatches, Mutate(d)
    PROVE  /\ snapshot' \subseteq Dispatches
           /\ heap' \in [Dispatches -> SUBSET Dispatches]
           /\ ref' \in [Dispatches -> Dispatches \union {Nobody}]
           /\ tracked' \in [Keys -> Dispatches \union {Nobody}]
           /\ loadedAs' \in [Keys -> SUBSET Dispatches]
<1>1. d \in Keys
  BY DEF Keys
<1>2. /\ snapshot \subseteq Dispatches
      /\ heap \in [Dispatches -> SUBSET Dispatches]
      /\ ref \in [Dispatches -> Dispatches \union {Nobody}]
      /\ tracked \in [Keys -> Dispatches \union {Nobody}]
      /\ loadedAs \in [Keys -> SUBSET Dispatches]
  BY DEF TypeOK
<1>3. CASE job[d].kind = "create"
  BY <1>1, <1>2, <1>3 DEF Mutate
<1>4. CASE job[d].kind # "create"
  <2>1. heap' = [heap EXCEPT ![ref[d]] = heap[ref[d]] \union {d}]
        /\ UNCHANGED <<ref, tracked, loadedAs>> /\ snapshot' = snapshot \union {d}
    BY <1>4 DEF Mutate
  <2>2. heap' \in [Dispatches -> SUBSET Dispatches]
    BY <1>2, <2>1
  <2>. QED  BY <1>2, <2>1, <2>2
<1>. QED  BY <1>3, <1>4

\* Every step of a dispatch keeps the types and the count.
LEMMA DispatchTypes ==
    ASSUME TypeOK, DepthCounts, NEW d \in Dispatches, Arrive(d) \/ Step(d) \/ Trouble(d)
    PROVE  TypeOK' /\ DepthCounts'
<1> USE DEF Goto, Answer, cardVars, storeVars, evidenceVars, requestVars
<1>0. /\ job[d].kind \in Kinds /\ Card(d) \in Keys
      /\ d \in Keys
  BY DEF TypeOK, Card, Keys
<1>1. CASE Arrive(d)
  <2>1. overlapped' \in BOOLEAN
    BY <1>1 DEF Arrive, TypeOK
  <2>2. PICK at \in {"clear", "count"} : Goto(d, at)
    BY <1>1 DEF Arrive
  <2>3. DepthCounts'
    BY <1>1, <2>2, CountKept DEF Arrive
  <2>. QED  BY <1>1, <2>1, <2>2, <2>3 DEF Arrive, TypeOK, Stages
<1>2. CASE ClearEpoch(d)
  <2>1. DepthCounts'
    BY <1>2, CountKept DEF ClearEpoch
  <2>. QED  BY <1>2, <2>1 DEF ClearEpoch, TypeOK, Stages, Empty
<1>3. CASE CountIn(d)
  <2>1. Counted' = Counted \union {d} /\ d \notin Counted
    BY <1>3 DEF CountIn, Counted, TypeOK
  <2>2. Cardinality(Counted') = Cardinality(Counted) + 1
    BY <2>1, CountedFinite, FS_AddElement
  <2>3. Counted' \subseteq Dispatches
    BY DEF Counted
  <2>4. Cardinality(Counted') <= Cardinality(Dispatches) /\ Cardinality(Dispatches) \in Nat
    BY <2>3, DispatchesAssumption, FS_Subset, FS_CardinalityType
  <2>5. DepthCounts' /\ depth' \in 0 .. Cardinality(Dispatches)
    BY <1>3, <2>2, <2>4 DEF CountIn, DepthCounts, TypeOK
  <2>. QED  BY <1>3, <2>5 DEF CountIn, TypeOK, Stages
<1>4. CASE Leave(d)
  <2>1. Counted' = Counted \ {d} /\ d \in Counted
    BY <1>4 DEF Leave, Counted, TypeOK
  <2>2. Cardinality(Counted') = Cardinality(Counted) - 1 /\ Cardinality(Counted') \in Nat
    BY <2>1, CountedFinite, FS_RemoveElement, FS_CardinalityType
  <2>3. DepthCounts' /\ depth' \in 0 .. Cardinality(Dispatches)
    BY <1>4, <2>2, CountedFinite DEF Leave, DepthCounts, TypeOK
  <2>. QED  BY <1>4, <2>3 DEF Leave, TypeOK, Stages
<1>5. CASE Route(d) \/ Refuse(d)
  <2>1. PICK at \in {"lookup", "lock", "leave"} : Goto(d, at)
    BY <1>5 DEF Route, Refuse
  <2>2. DepthCounts'
    BY <1>5, <2>1, CountKept DEF Route, Refuse
  <2>. QED  BY <1>5, <2>1, <2>2 DEF Route, Refuse, TypeOK, Stages, Outcomes
<1>6. CASE LookupHit(d) \/ LookupLoad(d) \/ Register(d)
  <2>1. PICK at \in {"lock", "mutate", "leave", "register"} : Goto(d, at)
    BY <1>6 DEF LookupHit, LookupLoad, Register, AfterLookup
  <2>2. DepthCounts'
    BY <1>6, <2>1, CountKept DEF LookupHit, LookupLoad, Register
  <2>3. outcome' \in [Dispatches -> Outcomes]
    BY <1>6 DEF LookupHit, LookupLoad, Register, AnswerRead, TypeOK, Outcomes
  <2>4. pc' \in [Dispatches -> Stages]
    BY <2>1 DEF TypeOK, Stages
  <2>5. /\ heap' \in [Dispatches -> SUBSET Dispatches]
        /\ ref' \in [Dispatches -> Dispatches \union {Nobody}]
        /\ tracked' \in [Keys -> Dispatches \union {Nobody}]
        /\ loadedAs' \in [Keys -> SUBSET Dispatches]
    <3>1. CASE LookupHit(d)
      BY <1>0, <3>1 DEF LookupHit, TypeOK
    <3>2. CASE LookupLoad(d)
      BY <1>0, <3>2 DEF LookupLoad, TypeOK
    <3>3. CASE Register(d)
      BY <1>0, <3>3 DEF Register, TypeOK
    <3>. QED  BY <1>6, <3>1, <3>2, <3>3
  <2>. QED
    BY <1>6, <2>2, <2>3, <2>4, <2>5 DEF LookupHit, LookupLoad, Register, TypeOK
<1>7. CASE Acquire(d) \/ ConfirmationRequired(d) \/ EmitBefore(d) \/ EmitBeforeFails(d)
  <2>1. PICK at \in {"before", "unlock", "lookup", "mutate"} : Goto(d, at)
    BY <1>7 DEF Acquire, ConfirmationRequired, EmitBefore, EmitBeforeFails, AfterBefore
  <2>2. DepthCounts'
    BY <1>7, <2>1, CountKept DEF Acquire, ConfirmationRequired, EmitBefore, EmitBeforeFails
  <2>3. faults' \in 0 .. MaxFaults
    BY <1>7, BoundsAssumption
       DEF Acquire, ConfirmationRequired, EmitBefore, EmitBeforeFails, Fault, TypeOK
  <2>4. pc' \in [Dispatches -> Stages]
    BY <2>1 DEF TypeOK, Stages
  <2>5. outcome' \in [Dispatches -> Outcomes]
    <3>1. outcome \in [Dispatches -> Outcomes]
      BY DEF TypeOK
    <3>2. outcome' = outcome \/ \E x \in Outcomes : outcome' = [outcome EXCEPT ![d] = x]
      BY <1>7 DEF Acquire, ConfirmationRequired, EmitBefore, EmitBeforeFails, Outcomes
    <3>. QED  BY <3>1, <3>2
  <2>6. trail' \subseteq Dispatches \X {"before", "after", "error"}
    <3>1. trail' = trail \/ \E e \in {"before", "after", "error"} : trail' = trail \union {<<d, e>>}
      BY <1>7 DEF Acquire, ConfirmationRequired, EmitBefore, EmitBeforeFails
    <3>. QED  BY <3>1 DEF TypeOK
  <2>7. holder' \in Dispatches \union {Nobody}
    BY <1>7 DEF Acquire, ConfirmationRequired, EmitBefore, EmitBeforeFails, TypeOK
  <2>8. UNCHANGED <<job, overlapped, depth, cardVars, storeVars, calls, outbox, raised>>
    BY <1>7 DEF Acquire, ConfirmationRequired, EmitBefore, EmitBeforeFails
  <2>. QED
    BY <2>2, <2>3, <2>4, <2>5, <2>6, <2>7, <2>8 DEF TypeOK
<1>8. CASE HandlerReturns(d) \/ HandlerRaises(d)
  <2>1. PICK at \in {"anchor", "recordFailed"} : Goto(d, at)
    BY <1>8 DEF HandlerReturns, HandlerRaises
  <2>2. DepthCounts'
    BY <1>8, <2>1, CountKept DEF HandlerReturns, HandlerRaises
  <2>3. /\ snapshot' \subseteq Dispatches
        /\ heap' \in [Dispatches -> SUBSET Dispatches]
        /\ ref' \in [Dispatches -> Dispatches \union {Nobody}]
        /\ tracked' \in [Keys -> Dispatches \union {Nobody}]
        /\ loadedAs' \in [Keys -> SUBSET Dispatches]
    BY <1>8, MutateTypes DEF HandlerReturns, HandlerRaises, TypeOK
  <2>. QED
    BY ZenonT(60), <1>8, <2>1, <2>2, <2>3 DEF HandlerReturns, HandlerRaises, TypeOK, Stages
<1>9. CASE EnqueueAnchor(d) \/ Persist(d)
  <2>1. PICK at \in {"flush", "record"} : Goto(d, at)
    BY <1>9 DEF EnqueueAnchor, Persist
  <2>2. DepthCounts'
    BY <1>9, <2>1, CountKept DEF EnqueueAnchor, Persist
  <2>. QED  BY <1>9, <2>1, <2>2 DEF EnqueueAnchor, Persist, TypeOK, Stages
<1>10. CASE FlushBegin(d)
  <2>1. TrackedKeys \subseteq Keys
    BY DEF TrackedKeys
  <2>2. Cardinality(TrackedKeys) \in Nat
    BY <2>1, DispatchesAssumption, CardsAssumption, FS_Union, FS_Subset, FS_CardinalityType
       DEF Keys
  <2>3. DepthCounts'
    BY <1>10, CountKept DEF FlushBegin
  <2>. QED  BY <1>10, <2>1, <2>2, <2>3 DEF FlushBegin, TypeOK, Stages
<1>11. CASE \E k \in Keys : FlushCard(d, k)
  <2>1. PICK k \in Keys : FlushCard(d, k)
    BY <1>11
  <2>2. DepthCounts'
    BY <2>1 DEF FlushCard, DepthCounts, Counted
  <2>3. dbCards' \in [Keys -> SUBSET Dispatches]
    BY <2>1 DEF FlushCard, TypeOK
  <2>. QED  BY <2>1, <2>2, <2>3 DEF FlushCard, TypeOK
<1>12. CASE FlushEnd(d) \/ FlushRaises(d) \/ StoreFails(d)
  <2>1. PICK at \in {"persist", "recordFailed"} : Goto(d, at)
    BY <1>12 DEF FlushEnd, FlushRaises, StoreFails
  <2>2. DepthCounts'
    BY <1>12, <2>1, CountKept DEF FlushEnd, FlushRaises, StoreFails
  <2>3. faults' \in 0 .. MaxFaults
    BY <1>12, BoundsAssumption DEF FlushEnd, FlushRaises, StoreFails, Fault, TypeOK
  <2>4. pc' \in [Dispatches -> Stages] /\ tracked' \in [Keys -> Dispatches \union {Nobody}]
    BY <1>12, <2>1 DEF FlushEnd, FlushRaises, StoreFails, TypeOK, Stages, Empty
  <2>. QED
    BY <1>12, <2>2, <2>3, <2>4 DEF FlushEnd, FlushRaises, StoreFails, TypeOK
<1>13. CASE RecordCall(d) \/ RecordCallFails(d)
  <2>1. PICK at \in {"after", "error"} : Goto(d, at)
    BY <1>13 DEF RecordCall, RecordCallFails
  <2>2. DepthCounts'
    BY <1>13, <2>1, CountKept DEF RecordCall, RecordCallFails
  <2>3. faults' \in 0 .. MaxFaults
    BY <1>13, BoundsAssumption DEF RecordCall, RecordCallFails, Fault, TypeOK
  <2>4. pc' \in [Dispatches -> Stages]
    BY <2>1 DEF TypeOK, Stages
  <2>. QED
    BY <1>13, <2>2, <2>3, <2>4 DEF RecordCall, RecordCallFails, TypeOK
<1>14. CASE EmitClosing(d) \/ EmitClosingFails(d) \/ Release(d)
  <2>1. PICK at \in {"unlock", "leave"} : Goto(d, at)
    BY <1>14 DEF EmitClosing, EmitClosingFails, Release
  <2>2. DepthCounts'
    BY <1>14, <2>1, CountKept DEF EmitClosing, EmitClosingFails, Release
  <2>3. faults' \in 0 .. MaxFaults
    BY <1>14, BoundsAssumption DEF EmitClosing, EmitClosingFails, Release, Fault, TypeOK
  <2>4. pc' \in [Dispatches -> Stages]
    BY <2>1 DEF TypeOK, Stages
  <2>5. outcome' \in [Dispatches -> Outcomes]
    <3>1. outcome \in [Dispatches -> Outcomes]
      BY DEF TypeOK
    <3>2. outcome' = outcome \/ \E x \in Outcomes : outcome' = [outcome EXCEPT ![d] = x]
      BY <1>14 DEF EmitClosing, EmitClosingFails, Release, Outcomes
    <3>. QED  BY <3>1, <3>2
  <2>6. trail' \subseteq Dispatches \X {"before", "after", "error"}
    <3>1. trail' = trail \/ \E e \in {"before", "after", "error"} : trail' = trail \union {<<d, e>>}
      BY <1>14 DEF EmitClosing, EmitClosingFails, Release
    <3>. QED  BY <3>1 DEF TypeOK
  <2>7. holder' \in Dispatches \union {Nobody}
    BY <1>14 DEF EmitClosing, EmitClosingFails, Release, TypeOK
  <2>8. UNCHANGED <<job, overlapped, depth, cardVars, storeVars, calls, outbox, raised>>
    BY <1>14 DEF EmitClosing, EmitClosingFails, Release
  <2>. QED
    BY <2>2, <2>3, <2>4, <2>5, <2>6, <2>7, <2>8 DEF TypeOK
<1>. QED
  BY <1>1, <1>2, <1>3, <1>4, <1>5, <1>6, <1>7, <1>8, <1>9, <1>10, <1>11, <1>12, <1>13, <1>14
     DEF Step, Trouble
\* A crash, and a step that changes nothing, keep them too.
LEMMA OtherTypes ==
    ASSUME TypeOK, DepthCounts, Crash \/ UNCHANGED vars
    PROVE  TypeOK' /\ DepthCounts'
<1>1. CASE Crash
  <2>1. pc' \in [Dispatches -> Stages] /\ \A d \in Dispatches : pc'[d] \in {"new", "done"}
    BY <1>1 DEF Crash, TypeOK, Stages, InFlight
  <2>2. Counted' = {}
    BY <2>1 DEF Counted
  <2>3. depth' = 0 /\ DepthCounts' /\ depth' \in 0 .. Cardinality(Dispatches)
    BY <1>1, <2>2, FS_EmptySet, CountedFinite DEF Crash, DepthCounts
  <2>4. faults' \in 0 .. MaxFaults
    BY <1>1, BoundsAssumption DEF Crash, Fault, TypeOK
  <2>5. outcome' \in [Dispatches -> Outcomes] /\ tracked' \in [Keys -> Dispatches \union {Nobody}]
    BY <1>1 DEF Crash, TypeOK, Outcomes, Empty
  <2>. QED
    BY <1>1, <2>1, <2>3, <2>4, <2>5 DEF Crash, TypeOK, evidenceVars
<1>2. CASE UNCHANGED vars
  BY <1>2 DEF vars, TypeOK, DepthCounts, Counted
<1>. QED  BY <1>1, <1>2

-----------------------------------------------------------------------------
(* Audit before everything else.                                           *)

\* A step that moves a dispatch and writes nothing but events.
LEMMA MoveAudited ==
    ASSUME TypeOK, OnlyAudited, NEW d \in Dispatches, NEW at, Goto(d, at),
           trail \subseteq trail', IsPast(d)' => d \in Audited',
           UNCHANGED <<job, heap, dbCards, snapshot, dbSnapshot, outbox, calls>>
    PROVE  OnlyAudited'
<1>1. Audited \subseteq Audited'
  BY DEF Audited
<1>2. \A e \in Dispatches \ {d} : IsPast(e)' = IsPast(e)
  BY DEF Goto, TypeOK, IsPast
<1>. QED  BY <1>1, <1>2 DEF OnlyAudited

\* Every step of a dispatch keeps the order.
LEMMA DispatchAudited ==
    ASSUME TypeOK, OnlyAudited, SavedByStage,
           NEW d \in Dispatches, Arrive(d) \/ Step(d) \/ Trouble(d)
    PROVE  OnlyAudited'
<1> USE DEF cardVars, storeVars, evidenceVars, requestVars
<1>0. Card(d) \in Keys
  BY DEF TypeOK, Card
<1>1. CASE Arrive(d) \/ ClearEpoch(d) \/ CountIn(d) \/ Leave(d) \/ Refuse(d) \/ Acquire(d)
           \/ ConfirmationRequired(d) \/ EmitBeforeFails(d) \/ EmitClosing(d)
           \/ EmitClosingFails(d) \/ Release(d)
  <2>1. PICK at \in {"clear", "count", "route", "leave", "before", "unlock", "done"} :
            Goto(d, at)
    BY <1>1 DEF Arrive, ClearEpoch, CountIn, Leave, Refuse, Acquire, ConfirmationRequired,
                EmitBeforeFails, EmitClosing, EmitClosingFails, Release
  <2>2. ~IsPast(d)'
    BY <2>1 DEF IsPast, Mutating, Goto, TypeOK
  <2>3. trail \subseteq trail' /\ UNCHANGED <<job, heap, dbCards, snapshot, dbSnapshot, outbox, calls>>
    BY <1>1 DEF Arrive, ClearEpoch, CountIn, Leave, Refuse, Acquire, ConfirmationRequired,
                EmitBeforeFails, EmitClosing, EmitClosingFails, Release
  <2>. QED  BY <2>1, <2>2, <2>3, MoveAudited
<1>2. CASE Route(d)
  <2>1. ~IsPast(d)'
    BY <1>2 DEF Route, IsPast, Mutating, Goto, TypeOK
  <2>. QED  BY <1>2, <2>1, MoveAudited DEF Route
<1>3. CASE LookupHit(d) \/ Register(d)
  <2>1. PICK at : Goto(d, at) /\ at = AfterLookup(d)
    BY <1>3 DEF LookupHit, Register
  <2>2. at \in Mutating => job[d].kind = "inside"
    BY <2>1 DEF AfterLookup, Mutating
  <2>3. IsPast(d)' => IsPast(d)
    BY <1>3, <2>1, <2>2 DEF LookupHit, Register, IsPast, Goto, TypeOK, AfterLookup
  <2>4. IsPast(d)' => d \in Audited'
    BY <1>3, <2>3 DEF OnlyAudited, Audited, LookupHit, Register
  <2>. QED  BY <1>3, <2>1, <2>4, MoveAudited DEF LookupHit, Register
<1>4. CASE LookupLoad(d)
  <2>1. Audited' = Audited
    BY <1>4 DEF LookupLoad, Audited
  <2>2. \A e \in Dispatches : IsPast(e)' = IsPast(e)
    BY <1>4 DEF LookupLoad, IsPast, Mutating, Goto, TypeOK
  <2>3. \A e \in Dispatches : heap'[e] \subseteq Audited
    BY <1>0, <1>4 DEF LookupLoad, OnlyAudited, TypeOK
  <2>. QED  BY <1>4, <2>1, <2>2, <2>3 DEF LookupLoad, OnlyAudited
<1>5. CASE EmitBefore(d)
  <2>1. d \in Audited'
    BY <1>5 DEF EmitBefore, Audited
  <2>. QED  BY <1>5, <2>1, MoveAudited DEF EmitBefore
<1>6. CASE HandlerReturns(d) \/ HandlerRaises(d)
  <2>1. d \in Audited
    BY <1>6 DEF HandlerReturns, HandlerRaises, OnlyAudited, IsPast, Mutating
  <2>2. Audited' = Audited
    BY <1>6 DEF HandlerReturns, HandlerRaises, Audited
  <2>3. \A e \in Dispatches : IsPast(e)' => IsPast(e)
    BY <1>6 DEF HandlerReturns, HandlerRaises, IsPast, Mutating, Goto, TypeOK
  <2>4. snapshot' \subseteq Audited
    BY <1>6, <2>1 DEF HandlerReturns, HandlerRaises, Mutate, OnlyAudited
  <2>5. \A e \in Dispatches : heap'[e] \subseteq Audited
    <3>1. heap \in [Dispatches -> SUBSET Dispatches] /\ \A e \in Dispatches : heap[e] \subseteq Audited
      BY DEF TypeOK, OnlyAudited
    <3>2. CASE Mutate(d) /\ job[d].kind = "create"
      BY <2>1, <3>1, <3>2 DEF Mutate
    <3>3. CASE Mutate(d) /\ job[d].kind # "create"
      BY <2>1, <3>1, <3>3 DEF Mutate
    <3>4. CASE UNCHANGED heap
      BY <3>1, <3>4
    <3>. QED  BY <1>6, <3>2, <3>3, <3>4 DEF HandlerReturns, HandlerRaises
  <2>. QED
    BY <1>6, <2>2, <2>3, <2>4, <2>5 DEF HandlerReturns, HandlerRaises, OnlyAudited
<1>7. CASE FlushBegin(d) \/ FlushEnd(d) \/ FlushRaises(d) \/ StoreFails(d) \/ RecordCallFails(d)
  <2>1. PICK at : Goto(d, at)
    BY <1>7 DEF FlushBegin, FlushEnd, FlushRaises, StoreFails, RecordCallFails
  <2>2. d \in Audited'
    BY <1>7 DEF FlushBegin, FlushEnd, FlushRaises, StoreFails, RecordCallFails, OnlyAudited,
                IsPast, Mutating, Audited
  <2>. QED
    BY <1>7, <2>1, <2>2, MoveAudited
       DEF FlushBegin, FlushEnd, FlushRaises, StoreFails, RecordCallFails
<1>8. CASE EnqueueAnchor(d) \/ Persist(d) \/ RecordCall(d)
  <2>1. d \in Audited
    BY <1>8 DEF EnqueueAnchor, Persist, RecordCall, OnlyAudited, IsPast, Mutating
  <2>2. Audited' = Audited
    BY <1>8 DEF EnqueueAnchor, Persist, RecordCall, Audited
  <2>3. \A e \in Dispatches : IsPast(e)' => e \in Audited
    BY <1>8, <2>1 DEF EnqueueAnchor, Persist, RecordCall, OnlyAudited, IsPast, Goto, TypeOK
  <2>4. /\ outbox' \subseteq Audited /\ dbSnapshot' \subseteq Audited
        /\ snapshot' \subseteq Audited
        /\ \A e \in Dispatches : calls'[e] # "none" => e \in Audited
    BY <1>8, <2>1 DEF EnqueueAnchor, Persist, RecordCall, OnlyAudited, TypeOK
  <2>. QED
    BY <1>8, <2>2, <2>3, <2>4 DEF EnqueueAnchor, Persist, RecordCall, OnlyAudited
<1>9. CASE \E k \in Keys : FlushCard(d, k)
  <2>1. PICK k \in Keys : FlushCard(d, k)
    BY <1>9
  <2>2. Audited' = Audited /\ \A e \in Dispatches : IsPast(e)' = IsPast(e)
    BY <2>1 DEF FlushCard, Audited, IsPast
  <2>3. \A j \in Keys : dbCards'[j] \subseteq Audited
    BY <2>1 DEF FlushCard, OnlyAudited, TypeOK
  <2>. QED  BY <2>1, <2>2, <2>3 DEF FlushCard, OnlyAudited
<1>. QED
  BY <1>1, <1>2, <1>3, <1>4, <1>5, <1>6, <1>7, <1>8, <1>9 DEF Step, Trouble

\* A crash takes from memory what was not saved, and adds nothing.
LEMMA OtherAudited ==
    ASSUME TypeOK, OnlyAudited, Crash \/ UNCHANGED vars
    PROVE  OnlyAudited'
<1>1. Audited' = Audited
  BY DEF Crash, vars, Audited, evidenceVars
<1>2. \A d \in Dispatches : IsPast(d)' => IsPast(d)
  BY DEF Crash, vars, IsPast, Mutating, InFlight
<1>. QED
  BY <1>1, <1>2 DEF OnlyAudited, Crash, vars, evidenceVars

-----------------------------------------------------------------------------
(* What was acknowledged is saved; what was audited closes.                *)

\* What AckedIsSaved says of one dispatch.
AckSaved(d) ==
    outcome[d] = "ok" /\ job[d].kind # "read"
        => d \in dbSnapshot /\ calls[d] = "succeeded" /\ <<d, "after">> \in trail

\* A step of d leaves the stage, the answer and the evidence of every other
\* dispatch alone, and takes nothing out of a snapshot.
Frame(d) ==
    /\ UNCHANGED job
    /\ \A e \in Dispatches \ {d} :
          /\ pc'[e] = pc[e] /\ outcome'[e] = outcome[e] /\ calls'[e] = calls[e]
          /\ \A what \in {"before", "after", "error"} :
                <<e, what>> \in trail' <=> <<e, what>> \in trail
    /\ snapshot \subseteq snapshot' /\ dbSnapshot \subseteq dbSnapshot'
    /\ dbSnapshot' \subseteq snapshot'
    /\ faults' = 0 => faults = 0

\* Every step of a dispatch stays within its frame.
LEMMA StepFrames ==
    ASSUME TypeOK, SavedByStage, NEW d \in Dispatches, Arrive(d) \/ Step(d) \/ Trouble(d)
    PROVE  Frame(d)
<1> USE DEF Goto, Answer, cardVars, storeVars, evidenceVars, requestVars
<1>0. /\ pc \in [Dispatches -> Stages] /\ outcome \in [Dispatches -> Outcomes]
      /\ calls \in [Dispatches -> {"none", "succeeded", "failed"}]
      /\ faults \in Nat /\ dbSnapshot \subseteq snapshot
  BY BoundsAssumption DEF TypeOK, SavedByStage
<1>1. CASE Arrive(d) \/ ClearEpoch(d) \/ CountIn(d) \/ Route(d) \/ Refuse(d) \/ Leave(d)
  BY <1>0, <1>1 DEF Arrive, ClearEpoch, CountIn, Route, Refuse, Leave, Frame
<1>2. CASE LookupHit(d) \/ LookupLoad(d) \/ Register(d)
  BY <1>0, <1>2 DEF LookupHit, LookupLoad, Register, AnswerRead, Frame
<1>3. CASE Acquire(d) \/ ConfirmationRequired(d) \/ EmitBefore(d) \/ Release(d)
  BY <1>0, <1>3 DEF Acquire, ConfirmationRequired, EmitBefore, Release, Frame
<1>4. CASE EmitBeforeFails(d) \/ StoreFails(d) \/ RecordCallFails(d) \/ EmitClosingFails(d)
  BY <1>0, <1>4 DEF EmitBeforeFails, StoreFails, RecordCallFails, EmitClosingFails, Fault, Frame
<1>5. CASE HandlerReturns(d) \/ HandlerRaises(d)
  <2>1. snapshot \subseteq snapshot'
    BY <1>5 DEF HandlerReturns, HandlerRaises, Mutate
  <2>. QED  BY <1>0, <1>5, <2>1 DEF HandlerReturns, HandlerRaises, Frame
<1>6. CASE EnqueueAnchor(d) \/ FlushBegin(d) \/ FlushEnd(d) \/ FlushRaises(d) \/ Persist(d)
  BY <1>0, <1>6 DEF EnqueueAnchor, FlushBegin, FlushEnd, FlushRaises, Persist, Frame
<1>7. CASE \E k \in Keys : FlushCard(d, k)
  BY <1>0, <1>7 DEF FlushCard, Frame
<1>8. CASE RecordCall(d) \/ EmitClosing(d)
  BY <1>0, <1>8 DEF RecordCall, EmitClosing, Frame
<1>. QED
  BY <1>1, <1>2, <1>3, <1>4, <1>5, <1>6, <1>7, <1>8 DEF Step, Trouble

\* Every step of a dispatch keeps its stage, its acknowledgement and its trail
\* in order.
LEMMA OwnStage ==
    ASSUME TypeOK, OnlyAudited, SavedByStage, NEW d \in Dispatches, AckSaved(d), Underway(d),
           Arrive(d) \/ Step(d) \/ Trouble(d)
    PROVE  StageSaves(d)' /\ AckSaved(d)' /\ Underway(d)'
<1> USE DEF Goto, Answer, cardVars, storeVars, evidenceVars, requestVars
<1>0. /\ pc \in [Dispatches -> Stages] /\ outcome \in [Dispatches -> Outcomes]
      /\ calls \in [Dispatches -> {"none", "succeeded", "failed"}]
      /\ faults \in Nat /\ dbSnapshot \subseteq snapshot /\ StageSaves(d)
      /\ job[d].kind \in Kinds
  BY BoundsAssumption DEF TypeOK, SavedByStage
<1>1. CASE Arrive(d) \/ ClearEpoch(d) \/ CountIn(d) \/ Route(d) \/ Refuse(d)
  BY <1>0, <1>1 DEF Arrive, ClearEpoch, CountIn, Route, Refuse, StageSaves, AckSaved, Underway,
        IsPast, Mutating, Audited
<1>2. CASE LookupHit(d) \/ LookupLoad(d) \/ Register(d)
  <2>1. pc[d] \in {"lookup", "register"} /\ outcome[d] # "ok"
        /\ UNCHANGED <<job, trail, calls, faults, snapshot, dbSnapshot>>
    BY <1>0, <1>2 DEF LookupHit, LookupLoad, Register, StageSaves
  <2>2. CASE job[d].kind = "read"
    BY <1>0, <1>2, <2>1, <2>2 DEF LookupHit, LookupLoad, Register, AnswerRead, AfterLookup,
          StageSaves, AckSaved, Underway, IsPast, Mutating, Audited
  <2>3. CASE job[d].kind = "inside"
    BY <1>0, <1>2, <2>1, <2>3 DEF LookupHit, LookupLoad, Register, AnswerRead, AfterLookup,
          StageSaves, AckSaved, Underway, IsPast, Mutating, Audited
  <2>4. CASE job[d].kind = "prefetch"
    BY <1>0, <1>2, <2>1, <2>4 DEF LookupHit, LookupLoad, Register, AnswerRead, AfterLookup,
          StageSaves, AckSaved, Underway, IsPast, Mutating, Audited
  <2>5. CASE job[d].kind = "create"
    BY <1>0, <1>2, <2>1, <2>5 DEF LookupHit, LookupLoad, Register, AnswerRead, AfterLookup,
          StageSaves, AckSaved, Underway, IsPast, Mutating, Audited
  <2>. QED  BY <1>0, <2>2, <2>3, <2>4, <2>5 DEF Kinds
<1>3. CASE Leave(d) \/ Release(d)
  BY <1>0, <1>3 DEF Leave, Release, StageSaves, AckSaved, Underway, IsPast, Mutating, Audited,
        Closes
<1>4. CASE Acquire(d) \/ ConfirmationRequired(d) \/ EmitBefore(d)
  BY <1>0, <1>4 DEF Acquire, ConfirmationRequired, EmitBefore, AfterBefore, StageSaves, AckSaved,
        Underway, IsPast, Mutating, Audited
<1>5. CASE EmitBeforeFails(d) \/ StoreFails(d) \/ RecordCallFails(d) \/ EmitClosingFails(d)
  <2>1. faults' # 0
    BY <1>0, <1>5 DEF EmitBeforeFails, StoreFails, RecordCallFails, EmitClosingFails, Fault
  <2>. QED
    BY <1>0, <1>5, <2>1 DEF EmitBeforeFails, StoreFails, RecordCallFails, EmitClosingFails,
          StageSaves, AckSaved, Underway, Mutating
<1>6. CASE HandlerReturns(d) \/ HandlerRaises(d)
  <2>1. HandlerReturns(d) => d \in snapshot'
    BY DEF HandlerReturns, Mutate
  <2>. QED
    BY <1>0, <1>6, <2>1 DEF HandlerReturns, HandlerRaises, StageSaves, AckSaved, Underway, IsPast,
          Mutating
<1>7. CASE EnqueueAnchor(d) \/ FlushBegin(d) \/ FlushEnd(d) \/ FlushRaises(d) \/ Persist(d)
  BY <1>0, <1>7 DEF EnqueueAnchor, FlushBegin, FlushEnd, FlushRaises, Persist, StageSaves,
        AckSaved, Underway, IsPast, Mutating
<1>8. CASE \E k \in Keys : FlushCard(d, k)
  BY <1>0, <1>8 DEF FlushCard, StageSaves, AckSaved, Underway, IsPast, Mutating, Audited, Closes
<1>9. CASE RecordCall(d)
  BY <1>0, <1>9 DEF RecordCall, StageSaves, AckSaved, Underway, IsPast, Mutating
<1>10. CASE EmitClosing(d)
  <2>1. d \in Audited
    BY <1>10 DEF EmitClosing, OnlyAudited, IsPast, Mutating
  <2>. QED
    BY <1>0, <1>10, <2>1 DEF EmitClosing, StageSaves, AckSaved, Underway, IsPast, Mutating, Closes
<1>. QED
  BY <1>1, <1>2, <1>3, <1>4, <1>5, <1>6, <1>7, <1>8, <1>9, <1>10 DEF Step, Trouble

\* Hence every step of a dispatch keeps all of them in order.
LEMMA DispatchSaves ==
    ASSUME TypeOK, OnlyAudited, SavedByStage, AckedIsSaved, OnTheWay,
           NEW d \in Dispatches, Arrive(d) \/ Step(d) \/ Trouble(d)
    PROVE  SavedByStage' /\ AckedIsSaved' /\ OnTheWay'
<1>1. Frame(d)
  BY StepFrames
<1>2. StageSaves(d)' /\ AckSaved(d)' /\ Underway(d)'
  BY OwnStage DEF AckedIsSaved, AckSaved, OnTheWay
<1>3. ASSUME NEW e \in Dispatches \ {d}
      PROVE  StageSaves(e)' /\ AckSaved(e)' /\ Underway(e)'
  <2>1. StageSaves(e) /\ AckSaved(e) /\ Underway(e)
    BY DEF SavedByStage, AckedIsSaved, AckSaved, OnTheWay
  <2>2. StageSaves(e)'
    BY <1>1, <2>1 DEF Frame, StageSaves
  <2>3. AckSaved(e)'
    BY <1>1, <2>1 DEF Frame, AckSaved
  <2>4. Underway(e)'
    BY <1>1, <2>1 DEF Frame, Underway, IsPast, Audited, Closes
  <2>. QED  BY <2>2, <2>3, <2>4
<1>. QED
  BY <1>1, <1>2, <1>3 DEF Frame, SavedByStage, AckedIsSaved, AckSaved, OnTheWay

\* A crash reads the snapshot back, and answers nobody.
LEMMA OtherSaves ==
    ASSUME TypeOK, SavedByStage, AckedIsSaved, OnTheWay, Crash \/ UNCHANGED vars
    PROVE  SavedByStage' /\ AckedIsSaved' /\ OnTheWay'
<1>1. CASE Crash
  <2>1. faults' # 0
    BY <1>1 DEF Crash, Fault, TypeOK
  <2>2. \A d \in Dispatches :
            /\ pc'[d] \in {"new", "done"}
            /\ outcome'[d] = "ok" => pc'[d] = pc[d] /\ outcome[d] = "ok"
    BY <1>1 DEF Crash, TypeOK, InFlight
  <2>. QED
    BY <1>1, <2>1, <2>2 DEF Crash, evidenceVars, SavedByStage, StageSaves, Mutating, AckedIsSaved,
          OnTheWay, Underway
<1>2. CASE UNCHANGED vars
  BY <1>2 DEF vars, SavedByStage, StageSaves, AckedIsSaved, OnTheWay, Underway, IsPast, Audited,
        Closes
<1>. QED  BY <1>1, <1>2

-----------------------------------------------------------------------------
(* The theorems.                                                           *)

\* The invariant holds from the start, and every step of a request, every fault
\* and every crash keeps it.
THEOREM Invariance == SafeSpec => []IInv
<1>1. Init => IInv
  <2> SUFFICES ASSUME Init PROVE IInv
    OBVIOUS
  <2>1. Counted = {} /\ Cardinality(Counted) = 0
    BY FS_EmptySet DEF Init, Counted
  <2>2. TypeOK
    <3>1. depth \in 0 .. Cardinality(Dispatches) /\ faults \in 0 .. MaxFaults
      BY BoundsAssumption, CountedFinite DEF Init
    <3>2. overlapped \in BOOLEAN /\ flushSize \in Nat
      BY DEF Init
    <3>3. /\ pc \in [Dispatches -> Stages] /\ outcome \in [Dispatches -> Outcomes]
          /\ holder \in Dispatches \union {Nobody}
          /\ heap \in [Dispatches -> SUBSET Dispatches]
          /\ ref \in [Dispatches -> Dispatches \union {Nobody}]
          /\ tracked \in [Keys -> Dispatches \union {Nobody}]
      BY DEF Init, Stages, Outcomes, Empty
    <3>4. /\ loadedAs \in [Keys -> SUBSET Dispatches]
          /\ dbCards \in [Keys -> SUBSET Dispatches]
          /\ calls \in [Dispatches -> {"none", "succeeded", "failed"}]
          /\ toFlush \subseteq Keys /\ snapshot \subseteq Dispatches
          /\ dbSnapshot \subseteq Dispatches
          /\ trail \subseteq Dispatches \X {"before", "after", "error"}
          /\ outbox \subseteq Dispatches /\ raised \subseteq Dispatches
      BY DEF Init
    <3>. QED  BY <3>1, <3>2, <3>3, <3>4 DEF Init, TypeOK
  <2>3. Audited = {} /\ \A d \in Dispatches : ~IsPast(d)
    BY DEF Init, Audited, IsPast, Mutating
  <2>4. SavedByStage /\ AckedIsSaved /\ OnTheWay
    BY <2>3 DEF Init, SavedByStage, StageSaves, Mutating, AckedIsSaved, OnTheWay, Underway
  <2>5. OnlyAudited
    BY <2>3 DEF Init, OnlyAudited
  <2>. QED  BY <2>1, <2>2, <2>4, <2>5 DEF IInv, DepthCounts, Init
<1>2. IInv /\ [Next]_vars => IInv'
  <2> SUFFICES ASSUME IInv, [Next]_vars PROVE IInv'
    OBVIOUS
  <2>1. CASE \E d \in Dispatches : Arrive(d) \/ Step(d) \/ Trouble(d)
    BY <2>1, DispatchTypes, DispatchAudited, DispatchSaves DEF IInv
  <2>2. CASE Crash \/ UNCHANGED vars
    BY <2>2, OtherTypes, OtherAudited, OtherSaves DEF IInv
  <2>. QED  BY <2>1, <2>2 DEF Next, Quiet
<1>. QED  BY <1>1, <1>2, PTL DEF SafeSpec

\* The values the variables take, _dispatch_depth among them: no path through
\* invoke_skill counts a dispatch in or out twice.
THEOREM TypeCorrect == SafeSpec => []TypeOK
<1>1. IInv => TypeOK
  BY DEF IInv
<1>. QED  BY <1>1, Invariance, PTL

\* Audit is fail-closed: whatever AuditEmitMiddleware's sink, the stores and the
\* process do, a dispatch leaves nothing in a store before its "before" event.
THEOREM AuditFirst == SafeSpec => []AuditedFirst
<1>1. IInv => AuditedFirst
  BY DEF IInv, OnlyAudited, AuditedFirst, Audited
<1>. QED  BY <1>1, Invariance, PTL

\* An acknowledged write is saved, recorded and audited, and stays so.
THEOREM AcknowledgedIsSaved == SafeSpec => []AckedIsSaved
<1>1. IInv => AckedIsSaved
  BY DEF IInv
<1>. QED  BY <1>1, Invariance, PTL

\* As long as nothing fails, every audited write of SkillPipeline.write closes with
\* its "after" or its "error" event and the matching capability_call row.
THEOREM AuditedWritesClose == SafeSpec => []TrailCloses
<1>1. IInv => TrailCloses
  BY DEF IInv, OnTheWay, Underway, TrailCloses, Audited, IsPast, Mutating, Closes
<1>. QED  BY <1>1, Invariance, PTL
-----------------------------------------------------------------------------
(* Requests one after the other: the second inductive invariant, about the *)
(* cards, which rests on the first one for the depth counter (a lone       *)
(* request finds it at zero, so it starts a new epoch).                    *)

\* Only the card of d is registered, as the object d loaded or created.
OnlyCard(d) == tracked = [Empty EXCEPT ![Card(d)] = d]

\* The object is what the row says, and was registered with that fingerprint.
Fresh(d) ==
    /\ OnlyCard(d) /\ ref[d] = d
    /\ heap[d] = dbCards[Card(d)] /\ loadedAs[Card(d)] = heap[d]

\* The object is the row and the mutation of d, which the fingerprint lacks.
Dirty(d) ==
    /\ OnlyCard(d)
    /\ heap[d] = dbCards[Card(d)] \union {d} /\ d \notin loadedAs[Card(d)]

\* What the session holds by the stage of the one request that is open.
CardByStage(d) ==
    /\ pc[d] \in {"count", "route", "lookup", "register"} => tracked = Empty
    /\ pc[d] = "register" => heap[d] = dbCards[Card(d)]
    /\ pc[d] \in {"lock", "before"} =>
          IF job[d].kind = "prefetch" THEN Fresh(d) ELSE tracked = Empty
    /\ pc[d] = "mutate" /\ job[d].kind # "create" => Fresh(d)
    /\ pc[d] = "mutate" /\ job[d].kind = "create" => tracked = Empty
    /\ pc[d] \in {"anchor", "flush"} => Dirty(d)
    /\ pc[d] = "flushing" =>
          /\ OnlyCard(d)
          /\ IF Card(d) \in toFlush THEN Dirty(d) ELSE d \in dbCards[Card(d)]
    /\ pc[d] \in {"persist", "record", "after"} => d \in dbCards[Card(d)]

\* Where a dispatch may be once its mutation is in a row, and once it raised.
Written == {"flushing", "persist", "record", "recordFailed", "error", "after", "unlock",
            "leave", "done"}
Failing == {"recordFailed", "error", "unlock", "leave", "done"}

\* A row holds mutations of its own card only, by dispatches that got that far
\* and did not raise.
RowsInOrder ==
    /\ \A k \in Keys : \A e \in dbCards[k] : Card(e) = k /\ pc[e] \in Written /\ e \notin raised
    /\ \A e \in raised : pc[e] \in Failing

\* A creating dispatch mints the id of its card, the others find theirs.
JobsInOrder ==
    \A d \in Dispatches : IF job[d].kind = "create" THEN job[d].card = d ELSE job[d].card \in Cards

\* One request at a time.
Alone == \A d, e \in InFlight : d = e

SerialInv ==
    /\ JobsInOrder
    /\ ~overlapped =>
          /\ Alone
          /\ \A d \in Dispatches : CardByStage(d)
          /\ RowsInOrder
          /\ AckedCardWritten

\* A step that moves d and writes no row keeps the rows in order.
LEMMA RowsKept ==
    ASSUME TypeOK, RowsInOrder, NEW d \in Dispatches, NEW at, Goto(d, at),
           UNCHANGED <<job, dbCards, raised>>,
           pc[d] \in Written => at \in Written, pc[d] \in Failing => at \in Failing
    PROVE  RowsInOrder'
<1>1. \A e \in Dispatches : /\ pc[e] \in Written => pc'[e] \in Written
                            /\ pc[e] \in Failing => pc'[e] \in Failing
  BY DEF Goto, TypeOK
<1>2. /\ \A k \in Keys : dbCards[k] \subseteq Dispatches
      /\ raised \subseteq Dispatches
  BY DEF TypeOK
<1>. QED  BY <1>1, <1>2 DEF RowsInOrder, Card

\* An answer to d alone, with rows that only grow, keeps what was acknowledged.
LEMMA AcksKept ==
    ASSUME AckedCardWritten, NEW d \in Dispatches, UNCHANGED job, Card(d) \in Keys,
           \A e \in Dispatches : Card(e) \in Keys /\ dbCards[Card(e)] \subseteq dbCards'[Card(e)],
           \A e \in Dispatches \ {d} : outcome'[e] = outcome[e],
           outcome'[d] = "ok" /\ job[d].kind # "read" =>
                outcome[d] = "ok" \/ d \in dbCards'[Card(d)]
    PROVE  AckedCardWritten'
<1>1. \A e \in Dispatches : Card(e)' = Card(e)
  BY DEF Card
<1>. QED  BY <1>1 DEF AckedCardWritten

\* A request that runs alone finds the session as the last stage left it.
LEMMA LoneStep ==
    ASSUME TypeOK, JobsInOrder, RowsInOrder, AckedCardWritten,
           NEW d \in Dispatches, StageSaves(d), CardByStage(d), Step(d) \/ Trouble(d)
    PROVE  CardByStage(d)' /\ RowsInOrder' /\ AckedCardWritten'
<1> USE DEF Goto, Answer, cardVars, storeVars, evidenceVars, requestVars
<1>0. /\ pc \in [Dispatches -> Stages] /\ outcome \in [Dispatches -> Outcomes]
      /\ job[d].kind \in Kinds /\ Card(d) \in Keys /\ d \in Keys
      /\ \A e \in Dispatches : Card(e) \in Keys
  BY DEF TypeOK, Card, Keys
<1>1. CASE ClearEpoch(d) \/ CountIn(d) \/ Route(d) \/ Refuse(d) \/ Leave(d)
  <2>1. CardByStage(d)'
    BY <1>0, <1>1 DEF ClearEpoch, CountIn, Route, Refuse, Leave, CardByStage, OnlyCard, Fresh,
          Dirty, Card
  <2>2. PICK at \in {"count", "route", "lookup", "lock", "leave", "done"} :
            Goto(d, at) /\ (pc[d] = "leave" => at = "done")
    BY <1>0, <1>1 DEF ClearEpoch, CountIn, Route, Refuse, Leave
  <2>3. RowsInOrder'
    BY <1>0, <1>1, <2>2, RowsKept
       DEF ClearEpoch, CountIn, Route, Refuse, Leave, Written, Failing
  <2>4. AckedCardWritten'
    BY <1>0, <1>1, AcksKept DEF ClearEpoch, CountIn, Route, Refuse, Leave
  <2>. QED  BY <2>1, <2>3, <2>4
<1>2. CASE LookupHit(d)
  <2>1. FALSE
    BY <1>0, <1>2 DEF LookupHit, CardByStage, Empty
  <2>. QED  BY <2>1
<1>3. CASE LookupLoad(d)
  <2>1. CardByStage(d)'
    BY <1>0, <1>3 DEF LookupLoad, CardByStage, OnlyCard, Fresh, Dirty, Card, TypeOK
  <2>2. RowsInOrder'
    BY <1>0, <1>3, RowsKept DEF LookupLoad, Written, Failing
  <2>3. AckedCardWritten'
    BY <1>0, <1>3, AcksKept DEF LookupLoad
  <2>. QED  BY <2>1, <2>2, <2>3
<1>4. CASE Register(d)
  <2>1. OnlyCard(d)' /\ ref'[d] = d /\ loadedAs'[Card(d)] = heap[d]
    BY <1>0, <1>4 DEF Register, CardByStage, OnlyCard, Card, TypeOK, Empty
  <2>2. Fresh(d)'
    BY <1>0, <1>4, <2>1 DEF Register, CardByStage, Fresh, Card
  <2>3. pc'[d] \in {"lock", "mutate", "leave"}
        /\ (pc'[d] = "lock" => job[d].kind = "prefetch")
        /\ (pc'[d] = "mutate" => job[d].kind = "inside")
    BY <1>0, <1>4 DEF Register, AfterLookup
  <2>4. CardByStage(d)'
    BY <1>4, <2>2, <2>3 DEF Register, CardByStage
  <2>5. RowsInOrder'
    BY <1>0, <1>4, RowsKept DEF Register, Written, Failing
  <2>6. AckedCardWritten'
    BY <1>0, <1>4, AcksKept DEF Register, AnswerRead
  <2>. QED  BY <2>4, <2>5, <2>6
<1>5. CASE Acquire(d) \/ ConfirmationRequired(d) \/ EmitBefore(d) \/ EmitBeforeFails(d)
           \/ Release(d)
  <2>1. CardByStage(d)'
    <3>1. CASE Acquire(d)
      BY <1>0, <3>1 DEF Acquire, CardByStage, OnlyCard, Fresh, Card
    <3>2. CASE EmitBefore(d)
      BY <1>0, <3>2 DEF EmitBefore, AfterBefore, CardByStage, OnlyCard, Fresh, Card, StageSaves,
            Kinds
    <3>3. CASE ConfirmationRequired(d) \/ EmitBeforeFails(d) \/ Release(d)
      BY <1>0, <3>3 DEF ConfirmationRequired, EmitBeforeFails, Release, CardByStage
    <3>. QED  BY <1>5, <3>1, <3>2, <3>3
  <2>2. PICK at \in Stages : Goto(d, at) /\ (pc[d] \in Written => at = "leave")
    BY <1>0, <1>5 DEF Acquire, ConfirmationRequired, EmitBefore, EmitBeforeFails, Release,
          AfterBefore, Stages, Written
  <2>3. RowsInOrder'
    BY <1>0, <1>5, <2>2, RowsKept DEF Acquire, ConfirmationRequired, EmitBefore, EmitBeforeFails,
          Release, Written, Failing
  <2>4. AckedCardWritten'
    BY <1>0, <1>5, AcksKept DEF Acquire, ConfirmationRequired, EmitBefore, EmitBeforeFails, Release
  <2>. QED  BY <2>1, <2>3, <2>4
<1>6. CASE HandlerReturns(d)
  <2>1. pc[d] = "mutate" /\ \A k \in Keys : d \notin dbCards[k]
    BY <1>6 DEF HandlerReturns, RowsInOrder, Written
  <2>2. Dirty(d)'
    <3>1. CASE job[d].kind = "create"
      <4>1. Card(d) = d
        BY <3>1 DEF JobsInOrder, Card
      <4>2. dbCards[d] = {}
        <5>1. ASSUME NEW e \in dbCards[d] PROVE FALSE
          <6>1. e \in Dispatches /\ Card(e) = d /\ e # d
            BY <1>0, <2>1, <5>1 DEF RowsInOrder, TypeOK
          <6>. QED  BY <6>1, CardsAssumption DEF JobsInOrder, Card
        <5>. QED  BY <5>1
      <4>3. /\ heap' = [heap EXCEPT ![d] = {d}] /\ tracked' = [tracked EXCEPT ![d] = d]
            /\ loadedAs' = [loadedAs EXCEPT ![d] = {}] /\ dbCards' = dbCards /\ job' = job
        BY <1>6, <3>1 DEF HandlerReturns, Mutate
      <4>4. tracked = Empty /\ heap \in [Dispatches -> SUBSET Dispatches]
            /\ loadedAs \in [Keys -> SUBSET Dispatches]
        BY <2>1, <3>1 DEF CardByStage, TypeOK
      <4>5. Card(d)' = d /\ heap'[d] = {d} /\ loadedAs'[d] = {} /\ dbCards'[d] = {}
            /\ tracked' = [Empty EXCEPT ![d] = d]
        BY <1>0, <4>1, <4>2, <4>3, <4>4 DEF Card
      <4>. QED  BY <4>5 DEF Dirty, OnlyCard, Empty
    <3>2. CASE job[d].kind # "create"
      <4>1. Fresh(d)
        BY <2>1, <3>2 DEF CardByStage
      <4>2. heap' = [heap EXCEPT ![d] = heap[d] \union {d}]
            /\ UNCHANGED <<ref, tracked, loadedAs, dbCards, job>>
        BY <1>6, <3>2, <4>1 DEF HandlerReturns, Mutate, Fresh
      <4>3. heap'[d] = heap[d] \union {d} /\ d \notin dbCards[Card(d)]
        BY <1>0, <2>1, <4>2 DEF TypeOK
      <4>. QED  BY <4>1, <4>2, <4>3 DEF Fresh, Dirty, OnlyCard, Card
    <3>. QED  BY <3>1, <3>2
  <2>3. pc'[d] = "anchor"
    BY <1>0, <1>6 DEF HandlerReturns
  <2>4. CardByStage(d)'
    BY <2>2, <2>3 DEF CardByStage
  <2>5. RowsInOrder'
    BY <1>0, <1>6, RowsKept DEF HandlerReturns, Written, Failing
  <2>6. AckedCardWritten'
    BY <1>0, <1>6, AcksKept DEF HandlerReturns
  <2>. QED  BY <2>4, <2>5, <2>6
<1>7. CASE HandlerRaises(d)
  <2>1. pc'[d] = "recordFailed"
    BY <1>0, <1>7 DEF HandlerRaises
  <2>2. CardByStage(d)'
    BY <2>1 DEF CardByStage
  <2>3. \A k \in Keys : d \notin dbCards[k]
    BY <1>7 DEF HandlerRaises, RowsInOrder, Written
  <2>4. raised' = raised \union {d} /\ dbCards' = dbCards /\ job' = job
        /\ \A e \in Dispatches : e # d => pc'[e] = pc[e]
    BY <1>0, <1>7 DEF HandlerRaises
  <2>5. RowsInOrder'
    <3>1. raised \subseteq Dispatches /\ \A k \in Keys : dbCards[k] \subseteq Dispatches
      BY DEF TypeOK
    <3>. QED  BY <2>1, <2>3, <2>4, <3>1 DEF RowsInOrder, Card, Failing
  <2>6. AckedCardWritten'
    BY <1>0, <1>7, AcksKept DEF HandlerRaises
  <2>. QED  BY <2>2, <2>5, <2>6
<1>8. CASE EnqueueAnchor(d) \/ FlushBegin(d)
  <2>1. Dirty(d)' /\ OnlyCard(d)'
    BY <1>0, <1>8 DEF EnqueueAnchor, FlushBegin, CardByStage, Dirty, OnlyCard, Card
  <2>2. FlushBegin(d) => Card(d)' \in toFlush'
    <3>1. OnlyCard(d) /\ d # Nobody => Card(d) \in TrackedKeys
      BY <1>0 DEF OnlyCard, Empty, TrackedKeys
    <3>. QED
      BY <1>8, <3>1, NobodyAssumption DEF FlushBegin, CardByStage, Dirty, Card
  <2>3. CardByStage(d)'
    BY <1>0, <1>8, <2>1, <2>2 DEF EnqueueAnchor, FlushBegin, CardByStage
  <2>4. RowsInOrder'
    BY <1>0, <1>8, RowsKept DEF EnqueueAnchor, FlushBegin, Written, Failing
  <2>5. AckedCardWritten'
    BY <1>0, <1>8, AcksKept DEF EnqueueAnchor, FlushBegin
  <2>. QED  BY <2>3, <2>4, <2>5
<1>9. CASE \E k \in Keys : FlushCard(d, k)
  <2>1. PICK k \in Keys : FlushCard(d, k)
    BY <1>9
  <2>2. pc[d] = "flushing" /\ OnlyCard(d) /\ d \notin raised
    BY <2>1 DEF FlushCard, CardByStage, RowsInOrder, Failing
  <2>3. UNCHANGED <<job, pc, outcome, heap, tracked, loadedAs, raised>>
        /\ toFlush' = toFlush \ {k} /\ k \in toFlush
    BY <2>1 DEF FlushCard
  <2>4. \A j \in Keys : tracked[j] = IF j = Card(d) THEN d ELSE Nobody
    BY <1>0, <2>2 DEF OnlyCard, Empty
  <2>5. CASE k # Card(d)
    <3>1. dbCards' = dbCards
      BY <2>1, <2>4, <2>5 DEF FlushCard
    <3>. QED
      BY <2>2, <2>3, <2>5, <3>1 DEF CardByStage, RowsInOrder, AckedCardWritten, OnlyCard, Dirty, Card
  <2>6. CASE k = Card(d)
    <3>1. Dirty(d)
      BY <2>2, <2>3, <2>6 DEF CardByStage
    <3>2. dbCards' = [dbCards EXCEPT ![k] = dbCards[k] \union {d}]
      BY <1>0, <2>1, <2>4, <2>6, <3>1, NobodyAssumption DEF FlushCard, Dirty
    <3>3. dbCards \in [Keys -> SUBSET Dispatches]
      BY DEF TypeOK
    <3>4. \A j \in Keys : dbCards'[j] = IF j = k THEN dbCards[j] \union {d} ELSE dbCards[j]
      BY <3>2, <3>3
    <3>5. CardByStage(d)'
      BY <1>0, <2>2, <2>3, <2>6, <3>4 DEF CardByStage, OnlyCard, Card
    <3>6. RowsInOrder'
      <4>1. \A e \in raised' : pc'[e] \in Failing
        BY <2>3 DEF RowsInOrder
      <4>2. ASSUME NEW j \in Keys, NEW e \in dbCards'[j]
            PROVE  job'[e].card = j /\ pc'[e] \in Written /\ e \notin raised'
        <5>1. CASE e \in dbCards[j]
          BY <2>3, <5>1 DEF RowsInOrder, Card
        <5>2. CASE j = k /\ e = d
          BY <2>2, <2>3, <2>6, <5>2 DEF Card, Written
        <5>. QED  BY <3>4, <4>2, <5>1, <5>2
      <4>. QED  BY <4>1, <4>2 DEF RowsInOrder, Card
    <3>7. AckedCardWritten'
      BY <1>0, <2>3, <3>4, AcksKept
    <3>. QED  BY <3>5, <3>6, <3>7
  <2>. QED  BY <2>5, <2>6
<1>10. CASE FlushEnd(d) \/ FlushRaises(d) \/ StoreFails(d) \/ Persist(d)
  <2>1. CardByStage(d)'
    BY <1>0, <1>10 DEF FlushEnd, FlushRaises, StoreFails, Persist, CardByStage, Card
  <2>2. PICK at \in {"persist", "recordFailed", "record"} : Goto(d, at)
    BY <1>10 DEF FlushEnd, FlushRaises, StoreFails, Persist
  <2>3. RowsInOrder'
    BY <1>0, <1>10, <2>2, RowsKept DEF FlushEnd, FlushRaises, StoreFails, Persist, Written, Failing
  <2>4. AckedCardWritten'
    BY <1>0, <1>10, AcksKept DEF FlushEnd, FlushRaises, StoreFails, Persist
  <2>. QED  BY <2>1, <2>3, <2>4
<1>11. CASE RecordCall(d) \/ RecordCallFails(d) \/ EmitClosing(d) \/ EmitClosingFails(d)
  <2>1. CardByStage(d)'
    BY <1>0, <1>11 DEF RecordCall, RecordCallFails, EmitClosing, EmitClosingFails, CardByStage, Card
  <2>2. PICK at \in {"after", "error", "unlock"} :
            Goto(d, at) /\ (at = "after" => pc[d] = "record")
    BY <1>11 DEF RecordCall, RecordCallFails, EmitClosing, EmitClosingFails
  <2>3. RowsInOrder'
    BY <1>0, <1>11, <2>2, RowsKept
       DEF RecordCall, RecordCallFails, EmitClosing, EmitClosingFails, Written, Failing
  <2>4. outcome'[d] = "ok" => outcome[d] = "ok" \/ d \in dbCards'[Card(d)]
    BY <1>0, <1>11
       DEF RecordCall, RecordCallFails, EmitClosing, EmitClosingFails, CardByStage
  <2>5. AckedCardWritten'
    BY <1>0, <1>11, <2>4, AcksKept DEF RecordCall, RecordCallFails, EmitClosing, EmitClosingFails
  <2>. QED  BY <2>1, <2>3, <2>5
<1>. QED
  BY <1>1, <1>2, <1>3, <1>4, <1>5, <1>6, <1>7, <1>8, <1>9, <1>10, <1>11 DEF Step, Trouble

\* The second invariant holds as well.
THEOREM SerialInvariance == SafeSpec => []SerialInv
<1>1. Init => SerialInv
  <2> SUFFICES ASSUME Init PROVE SerialInv
    OBVIOUS
  <2>1. JobsInOrder /\ InFlight = {} /\ RowsInOrder
    BY DEF Init, JobsInOrder, InFlight, RowsInOrder
  <2>2. AckedCardWritten /\ \A d \in Dispatches : CardByStage(d)
    BY DEF Init, AckedCardWritten, CardByStage
  <2>. QED  BY <2>1, <2>2 DEF SerialInv, Alone
<1>2. IInv /\ SerialInv /\ [Next]_vars => SerialInv'
  <2> SUFFICES ASSUME IInv, SerialInv, [Next]_vars PROVE SerialInv'
    OBVIOUS
  <2>0. TypeOK /\ SavedByStage /\ DepthCounts
    BY DEF IInv
  <2>1. CASE \E d \in Dispatches : Arrive(d)
    <3>1. PICK d \in Dispatches : Arrive(d)
      BY <2>1
    <3>2. UNCHANGED <<job, dbCards, raised, outcome>> /\ overlapped' = (overlapped \/ InFlight # {})
          /\ Goto(d, IF depth = 0 THEN "clear" ELSE "count") /\ pc[d] = "new"
      BY <3>1 DEF Arrive, storeVars
    <3>3. JobsInOrder'
      BY <3>2 DEF SerialInv, JobsInOrder
    <3>4. ASSUME ~overlapped'
          PROVE  Alone' /\ (\A e \in Dispatches : CardByStage(e)') /\ RowsInOrder' /\ AckedCardWritten'
      <4>1. ~overlapped /\ InFlight = {}
        BY <2>0, <3>2, <3>4 DEF TypeOK
      <4>2. Counted = {}
        BY <4>1 DEF Counted, InFlight
      <4>3. depth = 0
        BY <2>0, <4>2, FS_EmptySet DEF DepthCounts
      <4>4. Goto(d, "clear")
        BY <3>2, <4>3
      <4>5. pc' = [pc EXCEPT ![d] = "clear"] /\ pc \in [Dispatches -> Stages]
        BY <2>0, <4>4 DEF Goto, TypeOK
      <4>6. \A e \in Dispatches : IF e = d THEN pc'[e] = "clear" ELSE pc'[e] \in {"new", "done"}
        BY <4>1, <4>5 DEF InFlight
      <4>7. Alone'
        BY <4>6 DEF Alone, InFlight
      <4>8. \A e \in Dispatches : CardByStage(e)'
        BY <4>6 DEF CardByStage
      <4>9. RowsInOrder'
        BY <2>0, <3>2, <4>1, <4>4, RowsKept DEF SerialInv, Written, Failing
      <4>10. AckedCardWritten'
        BY <3>2, <4>1 DEF SerialInv, AckedCardWritten, Card
      <4>. QED  BY <4>7, <4>8, <4>9, <4>10
    <3>. QED  BY <3>3, <3>4 DEF SerialInv
  <2>2. CASE \E d \in Dispatches : Step(d) \/ Trouble(d)
    <3>1. PICK d \in Dispatches : Step(d) \/ Trouble(d)
      BY <2>2
    <3>2. UNCHANGED <<job, overlapped>> /\ pc[d] \notin {"new", "done"}
      BY <3>1 DEF Step, Trouble, ClearEpoch, CountIn, Route, Refuse, Leave, LookupHit, LookupLoad,
            Register, Acquire, ConfirmationRequired, EmitBefore, EmitBeforeFails, HandlerReturns,
            HandlerRaises, EnqueueAnchor, FlushBegin, FlushCard, FlushEnd, FlushRaises, Persist,
            StoreFails, RecordCall, RecordCallFails, EmitClosing, EmitClosingFails, Release,
            requestVars
    <3>3. JobsInOrder'
      BY <3>2 DEF SerialInv, JobsInOrder
    <3>4. ASSUME ~overlapped'
          PROVE  Alone' /\ (\A e \in Dispatches : CardByStage(e)') /\ RowsInOrder' /\ AckedCardWritten'
      <4>1. Frame(d)
        BY <2>0, <3>1, StepFrames
      <4>2. Alone /\ CardByStage(d) /\ RowsInOrder /\ AckedCardWritten /\ JobsInOrder /\ StageSaves(d)
        BY <2>0, <3>2, <3>4 DEF SerialInv, SavedByStage
      <4>3. CardByStage(d)' /\ RowsInOrder' /\ AckedCardWritten'
        BY <2>0, <3>1, <4>2, LoneStep
      <4>4. \A e \in Dispatches \ {d} : pc[e] \in {"new", "done"} /\ pc'[e] \in {"new", "done"}
        BY <3>2, <4>1, <4>2 DEF Alone, InFlight, Frame
      <4>5. Alone'
        BY <4>4 DEF Alone, InFlight
      <4>6. \A e \in Dispatches \ {d} : CardByStage(e)'
        BY <4>4 DEF CardByStage
      <4>. QED  BY <4>3, <4>5, <4>6
    <3>. QED  BY <3>3, <3>4 DEF SerialInv
  <2>3. CASE Crash
    <3>1. UNCHANGED <<job, overlapped, dbCards, raised>>
      BY <2>3 DEF Crash
    <3>2. \A e \in Dispatches :
            /\ pc'[e] \in {"new", "done"}
            /\ pc[e] # "new" => pc'[e] = "done"
            /\ outcome'[e] = "ok" => outcome[e] = "ok"
      BY <2>0, <2>3 DEF Crash, TypeOK, InFlight
    <3>3. InFlight' = {} /\ Alone' /\ \A e \in Dispatches : CardByStage(e)'
      BY <3>2 DEF InFlight, Alone, CardByStage
    <3>4. raised \subseteq Dispatches /\ \A k \in Keys : dbCards[k] \subseteq Dispatches
      BY <2>0 DEF TypeOK
    <3>5. ~overlapped => RowsInOrder'
      BY <3>1, <3>2, <3>4 DEF SerialInv, RowsInOrder, Card, Written, Failing
    <3>6. ~overlapped => AckedCardWritten'
      BY <3>1, <3>2 DEF SerialInv, AckedCardWritten, Card
    <3>7. JobsInOrder'
      BY <3>1 DEF SerialInv, JobsInOrder
    <3>. QED  BY <3>1, <3>3, <3>5, <3>6, <3>7 DEF SerialInv
  <2>4. CASE UNCHANGED vars
    BY <2>4 DEF vars, SerialInv, JobsInOrder, Alone, InFlight, CardByStage, Fresh, Dirty, OnlyCard,
          Card, RowsInOrder, AckedCardWritten
  <2>. QED  BY <2>1, <2>2, <2>3, <2>4 DEF Next, Quiet
<1>. QED  BY <1>1, <1>2, Invariance, PTL DEF SafeSpec

\* What a caller was told is written stays written, snapshot and cards; and one
\* request after the other, a handler that raised leaves nothing in a row.
THEOREM AcknowledgedIsKept == SafeSpec => []WritesKept
<1>1. SerialInv => SerialWritesKeepCards
  BY DEF SerialInv, SerialWritesKeepCards, RowsInOrder
<1>2. IInv => AckedIsSaved
  BY DEF IInv
<1>. QED  BY <1>1, <1>2, Invariance, SerialInvariance, PTL DEF WritesKept

-----------------------------------------------------------------------------
(* What the roles are shown: the inductive invariant                       *)

\* The cards the table holds, and the todos they should have.
PresentCards == {a \in Apps : IsRuntimeCard(a) /\ app[a] # Absent}
WantedTodos == UNION {TodosOf(a, app[a]) : a \in PresentCards}

\* Todos of a card in some status, now or earlier.
OfSomeStatus(ts) ==
    \A t \in ts : \E a \in PresentCards, s \in CardStatuses : t \in TodosOf(a, s)

CardsTyped ==
    /\ app \in [Apps -> CardStatuses \union ImportedStatuses \union {Absent}]
    /\ \A a \in Apps : IsRuntimeCard(a) => app[a] \in CardStatuses \union {Absent}

BenchTodos ==
    /\ CardsTyped
    /\ OfSomeStatus(todos) /\ OfSomeStatus(savedTodos)
    /\ TodosTellStatus

\* The roles that have todos.
TodoRoles == {OPERATER, BUSIAUDIT, MANAGER}

\* What a department's reader may be shown of the row or rows of an identifier: it
\* depends on the reader and the parties only, never on what is written meanwhile.
IdShown(v, id) ==
    \/ \E o \in PartiesOf(id) : Belongs(v, o)
    \/ ViewerOf[v].org # NoOrgCode /\ id \in Apps /\ IsMine(id, v)

RowShown(v, r) == r.face \in Market \union UncutInboxes \/ IdShown(v, r.id)

\* What is left of the rows when the role's faces are cut out.
RowServed(v, r) ==
    \/ r.face \in Market
    \/ r.face \in UncutInboxes /\ ViewerOf[v].role = MANAGER
    \/ IdShown(v, r.id)

LateFaces == {"approvals", "delivery_tasks"}

\* What each step of a read has gathered.
TodosGathered(v, p) ==
    p.step = "todos" => \A t \in p.todos : t.role = ViewerOf[v].role /\ t.role \in TodoRoles

RequestsGathered(v, p) ==
    (p.step = "requests" /\ ViewerOf[v].role \notin GlobalRoles)
        => \A r \in p.rows : RowShown(v, r) /\ r.face \notin LateFaces

PageShown(v, p) ==
    (p.step \in {"workbench", "snapshot"} /\ ViewerOf[v].role \notin GlobalRoles)
        => \A r \in p.rows : RowServed(v, r)

CardsBehind(v, p) ==
    (p.step = "snapshot" /\ ViewerOf[v].role \notin GlobalRoles)
        => \A r \in p.rows : r.face \in LateFaces => r.id \in RequestsIn(p.rows)

PageOK(v, p) ==
    /\ TodosGathered(v, p) /\ RequestsGathered(v, p)
    /\ PageShown(v, p) /\ CardsBehind(v, p)

\* A read is a record: which step, the todos copied and the rows gathered.
PageTyped == page = [v \in Viewers |-> page[v]]

BenchPages == PageTyped /\ \A v \in Viewers : PageOK(v, page[v])

BenchInv == BenchTodos /\ BenchPages

-----------------------------------------------------------------------------
(* The todos                                                               *)

\* The role a todo is for follows from its category.
RoleOfCategory(c) ==
    CASE c = "accept" -> BUSIAUDIT
      [] c \in {"review", "summary"} -> MANAGER
      [] OTHER -> OPERATER

TodoCategories == {"apply-progress", "accept", "review", "supplement-township",
                   "supplement-village", "summary"}

LEMMA TodoShape ==
    ASSUME NEW a, NEW s, NEW t \in TodosOf(a, s)
    PROVE  /\ t.id = a /\ t.category \in TodoCategories
           /\ t.role = RoleOfCategory(t.category) /\ t.role \in TodoRoles
BY DEF TodosOf, Todo, RoleOfCategory, TodoCategories, TodoRoles, OPERATER, BUSIAUDIT, MANAGER

LEMMA ProgressTodo ==
    ASSUME NEW a, NEW s
    PROVE  \E t \in TodosOf(a, s) : t.id = a /\ t.category = "apply-progress"
<1> DEFINE p == Todo(OPERATER, a, "apply-progress", status_text(s), "none")
<1>1. p \in TodosOf(a, s)
  BY DEF TodosOf
<1>2. p.id = a /\ p.category = "apply-progress"
  BY DEF Todo
<1> QED BY <1>1, <1>2

\* The todos are recomputed exactly: whatever statuses the cards have been through,
\* upsert_todo and remove_todo leave those of the present ones and no others.
LEMMA SyncExact ==
    ASSUME NEW ts, OfSomeStatus(ts)
    PROVE  sync_request_todos(ts, app) = WantedTodos
<1> DEFINE Leftover(t) ==
        /\ ~\E u \in WantedTodos : SameTodo(t, u)
        /\ ~(t.id \in PresentCards /\ t.category \in RemovedCategories(t.id, app[t.id]))
<1>1. ASSUME NEW t \in ts PROVE ~Leftover(t)
  <2>1. PICK a \in PresentCards, s \in CardStatuses : t \in TodosOf(a, s)
    BY DEF OfSomeStatus
  <2>2. t.id = a /\ t.category \in TodoCategories /\ t.role = RoleOfCategory(t.category)
    BY <2>1, TodoShape
  <2>3. \A u \in TodosOf(a, app[a]) :
            u \in WantedTodos /\ u.id = a /\ u.role = RoleOfCategory(u.category)
    BY <2>1, TodoShape DEF WantedTodos
  <2>4. CASE \E u \in TodosOf(a, app[a]) : u.category = t.category
    BY <2>2, <2>3, <2>4 DEF SameTodo
  <2>5. CASE ~\E u \in TodosOf(a, app[a]) : u.category = t.category
    <3>1. t.category # "apply-progress"
      BY <2>5, ProgressTodo
    <3>2. t.category \in RemovedCategories(a, app[a])
      BY <2>2, <2>5, <3>1 DEF RemovedCategories, TodoCategories
    <3> QED BY <2>1, <2>2, <3>2
  <2> QED BY <2>4, <2>5
<1>2. sync_request_todos(ts, app) = WantedTodos \union {t \in ts : Leftover(t)}
  BY DEF sync_request_todos, WantedTodos, PresentCards
<1> QED BY <1>1, <1>2

\* Todos of the present statuses are todos of some status.
LEMMA WantedOfStatus ==
    ASSUME CardsTyped
    PROVE  OfSomeStatus(WantedTodos)
BY DEF OfSomeStatus, WantedTodos, CardsTyped, PresentCards

-----------------------------------------------------------------------------
(* The pages                                                               *)

\* A department's scope: what is in it belongs to the reader; without an
\* organisation the scope is empty.
LEMMA ScopeBelongs ==
    ASSUME NEW v, ViewerOf[v].role \notin GlobalRoles
    PROVE  /\ ~visible_org_codes(v).all
           /\ \A o : org_in_scope(o, visible_org_codes(v)) => Belongs(v, o)
           /\ ~FailClosed(visible_org_codes(v)) => ViewerOf[v].org # NoOrgCode
<1>1. ~visible_org_codes(v).all
  BY DEF visible_org_codes
<1>2. visible_org_codes(v).codes =
          IF ViewerOf[v].org = NoOrgCode THEN {}
          ELSE {ViewerOf[v].org} \union
               (IF ViewerOf[v].role = MANAGER THEN Subtree(ViewerOf[v].org) ELSE {})
  BY DEF visible_org_codes
<1>3. ASSUME NEW o, org_in_scope(o, visible_org_codes(v))
      PROVE  Belongs(v, o)
  <2>1. PICK code \in {o, resolve_org_code(o)} :
            code # NoOrgCode /\ code \in visible_org_codes(v).codes
    BY <1>1, <1>3 DEF org_in_scope
  <2>2. ViewerOf[v].org # NoOrgCode
    BY <1>2, <2>1
  <2>3. code = ViewerOf[v].org \/ (ViewerOf[v].role = MANAGER /\ code \in Subtree(ViewerOf[v].org))
    BY <1>2, <2>1, <2>2
  <2> QED BY <2>1, <2>2, <2>3 DEF Belongs
<1>4. ~FailClosed(visible_org_codes(v)) => ViewerOf[v].org # NoOrgCode
  BY <1>1, <1>2 DEF FailClosed
<1> QED BY <1>1, <1>3, <1>4

\* The rows of one face are those of its identifiers.
LEMMA RowsShape ==
    ASSUME NEW face, NEW ids, NEW offer, NEW r \in RowsOf(face, ids, offer)
    PROVE  r.face = face /\ r.id \in ids
BY DEF RowsOf, Row

\* Who is a party to what.
LEMMA Parties ==
    /\ \A a \in Apps : AppOf[a].applicantOrg \in PartiesOf(a) /\ AppOf[a].provider \in PartiesOf(a)
    /\ \A e \in Entries : EntryOf[e].owner \in PartiesOf(e)
    /\ \A x \in Assets : AssetOf[x].owner \in PartiesOf(x)
    /\ \A c \in BenchCases : CaseOf[c].complainant \in PartiesOf(c) /\ CaseOf[c].provider \in PartiesOf(c)
BY BenchAssumption DEF PartiesOf

\* The applications of a department's todos may be shown.
LEMMA VisibleRequests ==
    ASSUME NEW v, ViewerOf[v].role \notin GlobalRoles, NEW own,
           NEW a \in org_visible_request_ids(v, own)
    PROVE  IdShown(v, a)
<1>1. /\ a \in Apps
      /\ \/ request_party_in_scope(a, visible_org_codes(v))
         \/ ~FailClosed(visible_org_codes(v)) /\ IsMine(a, v)
  BY DEF org_visible_request_ids
<1>2. CASE request_party_in_scope(a, visible_org_codes(v))
  BY <1>1, <1>2, ScopeBelongs, Parties DEF request_party_in_scope, IdShown
<1>3. CASE ~FailClosed(visible_org_codes(v)) /\ IsMine(a, v)
  BY <1>1, <1>3, ScopeBelongs DEF IdShown
<1> QED BY <1>1, <1>2, <1>3

\* workbench.view: the aggregates of a manager are within the scope, and of the
\* todos only those of visible applications remain.
LEMMA BacklogShown ==
    ASSUME NEW v, ViewerOf[v].role \notin GlobalRoles, NEW ts,
           \A t \in ts : t.role = ViewerOf[v].role /\ t.role \in TodoRoles,
           NEW r \in BacklogPage(v, ts)
    PROVE  RowServed(v, r)
<1> DEFINE scope == visible_org_codes(v)
<1> SUFFICES IdShown(v, r.id)
  BY DEF RowServed
<1>1. \A o : org_in_scope(o, scope) => Belongs(v, o)
  BY ScopeBelongs
<1>2. ASSUME NEW e \in Entries, org_in_scope(EntryOf[e].owner, scope)
      PROVE  IdShown(v, e)
  BY <1>1, <1>2, Parties DEF IdShown
<1>3. ASSUME NEW x \in Assets, org_in_scope(AssetOf[x].owner, scope)
      PROVE  IdShown(v, x)
  BY <1>1, <1>3, Parties DEF IdShown
<1>4. CASE ViewerOf[v].role = MANAGER
  <2> DEFINE seen == drop_unscoped_request_todos(ts, org_visible_request_ids(v, FALSE))
  <2>1. r \in ManagerRows(scope) \/ r \in TodoRows(seen)
    <3>1. BacklogPage(v, ts) = ManagerRows(scope) \union TodoRows(seen)
      BY <1>4, Zenon DEF BacklogPage, MANAGER, OPERATER, SECURITY_AUDIT, BUSIAUDIT
    <3> QED BY <3>1
  <2>2. CASE r \in TodoRows(seen)
    <3> DEFINE ids == org_visible_request_ids(v, FALSE)
    <3> HIDE DEF ids
    <3>1. r \in {Row(t.category, t.id, t.offer) : t \in {u \in ts : u.id \in ids}}
      BY <2>2 DEF TodoRows, drop_unscoped_request_todos, ids
    <3>2. r.id \in ids
      BY <3>1 DEF Row
    <3> QED BY <3>2, VisibleRequests DEF ids
  <2> HIDE DEF scope
  <2>3. ASSUME r \in ManagerRows(scope)
        PROVE  \/ r.id \in Entries /\ org_in_scope(EntryOf[r.id].owner, scope)
               \/ r.id \in Assets /\ org_in_scope(AssetOf[r.id].owner, scope)
    <3>1. CASE r \in RowsOf("catalog-dept-review",
                   {e \in EntriesAt("pending_review") : org_in_scope(EntryOf[e].owner, scope)},
                   "catalog.entry.review")
      BY <3>1, RowsShape DEF EntriesAt
    <3>2. CASE r \in RowsOf("reverse-draft-review", ReverseDrafts(scope),
                            "catalog.entry.reverse_draft.confirm")
      BY <3>2, RowsShape DEF ReverseDrafts, EntriesAt
    <3>3. CASE r \in RowsOf("hookup-review", list_assets_pending_review(scope, FALSE),
                            "resource.asset.review")
      BY <3>3, RowsShape DEF list_assets_pending_review, AssetsAt
    <3>4. CASE r \in RowsOf("api-review", list_assets_pending_review(scope, TRUE), "none")
      BY <3>4, RowsShape DEF list_assets_pending_review, AssetsAt
    <3> QED BY <2>3, <3>1, <3>2, <3>3, <3>4 DEF ManagerRows
  <2> QED BY <1>2, <1>3, <2>1, <2>2, <2>3
<1>5. CASE ViewerOf[v].role = OPERATER
  <2> DEFINE seen == drop_unscoped_request_todos(ts, org_visible_request_ids(v, TRUE))
  <2>1. r \in operator_aggregate_todos(seen)
    <3>1. BacklogPage(v, ts) = operator_aggregate_todos(seen)
      BY <1>5, Zenon DEF BacklogPage, MANAGER, OPERATER, SECURITY_AUDIT, BUSIAUDIT
    <3> QED BY <3>1
  <2>2. \E t \in seen : r.id = t.id
    <3> HIDE DEF seen
    <3> QED BY <2>1, RowsShape DEF operator_aggregate_todos
  <2>3. r.id \in org_visible_request_ids(v, TRUE)
    BY <2>2 DEF drop_unscoped_request_todos
  <2> QED BY <2>3, VisibleRequests
<1>6. CASE ViewerOf[v].role \notin {MANAGER, OPERATER}
  <2>1. ts = {}
    BY <1>6 DEF TodoRoles, GlobalRoles
  <2>2. BacklogPage(v, ts) = TodoRows(ts)
    BY <1>6 DEF BacklogPage, GlobalRoles
  <2> QED BY <2>1, <2>2 DEF TodoRows
<1> QED BY <1>4, <1>5, <1>6

\* system.snapshot, its first queries.
LEMMA FirstRowsShown ==
    ASSUME NEW v, ViewerOf[v].role \notin GlobalRoles, NEW r \in FirstRows(v)
    PROVE  RowShown(v, r) /\ r.face \notin LateFaces
<1> DEFINE scope == visible_org_codes(v)
<1>1. \A o : org_in_scope(o, scope) => Belongs(v, o)
  BY ScopeBelongs
<1>2. ~FailClosed(scope) => ViewerOf[v].org # NoOrgCode
  BY ScopeBelongs
<1> HIDE DEF scope
<1>3. \/ r \in project_provider_inbox(scope) \/ r \in project_api_services(scope)
      \/ r \in project_provider_catalogs(scope) \/ r \in project_provider_resources(scope)
      \/ r \in enrich_disputes_snapshot(scope) \/ r \in enrich_requests_snapshot(v, scope)
  BY DEF FirstRows, scope
<1>4. ASSUME r \in project_provider_inbox(scope)
      PROVE  RowShown(v, r) /\ r.face \notin LateFaces
  <2>1. CASE r \in FieldDecisions(scope)
    <3>1. r.face = "field_decisions" /\ r.id \in ReverseDrafts(scope)
      BY <2>1, RowsShape DEF FieldDecisions
    <3> QED BY <1>1, <3>1, Parties DEF ReverseDrafts, EntriesAt, RowShown, IdShown, LateFaces
  <2>2. CASE r \in HookupReviews(scope)
    <3>1. r.face = "hookup_reviews" /\ r.id \in list_assets_pending_review(scope, FALSE)
      BY <2>2, RowsShape DEF HookupReviews
    <3> QED BY <1>1, <3>1, Parties
            DEF list_assets_pending_review, AssetsAt, RowShown, IdShown, LateFaces
  <2>3. CASE \/ r \in DemandMatches \/ r \in ObjectionInbox
             \/ r \in RowsOf("publish_queue", EntriesAt("approved_pending_publish"), "none")
    BY <2>3, RowsShape DEF DemandMatches, ObjectionInbox, RowShown, UncutInboxes, LateFaces
  <2> QED BY <1>4, <2>1, <2>2, <2>3 DEF project_provider_inbox
<1>5. ASSUME r \in project_api_services(scope)
      PROVE  RowShown(v, r) /\ r.face \notin LateFaces
  <2>1. r.face = "services" /\ r.id \in Assets /\ org_in_scope(AssetOf[r.id].owner, scope)
    BY <1>5, RowsShape DEF project_api_services
  <2> QED BY <1>1, <2>1, Parties DEF RowShown, IdShown, LateFaces
<1>6. ASSUME r \in project_provider_catalogs(scope)
      PROVE  RowShown(v, r) /\ r.face \notin LateFaces
  <2>1. r.face = "catalogs" /\ r.id \in Entries /\ org_in_scope(EntryOf[r.id].owner, scope)
    BY <1>6, RowsShape DEF project_provider_catalogs
  <2> QED BY <1>1, <2>1, Parties DEF RowShown, IdShown, LateFaces
<1>7. ASSUME r \in project_provider_resources(scope)
      PROVE  RowShown(v, r) /\ r.face \notin LateFaces
  <2>1. r.face = "resources" /\ r.id \in Assets /\ org_in_scope(AssetOf[r.id].owner, scope)
    BY <1>7, RowsShape DEF project_provider_resources
  <2> QED BY <1>1, <2>1, Parties DEF RowShown, IdShown, LateFaces
<1>8. ASSUME r \in enrich_disputes_snapshot(scope)
      PROVE  RowShown(v, r) /\ r.face \notin LateFaces
  <2>1. /\ r.face = "disputes" /\ r.id \in BenchCases
        /\ \/ org_in_scope(CaseOf[r.id].complainant, scope)
           \/ org_in_scope(CaseOf[r.id].provider, scope)
    BY <1>8, RowsShape DEF enrich_disputes_snapshot
  <2> QED BY <1>1, <2>1, Parties DEF RowShown, IdShown, LateFaces
<1>9. ASSUME r \in enrich_requests_snapshot(v, scope)
      PROVE  RowShown(v, r) /\ r.face \notin LateFaces
  <2>1. /\ r.face = "requests" /\ r.id \in Apps
        /\ \/ request_party_in_scope(r.id, scope)
           \/ ~FailClosed(scope) /\ IsMine(r.id, v)
    BY <1>9, RowsShape DEF enrich_requests_snapshot
  <2>2. CASE request_party_in_scope(r.id, scope)
    BY <1>1, <2>1, <2>2, Parties DEF request_party_in_scope, RowShown, IdShown, LateFaces
  <2>3. CASE ~FailClosed(scope) /\ IsMine(r.id, v)
    BY <1>2, <2>1, <2>3 DEF RowShown, IdShown, LateFaces
  <2> QED BY <2>1, <2>2, <2>3
<1> QED BY <1>3, <1>4, <1>5, <1>6, <1>7, <1>8, <1>9

\* Its last queries: an approval or a delivery task comes with the request card of
\* its application, whatever was written since the cards were read.
LEMMA LastRowsShown ==
    ASSUME NEW v, ViewerOf[v].role \notin GlobalRoles, NEW rows,
           \A q \in rows : RowShown(v, q) /\ q.face \notin LateFaces,
           NEW r \in LastRows(v, rows)
    PROVE  /\ RowServed(v, r)
           /\ r.face \in LateFaces => r.id \in RequestsIn(LastRows(v, rows))
<1> DEFINE scope == visible_org_codes(v)
           role == ViewerOf[v].role
<1>1. ~scope.all
  BY ScopeBelongs
<1> HIDE DEF scope
<1>2. /\ r.face \notin RedactedFaces(role)
      /\ \/ r \in rows \/ r \in enrich_approvals_snapshot(scope, rows)
         \/ r \in enrich_delivery_tasks_snapshot(scope, rows) \/ r \in project_resource_cards
  BY DEF LastRows, redact_webui_snapshot, scope
<1>3. \A id \in RequestsIn(rows) : IdShown(v, id)
  BY DEF RequestsIn, RowShown, Market, UncutInboxes
<1>4. ASSUME r.id \in RequestsIn(rows), r.face \in LateFaces
      PROVE  r.id \in RequestsIn(LastRows(v, rows))
  <2>1. PICK q \in rows : q.face = "requests" /\ q.id = r.id
    BY <1>4 DEF RequestsIn
  <2>2. "requests" \notin RedactedFaces(role)
    BY <1>2, <1>4 DEF RedactedFaces, LateFaces
  <2>3. q \in LastRows(v, rows)
    BY <2>1, <2>2 DEF LastRows, redact_webui_snapshot
  <2> QED BY <2>1, <2>3 DEF RequestsIn
<1>5. ASSUME r \in rows
      PROVE  RowShown(v, r) /\ (r.face \in LateFaces => r.id \in RequestsIn(LastRows(v, rows)))
  BY <1>5
<1>6. ASSUME r \in enrich_approvals_snapshot(scope, rows)
      PROVE  RowShown(v, r) /\ (r.face \in LateFaces => r.id \in RequestsIn(LastRows(v, rows)))
  <2>1. r.face = "approvals" /\ r.id \in RequestsIn(rows)
    BY <1>1, <1>6, RowsShape DEF enrich_approvals_snapshot
  <2> QED BY <1>3, <1>4, <2>1 DEF RowShown, LateFaces
<1>7. ASSUME r \in enrich_delivery_tasks_snapshot(scope, rows)
      PROVE  RowShown(v, r) /\ (r.face \in LateFaces => r.id \in RequestsIn(LastRows(v, rows)))
  <2>1. r.face = "delivery_tasks" /\ r.id \in RequestsIn(rows)
    BY <1>1, <1>7, RowsShape DEF enrich_delivery_tasks_snapshot
  <2> QED BY <1>3, <1>4, <2>1 DEF RowShown, LateFaces
<1>8. ASSUME r \in project_resource_cards
      PROVE  RowShown(v, r) /\ (r.face \in LateFaces => r.id \in RequestsIn(LastRows(v, rows)))
  BY <1>8, RowsShape DEF project_resource_cards, RowShown, Market, UncutInboxes, LateFaces
<1>9. RowShown(v, r) /\ (r.face \in LateFaces => r.id \in RequestsIn(LastRows(v, rows)))
  BY <1>2, <1>5, <1>6, <1>7, <1>8
<1>10. r.face \in UncutInboxes => role = MANAGER
  <2>1. role # BUSIAUDIT
    BY DEF GlobalRoles
  <2> QED BY <1>2, <2>1 DEF RedactedFaces, UncutInboxes
<1> QED BY <1>9, <1>10 DEF RowShown, RowServed

-----------------------------------------------------------------------------
(* The invariant holds and says what the runs check                        *)

LEMMA BenchInitInv == BenchInit => BenchInv
<1> SUFFICES ASSUME BenchInit PROVE BenchInv
  OBVIOUS
<1> USE DEF BenchInit
<1>1. CardsTyped
  BY DEF CardsTyped
<1>2. OfSomeStatus(todos) /\ OfSomeStatus(savedTodos)
  BY DEF OfSomeStatus
<1>3. TodosTellStatus
  BY DEF TodosTellStatus
<1>4. PageTyped
  BY DEF PageTyped
<1>5. ASSUME NEW v \in Viewers PROVE PageOK(v, page[v])
  <2>1. page[v].step = "none"
    BY DEF NoPage
  <2> QED BY <2>1 DEF PageOK, TodosGathered, RequestsGathered, PageShown, CardsBehind
<1> QED BY <1>1, <1>2, <1>3, <1>4, <1>5 DEF BenchInv, BenchTodos, BenchPages

\* A step that leaves the applications and the todos alone.
LEMMA TodosStay ==
    ASSUME BenchTodos, UNCHANGED <<app, todos, savedTodos>>, fresh' = fresh
    PROVE  BenchTodos'
BY DEF BenchTodos, CardsTyped, OfSomeStatus, PresentCards, TodosTellStatus

\* A step that leaves the reads alone.
LEMMA PagesStay ==
    ASSUME BenchPages, page' = page
    PROVE  BenchPages'
BY DEF BenchPages, PageTyped

\* A step that moves one read.
LEMMA PageMoves ==
    ASSUME BenchPages, NEW v \in Viewers, NEW p,
           page' = [page EXCEPT ![v] = p], PageOK(v, p)
    PROVE  BenchPages'
<1>1. \A w \in Viewers : page'[w] = IF w = v THEN p ELSE page[w]
  BY DEF BenchPages, PageTyped
<1>2. PageTyped'
  BY DEF BenchPages, PageTyped
<1>3. \A w \in Viewers : PageOK(w, page'[w])
  BY <1>1 DEF BenchPages
<1> QED BY <1>2, <1>3 DEF BenchPages

\* A card moved by its skill stays a card of the table.
LEMMA CardMoves ==
    ASSUME BenchTodos, NEW a \in Apps, IsRuntimeCard(a), NEW s \in CardStatuses,
           app' = [app EXCEPT ![a] = s], UNCHANGED <<todos, savedTodos>>, fresh' = FALSE
    PROVE  BenchTodos'
<1>1. CardsTyped'
  BY DEF BenchTodos, CardsTyped
<1>2. PresentCards \subseteq PresentCards'
  BY DEF BenchTodos, CardsTyped, PresentCards, CardStatuses, Absent
<1>3. OfSomeStatus(todos)' /\ OfSomeStatus(savedTodos)'
  BY <1>2 DEF BenchTodos, OfSomeStatus
<1> QED BY <1>1, <1>3 DEF BenchTodos, TodosTellStatus

\* The importer touches no card of the table.
LEMMA ImportedMoves ==
    ASSUME BenchTodos, NEW a \in Apps, ~IsRuntimeCard(a), NEW s \in ImportedStatuses,
           app' = [app EXCEPT ![a] = s], UNCHANGED <<todos, savedTodos>>, fresh' = fresh
    PROVE  BenchTodos'
<1>1. CardsTyped'
  BY DEF BenchTodos, CardsTyped
<1>2. PresentCards' = PresentCards /\ \A b \in PresentCards : app'[b] = app[b]
  BY DEF BenchTodos, CardsTyped, PresentCards
<1>3. OfSomeStatus(todos)' /\ OfSomeStatus(savedTodos)'
  BY <1>2 DEF BenchTodos, OfSomeStatus
<1>4. UNION {TodosOf(b, app'[b]) : b \in PresentCards'} =
      UNION {TodosOf(b, app[b]) : b \in PresentCards}
  BY <1>2
<1>5. TodosTellStatus'
  BY <1>4 DEF BenchTodos, TodosTellStatus, PresentCards
<1> QED BY <1>1, <1>3, <1>5 DEF BenchTodos

\* Todos computed anew, from those in memory or from the saved ones.
LEMMA TodosAnew ==
    ASSUME BenchTodos, NEW ts, OfSomeStatus(ts), app' = app,
           todos' = sync_request_todos(ts, app),
           savedTodos' = savedTodos \/ savedTodos' = todos'
    PROVE  BenchTodos'
<1>1. todos' = WantedTodos
  BY SyncExact
<1>2. CardsTyped' /\ PresentCards' = PresentCards
  BY DEF BenchTodos, CardsTyped, PresentCards
<1>3. OfSomeStatus(WantedTodos) /\ OfSomeStatus(savedTodos)
  BY WantedOfStatus DEF BenchTodos
<1>4. OfSomeStatus(todos)' /\ OfSomeStatus(savedTodos)'
  BY <1>1, <1>2, <1>3 DEF OfSomeStatus
<1>5. TodosTellStatus'
  BY <1>1 DEF TodosTellStatus, WantedTodos, PresentCards
<1> QED BY <1>2, <1>4, <1>5 DEF BenchTodos

LEMMA BenchStep == BenchInv /\ [BenchNext]_benchVars => BenchInv'
<1> SUFFICES ASSUME BenchInv, [BenchNext]_benchVars PROVE BenchInv'
  OBVIOUS
<1>0. BenchTodos /\ BenchPages
  BY DEF BenchInv
<1>1. ASSUME NEW v \in Viewers, OpenWorkbench(v) PROVE BenchInv'
  <2> DEFINE p == [step |-> "todos", rows |-> {},
                   todos |-> {t \in todos : t.role = ViewerOf[v].role}]
  <2>1. \A t \in todos : t.role \in TodoRoles
    BY <1>0, TodoShape DEF BenchTodos, OfSomeStatus
  <2>2. PageOK(v, p)
    BY <2>1 DEF PageOK, TodosGathered, RequestsGathered, PageShown, CardsBehind
  <2>3. page' = [page EXCEPT ![v] = p] /\ UNCHANGED <<app, todos, savedTodos>> /\ fresh' = fresh
    BY <1>1 DEF OpenWorkbench
  <2> QED BY <1>0, <2>2, <2>3, TodosStay, PageMoves DEF BenchInv
<1>2. ASSUME NEW v \in Viewers, ShowWorkbench(v) PROVE BenchInv'
  <2> DEFINE rs == BacklogPage(v, page[v].todos)
             p == [step |-> "workbench", todos |-> {}, rows |-> rs]
  <2>1. \A t \in page[v].todos : t.role = ViewerOf[v].role /\ t.role \in TodoRoles
    BY <1>0, <1>2 DEF ShowWorkbench, BenchPages, PageOK, TodosGathered
  <2>2. ViewerOf[v].role \notin GlobalRoles => \A r \in rs : RowServed(v, r)
    BY <2>1, BacklogShown
  <2>3. page' = [page EXCEPT ![v] = p] /\ UNCHANGED <<app, todos, savedTodos>> /\ fresh' = fresh
    BY <1>2 DEF ShowWorkbench
  <2> HIDE DEF rs
  <2>4. PageOK(v, p)
    BY <2>2 DEF PageOK, TodosGathered, RequestsGathered, PageShown, CardsBehind
  <2> QED BY <1>0, <2>3, <2>4, TodosStay, PageMoves DEF BenchInv
<1>3. ASSUME NEW v \in Viewers, OpenSnapshot(v) PROVE BenchInv'
  <2> DEFINE rs == FirstRows(v)
             p == [step |-> "requests", todos |-> {}, rows |-> rs]
  <2>1. ViewerOf[v].role \notin GlobalRoles
            => \A r \in rs : RowShown(v, r) /\ r.face \notin LateFaces
    BY FirstRowsShown
  <2>2. page' = [page EXCEPT ![v] = p] /\ UNCHANGED <<app, todos, savedTodos>> /\ fresh' = fresh
    BY <1>3 DEF OpenSnapshot
  <2> HIDE DEF rs
  <2>3. PageOK(v, p)
    BY <2>1 DEF PageOK, TodosGathered, RequestsGathered, PageShown, CardsBehind
  <2> QED BY <1>0, <2>2, <2>3, TodosStay, PageMoves DEF BenchInv
<1>4. ASSUME NEW v \in Viewers, ShowSnapshot(v) PROVE BenchInv'
  <2> DEFINE rs == LastRows(v, page[v].rows)
             p == [step |-> "snapshot", todos |-> {}, rows |-> rs]
  <2>1. ViewerOf[v].role \notin GlobalRoles
            => \A r \in page[v].rows : RowShown(v, r) /\ r.face \notin LateFaces
    BY <1>0, <1>4 DEF ShowSnapshot, BenchPages, PageOK, RequestsGathered
  <2>2. ViewerOf[v].role \notin GlobalRoles
            => \A r \in rs : RowServed(v, r) /\ (r.face \in LateFaces => r.id \in RequestsIn(rs))
    BY <2>1, LastRowsShown
  <2>3. page' = [page EXCEPT ![v] = p] /\ UNCHANGED <<app, todos, savedTodos>> /\ fresh' = fresh
    BY <1>4 DEF ShowSnapshot
  <2> HIDE DEF rs
  <2>4. PageOK(v, p)
    BY <2>2 DEF PageOK, TodosGathered, RequestsGathered, PageShown, CardsBehind
  <2> QED BY <1>0, <2>3, <2>4, TodosStay, PageMoves DEF BenchInv
<1>5. ASSUME NEW a \in Apps, NEW s \in CardStatuses, MoveCard(a, s) PROVE BenchInv'
  <2>1. /\ IsRuntimeCard(a) /\ app' = [app EXCEPT ![a] = s]
        /\ UNCHANGED <<todos, savedTodos>> /\ fresh' = FALSE /\ page' = page
    BY <1>5 DEF MoveCard
  <2> QED BY <1>0, <2>1, CardMoves, PagesStay DEF BenchInv
<1>6. ASSUME NEW a \in Apps, NEW s \in ImportedStatuses, ImportApplication(a, s)
      PROVE  BenchInv'
  <2>1. /\ ~IsRuntimeCard(a) /\ app' = [app EXCEPT ![a] = s]
        /\ UNCHANGED <<todos, savedTodos>> /\ fresh' = fresh /\ page' = page
    BY <1>6 DEF ImportApplication
  <2> QED BY <1>0, <2>1, ImportedMoves, PagesStay DEF BenchInv
<1>7. CASE SyncStateViews
  <2>1. /\ todos' = sync_request_todos(todos, app) /\ app' = app
        /\ savedTodos' = savedTodos /\ page' = page
    BY <1>7 DEF SyncStateViews
  <2>2. BenchTodos'
    BY <1>0, <2>1, TodosAnew DEF BenchTodos
  <2> QED BY <1>0, <2>1, <2>2, PagesStay DEF BenchInv
<1>8. CASE SaveSnapshot
  <2>1. UNCHANGED <<app, todos, fresh, page>> /\ savedTodos' = todos
    BY <1>8 DEF SaveSnapshot
  <2>2. BenchTodos'
    BY <1>0, <2>1 DEF BenchTodos, CardsTyped, OfSomeStatus, PresentCards, TodosTellStatus
  <2> QED BY <1>0, <2>1, <2>2, PagesStay DEF BenchInv
<1>9. CASE RestartBrain
  <2>1. /\ todos' = sync_request_todos(savedTodos, app) /\ app' = app /\ savedTodos' = todos'
        /\ page' = [v \in Viewers |-> NoPage]
    BY <1>9 DEF RestartBrain
  <2>2. BenchTodos'
    BY <1>0, <2>1, TodosAnew DEF BenchTodos
  <2>3. \A v \in Viewers : PageOK(v, NoPage)
    BY DEF PageOK, TodosGathered, RequestsGathered, PageShown, CardsBehind, NoPage
  <2>4. BenchPages'
    BY <2>1, <2>3 DEF BenchPages, PageTyped
  <2> QED BY <2>2, <2>4 DEF BenchInv
<1>10. ASSUME UNCHANGED <<app, todos, savedTodos, page>>, fresh' = fresh PROVE BenchInv'
  BY <1>0, <1>10, TodosStay, PagesStay DEF BenchInv
<1>11. ASSUME NEW x, NEW st, MoveStage(x, st) PROVE BenchInv'
  BY <1>10, <1>11 DEF MoveStage
<1>12. ASSUME NEW c, EscalateCase(c) PROVE BenchInv'
  BY <1>10, <1>12 DEF EscalateCase
<1>13. ASSUME NEW d, register_demand(d) PROVE BenchInv'
  BY <1>10, <1>13 DEF register_demand
<1>14. ASSUME NEW d, NEW next, advance_phase(d, next) PROVE BenchInv'
  BY <1>10, <1>14 DEF advance_phase
<1>15. CASE WriteFails
  BY <1>10, <1>15 DEF WriteFails
<1>16. CASE UNCHANGED benchVars
  BY <1>10, <1>16 DEF benchVars
<1> QED BY <1>1, <1>2, <1>3, <1>4, <1>5, <1>6, <1>7, <1>8, <1>9, <1>11, <1>12, <1>13, <1>14,
           <1>15, <1>16 DEF BenchNext

THEOREM BenchInvariance == BenchSpec => []BenchInv
BY BenchInitInv, BenchStep, PTL DEF BenchSpec

\* Once the todos have been computed, every card has exactly the todos of its status,
\* for any applications, after any failed writes and restarts (sync_request_todos).
THEOREM TodosAreCurrent == BenchSpec => []TodosTellStatus
<1>1. BenchInv => TodosTellStatus
  BY DEF BenchInv, BenchTodos
<1> QED BY <1>1, BenchInvariance, PTL

\* But for the market and a manager's three uncut inboxes, a department's page shows
\* its own rows only, each approval and delivery task with its request card, for any
\* organisations, readers and rows, whatever is written between the queries
\* (org_in_scope, enrich_approvals_snapshot).
THEOREM PagesStayInScope == BenchSpec => []PagesInScope
<1>1. BenchInv => DepartmentSeesItsOwn
  <2> SUFFICES ASSUME BenchInv, NEW v \in Viewers,
                      page[v].step \in {"workbench", "snapshot"}, ViewerOf[v].role \notin GlobalRoles,
                      NEW r \in page[v].rows
               PROVE  \/ r.face \in Market
                      \/ r.face \in UncutInboxes /\ ViewerOf[v].role = MANAGER
                      \/ \E o \in PartiesOf(r.id) : Belongs(v, o)
                      \/ /\ ViewerOf[v].org # NoOrgCode
                         /\ r.id \in Apps /\ IsMine(r.id, v)
    BY DEF DepartmentSeesItsOwn
  <2>1. RowServed(v, r)
    BY DEF BenchInv, BenchPages, PageOK, PageShown
  <2> QED BY <2>1 DEF RowServed, IdShown
<1>2. BenchInv => CardsBehindApprovals
  BY DEF BenchInv, BenchPages, PageOK, CardsBehind, CardsBehindApprovals, LateFaces
<1>3. BenchInv => PagesInScope
  BY <1>1, <1>2 DEF PagesInScope
<1> QED BY <1>3, BenchInvariance, PTL

-----------------------------------------------------------------------------
(* Whoever the progress bar names finds the object                         *)

\* A manager's scope holds all that belongs to the manager.
LEMMA BelongsInScope ==
    ASSUME NEW v, ViewerOf[v].role = MANAGER, NEW o, Belongs(v, o)
    PROVE  org_in_scope(o, visible_org_codes(v))
<1>1. ViewerOf[v].role \notin GlobalRoles
  BY DEF GlobalRoles, MANAGER, BUSIAUDIT, SYSTEM, SECURITY_AUDIT
<1>2. ViewerOf[v].org # NoOrgCode
  BY DEF Belongs
<1>3. visible_org_codes(v).codes = {ViewerOf[v].org} \union Subtree(ViewerOf[v].org)
  BY <1>1, <1>2 DEF visible_org_codes
<1>4. PICK code \in {o, resolve_org_code(o)} :
          code # NoOrgCode /\ (code = ViewerOf[v].org \/ code \in Subtree(ViewerOf[v].org))
  BY DEF Belongs
<1> QED BY <1>3, <1>4 DEF org_in_scope

\* What the pages of a role hold; ts are the todos of the role.
LEMMA ManagerPage ==
    ASSUME NEW v, ViewerOf[v].role = MANAGER, NEW ts
    PROVE  BacklogPage(v, ts) =
           ManagerRows(visible_org_codes(v)) \union
           TodoRows(drop_unscoped_request_todos(ts, org_visible_request_ids(v, FALSE)))
BY Zenon DEF BacklogPage, MANAGER, OPERATER, SECURITY_AUDIT, BUSIAUDIT

LEMMA OperatorPage ==
    ASSUME NEW v, ViewerOf[v].role = OPERATER, NEW ts
    PROVE  BacklogPage(v, ts) =
           operator_aggregate_todos(
               drop_unscoped_request_todos(ts, org_visible_request_ids(v, TRUE)))
BY Zenon DEF BacklogPage, MANAGER, OPERATER, SECURITY_AUDIT, BUSIAUDIT

LEMMA PlatformPage ==
    ASSUME NEW v, ViewerOf[v].role = BUSIAUDIT, NEW ts
    PROVE  BacklogPage(v, ts) = BacklogRows \union TodoRows(ts)
BY Zenon DEF BacklogPage, MANAGER, OPERATER, SECURITY_AUDIT, BUSIAUDIT

\* The faces on which nobody looks for work.
ArchiveFaces == {"catalogs", "resources", "services", "disputes", "requests", "delivery_tasks"}

\* The pages of a viewer, and that x is on them.
DeskOf(v) ==
    BacklogPage(v, {t \in todos : t.role = ViewerOf[v].role}) \union LastRows(v, FirstRows(v))
OnDesk(v, x) == \E r \in DeskOf(v) : r.id = x /\ r.face \notin ArchiveFaces

LEMMA OnPage ==
    ASSUME NEW v, NEW face, NEW ids, NEW offer, NEW x \in ids, face \notin ArchiveFaces,
           RowsOf(face, ids, offer) \subseteq BacklogPage(v, {t \in todos : t.role = ViewerOf[v].role})
    PROVE  OnDesk(v, x)
<1>1. Row(face, x, offer) \in RowsOf(face, ids, offer)
  BY DEF RowsOf
<1>2. Row(face, x, offer).id = x /\ Row(face, x, offer).face = face
  BY DEF Row
<1>3. Row(face, x, offer) \in DeskOf(v)
  BY <1>1 DEF DeskOf
<1> QED BY <1>2, <1>3 DEF OnDesk

\* A card: the todo of its status is on the holder's page.
LEMMA CardOnDesk ==
    ASSUME BenchTodos, fresh, NEW v, NEW a \in Apps, IsRuntimeCard(a), HoldsOn(v, a)
    PROVE  OnDesk(v, a)
<1> DEFINE ts == {t \in todos : t.role = ViewerOf[v].role}
<1>1. Holder(a) = holder_for(a) /\ ViewerOf[v].role = Holder(a)
  BY DEF Holder, HoldsOn
<1>2. Holder(a) \in {BUSIAUDIT, OPERATER, MANAGER}
  BY DEF HoldsOn
<1>3. ASSUME app[a] # Absent PROVE TodosOf(a, app[a]) \subseteq todos
  BY <1>3 DEF BenchTodos, TodosTellStatus
<1> HIDE DEF ts
<1>4. CASE app[a] \in {"submitted", "pending"}
  <2> DEFINE t == Todo(BUSIAUDIT, a, "accept", "other", AcceptOffer(a))
  <2>1. Holder(a) = BUSIAUDIT
    BY <1>1, <1>4 DEF holder_for
  <2>2. t \in TodosOf(a, app[a])
    BY <1>4 DEF TodosOf
  <2>3. t.role = BUSIAUDIT /\ t.id = a /\ t.category = "accept"
    BY DEF Todo
  <2>4. t \in ts
    BY <1>1, <1>3, <1>4, <2>1, <2>2, <2>3 DEF ts, Absent
  <2> HIDE DEF t
  <2>5. Row(t.category, t.id, t.offer) \in BacklogPage(v, ts)
    BY <1>1, <2>1, <2>4, PlatformPage DEF TodoRows
  <2>6. Row(t.category, t.id, t.offer).id = a /\ Row(t.category, t.id, t.offer).face = "accept"
    BY <2>3 DEF Row
  <2> QED BY <2>5, <2>6 DEF OnDesk, DeskOf, ArchiveFaces, ts
<1>5. CASE app[a] = "dept_approved"
  <2> DEFINE t == Todo(MANAGER, a, "review", "other", "application.dept_approve")
             ids == org_visible_request_ids(v, FALSE)
  <2>1. Holder(a) = MANAGER
    BY <1>1, <1>5 DEF holder_for
  <2>2. t \in TodosOf(a, app[a])
    BY <1>5 DEF TodosOf
  <2>3. t.role = MANAGER /\ t.id = a /\ t.category = "review"
    BY DEF Todo
  <2>4. t \in ts
    BY <1>1, <1>3, <1>5, <2>1, <2>2, <2>3 DEF ts, Absent
  <2>5. Belongs(v, AppOf[a].provider)
    BY <2>1 DEF HoldsOn, MANAGER, OPERATER, BUSIAUDIT
  <2>6. request_party_in_scope(a, visible_org_codes(v))
    BY <1>1, <2>1, <2>5, BelongsInScope DEF request_party_in_scope
  <2>7. a \in ids
    BY <1>5, <2>6 DEF org_visible_request_ids, Absent
  <2> HIDE DEF t, ids
  <2>8. t \in drop_unscoped_request_todos(ts, ids)
    BY <2>3, <2>4, <2>7 DEF drop_unscoped_request_todos
  <2>9. Row(t.category, t.id, t.offer) \in TodoRows(drop_unscoped_request_todos(ts, ids))
    BY <2>8 DEF TodoRows
  <2>10. Row(t.category, t.id, t.offer) \in BacklogPage(v, ts)
    BY <1>1, <2>1, <2>9, ManagerPage DEF ids
  <2>11. Row(t.category, t.id, t.offer).id = a /\ Row(t.category, t.id, t.offer).face = "review"
    BY <2>3 DEF Row
  <2> QED BY <2>10, <2>11 DEF OnDesk, DeskOf, ArchiveFaces, ts
<1>6. CASE app[a] = "need-fix"
  <2> DEFINE t == Todo(OPERATER, a, "supplement-township", "other", "none")
             ids == org_visible_request_ids(v, TRUE)
             seen == drop_unscoped_request_todos(ts, ids)
             late == {u.id : u \in {w \in seen : w.category \in
                                       {"supplement-township", "supplement-village"}}}
  <2>1. Holder(a) = OPERATER
    BY <1>1, <1>6 DEF holder_for
  <2>2. t \in TodosOf(a, app[a])
    BY <1>6 DEF TodosOf, SupplementStatuses
  <2>3. t.role = OPERATER /\ t.id = a /\ t.category = "supplement-township"
    BY DEF Todo
  <2>4. t \in ts
    BY <1>1, <1>3, <1>6, <2>1, <2>2, <2>3 DEF ts, Absent
  <2>5. IsMine(a, v) /\ ViewerOf[v].org # NoOrgCode
    BY <2>1 DEF HoldsOn, MANAGER, OPERATER, BUSIAUDIT
  <2>6. ~FailClosed(visible_org_codes(v))
    <3>1. ViewerOf[v].role \notin GlobalRoles
      BY <1>1, <2>1 DEF GlobalRoles, OPERATER, BUSIAUDIT, SYSTEM, SECURITY_AUDIT
    <3>2. ViewerOf[v].org \in visible_org_codes(v).codes
      BY <2>5, <3>1 DEF visible_org_codes
    <3> QED BY <3>2 DEF FailClosed
  <2>7. a \in ids
    BY <1>6, <2>5, <2>6 DEF org_visible_request_ids, Absent
  <2> HIDE DEF t, ids
  <2>8. t \in seen
    BY <2>3, <2>4, <2>7 DEF drop_unscoped_request_todos
  <2> HIDE DEF seen
  <2>9. a \in late
    BY <2>3, <2>8
  <2>10. RowsOf("my-supplement-tasks", late, "none") \subseteq operator_aggregate_todos(seen)
    BY DEF operator_aggregate_todos
  <2>11. BacklogPage(v, ts) = operator_aggregate_todos(seen)
    BY <1>1, <2>1, OperatorPage DEF seen, ids
  <2> HIDE DEF late
  <2>12. RowsOf("my-supplement-tasks", late, "none")
             \subseteq BacklogPage(v, {u \in todos : u.role = ViewerOf[v].role})
    BY <2>10, <2>11 DEF ts
  <2>13. "my-supplement-tasks" \notin ArchiveFaces
    BY DEF ArchiveFaces
  <2> QED BY <2>9, <2>12, <2>13, OnPage
<1>7. CASE app[a] \notin {"submitted", "pending", "dept_approved", "need-fix"}
  BY <1>1, <1>2, <1>7 DEF holder_for, Absent, BUSIAUDIT, OPERATER, MANAGER
<1> QED BY <1>4, <1>5, <1>6, <1>7

\* A catalogue entry: in the list of the manager of its owner, or of the platform.
LEMMA EntryOnDesk ==
    ASSUME NEW v, NEW e \in Entries, stage[e] # "draft", HoldsOn(v, e)
    PROVE  OnDesk(v, e)
<1> DEFINE pg == BacklogPage(v, {t \in todos : t.role = ViewerOf[v].role})
           scope == visible_org_codes(v)
<1>1. e \notin Apps /\ Holder(e) = catalog_lifecycle_timeline(e) /\ ViewerOf[v].role = Holder(e)
  BY BenchAssumption DEF Holder, HoldsOn
<1>2. Holder(e) \in {BUSIAUDIT, OPERATER, MANAGER}
  BY DEF HoldsOn
<1>3. CASE stage[e] = "pending_review"
  <2>1. Holder(e) = MANAGER
    BY <1>1, <1>3 DEF catalog_lifecycle_timeline
  <2>2. Belongs(v, EntryOf[e].owner)
    BY <1>1, <2>1 DEF HoldsOn, MANAGER, OPERATER, BUSIAUDIT
  <2>3. org_in_scope(EntryOf[e].owner, scope)
    BY <1>1, <2>1, <2>2, BelongsInScope
  <2> DEFINE ids == {y \in EntriesAt("pending_review") : org_in_scope(EntryOf[y].owner, scope)}
  <2>4. ManagerRows(scope) \subseteq pg
    BY <1>1, <2>1, ManagerPage
  <2> HIDE DEF scope, pg
  <2>5. e \in ids
    BY <1>3, <2>3 DEF EntriesAt
  <2>6. RowsOf("catalog-dept-review", ids, "catalog.entry.review") \subseteq pg
    BY <2>4 DEF ManagerRows
  <2>7. "catalog-dept-review" \notin ArchiveFaces
    BY DEF ArchiveFaces
  <2> HIDE DEF ids
  <2> QED BY <2>5, <2>6, <2>7, OnPage DEF pg
<1>4. CASE stage[e] \in {"pending_platform_review", "approved_pending_publish"}
  <2>1. Holder(e) = BUSIAUDIT
    BY <1>1, <1>4 DEF catalog_lifecycle_timeline
  <2>2. BacklogRows \subseteq pg
    BY <1>1, <2>1, PlatformPage
  <2> HIDE DEF pg
  <2>3. RowsOf("catalog-platform-review", EntriesAt("pending_platform_review"),
               "catalog.entry.review") \subseteq pg
    BY <2>2 DEF BacklogRows
  <2>4. RowsOf("catalog-publish", EntriesAt("approved_pending_publish"),
               "catalog.entry.publish") \subseteq pg
    BY <2>2 DEF BacklogRows
  <2>5. e \in EntriesAt("pending_platform_review") \/ e \in EntriesAt("approved_pending_publish")
    BY <1>4 DEF EntriesAt
  <2>6. "catalog-platform-review" \notin ArchiveFaces /\ "catalog-publish" \notin ArchiveFaces
    BY DEF ArchiveFaces
  <2> QED BY <2>3, <2>4, <2>5, <2>6, OnPage DEF pg
<1>5. CASE stage[e] \notin {"draft", "pending_review", "pending_platform_review",
                            "approved_pending_publish"}
  BY <1>1, <1>2, <1>5 DEF catalog_lifecycle_timeline, Absent, BUSIAUDIT, OPERATER, MANAGER
<1> QED BY <1>3, <1>4, <1>5

\* A resource: whatever its kind, on one of the two review lists.
LEMMA AssetOnDesk ==
    ASSUME NEW v, NEW x \in Assets, stage[x] # "draft", HoldsOn(v, x)
    PROVE  OnDesk(v, x)
<1> DEFINE pg == BacklogPage(v, {t \in todos : t.role = ViewerOf[v].role})
           scope == visible_org_codes(v)
<1>1. /\ x \notin Apps /\ x \notin Entries
      /\ Holder(x) = resource_lifecycle_timeline(x) /\ ViewerOf[v].role = Holder(x)
  BY BenchAssumption DEF Holder, HoldsOn
<1>2. Holder(x) \in {BUSIAUDIT, OPERATER, MANAGER}
  BY DEF HoldsOn
<1>3. CASE stage[x] = "pending_review"
  <2>1. Holder(x) = MANAGER
    BY <1>1, <1>3 DEF resource_lifecycle_timeline
  <2>2. Belongs(v, AssetOf[x].owner)
    BY <1>1, <2>1 DEF HoldsOn, MANAGER, OPERATER, BUSIAUDIT
  <2>3. org_in_scope(AssetOf[x].owner, scope)
    BY <1>1, <2>1, <2>2, BelongsInScope
  <2>4. ManagerRows(scope) \subseteq pg
    BY <1>1, <2>1, ManagerPage
  <2> HIDE DEF scope, pg
  <2>5. x \in list_assets_pending_review(scope, FALSE) \/ x \in list_assets_pending_review(scope, TRUE)
    BY <1>3, <2>3 DEF list_assets_pending_review, AssetsAt, IsApi
  <2>6. /\ RowsOf("hookup-review", list_assets_pending_review(scope, FALSE),
                  "resource.asset.review") \subseteq pg
        /\ RowsOf("api-review", list_assets_pending_review(scope, TRUE), "none") \subseteq pg
    BY <2>4 DEF ManagerRows
  <2>7. "hookup-review" \notin ArchiveFaces /\ "api-review" \notin ArchiveFaces
    BY DEF ArchiveFaces
  <2> QED BY <2>5, <2>6, <2>7, OnPage DEF pg
<1>4. CASE stage[x] = "approved_pending_publish"
  <2>1. Holder(x) = BUSIAUDIT
    BY <1>1, <1>4 DEF resource_lifecycle_timeline
  <2>2. BacklogRows \subseteq pg
    BY <1>1, <2>1, PlatformPage
  <2> HIDE DEF pg
  <2>3. RowsOf("resource-publish", AssetsAt("approved_pending_publish"),
               "resource.asset.publish") \subseteq pg
    BY <2>2 DEF BacklogRows
  <2>4. x \in AssetsAt("approved_pending_publish")
    BY <1>4 DEF AssetsAt
  <2>5. "resource-publish" \notin ArchiveFaces
    BY DEF ArchiveFaces
  <2> QED BY <2>3, <2>4, <2>5, OnPage DEF pg
<1>5. CASE stage[x] \notin {"draft", "pending_review", "approved_pending_publish"}
  BY <1>1, <1>2, <1>5 DEF resource_lifecycle_timeline, Absent, BUSIAUDIT, OPERATER, MANAGER
<1> QED BY <1>3, <1>4, <1>5

\* An objection case: with the platform before it is accepted, in the inbox of the
\* snapshot while it is investigated.
LEMMA CaseOnDesk ==
    ASSUME NEW v, NEW c \in BenchCases, stage[c] \notin {"draft", "accepted"}, HoldsOn(v, c)
    PROVE  OnDesk(v, c)
<1> DEFINE pg == BacklogPage(v, {t \in todos : t.role = ViewerOf[v].role})
<1>1. /\ c \notin Apps /\ c \notin Entries /\ c \notin Assets
      /\ Holder(c) = objection_timeline(c) /\ ViewerOf[v].role = Holder(c)
  BY BenchAssumption DEF Holder, HoldsOn
<1>2. Holder(c) \in {BUSIAUDIT, OPERATER, MANAGER}
  BY DEF HoldsOn
<1>3. CASE stage[c] = "submitted"
  <2>1. Holder(c) = BUSIAUDIT
    BY <1>1, <1>3 DEF objection_timeline
  <2>2. BacklogRows \subseteq pg
    BY <1>1, <2>1, PlatformPage
  <2> HIDE DEF pg
  <2>3. RowsOf("objection", CasesAt({"submitted"}), "objection.case.accept") \subseteq pg
    BY <2>2 DEF BacklogRows
  <2>4. c \in CasesAt({"submitted"})
    BY <1>3 DEF CasesAt
  <2>5. "objection" \notin ArchiveFaces
    BY DEF ArchiveFaces
  <2> QED BY <2>3, <2>4, <2>5, OnPage DEF pg
<1>4. CASE stage[c] \in {"platform_investigating", "provider_investigating"}
  <2> DEFINE r == Row("objection_cases", c, "none")
  <2>1. ViewerOf[v].role \in {BUSIAUDIT, MANAGER}
    BY <1>1, <1>4 DEF objection_timeline
  <2>2. c \in CasesAt(ObjectionInboxStatuses)
    BY <1>4 DEF CasesAt, ObjectionInboxStatuses
  <2>3. r \in ObjectionInbox
    BY <2>2 DEF ObjectionInbox, RowsOf
  <2>4. r.face = "objection_cases" /\ r.id = c
    BY DEF Row
  <2> HIDE DEF r
  <2>5. r \in FirstRows(v)
    BY <2>3 DEF FirstRows, project_provider_inbox
  <2>6. "objection_cases" \notin RedactedFaces(ViewerOf[v].role)
    BY <2>1 DEF RedactedFaces, BUSIAUDIT, MANAGER, OPERATER
  <2>7. r \in LastRows(v, FirstRows(v))
    BY <2>4, <2>5, <2>6 DEF LastRows, redact_webui_snapshot
  <2> QED BY <2>4, <2>7 DEF OnDesk, DeskOf, ArchiveFaces
<1>5. CASE stage[c] \notin {"submitted", "accepted", "platform_investigating",
                            "provider_investigating"}
  BY <1>1, <1>2, <1>5 DEF objection_timeline, Absent, BUSIAUDIT, OPERATER, MANAGER
<1> QED BY <1>3, <1>4, <1>5

\* Nothing waits unseen: whoever the progress bar names finds the object on the pages,
\* for any applications, entries, resources, cases, organisations and readers
\* (workbench_backlog_projection and provider_snapshot_projection against the bars).
THEOREM HoldersFindIt == BenchSpec => []HolderFindsIt
<1>1. BenchInv => HolderFindsIt
  <2> SUFFICES ASSUME BenchInv, fresh, NEW v \in Viewers,
                      NEW x \in {a \in Apps : IsRuntimeCard(a)}
                                \union {y \in Entries \union Assets \union BenchCases :
                                            stage[y] \notin {"draft", "accepted"}},
                      HoldsOn(v, x)
               PROVE  \E r \in BacklogPage(v, {t \in todos : t.role = ViewerOf[v].role})
                                   \union LastRows(v, FirstRows(v)) :
                          r.id = x /\ r.face \notin {"catalogs", "resources", "services",
                                                     "disputes", "requests", "delivery_tasks"}
    BY DEF HolderFindsIt
  <2> SUFFICES OnDesk(v, x)
    BY DEF OnDesk, DeskOf, ArchiveFaces
  <2>1. CASE x \in Apps /\ IsRuntimeCard(x)
    BY <2>1, CardOnDesk DEF BenchInv
  <2>2. CASE x \in Entries /\ stage[x] # "draft"
    BY <2>2, EntryOnDesk
  <2>3. CASE x \in Assets /\ stage[x] # "draft"
    BY <2>3, AssetOnDesk
  <2>4. CASE x \in BenchCases /\ stage[x] \notin {"draft", "accepted"}
    BY <2>4, CaseOnDesk
  <2> QED BY <2>1, <2>2, <2>3, <2>4
<1> QED BY <1>1, BenchInvariance, PTL

\* What waits for somebody reaches them and nothing else does, for any applications,
\* entries, resources, cases and readers (sync_todos_for_request, _holder_for).
THEOREM WorkArrives == BenchSpec => []WorkReachesHolder
<1>1. TodosTellStatus /\ HolderFindsIt => WorkReachesHolder
  BY DEF WorkReachesHolder
<1> QED BY <1>1, TodosAreCurrent, HoldersFindIt, PTL

=============================================================================
