--------------------------- MODULE RegisterProofs ---------------------------
(***************************************************************************)
(* Machine-checked proofs about the registers beside the applications:     *)
(* ObjectionCases, NationalChannel, ComplianceCases and AuditTrail, each   *)
(* for any records, any threads and any number of faults; and LegacyRows,  *)
(* which fills them, for any dump, any order of its rows and any crashes.  *)
(***************************************************************************)
EXTENDS ObjectionCases, NationalChannel, ComplianceCases, AuditTrail, LegacyRows,
        FiniteSetTheorems, TLAPS


-----------------------------------------------------------------------------
(* Objection cases: the inductive invariant                                *)

\* An accept call between choice and write is on its way to an investigation;
\* where an assignment leads may have been its caller's choice.
AcceptsInvestigate ==
    \A t \in Threads :
        (job[t] # Idle /\ job[t].action = "accept") => job[t].target # "resolved"

IInv == TypeOK /\ AcceptsInvestigate /\ ClosedAfterReview

-----------------------------------------------------------------------------
\* What both tables agree on: they lead to statuses, nowhere from an end, to
\* "closed" only from "resolved", and nowhere from a case that does not exist.
LEMMA TablesAgree ==
    ASSUME TypeOK, NEW c \in Cases
    PROVE  /\ Allowed(c) \subseteq Statuses \ {"none"}
           /\ status[c] \in {"none", "rejected", "closed"} => Allowed(c) = {}
           /\ "closed" \in Allowed(c) => status[c] = "resolved"
<1>1. status[c] \in Statuses
  BY DEF TypeOK
<1>2. CASE DimensionOf(c) = "generic"
  BY <1>1, <1>2 DEF Allowed, GenericTransitions, Statuses
<1>3. CASE DimensionOf(c) # "generic"
  BY <1>1, <1>3 DEF Allowed, SharedTransitions, Statuses
<1>. QED  BY <1>2, <1>3

\* What accept, and assign when no target is named, choose.
LEMMA TargetsInvestigate ==
    ASSUME NEW c \in Cases
    PROVE  /\ AcceptTarget(c) \in {"accepted", "platform_investigating"}
           /\ LegalAssignTarget(c) \in {"platform_investigating", "provider_investigating"}
  BY DEF AcceptTarget, LegalAssignTarget

-----------------------------------------------------------------------------
\* A transition as the repository writes it: the types are kept, one case moves
\* along its table and only that case, its rows grow.
LEMMA TransitionKeeps ==
    ASSUME TypeOK, NEW c \in Cases, NEW next \in Statuses, NEW action,
           NEW ev \in Attachments, TransitionCase(c, next, action, ev)
    PROVE  /\ status' \in [Cases -> Statuses]
           /\ base' \in [Cases -> Dimensions]
           /\ evidence' \in [Cases -> SUBSET EvidenceTypes]
           /\ events' \in [Cases -> SUBSET Milestones]
           /\ evaluated' = evaluated
           /\ status'[c] = next /\ next \in Allowed(c) /\ next # "none"
           /\ action = "review" => "review" \in events'[c]
           /\ \A d \in Cases : /\ d # c => status'[d] = status[d]
                               /\ events[d] \subseteq events'[d]
<1>1. ev \subseteq EvidenceTypes
  BY DEF Attachments
<1>2. next # "none"
  BY TablesAgree DEF TransitionCase
<1>. QED  BY <1>1, <1>2 DEF TypeOK, TransitionCase, AddRows, Milestones

\* A process row leaves the case where it is.
LEMMA ProcessKeeps ==
    ASSUME TypeOK, NEW c \in Cases, NEW action, NEW ev \in Attachments,
           AddProcess(c, action, ev)
    PROVE  /\ evidence' \in [Cases -> SUBSET EvidenceTypes]
           /\ events' \in [Cases -> SUBSET Milestones]
           /\ UNCHANGED <<status, base, evaluated>>
           /\ \A d \in Cases : events[d] \subseteq events'[d]
<1>1. ev \subseteq EvidenceTypes
  BY DEF Attachments
<1>. QED  BY <1>1 DEF TypeOK, AddProcess, AddRows

\* What a step may do to a case, whoever takes it.
CaseStep(c) ==
    /\ events[c] \subseteq events'[c]
    /\ assignedEnd \subseteq assignedEnd'
    /\ \/ UNCHANGED <<status[c], createdAs[c]>>
       \/ status[c] = "none" /\ status'[c] = createdAs'[c]
       \/ status'[c] \in Allowed(c) /\ UNCHANGED createdAs[c]
    /\ status'[c] = "resolved" =>
           \/ status[c] = "resolved"
           \/ "review" \in events'[c] \/ createdAs'[c] = "resolved" \/ c \in assignedEnd'
    /\ c \in evaluated' => c \in evaluated \/ status[c] = "resolved"
    /\ createdAs'[c] # createdAs[c] => status[c] = "none"

\* The step of an operation that chooses nothing.
NoChoice == UNCHANGED <<job, createdAs, assignedEnd>>

\* One step lemma for the type invariant and all the properties: every action
\* keeps the types and the aims of the calls in flight, and does to each case
\* what CaseStep allows.
LEMMA StepLemma ==
    ASSUME TypeOK, AcceptsInvestigate, [Next]_vars
    PROVE  TypeOK' /\ AcceptsInvestigate' /\ \A c \in Cases : CaseStep(c)
<1> USE DEF CaseStep
<1>1. ASSUME NEW c \in Cases, NEW ev \in Attachments, NEW dimension \in Dimensions,
             NEW s \in CreateStates \union {"draft"}, create_objection_case(c, dimension, s, ev)
      PROVE  TypeOK' /\ AcceptsInvestigate' /\ \A d \in Cases : CaseStep(d)
  <2>1. ev \subseteq EvidenceTypes /\ s \in Statuses
    BY NamedAssumption DEF Attachments, Statuses
  <2>. QED
    BY <1>1, <2>1 DEF TypeOK, AcceptsInvestigate, create_objection_case, AddRows
<1>2. ASSUME NEW c \in Cases, NEW next \in Statuses, NEW action, NEW ev \in Attachments,
             next = "resolved" => action = "review",
             TransitionCase(c, next, action, ev), NoChoice
      PROVE  TypeOK' /\ AcceptsInvestigate' /\ \A d \in Cases : CaseStep(d)
  <2>1. /\ UNCHANGED <<job, createdAs, assignedEnd>>
        /\ status'[c] = "resolved" => "review" \in events'[c]
    BY <1>2, TransitionKeeps DEF NoChoice
  <2>2. TypeOK'
    BY <1>2, <2>1, TransitionKeeps DEF TypeOK
  <2>3. ASSUME NEW d \in Cases PROVE CaseStep(d)
    BY <1>2, <2>1, TransitionKeeps
  <2>. QED  BY <2>1, <2>2, <2>3 DEF AcceptsInvestigate
<1>3. ASSUME NEW c \in Cases, NEW ev \in Attachments,
             submit(c, ev) \/ reject(c, ev) \/ close(c, ev)
      PROVE  TypeOK' /\ AcceptsInvestigate' /\ \A d \in Cases : CaseStep(d)
  <2>1. \E next \in {"submitted", "rejected", "closed"} : \E action :
             TransitionCase(c, next, action, ev) /\ NoChoice
    BY <1>3 DEF submit, reject, close, noChoice, NoChoice
  <2>2. {"submitted", "rejected", "closed"} \subseteq Statuses \ {"resolved"}
    BY DEF Statuses
  <2>. QED  BY <1>2, <2>1, <2>2
<1>4. ASSUME NEW c \in Cases, NEW ev \in Attachments, NEW decision, review(c, decision, ev)
      PROVE  TypeOK' /\ AcceptsInvestigate' /\ \A d \in Cases : CaseStep(d)
  <2>1. PICK next \in {"resolved", "provider_investigating"} :
                TransitionCase(c, next, "review", ev) /\ NoChoice
    BY <1>4 DEF review, noChoice, NoChoice
  <2>2. next \in Statuses
    BY DEF Statuses
  <2>. QED  BY <1>2, <2>1, <2>2
<1>5. ASSUME NEW c \in Cases, NEW ev \in Attachments, NEW t \in Threads,
             accept(t, c, ev) \/ assign(t, c, ev)
      PROVE  TypeOK' /\ AcceptsInvestigate' /\ \A d \in Cases : CaseStep(d)
  <2>1. PICK action \in {"accept", "assign"}, target \in Statuses :
                Choose(t, c, action, target, ev) /\ (action = "accept" => target # "resolved")
    <3>1. CASE accept(t, c, ev)
      <4>1. PICK target : target = AcceptTarget(c)
        OBVIOUS
      <4>2. target \in Statuses /\ target # "resolved"
        BY <4>1, TargetsInvestigate DEF Statuses
      <4>. QED  BY <3>1, <4>1, <4>2 DEF accept
    <3>2. CASE assign(t, c, ev)
      <4>1. PICK target \in {LegalAssignTarget(c)} \union AssignTargets :
                    Choose(t, c, "assign", target, ev)
        BY <3>2 DEF assign
      <4>2. target \in Statuses
        BY <4>1, TargetsInvestigate, NamedAssumption DEF Statuses
      <4>. QED  BY <4>1, <4>2
    <3>. QED  BY <1>5, <3>1, <3>2
  <2>2. [case |-> c, action |-> action, target |-> target, evidence |-> ev] \in Jobs
    BY DEF Jobs
  <2>. QED
    BY <2>1, <2>2 DEF TypeOK, AcceptsInvestigate, Choose
<1>6. ASSUME NEW c \in Cases, NEW ev \in Attachments, reply(c, ev) \/ escalate(c, ev)
      PROVE  TypeOK' /\ AcceptsInvestigate' /\ \A d \in Cases : CaseStep(d)
  <2>1. PICK action : AddProcess(c, action, ev) /\ NoChoice
    BY <1>6 DEF reply, escalate, noChoice, NoChoice
  <2>. QED
    BY <2>1, ProcessKeeps DEF TypeOK, AcceptsInvestigate, NoChoice
<1>7. ASSUME NEW c \in Cases, evaluate(c)
      PROVE  TypeOK' /\ AcceptsInvestigate' /\ \A d \in Cases : CaseStep(d)
  <2>1. ASSUME NEW d \in Cases PROVE events'[d] = events[d]
    BY <1>7 DEF evaluate, EvaluateCase, AddRows, TypeOK, Milestones
  <2>. QED
    BY <1>7, <2>1 DEF evaluate, EvaluateCase, AddRows, TypeOK, AcceptsInvestigate, noChoice
<1>8. ASSUME NEW t \in Threads, Write(t)
      PROVE  TypeOK' /\ AcceptsInvestigate' /\ \A d \in Cases : CaseStep(d)
  <2>1. job[t] \in Jobs
    BY <1>8 DEF Write, TypeOK
  <2>2. /\ job[t].case \in Cases /\ job[t].evidence \in Attachments
        /\ job[t].target \in Statuses /\ job[t].action \in {"accept", "assign"}
        /\ job[t].action = "accept" => job[t].target # "resolved"
    BY <1>8, <2>1 DEF Write, Jobs, AcceptsInvestigate
  <2>3. job' \in [Threads -> Jobs \union {Idle}] /\ AcceptsInvestigate'
    BY <1>8 DEF Write, TypeOK, AcceptsInvestigate
  <2>4. /\ createdAs' = createdAs
        /\ assignedEnd' = assignedEnd \union
               {c \in Cases : /\ status'[c] = "resolved" /\ status[c] # "resolved"
                              /\ job[t].action = "assign"}
    BY <1>8 DEF Write
  <2>5. CASE TransitionCase(job[t].case, job[t].target, job[t].action, job[t].evidence)
    <3>1. PICK c \in Cases : c = job[t].case
      BY <2>2
    <3>2. PICK next \in Statuses : next = job[t].target
      BY <2>2
    <3>3. PICK ev \in Attachments : ev = job[t].evidence
      BY <2>2
    <3>4. PICK action : action = job[t].action
      OBVIOUS
    <3>5. TransitionCase(c, next, action, ev)
      BY <2>5, <3>1, <3>2, <3>3, <3>4
    <3>6. TypeOK'
      BY <2>3, <2>4, <3>5, TransitionKeeps DEF TypeOK
    <3>7. /\ status'[c] = next /\ next \in Allowed(c) /\ evaluated' = evaluated
          /\ \A d \in Cases : (d # c => status'[d] = status[d]) /\ events[d] \subseteq events'[d]
      BY <3>5, TransitionKeeps
    <3>8. status'[c] = "resolved" => status[c] = "resolved" \/ c \in assignedEnd'
      BY <2>2, <2>4, <3>2, <3>7
    <3>9. ASSUME NEW d \in Cases PROVE CaseStep(d)
      BY <2>4, <3>7, <3>8
    <3>. QED  BY <2>3, <3>6, <3>9
  <2>6. CASE UNCHANGED <<status, base, evidence, events, evaluated>>
    BY <2>3, <2>4, <2>6 DEF TypeOK
  <2>. QED  BY <1>8, <2>5, <2>6 DEF Write
<1>9. CASE UNCHANGED vars
  BY <1>9 DEF vars, TypeOK, AcceptsInvestigate
<1>. QED
  BY <1>1, <1>3, <1>4, <1>5, <1>6, <1>7, <1>8, <1>9 DEF Next

-----------------------------------------------------------------------------
\* The tables start empty.
LEMMA InitInv == Init => IInv
  BY DEF Init, IInv, TypeOK, AcceptsInvestigate, ClosedAfterReview, Ends, Statuses, Dimensions

\* Every step keeps the inductive invariant.
LEMMA InvStep == IInv /\ [Next]_vars => IInv'
<1> SUFFICES ASSUME IInv, [Next]_vars PROVE IInv'
  OBVIOUS
<1>1. TypeOK' /\ AcceptsInvestigate' /\ \A c \in Cases : CaseStep(c)
  BY StepLemma DEF IInv
<1>2. ASSUME NEW c \in Cases, status'[c] \in Ends \/ c \in evaluated'
      PROVE  "review" \in events'[c] \/ createdAs'[c] \in Ends \/ c \in assignedEnd'
  <2>1. CASE "review" \in events[c] \/ c \in assignedEnd
    BY <1>1, <2>1 DEF CaseStep
  <2>2. CASE "review" \notin events[c] /\ c \notin assignedEnd /\ createdAs[c] \in Ends
    <3>1. createdAs'[c] = createdAs[c]
      BY <1>1, <2>2 DEF CaseStep, IInv, TypeOK, Ends
    <3>. QED  BY <2>2, <3>1
  <2>3. CASE "review" \notin events[c] /\ c \notin assignedEnd /\ createdAs[c] \notin Ends
    <3>1. status[c] \notin Ends /\ c \notin evaluated
      BY <2>3 DEF IInv, ClosedAfterReview
    <3>2. status'[c] = "closed" => createdAs'[c] \in Ends
      BY <1>1, <3>1, TablesAgree DEF CaseStep, IInv, Ends
    <3>. QED  BY <1>1, <1>2, <3>1, <3>2 DEF CaseStep, Ends
  <2>. QED  BY <2>1, <2>2, <2>3
<1>. QED  BY <1>1, <1>2 DEF IInv, ClosedAfterReview

\* The inductive invariant holds in every state (objection_state.py,
\* repositories/objection.py).
THEOREM Invariance == Spec => []IInv
  BY InitInv, InvStep, PTL DEF Spec

\* Every variable keeps its type, whatever calls overlap.
THEOREM TypeCorrect == Spec => []TypeOK
<1>1. IInv => TypeOK
  BY DEF IInv
<1>. QED  BY <1>1, Invariance, PTL

\* A case is resolved, closed or evaluated only after a review, unless a caller
\* created or assigned it to its end, for any number of cases and of overlapping
\* accept and assign calls and any statuses that callers name.
THEOREM ReviewedBeforeClosed == Spec => []ClosedAfterReview
<1>1. IInv => ClosedAfterReview
  BY DEF IInv
<1>. QED  BY <1>1, Invariance, PTL

\* A rejected or closed case keeps its status, and a supervised case its place in
\* the queue until then, in every step of every behaviour.
THEOREM EndsAreFinal == Spec => CasesEndOnce
<1>1. ASSUME IInv, [Next]_vars
      PROVE  /\ \A c \in Cases : status[c] \in {"rejected", "closed"} => status'[c] = status[c]
             /\ \A c \in SupervisedCases :
                    c \in SupervisedCases' \/ status'[c] \in {"closed", "rejected"}
  <2>1. \A c \in Cases : CaseStep(c)
    BY <1>1, StepLemma DEF IInv
  <2>2. \A c \in Cases : status[c] \in {"rejected", "closed"} => status'[c] = status[c]
    BY <1>1, <2>1, TablesAgree DEF CaseStep, IInv
  <2>3. \A c \in SupervisedCases :
            c \in SupervisedCases' \/ status'[c] \in {"closed", "rejected"}
    BY <2>1 DEF SupervisedCases, CaseStep
  <2>. QED  BY <2>2, <2>3
<1>. QED
  BY <1>1, Invariance, PTL DEF Spec, CasesEndOnce, FinalStaysFinal, SupervisedUntilFinal

-----------------------------------------------------------------------------
(* The national channel: the inductive invariant                           *)

ElementStatuses == DOMAIN CompileTransitions \union {Unknown}
ReviewLevels == {"business", "supervisor"}
RunKeys == {adapter_idempotency_key(op) : op \in Operations}

NatTypeOK ==
    /\ element \in [Elements -> [status : ElementStatuses, step : {0, 1, 2}]]
    /\ reviews \in [Elements -> SUBSET ReviewLevels]
    /\ \/ natCall = NatIdle
       \/ natCall \in [step : {"open", "accepted", "refused", "lost"}, id : Escalated]
       \/ natCall \in [step : {"run", "map"}, id : Operations]
    /\ told \in [Escalated -> SUBSET {"pending", "error", "submitted", "rejected"}]
    /\ runs \in [RunKeys -> {Unknown, "succeeded", "failed"}]
    /\ mappings \subseteq RunKeys

\* A call that came back accepted was accepted, and an operation that is about
\* to be mapped has its record.
CallsCovered ==
    /\ natCall.step = "accepted" => natCall.id \in accepted
    /\ natCall.step = "map" => runs[adapter_idempotency_key(natCall.id)] # Unknown

\* Before the supervisor there was the business review.
BusinessFirst ==
    \A e \in Elements : element[e].status \in Supervisor => "business" \in reviews[e]

NatInv == NatTypeOK /\ CallsCovered /\ BusinessFirst /\ NationalHonest

-----------------------------------------------------------------------------
(* The elements                                                            *)

\* What the review history says of one element.
Reviewed(e) ==
    /\ element[e].status \in Supervisor => "business" \in reviews[e]
    /\ element[e].status \in {"pending_national_sync", "published", "pending_revoke_review",
                              "revoked"}
           => reviews[e] = {"business", "supervisor"}
    /\ element[e].step = 2 <=> element[e].status \in Supervisor
    /\ element[e].step = 1 => element[e].status \in Business

\* What an element may become, with the levels that have approved it.
MayBecome(to, n, levels) ==
    /\ to \in ElementStatuses /\ n \in {0, 1, 2} /\ levels \in SUBSET ReviewLevels
    /\ to \in Supervisor => "business" \in levels
    /\ to \in {"pending_national_sync", "published", "pending_revoke_review", "revoked"}
           => levels = {"business", "supervisor"}
    /\ n = 2 <=> to \in Supervisor
    /\ n = 1 => to \in Business

LEMMA ElementStep ==
    ASSUME NatInv, NEW e \in Elements, NEW to, NEW n, NEW levels, MayBecome(to, n, levels),
           element' = [element EXCEPT ![e] = [status |-> to, step |-> n]],
           reviews' = [reviews EXCEPT ![e] = levels],
           UNCHANGED <<natEnv, natCall, accepted, told, runs, mappings>>
    PROVE  NatInv'
<1> USE DEF MayBecome
<1>1. /\ element \in [Elements -> [status : ElementStatuses, step : {0, 1, 2}]]
      /\ reviews \in [Elements -> SUBSET ReviewLevels]
  BY DEF NatInv, NatTypeOK
<1>2. /\ element' \in [Elements -> [status : ElementStatuses, step : {0, 1, 2}]]
      /\ reviews' \in [Elements -> SUBSET ReviewLevels]
  BY <1>1
<1>3. NatTypeOK'
  BY <1>2 DEF NatInv, NatTypeOK
<1>4. CallsCovered' /\ NothingFaked' /\ MappedHasRun'
  BY DEF NatInv, CallsCovered, NationalHonest, NothingFaked, MappedHasRun,
         resolve_national_channel_state, load_national_provisioning
<1>5. ASSUME NEW d \in Elements
      PROVE  Reviewed(d)'
  <2>1. CASE d = e
    <3>1. element'[d].status = to /\ element'[d].step = n /\ reviews'[d] = levels
      BY <1>1, <2>1
    <3>. QED  BY <3>1 DEF Reviewed
  <2>2. CASE d # e
    <3>1. element'[d] = element[d] /\ reviews'[d] = reviews[d]
      BY <1>1, <2>2
    <3>2. Reviewed(d)
      BY DEF NatInv, BusinessFirst, NationalHonest, PublishedWasReviewed, Reviewed
    <3>. QED  BY <3>1, <3>2 DEF Reviewed
  <2>. QED  BY <2>1, <2>2
<1>6. BusinessFirst' /\ PublishedWasReviewed'
  BY <1>5 DEF Reviewed, BusinessFirst, PublishedWasReviewed
<1>. QED  BY <1>3, <1>4, <1>6 DEF NatInv, NationalHonest

\* The operations of the compilation keep the invariant of every element.
LEMMA CompilationKeeps ==
    ASSUME NatInv, NEW e \in Elements,
           \/ create_task(e) \/ SubmitElement(e)
           \/ \E approve \in BOOLEAN : ReviewElement(e, approve)
           \/ SyncElement(e) \/ ReviseElement(e) \/ RevokeElement(e)
    PROVE  NatInv'
<1> DEFINE from == element[e].status
           old == reviews[e]
<1>1. from \in ElementStatuses /\ old \in SUBSET ReviewLevels /\ Reviewed(e)
      /\ reviews \in [Elements -> SUBSET ReviewLevels]
  BY DEF NatInv, NatTypeOK, BusinessFirst, NationalHonest, PublishedWasReviewed, Reviewed
<1>2. reviews = [reviews EXCEPT ![e] = old]
  BY <1>1
<1> HIDE DEF old
<1>3. CASE create_task(e)
  <2>1. MayBecome("draft", 0, old)
    BY <1>1 DEF MayBecome, ElementStatuses, CompileTransitions, Supervisor
  <2>2. /\ element' = [element EXCEPT ![e] = [status |-> "draft", step |-> 0]]
        /\ reviews' = [reviews EXCEPT ![e] = old]
        /\ UNCHANGED <<natEnv, natCall, accepted, told, runs, mappings>>
    BY <1>2, <1>3 DEF create_task
  <2>. QED  BY <2>1, <2>2, ElementStep
<1>4. CASE SubmitElement(e)
  <2> DEFINE to == submit_target[from]
  <2>1. MayBecome(to, 1, {})
    BY <1>4 DEF SubmitElement, submit_target, Business, Supervisor, ElementStatuses,
                CompileTransitions, MayBecome
  <2>2. /\ element' = [element EXCEPT ![e] = [status |-> to, step |-> 1]]
        /\ reviews' = [reviews EXCEPT ![e] = {}]
        /\ UNCHANGED <<natEnv, natCall, accepted, told, runs, mappings>>
    BY <1>4 DEF SubmitElement, set_status
  <2> HIDE DEF to
  <2>. QED  BY <2>1, <2>2, ElementStep
<1>5. ASSUME NEW approve \in BOOLEAN, ReviewElement(e, approve)
      PROVE  NatInv'
  <2> DEFINE level == IF from \in Business THEN {"business"}
                      ELSE IF from \in Supervisor THEN {"supervisor"} ELSE {}
             to == IF approve THEN ApproveTarget[from] ELSE RejectTarget[from]
             levels == IF approve THEN old \union level
                       ELSE IF level = {} THEN old ELSE {}
             n == IF to \in Supervisor THEN 2 ELSE 0
  <2>1. /\ from \in DOMAIN ApproveTarget
        /\ element' = [element EXCEPT ![e] = [status |-> to, step |-> n]]
        /\ reviews' = [reviews EXCEPT ![e] = levels]
        /\ UNCHANGED <<natEnv, natCall, accepted, told, runs, mappings>>
    BY <1>5 DEF ReviewElement, set_status, old
  <2>2. /\ to \in ElementStatuses /\ levels \in SUBSET ReviewLevels
        /\ to \in Supervisor => "business" \in levels
        /\ to \in {"pending_national_sync", "published", "pending_revoke_review", "revoked"}
               => levels = {"business", "supervisor"}
    <3> USE DEF ApproveTarget, RejectTarget, ElementStatuses, CompileTransitions, Business,
                Supervisor, ReviewLevels, Reviewed, old
    <3>1. CASE from \in Business
      BY <1>1, <2>1, <3>1
    <3>2. CASE from \in Supervisor
      BY <1>1, <2>1, <3>2
    <3>3. CASE from = "pending_revoke_review"
      BY <1>1, <2>1, <3>3
    <3>. QED  BY <2>1, <3>1, <3>2, <3>3
  <2>3. n \in {0, 1, 2} /\ (n = 2 <=> to \in Supervisor) /\ n # 1
    OBVIOUS
  <2>4. MayBecome(to, n, levels)
    BY <2>2, <2>3 DEF MayBecome
  <2> HIDE DEF to, levels, n
  <2>. QED  BY <2>1, <2>4, ElementStep
<1>6. CASE SyncElement(e)
  <2>1. /\ element' = [element EXCEPT ![e] = [status |-> "published", step |-> 0]]
        /\ reviews' = [reviews EXCEPT ![e] = old] /\ old = {"business", "supervisor"}
        /\ UNCHANGED <<natEnv, natCall, accepted, told, runs, mappings>>
    BY <1>1, <1>2, <1>6 DEF SyncElement, set_status, Reviewed
  <2>2. MayBecome("published", 0, old)
    BY <1>1, <2>1 DEF MayBecome, ElementStatuses, CompileTransitions, Supervisor
  <2>. QED  BY <2>1, <2>2, ElementStep
<1>7. CASE ReviseElement(e)
  <2>1. /\ element' = [element EXCEPT ![e] = [status |-> "revision_draft", step |-> 0]]
        /\ reviews' = [reviews EXCEPT ![e] = {}]
        /\ UNCHANGED <<natEnv, natCall, accepted, told, runs, mappings>>
    BY <1>7 DEF ReviseElement, set_status
  <2>2. MayBecome("revision_draft", 0, {})
    BY DEF MayBecome, ElementStatuses, CompileTransitions, Supervisor
  <2>. QED  BY <2>1, <2>2, ElementStep
<1>8. CASE RevokeElement(e)
  <2>1. /\ element' = [element EXCEPT ![e] = [status |-> "pending_revoke_review", step |-> 0]]
        /\ reviews' = [reviews EXCEPT ![e] = old]
        /\ UNCHANGED <<natEnv, natCall, accepted, told, runs, mappings>>
        /\ validate_transition(from, "pending_revoke_review") /\ from # Unknown
    BY <1>2, <1>8 DEF RevokeElement, set_status
  <2>2. from \in {"published", "pending_revoke_review"}
    BY <1>1, <2>1 DEF validate_transition, ElementStatuses, CompileTransitions
  <2>3. old = {"business", "supervisor"}
    BY <1>1, <2>2 DEF Reviewed, old
  <2>4. MayBecome("pending_revoke_review", 0, old)
    BY <1>1, <2>3 DEF MayBecome, ElementStatuses, CompileTransitions, Supervisor
  <2>. QED  BY <2>1, <2>4, ElementStep
<1>. QED  BY <1>3, <1>4, <1>5, <1>6, <1>7, <1>8

-----------------------------------------------------------------------------
(* The calls                                                               *)

\* A step that leaves the elements alone.
LEMMA CallStep ==
    ASSUME NatInv, UNCHANGED <<element, reviews>>,
           NatTypeOK', CallsCovered', NothingFaked', MappedHasRun'
    PROVE  NatInv'
  BY DEF NatInv, BusinessFirst, NationalHonest, PublishedWasReviewed

LEMMA EscalationKeeps ==
    ASSUME NatInv, NEW a \in Escalated, EscalatePending(a) \/ EscalateNational(a)
    PROVE  NatInv'
<1> USE DEF NatInv, NationalHonest
<1>1. CASE EscalatePending(a)
  <2>1. /\ told' = [told EXCEPT ![a] = @ \union {"pending"}] /\ natCall' = natCall
        /\ UNCHANGED <<natEnv, element, reviews, accepted, runs, mappings>>
    BY <1>1 DEF EscalatePending, Tell
  <2>2. NatTypeOK'
    BY <2>1 DEF NatTypeOK
  <2>3. CallsCovered' /\ NothingFaked' /\ MappedHasRun'
    BY <2>1 DEF CallsCovered, NothingFaked, MappedHasRun, NatTypeOK,
                resolve_national_channel_state, load_national_provisioning
  <2>. QED  BY <2>1, <2>2, <2>3, CallStep
<1>2. CASE EscalateNational(a)
  <2>1. /\ natCall' = [step |-> "open", id |-> a] /\ GateOpen
        /\ UNCHANGED <<natEnv, element, reviews, accepted, told, runs, mappings>>
    BY <1>2 DEF EscalateNational
  <2>2. NatTypeOK'
    BY <2>1 DEF NatTypeOK
  <2>3. CallsCovered' /\ NothingFaked' /\ MappedHasRun'
    BY <2>1 DEF CallsCovered, NothingFaked, MappedHasRun, GateOpen,
                resolve_national_channel_state, load_national_provisioning
  <2>. QED  BY <2>1, <2>2, <2>3, CallStep
<1>. QED  BY <1>1, <1>2

\* An answer is told to the caller and the call is over.
LEMMA TellKeeps ==
    ASSUME NatInv, NEW a \in Escalated,
           NEW what \in {"pending", "error", "submitted", "rejected"},
           Tell(a, what), natCall' = NatIdle,
           UNCHANGED <<natEnv, element, reviews, accepted, runs, mappings>>,
           what = "submitted" => a \in accepted
    PROVE  NatInv'
<1>1. told' = [told EXCEPT ![a] = @ \union {what}]
      /\ told \in [Escalated -> SUBSET {"pending", "error", "submitted", "rejected"}]
  BY DEF Tell, NatInv, NatTypeOK
<1>2. told' \in [Escalated -> SUBSET {"pending", "error", "submitted", "rejected"}]
      /\ told'[a] = told[a] \union {what} /\ \A b \in Escalated : b # a => told'[b] = told[b]
  BY <1>1
<1>3. NatTypeOK'
  BY <1>2 DEF NatInv, NatTypeOK
<1>4. CallsCovered' /\ MappedHasRun'
  BY DEF CallsCovered, MappedHasRun, NatIdle, NatInv, NationalHonest
<1>5. NothingFaked'
  BY <1>2 DEF NothingFaked, NatIdle, NatInv, NationalHonest
<1>. QED  BY <1>3, <1>4, <1>5, CallStep

LEMMA AnswerKeeps ==
    ASSUME NatInv, MissingInterfaceSid \/ Answered
    PROVE  NatInv'
<1>1. natCall.step \in {"open", "accepted", "refused", "lost"}
  BY DEF MissingInterfaceSid, Answered
<1>2. natCall.id \in Escalated
  BY <1>1 DEF NatInv, NatTypeOK, NatIdle
<1>3. PICK what \in {"error", "submitted", "rejected"} :
         /\ Tell(natCall.id, what)
         /\ what = "submitted" => natCall.step = "accepted"
  <2>1. CASE MissingInterfaceSid
    BY <2>1 DEF MissingInterfaceSid
  <2>2. ASSUME NEW answer \in Answers(natCall.step), Tell(natCall.id, parse_response(answer))
        PROVE  \E what \in {"error", "submitted", "rejected"} :
                  /\ Tell(natCall.id, what)
                  /\ what = "submitted" => natCall.step = "accepted"
    <3>1. answer = "200" => natCall.step = "accepted"
      BY DEF Answers
    <3>2. parse_response(answer) \in {"submitted", "rejected"}
          /\ (parse_response(answer) = "submitted" => answer = "200")
      BY DEF parse_response
    <3>. QED  BY <2>2, <3>1, <3>2
  <2>. QED  BY <2>1, <2>2 DEF Answered
<1>4. /\ natCall' = NatIdle
      /\ UNCHANGED <<natEnv, element, reviews, accepted, runs, mappings>>
  BY DEF MissingInterfaceSid, Answered
<1>5. what = "submitted" => natCall.id \in accepted
  BY <1>3 DEF NatInv, CallsCovered
<1>. QED  BY <1>2, <1>3, <1>4, <1>5, TellKeeps

LEMMA PostKeeps ==
    ASSUME NatInv, Post
    PROVE  NatInv'
<1>1. natCall \in [step : {"open", "accepted", "refused", "lost"}, id : Escalated]
  BY DEF Post, NatInv, NatTypeOK, NatIdle
<1>2. /\ natCall' \in [step : {"open", "accepted", "refused", "lost"}, id : Escalated]
      /\ natCall'.step \in {"accepted", "refused", "lost"}
      /\ natCall'.step = "accepted" => natCall'.id \in accepted'
      /\ accepted \subseteq accepted'
      /\ UNCHANGED <<natEnv, element, reviews, told, runs, mappings>>
  BY <1>1 DEF Post
<1>3. NatTypeOK'
  BY <1>2 DEF NatInv, NatTypeOK
<1>4. CallsCovered' /\ MappedHasRun'
  BY <1>2 DEF CallsCovered, MappedHasRun, NatInv, NationalHonest
<1>5. resolve_national_channel_state = "provisioned"
  BY DEF Post, NatInv, NationalHonest, NothingFaked
<1>6. resolve_national_channel_state' = resolve_national_channel_state
  BY <1>2 DEF resolve_national_channel_state, load_national_provisioning
<1>7. NothingFaked'
  BY <1>2, <1>5, <1>6 DEF NothingFaked, NatInv, NationalHonest
<1>. QED  BY <1>2, <1>3, <1>4, <1>7, CallStep

LEMMA AdapterKeeps ==
    ASSUME NatInv,
           \/ \E op \in Operations : record_adapter_operation(op)
           \/ \E outcome \in {"succeeded", "failed"} : upsert_run_record(outcome)
           \/ upsert_mapping \/ AdapterFails
    PROVE  NatInv'
<1> DEFINE key == adapter_idempotency_key(natCall.id)
<1>1. /\ runs \in [RunKeys -> {Unknown, "succeeded", "failed"}] /\ mappings \subseteq RunKeys
      /\ MappedHasRun
  BY DEF NatInv, NatTypeOK, NationalHonest
<1>2. CASE \E op \in Operations : record_adapter_operation(op)
  <2>1. PICK op \in Operations : natCall' = [step |-> "run", id |-> op]
    BY <1>2 DEF record_adapter_operation
  <2>2. UNCHANGED <<natEnv, element, reviews, accepted, told, runs, mappings>>
    BY <1>2 DEF record_adapter_operation
  <2>3. NatTypeOK'
    BY <2>1, <2>2 DEF NatInv, NatTypeOK
  <2>4. CallsCovered' /\ NothingFaked' /\ MappedHasRun'
    BY <2>1, <2>2 DEF CallsCovered, NothingFaked, MappedHasRun, NatInv, NationalHonest
  <2>. QED  BY <2>2, <2>3, <2>4, CallStep
<1>3. ASSUME NEW outcome \in {"succeeded", "failed"}, upsert_run_record(outcome)
      PROVE  NatInv'
  <2>1. natCall \in [step : {"run", "map"}, id : Operations] /\ key \in RunKeys
    BY <1>3 DEF upsert_run_record, NatInv, NatTypeOK, NatIdle, RunKeys
  <2>2. /\ runs' = [runs EXCEPT ![key] = outcome]
        /\ natCall' = NatIdle \/ natCall' = [natCall EXCEPT !.step = "map"]
        /\ UNCHANGED <<natEnv, element, reviews, accepted, told, mappings>>
    BY <1>3 DEF upsert_run_record
  <2>3. natCall' = NatIdle
        \/ (natCall' \in [step : {"run", "map"}, id : Operations] /\ natCall'.id = natCall.id
            /\ natCall'.step = "map")
    BY <2>1, <2>2
  <2>4. /\ runs' \in [RunKeys -> {Unknown, "succeeded", "failed"}]
        /\ runs'[key] # Unknown
        /\ \A k \in RunKeys : runs[k] # Unknown => runs'[k] # Unknown
    <3> HIDE DEF key
    <3>. QED  BY <1>1, <2>1, <2>2 DEF Unknown
  <2>5. NatTypeOK'
    BY <2>2, <2>3, <2>4 DEF NatInv, NatTypeOK
  <2>6. CallsCovered' /\ NothingFaked'
    BY <2>2, <2>3, <2>4 DEF CallsCovered, NothingFaked, NatInv, NationalHonest, NatIdle
  <2>7. MappedHasRun'
    BY <1>1, <2>2, <2>4 DEF MappedHasRun
  <2>. QED  BY <2>2, <2>5, <2>6, <2>7, CallStep
<1>4. CASE upsert_mapping \/ AdapterFails
  <2>1. /\ natCall' = NatIdle /\ UNCHANGED <<natEnv, element, reviews, accepted, told, runs>>
        /\ mappings' = mappings \/ (mappings' = mappings \union {key} /\ natCall.step = "map")
    BY <1>4 DEF upsert_mapping, AdapterFails
  <2>2. natCall.step = "map" => key \in RunKeys /\ runs[key] # Unknown
    BY DEF NatInv, NatTypeOK, NatIdle, RunKeys, CallsCovered
  <2>3. NatTypeOK' /\ MappedHasRun'
    BY <1>1, <2>1, <2>2 DEF NatInv, NatTypeOK, MappedHasRun
  <2>4. CallsCovered' /\ NothingFaked'
    BY <2>1 DEF CallsCovered, NothingFaked, NatInv, NationalHonest, NatIdle
  <2>. QED  BY <2>1, <2>3, <2>4, CallStep
<1>. QED  BY <1>2, <1>3, <1>4

-----------------------------------------------------------------------------
\* The channel's tables hold their invariant in every state.
THEOREM NationalInvariance == NatSpec => []NatInv
<1>1. ASSUME NatInit
      PROVE  NatInv
  <2>1. /\ element = [e \in Elements |-> [status |-> Unknown, step |-> 0]]
        /\ reviews = [e \in Elements |-> {}] /\ natCall = NatIdle
        /\ told = [a \in Escalated |-> {}] /\ mappings = {}
        /\ runs = [k \in RunKeys |-> Unknown]
    BY <1>1 DEF NatInit, RunKeys
  <2>2. NatTypeOK
    BY <2>1 DEF NatTypeOK, ElementStatuses
  <2>3. CallsCovered /\ NothingFaked /\ MappedHasRun
    BY <2>1 DEF CallsCovered, NothingFaked, MappedHasRun, NatIdle
  <2>4. BusinessFirst /\ PublishedWasReviewed
    BY <2>1 DEF BusinessFirst, PublishedWasReviewed, Supervisor, Unknown
  <2>. QED  BY <2>2, <2>3, <2>4 DEF NatInv, NationalHonest
<1>2. ASSUME NatInv, [NatNext]_natVars
      PROVE  NatInv'
  <2>1. CASE \E a \in Escalated : EscalatePending(a) \/ EscalateNational(a)
    BY <1>2, <2>1, EscalationKeeps
  <2>2. CASE MissingInterfaceSid \/ Answered
    BY <1>2, <2>2, AnswerKeeps
  <2>3. CASE Post
    BY <1>2, <2>3, PostKeeps
  <2>4. CASE \E e \in Elements : \/ create_task(e) \/ SubmitElement(e)
                                 \/ \E approve \in BOOLEAN : ReviewElement(e, approve)
                                 \/ SyncElement(e) \/ ReviseElement(e) \/ RevokeElement(e)
    BY <1>2, <2>4, CompilationKeeps
  <2>5. CASE \/ \E op \in Operations : record_adapter_operation(op)
             \/ \E outcome \in {"succeeded", "failed"} : upsert_run_record(outcome)
             \/ upsert_mapping \/ AdapterFails
    BY <1>2, <2>5, AdapterKeeps
  <2>6. CASE \E env \in NatEnvs : NatRestart(env)
    <3>1. natCall' = NatIdle /\ UNCHANGED <<element, reviews, accepted, told, runs, mappings>>
      BY <2>6 DEF NatRestart
    <3>2. NatTypeOK'
      BY <1>2, <3>1 DEF NatInv, NatTypeOK
    <3>3. CallsCovered' /\ NothingFaked' /\ MappedHasRun'
      BY <1>2, <3>1 DEF CallsCovered, NothingFaked, MappedHasRun, NatIdle, NatInv,
                        NationalHonest
    <3>. QED  BY <1>2, <3>1, <3>2, <3>3, CallStep
  <2>7. CASE UNCHANGED natVars
    <3>1. UNCHANGED <<natEnv, element, reviews, natCall, accepted, told, runs, mappings>>
      BY <2>7 DEF natVars
    <3>2. NatTypeOK' /\ CallsCovered' /\ NothingFaked' /\ MappedHasRun'
      BY <1>2, <3>1 DEF NatInv, NatTypeOK, CallsCovered, NothingFaked, MappedHasRun,
                        NationalHonest, resolve_national_channel_state,
                        load_national_provisioning
    <3>. QED  BY <1>2, <3>1, <3>2, CallStep
  <2>. QED  BY <1>2, <2>1, <2>2, <2>3, <2>4, <2>5, <2>6, <2>7 DEF NatNext
<1>. QED  BY <1>1, <1>2, PTL DEF NatSpec

\* Nobody is told of an acceptance that was none, no element is published without both
\* reviews, and a mapping has its run record, for any elements, applications and
\* operations, any environments and any number of restarts and escalations.
THEOREM NationalHolds == NatSpec => []NationalHonest
<1>1. NatInv => NationalHonest
  BY DEF NatInv
<1>. QED  BY <1>1, NationalInvariance, PTL

-----------------------------------------------------------------------------
(* The compliance register: the inductive invariant                        *)

RegisterStatuses == DOMAIN CaseTransitions \union {Nowhere}
Prints == [status : RegisterStatuses, steps : Nat]
Ledgers == [CaseIds -> Prints]
CaseJobs == [step : {"idle", "checked", "mutated", "mirrored"}, id : CaseIds \union {Nowhere},
             op : DOMAIN Targets \union {"progress", "escalate", "open", Nowhere}]

CaseRows == [status : {"submitted", "accepted", "platform_investigating", "resolved", "closed",
                       Nowhere},
             steps : Nat, solved : BOOLEAN, by : {"register", "objection"}]

ComplianceTypeOK ==
    /\ ledger \in Ledgers /\ opened \in Seq(CaseIds)
    /\ savedLedger \in [ledger : Ledgers, opened : Seq(CaseIds)]
    /\ caseRow \in [CaseIds -> CaseRows] /\ prints \in Ledgers
    /\ caseWork \in [ComplianceThreads -> CaseJobs]
    /\ ackedSteps \in [CaseIds -> Nat]

Listed(list) == {list[i] : i \in DOMAIN list}

\* A case has a status and steps from its opening on.
ListOK(l, list) ==
    \A c \in CaseIds : IF c \in Listed(list) THEN l[c].status # Nowhere ELSE l[c].steps = 0

ListsOK == ListOK(ledger, opened) /\ ListOK(savedLedger.ledger, savedLedger.opened)

\* The thread that holds the lock.
Holds(t) == caseWork[t].step \in {"mutated", "mirrored"}

OneHolder == \A t, u \in ComplianceThreads : Holds(t) /\ Holds(u) => t = u

WorkOnListed ==
    \A t \in ComplianceThreads :
        caseWork[t].step # "idle" => caseWork[t].id \in CaseIds \intersect Listed(opened)

\* The case whose change has not been mirrored yet.
Unmirrored(c) ==
    \E t \in ComplianceThreads : caseWork[t].step = "mutated" /\ caseWork[t].id = c

PrintsCurrent ==
    \A c \in Listed(opened) : prints[c] = content_fingerprint(c) \/ Unmirrored(c)

\* The row that a fingerprint stands for.
RowOfPrint(f) ==
    [status |-> map_status(f.status), steps |-> f.steps, solved |-> f.status = "resolved",
     by |-> "register"]

RowsTellPrints ==
    \A c \in CaseIds :
        prints[c].status # Nowhere /\ c \notin behind /\ caseRow[c].by = "register"
            => caseRow[c] = RowOfPrint(prints[c])

\* What was acknowledged is saved, and what is saved is in memory.
StepsGrow ==
    \A c \in CaseIds : /\ ackedSteps[c] <= savedLedger.ledger[c].steps
                       /\ savedLedger.ledger[c].steps <= ledger[c].steps

RegisterInv ==
    /\ ComplianceTypeOK /\ ListsOK /\ OneHolder /\ WorkOnListed
    /\ PrintsCurrent /\ RowsTellPrints /\ StepsGrow

-----------------------------------------------------------------------------
\* The state of the mirror is what RegisterMirrored says, as soon as nobody
\* holds the lock.
LEMMA MirrorTells ==
    ASSUME RegisterInv
    PROVE  RegisterMirrored
<1>1. ASSUME ~Locked, NEW c \in CaseIds, OnList(c), c \notin behind, caseRow[c].by = "register"
      PROVE  caseRow[c] = upsert_from_dispute(c)
  <2>1. c \in Listed(opened)
    BY <1>1 DEF OnList, Listed
  <2>2. ~Unmirrored(c)
    BY <1>1 DEF Locked, Unmirrored
  <2>3. prints[c] = content_fingerprint(c)
    BY <2>1, <2>2 DEF RegisterInv, PrintsCurrent
  <2>4. ledger[c].status # Nowhere
    BY <2>1 DEF RegisterInv, ListsOK, ListOK
  <2>5. prints[c].status = ledger[c].status /\ prints[c].steps = ledger[c].steps
    BY <2>3 DEF content_fingerprint
  <2>6. caseRow[c] = RowOfPrint(prints[c])
    BY <1>1, <2>4, <2>5 DEF RegisterInv, RowsTellPrints
  <2>. QED  BY <2>5, <2>6 DEF RowOfPrint, upsert_from_dispute
<1>2. \A c \in CaseIds : ackedSteps[c] <= savedLedger.ledger[c].steps
  BY DEF RegisterInv, StepsGrow
<1>. QED  BY <1>1, <1>2 DEF RegisterMirrored

LEMMA ListedKnown ==
    ASSUME RegisterInv
    PROVE  Listed(opened) \subseteq CaseIds
<1>1. opened \in Seq(CaseIds)
  BY DEF RegisterInv, ComplianceTypeOK
<1>. QED  BY <1>1 DEF Listed

LEMMA MirroredTyped ==
    ASSUME NEW f \in Prints
    PROVE  RowOfPrint(f) \in CaseRows
<1>1. (f.status = "resolved") \in BOOLEAN
  BY Zenon
<1>2. map_status(f.status) \in {"submitted", "platform_investigating", "resolved", "closed"}
  BY DEF map_status
<1>. QED  BY <1>1, <1>2 DEF RowOfPrint, CaseRows, Prints

\* One case of the list is changed by the thread that takes the lock.
LEMMA ChangeKeeps ==
    ASSUME RegisterInv, NEW t \in ComplianceThreads, ~Locked, NEW c \in CaseIds,
           NEW task \in CaseJobs, task.step = "mutated", task.id = c,
           NEW s \in RegisterStatuses \ {Nowhere}, NEW n \in Nat, ledger[c].steps <= n,
           ledger' = [ledger EXCEPT ![c] = [status |-> s, steps |-> n]],
           opened' \in Seq(CaseIds), Listed(opened') = Listed(opened) \union {c},
           caseWork' = [caseWork EXCEPT ![t] = task],
           UNCHANGED <<savedLedger, caseRow, prints, ackedSteps, behind>>
    PROVE  RegisterInv'
<1>1. /\ ledger \in Ledgers /\ caseWork \in [ComplianceThreads -> CaseJobs]
      /\ savedLedger \in [ledger : Ledgers, opened : Seq(CaseIds)]
  BY DEF RegisterInv, ComplianceTypeOK
<1>2. [status |-> s, steps |-> n] \in Prints
  BY DEF Prints
<1>3. /\ ledger' \in Ledgers /\ ledger'[c] = [status |-> s, steps |-> n]
      /\ \A d \in CaseIds : d # c => ledger'[d] = ledger[d]
  BY <1>1, <1>2 DEF Ledgers
<1>4. /\ caseWork' \in [ComplianceThreads -> CaseJobs] /\ caseWork'[t] = task
      /\ \A u \in ComplianceThreads : u # t => caseWork'[u] = caseWork[u]
  BY <1>1
<1>5. ComplianceTypeOK'
  BY <1>3, <1>4 DEF RegisterInv, ComplianceTypeOK
<1>6. \A d \in CaseIds : IF d \in Listed(opened') THEN ledger'[d].status # Nowhere
                                                  ELSE ledger'[d].steps = 0
  BY <1>3 DEF RegisterInv, ListsOK, ListOK
<1>7. ListsOK'
  BY <1>6 DEF RegisterInv, ListsOK, ListOK, Listed
<1>8. \A u \in ComplianceThreads : caseWork[u].step \notin {"mutated", "mirrored"}
  BY DEF Locked
<1>9. OneHolder'
  BY <1>4, <1>8 DEF OneHolder, Holds
<1>10. \A u \in ComplianceThreads :
          caseWork'[u].step # "idle" => caseWork'[u].id \in CaseIds \intersect Listed(opened')
  BY <1>4 DEF RegisterInv, WorkOnListed
<1>11. WorkOnListed'
  BY <1>10 DEF WorkOnListed, Listed
<1>12. \A d \in CaseIds : ~Unmirrored(d)
  BY <1>8 DEF Unmirrored
<1>13. ASSUME NEW d \in Listed(opened')
       PROVE  prints'[d] = content_fingerprint(d)' \/ Unmirrored(d)'
  <2>1. CASE d = c
    BY <1>4, <2>1 DEF Unmirrored
  <2>2. CASE d # c
    <3>1. d \in Listed(opened)
      BY <1>13, <2>2
    <3>2. d \in CaseIds
      BY <3>1, ListedKnown
    <3>3. prints[d] = content_fingerprint(d)
      BY <1>12, <3>1, <3>2 DEF RegisterInv, PrintsCurrent
    <3>4. content_fingerprint(d)' = content_fingerprint(d)
      BY <1>3, <2>2, <3>2 DEF content_fingerprint
    <3>. QED  BY <3>3, <3>4
  <2>. QED  BY <2>1, <2>2
<1>14. PrintsCurrent'
  BY <1>13 DEF PrintsCurrent, Listed
<1>15. RowsTellPrints'
  BY DEF RegisterInv, RowsTellPrints, RowOfPrint
<1>16. StepsGrow'
  <2>1. ASSUME NEW d \in CaseIds
        PROVE  /\ ackedSteps'[d] <= savedLedger'.ledger[d].steps
               /\ savedLedger'.ledger[d].steps <= ledger'[d].steps
    <3>1. /\ ackedSteps[d] <= savedLedger.ledger[d].steps
          /\ savedLedger.ledger[d].steps <= ledger[d].steps
      BY DEF RegisterInv, StepsGrow
    <3>2. savedLedger.ledger[d].steps \in Nat /\ ledger[d].steps \in Nat
      BY <1>1 DEF Ledgers, Prints
    <3>3. ledger[d].steps <= ledger'[d].steps
      BY <1>3, <3>2
    <3>4. ledger'[d].steps \in Nat
      BY <1>3 DEF Ledgers, Prints
    <3>. QED  BY <3>1, <3>2, <3>3, <3>4
  <2>. QED  BY <2>1 DEF StepsGrow
<1>. QED
  BY <1>5, <1>7, <1>9, <1>11, <1>14, <1>15, <1>16 DEF RegisterInv

\* A sweep brings the one changed case up to date, or leaves it behind.
LEMMA SweepKeeps ==
    ASSUME RegisterInv, NEW t \in ComplianceThreads, caseWork[t].step = "mutated", NEW n,
           \/ n = Len(opened) + 1
           \/ n \in DOMAIN opened /\ aggregate_changed(opened[n]),
           SweepTo(n), caseWork' = [caseWork EXCEPT ![t].step = "mirrored"],
           UNCHANGED <<ledger, opened, savedLedger, ackedSteps>>
    PROVE  RegisterInv'
<1> DEFINE k == caseWork[t].id
           swept == {opened[i] : i \in {j \in DOMAIN opened : j < n /\ aggregate_changed(opened[j])}}
           noted == swept \union {opened[i] : i \in DOMAIN opened \intersect {n}}
<1>1. /\ caseRow' = [c \in CaseIds |-> IF c \in swept THEN upsert_from_dispute(c) ELSE caseRow[c]]
      /\ prints' = [c \in CaseIds |-> IF c \in noted THEN content_fingerprint(c) ELSE prints[c]]
      /\ behind' = (behind \ swept) \union (noted \ swept)
  BY DEF SweepTo
<1>2. /\ ledger \in Ledgers /\ caseWork \in [ComplianceThreads -> CaseJobs] /\ prints \in Ledgers
      /\ opened \in Seq(CaseIds)
  BY DEF RegisterInv, ComplianceTypeOK
<1>3. \A c \in CaseIds : content_fingerprint(c) = ledger[c]
  BY <1>2 DEF content_fingerprint, Ledgers, Prints
<1>4. \A d \in Listed(opened) : aggregate_changed(d) => d = k
  BY DEF RegisterInv, PrintsCurrent, Unmirrored, OneHolder, Holds, aggregate_changed
<1>5. k \in Listed(opened) /\ k \in CaseIds
  BY DEF RegisterInv, WorkOnListed
<1>6. aggregate_changed(k) => k \in noted
  <2>1. CASE n = Len(opened) + 1
    <3>1. PICK i \in DOMAIN opened : opened[i] = k
      BY <1>5 DEF Listed
    <3>2. i < n
      BY <1>2, <2>1, <3>1
    <3>. QED  BY <3>1, <3>2
  <2>2. CASE n \in DOMAIN opened /\ aggregate_changed(opened[n])
    <3>1. opened[n] = k
      BY <1>4, <2>2 DEF Listed
    <3>. QED  BY <2>2, <3>1
  <2>. QED  BY <2>1, <2>2
<1>7. swept \subseteq noted
  OBVIOUS
<1> HIDE DEF k, swept, noted
<1>8. \A d \in Listed(opened) : d \in CaseIds /\ prints'[d] = ledger[d]
  <2>1. ASSUME NEW d \in Listed(opened)
        PROVE  d \in CaseIds /\ prints'[d] = ledger[d]
    <3>1. d \in CaseIds
      BY ListedKnown
    <3>2. CASE d \in noted
      BY <1>1, <1>3, <3>1, <3>2
    <3>3. CASE d \notin noted
      <4>1. ~aggregate_changed(d)
        BY <1>4, <1>6, <3>3
      <4>. QED  BY <1>1, <1>3, <3>1, <3>3, <4>1 DEF aggregate_changed
    <3>. QED  BY <3>1, <3>2, <3>3
  <2>. QED  BY <2>1
<1>9. PrintsCurrent'
  BY <1>8 DEF PrintsCurrent, Listed, content_fingerprint, Ledgers, Prints, RegisterInv,
              ComplianceTypeOK
<1>10. prints' \in Ledgers /\ caseRow' \in [CaseIds -> CaseRows]
  <2>1. \A c \in CaseIds : prints'[c] \in Prints
    BY <1>1, <1>2, <1>3 DEF Ledgers
  <2>2. \A c \in CaseIds : upsert_from_dispute(c) \in CaseRows
    <3>1. \A c \in CaseIds : upsert_from_dispute(c) = RowOfPrint(ledger[c]) /\ ledger[c] \in Prints
      BY <1>2 DEF upsert_from_dispute, RowOfPrint, Ledgers
    <3>. QED  BY <3>1, MirroredTyped
  <2>3. \A c \in CaseIds : caseRow[c] \in CaseRows
    BY DEF RegisterInv, ComplianceTypeOK
  <2>4. caseRow' \in [CaseIds -> CaseRows]
    BY <1>1, <2>2, <2>3
  <2>. QED  BY <1>1, <2>1, <2>4 DEF Ledgers
<1>11. /\ caseWork' \in [ComplianceThreads -> CaseJobs]
       /\ caseWork'[t].step = "mirrored" /\ caseWork'[t].id = caseWork[t].id
       /\ \A u \in ComplianceThreads : u # t => caseWork'[u] = caseWork[u]
  BY <1>2 DEF CaseJobs
<1>12. ComplianceTypeOK'
  BY <1>10, <1>11 DEF RegisterInv, ComplianceTypeOK
<1>13. ListsOK'
  BY DEF RegisterInv, ListsOK, ListOK, Listed
<1>14. OneHolder' /\ WorkOnListed'
  <2>1. \A u \in ComplianceThreads : Holds(u)' => Holds(u)
    BY <1>11 DEF Holds
  <2>2. OneHolder'
    BY <2>1 DEF RegisterInv, OneHolder
  <2>3. WorkOnListed'
    BY <1>11 DEF RegisterInv, WorkOnListed, Listed
  <2>. QED  BY <2>2, <2>3
<1>15. ASSUME NEW c \in CaseIds, prints'[c].status # Nowhere, c \notin behind',
              caseRow'[c].by = "register"
       PROVE  caseRow'[c] = RowOfPrint(prints'[c])
  <2>1. CASE c \in swept
    <3>1. caseRow'[c] = upsert_from_dispute(c) /\ prints'[c] = ledger[c]
      BY <1>1, <1>3, <1>7, <2>1
    <3>. QED  BY <3>1 DEF upsert_from_dispute, RowOfPrint
  <2>2. CASE c \notin swept
    <3>1. c \notin noted /\ c \notin behind
      BY <1>1, <1>15, <2>2
    <3>2. caseRow'[c] = caseRow[c] /\ prints'[c] = prints[c]
      BY <1>1, <2>2, <3>1
    <3>. QED  BY <1>15, <3>1, <3>2 DEF RegisterInv, RowsTellPrints
  <2>. QED  BY <2>1, <2>2
<1>16. RowsTellPrints'
  BY <1>15 DEF RowsTellPrints, RowOfPrint
<1>17. StepsGrow'
  BY DEF RegisterInv, StepsGrow
<1>. QED
  BY <1>9, <1>12, <1>13, <1>14, <1>16, <1>17 DEF RegisterInv

\* A thread that comes to its end, or looks a case of the list up.
LEMMA WorkKeeps ==
    ASSUME RegisterInv, NEW t \in ComplianceThreads, NEW task \in CaseJobs,
           task.step \in {"idle", "checked"}, caseWork[t].step # "mutated",
           task.step = "checked" => task.id \in CaseIds \intersect Listed(opened),
           caseWork' = [caseWork EXCEPT ![t] = task],
           UNCHANGED <<ledger, opened, caseRow, prints, behind>>,
           savedLedger' \in [ledger : Ledgers, opened : Seq(CaseIds)],
           ackedSteps' \in [CaseIds -> Nat], StepsGrow',
           ListOK(savedLedger.ledger, savedLedger.opened)'
    PROVE  RegisterInv'
<1>1. caseWork \in [ComplianceThreads -> CaseJobs]
  BY DEF RegisterInv, ComplianceTypeOK
<1>2. /\ caseWork' \in [ComplianceThreads -> CaseJobs] /\ caseWork'[t] = task
      /\ \A u \in ComplianceThreads : u # t => caseWork'[u] = caseWork[u]
  BY <1>1
<1>3. ComplianceTypeOK'
  BY <1>2 DEF RegisterInv, ComplianceTypeOK
<1>4. ListsOK'
  BY DEF RegisterInv, ListsOK, ListOK, Listed
<1>5. \A u \in ComplianceThreads : Holds(u)' => Holds(u)
  BY <1>2 DEF Holds
<1>6. OneHolder'
  BY <1>5 DEF RegisterInv, OneHolder
<1>7. WorkOnListed'
  BY <1>2 DEF RegisterInv, WorkOnListed, Listed
<1>8. \A c : Unmirrored(c) => Unmirrored(c)'
  BY <1>2 DEF Unmirrored
<1>9. PrintsCurrent'
  BY <1>8 DEF RegisterInv, PrintsCurrent, Listed, content_fingerprint
<1>10. RowsTellPrints'
  BY DEF RegisterInv, RowsTellPrints, RowOfPrint
<1>. QED  BY <1>3, <1>4, <1>6, <1>7, <1>9, <1>10 DEF RegisterInv

LEMMA OpenKeeps ==
    ASSUME RegisterInv, NEW t \in ComplianceThreads, NEW c \in CaseIds, OpenCase(t, c)
    PROVE  RegisterInv'
<1>1. /\ ~Locked /\ ~OnList(c) /\ opened' = Append(opened, c)
      /\ ledger' = [ledger EXCEPT ![c] = [status |-> "detected", steps |-> 1]]
      /\ caseWork' = [caseWork EXCEPT ![t] = [step |-> "mutated", id |-> c, op |-> "open"]]
      /\ UNCHANGED <<savedLedger, caseRow, prints, ackedSteps, behind>>
  BY DEF OpenCase
<1>2. opened \in Seq(CaseIds)
  BY DEF RegisterInv, ComplianceTypeOK
<1>3. opened' \in Seq(CaseIds) /\ Listed(opened') = Listed(opened) \union {c}
  <2>1. /\ opened' \in Seq(CaseIds) /\ DOMAIN opened' = DOMAIN opened \union {Len(opened) + 1}
        /\ opened'[Len(opened) + 1] = c /\ \A i \in DOMAIN opened : opened'[i] = opened[i]
    BY <1>1, <1>2
  <2>. QED  BY <2>1 DEF Listed
<1>4. c \notin Listed(opened)
  BY <1>1 DEF OnList, Listed
<1>5. ledger[c].steps = 0
  BY <1>4 DEF RegisterInv, ListsOK, ListOK
<1> DEFINE task == [step |-> "mutated", id |-> c, op |-> "open"]
<1>6. task \in CaseJobs /\ task.step = "mutated" /\ task.id = c
  BY DEF CaseJobs
<1>7. "detected" \in RegisterStatuses \ {Nowhere} /\ ledger[c].steps <= 1
  BY <1>5 DEF RegisterStatuses, CaseTransitions, Nowhere
<1>8. caseWork' = [caseWork EXCEPT ![t] = task] /\ 1 \in Nat
  BY <1>1
<1> HIDE DEF task
<1>. QED  BY <1>1, <1>3, <1>6, <1>7, <1>8, ChangeKeeps

LEMMA MutateKeeps ==
    ASSUME RegisterInv, NEW t \in ComplianceThreads, MutateCase(t)
    PROVE  RegisterInv'
<1> DEFINE c == caseWork[t].id
           task == [caseWork[t] EXCEPT !.step = "mutated"]
           s == StatusAfterOp(ledger[c].status, caseWork[t].op)
           n == ledger[c].steps + 1
<1>1. /\ ~Locked /\ caseWork[t].step = "checked"
      /\ UNCHANGED <<opened, savedLedger, caseRow, prints, ackedSteps, behind>>
  BY DEF MutateCase
<1>2. /\ ledger \in Ledgers /\ caseWork \in [ComplianceThreads -> CaseJobs]
      /\ opened \in Seq(CaseIds)
  BY DEF RegisterInv, ComplianceTypeOK
<1>3. c \in CaseIds /\ c \in Listed(opened)
  BY <1>1 DEF RegisterInv, WorkOnListed
<1>4. ledger[c] \in Prints /\ ledger[c].status # Nowhere
  BY <1>2, <1>3 DEF Ledgers, RegisterInv, ListsOK, ListOK
<1>5. task \in CaseJobs /\ task.step = "mutated" /\ task.id = c
  BY <1>2 DEF CaseJobs
<1>6. s \in RegisterStatuses \ {Nowhere}
  BY <1>4 DEF StatusAfterOp, Targets, RegisterStatuses, CaseTransitions, Nowhere, Prints
<1>7. n \in Nat /\ ledger[c].steps <= n
  BY <1>4 DEF Prints
<1>8. ledger' = [ledger EXCEPT ![c] = [status |-> s, steps |-> n]]
  BY DEF MutateCase
<1>9. caseWork' = [caseWork EXCEPT ![t] = task]
  BY <1>2 DEF MutateCase
<1>10. opened' \in Seq(CaseIds) /\ Listed(opened') = Listed(opened) \union {c}
  BY <1>1, <1>2, <1>3 DEF Listed
<1> HIDE DEF c, task, s, n
<1>. QED  BY <1>1, <1>3, <1>5, <1>6, <1>7, <1>8, <1>9, <1>10, ChangeKeeps

\* Looking up, giving up, and a save that fails leave the books as they are.
LEMMA QuietKeeps ==
    ASSUME RegisterInv, NEW t \in ComplianceThreads,
           \/ \E c \in CaseIds, op \in DOMAIN Targets \union {"progress", "escalate"} :
                 LookUpCase(t, c, op)
           \/ SaveCasesFails(t) \/ DropCase(t)
    PROVE  RegisterInv'
<1>1. PICK task \in CaseJobs :
         /\ task.step \in {"idle", "checked"}
         /\ task.step = "checked" => task.id \in CaseIds \intersect Listed(opened)
         /\ caseWork' = [caseWork EXCEPT ![t] = task]
  <2>1. ASSUME NEW c \in CaseIds, NEW op \in DOMAIN Targets \union {"progress", "escalate"},
               LookUpCase(t, c, op)
        PROVE  \E task \in CaseJobs :
                 /\ task.step \in {"idle", "checked"}
                 /\ task.step = "checked" => task.id \in CaseIds \intersect Listed(opened)
                 /\ caseWork' = [caseWork EXCEPT ![t] = task]
    <3> DEFINE task == [step |-> "checked", id |-> c, op |-> op]
    <3>1. task \in CaseJobs /\ task.step = "checked" /\ task.id = c
      BY DEF CaseJobs
    <3>2. c \in Listed(opened)
      BY <2>1 DEF LookUpCase, MayStartOn, OnList, Listed
    <3>3. caseWork' = [caseWork EXCEPT ![t] = task]
      BY <2>1 DEF LookUpCase
    <3> HIDE DEF task
    <3>. QED  BY <3>1, <3>2, <3>3
  <2>2. CASE SaveCasesFails(t) \/ DropCase(t)
    <3>1. NoCaseWork \in CaseJobs /\ NoCaseWork.step = "idle"
      BY DEF NoCaseWork, CaseJobs
    <3>2. caseWork' = [caseWork EXCEPT ![t] = NoCaseWork]
      BY <2>2 DEF SaveCasesFails, DropCase
    <3> HIDE DEF NoCaseWork
    <3>. QED  BY <3>1, <3>2
  <2>. QED  BY <2>1, <2>2
<1>2. /\ caseWork[t].step # "mutated"
      /\ UNCHANGED <<ledger, opened, savedLedger, caseRow, prints, ackedSteps, behind>>
  BY DEF LookUpCase, SaveCasesFails, DropCase
<1>3. /\ savedLedger' \in [ledger : Ledgers, opened : Seq(CaseIds)]
      /\ ackedSteps' \in [CaseIds -> Nat]
  BY <1>2 DEF RegisterInv, ComplianceTypeOK
<1>4. StepsGrow' /\ ListOK(savedLedger.ledger, savedLedger.opened)'
  BY <1>2 DEF RegisterInv, StepsGrow, ListsOK, ListOK, Listed
<1>. QED  BY <1>1, <1>2, <1>3, <1>4, WorkKeeps

LEMMA SaveKeeps ==
    ASSUME RegisterInv, NEW t \in ComplianceThreads, SaveCases(t)
    PROVE  RegisterInv'
<1> DEFINE k == caseWork[t].id
<1>1. /\ caseWork[t].step = "mirrored"
      /\ savedLedger' = [ledger |-> ledger, opened |-> opened]
      /\ ackedSteps' = [ackedSteps EXCEPT ![k] = ledger[k].steps]
      /\ caseWork' = [caseWork EXCEPT ![t] = NoCaseWork]
      /\ UNCHANGED <<ledger, opened, caseRow, prints, behind>>
  BY DEF SaveCases
<1>2. /\ ledger \in Ledgers /\ opened \in Seq(CaseIds) /\ ackedSteps \in [CaseIds -> Nat]
      /\ savedLedger \in [ledger : Ledgers, opened : Seq(CaseIds)]
  BY DEF RegisterInv, ComplianceTypeOK
<1>3. k \in CaseIds
  BY <1>1 DEF RegisterInv, WorkOnListed
<1>4. \A c \in CaseIds : ledger[c].steps \in Nat /\ savedLedger.ledger[c].steps \in Nat
  BY <1>2 DEF Ledgers, Prints
<1> HIDE DEF k
<1>5. savedLedger' \in [ledger : Ledgers, opened : Seq(CaseIds)]
      /\ savedLedger'.ledger = ledger /\ savedLedger'.opened = opened
  BY <1>1, <1>2
<1>6. ackedSteps' \in [CaseIds -> Nat]
      /\ \A c \in CaseIds : ackedSteps'[c] = IF c = k THEN ledger[c].steps ELSE ackedSteps[c]
  BY <1>1, <1>2, <1>3, <1>4
<1>7. \A c \in CaseIds : ackedSteps'[c] <= ledger[c].steps /\ ledger[c].steps <= ledger[c].steps
  <2>1. ASSUME NEW c \in CaseIds
        PROVE  ackedSteps'[c] <= ledger[c].steps /\ ledger[c].steps <= ledger[c].steps
    <3>1. /\ ackedSteps[c] <= savedLedger.ledger[c].steps
          /\ savedLedger.ledger[c].steps <= ledger[c].steps
      BY DEF RegisterInv, StepsGrow
    <3>2. ackedSteps[c] \in Nat /\ ledger[c].steps \in Nat /\ savedLedger.ledger[c].steps \in Nat
      BY <1>2, <1>4
    <3>. QED  BY <1>6, <3>1, <3>2
  <2>. QED  BY <2>1
<1>8. StepsGrow'
  BY <1>1, <1>5, <1>7 DEF StepsGrow
<1>9. ListOK(savedLedger.ledger, savedLedger.opened)'
  BY <1>5 DEF RegisterInv, ListsOK, ListOK, Listed
<1>10. NoCaseWork \in CaseJobs /\ NoCaseWork.step = "idle"
  BY DEF NoCaseWork, CaseJobs
<1> HIDE DEF NoCaseWork
<1>. QED  BY <1>1, <1>5, <1>6, <1>8, <1>9, <1>10, WorkKeeps

LEMMA MoveRowKeeps ==
    ASSUME RegisterInv, NEW c \in CaseIds, NEW st \in {"accepted", "resolved"}, MoveRow(c, st)
    PROVE  RegisterInv'
<1>1. /\ caseRow' = [caseRow EXCEPT ![c] = [caseRow[c] EXCEPT !.status = st, !.by = "objection"]]
      /\ UNCHANGED <<ledger, opened, savedLedger, prints, caseWork, ackedSteps, behind>>
  BY DEF MoveRow
<1>2. caseRow \in [CaseIds -> CaseRows]
  BY DEF RegisterInv, ComplianceTypeOK
<1> DEFINE moved == [caseRow[c] EXCEPT !.status = st, !.by = "objection"]
<1>3. moved \in CaseRows /\ moved.by = "objection"
  BY <1>2 DEF CaseRows
<1> HIDE DEF moved
<1>4. /\ caseRow' \in [CaseIds -> CaseRows] /\ caseRow'[c] = moved
      /\ \A d \in CaseIds : d # c => caseRow'[d] = caseRow[d]
  BY <1>1, <1>2, <1>3 DEF moved
<1>5. ComplianceTypeOK'
  BY <1>1, <1>4 DEF RegisterInv, ComplianceTypeOK
<1>6. RowsTellPrints'
  BY <1>1, <1>3, <1>4 DEF RegisterInv, RowsTellPrints, RowOfPrint
<1>7. ListsOK' /\ OneHolder' /\ WorkOnListed' /\ StepsGrow'
  BY <1>1 DEF RegisterInv, ListsOK, ListOK, Listed, OneHolder, Holds, WorkOnListed, StepsGrow
<1>8. PrintsCurrent'
  BY <1>1 DEF RegisterInv, PrintsCurrent, Listed, content_fingerprint, Unmirrored
<1>. QED  BY <1>5, <1>6, <1>7, <1>8 DEF RegisterInv

LEMMA RestartKeeps ==
    ASSUME RegisterInv, RestartCases
    PROVE  RegisterInv'
<1> DEFINE l == savedLedger.ledger
           list == savedLedger.opened
           blank == [status |-> Nowhere, steps |-> 0]
<1>1. /\ l \in Ledgers /\ list \in Seq(CaseIds) /\ caseRow \in [CaseIds -> CaseRows]
      /\ ListOK(l, list)
  BY DEF RegisterInv, ComplianceTypeOK, ListsOK
<1>2. /\ ledger' = l /\ opened' = list /\ behind' = {}
      /\ caseWork' = [t \in ComplianceThreads |-> NoCaseWork]
      /\ UNCHANGED <<savedLedger, ackedSteps>>
  BY DEF RestartCases
<1>3. caseRow' = [c \in CaseIds |-> IF c \in Listed(list) THEN RowOfPrint(l[c]) ELSE caseRow[c]]
  BY <1>2 DEF RestartCases, Listed, upsert_from_dispute, RowOfPrint
<1>4. prints' = [c \in CaseIds |-> IF c \in Listed(list)
                                   THEN [status |-> l[c].status, steps |-> l[c].steps]
                                   ELSE blank]
  BY <1>2 DEF RestartCases, Listed, content_fingerprint
<1>5. \A c \in CaseIds : l[c] = [status |-> l[c].status, steps |-> l[c].steps] /\ l[c] \in Prints
  BY <1>1 DEF Ledgers, Prints
<1>6. blank \in Prints /\ blank.status = Nowhere
  BY DEF Prints, RegisterStatuses
<1> HIDE DEF l, list, blank
<1>7. \A c \in CaseIds : prints'[c] = IF c \in Listed(list) THEN l[c] ELSE blank
  BY <1>4, <1>5, Zenon
<1>8. prints' \in Ledgers
  BY <1>4, <1>5, <1>6, <1>7 DEF Ledgers
<1>9. caseRow' \in [CaseIds -> CaseRows]
  <2>1. \A c \in CaseIds : RowOfPrint(l[c]) \in CaseRows
    BY <1>5, MirroredTyped
  <2>. QED  BY <1>1, <1>3, <2>1
<1>10. NoCaseWork \in CaseJobs /\ NoCaseWork.step = "idle"
  BY DEF NoCaseWork, CaseJobs
<1>11. /\ caseWork' \in [ComplianceThreads -> CaseJobs]
       /\ \A t \in ComplianceThreads : caseWork'[t].step = "idle"
  BY <1>2, <1>10
<1>12. ComplianceTypeOK'
  BY <1>1, <1>2, <1>8, <1>9, <1>11 DEF RegisterInv, ComplianceTypeOK
<1>13. ListsOK'
  BY <1>1, <1>2 DEF ListsOK, ListOK, Listed, l, list
<1>14. OneHolder' /\ WorkOnListed'
  BY <1>11 DEF OneHolder, Holds, WorkOnListed
<1>15. PrintsCurrent'
  <2>1. Listed(list) \subseteq CaseIds
    BY <1>1 DEF Listed
  <2>2. \A c \in Listed(list) : prints'[c] = [status |-> l[c].status, steps |-> l[c].steps]
    BY <1>5, <1>7, <2>1
  <2>. QED  BY <1>2, <2>2 DEF PrintsCurrent, Listed, content_fingerprint
<1>16. RowsTellPrints'
  <2>1. ASSUME NEW c \in CaseIds, prints'[c].status # Nowhere
        PROVE  caseRow'[c] = RowOfPrint(prints'[c])
    <3>1. c \in Listed(list) /\ prints'[c] = l[c]
      BY <1>6, <1>7, <2>1
    <3>2. caseRow'[c] = RowOfPrint(l[c])
      BY <1>3, <3>1, Zenon
    <3>. QED  BY <3>1, <3>2, Zenon
  <2>. QED  BY <2>1 DEF RowsTellPrints, RowOfPrint
<1>17. StepsGrow'
  <2>1. \A c \in CaseIds : ackedSteps[c] <= l[c].steps
    BY DEF RegisterInv, StepsGrow, l
  <2>2. \A c \in CaseIds : l[c].steps \in Nat
    BY <1>1 DEF Ledgers, Prints
  <2>. QED  BY <1>2, <2>1, <2>2 DEF StepsGrow, l
<1>. QED
  BY <1>12, <1>13, <1>14, <1>15, <1>16, <1>17 DEF RegisterInv

-----------------------------------------------------------------------------
\* The register and its mirror hold their invariant in every state.
THEOREM RegisterInvariance == ComplianceSpec => []RegisterInv
<1>1. ASSUME ComplianceInit
      PROVE  RegisterInv
  <2> DEFINE blank == [status |-> Nowhere, steps |-> 0]
  <2>1. /\ ledger = [c \in CaseIds |-> blank] /\ opened = <<>>
        /\ savedLedger = [ledger |-> ledger, opened |-> opened]
        /\ caseRow = [c \in CaseIds |-> NoRow] /\ prints = [c \in CaseIds |-> blank]
        /\ caseWork = [t \in ComplianceThreads |-> NoCaseWork]
        /\ ackedSteps = [c \in CaseIds |-> 0]
    BY <1>1 DEF ComplianceInit
  <2>2. /\ blank \in Prints /\ blank.status = Nowhere /\ blank.steps = 0
        /\ NoCaseWork \in CaseJobs /\ NoCaseWork.step = "idle" /\ NoRow \in CaseRows
    BY DEF Prints, RegisterStatuses, NoCaseWork, CaseJobs, NoRow, CaseRows
  <2> HIDE DEF blank
  <2>3. ledger \in Ledgers /\ opened \in Seq(CaseIds)
    BY <2>1, <2>2 DEF Ledgers
  <2>4. savedLedger.ledger = ledger /\ savedLedger.opened = opened
    BY <2>1
  <2>5. ComplianceTypeOK
    BY <2>1, <2>2, <2>3 DEF ComplianceTypeOK, Ledgers
  <2>6. Listed(opened) = {}
    BY <2>1 DEF Listed
  <2>7. ListsOK
    BY <2>1, <2>2, <2>4, <2>6 DEF ListsOK, ListOK
  <2>8. OneHolder /\ WorkOnListed
    BY <2>1, <2>2 DEF OneHolder, Holds, WorkOnListed
  <2>9. PrintsCurrent /\ RowsTellPrints
    BY <2>1, <2>2, <2>6 DEF PrintsCurrent, RowsTellPrints
  <2>10. StepsGrow
    BY <2>1, <2>2, <2>4 DEF StepsGrow
  <2>. QED  BY <2>5, <2>7, <2>8, <2>9, <2>10 DEF RegisterInv
<1>2. ASSUME RegisterInv, [ComplianceNext]_caseVars
      PROVE  RegisterInv'
  <2>1. ASSUME NEW t \in ComplianceThreads, NEW c \in CaseIds, OpenCase(t, c)
        PROVE  RegisterInv'
    BY <1>2, <2>1, OpenKeeps
  <2>2. ASSUME NEW t \in ComplianceThreads, MutateCase(t)
        PROVE  RegisterInv'
    BY <1>2, <2>2, MutateKeeps
  <2>3. ASSUME NEW t \in ComplianceThreads, MirrorCases(t) \/ MirrorFails(t)
        PROVE  RegisterInv'
    BY <1>2, <2>3, SweepKeeps DEF MirrorCases, MirrorFails
  <2>4. ASSUME NEW t \in ComplianceThreads, SaveCases(t)
        PROVE  RegisterInv'
    BY <1>2, <2>4, SaveKeeps
  <2>5. ASSUME NEW t \in ComplianceThreads,
               \/ \E c \in CaseIds, op \in DOMAIN Targets \union {"progress", "escalate"} :
                     LookUpCase(t, c, op)
               \/ SaveCasesFails(t) \/ DropCase(t)
        PROVE  RegisterInv'
    BY <1>2, <2>5, QuietKeeps
  <2>6. ASSUME NEW c \in CaseIds, NEW st \in {"accepted", "resolved"}, MoveRow(c, st)
        PROVE  RegisterInv'
    BY <1>2, <2>6, MoveRowKeeps
  <2>7. CASE RestartCases
    BY <1>2, <2>7, RestartKeeps
  <2>8. CASE UNCHANGED caseVars
    <3>1. UNCHANGED <<ledger, opened, savedLedger, caseRow, prints, caseWork, ackedSteps, behind>>
      BY <2>8 DEF caseVars
    <3>2. ComplianceTypeOK' /\ RowsTellPrints'
      BY <1>2, <3>1 DEF RegisterInv, ComplianceTypeOK, RowsTellPrints, RowOfPrint
    <3>3. ListsOK' /\ OneHolder' /\ WorkOnListed' /\ StepsGrow'
      BY <1>2, <3>1
         DEF RegisterInv, ListsOK, ListOK, Listed, OneHolder, Holds, WorkOnListed, StepsGrow
    <3>4. PrintsCurrent'
      BY <1>2, <3>1 DEF RegisterInv, PrintsCurrent, Listed, content_fingerprint, Unmirrored
    <3>. QED  BY <3>2, <3>3, <3>4 DEF RegisterInv
  <2>. QED
    BY <1>2, <2>1, <2>2, <2>3, <2>4, <2>5, <2>6, <2>7, <2>8 DEF ComplianceNext
<1>. QED  BY <1>1, <1>2, PTL DEF ComplianceSpec

\* With no write under way every objection row that the register wrote last says what its
\* case says, and no acknowledged step is lost, for any number of cases and threads,
\* failing mirrors, failing saves and restarts.
THEOREM RegisterHolds == ComplianceSpec => []RegisterMirrored
  BY RegisterInvariance, MirrorTells, PTL

-----------------------------------------------------------------------------
(* The audit trail: the inductive invariant                                *)

\* A sequence of rows, whatever the rows are.
IsRows(s) == s \in Seq({s[k] : k \in 1 .. Len(s)})

\* A thread with an event that the store has, or both have, by its step.
ThreadOK(t) ==
    work[t] # NoWork =>
        /\ DOMAIN work[t] = {"op", "step", "event", "shown"}
        /\ {"count", "time"} \subseteq DOMAIN work[t].event
        /\ work[t].op = "read" => work[t].event.count = work[t].shown
        /\ work[t].step \in {"main", "done"} => OnRecord(store, work[t].event)
        /\ work[t].step = "done" => OnRecord(main, work[t].event)

MainInStore == \A k \in 1 .. Len(main) : OnRecord(store, main[k])

TrailInv ==
    /\ DOMAIN work = AuditThreads /\ IsRows(store) /\ IsRows(main)
    /\ MainInStore
    /\ \A t \in AuditThreads : ThreadOK(t)

-----------------------------------------------------------------------------
\* A sequence of rows grows by a row and loses none.
LEMMA RowsGrow ==
    ASSUME NEW s, IsRows(s), NEW e
    PROVE  /\ IsRows(Append(s, e)) /\ Len(s) \in Nat /\ Len(Append(s, e)) = Len(s) + 1
           /\ Append(s, e)[Len(s) + 1] = e
           /\ \A k \in 1 .. Len(s) : Append(s, e)[k] = s[k]
<1> DEFINE S == {s[k] : k \in 1 .. Len(s)}
           T == S \union {e}
<1>1. s \in Seq(S)
  BY DEF IsRows
<1>2. s \in Seq(T) /\ e \in T /\ Len(s) \in Nat
  BY <1>1
<1> DEFINE longer == Append(s, e)
<1>3. /\ longer \in Seq(T) /\ Len(longer) = Len(s) + 1 /\ longer[Len(s) + 1] = e
      /\ \A k \in 1 .. Len(s) : longer[k] = s[k]
  <2> HIDE DEF T
  <2>. QED  BY <1>2
<1> HIDE DEF longer, T, S
<1>4. longer \in Seq({longer[k] : k \in 1 .. Len(longer)})
  BY <1>3
<1>. QED  BY <1>2, <1>3, <1>4 DEF IsRows, longer

\* What is on record stays on record, and what is appended is.
LEMMA RecordGrows ==
    ASSUME NEW s, IsRows(s), NEW e
    PROVE  /\ \A x : OnRecord(s, x) => OnRecord(Append(s, e), x)
           /\ OnRecord(Append(s, e), e)
<1>1. /\ Len(s) \in Nat /\ Len(Append(s, e)) = Len(s) + 1
      /\ Append(s, e)[Len(s) + 1] = e
      /\ \A k \in 1 .. Len(s) : Append(s, e)[k] = s[k]
  BY RowsGrow
<1> DEFINE longer == Append(s, e)
<1> HIDE DEF longer
<1>2. /\ Len(s) \in Nat /\ Len(longer) = Len(s) + 1 /\ longer[Len(s) + 1] = e
      /\ \A k \in 1 .. Len(s) : longer[k] = s[k]
  BY <1>1 DEF longer
<1>3. \A x : OnRecord(s, x) => OnRecord(longer, x)
  <2>1. ASSUME NEW x, OnRecord(s, x)
        PROVE  OnRecord(longer, x)
    <3>1. PICK k \in 1 .. Len(s) : Untimed(s[k]) = Untimed(x)
      BY <2>1 DEF OnRecord
    <3>2. k \in 1 .. Len(longer) /\ longer[k] = s[k]
      BY <1>2
    <3>. QED  BY <3>1, <3>2 DEF OnRecord
  <2>. QED  BY <2>1
<1>4. OnRecord(longer, e)
  <2>1. Len(s) + 1 \in 1 .. Len(longer)
    BY <1>2
  <2>. QED  BY <1>2, <2>1 DEF OnRecord
<1>. QED  BY <1>3, <1>4 DEF longer

\* Rows without their times are the rows they were.
LEMMA UntimedTwice ==
    ASSUME NEW e
    PROVE  Untimed(Untimed(e)) = Untimed(e)
  BY DEF Untimed

LEMMA UntimedOnRecord ==
    ASSUME NEW s, NEW e, OnRecord(s, e)
    PROVE  OnRecord(s, Untimed(e))
  BY UntimedTwice DEF OnRecord

\* A step of one thread, after which no sink has lost a row.
LEMMA ThreadStep ==
    ASSUME TrailInv, NEW t \in AuditThreads, DOMAIN work' = AuditThreads,
           \A u \in AuditThreads : u # t => work'[u] = work[u],
           IsRows(store'), IsRows(main'),
           \A x : OnRecord(store, x) => OnRecord(store', x),
           \A x : OnRecord(main, x) => OnRecord(main', x),
           MainInStore', ThreadOK(t)'
    PROVE  TrailInv'
<1>1. ASSUME NEW u \in AuditThreads
      PROVE  ThreadOK(u)'
  <2>1. CASE u = t
    BY <2>1
  <2>2. CASE u # t
    <3>1. work'[u] = work[u] /\ ThreadOK(u)
      BY <2>2 DEF TrailInv
    <3>. QED  BY <3>1 DEF ThreadOK
  <2>. QED  BY <2>1, <2>2
<1>. QED  BY <1>1 DEF TrailInv, IsRows

\* A thread takes up an event.
LEMMA TakeUp ==
    ASSUME TrailInv, NEW t \in AuditThreads, NEW op, NEW e, NEW n,
           {"count", "time"} \subseteq DOMAIN e, op = "read" => e.count = n,
           work' = [work EXCEPT ![t] = [op |-> op, step |-> "emit", event |-> e, shown |-> n]],
           UNCHANGED <<store, main>>
    PROVE  TrailInv'
<1> DEFINE w == [op |-> op, step |-> "emit", event |-> e, shown |-> n]
<1>1. /\ DOMAIN w = {"op", "step", "event", "shown"} /\ w.op = op /\ w.step = "emit"
      /\ w.event = e /\ w.shown = n
  OBVIOUS
<1>2. /\ DOMAIN work' = AuditThreads /\ work'[t] = w
      /\ \A u \in AuditThreads : u # t => work'[u] = work[u]
  <2> HIDE DEF w
  <2>. QED  BY DEF TrailInv, w
<1> HIDE DEF w
<1>3. ThreadOK(t)'
  BY <1>1, <1>2 DEF ThreadOK
<1>4. IsRows(store') /\ IsRows(main') /\ MainInStore'
  BY DEF TrailInv, IsRows, MainInStore, OnRecord, Untimed
<1>5. /\ \A x : OnRecord(store, x) => OnRecord(store', x)
      /\ \A x : OnRecord(main, x) => OnRecord(main', x)
  OBVIOUS
<1>. QED  BY <1>2, <1>3, <1>4, <1>5, ThreadStep

LEMMA StartsKeep ==
    ASSUME TrailInv, NEW t \in AuditThreads,
           \/ \E a \in Actors, c \in Calls : StartWrite(t, a, c[1], c[2])
           \/ \E error \in BOOLEAN : FinishWrite(t, error)
           \/ \E a \in Actors : Refuse(t, a)
           \/ RejectUntrusted(t)
           \/ \E n : ReadTrail(t, n)
    PROVE  TrailInv'
<1>1. UNCHANGED <<store, main>>
  BY DEF StartWrite, FinishWrite, Refuse, RejectUntrusted, ReadTrail
<1>2. \E op, e, n :
         /\ {"count", "time"} \subseteq DOMAIN e /\ (op = "read" => e.count = n)
         /\ work' = [work EXCEPT ![t] = [op |-> op, step |-> "emit", event |-> e, shown |-> n]]
  <2>1. CASE \E a \in Actors, c \in Calls : StartWrite(t, a, c[1], c[2])
    <3>1. PICK a \in Actors, c \in Calls :
             Pending(t, "write", Event(ops', a, "before", c[1], "none", FALSE, c[2]))
      BY <2>1 DEF StartWrite
    <3> DEFINE e == Event(ops', a, "before", c[1], "none", FALSE, c[2])
    <3>2. {"count", "time"} \subseteq DOMAIN e
      BY DEF Event
    <3> HIDE DEF e
    <3>. QED  BY <3>1, <3>2 DEF Pending, e
  <2>2. CASE \E error \in BOOLEAN : FinishWrite(t, error)
    <3>1. PICK error \in BOOLEAN : FinishWrite(t, error)
      BY <2>2
    <3> DEFINE e == [work[t].event EXCEPT !.phase = IF error THEN "error" ELSE "after",
                         !.error = error, !.decision = "none"]
    <3>2. work[t] # NoWork
      BY <3>1 DEF FinishWrite, At
    <3>3. {"count", "time"} \subseteq DOMAIN work[t].event
      BY <3>2 DEF TrailInv, ThreadOK
    <3>4. DOMAIN e = DOMAIN work[t].event
      OBVIOUS
    <3>5. work' = [work EXCEPT ![t] = [op |-> "write", step |-> "emit", event |-> e, shown |-> 0]]
      BY <3>1 DEF FinishWrite, Pending
    <3> HIDE DEF e
    <3>. QED  BY <3>3, <3>4, <3>5
  <2>3. CASE (\E a \in Actors : Refuse(t, a)) \/ RejectUntrusted(t)
    <3>1. PICK r, a, p, raw, o, d : Pending(t, "deny", Event(r, a, p, raw, o, FALSE, d))
      BY <2>3 DEF Refuse, RejectUntrusted
    <3> DEFINE e == Event(r, a, p, raw, o, FALSE, d)
    <3>2. {"count", "time"} \subseteq DOMAIN e
      BY DEF Event
    <3> HIDE DEF e
    <3>. QED  BY <3>1, <3>2 DEF Pending, e
  <2>4. CASE \E n : ReadTrail(t, n)
    <3>1. PICK n : ReadTrail(t, n)
      BY <2>4
    <3> DEFINE b == Event(ops', Auditor, "commit", "read-sensitive", "none", FALSE, "none")
               e == [b EXCEPT !.count = n]
    <3>2. DOMAIN e = DOMAIN b /\ "count" \in DOMAIN b /\ "time" \in DOMAIN b
      BY DEF Event
    <3>3. work' = [work EXCEPT ![t] = [op |-> "read", step |-> "emit", event |-> e, shown |-> n]]
      BY <3>1 DEF ReadTrail
    <3> HIDE DEF b
    <3>4. e.count = n
      BY <3>2
    <3> HIDE DEF e
    <3>. QED  BY <3>2, <3>3, <3>4
  <2>. QED  BY <2>1, <2>2, <2>3, <2>4
<1>3. PICK op, e, n :
         /\ {"count", "time"} \subseteq DOMAIN e /\ (op = "read" => e.count = n)
         /\ work' = [work EXCEPT ![t] = [op |-> op, step |-> "emit", event |-> e, shown |-> n]]
  BY <1>2
<1>. QED  BY <1>1, <1>3, TakeUp

\* What the steps of an emit do to the thread's work.
LEMMA WorkMoves ==
    ASSUME TrailInv, NEW t \in AuditThreads, work[t] # NoWork, NEW s, Become(t, s)
    PROVE  /\ DOMAIN work' = AuditThreads
           /\ \A u \in AuditThreads : u # t => work'[u] = work[u]
           /\ DOMAIN work'[t] = {"op", "step", "event", "shown"}
           /\ work'[t].step = s /\ work'[t].op = work[t].op
           /\ work'[t].event = work[t].event /\ work'[t].shown = work[t].shown
<1> DEFINE w == [work[t] EXCEPT !.step = s]
<1>1. DOMAIN work[t] = {"op", "step", "event", "shown"} /\ DOMAIN work = AuditThreads
  BY DEF TrailInv, ThreadOK
<1>2. /\ DOMAIN w = {"op", "step", "event", "shown"} /\ w.step = s /\ w.op = work[t].op
      /\ w.event = work[t].event /\ w.shown = work[t].shown
  BY <1>1
<1>3. work' = [work EXCEPT ![t] = w]
  BY DEF Become
<1> HIDE DEF w
<1>4. /\ DOMAIN work' = AuditThreads /\ work'[t] = w
      /\ \A u \in AuditThreads : u # t => work'[u] = work[u]
  BY <1>1, <1>3
<1>. QED  BY <1>2, <1>4

LEMMA StampKeeps ==
    ASSUME TrailInv, NEW t \in AuditThreads, Stamp(t)
    PROVE  TrailInv'
<1> DEFINE e == [work[t].event EXCEPT !.time = clock]
           w == [[work[t] EXCEPT !.event = e] EXCEPT !.step = "store"]
<1>1. work[t] # NoWork /\ UNCHANGED <<store, main>>
  BY DEF Stamp, At
<1>2. /\ DOMAIN work[t] = {"op", "step", "event", "shown"} /\ DOMAIN work = AuditThreads
      /\ {"count", "time"} \subseteq DOMAIN work[t].event
      /\ work[t].op = "read" => work[t].event.count = work[t].shown
  BY <1>1 DEF TrailInv, ThreadOK
<1>3. DOMAIN e = DOMAIN work[t].event /\ e.count = work[t].event.count
  BY <1>2
<1>4. work' = [work EXCEPT ![t] = w]
  BY <1>2 DEF Stamp
<1> HIDE DEF e
<1>5. /\ DOMAIN w = {"op", "step", "event", "shown"} /\ w.step = "store" /\ w.op = work[t].op
      /\ w.event = e /\ w.shown = work[t].shown
  BY <1>2
<1> HIDE DEF w
<1>6. /\ DOMAIN work' = AuditThreads /\ work'[t] = w
      /\ \A u \in AuditThreads : u # t => work'[u] = work[u]
  BY <1>2, <1>4
<1>7. ThreadOK(t)'
  BY <1>2, <1>3, <1>5, <1>6 DEF ThreadOK
<1>8. IsRows(store') /\ IsRows(main') /\ MainInStore'
  BY <1>1 DEF TrailInv, IsRows, MainInStore, OnRecord, Untimed
<1>9. /\ \A x : OnRecord(store, x) => OnRecord(store', x)
      /\ \A x : OnRecord(main, x) => OnRecord(main', x)
  BY <1>1
<1>. QED  BY <1>6, <1>7, <1>8, <1>9, ThreadStep

LEMMA StoreKeeps ==
    ASSUME TrailInv, NEW t \in AuditThreads, AppendToStore(t)
    PROVE  TrailInv'
<1> DEFINE e == work[t].event
<1>1. /\ work[t] # NoWork /\ Become(t, "main") /\ store' = Append(store, e) /\ main' = main
  BY DEF AppendToStore, FirstSink, At
<1>2. IsRows(store) /\ IsRows(main) /\ MainInStore /\ ThreadOK(t)
  BY DEF TrailInv
<1> HIDE DEF e
<1>3. /\ IsRows(store') /\ OnRecord(store', e)
      /\ \A x : OnRecord(store, x) => OnRecord(store', x)
  BY <1>1, <1>2, RowsGrow, RecordGrows
<1>4. MainInStore'
  BY <1>1, <1>2, <1>3 DEF MainInStore
<1>5. ThreadOK(t)'
  <2>1. /\ DOMAIN work'[t] = {"op", "step", "event", "shown"}
        /\ work'[t].step = "main" /\ work'[t].op = work[t].op
        /\ work'[t].event = work[t].event /\ work'[t].shown = work[t].shown
    BY <1>1, WorkMoves
  <2>. QED  BY <1>1, <1>2, <1>3, <2>1 DEF ThreadOK, e
<1>6. /\ DOMAIN work' = AuditThreads /\ \A u \in AuditThreads : u # t => work'[u] = work[u]
      /\ IsRows(main') /\ \A x : OnRecord(main, x) => OnRecord(main', x)
  BY <1>1, <1>2, WorkMoves
<1>. QED  BY <1>3, <1>4, <1>5, <1>6, ThreadStep

LEMMA MainKeeps ==
    ASSUME TrailInv, NEW t \in AuditThreads, AppendToMain(t)
    PROVE  TrailInv'
<1> DEFINE e == Untimed(work[t].event)
<1>1. /\ work[t] # NoWork /\ work[t].step = "main" /\ Become(t, "done")
      /\ main' = Append(main, e) /\ store' = store
  BY DEF AppendToMain, At
<1>2. IsRows(store) /\ IsRows(main) /\ MainInStore /\ ThreadOK(t)
  BY DEF TrailInv
<1>3. OnRecord(store, work[t].event)
  BY <1>1, <1>2 DEF ThreadOK
<1>4. OnRecord(store, e)
  BY <1>3, UntimedOnRecord
<1>5. Untimed(e) = Untimed(work[t].event)
  BY UntimedTwice
<1> HIDE DEF e
<1>6. /\ IsRows(main') /\ OnRecord(main', e) /\ Len(main) \in Nat
      /\ Len(main') = Len(main) + 1 /\ main'[Len(main) + 1] = e
      /\ \A k \in 1 .. Len(main) : main'[k] = main[k]
      /\ \A x : OnRecord(main, x) => OnRecord(main', x)
  BY <1>1, <1>2, RowsGrow, RecordGrows
<1>7. OnRecord(main', work[t].event)
  BY <1>5, <1>6 DEF OnRecord
<1>8. MainInStore'
  <2>1. \A k \in 1 .. Len(main') : OnRecord(store', main'[k])
    <3>1. ASSUME NEW k \in 1 .. Len(main')
          PROVE  OnRecord(store', main'[k])
      <4>1. CASE k \in 1 .. Len(main)
        BY <1>1, <1>2, <1>6, <4>1 DEF MainInStore
      <4>2. CASE k = Len(main) + 1
        BY <1>1, <1>4, <1>6, <4>2
      <4>. QED  BY <1>6, <4>1, <4>2
    <3>. QED  BY <3>1
  <2>. QED  BY <2>1 DEF MainInStore
<1>9. ThreadOK(t)'
  <2>1. /\ DOMAIN work'[t] = {"op", "step", "event", "shown"}
        /\ work'[t].step = "done" /\ work'[t].op = work[t].op
        /\ work'[t].event = work[t].event /\ work'[t].shown = work[t].shown
    BY <1>1, WorkMoves
  <2>. QED  BY <1>1, <1>2, <1>3, <1>7, <2>1 DEF ThreadOK
<1>10. /\ DOMAIN work' = AuditThreads /\ \A u \in AuditThreads : u # t => work'[u] = work[u]
       /\ IsRows(store') /\ \A x : OnRecord(store, x) => OnRecord(store', x)
  BY <1>1, <1>2, WorkMoves
<1>. QED  BY <1>6, <1>8, <1>9, <1>10, ThreadStep

\* A sink that fails, and a caller that has its answer.
LEMMA EndingsKeep ==
    ASSUME TrailInv, NEW t \in AuditThreads, SinkFails(t) \/ EndWork(t)
    PROVE  TrailInv'
<1>1. UNCHANGED <<store, main>> /\ IsRows(store) /\ IsRows(main) /\ MainInStore /\ ThreadOK(t)
  BY DEF SinkFails, EndWork, TrailInv
<1>2. IsRows(store') /\ IsRows(main') /\ MainInStore'
  BY <1>1 DEF IsRows, MainInStore, OnRecord, Untimed
<1>3. /\ \A x : OnRecord(store, x) => OnRecord(store', x)
      /\ \A x : OnRecord(main, x) => OnRecord(main', x)
  BY <1>1
<1>4. CASE SinkFails(t)
  <2>1. work[t] # NoWork /\ Become(t, "failed")
    BY <1>4 DEF SinkFails, At, AfterSinkFault
  <2>2. ThreadOK(t)'
    <3>1. /\ DOMAIN work'[t] = {"op", "step", "event", "shown"}
          /\ work'[t].step = "failed" /\ work'[t].op = work[t].op
          /\ work'[t].event = work[t].event /\ work'[t].shown = work[t].shown
      BY <2>1, WorkMoves
    <3>. QED  BY <1>1, <2>1, <3>1 DEF ThreadOK
  <2>3. DOMAIN work' = AuditThreads /\ \A u \in AuditThreads : u # t => work'[u] = work[u]
    BY <2>1, WorkMoves
  <2>. QED  BY <1>2, <1>3, <2>2, <2>3, ThreadStep
<1>5. CASE EndWork(t)
  <2>1. /\ DOMAIN work' = AuditThreads /\ work'[t] = NoWork
        /\ \A u \in AuditThreads : u # t => work'[u] = work[u]
    BY <1>5 DEF EndWork, TrailInv
  <2>2. ThreadOK(t)'
    BY <2>1 DEF ThreadOK
  <2>. QED  BY <1>2, <1>3, <2>1, <2>2, ThreadStep
<1>. QED  BY <1>4, <1>5

-----------------------------------------------------------------------------
\* Both sinks hold what the invariant says in every state.
THEOREM TrailInvariance == TrailSpec => []TrailInv
<1>1. ASSUME TrailInit
      PROVE  TrailInv
  <2>1. store = Residue /\ main = <<>> /\ work = [t \in AuditThreads |-> NoWork]
    BY <1>1 DEF TrailInit
  <2>2. IsRows(store)
    BY <2>1, ResidueAssumption DEF IsRows
  <2>3. IsRows(main) /\ MainInStore
    BY <2>1 DEF IsRows, MainInStore
  <2>4. DOMAIN work = AuditThreads /\ \A t \in AuditThreads : ThreadOK(t)
    BY <2>1 DEF ThreadOK
  <2>. QED  BY <2>2, <2>3, <2>4 DEF TrailInv
<1>2. ASSUME TrailInv, [TrailNext]_trailVars
      PROVE  TrailInv'
  <2>1. ASSUME NEW t \in AuditThreads,
               \/ \E a \in Actors, c \in Calls : StartWrite(t, a, c[1], c[2])
               \/ \E error \in BOOLEAN : FinishWrite(t, error)
               \/ \E a \in Actors : Refuse(t, a)
               \/ RejectUntrusted(t)
        PROVE  TrailInv'
    BY <1>2, <2>1, StartsKeep
  <2>2. ASSUME NEW t \in AuditThreads,
               \/ audit_event_query(t) \/ audit_event_statistics(t) \/ audit_event_anomaly(t)
               \/ \E request \in 0 .. ops : audit_event_replay(t, request)
               \/ \E who \in Actors : audit_event_accountability(t, who)
               \/ assistant_investigation_summary(t) \/ package_exposure_matrix_query(t)
        PROVE  TrailInv'
    <3>1. \E n : ReadTrail(t, n)
      BY <2>2 DEF audit_event_query, audit_event_statistics, audit_event_anomaly,
                  audit_event_replay, audit_event_accountability,
                  assistant_investigation_summary, package_exposure_matrix_query
    <3>. QED  BY <1>2, <3>1, StartsKeep
  <2>3. ASSUME NEW t \in AuditThreads,
               Stamp(t) \/ AppendToStore(t) \/ AppendToMain(t) \/ SinkFails(t) \/ EndWork(t)
        PROVE  TrailInv'
    BY <1>2, <2>3, StampKeeps, StoreKeeps, MainKeeps, EndingsKeep
  <2>4. CASE ClockTick \/ (UNCHANGED trailVars)
    <3>1. UNCHANGED <<store, main, work>>
      BY <2>4 DEF ClockTick, trailVars
    <3>. QED
      BY <1>2, <3>1 DEF TrailInv, IsRows, MainInStore, ThreadOK, OnRecord, Untimed
  <2>. QED  BY <1>2, <2>1, <2>2, <2>3, <2>4 DEF TrailNext
<1>. QED  BY <1>1, <1>2, PTL DEF TrailSpec

\* The audit store holds all the main database shows, an emit that returned is in both,
\* and whoever was given an answer from the trail is on it, for any number of threads,
\* calls and failing sinks, and whatever rows lie in the store from before.
THEOREM TrailHolds == TrailSpec => []TrailComplete
<1>1. TrailInv => TrailComplete
  BY DEF TrailInv, TrailComplete, StoreLeads, ReadersOnRecord, MainInStore, ThreadOK, At
<1>. QED  BY <1>1, TrailInvariance, PTL

-----------------------------------------------------------------------------
(* Reading the trail: the inductive invariant                              *)

\* Calls of this deployment have the ids 1, 2, ..; a row of a call tells a time
\* that has come, and an earlier row of a call has no later time and, alone,
\* the phase "before".
RowsOK ==
    /\ ops \in Nat /\ clock \in Nat
    /\ \A k \in 1 .. Len(store) :
          /\ store[k].time \in Int
          /\ store[k].request \in Nat \ {0} =>
                store[k].request <= ops /\ store[k].time <= clock
    /\ \A i, j \in 1 .. Len(store) :
          /\ store[i].request \in Nat \ {0} /\ store[j].request = store[i].request /\ i < j
          => store[j].phase # "before" /\ store[i].time <= store[j].time

\* What a thread is about to emit comes after the rows of its call.
EventOK(t) ==
    work[t] # NoWork =>
        /\ {"request", "phase", "time"} \subseteq DOMAIN work[t].event
        /\ work[t].event.request \in 0 .. ops
        /\ work[t].step = "store" => work[t].event.time \in 0 .. clock
        /\ work[t].event.request # 0 =>
              \A k \in 1 .. Len(store) : store[k].request = work[t].event.request =>
                  /\ work[t].step = "store" => store[k].time <= work[t].event.time
                  /\ work[t].step \in {"emit", "store"} => work[t].event.phase # "before"

\* Two threads at work are at different calls.
CallsApart ==
    \A t, u \in AuditThreads :
        /\ t # u /\ work[t] # NoWork /\ work[u] # NoWork
        /\ work[t].event.request = work[u].event.request
        => work[t].event.request = 0

ReadInv == RowsOK /\ CallsApart /\ \A t \in AuditThreads : EventOK(t)

-----------------------------------------------------------------------------
\* A step of one thread that leaves the store alone.
LEMMA TrailStep ==
    ASSUME ReadInv, NEW t \in AuditThreads, UNCHANGED <<store, clock>>,
           ops' \in Nat, ops <= ops',
           \A u \in AuditThreads : u # t => work'[u] = work[u],
           EventOK(t)',
           work'[t] # NoWork =>
               \/ work'[t].event.request \in {0, ops + 1}
               \/ work[t] # NoWork /\ work'[t].event.request = work[t].event.request
    PROVE  ReadInv'
<1>1. ops \in Nat
  BY DEF ReadInv, RowsOK
<1>2. RowsOK'
  <2>1. \A k \in 1 .. Len(store) :
          /\ store[k].time \in Int
          /\ store[k].request \in Nat \ {0} =>
                store[k].request <= ops' /\ store[k].time <= clock
    BY <1>1 DEF ReadInv, RowsOK
  <2>. QED  BY <2>1 DEF ReadInv, RowsOK
<1>3. ASSUME NEW u \in AuditThreads
      PROVE  EventOK(u)'
  <2>1. CASE u = t
    BY <2>1
  <2>2. CASE u # t
    <3>1. work'[u] = work[u] /\ EventOK(u)
      BY <2>2 DEF ReadInv
    <3>2. \A r \in 0 .. ops : r \in 0 .. ops'
      BY <1>1
    <3>. QED  BY <3>1, <3>2 DEF EventOK
  <2>. QED  BY <2>1, <2>2
<1>4. CallsApart'
  <2>1. ASSUME NEW u \in AuditThreads, NEW v \in AuditThreads, u # v,
               work'[u] # NoWork, work'[v] # NoWork,
               work'[u].event.request = work'[v].event.request
        PROVE  work'[u].event.request = 0
    <3>1. ASSUME NEW x \in AuditThreads, x # t, work'[x] # NoWork, work'[t] # NoWork,
                 work'[x].event.request = work'[t].event.request
          PROVE  work'[x].event.request = 0
      <4>1. work'[x] = work[x] /\ EventOK(x) /\ CallsApart
        BY <3>1 DEF ReadInv
      <4>2. work[x].event.request \in 0 .. ops
        BY <3>1, <4>1 DEF EventOK
      <4>3. CASE work'[t].event.request \in {0, ops + 1}
        BY <1>1, <3>1, <4>1, <4>2, <4>3
      <4>4. CASE work[t] # NoWork /\ work'[t].event.request = work[t].event.request
        BY <3>1, <4>1, <4>4 DEF CallsApart
      <4>. QED  BY <3>1, <4>3, <4>4
    <3>2. CASE u = t
      BY <2>1, <3>1, <3>2
    <3>3. CASE v = t
      BY <2>1, <3>1, <3>3
    <3>4. CASE u # t /\ v # t
      BY <2>1, <3>4 DEF ReadInv, CallsApart
    <3>. QED  BY <3>2, <3>3, <3>4
  <2>. QED  BY <2>1 DEF CallsApart
<1>. QED  BY <1>2, <1>3, <1>4 DEF ReadInv

\* A thread takes up an event: the first of a new call, one with the id that all
\* refusals of a tool share, or the last one of its call.
LEMMA ReadTakeUp ==
    ASSUME TrailInv, ReadInv, NEW t \in AuditThreads, NEW op, NEW e, NEW n,
           UNCHANGED <<store, clock>>, ops' \in Nat, ops <= ops',
           {"request", "phase", "time"} \subseteq DOMAIN e,
           \/ e.request \in {0, ops + 1} /\ ops' = ops + 1
           \/ work[t] # NoWork /\ e.request = work[t].event.request /\ e.phase # "before",
           work' = [work EXCEPT ![t] = [op |-> op, step |-> "emit", event |-> e, shown |-> n]]
    PROVE  ReadInv'
<1> DEFINE w == [op |-> op, step |-> "emit", event |-> e, shown |-> n]
<1>1. w.step = "emit" /\ w.event = e
  OBVIOUS
<1>2. work'[t] = w /\ \A u \in AuditThreads : u # t => work'[u] = work[u]
  <2> HIDE DEF w
  <2>. QED  BY DEF TrailInv, w
<1> HIDE DEF w
<1>3. ops \in Nat /\ RowsOK /\ EventOK(t)
  BY DEF ReadInv, RowsOK
<1>4. EventOK(t)'
  <2>1. CASE e.request \in {0, ops + 1} /\ ops' = ops + 1
    <3>1. e.request \in 0 .. ops'
      BY <1>3, <2>1
    <3>2. ASSUME e.request # 0, NEW k \in 1 .. Len(store), store[k].request = e.request
          PROVE  FALSE
      <4>1. store[k].request = ops + 1 /\ store[k].request \in Nat \ {0}
        BY <1>3, <2>1, <3>2
      <4>2. store[k].request <= ops
        BY <1>3, <4>1 DEF RowsOK
      <4>. QED  BY <1>3, <4>1, <4>2
    <3>. QED  BY <1>1, <1>2, <3>1, <3>2 DEF EventOK
  <2>2. CASE work[t] # NoWork /\ e.request = work[t].event.request /\ e.phase # "before"
    <3>1. e.request \in 0 .. ops
      BY <1>3, <2>2 DEF EventOK
    <3>2. e.request \in 0 .. ops'
      BY <1>3, <3>1
    <3>. QED  BY <1>1, <1>2, <2>2, <3>2 DEF EventOK
  <2>. QED  BY <2>1, <2>2
<1>. QED  BY <1>1, <1>2, <1>4, TrailStep

LEMMA CallsStart ==
    ASSUME TrailInv, ReadInv, NEW t \in AuditThreads,
           \/ \E a \in Actors, c \in Calls : StartWrite(t, a, c[1], c[2])
           \/ \E a \in Actors : Refuse(t, a)
           \/ RejectUntrusted(t)
           \/ \E n : ReadTrail(t, n)
    PROVE  ReadInv'
<1>1. UNCHANGED <<store, clock>> /\ ops' = ops + 1
  BY DEF StartWrite, Refuse, RejectUntrusted, ReadTrail
<1>2. ops \in Nat
  BY DEF ReadInv, RowsOK
<1>3. ops' \in Nat /\ ops <= ops'
  BY <1>1, <1>2
<1>4. PICK op, e, n :
         /\ {"request", "phase", "time"} \subseteq DOMAIN e /\ e.request \in {0, ops + 1}
         /\ work' = [work EXCEPT ![t] = [op |-> op, step |-> "emit", event |-> e, shown |-> n]]
  <2>1. CASE \E a \in Actors, c \in Calls : StartWrite(t, a, c[1], c[2])
    <3>1. PICK a \in Actors, c \in Calls : StartWrite(t, a, c[1], c[2])
      BY <2>1
    <3> DEFINE e == Event(ops', a, "before", c[1], "none", FALSE, c[2])
    <3>2. Pending(t, "write", e)
      BY <3>1 DEF StartWrite
    <3>3. {"request", "phase", "time"} \subseteq DOMAIN e /\ e.request = ops'
      BY DEF Event
    <3> HIDE DEF e
    <3>. QED  BY <1>1, <3>2, <3>3 DEF Pending
  <2>2. CASE \E a \in Actors : Refuse(t, a)
    <3>1. PICK a \in Actors : Refuse(t, a)
      BY <2>2
    <3> DEFINE e == Event(ops', a, "error", "write-default", "denied", FALSE, "deny")
    <3>2. Pending(t, "deny", e)
      BY <3>1 DEF Refuse
    <3>3. {"request", "phase", "time"} \subseteq DOMAIN e /\ e.request = ops'
      BY DEF Event
    <3> HIDE DEF e
    <3>. QED  BY <1>1, <3>2, <3>3 DEF Pending
  <2>3. CASE RejectUntrusted(t)
    <3>1. RejectUntrusted(t)
      BY <2>3
    <3> DEFINE e == Event(0, AGENT, "reject", "read-sensitive", "none", FALSE, "reject")
    <3>2. Pending(t, "deny", e)
      BY <3>1 DEF RejectUntrusted
    <3>3. {"request", "phase", "time"} \subseteq DOMAIN e /\ e.request = 0
      BY DEF Event
    <3> HIDE DEF e
    <3>. QED  BY <1>1, <3>2, <3>3 DEF Pending
  <2>4. CASE \E n : ReadTrail(t, n)
    <3>1. PICK n : ReadTrail(t, n)
      BY <2>4
    <3> DEFINE b == Event(ops', Auditor, "commit", "read-sensitive", "none", FALSE, "none")
               e == [b EXCEPT !.count = n]
    <3>2. /\ "request" \in DOMAIN b /\ "phase" \in DOMAIN b /\ "time" \in DOMAIN b
          /\ b.request = ops + 1
      BY <1>1 DEF Event
    <3>3. work' = [work EXCEPT ![t] = [op |-> "read", step |-> "emit", event |-> e, shown |-> n]]
      BY <3>1 DEF ReadTrail
    <3> HIDE DEF b
    <3>4. DOMAIN e = DOMAIN b /\ e.request = b.request
      BY <3>2
    <3> HIDE DEF e
    <3>. QED  BY <3>2, <3>3, <3>4
  <2>. QED  BY <2>1, <2>2, <2>3, <2>4
<1>. QED  BY <1>1, <1>3, <1>4, ReadTakeUp

LEMMA CallsFinish ==
    ASSUME TrailInv, ReadInv, NEW t \in AuditThreads, NEW error \in BOOLEAN, FinishWrite(t, error)
    PROVE  ReadInv'
<1> DEFINE p == IF error THEN "error" ELSE "after"
           e == [work[t].event EXCEPT !.phase = p, !.error = error, !.decision = "none"]
<1>1. work[t] # NoWork /\ UNCHANGED <<store, clock>> /\ ops' = ops
  BY DEF FinishWrite, At
<1>2. ops \in Nat /\ {"request", "phase", "time"} \subseteq DOMAIN work[t].event
  BY <1>1 DEF ReadInv, RowsOK, EventOK
<1>3. work' = [work EXCEPT ![t] = [op |-> "write", step |-> "emit", event |-> e, shown |-> 0]]
  BY DEF FinishWrite, Pending
<1>4. p # "before" /\ ops' \in Nat /\ ops <= ops'
  BY <1>1, <1>2
<1> HIDE DEF p
<1>5. DOMAIN e = DOMAIN work[t].event /\ e.request = work[t].event.request /\ e.phase = p
  BY <1>2
<1> HIDE DEF e
<1>6. {"request", "phase", "time"} \subseteq DOMAIN e
  BY <1>2, <1>5
<1>. QED  BY <1>1, <1>3, <1>4, <1>5, <1>6, ReadTakeUp

\* The stamp is the present, so no row of the call is from later.
LEMMA StampInOrder ==
    ASSUME TrailInv, ReadInv, NEW t \in AuditThreads, Stamp(t)
    PROVE  ReadInv'
<1> DEFINE e == [work[t].event EXCEPT !.time = clock]
           w == [[work[t] EXCEPT !.event = e] EXCEPT !.step = "store"]
<1>1. work[t] # NoWork /\ work[t].step = "emit" /\ UNCHANGED <<store, ops, clock>>
  BY DEF Stamp, At
<1>2. /\ DOMAIN work[t] = {"op", "step", "event", "shown"} /\ DOMAIN work = AuditThreads
  BY <1>1 DEF TrailInv, ThreadOK
<1>3. RowsOK /\ EventOK(t) /\ ops \in Nat /\ clock \in Nat
      /\ {"request", "phase", "time"} \subseteq DOMAIN work[t].event
  BY <1>1 DEF ReadInv, RowsOK, EventOK
<1>4. /\ DOMAIN e = DOMAIN work[t].event /\ e.request = work[t].event.request
      /\ e.phase = work[t].event.phase /\ e.time = clock
  BY <1>3
<1>5. work' = [work EXCEPT ![t] = w]
  BY <1>2 DEF Stamp
<1> HIDE DEF e
<1>6. w.step = "store" /\ w.event = e
  BY <1>2
<1> HIDE DEF w
<1>7. work'[t] = w /\ \A u \in AuditThreads : u # t => work'[u] = work[u]
  BY <1>2, <1>5
<1>8. EventOK(t)'
  <2>1. ASSUME e.request # 0, NEW k \in 1 .. Len(store), store[k].request = e.request
        PROVE  store[k].time <= clock /\ e.phase # "before"
    <3>1. e.request \in 0 .. ops
      BY <1>1, <1>3, <1>4 DEF EventOK
    <3>2. store[k].request \in Nat \ {0}
      BY <1>3, <2>1, <3>1
    <3>3. store[k].time <= clock
      BY <1>3, <3>2 DEF RowsOK
    <3>4. e.phase # "before"
      BY <1>1, <1>3, <1>4, <2>1 DEF EventOK
    <3>. QED  BY <3>3, <3>4
  <2>2. e.request \in 0 .. ops /\ clock \in 0 .. clock
    BY <1>1, <1>3, <1>4 DEF EventOK
  <2>. QED  BY <1>1, <1>3, <1>4, <1>6, <1>7, <2>1, <2>2 DEF EventOK
<1>. QED  BY <1>1, <1>3, <1>4, <1>6, <1>7, <1>8, TrailStep

\* The new row is the last of its call, and no other thread has one of that call.
LEMMA AppendInOrder ==
    ASSUME TrailInv, ReadInv, NEW t \in AuditThreads, AppendToStore(t)
    PROVE  ReadInv'
<1> DEFINE e == work[t].event
<1>1. /\ work[t] # NoWork /\ work[t].step = "store" /\ Become(t, "main")
      /\ store' = Append(store, e) /\ UNCHANGED <<ops, clock>>
  BY DEF AppendToStore, FirstSink, At
<1>2. IsRows(store) /\ RowsOK /\ EventOK(t) /\ CallsApart /\ ops \in Nat /\ clock \in Nat
  BY DEF TrailInv, ReadInv, RowsOK
<1>3. /\ {"request", "phase", "time"} \subseteq DOMAIN e /\ e.request \in 0 .. ops
      /\ e.time \in 0 .. clock
      /\ e.request # 0 =>
            \A k \in 1 .. Len(store) : store[k].request = e.request =>
                store[k].time <= e.time /\ e.phase # "before"
  BY <1>1, <1>2 DEF EventOK
<1>4. /\ work'[t].step = "main" /\ work'[t].event = e
      /\ \A u \in AuditThreads : u # t => work'[u] = work[u]
  BY <1>1, WorkMoves
<1> HIDE DEF e
<1> DEFINE n == Len(store)
<1>5. /\ n \in Nat /\ Len(store') = n + 1 /\ store'[n + 1] = e
      /\ \A k \in 1 .. n : store'[k] = store[k]
  BY <1>1, <1>2, RowsGrow
<1>6. \A k \in 1 .. Len(store') : k \in 1 .. n \/ k = n + 1
  BY <1>5
<1>7. RowsOK'
  <2>1. ASSUME NEW k \in 1 .. Len(store')
        PROVE  /\ store'[k].time \in Int
               /\ store'[k].request \in Nat \ {0} =>
                     store'[k].request <= ops' /\ store'[k].time <= clock'
    <3>1. CASE k \in 1 .. n
      BY <1>1, <1>2, <1>5, <3>1 DEF RowsOK
    <3>2. CASE k = n + 1
      BY <1>1, <1>2, <1>3, <1>5, <3>2
    <3>. QED  BY <1>6, <3>1, <3>2
  <2>2. ASSUME NEW i \in 1 .. Len(store'), NEW j \in 1 .. Len(store'),
               store'[i].request \in Nat \ {0}, store'[j].request = store'[i].request, i < j
        PROVE  store'[j].phase # "before" /\ store'[i].time <= store'[j].time
    <3>1. i \in 1 .. n /\ store'[i] = store[i]
      BY <1>5, <1>6, <2>2
    <3>2. CASE j \in 1 .. n
      <4>1. store'[j] = store[j]
        BY <1>5, <3>2
      <4>. QED  BY <1>2, <2>2, <3>1, <3>2, <4>1 DEF RowsOK
    <3>3. CASE j = n + 1
      <4>1. store'[j] = e /\ store[i].request = e.request /\ e.request # 0
        BY <1>5, <2>2, <3>1, <3>3
      <4>. QED  BY <1>3, <3>1, <4>1
    <3>. QED  BY <1>6, <3>2, <3>3
  <2>3. ops' \in Nat /\ clock' \in Nat
    BY <1>1, <1>2
  <2>. QED  BY <2>1, <2>2, <2>3 DEF RowsOK
<1>8. ASSUME NEW u \in AuditThreads
      PROVE  EventOK(u)'
  <2>1. CASE u = t
    BY <1>1, <1>3, <1>4, <2>1 DEF EventOK
  <2>2. CASE u # t
    <3>1. work'[u] = work[u] /\ EventOK(u)
      BY <1>4, <2>2 DEF ReadInv
    <3>2. ASSUME work[u] # NoWork, work[u].event.request # 0, NEW k \in 1 .. Len(store'),
                 store'[k].request = work[u].event.request
          PROVE  k \in 1 .. n /\ store'[k] = store[k]
      <4>1. CASE k = n + 1
        BY <1>1, <1>2, <1>5, <2>2, <3>2, <4>1 DEF CallsApart, e
      <4>. QED  BY <1>5, <1>6, <4>1
    <3>. QED  BY <1>1, <3>1, <3>2 DEF EventOK
  <2>. QED  BY <2>1, <2>2
<1>9. CallsApart'
  <2>1. \A u \in AuditThreads : work'[u] # NoWork =>
            work[u] # NoWork /\ work'[u].event = work[u].event
    BY <1>1, <1>4 DEF e
  <2>. QED  BY <1>2, <2>1 DEF CallsApart
<1>. QED  BY <1>7, <1>8, <1>9 DEF ReadInv

\* What comes after the store moves nothing a read looks at.
LEMMA LaterSteps ==
    ASSUME TrailInv, ReadInv, NEW t \in AuditThreads, AppendToMain(t) \/ SinkFails(t) \/ EndWork(t)
    PROVE  ReadInv'
<1>1. UNCHANGED <<store, ops, clock>> /\ ops \in Nat /\ EventOK(t)
  BY DEF AppendToMain, SinkFails, EndWork, ReadInv, RowsOK
<1>2. CASE AppendToMain(t) \/ SinkFails(t)
  <2>1. PICK s \in {"done", "failed"} : work[t] # NoWork /\ Become(t, s)
    BY <1>2 DEF AppendToMain, SinkFails, At, AfterSinkFault
  <2>2. /\ work'[t].step = s /\ work'[t].event = work[t].event
        /\ \A u \in AuditThreads : u # t => work'[u] = work[u]
    BY <2>1, WorkMoves
  <2>3. EventOK(t)'
    BY <1>1, <2>1, <2>2 DEF EventOK
  <2>. QED  BY <1>1, <2>1, <2>2, <2>3, TrailStep
<1>3. CASE EndWork(t)
  <2>1. work'[t] = NoWork /\ \A u \in AuditThreads : u # t => work'[u] = work[u]
    BY <1>3 DEF EndWork, TrailInv
  <2>2. EventOK(t)'
    BY <2>1 DEF EventOK
  <2>. QED  BY <1>1, <2>1, <2>2, TrailStep
<1>. QED  BY <1>2, <1>3

LEMMA TickInOrder ==
    ASSUME ReadInv, UNCHANGED <<store, work, ops>>, clock' = clock + 1 \/ clock' = clock
    PROVE  ReadInv'
<1>1. ops \in Nat /\ clock \in Nat /\ clock' \in Nat /\ clock <= clock' /\ RowsOK /\ CallsApart
  BY DEF ReadInv, RowsOK
<1>2. RowsOK'
  <2>1. \A k \in 1 .. Len(store) :
          /\ store[k].time \in Int
          /\ store[k].request \in Nat \ {0} =>
                store[k].request <= ops /\ store[k].time <= clock'
    BY <1>1 DEF RowsOK
  <2>. QED  BY <1>1, <2>1 DEF RowsOK
<1>3. ASSUME NEW t \in AuditThreads
      PROVE  EventOK(t)'
  <2>1. EventOK(t) /\ \A c \in 0 .. clock : c \in 0 .. clock'
    BY <1>1 DEF ReadInv
  <2>. QED  BY <2>1 DEF EventOK
<1>. QED  BY <1>1, <1>2, <1>3 DEF ReadInv, CallsApart

\* In every state the rows of a call are in the order of events.
THEOREM ReadInvariance == TrailSpec => []ReadInv
<1>1. ASSUME TrailInit
      PROVE  ReadInv
  <2>1. /\ store = Residue /\ work = [t \in AuditThreads |-> NoWork]
        /\ ops = 0 /\ clock = 0
    BY <1>1 DEF TrailInit
  <2>2. \A k \in 1 .. Len(store) : store[k].time \in Int /\ store[k].request \notin Nat \ {0}
    BY <2>1, ResidueAssumption
  <2>3. RowsOK
    BY <2>1, <2>2 DEF RowsOK
  <2>. QED  BY <2>1, <2>3 DEF ReadInv, CallsApart, EventOK
<1>2. ASSUME TrailInv, ReadInv, [TrailNext]_trailVars
      PROVE  ReadInv'
  <2>1. ASSUME NEW t \in AuditThreads,
               \/ \E a \in Actors, c \in Calls : StartWrite(t, a, c[1], c[2])
               \/ \E error \in BOOLEAN : FinishWrite(t, error)
               \/ \E a \in Actors : Refuse(t, a)
               \/ RejectUntrusted(t)
        PROVE  ReadInv'
    BY <1>2, <2>1, CallsStart, CallsFinish
  <2>2. ASSUME NEW t \in AuditThreads,
               \/ audit_event_query(t) \/ audit_event_statistics(t) \/ audit_event_anomaly(t)
               \/ \E request \in 0 .. ops : audit_event_replay(t, request)
               \/ \E who \in Actors : audit_event_accountability(t, who)
               \/ assistant_investigation_summary(t) \/ package_exposure_matrix_query(t)
        PROVE  ReadInv'
    <3>1. \E n : ReadTrail(t, n)
      BY <2>2 DEF audit_event_query, audit_event_statistics, audit_event_anomaly,
                  audit_event_replay, audit_event_accountability,
                  assistant_investigation_summary, package_exposure_matrix_query
    <3>. QED  BY <1>2, <3>1, CallsStart
  <2>3. ASSUME NEW t \in AuditThreads,
               Stamp(t) \/ AppendToStore(t) \/ AppendToMain(t) \/ SinkFails(t) \/ EndWork(t)
        PROVE  ReadInv'
    BY <1>2, <2>3, StampInOrder, AppendInOrder, LaterSteps
  <2>4. CASE ClockTick \/ (UNCHANGED trailVars)
    <3>1. UNCHANGED <<store, work, ops>> /\ (clock' = clock + 1 \/ clock' = clock)
      BY <2>4 DEF ClockTick, trailVars
    <3>. QED  BY <1>2, <3>1, TickInOrder
  <2>. QED  BY <1>2, <2>1, <2>2, <2>3, <2>4 DEF TrailNext
<1>. QED  BY <1>1, <1>2, TrailInvariance, PTL DEF TrailSpec

-----------------------------------------------------------------------------
(* The first ones of an order                                              *)

\* R orders the elements of S, one after another.
Orders(R, S) ==
    /\ \A x \in S : <<x, x>> \notin R
    /\ \A x, y, z \in S : <<x, y>> \in R /\ <<y, z>> \in R => <<x, z>> \in R
    /\ \A x, y \in S : x # y => <<x, y>> \in R \/ <<y, x>> \in R

Ahead(R, S, x) == {y \in S : <<y, x>> \in R}
Place(R, S, x) == Cardinality(Ahead(R, S, x))

LEMMA PlacesRise ==
    ASSUME NEW S, IsFiniteSet(S), NEW R, Orders(R, S), NEW x \in S
    PROVE  /\ Place(R, S, x) \in Nat /\ Place(R, S, x) < Cardinality(S)
           /\ \A y \in S : <<x, y>> \in R => Place(R, S, x) < Place(R, S, y)
<1>1. \A y \in S : /\ Ahead(R, S, y) \in SUBSET S /\ IsFiniteSet(Ahead(R, S, y))
                   /\ Cardinality(Ahead(R, S, y)) \in Nat
  <2>1. ASSUME NEW y \in S
        PROVE  Ahead(R, S, y) \in SUBSET S
    BY DEF Ahead
  <2>. QED  BY <2>1, FS_Subset, FS_CardinalityType
<1>2. Cardinality(S) \in Nat
  BY FS_CardinalityType
<1>3. Place(R, S, x) < Cardinality(S)
  <2>1. x \notin Ahead(R, S, x)
    BY DEF Ahead, Orders
  <2>2. Ahead(R, S, x) # S
    BY <2>1
  <2>3. /\ Cardinality(Ahead(R, S, x)) <= Cardinality(S)
        /\ Cardinality(Ahead(R, S, x)) # Cardinality(S)
    BY <1>1, <2>2, FS_Subset
  <2>. QED  BY <1>1, <1>2, <2>3 DEF Place
<1>4. ASSUME NEW y \in S, <<x, y>> \in R
      PROVE  Place(R, S, x) < Place(R, S, y)
  <2>1. Ahead(R, S, x) \in SUBSET Ahead(R, S, y)
    BY <1>4 DEF Ahead, Orders
  <2>2. x \in Ahead(R, S, y) /\ x \notin Ahead(R, S, x)
    BY <1>4 DEF Ahead, Orders
  <2>3. Ahead(R, S, x) # Ahead(R, S, y)
    BY <2>2
  <2>4. /\ Cardinality(Ahead(R, S, x)) <= Cardinality(Ahead(R, S, y))
        /\ Cardinality(Ahead(R, S, x)) # Cardinality(Ahead(R, S, y))
    BY <1>1, <2>1, <2>3, FS_Subset
  <2>. QED  BY <1>1, <2>4 DEF Place
<1>. QED  BY <1>1, <1>3, <1>4 DEF Place

\* Those with less than n ahead of them are n, or all of them, and come first.
LEMMA FirstOnes ==
    ASSUME NEW S, IsFiniteSet(S), NEW R, Orders(R, S), NEW n \in Nat,
           NEW first, first = {x \in S : Place(R, S, x) < n}
    PROVE  /\ Cardinality(first) = IF Cardinality(S) < n THEN Cardinality(S) ELSE n
           /\ Cardinality(S) <= n => first = S
           /\ \A x \in first, y \in S \ first : <<x, y>> \in R
<1>1. \A x \in S : /\ Place(R, S, x) \in Nat /\ Place(R, S, x) < Cardinality(S)
                   /\ \A y \in S : <<x, y>> \in R => Place(R, S, x) < Place(R, S, y)
  BY PlacesRise
<1>2. Cardinality(S) \in Nat
  BY FS_CardinalityType
<1> DEFINE size == Cardinality(S)
           place == [x \in S |-> Place(R, S, x)]
<1>3. ASSUME NEW x \in S, NEW y \in S, place[x] = place[y], x # y
      PROVE  FALSE
  <2>1. Place(R, S, x) = Place(R, S, y)
    BY <1>3
  <2>2. <<x, y>> \in R \/ <<y, x>> \in R
    BY <1>3 DEF Orders
  <2>3. Place(R, S, x) < Place(R, S, y) \/ Place(R, S, y) < Place(R, S, x)
    BY <1>1, <2>2
  <2>4. Place(R, S, x) \in Nat /\ Place(R, S, y) \in Nat
    BY <1>1
  <2>. QED  BY ONLY <2>1, <2>3, <2>4
<1>4. size <= n => first = S
  BY <1>1, <1>2
<1>5. \A x \in first, y \in S \ first : <<x, y>> \in R
  <2>1. ASSUME NEW x \in first, NEW y \in S \ first, <<x, y>> \notin R
        PROVE  FALSE
    <3>1. x \in S /\ y \in S /\ Place(R, S, x) < n /\ ~(Place(R, S, y) < n)
      OBVIOUS
    <3>2. <<y, x>> \in R
      BY <2>1, <3>1 DEF Orders
    <3>3. Place(R, S, y) < Place(R, S, x) /\ Place(R, S, x) \in Nat /\ Place(R, S, y) \in Nat
      BY <1>1, <3>1, <3>2
    <3>. QED  BY <3>1, <3>3
  <2>. QED  BY <2>1
<1>6. CASE size <= n
  BY <1>2, <1>4, <1>5, <1>6
<1>7. CASE n < size
  <2> DEFINE T == 0 .. (size - 1)
             U == 0 .. (n - 1)
  <2>1. IsFiniteSet(T) /\ Cardinality(T) = size /\ IsFiniteSet(U) /\ Cardinality(U) = n
    <3> HIDE DEF size
    <3>1. size \in Nat /\ size - 1 \in Int /\ n - 1 \in Int /\ 0 \in Int /\ ~(0 > size - 1)
          /\ (size - 1) - 0 + 1 = size /\ (n - 1) - 0 + 1 = n /\ (0 > n - 1 => n = 0)
      BY <1>2, <1>7 DEF size
    <3>2. IsFiniteSet(T) /\ Cardinality(T) = size
      BY <3>1, FS_Interval
    <3>3. IsFiniteSet(U) /\ Cardinality(U) = n
      BY <3>1, FS_Interval
    <3>. QED  BY <3>2, <3>3
  <2>2. place \in [S -> T]
    BY <1>1, <1>2
  <2>3. place \in Injection(S, T)
    BY <1>3, <2>2 DEF Injection, IsInjective
  <2>4. place \in Surjection(S, T)
    <3> HIDE DEF place, T
    <3>. QED  BY <2>1, <2>3, FS_Injection
  <2> DEFINE firsts == [x \in first |-> place[x]]
  <2>5. \A k \in U : \E x \in first : place[x] = k
    <3>1. ASSUME NEW k \in U
          PROVE  \E x \in first : place[x] = k
      <4>1. k \in T
        BY <1>2, <1>7
      <4>2. PICK x \in S : place[x] = k
        BY <2>4, <4>1 DEF Surjection
      <4>3. Place(R, S, x) < n
        BY <4>2
      <4>. QED  BY <4>2, <4>3
    <3>. QED  BY <3>1
  <2>6. \A x \in first : x \in S /\ place[x] \in U
    BY <1>1, <1>2
  <2> HIDE DEF place, U
  <2>7. firsts \in [first -> U]
    BY <2>6
  <2>8. firsts \in Surjection(first, U)
    BY <2>5, <2>7 DEF Surjection
  <2>9. firsts \in Injection(first, U)
    BY <1>3, <2>6, <2>7 DEF Injection, IsInjective
  <2> HIDE DEF firsts
  <2>10. IsFiniteSet(first)
    BY <2>1, <2>9, FS_Injection
  <2>11. Cardinality(first) = Cardinality(U)
    BY <2>1, <2>8, <2>9, FS_Injection
  <2>. QED  BY <1>2, <1>4, <1>5, <1>7, <2>1, <2>11
<1>. QED  BY <1>2, <1>6, <1>7

\* The values of a function on a finite set are finitely many.
LEMMA ValuesFinite ==
    ASSUME NEW f, NEW S, f = [x \in S |-> f[x]], IsFiniteSet(S)
    PROVE  IsFiniteSet({f[x] : x \in S})
<1> DEFINE T == {f[x] : x \in S}
<1>1. f \in Surjection(S, T)
  BY DEF Surjection
<1> HIDE DEF T
<1>2. IsFiniteSet(T)
  BY <1>1, FS_Surjection
<1>. QED  BY <1>2 DEF T

-----------------------------------------------------------------------------
(* Reading the trail: queries and reports                                  *)

\* A query that was not cut has all the rows it was asked for.
LEMMA QueryTakes ==
    ASSUME NEW rows, NEW S, S \in SUBSET Int, IsFiniteSet(S), \A k \in S : rows[k].time \in Int
    PROVE  /\ Query(rows, S) \subseteq S /\ IsFiniteSet(Query(rows, S))
           /\ Cardinality(Query(rows, S)) # QUERY_LIMIT => Query(rows, S) = S
<1> DEFINE R == {p \in S \X S : Earlier(rows, p[1], p[2])}
           first == {x \in S : Place(R, S, x) < QUERY_LIMIT}
<1>1. \A x, y \in S : <<x, y>> \in R <=> Earlier(rows, x, y)
  OBVIOUS
<1> HIDE DEF R
<1>2. Orders(R, S)
  BY <1>1 DEF Orders, Earlier
<1>3. \A x \in S : {y \in S : Earlier(rows, y, x)} = Ahead(R, S, x)
  BY <1>1 DEF Ahead
<1>4. Query(rows, S) = first
  BY <1>3 DEF Query, Place
<1>5. QUERY_LIMIT \in Nat /\ Cardinality(S) \in Nat
  BY TrailAssumption, FS_CardinalityType
<1>6. /\ Cardinality(first) = IF Cardinality(S) < QUERY_LIMIT THEN Cardinality(S) ELSE QUERY_LIMIT
      /\ Cardinality(S) <= QUERY_LIMIT => first = S
  <2> HIDE DEF first
  <2>1. first = {x \in S : Place(R, S, x) < QUERY_LIMIT}
    BY DEF first
  <2>. QED  BY <1>2, <1>5, <2>1, FirstOnes
<1>7. first \in SUBSET S
  OBVIOUS
<1> HIDE DEF first
<1>8. IsFiniteSet(first)
  BY <1>7, FS_Subset
<1>. QED  BY <1>4, <1>5, <1>6, <1>7, <1>8

\* A report can always be made: of any finite number of findings, TOP_N or all of
\* them come before the others, or level with them.
LEMMA ReportIsMade ==
    ASSUME NEW found, IsFiniteSet(found),
           \A a \in found : a.severity \in Int /\ a.occurrences \in Int
    PROVE  \E s \in SUBSET found :
              /\ Cardinality(s) = IF Cardinality(found) < TOP_N THEN Cardinality(found) ELSE TOP_N
              /\ \A a \in s, b \in found \ s : ~Before(b, a)
<1>1. PICK m \in Nat : ExistsBijection(1 .. m, found)
  BY FS_NatBijection
<1>2. PICK f : f \in Bijection(1 .. m, found)
  BY <1>1 DEF ExistsBijection
<1> DEFINE g == [x \in found |-> CHOOSE k \in 1 .. m : f[k] = x]
<1>3. \A x \in found : g[x] \in 1 .. m /\ f[g[x]] = x
  BY <1>2 DEF Bijection, Surjection
<1> HIDE DEF g
<1>4. \A x, y \in found : g[x] \in Int /\ (g[x] = g[y] => x = y)
  BY <1>3
<1> DEFINE R == {p \in found \X found :
                    Before(p[1], p[2]) \/ (~Before(p[2], p[1]) /\ g[p[1]] < g[p[2]])}
<1>5. \A x, y \in found : <<x, y>> \in R <=>
          Before(x, y) \/ (~Before(y, x) /\ g[x] < g[y])
  OBVIOUS
<1> HIDE DEF R
<1>6. Orders(R, found)
  <2>1. \A x \in found : <<x, x>> \notin R
    BY <1>4, <1>5 DEF Before
  <2>2. ASSUME NEW x \in found, NEW y \in found, NEW z \in found,
               <<x, y>> \in R, <<y, z>> \in R
        PROVE  <<x, z>> \in R
    <3>1. /\ Before(x, y) \/ (~Before(y, x) /\ g[x] < g[y])
          /\ Before(y, z) \/ (~Before(z, y) /\ g[y] < g[z])
      BY <1>5, <2>2
    <3>2. /\ x.severity \in Int /\ x.occurrences \in Int /\ y.severity \in Int
          /\ y.occurrences \in Int /\ z.severity \in Int /\ z.occurrences \in Int
          /\ g[x] \in Int /\ g[y] \in Int /\ g[z] \in Int
      BY <1>4
    <3>3. Before(x, z) \/ (~Before(z, x) /\ g[x] < g[z])
      BY <3>1, <3>2 DEF Before
    <3>. QED  BY <1>5, <3>3
  <2>3. \A x, y \in found : x # y => <<x, y>> \in R \/ <<y, x>> \in R
    BY <1>4, <1>5
  <2>. QED  BY <2>1, <2>2, <2>3 DEF Orders
<1>7. TOP_N \in Nat
  BY TrailAssumption
<1> DEFINE s == {x \in found : Place(R, found, x) < TOP_N}
<1>8. s \in SUBSET found
  OBVIOUS
<1>9. s = {x \in found : Place(R, found, x) < TOP_N}
  OBVIOUS
<1> HIDE DEF s
<1>10. /\ Cardinality(s) = IF Cardinality(found) < TOP_N THEN Cardinality(found) ELSE TOP_N
       /\ \A a \in s, b \in found \ s : <<a, b>> \in R
  BY <1>6, <1>7, <1>9, FirstOnes
<1>11. ASSUME NEW a \in s, NEW b \in found \ s
       PROVE  ~Before(b, a)
  <2>1. a \in found /\ b \in found /\ <<a, b>> \in R
    BY <1>8, <1>10
  <2>2. Before(a, b) \/ ~Before(b, a)
    BY <1>5, <2>1
  <2>. QED  BY <2>1, <2>2 DEF Before
<1>. QED  BY <1>8, <1>10, <1>11

\* The rows a selection may want.
LEMMA RowIds ==
    ASSUME IsRows(store), ReadInv, NEW S \in SUBSET DOMAIN store
    PROVE  S \in SUBSET Int /\ IsFiniteSet(S) /\ \A k \in S : store[k].time \in Int
<1>1. DOMAIN store = 1 .. Len(store) /\ Len(store) \in Nat
  BY DEF IsRows
<1>2. IsFiniteSet(1 .. Len(store))
  BY <1>1, FS_Interval
<1>3. IsFiniteSet(S)
  BY <1>1, <1>2, FS_Subset
<1>. QED  BY <1>1, <1>3 DEF ReadInv, RowsOK

\* The rules find finitely many anomalies, each with its severity and its count.
LEMMA FindingsCounted ==
    ASSUME IsRows(store), ReadInv
    PROVE  /\ IsFiniteSet(Detected(store))
           /\ \A a \in Detected(store) : a.severity \in {0, 1} /\ a.occurrences \in Int
<1>1. \A S \in SUBSET DOMAIN store : IsFiniteSet(S) /\ Cardinality(S) \in Int
  BY RowIds, FS_CardinalityType
<1>2. \A S \in SUBSET DOMAIN store : Query(store, S) \in SUBSET DOMAIN store
  BY RowIds, QueryTakes
<1>3. \A r, a, v, n : /\ Anomaly(r, a, v, n).severity = v /\ Anomaly(r, a, v, n).occurrences = n
  BY DEF Anomaly
<1>4. /\ IsFiniteSet(CrossTenantRead(store))
      /\ \A a \in CrossTenantRead(store) : a.severity \in {0, 1} /\ a.occurrences \in Int
  <2> DEFINE reads == Query(store, {i \in DOMAIN store :
                                        store[i].audit_class = "read-sensitive"})
             ReadsOf(a) == {i \in reads : store[i].actor = a}
             A == {a \in ActorsOf(store, reads) :
                      Cardinality({store[i].tenant : i \in ReadsOf(a)}) > 1}
             f == [a \in A |-> Anomaly("cross-tenant-read", a, 0, Cardinality(ReadsOf(a)))]
             actor == [i \in reads |-> store[i].actor]
  <2>1. reads \in SUBSET DOMAIN store
    BY <1>2
  <2> HIDE DEF reads
  <2>2. IsFiniteSet({actor[i] : i \in reads})
    <3>1. IsFiniteSet(reads) /\ actor = [i \in reads |-> actor[i]]
      BY <1>1, <2>1
    <3> HIDE DEF actor
    <3>. QED  BY <3>1, ValuesFinite
  <2>3. {actor[i] : i \in reads} = ActorsOf(store, reads)
    BY DEF ActorsOf
  <2>4. A \in SUBSET ActorsOf(store, reads)
    OBVIOUS
  <2>5. \A a : ReadsOf(a) \in SUBSET DOMAIN store
    BY <2>1
  <2>6. CrossTenantRead(store) = {f[a] : a \in A}
    BY DEF CrossTenantRead, reads
  <2>7. f = [a \in A |-> f[a]]
    OBVIOUS
  <2>8. \A a \in A : f[a].severity = 0 /\ f[a].occurrences = Cardinality(ReadsOf(a))
    BY <1>3
  <2> HIDE DEF A, f, ReadsOf, actor
  <2>9. IsFiniteSet(A)
    BY <2>2, <2>3, <2>4, FS_Subset
  <2>10. IsFiniteSet({f[a] : a \in A})
    BY <2>7, <2>9, ValuesFinite
  <2>. QED  BY <1>1, <2>5, <2>6, <2>8, <2>10
<1> DEFINE scope == InTenant(store)
<1>5. scope \in SUBSET DOMAIN store
  BY <1>2 DEF InTenant
<1> HIDE DEF scope
<1>6. /\ IsFiniteSet(HighFailureRate(store, scope))
      /\ \A a \in HighFailureRate(store, scope) : a.severity \in {0, 1} /\ a.occurrences \in Int
  <2> DEFINE N(a) == Cardinality(FailuresOf(store, scope, a))
             A == {a \in ActorsOf(store, scope) : N(a) >= MIN_FAILURES}
             f == [a \in A |-> Anomaly("high-failure-rate", a,
                                        IF N(a) < 2 * MIN_FAILURES THEN 1 ELSE 0, N(a))]
             actor == [i \in scope |-> store[i].actor]
  <2>1. IsFiniteSet({actor[i] : i \in scope})
    <3>1. IsFiniteSet(scope) /\ actor = [i \in scope |-> actor[i]]
      BY <1>1, <1>5
    <3> HIDE DEF actor
    <3>. QED  BY <3>1, ValuesFinite
  <2>2. {actor[i] : i \in scope} = ActorsOf(store, scope)
    BY DEF ActorsOf
  <2>3. A \in SUBSET ActorsOf(store, scope)
    OBVIOUS
  <2>4. \A a : FailuresOf(store, scope, a) \in SUBSET DOMAIN store
    BY <1>5 DEF FailuresOf
  <2>5. HighFailureRate(store, scope) = {f[a] : a \in A}
    BY DEF HighFailureRate
  <2>6. f = [a \in A |-> f[a]]
    OBVIOUS
  <2>7. \A a \in A : f[a].severity \in {0, 1} /\ f[a].occurrences = N(a)
    BY <1>3
  <2> HIDE DEF A, f, actor
  <2>8. IsFiniteSet(A)
    BY <2>1, <2>2, <2>3, FS_Subset
  <2>9. IsFiniteSet({f[a] : a \in A})
    BY <2>6, <2>8, ValuesFinite
  <2>. QED  BY <1>1, <2>4, <2>5, <2>7, <2>9
<1>7. /\ IsFiniteSet(RepeatedDenied(store, scope))
      /\ \A a \in RepeatedDenied(store, scope) : a.severity \in {0, 1} /\ a.occurrences \in Int
  <2> DEFINE Denied(r) == {i \in scope : store[i].request = r /\ store[i].outcome = "denied"}
             requests == {store[i].request : i \in scope}
             A == {r \in requests : Cardinality(Denied(r)) >= 2}
             f == [r \in A |-> Anomaly("repeated-denied", r, 0, Cardinality(Denied(r)))]
             request == [i \in scope |-> store[i].request]
  <2>1. IsFiniteSet({request[i] : i \in scope})
    <3>1. IsFiniteSet(scope) /\ request = [i \in scope |-> request[i]]
      BY <1>1, <1>5
    <3> HIDE DEF request
    <3>. QED  BY <3>1, ValuesFinite
  <2>2. {request[i] : i \in scope} = requests
    OBVIOUS
  <2>3. A \in SUBSET requests
    OBVIOUS
  <2>4. \A r : Denied(r) \in SUBSET DOMAIN store
    BY <1>5
  <2>5. RepeatedDenied(store, scope) = {f[r] : r \in A}
    BY DEF RepeatedDenied
  <2>6. f = [r \in A |-> f[r]]
    OBVIOUS
  <2>7. \A r \in A : f[r].severity = 0 /\ f[r].occurrences = Cardinality(Denied(r))
    BY <1>3
  <2> HIDE DEF A, f, request, requests, Denied
  <2>8. IsFiniteSet(A)
    BY <2>1, <2>2, <2>3, FS_Subset
  <2>9. IsFiniteSet({f[r] : r \in A})
    BY <2>6, <2>8, ValuesFinite
  <2>. QED  BY <1>1, <2>4, <2>5, <2>7, <2>9
<1>8. Detected(store) = (CrossTenantRead(store) \union HighFailureRate(store, scope))
                            \union RepeatedDenied(store, scope)
  BY DEF Detected, scope
<1>9. IsFiniteSet(Detected(store))
  BY <1>4, <1>6, <1>7, <1>8, FS_Union
<1>. QED  BY <1>4, <1>6, <1>7, <1>8, <1>9

\* A report leaves out a finding only for TOP_N that are no milder.
LEMMA ReportLeavesOut ==
    ASSUME IsRows(store), ReadInv, NEW f \in Detected(store) \ Reported(store)
    PROVE  /\ Cardinality(Reported(store)) = TOP_N
           /\ f.severity = 0 => \A b \in Reported(store) : b.severity = 0
<1> DEFINE found == Detected(store)
           report == Reported(store)
<1>1. /\ IsFiniteSet(found)
      /\ \A a \in found : a.severity \in {0, 1} /\ a.occurrences \in Int
  BY FindingsCounted
<1>2. \E s \in SUBSET found :
         /\ Cardinality(s) = IF Cardinality(found) < TOP_N THEN Cardinality(found) ELSE TOP_N
         /\ \A a \in s, b \in found \ s : ~Before(b, a)
  <2> HIDE DEF found
  <2>. QED  BY <1>1, ReportIsMade
<1>3. /\ report \in SUBSET found
      /\ Cardinality(report) = IF Cardinality(found) < TOP_N THEN Cardinality(found) ELSE TOP_N
      /\ \A a \in report, b \in found \ report : ~Before(b, a)
  BY <1>2 DEF Reported
<1> HIDE DEF found, report
<1>4. f \in found \ report
  BY DEF found, report
<1>5. Cardinality(report) # Cardinality(found)
  BY <1>1, <1>3, <1>4, FS_Subset
<1>6. ASSUME f.severity = 0, NEW b \in report
      PROVE  b.severity = 0
  <2>1. ~Before(f, b) /\ b.severity \in {0, 1}
    BY <1>1, <1>3, <1>4
  <2>. QED  BY <1>6, <2>1 DEF Before
<1>7. Cardinality(report) = TOP_N
  BY <1>3, <1>5
<1>. QED  BY <1>6, <1>7 DEF report

-----------------------------------------------------------------------------
\* Rows of a call, in the order an answer shows them.
LEMMA RepliesInOrder ==
    ASSUME IsRows(store), ReadInv
    PROVE  ReplayInOrder
<1>1. ASSUME NEW r \in 1 .. ops, NEW i \in Replay(store, r), NEW j \in Replay(store, r),
             Earlier(store, i, j)
      PROVE  store[j].phase # "before"
  <2>1. /\ i \in DOMAIN store /\ j \in DOMAIN store
        /\ store[i].request = r /\ store[j].request = r
    BY DEF Replay, Query
  <2>2. DOMAIN store = 1 .. Len(store) /\ Len(store) \in Nat
    BY DEF IsRows
  <2>3. i \in 1 .. Len(store) /\ j \in 1 .. Len(store)
    BY <2>1, <2>2
  <2>4. r \in Nat \ {0}
    BY DEF ReadInv, RowsOK
  <2>5. store[i].time \in Int /\ store[j].time \in Int
    BY <2>3 DEF ReadInv, RowsOK
  <2>6. j < i => store[j].time <= store[i].time /\ store[i].phase # "before"
    BY <2>1, <2>3, <2>4 DEF ReadInv, RowsOK
  <2>7. i < j
    BY <1>1, <2>2, <2>3, <2>5, <2>6 DEF Earlier
  <2>. QED  BY <2>1, <2>3, <2>4, <2>7 DEF ReadInv, RowsOK
<1>. QED  BY <1>1 DEF ReplayInOrder

LEMMA ScanWhole ==
    ASSUME IsRows(store), IsRows(main), ReadInv
    PROVE  ScanMissesNoFailures
<1> DEFINE wanted == {i \in DOMAIN store : store[i].tenant = Tenant}
           scope == InTenant(store)
           report == Reported(store)
<1>1. wanted \in SUBSET DOMAIN store /\ DOMAIN store = 1 .. Len(store)
  BY DEF IsRows
<1>2. Cardinality(scope) # QUERY_LIMIT => scope = wanted
  <2>1. InTenant(store) = Query(store, wanted)
    BY DEF InTenant
  <2> HIDE DEF wanted
  <2>2. /\ wanted \in SUBSET Int /\ IsFiniteSet(wanted)
        /\ \A k \in wanted : store[k].time \in Int
    BY <1>1, RowIds
  <2>. QED  BY <2>1, <2>2, QueryTakes
<1>3. ASSUME NEW a \in Actors \union {AGENT}
      PROVE  LET failures == {k \in 1 .. Len(store) :
                      /\ store[k].actor = a /\ store[k].tenant = Tenant
                      /\ store[k].phase = "error" \/ store[k].error \/ store[k].outcome = "denied"}
             IN Cardinality(failures) >= MIN_FAILURES =>
                   \/ \E f \in report : f.rule = "high-failure-rate" /\ f.about = a
                   \/ Cardinality(scope) = QUERY_LIMIT
                   \/ /\ Cardinality(report) = TOP_N
                      /\ Cardinality(failures) >= 2 * MIN_FAILURES
                             => \A f \in report : f.severity = 0
  <2> DEFINE failures == {k \in 1 .. Len(store) :
                /\ store[k].actor = a /\ store[k].tenant = Tenant
                /\ store[k].phase = "error" \/ store[k].error \/ store[k].outcome = "denied"}
             n == Cardinality(failures)
             finding == Anomaly("high-failure-rate", a,
                                IF n < 2 * MIN_FAILURES THEN 1 ELSE 0, n)
  <2>1. SUFFICES ASSUME n >= MIN_FAILURES, scope = wanted
                 PROVE  \/ \E f \in report : f.rule = "high-failure-rate" /\ f.about = a
                        \/ /\ Cardinality(report) = TOP_N
                           /\ n >= 2 * MIN_FAILURES => \A f \in report : f.severity = 0
    BY <1>2
  <2>2. FailuresOf(store, scope, a) = failures
    BY <1>1, <2>1 DEF FailuresOf, FailedRow
  <2>3. n \in Nat /\ MIN_FAILURES \in Nat \ {0}
    <3>1. failures \in SUBSET DOMAIN store
      BY <1>1
    <3> HIDE DEF failures
    <3>2. IsFiniteSet(failures)
      BY <3>1, RowIds
    <3>. QED  BY <3>2, FS_CardinalityType, TrailAssumption
  <2>4. a \in ActorsOf(store, scope)
    <3>1. failures # {}
      <4> HIDE DEF failures
      <4>. QED  BY <2>1, <2>3, FS_EmptySet
    <3>2. PICK k \in 1 .. Len(store) : store[k].actor = a /\ store[k].tenant = Tenant
      BY <3>1
    <3>3. k \in scope
      BY <1>1, <2>1, <3>2
    <3>. QED  BY <3>2, <3>3 DEF ActorsOf
  <2> HIDE DEF failures, scope
  <2>5. finding \in HighFailureRate(store, scope)
    BY <2>1, <2>2, <2>4 DEF HighFailureRate
  <2>6. finding \in Detected(store)
    BY <2>5 DEF Detected, scope
  <2>7. /\ finding.rule = "high-failure-rate" /\ finding.about = a
        /\ n >= 2 * MIN_FAILURES => finding.severity = 0
    BY <2>3 DEF Anomaly
  <2> HIDE DEF finding, report
  <2>8. CASE finding \in report
    BY <2>7, <2>8
  <2>9. CASE finding \notin report
    <3>1. finding \in Detected(store) \ Reported(store)
      BY <2>6, <2>9 DEF report
    <3>. QED  BY <2>7, <3>1, ReportLeavesOut DEF report
  <2>. QED  BY <2>8, <2>9
<1>4. \A k \in 1 .. Len(Timeline(main)) :
         FailedRow(Timeline(main)[k].event) => Timeline(main)[k].result = "failed"
  <2>1. \A e : FailedRow(e) => derive_audit_result(e) = "failed"
    BY DEF derive_audit_result
  <2> DEFINE skipped == IF Len(main) > LIST_LIMIT THEN Len(main) - LIST_LIMIT ELSE 0
             Row(e) == [event |-> e, result |-> derive_audit_result(e)]
             rows == [i \in 1 .. Len(main) - skipped |-> Row(main[skipped + i])]
  <2>2. ASSUME NEW k \in 1 .. Len(Timeline(main))
        PROVE  Timeline(main)[k].result = derive_audit_result(Timeline(main)[k].event)
    <3>1. Timeline(main) = rows
      BY DEF Timeline
    <3>2. \A e : Row(e).event = e /\ Row(e).result = derive_audit_result(e)
      OBVIOUS
    <3>3. Len(main) - skipped \in Nat
      BY TrailAssumption DEF IsRows
    <3> HIDE DEF skipped, Row
    <3>4. Len(rows) = Len(main) - skipped
      BY <3>3
    <3>5. Timeline(main)[k] = Row(main[skipped + k])
      BY <2>2, <3>1, <3>4
    <3>. QED  BY <3>2, <3>5
  <2>. QED  BY <2>1, <2>2
<1>. QED  BY <1>3, <1>4 DEF ScanMissesNoFailures

\* A replay shows the events of a call in the order in which they happened, and the
\* scan of the trail misses no actor with MIN_FAILURES failures for which it has room,
\* for any number of threads, calls and failing sinks, any clock and any limits, and
\* whatever rows lie in the store from before.
THEOREM TrailReads == TrailSpec => []TrailReadWhole
<1>1. TrailInv /\ ReadInv => TrailReadWhole
  BY RepliesInOrder, ScanWhole DEF TrailInv, TrailReadWhole
<1>. QED  BY <1>1, TrailInvariance, ReadInvariance, PTL

-----------------------------------------------------------------------------
(* Imported rows: the inductive invariant                                  *)

\* The rows of the pass whose handlers are done with them.
Settled == {r \in dump : phase # "idle" /\ r \notin todo /\ r \notin held /\ r # due}

LoopOK ==
    /\ dump \in Dumps /\ todo \subseteq dump /\ held \subseteq dump \ todo
    /\ due # None => due \in dump
    /\ phase # "reading" => todo = {} /\ held = {} /\ due = None
    /\ phase \in {"idle", "reading", "done"}

\* A catalog that was entered has its one code on file, and what belongs to it
\* is bound to its legacy id until it was rebound, and to its code from then on.
CatalogsOK ==
    /\ \A c \in CatalogRows :
          /\ c.id \in DOMAIN refs => refs[c.id] = {c.code}
          /\ c \in Settled \/ c = due => c.id \in DOMAIN refs
          /\ \A ch \in Children :
                ch.catalog = c.id /\ ch.id \in DOMAIN bound =>
                   bound[ch.id] = c.code \/ (bound[ch.id] = c.id /\ c \notin Settled)
    /\ \A ch \in Children : ch \in Settled => ch.id \in DOMAIN bound

GroupsOK ==
    \A g \in Of(Settled, {"data_catalog_group"}) :
        /\ g.id \in DOMAIN groups
        /\ groups[g.id] = [source |-> "data_catalog_group", status |-> g.status]

AppliesOK ==
    \A a \in Of(dump, {"data_apply"}) :
        /\ a \in Settled \/ a = due => a.id \in DOMAIN apps /\ apps[a.id] = a.status
        /\ a \in Settled /\ a.status = "approved" => a.id \in DOMAIN tasks

AuthorisedOK ==
    \A a \in Of(Settled, {"data_apply_authrization"}) :
        a.apply \in DOMAIN tasks /\ tasks[a.apply] = a.state

ObjectionTables == {"data_objection", "data_objection_process"}

\* Objections and their children are either all held or all replayed.
ObjectionsOK ==
    /\ \A o \in DOMAIN objections :
          \E r \in Of(dump, {"data_objection"}) : r.id = o /\ r.status # "deleted"
    /\ \/ Of(Settled, ObjectionTables) = {}
       \/ Of(todo \union held, ObjectionTables) = {} /\ ObjectionsReplayed
          /\ \A o \in Of(dump, {"data_objection"}) : o.status # "deleted" => o.id \in DOMAIN objections

\* The general rows stay until no service waits for them.
ServicesOK ==
    /\ \A g \in Of(Settled, {"api_service_general"}) :
          Of(todo \union held, {"api_service_info"}) = {}
    /\ \A s \in Of(Settled, {"api_service_info"}) :
          /\ s.id \in DOMAIN services
          /\ services[s.id] = (\E g \in Of(dump, {"api_service_general"}) : g.service = s.id)

OrgsOK ==
    \A d \in Of(Settled, {"sys_department"}) : d.id # None =>
        /\ d.code \in DOMAIN orgs
        /\ \A up \in Of(dump, {"sys_department"}) : d.parent = up.id => orgs[d.code] = up.code

\* When the step of a row counts as taken that was made as the k-th of its case.
TimeOf(r, k) == IF r.at = None THEN ImportTime + k ELSE r.at

\* Each step of a trail was passed when some row of its node says so, or else when
\* it was made, no two were made as the same, and they are numbered by time.
StepsKept(c, S) ==
    /\ IsFiniteSet(DOMAIN S)
    /\ \A n \in DOMAIN S :
          /\ {"at", "no", "made"} \subseteq DOMAIN S[n]
          /\ \E r \in StepRows(dump) :
                r.apply = c /\ r.node = n /\ S[n].at = TimeOf(r, S[n].made)
    /\ \A n \in DOMAIN S : S[n].made \in 1 .. Cardinality(DOMAIN S)
    /\ \A m, n \in DOMAIN S : m # n => S[m].made # S[n].made

Numbered(S) ==
    \A n \in DOMAIN S : S[n].no = Cardinality({m \in DOMAIN S : S[m].at <= S[n].at})

CasesOK ==
    \A c \in DOMAIN cases :
        /\ StepsKept(c, cases[c].steps) /\ Numbered(cases[c].steps)
        /\ cases[c].step = Cardinality(DOMAIN cases[c].steps)

AttemptsOK ==
    \A e \in attempts : \E r \in Of(dump, {"exchange_executor"}) : r.id = e /\ r.job \in DOMAIN tasks

LinksOfRows ==
    /\ \A l \in DOMAIN links : links[l] = [triple |-> links[l].triple, status |-> links[l].status]
    /\ OneActiveLink

RowsInv ==
    /\ LoopOK /\ CatalogsOK /\ GroupsOK /\ AppliesOK /\ AuthorisedOK /\ ObjectionsOK
    /\ ServicesOK /\ OrgsOK /\ CasesOK /\ AttemptsOK /\ LinksOfRows

-----------------------------------------------------------------------------
(* What a step leaves alone                                                *)

\* What Put makes of a table.
IsPut(f, g, key, value) ==
    /\ DOMAIN g = DOMAIN f \union {key} /\ g[key] = value
    /\ \A k \in DOMAIN f : k # key => g[k] = f[k]

LEMMA PutAt ==
    ASSUME NEW f, NEW key, NEW value, NEW g, g = Put(f, key, value)
    PROVE  IsPut(f, g, key, value)
  BY DEF Put, IsPut

\* A step that settles at most the rows R, and reads no row for the first time
\* unless the pass starts.
Advance(R) ==
    /\ dump' = dump /\ Settled' \subseteq Settled \union R
    /\ Settled' = {} \/ todo' \union held' \subseteq todo \union held

NoRowOf(R, tables) == \A r \in R : r.table \notin tables

LEMMA CatalogsFrame ==
    ASSUME RowsInv, NEW R, Advance(R), NoRowOf(R, {"data_catalog"} \union ChildTables),
           UNCHANGED <<refs, bound>>,
           due' \in {due, None} \/ due'.table # "data_catalog"
    PROVE  CatalogsOK'
<1>1. CatalogRows' = CatalogRows /\ Children' = Children
  BY DEF Advance, CatalogRows, Children
<1>2. ASSUME NEW c \in CatalogRows
      PROVE  (c \in Settled' => c \in Settled) /\ (c = due' => c = due)
  <2>1. c \in dump /\ c.table = "data_catalog"
    BY DEF CatalogRows, Of
  <2>2. c # None
    BY <2>1, KeysAssumption DEF RowsInv, LoopOK, KeysMean
  <2> QED BY <2>1, <2>2 DEF Advance, NoRowOf
<1>3. ASSUME NEW ch \in Children PROVE ch \in Settled' => ch \in Settled
  BY DEF Advance, NoRowOf, Children, Of
<1> QED BY <1>1, <1>2, <1>3 DEF RowsInv, CatalogsOK

LEMMA GroupsFrame ==
    ASSUME RowsInv, NEW R, Advance(R), NoRowOf(R, {"data_catalog_group"}),
           \A g \in DOMAIN groups : g \in DOMAIN groups' /\ groups'[g] = groups[g]
    PROVE  GroupsOK'
<1>1. ASSUME NEW g \in Of(Settled', {"data_catalog_group"}) PROVE g \in Of(Settled, {"data_catalog_group"})
  BY DEF Advance, NoRowOf, Of
<1> QED BY <1>1 DEF RowsInv, GroupsOK, Of

LEMMA AppliesFrame ==
    ASSUME RowsInv, NEW R, Advance(R), NoRowOf(R, {"data_apply"}),
           UNCHANGED apps, DOMAIN tasks \subseteq DOMAIN tasks',
           due' \in {due, None} \/ due'.table # "data_apply"
    PROVE  AppliesOK'
<1>1. ASSUME NEW a \in Of(dump, {"data_apply"})
      PROVE  (a \in Settled' => a \in Settled) /\ (a = due' => a = due)
  <2>1. a \in dump /\ a.table = "data_apply"
    BY DEF Of
  <2>2. a # None
    BY <2>1, KeysAssumption DEF RowsInv, LoopOK, KeysMean
  <2> QED BY <2>1, <2>2 DEF Advance, NoRowOf
<1> QED BY <1>1 DEF RowsInv, AppliesOK, Advance

LEMMA AuthorisedFrame ==
    ASSUME RowsInv, NEW R, Advance(R), NoRowOf(R, {"data_apply_authrization"}),
           \A t \in DOMAIN tasks : t \in DOMAIN tasks' /\ tasks'[t] = tasks[t]
    PROVE  AuthorisedOK'
<1>1. ASSUME NEW a \in Of(Settled', {"data_apply_authrization"})
      PROVE  a \in Of(Settled, {"data_apply_authrization"})
  BY DEF Advance, NoRowOf, Of
<1> QED BY <1>1 DEF RowsInv, AuthorisedOK, Of

LEMMA ObjectionsFrame ==
    ASSUME RowsInv, NEW R, Advance(R), NoRowOf(R, ObjectionTables), UNCHANGED objections
    PROVE  ObjectionsOK'
<1>1. Of(Settled', ObjectionTables) \subseteq Of(Settled, ObjectionTables)
  BY DEF Advance, NoRowOf, Of
<1>2. /\ Of(dump', {"data_objection"}) = Of(dump, {"data_objection"})
      /\ ObjectionsReplayed' <=> ObjectionsReplayed
  BY DEF Advance, ObjectionsReplayed
<1>3. CASE Settled' = {}
  <2>1. Of(Settled', ObjectionTables) = {}
    BY <1>3 DEF Of
  <2> QED BY <1>2, <2>1 DEF RowsInv, ObjectionsOK
<1>4. CASE Settled' # {}
  <2>1. Of(todo' \union held', ObjectionTables) \subseteq Of(todo \union held, ObjectionTables)
    BY <1>4 DEF Advance, Of
  <2> QED BY <1>1, <1>2, <2>1 DEF RowsInv, ObjectionsOK
<1> QED BY <1>3, <1>4

LEMMA ServicesFrame ==
    ASSUME RowsInv, NEW R, Advance(R), NoRowOf(R, {"api_service_general", "api_service_info"}),
           UNCHANGED services
    PROVE  ServicesOK'
<1>1. CASE Settled' = {}
  BY <1>1 DEF ServicesOK, Of
<1>2. CASE Settled' # {}
  <2>1. Of(todo' \union held', {"api_service_info"}) \subseteq Of(todo \union held, {"api_service_info"})
    BY <1>2 DEF Advance, Of
  <2>2. /\ Of(Settled', {"api_service_general"}) \subseteq Of(Settled, {"api_service_general"})
        /\ Of(Settled', {"api_service_info"}) \subseteq Of(Settled, {"api_service_info"})
    BY DEF Advance, NoRowOf, Of
  <2>3. dump' = dump
    BY DEF Advance
  <2> QED BY <2>1, <2>2, <2>3 DEF RowsInv, ServicesOK
<1> QED BY <1>1, <1>2

LEMMA OrgsFrame ==
    ASSUME RowsInv, NEW R, Advance(R), NoRowOf(R, {"sys_department"}), UNCHANGED orgs
    PROVE  OrgsOK'
<1>1. Of(Settled', {"sys_department"}) \subseteq Of(Settled, {"sys_department"})
  BY DEF Advance, NoRowOf, Of
<1> QED BY <1>1 DEF RowsInv, OrgsOK, Advance

LEMMA CasesFrame ==
    ASSUME RowsInv, dump' = dump, UNCHANGED cases
    PROVE  CasesOK'
<1>1. ASSUME NEW c, NEW S PROVE StepsKept(c, S)' <=> StepsKept(c, S)
  BY DEF StepsKept
<1>2. ASSUME NEW c \in DOMAIN cases
      PROVE  /\ StepsKept(c, cases[c].steps) /\ Numbered(cases[c].steps)
             /\ cases[c].step = Cardinality(DOMAIN cases[c].steps)
  BY DEF RowsInv, CasesOK
<1>3. ASSUME NEW c \in DOMAIN cases'
      PROVE  /\ StepsKept(c, cases'[c].steps) /\ Numbered(cases'[c].steps)
             /\ cases'[c].step = Cardinality(DOMAIN cases'[c].steps)
  <2>1. c \in DOMAIN cases /\ cases'[c] = cases[c]
    OBVIOUS
  <2> QED BY <1>2, <2>1
<1> QED BY <1>1, <1>3 DEF CasesOK

LEMMA AttemptsFrame ==
    ASSUME RowsInv, dump' = dump, UNCHANGED attempts, DOMAIN tasks \subseteq DOMAIN tasks'
    PROVE  AttemptsOK'
  BY DEF RowsInv, AttemptsOK

LEMMA LinksFrame == ASSUME RowsInv, UNCHANGED links PROVE LinksOfRows'
  BY DEF RowsInv, LinksOfRows, OneActiveLink

\* The tables of a family of mappers left alone.
LEMMA CatalogTablesFrame ==
    ASSUME RowsInv, NEW R, Advance(R),
           NoRowOf(R, {"data_catalog", "data_catalog_group"} \union ChildTables),
           UNCHANGED catalogTables, due' \in {due, None} \/ due'.table # "data_catalog"
    PROVE  CatalogsOK' /\ GroupsOK' /\ LinksOfRows'
<1>1. UNCHANGED <<refs, bound>> /\ UNCHANGED groups /\ UNCHANGED links
  BY DEF catalogTables
<1>2. NoRowOf(R, {"data_catalog"} \union ChildTables) /\ NoRowOf(R, {"data_catalog_group"})
  BY DEF NoRowOf
<1> QED BY <1>1, <1>2, CatalogsFrame, GroupsFrame, LinksFrame

LEMMA ExchangeTablesFrame ==
    ASSUME RowsInv, NEW R, Advance(R), NoRowOf(R, {"data_apply", "data_apply_authrization"}),
           UNCHANGED exchangeTables, due' \in {due, None} \/ due'.table # "data_apply"
    PROVE  AppliesOK' /\ AuthorisedOK' /\ CasesOK' /\ AttemptsOK'
<1>1. UNCHANGED apps /\ UNCHANGED tasks /\ UNCHANGED cases /\ UNCHANGED attempts
  BY DEF exchangeTables
<1>2. NoRowOf(R, {"data_apply"}) /\ NoRowOf(R, {"data_apply_authrization"}) /\ dump' = dump
  BY DEF NoRowOf, Advance
<1> QED BY <1>1, <1>2, AppliesFrame, AuthorisedFrame, CasesFrame, AttemptsFrame

OtherTables == {"data_objection", "data_objection_process", "api_service_info",
                "api_service_general", "sys_department"}

LEMMA OtherTablesFrame ==
    ASSUME RowsInv, NEW R, Advance(R), NoRowOf(R, OtherTables),
           UNCHANGED <<objections, services, orgs>>
    PROVE  ObjectionsOK' /\ ServicesOK' /\ OrgsOK'
<1>1. /\ NoRowOf(R, ObjectionTables) /\ NoRowOf(R, {"api_service_general", "api_service_info"})
      /\ NoRowOf(R, {"sys_department"})
  BY DEF NoRowOf, OtherTables, ObjectionTables
<1> QED BY <1>1, ObjectionsFrame, ServicesFrame, OrgsFrame

-----------------------------------------------------------------------------
(* A row is read                                                           *)

BeginsRead(r) ==
    /\ r \in todo /\ due = None /\ todo' = todo \ {r}
    /\ UNCHANGED <<dump, phase>>

LEMMA RowIsRead ==
    ASSUME RowsInv, NEW r, BeginsRead(r)
    PROVE  /\ r \in dump /\ r # None /\ phase = "reading"
           /\ held' = held /\ due' = due => LoopOK' /\ Advance({r})
           /\ held' = held /\ due' = r => LoopOK' /\ Advance({})
           /\ held' = held \union {r} /\ due' = due => LoopOK' /\ Advance({})
<1>1. LoopOK
  BY DEF RowsInv
<1>2. r \in dump /\ r # None
  BY <1>1, KeysAssumption DEF BeginsRead, LoopOK, KeysMean
<1>3. phase = "reading"
  BY <1>1 DEF BeginsRead, LoopOK
<1>4. ASSUME held' = held, due' = due PROVE LoopOK' /\ Advance({r})
  BY <1>1, <1>3, <1>4 DEF BeginsRead, LoopOK, Advance, Settled
<1>5. ASSUME held' = held, due' = r PROVE LoopOK' /\ Advance({})
  <2>1. Settled' \subseteq Settled
    <3>1. \A x \in Settled' : x \in dump /\ x # r /\ x \notin todo /\ x \notin held
      BY <1>5 DEF BeginsRead, Settled
    <3>2. \A x \in dump : x # None
      BY <1>1, KeysAssumption DEF LoopOK, KeysMean
    <3> QED BY <1>3, <3>1, <3>2 DEF BeginsRead, Settled
  <2> QED BY <1>1, <1>2, <1>3, <1>5, <2>1 DEF BeginsRead, LoopOK, Advance
<1>6. ASSUME held' = held \union {r}, due' = due PROVE LoopOK' /\ Advance({})
  BY <1>1, <1>2, <1>3, <1>6 DEF BeginsRead, LoopOK, Advance, Settled
<1> QED BY <1>2, <1>3, <1>4, <1>5, <1>6

\* The code that is on file for a catalog.
LEMMA CodeOnFile ==
    ASSUME CatalogsOK, NEW c \in CatalogRows
    PROVE  CatalogCodeFor(c.id) = IF c.id \in DOMAIN refs THEN c.code ELSE c.id
<1>1. CASE c.id \in DOMAIN refs
  <2>1. refs[c.id] = {c.code}
    BY <1>1 DEF CatalogsOK
  <2>2. Cardinality({c.code}) = 1
    BY FS_Singleton
  <2> QED BY <1>1, <2>1, <2>2 DEF CatalogCodeFor
<1>2. CASE c.id \notin DOMAIN refs
  <2>1. Cardinality({}) # 1
    BY FS_EmptySet
  <2> QED BY <1>2, <2>1 DEF CatalogCodeFor
<1> QED BY <1>1, <1>2

\* A child is bound to what is on file for its catalog.
LEMMA ChildIsBound ==
    ASSUME RowsInv, NEW r \in Children, Advance({r}), r.table \in ChildTables,
           bound' = Put(bound, r.id, CatalogCodeFor(r.catalog)),
           UNCHANGED refs, due' = due
    PROVE  CatalogsOK'
<1>0. PICK code : code = CatalogCodeFor(r.catalog) /\ IsPut(bound, bound', r.id, code)
  BY PutAt
<1>1. CatalogRows' = CatalogRows /\ Children' = Children
  BY DEF Advance, CatalogRows, Children
<1>2. CatalogsOK /\ KeysMean(dump)
  BY KeysAssumption DEF RowsInv, LoopOK
<1>3. \A c \in CatalogRows : c.table = "data_catalog" /\ (c \in Settled' => c \in Settled)
  BY DEF Advance, CatalogRows, Of, ChildTables
<1>4. ASSUME NEW c \in CatalogRows, NEW ch \in Children, ch.catalog = c.id, ch.id \in DOMAIN bound'
      PROVE  bound'[ch.id] = c.code \/ (bound'[ch.id] = c.id /\ c \notin Settled')
  <2>1. CASE ch.id = r.id
    <3>1. r.catalog = c.id
      BY <1>2, <1>4, <2>1 DEF KeysMean, Children, Of
    <3>2. bound'[ch.id] = CatalogCodeFor(c.id)
      BY <1>0, <2>1, <3>1 DEF IsPut
    <3> QED BY <1>2, <1>3, <3>2, CodeOnFile DEF CatalogsOK
  <2>2. CASE ch.id # r.id
    <3>1. ch.id \in DOMAIN bound /\ bound'[ch.id] = bound[ch.id]
      BY <1>0, <1>4, <2>2 DEF IsPut
    <3> QED BY <1>2, <1>3, <1>4, <3>1 DEF CatalogsOK
  <2> QED BY <2>1, <2>2
<1>5. ASSUME NEW ch \in Children, ch \in Settled' PROVE ch.id \in DOMAIN bound'
  <2>1. DOMAIN bound' = DOMAIN bound \union {r.id}
    BY <1>0 DEF IsPut
  <2> QED BY <1>2, <1>5, <2>1 DEF Advance, CatalogsOK
<1>6. \A c \in CatalogRows : /\ c.id \in DOMAIN refs' => refs'[c.id] = {c.code}
                             /\ c \in Settled' \/ c = due' => c.id \in DOMAIN refs'
  BY <1>2, <1>3 DEF CatalogsOK
<1> QED BY <1>1, <1>4, <1>5, <1>6 DEF CatalogsOK

LEMMA CatalogIsEntered ==
    ASSUME RowsInv, NEW r, BeginsRead(r), MapDataCatalog(r) \/ MapDataBasicElemCatalog(r)
    PROVE  RowsInv'
<1>1. /\ held' = held /\ due' = r /\ UNCHANGED <<bound, groups, links, exchangeTables, otherTables>>
      /\ r.table \in {"data_catalog", "data_basic_elem_catalog"}
  BY DEF MapDataCatalog, MapDataBasicElemCatalog
<1>2. r \in dump /\ LoopOK' /\ Advance({})
  BY <1>1, RowIsRead
<1>3. GroupsOK' /\ LinksOfRows'
  <2>1. NoRowOf({}, {"data_catalog_group"})
    BY DEF NoRowOf
  <2> QED BY <1>1, <1>2, <2>1, GroupsFrame, LinksFrame
<1>4. AppliesOK' /\ AuthorisedOK' /\ CasesOK' /\ AttemptsOK'
  <2>1. NoRowOf({}, {"data_apply", "data_apply_authrization"})
    BY DEF NoRowOf
  <2>2. due'.table # "data_apply"
    BY <1>1
  <2> QED BY <1>1, <1>2, <2>1, <2>2, ExchangeTablesFrame
<1>5. ObjectionsOK' /\ ServicesOK' /\ OrgsOK'
  <2>1. NoRowOf({}, OtherTables)
    BY DEF NoRowOf
  <2> QED BY <1>1, <1>2, <2>1, OtherTablesFrame DEF otherTables
<1>6. CASE r.table = "data_basic_elem_catalog"
  <2>1. refs' = refs
    BY <1>6 DEF MapDataCatalog, MapDataBasicElemCatalog, UpsertEntry
  <2>2. NoRowOf({}, {"data_catalog"} \union ChildTables)
    BY DEF NoRowOf
  <2>3. CatalogsOK'
    BY <1>1, <1>2, <1>6, <2>1, <2>2, CatalogsFrame
  <2> QED BY <1>2, <1>3, <1>4, <1>5, <2>3 DEF RowsInv
<1>7. CASE r.table = "data_catalog"
  <2>1. PICK codes : codes = {r.code} \union (IF r.id \in DOMAIN refs THEN refs[r.id] ELSE {})
    OBVIOUS
  <2>2. refs' = Put(refs, r.id, codes)
    BY <1>7, <2>1 DEF MapDataCatalog, MapDataBasicElemCatalog, UpsertEntry
  <2>3. r \in CatalogRows
    BY <1>2, <1>7 DEF CatalogRows, Of
  <2>4. CatalogsOK /\ KeysMean(dump)
    BY KeysAssumption DEF RowsInv, LoopOK
  <2>5. codes = {r.code}
    BY <2>1, <2>3, <2>4 DEF CatalogsOK
  <2>6. /\ DOMAIN refs' = DOMAIN refs \union {r.id} /\ refs'[r.id] = {r.code}
        /\ \A k \in DOMAIN refs : k # r.id => refs'[k] = refs[k]
    <3>1. IsPut(refs, refs', r.id, codes)
      BY <2>2, PutAt
    <3> QED BY <2>5, <3>1 DEF IsPut
  <2>7. ASSUME NEW c \in CatalogRows
        PROVE  /\ c.id \in DOMAIN refs' => refs'[c.id] = {c.code}
               /\ c \in Settled' \/ c = due' => c.id \in DOMAIN refs'
    <3>1. c.id = r.id => c.code = r.code
      BY <2>3, <2>4 DEF KeysMean, CatalogRows, Of
    <3>2. c \in Settled' \/ c = due' => c.id \in DOMAIN refs'
      BY <1>1, <1>2, <2>4, <2>6 DEF Advance, CatalogsOK
    <3> QED BY <2>4, <2>6, <3>1, <3>2 DEF CatalogsOK
  <2>8. CatalogRows' = CatalogRows /\ Children' = Children /\ bound' = bound
        /\ Settled' \subseteq Settled
    BY <1>1, <1>2 DEF Advance, CatalogRows, Children
  <2>9. CatalogsOK'
    BY <2>4, <2>7, <2>8 DEF CatalogsOK
  <2> QED BY <1>2, <1>3, <1>4, <1>5, <2>9 DEF RowsInv
<1> QED BY <1>1, <1>6, <1>7

\* Items, assets and links.
LEMMA ChildIsRead ==
    ASSUME RowsInv, NEW r, BeginsRead(r),
           \/ MapDataCatalogColumn(r) \/ MapDataResource(r) \/ MapRcResource(r)
           \/ MapResourceCatalogItemLink(r)
    PROVE  RowsInv'
<1>1. /\ held' = held /\ due' = due /\ r.table \in ChildTables
      /\ UNCHANGED <<refs, groups, exchangeTables, otherTables>>
      /\ bound' = Put(bound, r.id, CatalogCodeFor(r.catalog))
  BY DEF MapDataCatalogColumn, MapDataResource, MapRcResource, MapResourceCatalogItemLink,
         UpsertItem, UpsertAsset, UpsertSchemaMapping, ChildTables
<1>2. r \in dump /\ LoopOK' /\ Advance({r})
  BY <1>1, RowIsRead
<1>3. r \in Children
  BY <1>1, <1>2 DEF Children, Of
<1>4. CatalogsOK'
  BY <1>1, <1>2, <1>3, ChildIsBound
<1>5. GroupsOK'
  <2>1. NoRowOf({r}, {"data_catalog_group"})
    BY <1>1 DEF NoRowOf, ChildTables
  <2> QED BY <1>1, <1>2, <2>1, GroupsFrame
<1>6. AppliesOK' /\ AuthorisedOK' /\ CasesOK' /\ AttemptsOK'
  <2>1. NoRowOf({r}, {"data_apply", "data_apply_authrization"})
    BY <1>1 DEF NoRowOf, ChildTables
  <2> QED BY <1>1, <1>2, <2>1, ExchangeTablesFrame
<1>7. ObjectionsOK' /\ ServicesOK' /\ OrgsOK'
  <2>1. NoRowOf({r}, OtherTables)
    BY <1>1 DEF NoRowOf, OtherTables, ChildTables
  <2> QED BY <1>1, <1>2, <2>1, OtherTablesFrame DEF otherTables
<1>8. LinksOfRows'
  <2>1. CASE links' = links
    BY <2>1, LinksFrame
  <2>2. CASE links' # links
    <3>1. PICK newStatus : /\ newStatus = IF HasActiveMapping(r) THEN "superseded" ELSE "active"
                           /\ links' = Put(links, r.id, [triple |-> r.triple, status |-> newStatus])
      BY <2>2 DEF MapDataCatalogColumn, MapDataResource, MapRcResource,
                  MapResourceCatalogItemLink, UpsertSchemaMapping
    <3>2. PICK row : row = [triple |-> r.triple, status |-> newStatus]
      OBVIOUS
    <3>3. row.triple = r.triple /\ row.status = newStatus /\ row = [triple |-> row.triple, status |-> row.status]
      BY <3>2
    <3>4. /\ DOMAIN links' = DOMAIN links \union {r.id} /\ links'[r.id] = row
          /\ \A k \in DOMAIN links : k # r.id => links'[k] = links[k]
      <4>1. IsPut(links, links', r.id, row)
        BY <3>1, <3>2, PutAt
      <4> QED BY <4>1 DEF IsPut
    <3>5. LinksOfRows
      BY DEF RowsInv
    <3>6. \A l \in DOMAIN links' : links'[l] = [triple |-> links'[l].triple, status |-> links'[l].status]
      BY <3>3, <3>4, <3>5 DEF LinksOfRows
    <3>7. ASSUME NEW l \in DOMAIN links, l # r.id, links[l].status = "active", newStatus = "active"
          PROVE  links[l].triple # r.triple
      <4>1. ~HasActiveMapping(r)
        BY <3>1, <3>7
      <4>2. links[l] = [triple |-> links[l].triple, status |-> "active"]
        BY <3>5, <3>7 DEF LinksOfRows
      <4> QED BY <3>7, <4>1, <4>2 DEF HasActiveMapping
    <3>8. ASSUME NEW k \in DOMAIN links', NEW l \in DOMAIN links', k # l,
                 links'[k].status = "active", links'[l].status = "active"
          PROVE  links'[k].triple # links'[l].triple
      <4>1. CASE k = r.id
        BY <3>3, <3>4, <3>7, <3>8, <4>1
      <4>2. CASE l = r.id
        BY <3>3, <3>4, <3>7, <3>8, <4>2
      <4>3. CASE k # r.id /\ l # r.id
        BY <3>4, <3>5, <3>8, <4>3 DEF LinksOfRows, OneActiveLink
      <4> QED BY <4>1, <4>2, <4>3
    <3> QED BY <3>6, <3>8 DEF LinksOfRows, OneActiveLink
  <2> QED BY <2>1, <2>2
<1> QED BY <1>2, <1>4, <1>5, <1>6, <1>7, <1>8 DEF RowsInv

\* Elements of a basic catalog are no children of a catalog.
LEMMA BasicItemIsRead ==
    ASSUME RowsInv, NEW r, BeginsRead(r), MapDataBasicElemCatalogItem(r)
    PROVE  RowsInv'
<1>1. /\ held' = held /\ due' = due /\ r.table = "data_basic_elem_catalog_item"
      /\ UNCHANGED <<refs, groups, links, exchangeTables, otherTables>>
      /\ bound' = Put(bound, r.id, r.code)
  BY DEF MapDataBasicElemCatalogItem, UpsertItem
<1>2. r \in dump /\ LoopOK' /\ Advance({r})
  BY <1>1, RowIsRead
<1>3. PICK code : code = r.code /\ IsPut(bound, bound', r.id, code)
  BY <1>1, PutAt
<1>4. CatalogsOK /\ KeysMean(dump)
  BY KeysAssumption DEF RowsInv, LoopOK
<1>5. r \in Of(dump, {"data_basic_elem_catalog_item"}) /\ r.table \notin ChildTables
  BY <1>1, <1>2 DEF Of, ChildTables
<1>6. CatalogRows' = CatalogRows /\ Children' = Children
  BY <1>2 DEF Advance, CatalogRows, Children
<1>7. ASSUME NEW ch \in Children
      PROVE  /\ ch.id # r.id /\ (ch \in Settled' => ch \in Settled)
             /\ ch.id \in DOMAIN bound' => ch.id \in DOMAIN bound /\ bound'[ch.id] = bound[ch.id]
             /\ ch.id \in DOMAIN bound => ch.id \in DOMAIN bound'
  <2>1. ch.id # r.id
    BY <1>4, <1>5 DEF KeysMean, Children, Of
  <2>2. ch # r
    BY <2>1
  <2> QED BY <1>2, <1>3, <2>1, <2>2 DEF IsPut, Advance
<1>8. \A c \in CatalogRows : c \in Settled' => c \in Settled
  BY <1>1, <1>2 DEF Advance, CatalogRows, Of
<1>9. CatalogsOK'
  BY <1>1, <1>4, <1>6, <1>7, <1>8 DEF CatalogsOK
<1>10. GroupsOK' /\ LinksOfRows'
  <2>1. NoRowOf({r}, {"data_catalog_group"})
    BY <1>1 DEF NoRowOf
  <2> QED BY <1>1, <1>2, <2>1, GroupsFrame, LinksFrame
<1>11. AppliesOK' /\ AuthorisedOK' /\ CasesOK' /\ AttemptsOK'
  <2>1. NoRowOf({r}, {"data_apply", "data_apply_authrization"})
    BY <1>1 DEF NoRowOf
  <2> QED BY <1>1, <1>2, <2>1, ExchangeTablesFrame
<1>12. ObjectionsOK' /\ ServicesOK' /\ OrgsOK'
  <2>1. NoRowOf({r}, OtherTables)
    BY <1>1 DEF NoRowOf, OtherTables
  <2> QED BY <1>1, <1>2, <2>1, OtherTablesFrame DEF otherTables
<1> QED BY <1>2, <1>9, <1>10, <1>11, <1>12 DEF RowsInv

\* A group's own row writes over what catalogs and permissions made of it.
LEMMA GroupIsRead ==
    ASSUME RowsInv, NEW r, BeginsRead(r), MapDataCatalogGroup(r) \/ MapDataGroupPermission(r)
    PROVE  RowsInv'
<1>1. /\ held' = held /\ due' = due /\ r.table \in {"data_catalog_group", "data_group_permission"}
      /\ UNCHANGED <<refs, bound, links, exchangeTables, objections, services, orgs>>
  BY DEF MapDataCatalogGroup, MapDataGroupPermission, otherTables
<1>2. r \in dump /\ LoopOK' /\ Advance({r})
  BY <1>1, RowIsRead
<1>3. CatalogsOK' /\ LinksOfRows'
  <2>1. NoRowOf({r}, {"data_catalog"} \union ChildTables)
    BY <1>1 DEF NoRowOf, ChildTables
  <2> QED BY <1>1, <1>2, <2>1, CatalogsFrame, LinksFrame
<1>4. AppliesOK' /\ AuthorisedOK' /\ CasesOK' /\ AttemptsOK'
  <2>1. NoRowOf({r}, {"data_apply", "data_apply_authrization"})
    BY <1>1 DEF NoRowOf
  <2> QED BY <1>1, <1>2, <2>1, ExchangeTablesFrame
<1>5. ObjectionsOK' /\ ServicesOK' /\ OrgsOK'
  <2>1. NoRowOf({r}, OtherTables)
    BY <1>1 DEF NoRowOf, OtherTables
  <2> QED BY <1>1, <1>2, <2>1, OtherTablesFrame
<1>6. GroupsOK'
  <2>1. CASE r.table = "data_group_permission"
    <3>1. PICK row : groups' = IF r.group \in DOMAIN groups THEN groups ELSE Put(groups, r.group, row)
      BY <2>1 DEF MapDataCatalogGroup, MapDataGroupPermission, Project
    <3>2. groups' = groups \/ IsPut(groups, groups', r.group, row)
      BY <3>1, PutAt
    <3>3. \A g \in DOMAIN groups : g \in DOMAIN groups' /\ groups'[g] = groups[g]
      BY <3>1, <3>2 DEF IsPut
    <3>4. NoRowOf({r}, {"data_catalog_group"})
      BY <2>1 DEF NoRowOf
    <3> QED BY <1>2, <3>3, <3>4, GroupsFrame
  <2>2. CASE r.table = "data_catalog_group"
    <3>1. PICK row : row = [source |-> "data_catalog_group", status |-> r.status]
      OBVIOUS
    <3>2. groups' = Put(groups, r.id, row)
      BY <2>2, <3>1 DEF MapDataCatalogGroup, MapDataGroupPermission, Project
    <3>3. IsPut(groups, groups', r.id, row)
      BY <3>2, PutAt
    <3>4. GroupsOK /\ KeysMean(dump)
      BY KeysAssumption DEF RowsInv, LoopOK
    <3>5. ASSUME NEW g \in Of(Settled', {"data_catalog_group"})
          PROVE  /\ g.id \in DOMAIN groups'
                 /\ groups'[g.id] = [source |-> "data_catalog_group", status |-> g.status]
      <4>1. g.table = "data_catalog_group" /\ g \in dump /\ (g = r \/ g \in Settled)
        BY <1>2, <3>5 DEF Of, Advance, Settled
      <4>2. g.id = r.id => g.status = r.status
        BY <1>2, <2>2, <3>4, <4>1 DEF KeysMean, Of
      <4>3. g \in Settled => g \in Of(Settled, {"data_catalog_group"})
        BY <4>1 DEF Of
      <4> QED BY <3>1, <3>3, <3>4, <4>1, <4>2, <4>3 DEF GroupsOK, IsPut
    <3> QED BY <3>5 DEF GroupsOK
  <2> QED BY <1>1, <2>1, <2>2
<1> QED BY <1>2, <1>3, <1>4, <1>5, <1>6 DEF RowsInv

\* An application, with its delivery to come if it was approved, or a requirement.
LEMMA RequestIsRead ==
    ASSUME RowsInv, NEW r, BeginsRead(r),
           MapDataApply(r) \/ MapDataRequire(r) \/ MapDataOriginalRequire(r)
    PROVE  RowsInv'
<1>1. /\ held' = held /\ due' \in {due, r}
      /\ r.table \in {"data_apply", "data_require", "data_original_require"}
      /\ r.table = "data_apply" /\ r.status = "approved" => due' = r
      /\ UNCHANGED <<tasks, cases, attempts, catalogTables, otherTables>>
      /\ apps' = Put(apps, r.id, r.status)
  BY DEF MapDataApply, MapDataRequire, MapDataOriginalRequire, UpsertFromRequest, BeginsRead
<1>2. r \in dump /\ r # None /\ LoopOK' /\ Advance({r})
  <2>1. Advance({}) => Advance({r})
    BY DEF Advance
  <2> QED BY <1>1, <2>1, RowIsRead
<1>3. due' = r => Settled' \subseteq Settled
  BY <1>1, RowIsRead DEF Advance
<1>4. CatalogsOK' /\ GroupsOK' /\ LinksOfRows'
  <2>1. NoRowOf({r}, {"data_catalog", "data_catalog_group"} \union ChildTables)
    BY <1>1 DEF NoRowOf, ChildTables
  <2>2. due' \in {due, None} \/ due'.table # "data_catalog"
    BY <1>1
  <2> QED BY <1>1, <1>2, <2>1, <2>2, CatalogTablesFrame
<1>5. AuthorisedOK' /\ CasesOK' /\ AttemptsOK'
  <2>1. NoRowOf({r}, {"data_apply_authrization"}) /\ dump' = dump
    BY <1>1, <1>2 DEF NoRowOf, Advance
  <2> QED BY <1>1, <1>2, <2>1, AuthorisedFrame, CasesFrame, AttemptsFrame
<1>6. ObjectionsOK' /\ ServicesOK' /\ OrgsOK'
  <2>1. NoRowOf({r}, OtherTables)
    BY <1>1 DEF NoRowOf, OtherTables
  <2> QED BY <1>1, <1>2, <2>1, OtherTablesFrame DEF otherTables
<1>7. AppliesOK'
  <2>1. AppliesOK /\ KeysMean(dump)
    BY KeysAssumption DEF RowsInv, LoopOK
  <2>2. PICK newStatus : newStatus = r.status /\ IsPut(apps, apps', r.id, newStatus)
    BY <1>1, PutAt
  <2>3. ASSUME NEW a \in Of(dump, {"data_apply"})
        PROVE  /\ a \in Settled' \/ a = due' => a.id \in DOMAIN apps' /\ apps'[a.id] = a.status
               /\ a \in Settled' /\ a.status = "approved" => a.id \in DOMAIN tasks'
    <3>1. a.id = r.id => a.status = r.status
      BY <1>1, <1>2, <2>1 DEF KeysMean, Of
    <3>2. a \in dump /\ a.table = "data_apply" /\ (a = r \/ a \in Settled' => a = r \/ a \in Settled)
      BY <1>2, <2>3 DEF Of, Advance
    <3>3. a # None
      BY <2>1, <3>2 DEF KeysMean
    <3>4. a = due' => a = r
      BY <1>1, <3>3 DEF BeginsRead
    <3>5. a \in Settled' \/ a = due' => a.id \in DOMAIN apps' /\ apps'[a.id] = a.status
      BY <2>1, <2>2, <3>1, <3>2, <3>4 DEF AppliesOK, IsPut
    <3>6. a \in Settled' /\ a.status = "approved" => a \in Settled
      BY <1>1, <1>3, <3>2
    <3> QED BY <1>1, <2>1, <3>5, <3>6 DEF AppliesOK
  <2> QED BY <1>2, <2>3 DEF AppliesOK, Advance
<1> QED BY <1>2, <1>4, <1>5, <1>6, <1>7 DEF RowsInv

\* An authorisation, or a subscription, writes a task.
LEMMA TaskIsRead ==
    ASSUME RowsInv, NEW r, BeginsRead(r), MapDataApplyAuthrization(r) \/ MapSubscribeJob(r)
    PROVE  RowsInv'
<1>1. /\ held' = held /\ due' = due /\ r.table \in {"data_apply_authrization", "subscribe_job"}
      /\ UNCHANGED <<apps, cases, attempts, catalogTables, objections, services, orgs>>
  BY DEF MapDataApplyAuthrization, MapSubscribeJob, otherTables
<1>2. r \in dump /\ LoopOK' /\ Advance({r})
  BY <1>1, RowIsRead
<1>3. PICK key, state :
         /\ IsPut(tasks, tasks', key, state) /\ state = r.state
         /\ key = IF r.table = "data_apply_authrization" THEN r.apply ELSE r.id
  BY <1>1, PutAt DEF MapDataApplyAuthrization, MapSubscribeJob
<1>4. CatalogsOK' /\ GroupsOK' /\ LinksOfRows'
  <2>1. NoRowOf({r}, {"data_catalog", "data_catalog_group"} \union ChildTables)
    BY <1>1 DEF NoRowOf, ChildTables
  <2> QED BY <1>1, <1>2, <2>1, CatalogTablesFrame
<1>5. AppliesOK' /\ CasesOK' /\ AttemptsOK'
  <2>1. NoRowOf({r}, {"data_apply"}) /\ dump' = dump /\ DOMAIN tasks \subseteq DOMAIN tasks'
    BY <1>1, <1>2, <1>3 DEF NoRowOf, Advance, IsPut
  <2> QED BY <1>1, <1>2, <2>1, AppliesFrame, CasesFrame, AttemptsFrame
<1>6. ObjectionsOK' /\ ServicesOK' /\ OrgsOK'
  <2>1. NoRowOf({r}, OtherTables)
    BY <1>1 DEF NoRowOf, OtherTables
  <2> QED BY <1>1, <1>2, <2>1, OtherTablesFrame
<1>7. AuthorisedOK'
  <2>1. AuthorisedOK /\ KeysMean(dump)
    BY KeysAssumption DEF RowsInv, LoopOK
  <2>2. ASSUME NEW a \in Of(Settled', {"data_apply_authrization"})
        PROVE  a.apply \in DOMAIN tasks' /\ tasks'[a.apply] = a.state
    <3>1. a \in dump /\ a.table = "data_apply_authrization" /\ (a = r \/ a \in Settled)
      BY <1>2, <2>2 DEF Of, Advance, Settled
    <3>2. a \in Of(dump, {"data_apply_authrization"})
      BY <3>1 DEF Of
    <3>3. a.apply = key => a.state = state
      <4>1. CASE r.table = "data_apply_authrization"
        BY <1>2, <1>3, <2>1, <3>2, <4>1 DEF KeysMean, Of
      <4>2. CASE r.table = "subscribe_job"
        BY <1>2, <1>3, <2>1, <3>2, <4>2 DEF KeysMean, Of
      <4> QED BY <1>1, <4>1, <4>2
    <3>4. a = r => a.apply = key
      BY <1>3, <3>1
    <3>5. a \in Settled => a.apply \in DOMAIN tasks /\ tasks[a.apply] = a.state
      BY <2>1, <3>1 DEF AuthorisedOK, Of
    <3> QED BY <1>3, <3>1, <3>3, <3>4, <3>5 DEF IsPut
  <2> QED BY <2>2 DEF AuthorisedOK
<1> QED BY <1>2, <1>4, <1>5, <1>6, <1>7 DEF RowsInv

\* A step is added to a trail, or written over, and all are numbered again.
LEMMA RenumberedSteps ==
    ASSUME NEW c, NEW S, StepsKept(c, S), NEW T, T = Renumber(S)
    PROVE  StepsKept(c, T) /\ Numbered(T) /\ DOMAIN T = DOMAIN S
<1>1. DOMAIN T = DOMAIN S
  BY DEF Renumber
<1>2. ASSUME NEW n \in DOMAIN S
      PROVE  /\ DOMAIN T[n] = DOMAIN S[n] /\ T[n].at = S[n].at /\ T[n].made = S[n].made
             /\ T[n].no = Cardinality({m \in DOMAIN S : S[m].at <= S[n].at})
  <2>1. PICK k : k = Cardinality({m \in DOMAIN S : S[m].at <= S[n].at})
    OBVIOUS
  <2>2. T[n] = [S[n] EXCEPT !.no = k]
    BY <2>1 DEF Renumber
  <2>3. {"at", "no", "made"} \subseteq DOMAIN S[n]
    BY DEF StepsKept
  <2> QED BY <2>1, <2>2, <2>3
<1>3. StepsKept(c, T)
  <2>1. ASSUME NEW n \in DOMAIN T
        PROVE  /\ {"at", "no", "made"} \subseteq DOMAIN T[n]
               /\ \E r \in StepRows(dump) :
                     r.apply = c /\ r.node = n /\ T[n].at = TimeOf(r, T[n].made)
    <3>1. n \in DOMAIN S /\ DOMAIN T[n] = DOMAIN S[n]
          /\ T[n].at = S[n].at /\ T[n].made = S[n].made
      BY <1>1, <1>2
    <3> QED BY <3>1 DEF StepsKept
  <2>2. IsFiniteSet(DOMAIN T)
    BY <1>1 DEF StepsKept
  <2>3. \A n \in DOMAIN T : T[n].made \in 1 .. Cardinality(DOMAIN T)
    BY <1>1, <1>2 DEF StepsKept
  <2>4. ASSUME NEW m \in DOMAIN T, NEW n \in DOMAIN T, m # n
        PROVE  T[m].made # T[n].made
    <3>1. S[m].made # S[n].made
      BY <1>1, <2>4 DEF StepsKept
    <3> QED BY <1>1, <1>2, <3>1
  <2> QED BY <2>1, <2>2, <2>3, <2>4 DEF StepsKept
<1>4. Numbered(T)
  <2>1. ASSUME NEW n \in DOMAIN S
        PROVE  {m \in DOMAIN T : T[m].at <= T[n].at} = {m \in DOMAIN S : S[m].at <= S[n].at}
    BY <1>1, <1>2
  <2> QED BY <1>1, <1>2, <2>1 DEF Numbered
<1> QED BY <1>1, <1>3, <1>4

LEMMA StepIsTaken ==
    ASSUME CasesOK, NEW r \in StepRows(dump), dump' = dump, NEW newStatus,
           cases' = Put(cases, r.apply, WithStep(CaseBefore(r), r, newStatus))
    PROVE  CasesOK'
<1>1. PICK case : case = CaseBefore(r)
  OBVIOUS
<1>2. PICK S0 : S0 = case.steps
  OBVIOUS
<1>3. StepsKept(r.apply, S0) /\ case.step = Cardinality(DOMAIN S0)
  <2>1. CASE r.apply \in DOMAIN cases
    <3>1. S0 = cases[r.apply].steps /\ case = cases[r.apply]
      BY <1>1, <1>2, <2>1 DEF CaseBefore
    <3> QED BY <2>1, <3>1 DEF CasesOK
  <2>2. CASE r.apply \notin DOMAIN cases
    <3>1. S0 = << >> /\ case.step = 0
      BY <1>1, <1>2, <2>2 DEF CaseBefore
    <3>2. DOMAIN S0 = {}
      BY <3>1
    <3>3. IsFiniteSet(DOMAIN S0) /\ Cardinality(DOMAIN S0) = 0
      BY <3>2, FS_EmptySet
    <3> QED BY <3>1, <3>2, <3>3 DEF StepsKept
  <2> QED BY <2>1, <2>2
<1>4. PICK taken : taken = StepOf(case, r)
  OBVIOUS
<1>a. PICK k : k = MadeNo(case, r.node)
  OBVIOUS
<1>5. /\ taken.at = TimeOf(r, k) /\ taken.made = k
      /\ {"at", "no", "made"} \subseteq DOMAIN taken
  BY <1>4, <1>a DEF StepOf, TimeOf
<1>b. k = IF r.node \in DOMAIN S0 THEN S0[r.node].made ELSE Cardinality(DOMAIN S0) + 1
  BY <1>2, <1>3, <1>a DEF MadeNo
<1>6. PICK S1 : S1 = Put(S0, r.node, taken)
  OBVIOUS
<1>7. IsPut(S0, S1, r.node, taken)
  BY <1>6, PutAt
<1>8. StepsKept(r.apply, S1)
  <2>1. IsFiniteSet(DOMAIN S1)
    BY <1>3, <1>7, FS_AddElement DEF StepsKept, IsPut
  <2>2. ASSUME NEW n \in DOMAIN S1
        PROVE  /\ {"at", "no", "made"} \subseteq DOMAIN S1[n]
               /\ \E q \in StepRows(dump) :
                     q.apply = r.apply /\ q.node = n /\ S1[n].at = TimeOf(q, S1[n].made)
    <3>1. CASE n = r.node
      BY <1>5, <1>7, <3>1 DEF IsPut
    <3>2. CASE n # r.node
      BY <1>3, <1>7, <2>2, <3>2 DEF IsPut, StepsKept
    <3> QED BY <3>1, <3>2
  <2>3. PICK N : N = Cardinality(DOMAIN S0)
    OBVIOUS
  <2>4. /\ N \in Nat /\ \A n \in DOMAIN S0 : S0[n].made \in 1 .. N
        /\ \A m, n \in DOMAIN S0 : m # n => S0[m].made # S0[n].made
    BY <1>3, <2>3, FS_CardinalityType DEF StepsKept
  <2>5. CASE r.node \in DOMAIN S0
    <3>1. DOMAIN S1 = DOMAIN S0 /\ k = S0[r.node].made
      BY <1>7, <1>b, <2>5 DEF IsPut
    <3>2. \A n \in DOMAIN S1 : S1[n].made = S0[n].made
      BY <1>5, <1>7, <3>1 DEF IsPut
    <3>3. \A n \in DOMAIN S1 : S1[n].made \in 1 .. Cardinality(DOMAIN S1)
      BY <2>3, <2>4, <3>1, <3>2
    <3>4. \A m, n \in DOMAIN S1 : m # n => S1[m].made # S1[n].made
      BY <2>4, <3>1, <3>2
    <3> QED BY <2>1, <2>2, <3>3, <3>4 DEF StepsKept
  <2>6. CASE r.node \notin DOMAIN S0
    <3>1. /\ DOMAIN S1 = DOMAIN S0 \union {r.node} /\ k = N + 1
          /\ S1[r.node].made = N + 1
          /\ \A n \in DOMAIN S0 : n # r.node /\ S1[n].made = S0[n].made
      BY <1>5, <1>7, <1>b, <2>3, <2>6 DEF IsPut
    <3>2. Cardinality(DOMAIN S1) = N + 1
      <4>1. IsFiniteSet(DOMAIN S0)
        BY <1>3 DEF StepsKept
      <4>2. Cardinality(DOMAIN S0 \union {r.node}) = Cardinality(DOMAIN S0) + 1
        BY <2>6, <4>1, FS_AddElement
      <4> QED BY <2>3, <3>1, <4>2
    <3>3. \A n \in DOMAIN S1 : S1[n].made \in 1 .. (N + 1)
      BY <2>4, <3>1
    <3>4. \A m, n \in DOMAIN S1 : m # n => S1[m].made # S1[n].made
      BY <2>4, <3>1
    <3> QED BY <2>1, <2>2, <3>2, <3>3, <3>4 DEF StepsKept
  <2> QED BY <2>5, <2>6
<1>9. PICK S2 : S2 = Renumber(S1)
  OBVIOUS
<1>10. StepsKept(r.apply, S2) /\ Numbered(S2)
  BY <1>8, <1>9, RenumberedSteps
<1>11. PICK new : new = WithStep(case, r, newStatus)
  OBVIOUS
<1>12. new.steps = S2 /\ new.step = Cardinality(DOMAIN S2)
  BY <1>2, <1>4, <1>6, <1>9, <1>11 DEF WithStep
<1>13. IsPut(cases, cases', r.apply, new)
  BY <1>1, <1>11, PutAt
<1>14. ASSUME NEW c \in DOMAIN cases'
       PROVE  /\ StepsKept(c, cases'[c].steps) /\ Numbered(cases'[c].steps)
              /\ cases'[c].step = Cardinality(DOMAIN cases'[c].steps)
  <2>1. CASE c = r.apply
    BY <1>10, <1>12, <1>13, <2>1 DEF IsPut
  <2>2. CASE c # r.apply
    <3>1. c \in DOMAIN cases /\ cases'[c] = cases[c]
      BY <1>13, <1>14, <2>2 DEF IsPut
    <3> QED BY <3>1 DEF CasesOK
  <2> QED BY <2>1, <2>2
<1>15. ASSUME NEW c, NEW S PROVE StepsKept(c, S)' <=> StepsKept(c, S)
  BY DEF StepsKept
<1> QED BY <1>14, <1>15 DEF CasesOK

LEMMA TrailIsRead ==
    ASSUME RowsInv, NEW r, BeginsRead(r),
           MapDataApplyCourse(r) \/ MapDataApplyDeptApprove(r) \/ MapResourceFlowLog(r)
    PROVE  RowsInv'
<1>1. /\ held' = held /\ due' = due
      /\ r.table \in {"data_apply_course", "data_apply_dept_approve", "resource_flow_log"}
      /\ UNCHANGED <<apps, tasks, attempts, catalogTables, otherTables>>
  BY DEF MapDataApplyCourse, MapDataApplyDeptApprove, MapResourceFlowLog
<1>2. r \in dump /\ LoopOK' /\ Advance({r})
  BY <1>1, RowIsRead
<1>3. CatalogsOK' /\ GroupsOK' /\ LinksOfRows'
  <2>1. NoRowOf({r}, {"data_catalog", "data_catalog_group"} \union ChildTables)
    BY <1>1 DEF NoRowOf, ChildTables
  <2> QED BY <1>1, <1>2, <2>1, CatalogTablesFrame
<1>4. AppliesOK' /\ AuthorisedOK' /\ AttemptsOK'
  <2>1. NoRowOf({r}, {"data_apply"}) /\ NoRowOf({r}, {"data_apply_authrization"}) /\ dump' = dump
    BY <1>1, <1>2 DEF NoRowOf, Advance
  <2> QED BY <1>1, <1>2, <2>1, AppliesFrame, AuthorisedFrame, AttemptsFrame
<1>5. ObjectionsOK' /\ ServicesOK' /\ OrgsOK'
  <2>1. NoRowOf({r}, OtherTables)
    BY <1>1 DEF NoRowOf, OtherTables
  <2> QED BY <1>1, <1>2, <2>1, OtherTablesFrame DEF otherTables
<1>6. CasesOK'
  <2>1. dump' = dump /\ CasesOK
    BY <1>2 DEF Advance, RowsInv
  <2>2. CASE cases' = cases
    BY <2>1, <2>2, CasesFrame
  <2>3. CASE cases' # cases
    <3>1. PICK newStatus : cases' = Put(cases, r.apply, WithStep(CaseBefore(r), r, newStatus))
      BY <2>3 DEF MapDataApplyCourse, MapDataApplyDeptApprove, MapResourceFlowLog
    <3>2. r \in StepRows(dump)
      BY <1>1, <1>2, <2>3 DEF MapDataApplyCourse, MapDataApplyDeptApprove, MapResourceFlowLog,
                              StepRows, Of
    <3> QED BY <2>1, <3>1, <3>2, StepIsTaken
  <2> QED BY <2>2, <2>3
<1> QED BY <1>2, <1>3, <1>4, <1>5, <1>6 DEF RowsInv

\* An organ of a department's code is under the same parent.
LEMMA OrganIsRead ==
    ASSUME RowsInv, NEW r, BeginsRead(r), MapOrgan(r)
    PROVE  RowsInv'
<1>1. /\ held' = held /\ due' = due /\ r.table = "pub_organ"
      /\ UNCHANGED <<objections, services, catalogTables, exchangeTables>>
      /\ orgs' = Put(orgs, r.code, r.parent)
  BY DEF MapOrgan
<1>2. r \in dump /\ LoopOK' /\ Advance({r})
  BY <1>1, RowIsRead
<1>3. CatalogsOK' /\ GroupsOK' /\ LinksOfRows'
  <2>1. NoRowOf({r}, {"data_catalog", "data_catalog_group"} \union ChildTables)
    BY <1>1 DEF NoRowOf, ChildTables
  <2> QED BY <1>1, <1>2, <2>1, CatalogTablesFrame
<1>4. AppliesOK' /\ AuthorisedOK' /\ CasesOK' /\ AttemptsOK'
  <2>1. NoRowOf({r}, {"data_apply", "data_apply_authrization"})
    BY <1>1 DEF NoRowOf
  <2> QED BY <1>1, <1>2, <2>1, ExchangeTablesFrame
<1>5. ObjectionsOK' /\ ServicesOK'
  <2>1. NoRowOf({r}, ObjectionTables) /\ NoRowOf({r}, {"api_service_general", "api_service_info"})
    BY <1>1 DEF NoRowOf, ObjectionTables
  <2> QED BY <1>1, <1>2, <2>1, ObjectionsFrame, ServicesFrame
<1>6. OrgsOK'
  <2>1. PICK parent : parent = r.parent /\ IsPut(orgs, orgs', r.code, parent)
    BY <1>1, PutAt
  <2>2. OrgsOK /\ KeysMean(dump)
    BY KeysAssumption DEF RowsInv, LoopOK
  <2>3. ASSUME NEW d \in Of(Settled', {"sys_department"}), d.id # None
        PROVE  /\ d.code \in DOMAIN orgs'
               /\ \A up \in Of(dump, {"sys_department"}) : d.parent = up.id => orgs'[d.code] = up.code
    <3>1. d \in Of(Settled, {"sys_department"}) /\ d \in Of(dump, {"sys_department"})
      BY <1>1, <1>2, <2>3 DEF Of, Advance, Settled
    <3>2. \A up \in Of(dump, {"sys_department"}) : r.code = d.code /\ d.parent = up.id => parent = up.code
      BY <1>1, <1>2, <2>1, <2>2, <3>1 DEF KeysMean, Of
    <3> QED BY <2>1, <2>2, <2>3, <3>1, <3>2 DEF OrgsOK, IsPut
  <2> QED BY <1>2, <2>3 DEF OrgsOK, Advance
<1> QED BY <1>2, <1>3, <1>4, <1>5, <1>6 DEF RowsInv

\* The tables whose rows nothing here refers to.
PlainTables ==
    {"rc_resource_table", "rc_resource_file", "rc_resource_url", "rc_resource_api",
     "db_meta_table", "db_meta_column", "meta_baseinfo", "meta_baseinfo_history",
     "meta_table_column", "meta_gather_task", "meta_relation", "rc_catalog_materialize",
     "catalog_quality_task", "catalog_quality_result", "graphdb_relation", "exchange_pipelines",
     "api_service_data", "api_service_proxy", "api_service_catalog", "api_group",
     "api_service_app", "api_service_times", "warning_message_info", "ip_connection_failure",
     "warning_notice_rules", "matter_handle", "matter_manage", "warning_handle_process",
     "interface_result", "product_call_result", "kpi_index_info", "dc_catalog", "meta_database",
     "pub_region", "pub_dict", "pub_role", "pub_apps", "sys_region", "sys_role"}

LEMMA PlainIsRead ==
    ASSUME RowsInv, NEW r, BeginsRead(r), r.table \in PlainTables, NEW record, MapPlain(r, record)
    PROVE  RowsInv'
<1>1. /\ held' = held /\ due' = due
      /\ UNCHANGED <<objections, services, orgs, catalogTables, exchangeTables>>
  BY DEF MapPlain
<1>2. r \in dump /\ LoopOK' /\ Advance({r})
  BY <1>1, RowIsRead
<1>3. /\ NoRowOf({r}, {"data_catalog", "data_catalog_group"} \union ChildTables)
      /\ NoRowOf({r}, {"data_apply", "data_apply_authrization"}) /\ NoRowOf({r}, OtherTables)
  BY DEF NoRowOf, ChildTables, OtherTables, PlainTables
<1> QED BY <1>1, <1>2, <1>3, CatalogTablesFrame, ExchangeTablesFrame, OtherTablesFrame DEF RowsInv

LEMMA RowIsHeld ==
    ASSUME RowsInv, NEW r, BeginsRead(r), Hold(r)
    PROVE  RowsInv'
<1>1. /\ held' = held \union {r} /\ due' = due
      /\ UNCHANGED <<catalogTables, exchangeTables, objections, services, orgs>>
  BY DEF Hold, otherTables
<1>2. LoopOK' /\ Advance({})
  BY <1>1, RowIsRead
<1>3. /\ NoRowOf({}, {"data_catalog", "data_catalog_group"} \union ChildTables)
      /\ NoRowOf({}, {"data_apply", "data_apply_authrization"}) /\ NoRowOf({}, OtherTables)
  BY DEF NoRowOf
<1> QED BY <1>1, <1>2, <1>3, CatalogTablesFrame, ExchangeTablesFrame, OtherTablesFrame DEF RowsInv

LEMMA ReadStep ==
    ASSUME RowsInv, NEW r \in todo, Read(r)
    PROVE  RowsInv'
<1>1. BeginsRead(r)
  BY DEF Read, BeginsRead
<1>2. CASE CatalogMetadataMapper(r)
  <2>1. \/ MapDataCatalog(r) \/ MapDataBasicElemCatalog(r)
        \/ MapDataCatalogColumn(r) \/ MapDataResource(r) \/ MapRcResource(r)
        \/ MapResourceCatalogItemLink(r)
        \/ MapDataBasicElemCatalogItem(r)
        \/ MapDataCatalogGroup(r) \/ MapDataGroupPermission(r)
        \/ MapResourceFlowLog(r)
        \/ r.table \in PlainTables /\ \E record : MapPlain(r, record)
    BY <1>2 DEF CatalogMetadataMapper, PlainTables
  <2> QED BY <1>1, <2>1, CatalogIsEntered, ChildIsRead, BasicItemIsRead, GroupIsRead, TrailIsRead,
             PlainIsRead
<1>3. CASE ExchangeMapper(r)
  BY <1>1, <1>3, RequestIsRead, TrailIsRead, TaskIsRead DEF ExchangeMapper
<1>4. CASE PipelinesMapper(r) \/ ServiceMapper(r) \/ ObjectionMapper(r)
  <2>1. \/ MapSubscribeJob(r) \/ Hold(r)
        \/ r.table \in PlainTables /\ \E record : MapPlain(r, record)
    BY <1>4 DEF PipelinesMapper, ServiceMapper, ObjectionMapper, PlainTables
  <2> QED BY <1>1, <2>1, TaskIsRead, RowIsHeld, PlainIsRead
<1>5. CASE \/ GraphLineageMapper(r) \/ MonitorMapper(r) \/ PerformMapper(r) \/ ConnectMapper(r)
           \/ DatasourceEndpointMapper(r) \/ GovernanceMapper(r)
  <2>1. \/ MapOrgan(r) \/ Hold(r)
        \/ r.table \in PlainTables /\ \E record : MapPlain(r, record)
    BY <1>5 DEF GraphLineageMapper, MonitorMapper, PerformMapper, ConnectMapper,
                DatasourceEndpointMapper, GovernanceMapper, PlainTables
  <2> QED BY <1>1, <2>1, OrganIsRead, RowIsHeld, PlainIsRead
<1> QED BY <1>2, <1>3, <1>4, <1>5 DEF Read

-----------------------------------------------------------------------------
(* The other steps of a pass                                               *)

LEMMA DueIsDone ==
    ASSUME RowsInv, due # None, due' = None, UNCHANGED <<dump, todo, held, phase>>
    PROVE  LoopOK' /\ Advance({due})
  BY DEF RowsInv, LoopOK, Advance, Settled

\* What was bound to the legacy id of a catalog, or of a basic catalog, moves over
\* to its code; a group that has a row keeps it.
LEMMA CatalogIsDone ==
    ASSUME RowsInv, FinishDataCatalog
    PROVE  RowsInv'
<1>1. /\ due # None /\ due.table \in {"data_catalog", "data_basic_elem_catalog"} /\ due' = None
      /\ UNCHANGED <<dump, todo, held, phase, refs, links, exchangeTables, otherTables>>
      /\ bound' = Rebound(due.id, due.code)
  BY DEF FinishDataCatalog
<1>2. LoopOK' /\ Advance({due}) /\ due \in dump
  BY <1>1, DueIsDone DEF RowsInv, LoopOK
<1>3. CatalogsOK'
  <2>1. CatalogsOK /\ KeysMean(dump)
    BY KeysAssumption DEF RowsInv, LoopOK
  <2>2. CatalogRows' = CatalogRows /\ Children' = Children
    BY <1>2 DEF Advance, CatalogRows, Children
  <2>3. /\ DOMAIN bound' = DOMAIN bound
        /\ \A k \in DOMAIN bound : bound'[k] = IF bound[k] = due.id THEN due.code ELSE bound[k]
    BY <1>1 DEF Rebound
  <2>4. ASSUME NEW c \in CatalogRows
        PROVE  /\ due.id \in {c.id, c.code} => due.code = c.code
               /\ c \in Settled' => c = due \/ c \in Settled
               /\ c # None
    <3>1. c \in dump /\ c \in Of(dump, {"data_catalog"})
      BY DEF CatalogRows, Of
    <3>2. due \in Of(dump, {"data_catalog", "data_basic_elem_catalog"})
      BY <1>1, <1>2 DEF Of
    <3>3. c # None
      BY <2>1, <3>1 DEF KeysMean
    <3> QED BY <1>2, <2>1, <3>1, <3>2, <3>3 DEF KeysMean, Advance
  <2>5. ASSUME NEW c \in CatalogRows
        PROVE  /\ c.id \in DOMAIN refs' => refs'[c.id] = {c.code}
               /\ c \in Settled' \/ c = due' => c.id \in DOMAIN refs'
    BY <1>1, <2>1, <2>4 DEF CatalogsOK
  <2>6. ASSUME NEW c \in CatalogRows, NEW ch \in Children, ch.catalog = c.id, ch.id \in DOMAIN bound'
        PROVE  bound'[ch.id] = c.code \/ (bound'[ch.id] = c.id /\ c \notin Settled')
    <3>1. ch.id \in DOMAIN bound /\ (bound[ch.id] = c.code \/ (bound[ch.id] = c.id /\ c \notin Settled))
      BY <2>1, <2>3, <2>6 DEF CatalogsOK
    <3> QED BY <2>3, <2>4, <3>1
  <2>7. ASSUME NEW ch \in Children, ch \in Settled' PROVE ch.id \in DOMAIN bound'
    <3>1. ch # due
      BY <1>1 DEF Children, Of, ChildTables
    <3> QED BY <1>2, <2>1, <2>3, <2>7, <3>1 DEF Advance, CatalogsOK
  <2> QED BY <2>2, <2>5, <2>6, <2>7 DEF CatalogsOK
<1>4. GroupsOK'
  <2>1. PICK row : groups' = groups \/ (due.group \notin DOMAIN groups /\ groups' = Put(groups, due.group, row))
    BY DEF FinishDataCatalog, Project
  <2>2. \A g \in DOMAIN groups : g \in DOMAIN groups' /\ groups'[g] = groups[g]
    <3>1. groups' # groups => IsPut(groups, groups', due.group, row)
      BY <2>1, PutAt
    <3> QED BY <2>1, <3>1 DEF IsPut
  <2>3. NoRowOf({due}, {"data_catalog_group"})
    BY <1>1 DEF NoRowOf
  <2> QED BY <1>2, <2>2, <2>3, GroupsFrame
<1>5. AppliesOK' /\ AuthorisedOK' /\ CasesOK' /\ AttemptsOK'
  <2>1. NoRowOf({due}, {"data_apply", "data_apply_authrization"})
    BY <1>1 DEF NoRowOf
  <2> QED BY <1>1, <1>2, <2>1, ExchangeTablesFrame
<1>6. ObjectionsOK' /\ ServicesOK' /\ OrgsOK'
  <2>1. NoRowOf({due}, OtherTables)
    BY <1>1 DEF NoRowOf, OtherTables
  <2> QED BY <1>1, <1>2, <2>1, OtherTablesFrame DEF otherTables
<1>7. LinksOfRows'
  BY <1>1, LinksFrame
<1> QED BY <1>2, <1>3, <1>4, <1>5, <1>6, <1>7 DEF RowsInv

\* An approved application has a task, and one that is there stays as it is.
LEMMA ApplyIsDone ==
    ASSUME RowsInv, FinishDataApply
    PROVE  RowsInv'
<1>1. /\ due # None /\ due.table = "data_apply" /\ due' = None
      /\ UNCHANGED <<dump, todo, held, phase, apps, cases, attempts, catalogTables, otherTables>>
      /\ tasks' = PendingDelivery(due.id)
  BY DEF FinishDataApply
<1>2. LoopOK' /\ Advance({due}) /\ due \in dump
  BY <1>1, DueIsDone DEF RowsInv, LoopOK
<1>3. /\ due.id \in DOMAIN tasks'
      /\ \A t \in DOMAIN tasks : t \in DOMAIN tasks' /\ tasks'[t] = tasks[t]
  <2>1. CASE due.id \in DOMAIN tasks
    BY <1>1, <2>1 DEF PendingDelivery
  <2>2. CASE due.id \notin DOMAIN tasks
    <3>1. IsPut(tasks, tasks', due.id, "pending")
      BY <1>1, <2>2, PutAt DEF PendingDelivery
    <3> QED BY <2>2, <3>1 DEF IsPut
  <2> QED BY <2>1, <2>2
<1>4. CatalogsOK' /\ GroupsOK' /\ LinksOfRows'
  <2>1. NoRowOf({due}, {"data_catalog", "data_catalog_group"} \union ChildTables)
    BY <1>1 DEF NoRowOf, ChildTables
  <2> QED BY <1>1, <1>2, <2>1, CatalogTablesFrame
<1>5. AuthorisedOK' /\ CasesOK' /\ AttemptsOK'
  <2>1. NoRowOf({due}, {"data_apply_authrization"}) /\ dump' = dump /\ DOMAIN tasks \subseteq DOMAIN tasks'
    BY <1>1, <1>2, <1>3 DEF NoRowOf, Advance
  <2> QED BY <1>1, <1>2, <1>3, <2>1, AuthorisedFrame, CasesFrame, AttemptsFrame
<1>6. ObjectionsOK' /\ ServicesOK' /\ OrgsOK'
  <2>1. NoRowOf({due}, OtherTables)
    BY <1>1 DEF NoRowOf, OtherTables
  <2> QED BY <1>1, <1>2, <2>1, OtherTablesFrame DEF otherTables
<1>7. AppliesOK'
  <2>1. AppliesOK /\ KeysMean(dump)
    BY KeysAssumption DEF RowsInv, LoopOK
  <2>2. ASSUME NEW a \in Of(dump, {"data_apply"})
        PROVE  /\ a \in Settled' \/ a = due' => a.id \in DOMAIN apps /\ apps[a.id] = a.status
               /\ a \in Settled' /\ a.status = "approved" => a.id \in DOMAIN tasks'
    <3>1. a # None
      BY <2>1, <2>2 DEF KeysMean, Of
    <3>2. a \in Settled' => a = due \/ a \in Settled
      BY <1>2 DEF Advance
    <3> QED BY <1>1, <1>3, <2>1, <3>1, <3>2 DEF AppliesOK
  <2> QED BY <1>1, <1>2, <2>2 DEF AppliesOK, Advance
<1> QED BY <1>2, <1>4, <1>5, <1>6, <1>7 DEF RowsInv

\* Every row was read, and some of the held rows are taken.
TakesHeld(R) ==
    /\ todo = {} /\ due = None /\ R # {} /\ R \subseteq held
    /\ held' = held \ R /\ UNCHANGED <<dump, todo, due, phase>>

LEMMA HeldIsTaken ==
    ASSUME RowsInv, NEW R, TakesHeld(R)
    PROVE  /\ LoopOK' /\ Advance(R) /\ R \subseteq dump
           /\ dump = Settled \union held
<1>1. LoopOK /\ KeysMean(dump)
  BY KeysAssumption DEF RowsInv, LoopOK
<1>2. phase = "reading"
  BY <1>1 DEF TakesHeld, LoopOK
<1>3. dump = Settled \union held
  <2>1. \A x \in dump : x # due
    BY <1>1 DEF TakesHeld, KeysMean
  <2> QED BY <1>1, <1>2, <2>1 DEF TakesHeld, LoopOK, Settled
<1>4. LoopOK' /\ Advance(R) /\ R \subseteq dump
  BY <1>1, <1>2 DEF TakesHeld, LoopOK, Settled, Advance
<1> QED BY <1>3, <1>4

LEMMA ExecutorIsTaken ==
    ASSUME RowsInv, NEW r \in held, MapExchangeExecutor(r), TakesHeld({r})
    PROVE  RowsInv'
<1>1. LoopOK' /\ Advance({r}) /\ r \in dump
  BY HeldIsTaken
<1>2. r.table = "exchange_executor" /\ UNCHANGED <<apps, tasks, cases, catalogTables, otherTables>>
      /\ due' = due
  BY DEF MapExchangeExecutor, TakesHeld
<1>3. CatalogsOK' /\ GroupsOK' /\ LinksOfRows'
  <2>1. NoRowOf({r}, {"data_catalog", "data_catalog_group"} \union ChildTables)
    BY <1>2 DEF NoRowOf, ChildTables
  <2> QED BY <1>1, <1>2, <2>1, CatalogTablesFrame
<1>4. AppliesOK' /\ AuthorisedOK' /\ CasesOK'
  <2>1. NoRowOf({r}, {"data_apply"}) /\ NoRowOf({r}, {"data_apply_authrization"}) /\ dump' = dump
    BY <1>1, <1>2 DEF NoRowOf, Advance
  <2> QED BY <1>1, <1>2, <2>1, AppliesFrame, AuthorisedFrame, CasesFrame
<1>5. ObjectionsOK' /\ ServicesOK' /\ OrgsOK'
  <2>1. NoRowOf({r}, OtherTables)
    BY <1>2 DEF NoRowOf, OtherTables
  <2> QED BY <1>1, <1>2, <2>1, OtherTablesFrame DEF otherTables
<1>6. AttemptsOK'
  <2>1. r \in Of(dump, {"exchange_executor"}) /\ AttemptsOK /\ dump' = dump
    BY <1>1, <1>2 DEF Of, RowsInv, Advance
  <2>2. attempts' = IF r.job \in DOMAIN tasks THEN attempts \union {r.id} ELSE attempts
    BY DEF MapExchangeExecutor, MayAttempt
  <2> QED BY <1>2, <2>1, <2>2 DEF AttemptsOK
<1> QED BY <1>1, <1>3, <1>4, <1>5, <1>6 DEF RowsInv

\* While a service waits, its general row waits too.
LEMMA ServiceIsTaken ==
    ASSUME RowsInv, NEW r \in held, MapServiceInfo(r), TakesHeld({r})
    PROVE  RowsInv'
<1>1. LoopOK' /\ Advance({r}) /\ r \in dump /\ dump = Settled \union held
  BY HeldIsTaken
<1>2. r.table = "api_service_info" /\ UNCHANGED <<objections, orgs, catalogTables, exchangeTables>>
      /\ due' = due
  BY DEF MapServiceInfo, TakesHeld
<1>3. CatalogsOK' /\ GroupsOK' /\ LinksOfRows'
  <2>1. NoRowOf({r}, {"data_catalog", "data_catalog_group"} \union ChildTables)
    BY <1>2 DEF NoRowOf, ChildTables
  <2> QED BY <1>1, <1>2, <2>1, CatalogTablesFrame
<1>4. AppliesOK' /\ AuthorisedOK' /\ CasesOK' /\ AttemptsOK'
  <2>1. NoRowOf({r}, {"data_apply", "data_apply_authrization"})
    BY <1>2 DEF NoRowOf
  <2> QED BY <1>1, <1>2, <2>1, ExchangeTablesFrame
<1>5. ObjectionsOK' /\ OrgsOK'
  <2>1. NoRowOf({r}, ObjectionTables) /\ NoRowOf({r}, {"sys_department"})
    BY <1>2 DEF NoRowOf, ObjectionTables
  <2> QED BY <1>1, <1>2, <2>1, ObjectionsFrame, OrgsFrame
<1>6. ServicesOK'
  <2>1. ServicesOK
    BY DEF RowsInv
  <2>2. Of(Settled, {"api_service_general"}) = {}
    BY <1>2, <2>1 DEF ServicesOK, Of
  <2>3. Of(held, {"api_service_general"}) = Of(dump, {"api_service_general"})
    BY <1>1, <2>2 DEF Of
  <2>4. Of(Settled', {"api_service_general"}) = {}
    BY <1>1, <1>2, <2>2 DEF Advance, Of
  <2>5. PICK value : /\ value = (\E g \in Of(dump, {"api_service_general"}) : g.service = r.id)
                     /\ services' = Put(services, r.id, value)
    BY <2>3 DEF MapServiceInfo
  <2>6. IsPut(services, services', r.id, value)
    BY <2>5, PutAt
  <2>7. ASSUME NEW s \in Of(Settled', {"api_service_info"})
        PROVE  /\ s.id \in DOMAIN services'
               /\ services'[s.id] = (\E g \in Of(dump, {"api_service_general"}) : g.service = s.id)
    <3>1. s = r \/ s \in Of(Settled, {"api_service_info"})
      BY <1>1 DEF Advance, Of
    <3>2. CASE s.id = r.id
      BY <2>5, <2>6, <3>2 DEF IsPut
    <3>3. CASE s.id # r.id
      BY <2>1, <2>6, <3>1, <3>3 DEF ServicesOK, IsPut
    <3> QED BY <3>2, <3>3
  <2> QED BY <1>1, <2>4, <2>7 DEF ServicesOK, Advance
<1> QED BY <1>1, <1>3, <1>4, <1>5, <1>6 DEF RowsInv

LEMMA DepartmentIsTaken ==
    ASSUME RowsInv, NEW r \in held, MapSysDepartment(r), TakesHeld({r})
    PROVE  RowsInv'
<1>1. LoopOK' /\ Advance({r}) /\ r \in dump
  BY HeldIsTaken
<1>2. r.table = "sys_department" /\ UNCHANGED <<objections, services, catalogTables, exchangeTables>>
      /\ due' = due
  BY DEF MapSysDepartment, TakesHeld
<1>3. CatalogsOK' /\ GroupsOK' /\ LinksOfRows'
  <2>1. NoRowOf({r}, {"data_catalog", "data_catalog_group"} \union ChildTables)
    BY <1>2 DEF NoRowOf, ChildTables
  <2> QED BY <1>1, <1>2, <2>1, CatalogTablesFrame
<1>4. AppliesOK' /\ AuthorisedOK' /\ CasesOK' /\ AttemptsOK'
  <2>1. NoRowOf({r}, {"data_apply", "data_apply_authrization"})
    BY <1>2 DEF NoRowOf
  <2> QED BY <1>1, <1>2, <2>1, ExchangeTablesFrame
<1>5. ObjectionsOK' /\ ServicesOK'
  <2>1. NoRowOf({r}, ObjectionTables) /\ NoRowOf({r}, {"api_service_general", "api_service_info"})
    BY <1>2 DEF NoRowOf, ObjectionTables
  <2> QED BY <1>1, <1>2, <2>1, ObjectionsFrame, ServicesFrame
<1>6. OrgsOK'
  <2>1. OrgsOK /\ KeysMean(dump) /\ r \in Of(dump, {"sys_department"})
    BY <1>1, <1>2, KeysAssumption DEF RowsInv, LoopOK, Of
  <2>2. PICK parent : parent = ParentOf(r) /\ (orgs' = IF r.id = None THEN orgs ELSE Put(orgs, r.code, parent))
    BY DEF MapSysDepartment
  <2>3. r.id # None => IsPut(orgs, orgs', r.code, parent)
    BY <2>2, PutAt
  <2>4. ASSUME NEW up \in Of(dump, {"sys_department"}), r.parent = up.id
        PROVE  parent = up.code
    BY <2>1, <2>2, <2>4 DEF ParentOf, KeysMean
  <2>5. ASSUME NEW d \in Of(Settled', {"sys_department"}), d.id # None
        PROVE  /\ d.code \in DOMAIN orgs'
               /\ \A up \in Of(dump, {"sys_department"}) : d.parent = up.id => orgs'[d.code] = up.code
    <3>1. (d = r \/ d \in Of(Settled, {"sys_department"})) /\ d \in Of(dump, {"sys_department"})
      BY <1>1, <2>5 DEF Of, Advance, Settled
    <3>2. CASE r.id # None /\ d.code = r.code
      <4>1. d.parent = r.parent
        BY <2>1, <2>5, <3>1, <3>2 DEF KeysMean
      <4> QED BY <2>3, <2>4, <3>2, <4>1 DEF IsPut
    <3>3. CASE r.id = None \/ d.code # r.code
      <4>1. d \in Of(Settled, {"sys_department"})
        BY <2>5, <3>1, <3>3
      <4>2. /\ d.code \in DOMAIN orgs
            /\ \A up \in Of(dump, {"sys_department"}) : d.parent = up.id => orgs[d.code] = up.code
        BY <2>1, <2>5, <4>1 DEF OrgsOK
      <4>3. d.code \in DOMAIN orgs' /\ orgs'[d.code] = orgs[d.code]
        BY <2>2, <2>3, <3>3, <4>2 DEF IsPut
      <4> QED BY <4>2, <4>3
    <3> QED BY <3>2, <3>3
  <2> QED BY <1>1, <2>5 DEF OrgsOK, Advance
<1> QED BY <1>1, <1>3, <1>4, <1>5, <1>6 DEF RowsInv

\* General rows go when no service waits for them.
LEMMA GeneralsAreDropped ==
    ASSUME RowsInv, DropGeneral, TakesHeld(Of(held, {"api_service_general"}))
    PROVE  RowsInv'
<1> DEFINE R == Of(held, {"api_service_general"})
<1>1. LoopOK' /\ Advance(R) /\ R \subseteq dump
  BY HeldIsTaken
<1>2. /\ UNCHANGED <<catalogTables, exchangeTables, otherTables>> /\ due' = due
      /\ Of(held, {"api_service_info"}) = {} /\ todo = {}
  BY DEF DropGeneral, TakesHeld
<1>3. CatalogsOK' /\ GroupsOK' /\ LinksOfRows'
  <2>1. NoRowOf(R, {"data_catalog", "data_catalog_group"} \union ChildTables)
    BY DEF NoRowOf, ChildTables, Of
  <2> HIDE DEF R
  <2> QED BY <1>1, <1>2, <2>1, CatalogTablesFrame
<1>4. AppliesOK' /\ AuthorisedOK' /\ CasesOK' /\ AttemptsOK'
  <2>1. NoRowOf(R, {"data_apply", "data_apply_authrization"})
    BY DEF NoRowOf, Of
  <2> HIDE DEF R
  <2> QED BY <1>1, <1>2, <2>1, ExchangeTablesFrame
<1>5. ObjectionsOK' /\ OrgsOK'
  <2>1. NoRowOf(R, ObjectionTables) /\ NoRowOf(R, {"sys_department"})
    BY DEF NoRowOf, ObjectionTables, Of
  <2> HIDE DEF R
  <2> QED BY <1>1, <1>2, <2>1, ObjectionsFrame, OrgsFrame DEF otherTables
<1>6. ServicesOK'
  <2>1. Of(todo' \union held', {"api_service_info"}) = {}
    BY <1>2 DEF TakesHeld, Of
  <2>2. Of(Settled', {"api_service_info"}) \subseteq Of(Settled, {"api_service_info"})
    BY <1>1 DEF Advance, Of
  <2>3. ServicesOK /\ services' = services /\ dump' = dump
    BY <1>1, <1>2 DEF RowsInv, otherTables, Advance
  <2> QED BY <2>1, <2>2, <2>3 DEF ServicesOK
<1> QED BY <1>1, <1>3, <1>4, <1>5, <1>6 DEF RowsInv

\* All the objections of the dump are replayed at once, from all their children.
LEMMA ObjectionsAreTaken ==
    ASSUME RowsInv, MapObjections, TakesHeld(Of(held, ObjectionTables))
    PROVE  RowsInv'
<1> DEFINE R == Of(held, ObjectionTables)
<1>1. LoopOK' /\ Advance(R) /\ R \subseteq dump /\ dump = Settled \union held /\ dump' = dump
  BY HeldIsTaken DEF Advance
<1>2. /\ UNCHANGED <<services, orgs, catalogTables, exchangeTables>> /\ due' = due
      /\ todo = {} /\ todo' = {} /\ R # {} /\ held' = held \ R
  BY DEF MapObjections, TakesHeld
<1>3. CatalogsOK' /\ GroupsOK' /\ LinksOfRows'
  <2>1. NoRowOf(R, {"data_catalog", "data_catalog_group"} \union ChildTables)
    BY DEF NoRowOf, ChildTables, Of, ObjectionTables
  <2> HIDE DEF R
  <2> QED BY <1>1, <1>2, <2>1, CatalogTablesFrame
<1>4. AppliesOK' /\ AuthorisedOK' /\ CasesOK' /\ AttemptsOK'
  <2>1. NoRowOf(R, {"data_apply", "data_apply_authrization"})
    BY DEF NoRowOf, Of, ObjectionTables
  <2> HIDE DEF R
  <2> QED BY <1>1, <1>2, <2>1, ExchangeTablesFrame
<1>5. ServicesOK' /\ OrgsOK'
  <2>1. NoRowOf(R, {"api_service_general", "api_service_info"}) /\ NoRowOf(R, {"sys_department"})
    BY DEF NoRowOf, ObjectionTables, Of
  <2> HIDE DEF R
  <2> QED BY <1>1, <1>2, <2>1, ServicesFrame, OrgsFrame
<1>6. ObjectionsOK'
  <2>1. ObjectionsOK /\ KeysMean(dump)
    BY <1>1, KeysAssumption DEF RowsInv, LoopOK
  <2>2. Of(Settled, ObjectionTables) = {}
    <3>1. Of(todo \union held, ObjectionTables) # {}
      BY <1>2 DEF Of
    <3> QED BY <2>1, <3>1 DEF ObjectionsOK
  <2>3. \A r \in dump : r.table \in ObjectionTables => r \in held
    BY <1>1, <2>2 DEF Of
  <2>4. /\ Of(held, {"data_objection"}) = Of(dump, {"data_objection"})
        /\ Of(held, {"data_objection_process"}) = Of(dump, {"data_objection_process"})
    BY <2>3 DEF Of, ObjectionTables, RowsInv, LoopOK
  <2>5. PICK kept : kept = {r \in Of(dump, {"data_objection"}) : r.status # "deleted"}
    OBVIOUS
  <2>6. \A o : Replayed(o, held) = Replayed(o, dump)
    BY <2>4 DEF Replayed
  <2>7. objections' = [o \in DOMAIN objections \union {r.id : r \in kept} |->
                         IF \E r \in kept : r.id = o
                         THEN [status |-> (CHOOSE r \in kept : r.id = o).status,
                               children |-> Cardinality(Replayed(o, dump))]
                         ELSE objections[o]]
    BY <2>4, <2>5, <2>6 DEF MapObjections
  <2>8. DOMAIN objections' = DOMAIN objections \union {r.id : r \in kept}
    BY <2>7
  <2>9. ASSUME NEW r \in kept
        PROVE  /\ r.id \in DOMAIN objections'
               /\ objections'[r.id] = [status |-> r.status, children |-> Cardinality(Replayed(r.id, dump))]
    <3>1. PICK q : q = (CHOOSE x \in kept : x.id = r.id)
      OBVIOUS
    <3>2. q \in kept /\ q.id = r.id
      BY <3>1
    <3>3. q.status = r.status
      BY <2>1, <2>5, <3>2 DEF KeysMean
    <3>4. r.id \in DOMAIN objections'
      BY <2>8
    <3> QED BY <2>7, <3>1, <3>3, <3>4
  <2>10. ASSUME NEW o \in DOMAIN objections'
         PROVE  \E r \in Of(dump, {"data_objection"}) : r.id = o /\ r.status # "deleted"
    BY <2>1, <2>5, <2>8 DEF ObjectionsOK
  <2>11. ASSUME NEW o \in Of(dump, {"data_objection"}), o.status = "deleted"
         PROVE  o.id \notin DOMAIN objections'
    BY <2>1, <2>10, <2>11 DEF KeysMean
  <2>12. Of(todo' \union held', ObjectionTables) = {}
    BY <1>2 DEF Of
  <2>13. ASSUME NEW o \in Of(dump, {"data_objection"}), o.status # "deleted"
         PROVE  /\ o.id \in DOMAIN objections'
                /\ objections'[o.id] = [status |-> o.status,
                                        children |-> Cardinality(Replayed(o.id, dump))]
    BY <2>5, <2>9, <2>13
  <2>14. ObjectionsReplayed'
    BY <1>1, <2>11, <2>13 DEF ObjectionsReplayed
  <2> QED BY <1>1, <2>10, <2>12, <2>13, <2>14 DEF ObjectionsOK
<1> QED BY <1>1, <1>3, <1>4, <1>5, <1>6 DEF RowsInv

LEMMA ReadHeldStep ==
    ASSUME RowsInv, ReadHeld
    PROVE  RowsInv'
<1>1. todo = {} /\ due = None /\ UNCHANGED <<dump, todo, due, phase>>
  BY DEF ReadHeld
<1>2. CASE \E r \in held : MapExchangeExecutor(r) \/ MapServiceInfo(r) \/ MapSysDepartment(r)
  <2>1. PICK r \in held : MapExchangeExecutor(r) \/ MapServiceInfo(r) \/ MapSysDepartment(r)
    BY <1>2
  <2>2. TakesHeld({r})
    BY <1>1, <2>1 DEF TakesHeld, MapExchangeExecutor, MapServiceInfo, MapSysDepartment
  <2> QED BY <2>1, <2>2, ExecutorIsTaken, ServiceIsTaken, DepartmentIsTaken
<1>3. CASE DropGeneral
  <2>1. TakesHeld(Of(held, {"api_service_general"}))
    BY <1>1, <1>3 DEF TakesHeld, DropGeneral, Of
  <2> QED BY <1>3, <2>1, GeneralsAreDropped
<1>4. CASE MapObjections
  <2>1. TakesHeld(Of(held, ObjectionTables))
    BY <1>1, <1>4 DEF TakesHeld, MapObjections, Of, ObjectionTables
  <2> QED BY <1>4, <2>1, ObjectionsAreTaken
<1> QED BY <1>2, <1>3, <1>4 DEF ReadHeld

\* A step that writes nothing.
LEMMA QuietStep ==
    ASSUME RowsInv, LoopOK', Advance({}), due' \in {due, None},
           UNCHANGED <<catalogTables, exchangeTables, otherTables>>
    PROVE  RowsInv'
<1>1. /\ NoRowOf({}, {"data_catalog", "data_catalog_group"} \union ChildTables)
      /\ NoRowOf({}, {"data_apply", "data_apply_authrization"}) /\ NoRowOf({}, OtherTables)
  BY DEF NoRowOf
<1>2. UNCHANGED <<objections, services, orgs>>
  BY DEF otherTables
<1> QED BY <1>1, <1>2, CatalogTablesFrame, ExchangeTablesFrame, OtherTablesFrame DEF RowsInv

LEMMA PassStep ==
    ASSUME RowsInv, StartPass \/ EndPass \/ Crash \/ UNCHANGED rowsVars
    PROVE  RowsInv'
<1>1. UNCHANGED <<catalogTables, exchangeTables, otherTables>> /\ due' \in {due, None}
  BY DEF StartPass, EndPass, Crash, rowsVars, loop
<1>2. LoopOK /\ KeysMean(dump)
  BY KeysAssumption DEF RowsInv, LoopOK
<1>3. CASE StartPass
  <2>1. LoopOK'
    BY <1>2, <1>3 DEF StartPass, LoopOK
  <2>2. Settled' = {}
    BY <1>3 DEF StartPass, Settled
  <2>3. Advance({})
    BY <1>3, <2>2 DEF StartPass, Advance
  <2> QED BY <1>1, <2>1, <2>3, QuietStep
<1>4. CASE EndPass
  <2>1. LoopOK'
    BY <1>2, <1>4 DEF EndPass, LoopOK
  <2>2. Advance({})
    BY <1>4 DEF EndPass, Advance, Settled
  <2> QED BY <1>1, <2>1, <2>2, QuietStep
<1>5. CASE Crash
  <2>1. LoopOK'
    BY <1>2, <1>5 DEF Crash, LoopOK
  <2>2. Settled' = {}
    BY <1>5 DEF Crash, Settled
  <2>3. Advance({})
    BY <1>5, <2>2 DEF Crash, Advance
  <2> QED BY <1>1, <2>1, <2>3, QuietStep
<1>6. CASE UNCHANGED rowsVars
  <2>1. LoopOK'
    BY <1>2, <1>6 DEF rowsVars, loop, LoopOK
  <2>2. Advance({})
    BY <1>6 DEF rowsVars, loop, Advance, Settled
  <2> QED BY <1>1, <2>1, <2>2, QuietStep
<1> QED BY <1>3, <1>4, <1>5, <1>6

LEMMA RowsInitially == ASSUME RowsInit PROVE RowsInv
<1>1. Settled = {}
  BY DEF RowsInit, Settled
<1>2. /\ DOMAIN refs = {} /\ DOMAIN bound = {} /\ DOMAIN groups = {} /\ DOMAIN links = {}
      /\ DOMAIN cases = {} /\ DOMAIN objections = {}
  BY DEF RowsInit
<1>3. dump \in Dumps /\ due = None /\ attempts = {}
  BY DEF RowsInit
<1>4. None \notin dump
  BY <1>3, KeysAssumption DEF KeysMean
<1>5. LoopOK
  BY DEF RowsInit, LoopOK
<1>6. CatalogsOK
  <2>1. \A c \in CatalogRows : c \in dump
    BY DEF CatalogRows, Of
  <2> QED BY <1>1, <1>2, <1>3, <1>4, <2>1 DEF CatalogsOK
<1>7. AppliesOK
  BY <1>1, <1>3, <1>4 DEF AppliesOK, Of
<1>8. GroupsOK /\ AuthorisedOK /\ ServicesOK /\ OrgsOK
  BY <1>1 DEF GroupsOK, AuthorisedOK, ServicesOK, OrgsOK, Of
<1>9. ObjectionsOK
  <2>1. Of(Settled, ObjectionTables) = {}
    BY <1>1 DEF Of
  <2> QED BY <1>2, <2>1 DEF ObjectionsOK
<1>10. CasesOK /\ AttemptsOK /\ LinksOfRows
  BY <1>2, <1>3 DEF CasesOK, AttemptsOK, LinksOfRows, OneActiveLink
<1> QED BY <1>5, <1>6, <1>7, <1>8, <1>9, <1>10 DEF RowsInv

\* However the rows come and wherever a pass dies, the tables agree with the rows
\* that were settled, and a row that waits is held (catalog_metadata, exchange,
\* service and objection mappers).
THEOREM RowsInvKept == RowsSpec => []RowsInv
<1>1. RowsInit => RowsInv
  BY RowsInitially
<1>2. RowsInv /\ [RowsNext]_rowsVars => RowsInv'
  <2> SUFFICES ASSUME RowsInv, [RowsNext]_rowsVars PROVE RowsInv'
    OBVIOUS
  <2>1. CASE \E r \in todo : Read(r)
    BY <2>1, ReadStep
  <2>2. CASE FinishRow
    BY <2>2, CatalogIsDone, ApplyIsDone DEF FinishRow
  <2>3. CASE ReadHeld
    BY <2>3, ReadHeldStep
  <2>4. CASE StartPass \/ EndPass \/ Crash \/ UNCHANGED rowsVars
    BY <2>4, PassStep
  <2> QED BY <2>1, <2>2, <2>3, <2>4 DEF RowsNext
<1> QED BY <1>1, <1>2, PTL DEF RowsSpec

-----------------------------------------------------------------------------
(* What a pass leaves                                                      *)

\* A finite set whose members have integer times of their own, each numbered by
\* the times up to its own, is numbered from one without a gap.
LEMMA RanksFillInterval ==
    ASSUME NEW D, IsFiniteSet(D), NEW at, NEW no,
           \A d \in D : at[d] \in Int /\ no[d] = Cardinality({e \in D : at[e] <= at[d]}),
           \A d, e \in D : d # e => at[d] # at[e]
    PROVE  /\ \A d, e \in D : at[d] < at[e] => no[d] < no[e]
           /\ {no[d] : d \in D} = 1 .. Cardinality(D)
<1> DEFINE UpTo(d) == {e \in D : at[e] <= at[d]}
           n == Cardinality(D)
           rank == [d \in D |-> no[d]]
<1>0. \A d \in D : at[d] \in Int
  OBVIOUS
<1>1. ASSUME NEW d \in D
      PROVE  IsFiniteSet(UpTo(d)) /\ no[d] = Cardinality(UpTo(d)) /\ no[d] \in 1 .. n
  <2>1. UpTo(d) \in SUBSET D /\ {d} \in SUBSET UpTo(d)
    <3>1. at[d] <= at[d]
      BY <1>0
    <3> QED BY <3>1
  <2>2. IsFiniteSet(UpTo(d)) /\ Cardinality(UpTo(d)) <= n
    BY <2>1, FS_Subset
  <2>3. Cardinality({d}) = 1 /\ Cardinality({d}) <= Cardinality(UpTo(d))
    BY <2>1, <2>2, FS_Subset, FS_Singleton
  <2>4. n \in Nat /\ Cardinality(UpTo(d)) \in Nat
    BY <2>2, FS_CardinalityType
  <2> QED BY <2>2, <2>3, <2>4
<1>2. ASSUME NEW d \in D, NEW e \in D, at[d] < at[e] PROVE no[d] < no[e]
  <2>1. UpTo(d) \in SUBSET UpTo(e) /\ e \in UpTo(e) /\ e \notin UpTo(d)
    <3>1. at[e] <= at[e] /\ ~(at[e] <= at[d])
      BY <1>0, <1>2
    <3>2. \A x \in D : at[x] <= at[d] => at[x] <= at[e]
      BY <1>0, <1>2
    <3> QED BY <3>1, <3>2
  <2>2. IsFiniteSet(UpTo(d)) /\ IsFiniteSet(UpTo(e))
    BY <1>1
  <2>3. Cardinality(UpTo(d)) <= Cardinality(UpTo(e)) /\ Cardinality(UpTo(d)) # Cardinality(UpTo(e))
    BY <2>1, <2>2, FS_Subset
  <2>4. Cardinality(UpTo(d)) \in Nat /\ Cardinality(UpTo(e)) \in Nat
    BY <2>2, FS_CardinalityType
  <2>5. no[d] = Cardinality(UpTo(d)) /\ no[e] = Cardinality(UpTo(e))
    BY <1>1
  <2> HIDE DEF UpTo
  <2> QED BY <2>3, <2>4, <2>5
<1>3. rank \in Injection(D, 1 .. n)
  <2>1. ASSUME NEW d \in D, NEW e \in D, rank[d] = rank[e] PROVE d = e
    <3>1. no[d] = no[e] /\ no[d] \in 1 .. n /\ no[e] \in 1 .. n
      BY <1>1, <2>1
    <3>2. ~(no[d] < no[e]) /\ ~(no[e] < no[d])
      BY <3>1
    <3>3. ~(at[d] < at[e]) /\ ~(at[e] < at[d])
      BY <1>2, <3>2
    <3>4. at[d] \in Int /\ at[e] \in Int
      BY <1>0
    <3>5. at[d] = at[e]
      BY <3>3, <3>4
    <3> QED BY <3>5
  <2>2. rank \in [D -> 1 .. n]
    BY <1>1
  <2> HIDE DEF rank
  <2> QED BY <2>1, <2>2 DEF Injection, IsInjective
<1>4. rank \in Surjection(D, 1 .. n)
  <2>1. n \in Nat
    BY FS_CardinalityType
  <2>2. IsFiniteSet(1 .. n) /\ Cardinality(1 .. n) = n
    BY <2>1, FS_Interval
  <2> HIDE DEF rank
  <2> QED BY <1>3, <2>2, FS_Injection
<1>5. {no[d] : d \in D} = 1 .. n
  <2>1. \A k \in 1 .. n : \E d \in D : rank[d] = k
    BY <1>4 DEF Surjection
  <2> QED BY ZenonT(60), <1>1, <2>1
<1> QED BY <1>2, <1>5

LEMMA StepsAreInOrder == ASSUME RowsInv PROVE StepsInTimeOrder
<1>1. CasesOK /\ KeysMean(dump)
  BY KeysAssumption DEF RowsInv, LoopOK
<1> SUFFICES ASSUME NEW c \in DOMAIN cases
             PROVE  LET steps == cases[c].steps
                    IN /\ cases[c].step = Cardinality(DOMAIN steps)
                       /\ {steps[n].no : n \in DOMAIN steps} = 1 .. Cardinality(DOMAIN steps)
                       /\ \A m, n \in DOMAIN steps : steps[m].at < steps[n].at => steps[m].no < steps[n].no
  BY DEF StepsInTimeOrder
<1>2. PICK steps : steps = cases[c].steps
  OBVIOUS
<1>3. StepsKept(c, steps) /\ Numbered(steps) /\ cases[c].step = Cardinality(DOMAIN steps)
  BY <1>1, <1>2 DEF CasesOK
<1>4. PICK D : D = DOMAIN steps
  OBVIOUS
<1>5. PICK at : at = [d \in D |-> steps[d].at]
  OBVIOUS
<1>6. PICK no : no = [d \in D |-> steps[d].no]
  OBVIOUS
<1>7. IsFiniteSet(D)
  BY <1>3, <1>4 DEF StepsKept
<1>8. ASSUME NEW d \in D
      PROVE  at[d] \in Int /\ no[d] = Cardinality({e \in D : at[e] <= at[d]})
  <2>1. at[d] \in Int
    <3>1. PICK a \in StepRows(dump) : at[d] = TimeOf(a, steps[d].made)
      BY <1>3, <1>4, <1>5 DEF StepsKept
    <3>2. /\ a.at = None \/ a.at \in Int
          /\ ImportTime \in Int
      BY <1>1, RowBoundsAssumption DEF KeysMean
    <3>3. steps[d].made \in Int
      BY <1>3, <1>4, FS_CardinalityType DEF StepsKept
    <3> QED BY <3>1, <3>2, <3>3 DEF TimeOf
  <2>2. {e \in D : at[e] <= at[d]} = {m \in DOMAIN steps : steps[m].at <= steps[d].at}
    BY <1>4, <1>5
  <2> QED BY <1>3, <1>4, <1>6, <2>1, <2>2 DEF Numbered
<1>9. ASSUME NEW d \in D, NEW e \in D, d # e PROVE at[d] # at[e]
  <2>1. PICK a \in StepRows(dump) :
            a.apply = c /\ a.node = d /\ at[d] = TimeOf(a, steps[d].made)
    BY <1>3, <1>4, <1>5 DEF StepsKept
  <2>2. PICK b \in StepRows(dump) :
            b.apply = c /\ b.node = e /\ at[e] = TimeOf(b, steps[e].made)
    BY <1>3, <1>4, <1>5 DEF StepsKept
  <2>3. /\ steps[d].made \in Nat \ {0} /\ steps[e].made \in Nat \ {0}
        /\ steps[d].made # steps[e].made
    BY <1>3, <1>4, <1>9, FS_CardinalityType DEF StepsKept
  <2>4. ImportTime \in Int
    BY RowBoundsAssumption
  <2>5. /\ a.at = None \/ (a.at \in Int /\ a.at < ImportTime)
        /\ b.at = None \/ (b.at \in Int /\ b.at < ImportTime)
        /\ a.at = None \/ a.at # b.at
    BY <1>1, <1>9, <2>1, <2>2 DEF KeysMean
  <2> QED BY <2>1, <2>2, <2>3, <2>4, <2>5 DEF TimeOf
<1>10. /\ \A d, e \in D : at[d] < at[e] => no[d] < no[e]
       /\ {no[d] : d \in D} = 1 .. Cardinality(D)
  BY <1>7, <1>8, <1>9, RanksFillInterval
<1>11. {steps[n].no : n \in DOMAIN steps} = {no[d] : d \in D}
  BY <1>4, <1>6
<1>12. \A m, n \in DOMAIN steps : steps[m].at < steps[n].at => steps[m].no < steps[n].no
  BY <1>4, <1>5, <1>6, <1>10
<1> QED BY <1>2, <1>3, <1>4, <1>10, <1>11, <1>12

LEMMA PassLeavesDump ==
    ASSUME RowsInv, phase = "done"
    PROVE  /\ ChildrenBound /\ GroupsFromTheirRow /\ DeliveriesDecided
           /\ ObjectionsReplayed /\ ServicesMerged /\ DepartmentsUnderParents
<1>1. LoopOK /\ KeysMean(dump)
  BY KeysAssumption DEF RowsInv, LoopOK
<1>2. todo = {} /\ held = {} /\ due = None /\ None \notin dump
  BY <1>1 DEF LoopOK, KeysMean
<1>3. Settled = dump
  BY <1>2 DEF Settled
<1>4. ChildrenBound
  <2>1. ASSUME NEW ch \in Children, NEW c \in CatalogRows, ch.catalog = c.id
        PROVE  bound[ch.id] = c.code
    <3>1. ch \in Settled /\ c \in Settled
      BY <1>3 DEF Children, CatalogRows, Of
    <3> QED BY <2>1, <3>1 DEF RowsInv, CatalogsOK
  <2> QED BY <2>1 DEF ChildrenBound
<1>5. GroupsFromTheirRow
  BY <1>3 DEF RowsInv, GroupsOK, GroupsFromTheirRow
<1>6. DeliveriesDecided
  <2>1. \A a \in Of(dump, {"data_apply"}) : a \in Settled
    BY <1>3 DEF Of
  <2> QED BY <1>3, <2>1 DEF RowsInv, AppliesOK, AuthorisedOK, DeliveriesDecided
<1>7. ObjectionsReplayed
  <2>1. CASE Of(Settled, ObjectionTables) = {}
    <3>1. Of(dump, {"data_objection"}) = {}
      BY <1>3, <2>1 DEF Of, ObjectionTables
    <3> QED BY <3>1 DEF ObjectionsReplayed
  <2>2. CASE Of(Settled, ObjectionTables) # {}
    BY <2>2 DEF RowsInv, ObjectionsOK
  <2> QED BY <2>1, <2>2
<1>8. ServicesMerged
  BY <1>3 DEF RowsInv, ServicesOK, ServicesMerged
<1>9. DepartmentsUnderParents
  BY <1>3 DEF RowsInv, OrgsOK, DepartmentsUnderParents
<1> QED BY <1>4, <1>5, <1>6, <1>7, <1>8, <1>9

\* RowsConverge for every dump whose keys mean one thing (KeysAssumption): in
\* whatever order the rows come and wherever an earlier pass died, a pass that ends
\* leaves what the rows say, and all along an attempt has its task, the steps of a
\* case are numbered by their time and a triple has one active link.
THEOREM RowsAreWhatTheDumpSays == RowsSpec => []RowsConverge
<1>1. RowsInv => RowsConverge
  <2> SUFFICES ASSUME RowsInv PROVE RowsConverge
    OBVIOUS
  <2>1. KeysMean(dump)
    BY KeysAssumption DEF RowsInv, LoopOK
  <2>2. AttemptsHaveTasks
    <3>1. ASSUME NEW e \in Of(dump, {"exchange_executor"}), e.id \in attempts
          PROVE  e.job \in DOMAIN tasks
      <4>1. PICK r \in Of(dump, {"exchange_executor"}) : r.id = e.id /\ r.job \in DOMAIN tasks
        BY <3>1 DEF RowsInv, AttemptsOK
      <4> QED BY <2>1, <4>1 DEF KeysMean
    <3> QED BY <3>1 DEF AttemptsHaveTasks
  <2>3. OneActiveLink
    BY DEF RowsInv, LinksOfRows
  <2> QED BY <2>2, <2>3, StepsAreInOrder, PassLeavesDump DEF RowsConverge
<1> QED BY <1>1, RowsInvKept, PTL
=============================================================================
