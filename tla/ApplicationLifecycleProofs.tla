---------------------- MODULE ApplicationLifecycleProofs ----------------------
(***************************************************************************)
(* The life of an application, for any number of applications, resources,  *)
(* users and rounds: types, and that whatever counts as approved, holds a  *)
(* credential or was fed back was decided the way its resource asks for.   *)
(*                                                                         *)
(* The properties speak of one application at a time, and so does the      *)
(* strengthening: AppInv(a) says what is on record in each status.  A step *)
(* works on one application, so each action is proved for that one and a   *)
(* frame lemma does the others.                                            *)
(*                                                                         *)
(* At the end the requests of the users who drive it: Sessions, for any    *)
(* sessions, requests, roles, lifetimes and failures of the provider.      *)
(***************************************************************************)
EXTENDS ApplicationLifecycle, Sessions, TLAPS

\* Statuses in which no approval can be on record yet.
Undecided == {"none", "draft", "pending", "submitted", "dept_approved", "rejected",
              "need-fix", "pending-provider-confirmation"}

\* A code nobody minted yet.
Blank(a) ==
    /\ decision[a] = "none"
    /\ accepted[a] = "none"
    /\ reviewed[a] = "none"
    /\ credential[a] = "none"
    /\ backflow[a] = "open"
    /\ resource[a] = NoResource

\* What is on record about an application, by its status.
AppInv(a) ==
    /\ status[a] = "none" => Blank(a)
    /\ status[a] # "none" => resource[a] \in Resources
    /\ status[a] \in Undecided => decision[a] \notin Approvals /\ reviewed[a] # "approve"
    /\ status[a] = "dept_approved" => accepted[a] = "approve"
    /\ IsConditional(a) => decision[a] = "none"
    /\ /\ ~IsConditional(a)
       /\ \/ status[a] \in {"submitted", "dept_approved", "rejected"}
          \/ reviewed[a] # "none"
       => decision[a] # "none"
    /\ status[a] \in {"supplementing", "summary-pending", "completed"} =>
          decision[a] = "approve_with_supplement"
    /\ status[a] = "completed" => summarised[a]
    /\ status[a] \in IssuableStatuses => Approved(a)
    /\ credential[a] # "none" => Approved(a)
    /\ backflow[a] = "confirmed" => summarised[a] /\ decision[a] = "approve_with_supplement"

IInv ==
    /\ TypeOK
    /\ \A a \in Apps : AppInv(a)

USE ConditionalAssumption, OrgAssumption, ManagersAssumption, NobodyAssumption,
    NoResourceAssumption, MaxRoundsAssumption

-----------------------------------------------------------------------------
\* All that AppInv(b) reads is as it was.
Untouched(b) ==
    /\ status'[b] = status[b]
    /\ resource'[b] = resource[b]
    /\ applicant'[b] = applicant[b]
    /\ decision'[b] = decision[b]
    /\ accepted'[b] = accepted[b]
    /\ reviewed'[b] = reviewed[b]
    /\ reviewer'[b] = reviewer[b]
    /\ backflow'[b] = backflow[b]
    /\ summarised'[b] = summarised[b]
    /\ credential'[b] = credential[b]

\* An application a step does not touch keeps its record.
LEMMA Frame ==
    ASSUME NEW b \in Apps, AppInv(b), Untouched(b)
    PROVE  AppInv(b)'
BY DEF AppInv, Untouched, Blank, IsConditional, Approved, TwoLevels, MayReview

\* A step on a leaves every other application alone.
Local(a) == \A b \in Apps \ {a} : Untouched(b)

LEMMA StepIsLocal ==
    ASSUME TypeOK, NEW a \in Apps,
           Apply(a) \/ Decide(a) \/ Supply(a) \/ Deliver(a) \/ Authorise(a)
    PROVE  Local(a)
<1>1. CASE Apply(a)
  BY <1>1 DEF TypeOK, Local, Untouched, Apply, create_request, AddRequest, AddDelivery,
              submit_request,
              applicant_resubmit, Set, cardVars, decisionVars, taskVars
<1>2. CASE Decide(a)
  BY <1>2 DEF TypeOK, Local, Untouched, Decide, review_application_record, RecordReview,
              platform_decide,
              dept_approve, RecordDeptReview, AutoIssue, Set, cardVars, decisionVars,
              taskVars
<1>3. CASE Supply(a)
  BY <1>3 DEF TypeOK, Local, Untouched, Supply, dispatch_require_resource,
              submit_supplement,
              confirm_summary, confirm_backflow, Set, cardVars, decisionVars, taskVars
<1>4. CASE Deliver(a)
  BY <1>4 DEF TypeOK, Local, Untouched, Deliver, grant_delivery_access,
              refuse_delivery_access,
              ingest_delivery_receipt, reconcile_delivery_receipt,
              replace_or_cancel_delivery,
              Set, cardVars, decisionVars, taskVars
<1>5. CASE Authorise(a)
  BY <1>5 DEF TypeOK, Local, Untouched, Authorise, suspend_application_grant,
              revoke_application_grant, issue_credential, Set, cardVars, decisionVars,
              taskVars
<1>6. QED
  BY <1>1, <1>2, <1>3, <1>4, <1>5

-----------------------------------------------------------------------------
\* Every step keeps the types.
LEMMA TypeStep ==
    ASSUME TypeOK, NEW a \in Apps,
           Apply(a) \/ Decide(a) \/ Supply(a) \/ Deliver(a) \/ Authorise(a)
    PROVE  TypeOK'
<1>1. CASE Apply(a)
  <2>1. CASE \E r \in Resources, u \in Users, as_draft \in BOOLEAN :
                create_request(a, r, u, as_draft)
    BY <2>1 DEF TypeOK, Statuses, TaskStates, create_request, AddRequest, AddDelivery,
                EntryStatus, Set, decisionVars
  <2>2. CASE submit_request(a)
    BY <2>2 DEF TypeOK, Statuses, TaskStates, submit_request, EntryStatus, Set, cardVars,
                decisionVars
  <2>3. CASE \E u \in Users : applicant_resubmit(a, u)
    BY <2>3 DEF TypeOK, Statuses, applicant_resubmit, Set, decisionVars, taskVars
  <2>4. QED
    BY <1>1, <2>1, <2>2, <2>3 DEF Apply
<1>2. CASE Decide(a)
  <2>1. CASE \E d \in Decisions : review_application_record(a, d)
    <3>1. PICK d \in Decisions : review_application_record(a, d)
      BY <2>1
    <3>2. StatusAfter(d) \in Statuses /\ TaskAfter(d) \in TaskStates
      BY DEF StatusAfter, TaskAfter, Statuses, TaskStates
    <3>3. credential' \in [Apps -> {"none", "first", "reissued"}]
      BY <3>1 DEF review_application_record, RecordReview, AutoIssue, TypeOK, Set
    <3>4. QED
      BY <3>1, <3>2, <3>3 DEF TypeOK, review_application_record, RecordReview, Set, cardVars
  <2>2. CASE \E v \in Verdicts \ {"none"} : platform_decide(a, v)
    BY <2>2 DEF TypeOK, Statuses, Verdicts, platform_decide, Set, cardVars, taskVars
  <2>3. CASE \E u \in Users, v \in Verdicts \ {"none"} : dept_approve(a, u, v)
    <3>1. PICK u \in Users, v \in Verdicts \ {"none"} : dept_approve(a, u, v)
      BY <2>3
    <3>2. credential' \in [Apps -> {"none", "first", "reissued"}]
      BY <3>1 DEF dept_approve, RecordDeptReview, AutoIssue, TypeOK, Set
    <3>3. QED
      BY <3>1, <3>2 DEF TypeOK, Statuses, Verdicts, dept_approve, RecordDeptReview, Set,
                        cardVars, taskVars
  <2>4. QED
    BY <1>2, <2>1, <2>2, <2>3 DEF Decide
<1>3. CASE Supply(a)
  <2>1. CASE dispatch_require_resource(a)
    BY <2>1 DEF TypeOK, Statuses, dispatch_require_resource, Set, cardVars, decisionVars,
                taskVars
  <2>2. CASE submit_supplement(a)
    BY <2>2 DEF TypeOK, Statuses, TaskStates, submit_supplement, Set, cardVars, decisionVars
  <2>3. CASE confirm_summary(a)
    BY <2>3 DEF TypeOK, Statuses, TaskStates, confirm_summary, Set, cardVars, decisionVars
  <2>4. CASE confirm_backflow(a)
    BY <2>4 DEF TypeOK, TaskStates, confirm_backflow, Set, cardVars, decisionVars
  <2>5. QED
    BY <1>3, <2>1, <2>2, <2>3, <2>4 DEF Supply
<1>4. CASE Deliver(a)
  BY <1>4 DEF TypeOK, TaskStates, Deliver, grant_delivery_access, refuse_delivery_access,
              ingest_delivery_receipt, reconcile_delivery_receipt,
              replace_or_cancel_delivery,
              Set, cardVars, decisionVars
<1>5. CASE Authorise(a)
  BY <1>5 DEF TypeOK, Statuses, Authorise, suspend_application_grant,
              revoke_application_grant, issue_credential, Set, cardVars, decisionVars,
              taskVars
<1>6. QED
  BY <1>1, <1>2, <1>3, <1>4, <1>5

-----------------------------------------------------------------------------
\* Creating, submitting and resubmitting an application.
LEMMA ApplyStep ==
    ASSUME TypeOK, NEW a \in Apps, AppInv(a), Apply(a)
    PROVE  AppInv(a)'
<1> USE DEF AppInv, Blank, IsConditional, Undecided, Approvals, IssuableStatuses, Set
<1>1. CASE \E r \in Resources, u \in Users, as_draft \in BOOLEAN :
              create_request(a, r, u, as_draft)
  BY <1>1 DEF TypeOK, create_request, AddRequest, AddDelivery, EntryStatus, decisionVars
<1>2. CASE submit_request(a)
  BY <1>2 DEF TypeOK, submit_request, EntryStatus, cardVars, decisionVars, Approved,
              TwoLevels,
              MayReview
<1>3. CASE \E u \in Users : applicant_resubmit(a, u)
  BY <1>3 DEF TypeOK, applicant_resubmit, decisionVars, taskVars, Approved, TwoLevels,
              MayReview
<1>4. QED
  BY <1>1, <1>2, <1>3 DEF Apply

\* The one-step review.  An application that may be reviewed has no approval
\* on record: it is pending, or has no decision and so no second level.
LEMMA ReviewStep ==
    ASSUME TypeOK, NEW a \in Apps, AppInv(a), NEW d \in Decisions,
           review_application_record(a, d)
    PROVE  AppInv(a)'
<1>1. ~Approved(a) /\ ~IsConditional(a)
  BY DEF TypeOK, AppInv, review_application_record, Approved, TwoLevels, Undecided,
         Approvals
<1>2. credential[a] = "none" /\ backflow[a] # "confirmed"
  BY <1>1 DEF AppInv, Approved, Approvals
<1>3. /\ status'[a] = StatusAfter(d)
      /\ decision'[a] = d
      /\ UNCHANGED <<resource, applicant, accepted, reviewed, reviewer, backflow, summarised>>
      /\ d \notin Approvals => credential'[a] = "none"
      /\ reviewed[a] # "approve"
  <2>1. reviewed[a] # "approve"
    BY DEF TypeOK, AppInv, review_application_record, Undecided
  <2>2. QED
    BY <1>2, <2>1 DEF TypeOK, review_application_record, RecordReview, Set, cardVars
<1>4. CASE d \in Approvals
  <2>1. Approved(a)'
    BY <1>1, <1>3, <1>4 DEF Approved, IsConditional
  <2>2. status'[a] = IF d = "approve_reuse" THEN "granted" ELSE "supplementing"
    BY <1>3, <1>4 DEF StatusAfter, Approvals
  <2>3. QED
    BY <1>1, <1>2, <1>3, <1>4, <2>1, <2>2
       DEF AppInv, Blank, IsConditional, Undecided, Approvals, review_application_record,
           Exists
<1>5. CASE d \notin Approvals
  <2>1. status'[a] \in {"need-fix", "rejected", "pending-provider-confirmation"}
    BY <1>3, <1>5 DEF StatusAfter, Approvals, Decisions
  <2>2. QED
    BY <1>1, <1>2, <1>3, <1>5, <2>1
       DEF AppInv, Blank, IsConditional, Undecided, Approvals, IssuableStatuses, Decisions,
           review_application_record, Exists
<1>6. QED
  BY <1>4, <1>5

\* Acceptance and the department review.
LEMMA DecideStep ==
    ASSUME TypeOK, NEW a \in Apps, AppInv(a), Decide(a)
    PROVE  AppInv(a)'
<1>1. CASE \E d \in Decisions : review_application_record(a, d)
  BY <1>1, ReviewStep
<1>2. CASE \E v \in Verdicts \ {"none"} : platform_decide(a, v)
  BY <1>2 DEF TypeOK, AppInv, Blank, IsConditional, Undecided, Approvals,
              IssuableStatuses, Set,
              Approved, TwoLevels, MayReview, platform_decide, Verdicts, cardVars, taskVars
<1>3. CASE \E u \in Users, v \in Verdicts \ {"none"} : dept_approve(a, u, v)
  <2>1. PICK u \in Users, v \in Verdicts \ {"none"} : dept_approve(a, u, v)
    BY <1>3
  <2>2. ~Approved(a) /\ credential[a] = "none" /\ backflow[a] # "confirmed"
    BY <2>1 DEF AppInv, dept_approve, Undecided, Approved, TwoLevels, Approvals
  <2>3. v = "approve" => Approved(a)'
    BY <2>1 DEF AppInv, TypeOK, dept_approve, RecordDeptReview, Approved, TwoLevels,
                MayReview, Set, cardVars
  <2>4. v # "approve" => credential'[a] = "none"
    BY <2>1, <2>2 DEF dept_approve, RecordDeptReview
  <2>5. QED
    BY <2>1, <2>2, <2>3, <2>4
       DEF TypeOK, AppInv, Blank, IsConditional, Undecided, IssuableStatuses, Set,
           dept_approve, RecordDeptReview,
           Verdicts, cardVars, taskVars
<1>4. QED
  BY <1>1, <1>2, <1>3 DEF Decide

\* Dispatch, supplement, summary and backflow.
LEMMA SupplyStep ==
    ASSUME TypeOK, NEW a \in Apps, AppInv(a), Supply(a)
    PROVE  AppInv(a)'
<1> USE DEF TypeOK, AppInv, Blank, IsConditional, Undecided, Approvals, IssuableStatuses,
            Set,
            Approved, TwoLevels, MayReview, cardVars, decisionVars
<1>1. CASE dispatch_require_resource(a)
  BY <1>1 DEF dispatch_require_resource, Exists, taskVars
<1>2. CASE submit_supplement(a)
  BY <1>2 DEF submit_supplement
<1>3. CASE confirm_summary(a)
  BY <1>3 DEF confirm_summary
<1>4. CASE confirm_backflow(a)
  BY <1>4 DEF confirm_backflow
<1>5. QED
  BY <1>1, <1>2, <1>3, <1>4 DEF Supply

\* The delivery task has no say in what is on record.
LEMMA DeliverStep ==
    ASSUME TypeOK, NEW a \in Apps, AppInv(a), Deliver(a)
    PROVE  AppInv(a)'
<1>1. Untouched(a)
  BY DEF Deliver, Untouched, grant_delivery_access, refuse_delivery_access,
         ingest_delivery_receipt, reconcile_delivery_receipt, replace_or_cancel_delivery,
         cardVars, decisionVars
<1>2. QED
  BY <1>1, Frame

\* Suspension, revocation and the credential.
LEMMA AuthoriseStep ==
    ASSUME TypeOK, NEW a \in Apps, AppInv(a), Authorise(a)
    PROVE  AppInv(a)'
<1> USE DEF TypeOK, AppInv, Blank, IsConditional, Undecided, Approvals, IssuableStatuses,
            Set,
            Approved, TwoLevels, MayReview, cardVars, decisionVars, taskVars
<1>1. CASE suspend_application_grant(a)
  BY <1>1 DEF suspend_application_grant, Exists
<1>2. CASE \E by \in {"applicant", "busiaudit"} : revoke_application_grant(a, by)
  BY <1>2 DEF revoke_application_grant, Exists
<1>3. CASE \E reissue \in BOOLEAN : issue_credential(a, reissue)
  BY <1>3 DEF issue_credential
<1>4. QED
  BY <1>1, <1>2, <1>3 DEF Authorise

-----------------------------------------------------------------------------
\* What is on record about every application, always: the inductive
\* invariant of the lifecycle.
THEOREM LifecycleInductive == Spec => []IInv
<1>1. Init => IInv
  BY DEF Init, IInv, TypeOK, AppInv, Blank, Statuses, TaskStates,
         Verdicts, Undecided, Approvals, IssuableStatuses, IsConditional
<1>2. IInv /\ [Next]_vars => IInv'
  <2> SUFFICES ASSUME IInv, [Next]_vars PROVE IInv'
    OBVIOUS
  <2>1. CASE UNCHANGED vars
    <3>1. TypeOK'
      BY <2>1 DEF IInv, vars, TypeOK
    <3>2. \A b \in Apps : Untouched(b)
      BY <2>1 DEF vars, Untouched
    <3>3. QED
      BY <3>1, <3>2, Frame DEF IInv
  <2>2. CASE Next
    <3>1. PICK a \in Apps : Apply(a) \/ Decide(a) \/ Supply(a) \/ Deliver(a) \/ Authorise(a)
      BY <2>2 DEF Next
    <3>2. TypeOK /\ AppInv(a)
      BY DEF IInv
    <3>3. TypeOK'
      BY <3>1, <3>2, TypeStep
    <3>4. Local(a)
      BY <3>1, <3>2, StepIsLocal
    <3>5. AppInv(a)'
      BY <3>1, <3>2, ApplyStep, DecideStep, SupplyStep, DeliverStep, AuthoriseStep
    <3>7. \A b \in Apps : AppInv(b)'
      BY <3>4, <3>5, Frame DEF IInv, Local
    <3>8. QED
      BY <3>3, <3>7 DEF IInv
  <2>3. QED
    BY <2>1, <2>2
<1>3. QED
  BY <1>1, <1>2, PTL DEF Spec

\* The variables keep their types, whatever skills run.
THEOREM LifecycleTypeCorrect == Spec => []TypeOK
BY LifecycleInductive, PTL DEF IInv

\* Whatever counts as approved was approved the way its resource asks for: a
\* conditional application is never granted past its two levels.
THEOREM NothingApprovedOtherwise == Spec => []ApprovedByTheBook
<1>1. IInv => ApprovedByTheBook
  BY DEF IInv, AppInv, ApprovedByTheBook
<1>2. QED
  BY <1>1, LifecycleInductive, PTL

\* No credential without an approval on record, then or later.
THEOREM NoCredentialUnapproved == Spec => []CredentialAfterApproval
<1>1. IInv => CredentialAfterApproval
  BY DEF IInv, AppInv, CredentialAfterApproval
<1>2. QED
  BY <1>1, LifecycleInductive, PTL

\* Nothing is fed back before its summary is confirmed.
THEOREM NoEarlyBackflow == Spec => []BackflowAfterSummary
<1>1. IInv => BackflowAfterSummary
  BY DEF IInv, AppInv, BackflowAfterSummary
<1>2. QED
  BY <1>1, LifecycleInductive, PTL

-----------------------------------------------------------------------------
(* Conditional applications implement ConditionalFlow.                     *)

\* Where a conditional application can be, and that it was submitted iff it
\* is past its draft.
FlowInv(a) ==
    /\ status[a] \in {"none", "draft"} => a \notin submitted
    /\ IsConditional(a) =>
          status[a] \in {"draft", "submitted", "dept_approved", "rejected", "granted",
                        "suspended", "revoked", "dispatched"}

\* A step takes the lane of its application along the table, or not at all.
LaneStep(a) ==
    \/ Lane(a)' = Lane(a) /\ (IsConditional(a)' /\ a \in submitted'
                               <=> IsConditional(a) /\ a \in submitted)
    \/ /\ Lane(a) = "outside"
       /\ Lane(a)' = "submitted"
       /\ ~(IsConditional(a) /\ a \in submitted)
       /\ IsConditional(a)' /\ a \in submitted'
    \/ /\ Lane(a) # "outside"
       /\ Lane(a)' \in Flow!ConditionalMoves[Lane(a)] \union {"outside"}
       /\ IsConditional(a)' = IsConditional(a)
       /\ submitted' = submitted

\* An application and its lane, under a step on it.
LEMMA FlowStep ==
    ASSUME TypeOK, NEW a \in Apps, AppInv(a), FlowInv(a),
           Apply(a) \/ Decide(a) \/ Supply(a) \/ Deliver(a) \/ Authorise(a)
    PROVE  FlowInv(a)' /\ LaneStep(a)
<1> USE DEF FlowInv, LaneStep, Lane, IsConditional, Flow!ConditionalMoves, Set
<1>1. CASE \E r \in Resources, u \in Users, as_draft \in BOOLEAN :
              create_request(a, r, u, as_draft)
  BY <1>1 DEF TypeOK, AppInv, Blank, create_request, AddRequest, EntryStatus
<1>2. CASE submit_request(a)
  BY <1>2 DEF TypeOK, AppInv, submit_request, EntryStatus, cardVars
<1>3. CASE \E u \in Users : applicant_resubmit(a, u)
  BY <1>3 DEF TypeOK, applicant_resubmit
<1>4. CASE \E d \in Decisions : review_application_record(a, d)
  <2>1. PICK d \in Decisions : review_application_record(a, d)
    BY <1>4
  <2>2. ~IsConditional(a) /\ ~IsConditional(a)' /\ submitted' = submitted
    BY <2>1 DEF review_application_record, RecordReview, cardVars
  <2>3. status'[a] \notin {"none", "draft"}
    BY <2>1 DEF TypeOK, review_application_record, RecordReview, StatusAfter
  <2>4. QED
    BY <2>2, <2>3
<1>5. CASE \E v \in Verdicts \ {"none"} : platform_decide(a, v)
  BY <1>5 DEF TypeOK, platform_decide, cardVars
<1>6. CASE \E u \in Users, v \in Verdicts \ {"none"} : dept_approve(a, u, v)
  BY <1>6 DEF TypeOK, dept_approve, RecordDeptReview, cardVars
<1>7. CASE Supply(a)
  <2>1. CASE dispatch_require_resource(a)
    BY <2>1 DEF TypeOK, dispatch_require_resource, cardVars, Exists
  <2>2. CASE submit_supplement(a) \/ confirm_summary(a) \/ confirm_backflow(a)
    BY <2>2 DEF TypeOK, submit_supplement, confirm_summary, confirm_backflow, cardVars
  <2>3. QED
    BY <1>7, <2>1, <2>2 DEF Supply
<1>8. CASE Deliver(a)
  BY <1>8 DEF Deliver, grant_delivery_access, refuse_delivery_access,
              ingest_delivery_receipt,
              reconcile_delivery_receipt, replace_or_cancel_delivery, cardVars
<1>9. CASE Authorise(a)
  <2>1. CASE suspend_application_grant(a)
    BY <2>1 DEF TypeOK, suspend_application_grant, cardVars, Exists
  <2>2. CASE \E by \in {"applicant", "busiaudit"} : revoke_application_grant(a, by)
    BY <2>2 DEF TypeOK, revoke_application_grant, cardVars, Exists
  <2>3. CASE \E reissue \in BOOLEAN : issue_credential(a, reissue)
    BY <2>3 DEF issue_credential, cardVars
  <2>4. QED
    BY <1>9, <2>1, <2>2, <2>3 DEF Authorise
<1>10. QED
  BY <1>1, <1>2, <1>3, <1>4, <1>5, <1>6, <1>7, <1>8, <1>9 DEF Apply, Decide

\* A step changes the history of its own application only.
LEMMA SubmittedLocal ==
    ASSUME NEW a \in Apps,
           Apply(a) \/ Decide(a) \/ Supply(a) \/ Deliver(a) \/ Authorise(a)
    PROVE  submitted' \in {submitted, submitted \union {a}}
BY DEF Apply, create_request, AddRequest, submit_request, applicant_resubmit, Decide,
       review_application_record, RecordReview, platform_decide, dept_approve,
       RecordDeptReview, Supply,
       dispatch_require_resource, submit_supplement, confirm_summary, confirm_backflow,
       Deliver, grant_delivery_access, refuse_delivery_access, ingest_delivery_receipt,
       reconcile_delivery_receipt, replace_or_cancel_delivery, Authorise,
       suspend_application_grant, revoke_application_grant, issue_credential

\* For any applications, resources and users: acceptance before review, a
\* rejected application starts over, and nothing else leads to granted.
THEOREM ImplementsConditionalFlow == Spec => KeepsConditionalFlow
<1> DEFINE FInv == IInv /\ \A a \in Apps : FlowInv(a)
<1>1. Init => FInv /\ Flow!Init
  <2> SUFFICES ASSUME Init PROVE FInv /\ Flow!Init
    OBVIOUS
  <2>1. IInv
    BY DEF Init, IInv, TypeOK, AppInv, Blank, Statuses, TaskStates,
           Verdicts, Undecided, Approvals, IssuableStatuses, IsConditional
  <2>2. \A a \in Apps : ~IsConditional(a) /\ status[a] = "none"
    BY DEF Init, IsConditional
  <2>3. QED
    BY <2>1, <2>2 DEF Init, FlowInv, Flow!Init, Lane
<1>2. FInv /\ IInv' /\ [Next]_vars
      => FInv' /\ [Flow!Next]_<<[a \in Apps |-> Lane(a)], {a \in submitted : IsConditional(a)}>>
  <2> SUFFICES ASSUME FInv, IInv', [Next]_vars
               PROVE  /\ FInv'
                      /\ [Flow!Next]_<<[a \in Apps |-> Lane(a)],
                                       {a \in submitted : IsConditional(a)}>>
    OBVIOUS
  <2>1. CASE UNCHANGED vars
    BY <2>1 DEF vars, FlowInv, IsConditional, Lane
  <2>2. CASE Next
    <3>1. PICK a \in Apps : Apply(a) \/ Decide(a) \/ Supply(a) \/ Deliver(a) \/ Authorise(a)
      BY <2>2 DEF Next
    <3>2. TypeOK /\ AppInv(a) /\ FlowInv(a) /\ submitted' \subseteq Apps
      BY DEF IInv, TypeOK
    <3>3. FlowInv(a)' /\ LaneStep(a)
      BY <3>1, <3>2, FlowStep
    <3>4. Local(a) /\ submitted' \in {submitted, submitted \union {a}}
      BY <3>1, <3>2, StepIsLocal, SubmittedLocal
    <3>5. \A b \in Apps \ {a} :
             /\ FlowInv(b)'
             /\ Lane(b)' = Lane(b)
             /\ (b \in submitted') <=> (b \in submitted)
             /\ IsConditional(b)' <=> IsConditional(b)
      BY <3>4 DEF Local, Untouched, FlowInv, Lane, IsConditional
    <3>6. FInv'
      BY <3>3, <3>5
    <3> DEFINE L == [b \in Apps |-> Lane(b)]
               E == {b \in submitted : IsConditional(b)}
    <3>7. L' = [L EXCEPT ![a] = Lane(a)']
      BY <3>5
    <3>8. CASE Lane(a)' = Lane(a) /\ (IsConditional(a)' /\ a \in submitted'
                                      <=> IsConditional(a) /\ a \in submitted)
      <4>1. L' = L
        BY <3>5, <3>8
      <4>2. E' = E
        BY <3>2, <3>5, <3>8 DEF TypeOK
      <4>3. QED
        BY <3>6, <4>1, <4>2
    <3>9. CASE /\ Lane(a) = "outside"
               /\ Lane(a)' = "submitted"
               /\ ~(IsConditional(a) /\ a \in submitted)
               /\ IsConditional(a)' /\ a \in submitted'
      <4>1. E' = E \union {a} /\ a \notin E
        BY <3>2, <3>5, <3>9 DEF TypeOK
      <4>2. Flow!Enter(a)
        BY <3>7, <3>9, <4>1 DEF Flow!Enter
      <4>3. QED
        BY <3>6, <4>2 DEF Flow!Next
    <3>10. CASE /\ Lane(a) # "outside"
                /\ Lane(a)' \in Flow!ConditionalMoves[Lane(a)] \union {"outside"}
                /\ IsConditional(a)' = IsConditional(a)
                /\ submitted' = submitted
      <4>1. E' = E
        BY <3>2, <3>5, <3>10 DEF TypeOK
      <4>2. Flow!Move(a) \/ Flow!Withdraw(a)
        BY <3>7, <3>10, <4>1 DEF Flow!Move, Flow!Withdraw
      <4>3. QED
        BY <3>6, <4>2 DEF Flow!Next
    <3>11. QED
      BY <3>3, <3>8, <3>9, <3>10 DEF LaneStep
  <2>3. QED
    BY <2>1, <2>2
<1>3. QED
  BY <1>1, <1>2, LifecycleInductive, PTL DEF Spec, KeepsConditionalFlow, Flow!Spec

-----------------------------------------------------------------------------
(* Sessions: the inductive invariant                                       *)

\* What a request is and has in hand by the step it is at.
StageOK(j) ==
    /\ j.op = "login" <=> j.step \in {"exchange", "create"}
    /\ j.op = "refresh" => j.step \in {"refresh", "drop", "tokens", "save_tokens"}
    /\ j.op = "login" => j.login \in Logins
    /\ j.op # "login" => j.sid \in drawn /\ j.held \in Records
    /\ j.step = "tokens" => j.grant \in 1 .. MaxTokens
    /\ j.step \in {"save_tokens", "save_snapshot"} => j.write \in Records /\ backend = "redis"

\* A skill call has noted all that is bound.
NotedOK(j) == j.op = "call" => bindings \subseteq j.bound /\ (actorStatus = "active" => j.enabled)

\* Its role, once derived, is one of those.
RoleOK(j) ==
    /\ j.step \in {"snapshot", "save_snapshot", "served"} /\ j.role # None =>
          j.enabled /\ (j.fallback \/ j.role \in j.bound)
    /\ j.step = "served" => j.role # None

RequestOK(j) == StageOK(j) /\ NotedOK(j) /\ RoleOK(j)

SessionsInv ==
    /\ SessionsTypeOK
    /\ \A s \in Sids : sessions[s] # None => s \in drawn
    /\ \A t \in Threads : job[t] # None => RequestOK(job[t])

\* With the in-process store, the copy of a request that nobody overtook has the
\* stored token, the provider's token is never behind, and what a refresh was granted
\* is the provider's newest.
CopyOK(j) ==
    j.op # "login" =>
        /\ j.held.token <= token[j.sid]
        /\ ~j.overtaken /\ sessions[j.sid] # None =>
              /\ sessions[j.sid].token = j.held.token
              /\ j.step = "drop" => j.held.token < token[j.sid]
        /\ j.step = "tokens" => j.grant = token[j.sid]

\* Nobody else can refresh a session whose new token is still on its way.
WaitingOK(t, u) ==
    (/\ rotates /\ job[t] # None /\ job[u] # None /\ job[t].op # "login" /\ job[u].op # "login"
     /\ job[t].step = "tokens" /\ job[u].sid = job[t].sid) =>
        /\ job[u].held.token < token[job[t].sid]
        /\ sessions[job[t].sid] # None => sessions[job[t].sid].token < token[job[t].sid]
        /\ u # t => job[u].step # "tokens"

InMemory ==
    backend = "memory" =>
        /\ \A s \in Sids : sessions[s] # None => sessions[s].token <= token[s]
        /\ \A t \in Threads : job[t] # None => CopyOK(job[t])
        /\ \A t, u \in Threads : WaitingOK(t, u)

-----------------------------------------------------------------------------
(* Steps of a request                                                      *)

\* A request at another step, with what that may change of it.
TurnedTo(k, j, step, held, grant, write, role, fallback, overtaken) ==
    /\ k \in Jobs /\ k.step = step /\ k.held = held /\ k.grant = grant /\ k.write = write
    /\ k.role = role /\ k.fallback = fallback /\ k.overtaken = overtaken
    /\ k.op = j.op /\ k.sid = j.sid /\ k.login = j.login /\ k.bound = j.bound
    /\ k.enabled = j.enabled

\* Only the step changes.
Stepped(j, step) == [j EXCEPT !.step = step]

LEMMA SteppedFields ==
    ASSUME NEW j \in Jobs, NEW step \in Steps
    PROVE  TurnedTo(Stepped(j, step), j, step, j.held, j.grant, j.write, j.role, j.fallback,
                    j.overtaken)
<1> DEFINE k == Stepped(j, step)
<1>1. k \in Jobs
  BY DEF Stepped, Jobs
<1>2. /\ k.step = step /\ k.held = j.held /\ k.grant = j.grant /\ k.write = j.write
      /\ k.role = j.role /\ k.op = j.op /\ k.sid = j.sid /\ k.login = j.login
      /\ k.bound = j.bound
  BY DEF Stepped, Jobs
<1>3. k.fallback = j.fallback
  BY DEF Stepped, Jobs
<1>4. k.overtaken = j.overtaken
  BY DEF Stepped, Jobs
<1>5. k.enabled = j.enabled
  BY DEF Stepped, Jobs
<1> QED BY <1>1, <1>2, <1>3, <1>4, <1>5, Zenon DEF TurnedTo

\* The provider has given a token.
Granted(j, n) == [j EXCEPT !.step = "tokens", !.grant = n]

LEMMA GrantedFields ==
    ASSUME NEW j \in Jobs, NEW n \in 1 .. MaxTokens
    PROVE  TurnedTo(Granted(j, n), j, "tokens", j.held, n, j.write, j.role, j.fallback, j.overtaken)
<1> DEFINE k == Granted(j, n)
<1>0. n \in 0 .. MaxTokens /\ "tokens" \in Steps
  BY LifetimesAssumption DEF Steps
<1>1. k \in Jobs
  BY <1>0 DEF Granted, Jobs
<1>2. /\ k.step = "tokens" /\ k.held = j.held /\ k.grant = n /\ k.write = j.write
      /\ k.role = j.role /\ k.op = j.op /\ k.sid = j.sid /\ k.login = j.login
      /\ k.bound = j.bound
  BY DEF Granted, Jobs
<1>3. k.fallback = j.fallback
  BY DEF Granted, Jobs
<1>4. k.overtaken = j.overtaken
  BY DEF Granted, Jobs
<1>5. k.enabled = j.enabled
  BY DEF Granted, Jobs
<1> QED BY <1>1, <1>2, <1>3, <1>4, <1>5, Zenon DEF TurnedTo

\* The Redis store has read, or has written.
Holding(j, step, w) == [j EXCEPT !.step = step, !.write = w]

LEMMA HoldingFields ==
    ASSUME NEW j \in Jobs, NEW step \in Steps, NEW w \in Records \union {None}
    PROVE  TurnedTo(Holding(j, step, w), j, step, j.held, j.grant, w, j.role, j.fallback, j.overtaken)
<1> DEFINE k == Holding(j, step, w)
<1>1. k \in Jobs
  BY LifetimesAssumption DEF Holding, Jobs, Steps
<1>2. /\ k.step = step /\ k.held = j.held /\ k.grant = j.grant /\ k.write = w
      /\ k.role = j.role /\ k.op = j.op /\ k.sid = j.sid /\ k.login = j.login
      /\ k.bound = j.bound
  BY DEF Holding, Jobs
<1>3. k.fallback = j.fallback
  BY DEF Holding, Jobs
<1>4. k.overtaken = j.overtaken
  BY DEF Holding, Jobs
<1>5. k.enabled = j.enabled
  BY DEF Holding, Jobs
<1> QED BY <1>1, <1>2, <1>3, <1>4, <1>5, Zenon DEF TurnedTo

\* The role is derived.
Derived(j, r, fb) == [j EXCEPT !.step = "snapshot", !.role = r, !.fallback = fb]

LEMMA DerivedFields ==
    ASSUME NEW j \in Jobs, NEW r \in Roles \union {None}, NEW fb \in BOOLEAN
    PROVE  TurnedTo(Derived(j, r, fb), j, "snapshot", j.held, j.grant, j.write, r, fb, j.overtaken)
<1> DEFINE k == Derived(j, r, fb)
<1>1. k \in Jobs
  BY LifetimesAssumption DEF Derived, Jobs, Steps
<1>2. /\ k.step = "snapshot" /\ k.held = j.held /\ k.grant = j.grant /\ k.write = j.write
      /\ k.role = r /\ k.op = j.op /\ k.sid = j.sid /\ k.login = j.login
      /\ k.bound = j.bound
  BY DEF Derived, Jobs
<1>3. k.fallback = fb
  BY DEF Derived, Jobs
<1>4. k.overtaken = j.overtaken
  BY DEF Derived, Jobs
<1>5. k.enabled = j.enabled
  BY DEF Derived, Jobs
<1> QED BY <1>1, <1>2, <1>3, <1>4, <1>5, Zenon DEF TurnedTo

\* The access token has expired: the forced refresh.
Forced(j) == [j EXCEPT !.step = "refresh", !.forced = TRUE]

LEMMA ForcedFields ==
    ASSUME NEW j \in Jobs
    PROVE  TurnedTo(Forced(j), j, "refresh", j.held, j.grant, j.write, j.role, j.fallback, j.overtaken)
<1> DEFINE k == Forced(j)
<1>1. k \in Jobs
  BY LifetimesAssumption DEF Forced, Jobs, Steps
<1>2. /\ k.step = "refresh" /\ k.held = j.held /\ k.grant = j.grant /\ k.write = j.write
      /\ k.role = j.role /\ k.op = j.op /\ k.sid = j.sid /\ k.login = j.login
      /\ k.bound = j.bound
  BY DEF Forced, Jobs
<1>3. k.fallback = j.fallback
  BY DEF Forced, Jobs
<1>4. k.overtaken = j.overtaken
  BY DEF Forced, Jobs
<1>5. k.enabled = j.enabled
  BY DEF Forced, Jobs
<1> QED BY <1>1, <1>2, <1>3, <1>4, <1>5, Zenon DEF TurnedTo

\* The request goes on with the renewed session.
GoingOn(j, session) == 
    [j EXCEPT !.step = "health", !.held = session, !.write = None, !.grant = 0, !.overtaken = FALSE]

LEMMA GoingOnFields ==
    ASSUME NEW j \in Jobs, NEW session \in Records
    PROVE  TurnedTo(GoingOn(j, session), j, "health", session, 0, None, j.role, j.fallback, FALSE)
<1> DEFINE k == GoingOn(j, session)
<1>0. 0 \in 0 .. MaxTokens /\ "health" \in Steps
  BY LifetimesAssumption DEF Steps
<1>1. k \in Jobs
  BY <1>0 DEF GoingOn, Jobs
<1>2. /\ k.step = "health" /\ k.held = session /\ k.grant = 0 /\ k.write = None
      /\ k.role = j.role /\ k.op = j.op /\ k.sid = j.sid /\ k.login = j.login
      /\ k.bound = j.bound
  BY DEF GoingOn, Jobs
<1>3. k.fallback = j.fallback
  BY DEF GoingOn, Jobs
<1>4. k.overtaken = FALSE
  BY DEF GoingOn, Jobs
<1>5. k.enabled = j.enabled
  BY DEF GoingOn, Jobs
<1> QED BY <1>1, <1>2, <1>3, <1>4, <1>5, Zenon DEF TurnedTo

\* Another request renewed the session.
Noted(j) == [j EXCEPT !.overtaken = TRUE]

LEMMA NotedFields ==
    ASSUME NEW j \in Jobs
    PROVE  TurnedTo(Noted(j), j, j.step, j.held, j.grant, j.write, j.role, j.fallback, TRUE)
<1> DEFINE k == Noted(j)
<1>1. k \in Jobs
  BY LifetimesAssumption DEF Noted, Jobs, Steps
<1>2. /\ k.step = j.step /\ k.held = j.held /\ k.grant = j.grant /\ k.write = j.write
      /\ k.role = j.role /\ k.op = j.op /\ k.sid = j.sid /\ k.login = j.login
      /\ k.bound = j.bound
  BY DEF Noted, Jobs
<1>3. k.fallback = j.fallback
  BY DEF Noted, Jobs
<1>4. k.overtaken = TRUE
  BY DEF Noted, Jobs
<1>5. k.enabled = j.enabled
  BY DEF Noted, Jobs
<1> QED BY <1>1, <1>2, <1>3, <1>4, <1>5, Zenon DEF TurnedTo

\* A new request.
LEMMA NewJobFields ==
    ASSUME SessionsInv, NEW op \in {"call", "refresh", "login"}
    PROVE  /\ NewJob(op) \in Jobs /\ NewJob(op).op = op /\ NewJob(op).grant = 0
           /\ NewJob(op).role = None
           /\ op = "call" => NewJob(op).bound = bindings
           /\ op = "call" /\ actorStatus = "active" => NewJob(op).enabled
           /\ NewJob(op).overtaken = FALSE
<1> DEFINE bound == IF op = "call" THEN bindings ELSE {}
           enabled == op = "call" /\ actorStatus = "active"
<1>1. bound \in SUBSET Roles /\ "health" \in Steps /\ 0 \in 0 .. MaxTokens
  BY LifetimesAssumption DEF SessionsInv, SessionsTypeOK, Steps
<1>2. enabled \in BOOLEAN
  OBVIOUS
<1>3. NewJob(op) =
          [step |-> "health", op |-> op, sid |-> None, login |-> None, held |-> None,
           grant |-> 0, write |-> None, forced |-> FALSE, role |-> None, fallback |-> FALSE,
           bound |-> bound, enabled |-> enabled, overtaken |-> FALSE]
  BY Zenon DEF NewJob
<1> HIDE DEF bound, enabled
<1>4. NewJob(op) \in Jobs
  BY <1>1, <1>2, <1>3 DEF Jobs
<1>5. NewJob(op).op = op /\ NewJob(op).grant = 0 /\ NewJob(op).role = None
      /\ NewJob(op).bound = bound
  BY <1>3
<1>6. NewJob(op).enabled = enabled
  BY <1>3
<1>7. NewJob(op).overtaken = FALSE
  BY <1>3
<1> QED BY <1>4, <1>5, <1>6, <1>7 DEF bound, enabled

\* A request under way, and the kinds of its fields.
LEMMA UnderWay ==
    ASSUME SessionsInv, NEW t \in Threads, job[t] # None
    PROVE  /\ job[t] \in Jobs /\ RequestOK(job[t]) /\ job \in [Threads -> Jobs \union {None}]
           /\ job[t].step \in Steps /\ job[t].held \in Records \union {None}
           /\ job[t].grant \in 0 .. MaxTokens /\ job[t].write \in Records \union {None}
           /\ job[t].forced \in BOOLEAN /\ job[t].role \in Roles \union {None}
           /\ job[t].fallback \in BOOLEAN /\ job[t].overtaken \in BOOLEAN
           /\ job[t].op \in {"call", "refresh", "login"}
<1>1. job[t] \in Jobs /\ RequestOK(job[t]) /\ job \in [Threads -> Jobs \union {None}]
  BY DEF SessionsInv, SessionsTypeOK
<1> QED BY <1>1 DEF Jobs

LEMMA GotoSteps ==
    ASSUME SessionsInv, NEW t \in Threads, job[t] # None, NEW step, Goto(t, step)
    PROVE  job' = [job EXCEPT ![t] = Stepped(job[t], step)]
<1>1. job[t] \in Jobs /\ job \in [Threads -> Jobs \union {None}]
  BY UnderWay
<1> QED BY <1>1 DEF Goto, Stepped

\* A request stays well as long as its actor's bindings do.
LEMMA RequestStays ==
    ASSUME NEW j, RequestOK(j), UNCHANGED <<backend, bindings, actorStatus>>, drawn \subseteq drawn'
    PROVE  RequestOK(j)'
BY DEF RequestOK, StageOK, NotedOK, RoleOK

\* One request moves, or ends; the store may lose a session meanwhile.
LEMMA OneTurns ==
    ASSUME SessionsInv, NEW t \in Threads, NEW k \in Jobs \union {None}, k # None => RequestOK(k),
           job' = [job EXCEPT ![t] = k], UNCHANGED <<backend, bindings, actorStatus>>,
           drawn \subseteq drawn', SessionsTypeOK',
           \A s \in Sids : sessions'[s] # None => s \in drawn'
    PROVE  SessionsInv'
<1>1. job \in [Threads -> Jobs \union {None}]
  BY DEF SessionsInv, SessionsTypeOK
<1>2. ASSUME NEW u \in Threads, job'[u] # None PROVE RequestOK(job[u])'
  <2>1. PICK d : d = job'[u]
    OBVIOUS
  <2>2. RequestOK(d)
    BY <1>1, <1>2, <2>1 DEF SessionsInv
  <2>3. RequestOK(d)'
    BY <2>2, RequestStays
  <2> QED BY <2>1, <2>3 DEF RequestOK, StageOK, NotedOK, RoleOK
<1> QED BY <1>2 DEF SessionsInv

\* The same where only the requests change.
LEMMA OnlyTurns ==
    ASSUME SessionsInv, NEW t \in Threads, NEW k \in Jobs \union {None}, k # None => RequestOK(k),
           job' = [job EXCEPT ![t] = k],
           UNCHANGED <<backend, rotates, sessions, drawn, token, actorStatus, bindings, now, changes>>,
           burned' \subseteq Logins, states' \in [Logins -> 0 .. MaxNow \union {None}],
           faults' \in 0 .. MaxFaults
    PROVE  SessionsInv'
<1>1. job' \in [Threads -> Jobs \union {None}]
  BY DEF SessionsInv, SessionsTypeOK
<1>2. SessionsTypeOK'
  BY <1>1 DEF SessionsInv, SessionsTypeOK
<1> QED BY <1>2, OneTurns DEF SessionsInv

\* A request that is told of a failed refresh.
LEMMA FailedRefresh ==
    ASSUME SessionsInv, NEW t \in Threads, job[t] # None,
           job[t].step \in {"refresh", "drop", "tokens"}
    PROVE  /\ AfterFailedRefresh(job[t]) \in Jobs \union {None}
           /\ AfterFailedRefresh(job[t]) # None =>
                 /\ RequestOK(AfterFailedRefresh(job[t]))
                 /\ AfterFailedRefresh(job[t]).op = job[t].op
                 /\ AfterFailedRefresh(job[t]).sid = job[t].sid
                 /\ AfterFailedRefresh(job[t]).held = job[t].held
                 /\ AfterFailedRefresh(job[t]).overtaken = job[t].overtaken
                 /\ AfterFailedRefresh(job[t]).step = "health"
<1>1. PICK j, k : j = job[t] /\ k = AfterFailedRefresh(j)
  OBVIOUS
<1>2. j \in Jobs /\ RequestOK(j)
  BY <1>1, UnderWay
<1>3. CASE j.op = "call" /\ ~j.forced
  <2> DEFINE h == "health"
  <2>1. k = Stepped(j, h)
    BY <1>1, <1>2, <1>3 DEF AfterFailedRefresh, Stepped
  <2>2. h \in Steps
    BY DEF Steps
  <2> HIDE DEF h
  <2>3. TurnedTo(k, j, h, j.held, j.grant, j.write, j.role, j.fallback, j.overtaken)
    BY <1>2, <2>1, <2>2, SteppedFields
  <2>4. RequestOK(k)
    BY <1>2, <1>3, <2>3 DEF RequestOK, StageOK, NotedOK, RoleOK, TurnedTo, h
  <2> QED BY <1>1, <2>3, <2>4 DEF TurnedTo, h
<1>4. CASE ~(j.op = "call" /\ ~j.forced)
  <2>1. k = None
    BY <1>1, <1>4 DEF AfterFailedRefresh
  <2> QED BY <1>1, <2>1
<1> QED BY <1>3, <1>4

-----------------------------------------------------------------------------
(* Logging in                                                              *)

LEMMA LoginSteps ==
    ASSUME SessionsInv, NEW t \in Threads, NEW l \in Logins,
           Issue(l) \/ BeginLogin(t, l) \/ Exchange(t)
    PROVE  SessionsInv'
<1>1. /\ states \in [Logins -> 0 .. MaxNow \union {None}] /\ now \in 0 .. MaxNow
      /\ burned \subseteq Logins /\ faults \in 0 .. MaxFaults /\ None \notin Jobs
      /\ job \in [Threads -> Jobs \union {None}]
  BY NoneAssumption DEF SessionsInv, SessionsTypeOK
<1>2. CASE Issue(l)
  <2>1. SessionsTypeOK'
    BY <1>1, <1>2 DEF Issue, SessionsInv, SessionsTypeOK, deployment, store, actor
  <2>2. UNCHANGED <<backend, bindings, actorStatus, drawn, job, sessions>>
    BY <1>2 DEF Issue, deployment, store, actor
  <2>3. job' = [job EXCEPT ![t] = job[t]] /\ job[t] \in Jobs \union {None}
    BY <1>1, <2>2
  <2> QED BY <2>1, <2>2, <2>3, OneTurns DEF SessionsInv
<1>3. CASE BeginLogin(t, l)
  <2>1. UNCHANGED <<backend, rotates, sessions, drawn, token, actorStatus, bindings, now, changes, burned, faults>>
    BY <1>3 DEF BeginLogin, deployment, store, actor
  <2>2. CASE Unexpired(l)
    <3> DEFINE k == [NewJob("login") EXCEPT !.step = "exchange", !.login = l]
    <3>1. job' = [job EXCEPT ![t] = k] /\ UNCHANGED states
      BY <1>3, <2>2 DEF BeginLogin, PeekState
    <3>2. PICK n : n = NewJob("login")
      OBVIOUS
    <3>3. n \in Jobs /\ n.op = "login" /\ "exchange" \in Steps
      BY <3>2, NewJobFields DEF Steps
    <3>4. k \in Jobs /\ k.op = n.op /\ k.step = "exchange" /\ k.login = l
      BY <3>2, <3>3 DEF Jobs
    <3> HIDE DEF k
    <3>5. RequestOK(k)
      BY <3>3, <3>4 DEF RequestOK, StageOK, NotedOK, RoleOK
    <3> QED BY <1>1, <2>1, <3>1, <3>4, <3>5, OnlyTurns
  <2>3. CASE ~Unexpired(l)
    <3>1. job' = job /\ states' = [states EXCEPT ![l] = None]
      BY <1>3, <2>3 DEF BeginLogin
    <3>2. job' = [job EXCEPT ![t] = job[t]] /\ job[t] \in Jobs \union {None}
          /\ (job[t] # None => RequestOK(job[t]))
      BY <1>1, <3>1 DEF SessionsInv
    <3>3. states' \in [Logins -> 0 .. MaxNow \union {None}]
      BY <1>1, <3>1
    <3> QED BY <1>1, <2>1, <3>2, <3>3, OnlyTurns
  <2> QED BY <2>2, <2>3
<1>4. CASE Exchange(t)
  <2>1. /\ UNCHANGED <<backend, rotates, sessions, drawn, token, actorStatus, bindings, now, changes>>
        /\ job[t] # None /\ job[t].step = "exchange"
    BY <1>4 DEF Exchange, deployment, store, actor
  <2>2. PICK j : j = job[t]
    OBVIOUS
  <2>3. j \in Jobs /\ RequestOK(j) /\ j.op = "login" /\ j.login \in Logins
    BY <2>1, <2>2, UnderWay DEF RequestOK, StageOK
  <2>4. states' \in [Logins -> 0 .. MaxNow \union {None}] /\ faults' \in 0 .. MaxFaults
    <3>1. states' = states \/ states' = [states EXCEPT ![j.login] = None]
      BY <1>4, <2>2 DEF Exchange, login
    <3>2. faults' = faults \/ Fault
      BY <1>4 DEF Exchange
    <3>3. faults' \in 0 .. MaxFaults
      BY <1>1, <3>2, LifetimesAssumption DEF Fault
    <3>4. states' \in [Logins -> 0 .. MaxNow \union {None}]
      BY <1>1, <3>1
    <3> QED BY <3>3, <3>4
  <2>5. CASE Answer(t) /\ burned' = burned
    <3>1. job' = [job EXCEPT ![t] = None]
      BY <2>5 DEF Answer
    <3> QED BY <1>1, <2>1, <2>4, <2>5, <3>1, OnlyTurns
  <2>6. CASE Goto(t, "create") /\ burned' = burned \union {j.login} /\ j.login \in Logins
    <3> DEFINE c == "create"
    <3>1. job' = [job EXCEPT ![t] = Stepped(j, c)]
      BY <2>1, <2>2, <2>6, GotoSteps
    <3>2. c \in Steps
      BY DEF Steps
    <3> HIDE DEF c
    <3>3. PICK k : k = Stepped(j, c)
      OBVIOUS
    <3>4. TurnedTo(k, j, c, j.held, j.grant, j.write, j.role, j.fallback, j.overtaken)
      BY <2>3, <3>2, <3>3, SteppedFields
    <3>5. RequestOK(k) /\ k \in Jobs
      BY <2>3, <3>4 DEF RequestOK, StageOK, NotedOK, RoleOK, TurnedTo, c
    <3> QED BY <1>1, <2>1, <2>4, <2>6, <3>1, <3>3, <3>5, OnlyTurns
  <2> QED BY <1>4, <2>2, <2>3, <2>5, <2>6 DEF Exchange, login
<1> QED BY <1>2, <1>3, <1>4

-----------------------------------------------------------------------------
(* Requests with a session                                                 *)

\* The tokens of the store are kept in its records.
LEMMA RenewedRecord ==
    ASSUME NEW session \in Records, NEW n \in 1 .. MaxTokens, now \in 0 .. MaxNow
    PROVE  Renewed(session, n) \in Records /\ Renewed(session, n).token = n
<1>1. now + AccessLife \in Times /\ now + RefreshLife \in Times
  BY LifetimesAssumption DEF Times
<1> QED BY <1>1 DEF Renewed, Records

LEMMA LoggedIn ==
    ASSUME SessionsInv, NEW t \in Threads, create(t)
    PROVE  SessionsInv'
<1>1. /\ UNCHANGED <<backend, rotates, states, burned, actorStatus, bindings, changes, now, faults>>
      /\ job' = [job EXCEPT ![t] = None]
  BY DEF create, deployment, login, actor, Answer
<1>2. /\ job \in [Threads -> Jobs \union {None}] /\ now \in 0 .. MaxNow /\ bindings \in SUBSET Roles
      /\ sessions \in [Sids -> Records \union {None}] /\ token \in [Sids -> 0 .. MaxTokens]
      /\ drawn \subseteq Sids /\ \A s \in Sids : sessions[s] # None => s \in drawn
  BY DEF SessionsInv, SessionsTypeOK
<1>3. job' \in [Threads -> Jobs \union {None}]
  BY <1>1, <1>2
<1>4. CASE UNCHANGED <<store, token>>
  <2>1. UNCHANGED <<sessions, drawn, token>>
    BY <1>4 DEF store
  <2>2. SessionsTypeOK'
    BY <1>1, <1>3, <2>1 DEF SessionsInv, SessionsTypeOK
  <2> QED BY <1>1, <1>2, <2>1, <2>2, OneTurns
<1>5. ASSUME NEW s \in Sids \ drawn, drawn' = drawn \union {s}, token' = [token EXCEPT ![s] = 1],
             sessions' = [sessions EXCEPT ![s] =
                 [token |-> 1, expires_at |-> now + AccessLife,
                  refresh_expires_at |-> now + RefreshLife, role_codes |-> bindings]]
      PROVE  SessionsInv'
  <2>1. PICK r : r = [token |-> 1, expires_at |-> now + AccessLife,
                      refresh_expires_at |-> now + RefreshLife, role_codes |-> bindings]
    OBVIOUS
  <2>2. now + AccessLife \in Times /\ now + RefreshLife \in Times /\ 1 \in 1 .. MaxTokens
        /\ 1 \in 0 .. MaxTokens
    BY <1>2, LifetimesAssumption DEF Times
  <2>3. r \in Records
    BY <1>2, <2>1, <2>2 DEF Records
  <2>4. sessions' = [sessions EXCEPT ![s] = r]
    BY <1>5, <2>1
  <2>5. sessions' \in [Sids -> Records \union {None}] /\ token' \in [Sids -> 0 .. MaxTokens]
        /\ drawn' \subseteq Sids /\ \A q \in Sids : sessions'[q] # None => q \in drawn'
    BY <1>2, <1>5, <2>2, <2>3, <2>4
  <2>6. SessionsTypeOK'
    BY <1>1, <1>3, <2>5 DEF SessionsInv, SessionsTypeOK
  <2>7. drawn \subseteq drawn'
    BY <1>5
  <2> QED BY <1>1, <2>5, <2>6, <2>7, OneTurns
<1> QED BY <1>4, <1>5 DEF create

\* A request moves while the store keeps, renews or loses its session.
LEMMA TurnsWithStore ==
    ASSUME SessionsInv, NEW t \in Threads, NEW k \in Jobs \union {None}, k # None => RequestOK(k),
           job' = [job EXCEPT ![t] = k], NEW s \in drawn, NEW r \in Records \union {None},
           sessions' = [sessions EXCEPT ![s] = r],
           UNCHANGED <<deployment, drawn, login, token, actor, now, faults>>
    PROVE  SessionsInv'
<1>1. /\ UNCHANGED <<backend, rotates, states, burned, actorStatus, bindings, changes, now, faults>>
      /\ UNCHANGED <<drawn, token>>
  BY DEF deployment, login, actor
<1>2. /\ job \in [Threads -> Jobs \union {None}] /\ sessions \in [Sids -> Records \union {None}]
      /\ drawn \subseteq Sids /\ \A q \in Sids : sessions[q] # None => q \in drawn
  BY DEF SessionsInv, SessionsTypeOK
<1>3. job' \in [Threads -> Jobs \union {None}]
  BY <1>2
<1>4. sessions' \in [Sids -> Records \union {None}]
      /\ \A q \in Sids : sessions'[q] # None => q \in drawn'
  BY <1>1, <1>2
<1>5. SessionsTypeOK'
  BY <1>1, <1>3, <1>4 DEF SessionsInv, SessionsTypeOK
<1> QED BY <1>1, <1>4, <1>5, OneTurns

LEMMA RequestBegins ==
    ASSUME SessionsInv, NEW t \in Threads, NEW op \in {"call", "refresh"}, NEW s \in Sids,
           BeginRequest(t, op, s)
    PROVE  SessionsInv'
<1>1. /\ UNCHANGED <<deployment, drawn, login, token, actor, now, faults>>
      /\ UNCHANGED <<backend, rotates, states, burned, actorStatus, bindings, changes>>
      /\ job[t] = None /\ sessions[s] # None
  BY DEF BeginRequest, store, deployment, login, actor
<1>2. /\ job \in [Threads -> Jobs \union {None}] /\ sessions[s] \in Records /\ s \in drawn
      /\ sessions \in [Sids -> Records \union {None}] /\ None \notin Jobs
      /\ states \in [Logins -> 0 .. MaxNow \union {None}] /\ burned \subseteq Logins
      /\ faults \in 0 .. MaxFaults
  BY <1>1, NoneAssumption DEF SessionsInv, SessionsTypeOK
<1>3. CASE Live(s)
  <2> DEFINE step == IF op = "refresh" \/ should_refresh(sessions[s]) THEN "refresh" ELSE "health"
             k == [NewJob(op) EXCEPT !.sid = s, !.held = sessions[s], !.step = step]
  <2>1. job' = [job EXCEPT ![t] = k] /\ UNCHANGED sessions
    BY <1>3 DEF BeginRequest, store
  <2>2. step \in {"refresh", "health"} /\ (op = "refresh" => step = "refresh") /\ step \in Steps
    BY DEF Steps
  <2> HIDE DEF step
  <2>3. PICK n : n = NewJob(op)
    OBVIOUS
  <2>4. /\ n \in Jobs /\ n.op = op /\ n.role = None
        /\ op = "call" => n.bound = bindings
        /\ op = "call" /\ actorStatus = "active" => n.enabled
    BY <2>3, NewJobFields
  <2>5. k \in Jobs
    BY ZenonT(60), <1>2, <2>2, <2>3, <2>4 DEF Jobs
  <2>6. k.op = op /\ k.role = None /\ k.step = step /\ k.sid = s /\ k.held = sessions[s]
        /\ k.bound = n.bound
    BY <1>2, <2>2, <2>3, <2>4 DEF Jobs
  <2>7. k.enabled = n.enabled
    BY <1>2, <2>2, <2>3, <2>4 DEF Jobs
  <2> HIDE DEF k
  <2>8. StageOK(k)
    BY <1>2, <2>2, <2>6 DEF StageOK
  <2>9. NotedOK(k) /\ RoleOK(k)
    BY <2>2, <2>4, <2>6, <2>7 DEF NotedOK, RoleOK
  <2> QED BY <1>1, <1>2, <2>1, <2>5, <2>8, <2>9, OnlyTurns DEF RequestOK
<1>4. CASE ~Live(s)
  <2>1. sessions' = [sessions EXCEPT ![s] = None] /\ job' = [job EXCEPT ![t] = job[t]]
    BY <1>2, <1>4 DEF BeginRequest
  <2> QED BY <1>1, <1>2, <2>1, TurnsWithStore
<1> QED BY <1>3, <1>4

\* What the kinds of a request's fields give its next step.
LEMMA Cookie ==
    ASSUME SessionsInv, NEW t \in Threads, job[t] # None,
           job[t].step \notin {"exchange", "create"}
    PROVE  /\ job[t].op \in {"call", "refresh"} /\ job[t].sid \in drawn /\ job[t].sid \in Sids
           /\ job[t].held \in Records /\ job[t].held.token \in 1 .. MaxTokens
<1>1. job[t].op \in {"call", "refresh", "login"} /\ RequestOK(job[t]) /\ drawn \subseteq Sids
  BY UnderWay DEF SessionsInv, SessionsTypeOK
<1>2. job[t].op \in {"call", "refresh"} /\ job[t].sid \in drawn /\ job[t].held \in Records
  BY <1>1 DEF RequestOK, StageOK
<1> QED BY <1>1, <1>2 DEF Records

LEMMA Refreshed ==
    ASSUME SessionsInv, NEW t \in Threads, Refresh(t)
    PROVE  SessionsInv'
<1> DEFINE s == job[t].sid
<1>1. /\ UNCHANGED <<backend, rotates, sessions, drawn, states, burned, actorStatus, bindings, changes, now>>
      /\ job[t] # None /\ job[t].step = "refresh"
  BY DEF Refresh, deployment, store, login, actor
<1>2. PICK j : j = job[t]
  OBVIOUS
<1>3. /\ j \in Jobs /\ RequestOK(j) /\ j.step = "refresh" /\ s = j.sid /\ s \in Sids
      /\ j.held.token \in 1 .. MaxTokens /\ job \in [Threads -> Jobs \union {None}]
  BY <1>1, <1>2, Cookie, UnderWay
<1>4. /\ token \in [Sids -> 0 .. MaxTokens] /\ rotates \in BOOLEAN /\ MaxTokens \in Nat
      /\ faults \in 0 .. MaxFaults
  BY LifetimesAssumption DEF SessionsInv, SessionsTypeOK
<1>5. faults' \in 0 .. MaxFaults
  <2>1. faults' = faults \/ Fault
    BY DEF Refresh
  <2> QED BY <1>4, <2>1, LifetimesAssumption DEF Fault
<1>6. token' \in [Sids -> 0 .. MaxTokens]
  <2>1. token' = token \/ (Rotated(s) <= MaxTokens /\ token' = [token EXCEPT ![s] = Rotated(s)])
    BY DEF Refresh
  <2>2. Rotated(s) \in Nat
    BY <1>3, <1>4 DEF Rotated
  <2> QED BY <1>3, <1>4, <2>1, <2>2
<1>7. ASSUME NEW k \in Jobs \union {None}, k # None => RequestOK(k), job' = [job EXCEPT ![t] = k]
      PROVE  SessionsInv'
  <2>1. job' \in [Threads -> Jobs \union {None}]
    BY <1>3, <1>7
  <2>2. SessionsTypeOK'
    BY <1>1, <1>5, <1>6, <2>1 DEF SessionsInv, SessionsTypeOK
  <2>3. \A q \in Sids : sessions'[q] # None => q \in drawn'
    BY <1>1 DEF SessionsInv
  <2> QED BY <1>1, <1>7, <2>2, <2>3, OneTurns
<1>8. CASE job' = [job EXCEPT ![t] = AfterFailedRefresh(j)]
  BY <1>1, <1>2, <1>7, <1>8, FailedRefresh
<1>9. CASE Goto(t, "drop")
  <2> DEFINE c == "drop"
  <2>1. job' = [job EXCEPT ![t] = Stepped(j, c)] /\ c \in Steps
    BY <1>1, <1>2, <1>9, GotoSteps DEF Steps
  <2> HIDE DEF c
  <2>2. PICK k : k = Stepped(j, c)
    OBVIOUS
  <2>3. TurnedTo(k, j, c, j.held, j.grant, j.write, j.role, j.fallback, j.overtaken)
    BY <1>3, <2>1, <2>2, SteppedFields
  <2>4. RequestOK(k) /\ k \in Jobs
    BY <1>3, <2>3 DEF RequestOK, StageOK, NotedOK, RoleOK, TurnedTo, c
  <2> QED BY <1>7, <2>1, <2>2, <2>4
<1>10. CASE /\ Honours(s, j.held.token) /\ Rotated(s) <= MaxTokens
            /\ job' = [job EXCEPT ![t].step = "tokens", ![t].grant = Rotated(s)]
  <2>1. PICK n : n = Rotated(s)
    OBVIOUS
  <2>2. n \in 1 .. MaxTokens
    BY <1>3, <1>4, <1>10, <2>1 DEF Rotated, Honours
  <2>3. job' = [job EXCEPT ![t] = Granted(j, n)]
    BY <1>2, <1>3, <1>10, <2>1 DEF Granted
  <2>4. PICK k : k = Granted(j, n)
    OBVIOUS
  <2>5. TurnedTo(k, j, "tokens", j.held, n, j.write, j.role, j.fallback, j.overtaken)
    BY <1>3, <2>2, <2>4, GrantedFields
  <2>6. RequestOK(k) /\ k \in Jobs
    BY <1>3, <2>2, <2>5 DEF RequestOK, StageOK, NotedOK, RoleOK, TurnedTo
  <2> QED BY <1>7, <2>3, <2>4, <2>6
<1> QED BY <1>2, <1>8, <1>9, <1>10 DEF Refresh

LEMMA Dropped ==
    ASSUME SessionsInv, NEW t \in Threads, Drop(t)
    PROVE  SessionsInv'
<1>1. /\ job[t] # None /\ job[t].step = "drop"
      /\ sessions' = [sessions EXCEPT ![job[t].sid] = None]
      /\ job' = [job EXCEPT ![t] = AfterFailedRefresh(job[t])]
      /\ UNCHANGED <<deployment, drawn, login, token, actor, now, faults>>
  BY DEF Drop
<1>2. job[t].sid \in drawn
  BY <1>1, Cookie
<1>3. PICK k, s : k = AfterFailedRefresh(job[t]) /\ s = job[t].sid
  OBVIOUS
<1>4. k \in Jobs \union {None} /\ (k # None => RequestOK(k))
  BY <1>1, <1>3, FailedRefresh
<1> QED BY <1>1, <1>2, <1>3, <1>4, TurnsWithStore

LEMMA HealthAsked ==
    ASSUME SessionsInv, NEW t \in Threads, Health(t)
    PROVE  SessionsInv'
<1>1. /\ UNCHANGED <<backend, rotates, sessions, drawn, states, burned, actorStatus, bindings, changes, now, token>>
      /\ job[t] # None /\ job[t].step = "health"
  BY DEF Health, deployment, store, login, actor
<1>2. PICK j : j = job[t]
  OBVIOUS
<1>3. j \in Jobs /\ RequestOK(j) /\ j.step = "health"
  BY <1>1, <1>2, UnderWay
<1>4. faults' \in 0 .. MaxFaults
  <2>1. faults \in 0 .. MaxFaults
    BY DEF SessionsInv, SessionsTypeOK
  <2>2. faults' = faults \/ Fault
    BY DEF Health
  <2> QED BY <2>1, <2>2, LifetimesAssumption DEF Fault
<1>5. burned' \subseteq Logins /\ states' \in [Logins -> 0 .. MaxNow \union {None}]
  BY <1>1 DEF SessionsInv, SessionsTypeOK
<1>6. CASE job' = [job EXCEPT ![t] = None]
  BY <1>1, <1>4, <1>5, <1>6, OnlyTurns
<1>7. CASE Goto(t, "enrich")
  <2> DEFINE c == "enrich"
  <2>1. job' = [job EXCEPT ![t] = Stepped(j, c)] /\ c \in Steps
    BY <1>1, <1>2, <1>7, GotoSteps DEF Steps
  <2> HIDE DEF c
  <2>2. PICK k : k = Stepped(j, c)
    OBVIOUS
  <2>3. TurnedTo(k, j, c, j.held, j.grant, j.write, j.role, j.fallback, j.overtaken)
    BY <1>3, <2>1, <2>2, SteppedFields
  <2>4. RequestOK(k) /\ k \in Jobs
    BY <1>3, <2>3 DEF RequestOK, StageOK, NotedOK, RoleOK, TurnedTo, c
  <2> QED BY <1>1, <1>4, <1>5, <2>1, <2>2, <2>4, OnlyTurns
<1>8. CASE job' = [job EXCEPT ![t] = Forced(j)]
  <2>1. PICK k : k = Forced(j)
    OBVIOUS
  <2>2. TurnedTo(k, j, "refresh", j.held, j.grant, j.write, j.role, j.fallback, j.overtaken)
    BY <1>3, <2>1, ForcedFields
  <2>3. RequestOK(k) /\ k \in Jobs
    BY <1>3, <2>2 DEF RequestOK, StageOK, NotedOK, RoleOK, TurnedTo
  <2> QED BY <1>1, <1>4, <1>5, <1>8, <2>1, <2>3, OnlyTurns
<1> QED BY <1>2, <1>6, <1>7, <1>8 DEF Health, Answer, Forced

LEMMA RoleDerived ==
    ASSUME SessionsInv, NEW t \in Threads, Enrich(t)
    PROVE  SessionsInv'
<1>1. /\ UNCHANGED <<backend, rotates, sessions, drawn, states, burned, actorStatus, bindings, changes, now, token, faults>>
      /\ job[t] # None /\ job[t].step = "enrich"
  BY DEF Enrich, deployment, store, login, actor
<1>2. PICK j : j = job[t]
  OBVIOUS
<1>3. /\ j \in Jobs /\ RequestOK(j) /\ j.step = "enrich" /\ j.held \in Records
      /\ j.op \in {"call", "refresh"} /\ job \in [Threads -> Jobs \union {None}]
  BY <1>1, <1>2, Cookie, UnderWay
<1>4. /\ burned' \subseteq Logins /\ states' \in [Logins -> 0 .. MaxNow \union {None}]
      /\ faults' \in 0 .. MaxFaults /\ bindings \subseteq Roles /\ actorStatus \in {"active", "disabled"}
  BY <1>1 DEF SessionsInv, SessionsTypeOK
<1>5. PICK roles : roles = IF actorStatus = "disabled" THEN {} ELSE AvailableRoles(j.held)
  OBVIOUS
<1>6. PICK r \in IF roles = {} THEN {None} ELSE roles :
          job' = [job EXCEPT ![t].step = "snapshot", ![t].role = r, ![t].fallback = (bindings = {})]
  BY <1>2, <1>5 DEF Enrich
<1>7. PICK fb \in BOOLEAN : fb = (bindings = {})
  OBVIOUS
<1>8. j.held.role_codes \subseteq Roles
  BY <1>3 DEF Records
<1>9. /\ r \in Roles \union {None}
      /\ r # None => actorStatus = "active" /\ (fb \/ r \in bindings)
  BY <1>4, <1>5, <1>6, <1>7, <1>8, NoneAssumption DEF AvailableRoles
<1>10. job' = [job EXCEPT ![t] = Derived(j, r, fb)]
  BY <1>2, <1>3, <1>6, <1>7 DEF Derived
<1>11. PICK k : k = Derived(j, r, fb)
  OBVIOUS
<1>12. TurnedTo(k, j, "snapshot", j.held, j.grant, j.write, r, fb, j.overtaken)
  BY <1>3, <1>7, <1>9, <1>11, DerivedFields
<1>13. RequestOK(k) /\ k \in Jobs
  <2>1. j.op = "call"
    BY <1>3 DEF RequestOK, StageOK
  <2> QED BY <1>3, <1>9, <1>12, <2>1 DEF RequestOK, StageOK, NotedOK, RoleOK, TurnedTo
<1> QED BY <1>1, <1>4, <1>10, <1>11, <1>13, OnlyTurns

\* What Resolve makes of a request whose role is derived: an end, or the skill.
ResolveAsked(j) == IF j.role = None THEN None ELSE Holding(j, "served", None)

LEMMA Resolved ==
    ASSUME SessionsInv, NEW t \in Threads, job[t] # None,
           job[t].step \in {"snapshot", "save_snapshot"}
    PROVE  /\ Resolve(t) => job' = [job EXCEPT ![t] = ResolveAsked(job[t])]
           /\ ResolveAsked(job[t]) \in Jobs \union {None}
           /\ ResolveAsked(job[t]) # None =>
                 /\ RequestOK(ResolveAsked(job[t]))
                 /\ ResolveAsked(job[t]).op = job[t].op
                 /\ ResolveAsked(job[t]).sid = job[t].sid
                 /\ ResolveAsked(job[t]).held = job[t].held
                 /\ ResolveAsked(job[t]).overtaken = job[t].overtaken
                 /\ ResolveAsked(job[t]).step = "served"
<1>1. PICK j, k : j = job[t] /\ k = ResolveAsked(j)
  OBVIOUS
<1>2. j \in Jobs /\ RequestOK(j) /\ job \in [Threads -> Jobs \union {None}] /\ None \notin Jobs
  BY <1>1, UnderWay, NoneAssumption
<1>3. CASE j.role = None
  <2>1. k = None
    BY <1>1, <1>3 DEF ResolveAsked
  <2>2. Resolve(t) => job' = [job EXCEPT ![t] = None]
    BY <1>1, <1>3 DEF Resolve, Answer
  <2> QED BY <1>1, <2>1, <2>2
<1>4. CASE j.role # None
  <2>1. k = Holding(j, "served", None)
    BY <1>1, <1>4 DEF ResolveAsked
  <2>2. Resolve(t) => job' = [job EXCEPT ![t] = k]
    BY <1>1, <1>2, <1>4, <2>1 DEF Resolve, Holding
  <2> DEFINE c == "served"
  <2>3. c \in Steps /\ None \in Records \union {None} /\ k = Holding(j, c, None)
    BY <2>1 DEF Steps
  <2> HIDE DEF c
  <2>4. TurnedTo(k, j, c, j.held, j.grant, None, j.role, j.fallback, j.overtaken)
    BY <1>2, <2>3, HoldingFields
  <2>5. RequestOK(k)
    <3>1. j.step \in {"snapshot", "save_snapshot"}
      BY <1>1
    <3> QED BY <1>2, <1>4, <2>4, <3>1 DEF RequestOK, StageOK, NotedOK, RoleOK, TurnedTo, c
  <2> QED BY <1>1, <2>2, <2>4, <2>5 DEF TurnedTo, c
<1> QED BY <1>3, <1>4

LEMMA SnapshotWritten ==
    ASSUME SessionsInv, NEW t \in Threads, update_actor_snapshot(t)
    PROVE  SessionsInv'
<1>1. /\ UNCHANGED <<deployment, drawn, login, token, actor, now, faults>>
      /\ UNCHANGED <<backend, rotates, states, burned, actorStatus, bindings, changes>>
      /\ job[t] # None /\ job[t].step = "snapshot"
  BY DEF update_actor_snapshot, deployment, login, actor
<1>2. PICK j, s : j = job[t] /\ s = job[t].sid
  OBVIOUS
<1>3. j \in Jobs /\ RequestOK(j) /\ s \in drawn /\ s \in Sids /\ j.step = "snapshot"
      /\ job \in [Threads -> Jobs \union {None}] /\ sessions[s] \in Records \union {None}
      /\ sessions \in [Sids -> Records \union {None}]
  BY <1>1, <1>2, Cookie, UnderWay DEF SessionsInv, SessionsTypeOK
<1>4. CASE Resolve(t) /\ (\E r \in Records \union {None} : sessions' = [sessions EXCEPT ![s] = r])
  <2>1. PICK r \in Records \union {None} : sessions' = [sessions EXCEPT ![s] = r]
    BY <1>4
  <2>2. PICK k : k = ResolveAsked(j)
    OBVIOUS
  <2>3. k \in Jobs \union {None} /\ (k # None => RequestOK(k)) /\ job' = [job EXCEPT ![t] = k]
    BY <1>1, <1>2, <1>4, <2>2, Resolved
  <2> QED BY <1>1, <1>3, <2>1, <2>3, TurnsWithStore
<1>5. CASE /\ Live(s) /\ backend = "redis" /\ UNCHANGED sessions
           /\ job' = [job EXCEPT ![t].step = "save_snapshot", ![t].write = SnapshotOf(t)]
  <2> DEFINE c == "save_snapshot"
  <2>1. PICK w : w = sessions[s]
    OBVIOUS
  <2>2. w \in Records /\ c \in Steps
    BY <1>3, <1>5, <2>1 DEF Live, Steps
  <2>3. job' = [job EXCEPT ![t] = Holding(j, c, w)]
    BY <1>2, <1>3, <1>5, <2>1 DEF Holding, SnapshotOf
  <2>4. PICK k : k = Holding(j, c, w)
    OBVIOUS
  <2> HIDE DEF c
  <2>5. TurnedTo(k, j, c, j.held, j.grant, w, j.role, j.fallback, j.overtaken)
    BY <1>3, <2>2, <2>4, HoldingFields
  <2>6. RequestOK(k) /\ k \in Jobs
    BY <1>3, <1>5, <2>2, <2>5 DEF RequestOK, StageOK, NotedOK, RoleOK, TurnedTo, c
  <2>7. sessions' = [sessions EXCEPT ![s] = sessions[s]]
    BY <1>3, <1>5
  <2> QED BY <1>1, <1>3, <2>3, <2>4, <2>6, <2>7, TurnsWithStore
<1> QED BY <1>2, <1>3, <1>4, <1>5 DEF update_actor_snapshot, SnapshotOf

\* New tokens are stored: one request goes on, those on the same session are noted.
LEMMA Renews ==
    ASSUME SessionsInv, NEW t \in Threads, job[t] # None, job[t].step \in {"tokens", "save_tokens"},
           NEW r \in Records, sessions' = [sessions EXCEPT ![job[t].sid] = r], Continue(t, r),
           UNCHANGED <<deployment, drawn, login, token, actor, now, faults>>
    PROVE  SessionsInv'
<1>1. /\ UNCHANGED <<backend, rotates, states, burned, actorStatus, bindings, changes>>
      /\ UNCHANGED <<drawn, token, now, faults>>
  BY DEF deployment, login, actor
<1>2. PICK s : s = job[t].sid
  OBVIOUS
<1>3. /\ s \in drawn /\ s \in Sids /\ job[t].op \in {"call", "refresh"}
      /\ sessions \in [Sids -> Records \union {None}]
  BY <1>2, Cookie DEF SessionsInv, SessionsTypeOK
<1>4. ASSUME NEW u \in Threads
      PROVE  job'[u] \in Jobs \union {None} /\ (job'[u] # None => RequestOK(job'[u]))
  <2>1. PICK j, k : j = job[u] /\ k = job'[u]
    OBVIOUS
  <2>2. j # None => j \in Jobs /\ RequestOK(j)
    BY <2>1, UnderWay
  <2>3. CASE u = t /\ j.op # "refresh"
    <3>1. k = GoingOn(j, r)
      BY <2>1, <2>3 DEF Continue, GoingOn
    <3>2. TurnedTo(k, j, "health", r, 0, None, j.role, j.fallback, FALSE)
      BY ZenonT(60), <2>1, <2>2, <2>3, <3>1, GoingOnFields
    <3>3. RequestOK(k) /\ k \in Jobs
      BY <2>1, <2>2, <2>3, <3>2, <1>3 DEF RequestOK, StageOK, NotedOK, RoleOK, TurnedTo
    <3> QED BY <2>1, <3>3
  <2>4. CASE u = t /\ j.op = "refresh"
    <3>1. k = None
      BY <2>1, <2>4 DEF Continue
    <3> QED BY <2>1, <3>1
  <2>5. CASE u # t /\ j # None /\ j.sid = s
    <3>1. k = Noted(j)
      BY <1>2, <2>1, <2>5 DEF Continue, Noted
    <3>2. TurnedTo(k, j, j.step, j.held, j.grant, j.write, j.role, j.fallback, TRUE)
      BY <2>2, <2>5, <3>1, NotedFields
    <3>3. RequestOK(k) /\ k \in Jobs
      BY <2>2, <2>5, <3>2 DEF RequestOK, StageOK, NotedOK, RoleOK, TurnedTo
    <3> QED BY <2>1, <3>3
  <2>6. CASE u # t /\ ~(j # None /\ j.sid = s)
    <3>1. k = j
      BY <1>2, <2>1, <2>6 DEF Continue
    <3> QED BY <2>1, <2>2, <3>1
  <2> QED BY <2>3, <2>4, <2>5, <2>6
<1>5. job' \in [Threads -> Jobs \union {None}]
  <2>1. job' = [u \in Threads |-> job'[u]]
    BY DEF Continue
  <2> QED BY <1>4, <2>1
<1>6. sessions' \in [Sids -> Records \union {None}]
      /\ \A q \in Sids : sessions'[q] # None => q \in drawn'
  BY <1>1, <1>2, <1>3 DEF SessionsInv
<1>7. SessionsTypeOK'
  BY <1>1, <1>5, <1>6 DEF SessionsInv, SessionsTypeOK
<1>8. ASSUME NEW u \in Threads, job'[u] # None PROVE RequestOK(job[u])'
  <2>1. PICK d : d = job'[u]
    OBVIOUS
  <2>2. RequestOK(d)
    BY <1>4, <1>8, <2>1
  <2>3. RequestOK(d)'
    BY <1>1, <2>2, RequestStays
  <2> QED BY <2>1, <2>3 DEF RequestOK, StageOK, NotedOK, RoleOK
<1> QED BY <1>6, <1>7, <1>8 DEF SessionsInv

LEMMA TokensWritten ==
    ASSUME SessionsInv, NEW t \in Threads, update_tokens(t)
    PROVE  SessionsInv'
<1>1. /\ UNCHANGED <<deployment, drawn, login, token, actor, now, faults>>
      /\ job[t] # None /\ job[t].step = "tokens"
  BY DEF update_tokens
<1>2. PICK j, s : j = job[t] /\ s = job[t].sid
  OBVIOUS
<1>3. j \in Jobs /\ RequestOK(j) /\ s \in drawn /\ s \in Sids /\ j.step = "tokens"
      /\ job \in [Threads -> Jobs \union {None}] /\ sessions[s] \in Records \union {None}
      /\ sessions \in [Sids -> Records \union {None}] /\ now \in 0 .. MaxNow
  BY <1>1, <1>2, Cookie, UnderWay DEF SessionsInv, SessionsTypeOK
<1>4. PICK n, r : n = j.grant /\ r = Renewed(sessions[s], n)
  OBVIOUS
<1>5. n \in 1 .. MaxTokens
  BY <1>3, <1>4 DEF RequestOK, StageOK
<1>6. Live(s) => sessions[s] \in Records
  BY <1>3 DEF Live
<1>7. Live(s) => r \in Records
  BY <1>3, <1>4, <1>5, <1>6, RenewedRecord
<1>8. CASE /\ sessions' = [sessions EXCEPT ![s] = None]
           /\ job' = [job EXCEPT ![t] = AfterFailedRefresh(j)]
  <2>1. PICK k : k = AfterFailedRefresh(j)
    OBVIOUS
  <2>2. k \in Jobs \union {None} /\ (k # None => RequestOK(k))
    BY <1>1, <1>2, <2>1, FailedRefresh
  <2> QED BY <1>1, <1>3, <1>8, <2>1, <2>2, TurnsWithStore
<1>9. CASE Live(s) /\ sessions' = [sessions EXCEPT ![s] = r] /\ Continue(t, sessions'[s])
  <2>1. Continue(t, r)
    BY <1>3, <1>9
  <2> QED BY <1>1, <1>2, <1>7, <1>9, <2>1, Renews
<1>10. CASE /\ Live(s) /\ backend = "redis" /\ UNCHANGED sessions
            /\ job' = [job EXCEPT ![t].step = "save_tokens", ![t].write = r]
  <2> DEFINE c == "save_tokens"
  <2>1. r \in Records /\ c \in Steps
    BY <1>7, <1>10 DEF Steps
  <2>2. job' = [job EXCEPT ![t] = Holding(j, c, r)]
    BY <1>2, <1>3, <1>10 DEF Holding
  <2>3. PICK k : k = Holding(j, c, r)
    OBVIOUS
  <2> HIDE DEF c
  <2>4. TurnedTo(k, j, c, j.held, j.grant, r, j.role, j.fallback, j.overtaken)
    BY <1>3, <2>1, <2>3, HoldingFields
  <2>5. RequestOK(k) /\ k \in Jobs
    BY <1>3, <1>10, <2>1, <2>4 DEF RequestOK, StageOK, NotedOK, RoleOK, TurnedTo, c
  <2>6. sessions' = [sessions EXCEPT ![s] = sessions[s]]
    BY <1>3, <1>10
  <2> QED BY <1>1, <1>3, <2>2, <2>3, <2>5, <2>6, TurnsWithStore
<1> QED BY <1>2, <1>4, <1>8, <1>9, <1>10 DEF update_tokens

LEMMA Saved ==
    ASSUME SessionsInv, NEW t \in Threads, Save(t)
    PROVE  SessionsInv'
<1>1. /\ UNCHANGED <<deployment, drawn, login, token, actor, now, faults>>
      /\ job[t] # None /\ job[t].step \in {"save_tokens", "save_snapshot"}
      /\ sessions' = [sessions EXCEPT ![job[t].sid] = job[t].write]
      /\ IF job[t].step = "save_tokens" THEN Continue(t, job[t].write) ELSE Resolve(t)
  BY DEF Save
<1>2. PICK s, w : s = job[t].sid /\ w = job[t].write
  OBVIOUS
<1>3. s \in drawn /\ w \in Records
  BY <1>1, <1>2, Cookie, UnderWay DEF RequestOK, StageOK
<1>4. CASE job[t].step = "save_tokens"
  BY <1>1, <1>2, <1>3, <1>4, Renews
<1>5. CASE job[t].step = "save_snapshot"
  <2>1. PICK k : k = ResolveAsked(job[t])
    OBVIOUS
  <2>2. k \in Jobs \union {None} /\ (k # None => RequestOK(k)) /\ job' = [job EXCEPT ![t] = k]
    BY <1>1, <1>5, <2>1, Resolved
  <2>3. sessions' = [sessions EXCEPT ![s] = w]
    BY <1>1, <1>2
  <2> QED BY <1>1, <1>3, <2>2, <2>3, TurnsWithStore
<1> QED BY <1>1, <1>4, <1>5

LEMMA SkillServed ==
    ASSUME SessionsInv, NEW t \in Threads, Served(t)
    PROVE  SessionsInv'
<1>1. UNCHANGED <<backend, rotates, sessions, drawn, states, burned, actorStatus, bindings, changes, now, token, faults>>
  BY DEF Served, deployment, store, login, actor
<1>2. job' = [job EXCEPT ![t] = None]
  BY DEF Served, Answer
<1>3. burned' \subseteq Logins /\ states' \in [Logins -> 0 .. MaxNow \union {None}]
      /\ faults' \in 0 .. MaxFaults
  BY <1>1 DEF SessionsInv, SessionsTypeOK
<1> QED BY <1>1, <1>2, <1>3, OnlyTurns

LEMMA LoggedOut ==
    ASSUME SessionsInv, NEW s \in Sids, Logout(s)
    PROVE  SessionsInv'
<1>1. UNCHANGED <<backend, rotates, drawn, states, burned, actorStatus, bindings, changes, now, token, faults, job>>
  BY DEF Logout, deployment, login, actor
<1>2. sessions' = [sessions EXCEPT ![s] = None] /\ sessions \in [Sids -> Records \union {None}]
  BY DEF Logout, SessionsInv, SessionsTypeOK
<1>3. sessions' \in [Sids -> Records \union {None}]
      /\ \A q \in Sids : sessions'[q] # None => q \in drawn'
  BY <1>1, <1>2 DEF SessionsInv
<1>4. SessionsTypeOK'
  BY <1>1, <1>3 DEF SessionsInv, SessionsTypeOK
<1>5. \A u \in Threads : job'[u] # None => RequestOK(job[u])'
  BY <1>1 DEF SessionsInv, RequestOK, StageOK, NotedOK, RoleOK
<1> QED BY <1>3, <1>4, <1>5 DEF SessionsInv

-----------------------------------------------------------------------------
(* The administrator and the clock                                         *)

\* A skill call has taken in what just became true.
Witnessed(j, roles, e) == [j EXCEPT !.bound = @ \union roles, !.enabled = @ \/ e]

LEMMA WitnessedFields ==
    ASSUME NEW j \in Jobs, NEW roles \in SUBSET Roles, NEW e \in BOOLEAN
    PROVE  /\ Witnessed(j, roles, e) \in Jobs
           /\ Witnessed(j, roles, e).step = j.step /\ Witnessed(j, roles, e).op = j.op
           /\ Witnessed(j, roles, e).sid = j.sid /\ Witnessed(j, roles, e).login = j.login
           /\ Witnessed(j, roles, e).held = j.held /\ Witnessed(j, roles, e).grant = j.grant
           /\ Witnessed(j, roles, e).write = j.write /\ Witnessed(j, roles, e).role = j.role
           /\ Witnessed(j, roles, e).bound = j.bound \union roles
           /\ Witnessed(j, roles, e).enabled = (j.enabled \/ e)
           /\ Witnessed(j, roles, e).fallback = j.fallback
           /\ Witnessed(j, roles, e).overtaken = j.overtaken
<1> DEFINE k == Witnessed(j, roles, e)
<1>1. j.bound \union roles \in SUBSET Roles
  BY DEF Jobs
<1>2. PICK f \in BOOLEAN : f = (j.enabled \/ e)
  OBVIOUS
<1>3. k = [j EXCEPT !.bound = j.bound \union roles, !.enabled = f]
  BY <1>2 DEF Witnessed, Jobs
<1>4. k \in Jobs
  BY <1>1, <1>2, <1>3 DEF Jobs
<1>5. /\ k.step = j.step /\ k.op = j.op /\ k.sid = j.sid /\ k.login = j.login /\ k.held = j.held
      /\ k.grant = j.grant /\ k.write = j.write /\ k.role = j.role
      /\ k.bound = j.bound \union roles
  BY <1>3 DEF Jobs
<1>6. k.enabled = f
  BY <1>3 DEF Jobs
<1>7. k.fallback = j.fallback
  BY <1>3 DEF Jobs
<1>8. k.overtaken = j.overtaken
  BY <1>3 DEF Jobs
<1> QED BY <1>2, <1>4, <1>5, <1>6, <1>7, <1>8, Zenon

LEMMA ActorChanged ==
    ASSUME SessionsInv, NEW roles \in SUBSET Roles, NEW e \in BOOLEAN, Witness(roles, e),
           UNCHANGED <<deployment, store, login, token, now, faults>>,
           changes' \in 0 .. MaxChanges, bindings' \subseteq Roles,
           actorStatus' \in {"active", "disabled"}, bindings' \subseteq bindings \union roles,
           actorStatus' = "active" => actorStatus = "active" \/ e
    PROVE  SessionsInv'
<1>1. UNCHANGED <<backend, rotates, sessions, drawn, states, burned, token, now, faults>>
  BY DEF deployment, store, login
<1>2. ASSUME NEW u \in Threads
      PROVE  job'[u] \in Jobs \union {None} /\ (job'[u] # None => RequestOK(job[u])')
  <2>1. PICK j, k : j = job[u] /\ k = job'[u]
    OBVIOUS
  <2>2. j # None => j \in Jobs /\ RequestOK(j)
    BY <2>1, UnderWay
  <2>3. CASE j = None
    BY <2>1, <2>3 DEF Witness
  <2>4. CASE j # None /\ j.op # "call"
    <3>1. k = j
      BY <2>1, <2>4 DEF Witness
    <3>2. RequestOK(k)'
      BY <1>1, <2>2, <2>4, <3>1 DEF RequestOK, StageOK, NotedOK, RoleOK
    <3> QED BY <2>1, <2>2, <2>4, <3>1, <3>2 DEF RequestOK, StageOK, NotedOK, RoleOK
  <2>5. CASE j # None /\ j.op = "call"
    <3>1. k = Witnessed(j, roles, e)
      BY <2>1, <2>5 DEF Witness, Witnessed
    <3>2. /\ k \in Jobs /\ k.step = j.step /\ k.op = j.op /\ k.sid = j.sid /\ k.held = j.held
          /\ k.grant = j.grant /\ k.write = j.write /\ k.role = j.role /\ k.login = j.login
          /\ k.bound = j.bound \union roles
      BY <2>2, <2>5, <3>1, WitnessedFields
    <3>3. (j.enabled => k.enabled) /\ (e => k.enabled) /\ (j.fallback => k.fallback)
      BY <2>2, <2>5, <3>1, WitnessedFields
    <3>4. StageOK(k)'
      BY <1>1, <2>2, <2>5, <3>2 DEF RequestOK, StageOK
    <3>5. NotedOK(k)'
      BY <2>2, <2>5, <3>2, <3>3 DEF RequestOK, NotedOK
    <3>6. RoleOK(k)'
      BY <2>2, <2>5, <3>2, <3>3 DEF RequestOK, RoleOK
    <3> QED BY <2>1, <3>2, <3>4, <3>5, <3>6 DEF RequestOK, StageOK, NotedOK, RoleOK
  <2> QED BY <2>3, <2>4, <2>5
<1>3. job' \in [Threads -> Jobs \union {None}]
  <2>1. job' = [u \in Threads |-> job'[u]]
    BY DEF Witness
  <2> QED BY <1>2, <2>1
<1>4. SessionsTypeOK'
  BY <1>1, <1>3 DEF SessionsInv, SessionsTypeOK
<1>5. \A q \in Sids : sessions'[q] # None => q \in drawn'
  BY <1>1 DEF SessionsInv
<1> QED BY <1>2, <1>4, <1>5 DEF SessionsInv

LEMMA AdministratorSteps ==
    ASSUME SessionsInv, NEW value, NEW r,
           \/ value \in {"active", "disabled"} /\ set_actor_status(value)
           \/ r \in Roles /\ (assign_actor_role(r) \/ revoke_actor_role(r))
           \/ Tick
    PROVE  SessionsInv'
<1>1. /\ changes \in 0 .. MaxChanges /\ bindings \subseteq Roles /\ now \in 0 .. MaxNow
      /\ actorStatus \in {"active", "disabled"} /\ MaxChanges \in Nat /\ MaxNow \in Nat
  BY LifetimesAssumption DEF SessionsInv, SessionsTypeOK
<1>2. Change => changes' \in 0 .. MaxChanges
  BY <1>1 DEF Change
<1>3. CASE value \in {"active", "disabled"} /\ set_actor_status(value)
  <2>1. PICK e \in BOOLEAN : e = (value = "active")
    OBVIOUS
  <2>2. PICK none \in SUBSET Roles : none = {}
    OBVIOUS
  <2>3. Witness(none, e)
    BY <1>3, <2>1, <2>2 DEF set_actor_status
  <2> QED BY <1>1, <1>2, <1>3, <2>1, <2>2, <2>3, ActorChanged DEF set_actor_status
<1>4. CASE r \in Roles /\ assign_actor_role(r)
  <2>1. PICK e \in BOOLEAN : e = FALSE
    OBVIOUS
  <2>2. PICK new \in SUBSET Roles : new = {r}
    BY <1>4
  <2>3. Witness(new, e)
    BY <1>4, <2>1, <2>2 DEF assign_actor_role
  <2> QED BY <1>1, <1>2, <1>4, <2>1, <2>2, <2>3, ActorChanged DEF assign_actor_role
<1>5. CASE r \in Roles /\ revoke_actor_role(r)
  <2>1. UNCHANGED <<backend, rotates, sessions, drawn, states, burned, token, now, faults, job, actorStatus>>
        /\ bindings' \subseteq bindings
    BY <1>5 DEF revoke_actor_role, deployment, store, login
  <2>2. SessionsTypeOK'
    BY <1>1, <1>2, <1>5, <2>1 DEF revoke_actor_role, SessionsInv, SessionsTypeOK
  <2>3. \A u \in Threads : job'[u] # None => RequestOK(job[u])'
    BY <2>1 DEF SessionsInv, RequestOK, StageOK, NotedOK, RoleOK
  <2> QED BY <2>1, <2>2, <2>3 DEF SessionsInv
<1>6. CASE Tick
  <2>1. UNCHANGED <<backend, rotates, sessions, drawn, states, burned, token, faults, job, actorStatus, bindings, changes>>
    BY <1>6 DEF Tick, deployment, store, login, actor
  <2>2. now' \in 0 .. MaxNow
    BY <1>1, <1>6 DEF Tick
  <2>3. SessionsTypeOK'
    BY <2>1, <2>2 DEF SessionsInv, SessionsTypeOK
  <2>4. \A u \in Threads : job'[u] # None => RequestOK(job[u])'
    BY <2>1 DEF SessionsInv, RequestOK, StageOK, NotedOK, RoleOK
  <2> QED BY <2>1, <2>3, <2>4 DEF SessionsInv
<1> QED BY <1>3, <1>4, <1>5, <1>6

LEMMA SessionsStutter ==
    ASSUME SessionsInv, UNCHANGED sessionVars
    PROVE  SessionsInv'
BY DEF SessionsInv, SessionsTypeOK, sessionVars, RequestOK, StageOK, NotedOK, RoleOK

LEMMA SessionsInvariance == SessionsSpec => []SessionsInv
<1>1. SessionsInit => SessionsInv
  <2> SUFFICES ASSUME SessionsInit PROVE SessionsInv
    OBVIOUS
  <2>1. SessionsTypeOK
    BY LifetimesAssumption DEF SessionsInit, SessionsTypeOK
  <2> QED BY <2>1 DEF SessionsInit, SessionsInv
<1>2. SessionsInv /\ [SessionsNext]_sessionVars => SessionsInv'
  <2> SUFFICES ASSUME SessionsInv, [SessionsNext]_sessionVars PROVE SessionsInv'
    OBVIOUS
  <2>1. CASE UNCHANGED sessionVars
    BY <2>1, SessionsStutter
  <2>2. ASSUME NEW l \in Logins, Issue(l) PROVE SessionsInv'
    <3>1. CASE Threads = {}
      <4>1. UNCHANGED <<backend, rotates, sessions, drawn, token, actorStatus, bindings, now, changes, burned, faults, job>>
        BY <2>2 DEF Issue, deployment, store, actor
      <4>2. states' \in [Logins -> 0 .. MaxNow \union {None}]
        BY <2>2 DEF Issue, SessionsInv, SessionsTypeOK
      <4> QED BY <3>1, <4>1, <4>2 DEF SessionsInv, SessionsTypeOK
    <3>2. CASE \E t \in Threads : TRUE
      BY <2>2, <3>2, LoginSteps
    <3> QED BY <3>1, <3>2
  <2>3. ASSUME NEW t \in Threads, NEW l \in Logins, BeginLogin(t, l) PROVE SessionsInv'
    BY <2>3, LoginSteps
  <2>4. ASSUME NEW t \in Threads, NEW op \in {"call", "refresh"}, NEW s \in Sids,
               BeginRequest(t, op, s)
        PROVE  SessionsInv'
    BY <2>4, RequestBegins
  <2>5. ASSUME NEW t \in Threads, Request(t) PROVE SessionsInv'
    <3>1. CASE Exchange(t)
      <4>1. job[t] # None /\ job[t].step = "exchange"
        BY <3>1 DEF Exchange
      <4>2. job[t].login \in Logins
        BY <4>1, UnderWay DEF RequestOK, StageOK
      <4> QED BY <3>1, <4>2, LoginSteps
    <3> QED BY <2>5, <3>1, LoggedIn, Refreshed, Dropped, TokensWritten, HealthAsked, RoleDerived,
               SnapshotWritten, Saved, SkillServed DEF Request
  <2>6. ASSUME NEW s \in Sids, Logout(s) PROVE SessionsInv'
    BY <2>6, LoggedOut
  <2>7. ASSUME NEW value \in {"active", "disabled"}, set_actor_status(value) PROVE SessionsInv'
    BY <2>7, AdministratorSteps
  <2>8. ASSUME NEW r \in Roles, assign_actor_role(r) \/ revoke_actor_role(r) PROVE SessionsInv'
    BY <2>8, AdministratorSteps
  <2>9. CASE Tick
    BY <2>9, AdministratorSteps
  <2> QED BY <2>1, <2>2, <2>3, <2>4, <2>5, <2>6, <2>7, <2>8, <2>9 DEF SessionsNext
<1> QED BY <1>1, <1>2, PTL DEF SessionsSpec

\* A skill runs only for an actor who was enabled at some time of the request, and,
\* unless he had no binding left, under a role bound at some time of it, whatever
\* requests, refreshes and administrators come between (_trusted_skill_payload,
\* enrich_actor_snapshot_for_session, resolve_trusted_role).
THEOREM ServedUnderHeldRole == SessionsSpec => []ServedAsHeld
<1>1. SessionsInv => ServedAsHeld
  BY DEF SessionsInv, RequestOK, RoleOK, ServedAsHeld
<1> QED BY <1>1, SessionsInvariance, PTL

-----------------------------------------------------------------------------
(* The in-process store                                                    *)

\* The numbers a request on a session is compared by.
LEMMA Numbers ==
    ASSUME SessionsInv, NEW t \in Threads, job[t] # None, job[t].op # "login"
    PROVE  /\ job[t].sid \in Sids /\ job[t].sid \in drawn /\ job[t].held.token \in Nat
           /\ token[job[t].sid] \in Nat /\ job[t].held \in Records
<1>1. RequestOK(job[t]) /\ drawn \subseteq Sids /\ token \in [Sids -> 0 .. MaxTokens]
  BY UnderWay DEF SessionsInv, SessionsTypeOK
<1>2. job[t].sid \in Sids /\ job[t].held \in Records /\ job[t].sid \in drawn
  BY <1>1 DEF RequestOK, StageOK
<1> QED BY <1>1, <1>2, LifetimesAssumption DEF Records

\* A request turns without new tokens: it keeps its session and its copy, and waits for a
\* drop only if its copy is behind the provider.
Calm(j, k) ==
    \/ k = None
    \/ k.op = "login"
    \/ /\ j # None /\ k.op = j.op /\ k.sid = j.sid /\ k.held = j.held
       /\ j.overtaken => k.overtaken
       /\ k.overtaken => j.overtaken
       /\ k.step = "tokens" => j.step = "tokens" /\ k.grant = j.grant
       /\ k.step = "drop" => j.step = "drop" \/ j.held.token < token[j.sid]

LEMMA CalmStep ==
    ASSUME SessionsInv, InMemory, \A u \in Threads : Calm(job[u], job'[u]),
           UNCHANGED <<backend, rotates, token>>,
           \A s \in Sids : sessions'[s] = sessions[s] \/ sessions'[s] = None
    PROVE  InMemory'
<1> SUFFICES ASSUME backend = "memory" PROVE InMemory'
  BY DEF InMemory
<1>1. \A s \in Sids : sessions[s] # None => sessions[s].token <= token[s]
  BY DEF InMemory
<1>2. ASSUME NEW u \in Threads, job'[u] # None PROVE CopyOK(job[u])'
  <2>1. PICK j, k : j = job[u] /\ k = job'[u]
    OBVIOUS
  <2>2. CASE k.op = "login"
    BY <2>1, <2>2 DEF CopyOK
  <2>3. CASE k.op # "login"
    <3>1. /\ j # None /\ k.op = j.op /\ k.sid = j.sid /\ k.held = j.held
          /\ k.step = "tokens" => j.step = "tokens" /\ k.grant = j.grant
          /\ k.step = "drop" => j.step = "drop" \/ j.held.token < token[j.sid]
      BY <1>2, <2>1, <2>3 DEF Calm
    <3>2. ~k.overtaken => ~j.overtaken
      BY <1>2, <2>1, <2>3 DEF Calm
    <3>3. CopyOK(j) /\ j.sid \in Sids
      BY <2>1, <2>3, <3>1, Numbers DEF InMemory
    <3>4. CopyOK(k)'
      BY <2>3, <3>1, <3>2, <3>3 DEF CopyOK
    <3> QED BY <2>1, <3>4 DEF CopyOK
  <2> QED BY <2>2, <2>3
<1>3. ASSUME NEW t \in Threads, NEW u \in Threads PROVE WaitingOK(t, u)'
  <2>1. PICK i, j, k, m : i = job[t] /\ j = job'[t] /\ k = job[u] /\ m = job'[u]
    OBVIOUS
  <2>2. SUFFICES ASSUME rotates, j # None, m # None, j.op # "login", m.op # "login",
                        j.step = "tokens", m.sid = j.sid
                 PROVE  /\ m.held.token < token[j.sid]
                        /\ sessions'[j.sid] # None => sessions'[j.sid].token < token[j.sid]
                        /\ u # t => m.step # "tokens"
    BY <2>1 DEF WaitingOK
  <2>3. i # None /\ i.op = j.op /\ i.sid = j.sid /\ i.step = "tokens"
    BY <2>1, <2>2 DEF Calm
  <2>4. k # None /\ k.op = m.op /\ k.sid = m.sid /\ k.held = m.held
        /\ (m.step = "tokens" => k.step = "tokens")
    BY <2>1, <2>2 DEF Calm
  <2>5. WaitingOK(t, u) /\ i.sid \in Sids
    BY <2>1, <2>2, <2>3, Numbers DEF InMemory
  <2> QED BY <2>1, <2>2, <2>3, <2>4, <2>5 DEF WaitingOK
<1>4. \A s \in Sids : sessions'[s] # None => sessions'[s].token <= token'[s]
  BY <1>1
<1> QED BY <1>2, <1>3, <1>4 DEF InMemory

\* A new request copies the stored session.
LEMMA CopyTaken ==
    ASSUME SessionsInv, InMemory, NEW t \in Threads, NEW op \in {"call", "refresh"},
           NEW s \in Sids,
           BeginRequest(t, op, s), Live(s)
    PROVE  InMemory'
<1> SUFFICES ASSUME backend = "memory" PROVE InMemory'
  BY DEF InMemory, BeginRequest, deployment
<1> DEFINE step == IF op = "refresh" \/ should_refresh(sessions[s]) THEN "refresh" ELSE "health"
           kk == [NewJob(op) EXCEPT !.sid = s, !.held = sessions[s], !.step = step]
<1>1. /\ job' = [job EXCEPT ![t] = kk] /\ sessions[s] # None
      /\ UNCHANGED <<backend, rotates, token, sessions>>
  BY DEF BeginRequest, store, deployment, Live
<1>2. step \in {"refresh", "health"} /\ step \in Steps
  BY DEF Steps
<1> HIDE DEF step
<1>3. PICK n : n = NewJob(op)
  OBVIOUS
<1>4. n \in Jobs /\ n.op = op /\ n.overtaken = FALSE
  BY <1>3, NewJobFields
<1>5. /\ job \in [Threads -> Jobs \union {None}] /\ sessions[s] \in Records
      /\ token \in [Sids -> 0 .. MaxTokens]
  BY <1>1 DEF SessionsInv, SessionsTypeOK
<1>6. kk.op = op /\ kk.step = step /\ kk.sid = s /\ kk.held = sessions[s]
  BY <1>2, <1>3, <1>4 DEF Jobs
<1>7. kk.overtaken = FALSE
  BY <1>2, <1>3, <1>4 DEF Jobs
<1>8. PICK k : k = kk
  OBVIOUS
<1> HIDE DEF kk
<1>9. /\ job'[t] = k /\ k.op = op /\ k.step = step /\ k.sid = s /\ k.held = sessions[s]
      /\ ~k.overtaken /\ \A u \in Threads \ {t} : job'[u] = job[u]
  BY <1>1, <1>5, <1>6, <1>7, <1>8
<1>10. /\ \A q \in Sids : sessions[q] # None => sessions[q].token <= token[q]
       /\ \A u \in Threads : job[u] # None => CopyOK(job[u])
       /\ \A u, v \in Threads : WaitingOK(u, v)
  BY DEF InMemory
<1>11. CopyOK(k)'
  BY <1>1, <1>2, <1>5, <1>9, <1>10 DEF CopyOK
<1>12. ASSUME NEW u \in Threads, job'[u] # None PROVE CopyOK(job[u])'
  <2>1. CASE u = t
    BY <1>9, <1>11, <2>1 DEF CopyOK
  <2>2. CASE u # t
    BY <1>1, <1>9, <1>10, <1>12, <2>2 DEF CopyOK
  <2> QED BY <2>1, <2>2
<1>13. ASSUME NEW u \in Threads, NEW v \in Threads PROVE WaitingOK(u, v)'
  <2>1. CASE u = t
    BY <1>2, <1>9, <2>1 DEF WaitingOK
  <2>2. CASE u # t /\ v # t
    BY <1>1, <1>9, <1>10, <2>2 DEF WaitingOK
  <2>3. CASE u # t /\ v = t
    <3>1. WaitingOK(u, u)
      BY <1>10
    <3> QED BY <1>1, <1>2, <1>9, <2>3, <3>1 DEF WaitingOK
  <2> QED BY <2>1, <2>2, <2>3
<1> QED BY <1>1, <1>10, <1>12, <1>13 DEF InMemory

\* The provider answers with a new token, which reaches the request or is lost: nobody
\* else can be waiting for one of this session, for they hold older copies.
LEMMA TokenGiven ==
    ASSUME SessionsInv, InMemory, NEW t \in Threads, Refresh(t),
           Honours(job[t].sid, job[t].held.token),
           token' = [token EXCEPT ![job[t].sid] = Rotated(job[t].sid)], NEW k,
           job' = [job EXCEPT ![t] = k],
           k # None => /\ k.op = job[t].op /\ k.sid = job[t].sid /\ k.held = job[t].held
                       /\ k.overtaken <=> job[t].overtaken
                       /\ k.step \in {"health", "tokens"}
                       /\ k.step = "tokens" => k.grant = Rotated(job[t].sid)
    PROVE  InMemory'
<1> SUFFICES ASSUME backend = "memory" PROVE InMemory'
  BY DEF InMemory, Refresh, deployment
<1>1. /\ UNCHANGED <<backend, rotates, sessions>> /\ job[t] # None /\ job[t].step = "refresh"
      /\ job \in [Threads -> Jobs \union {None}] /\ rotates \in BOOLEAN
      /\ token \in [Sids -> 0 .. MaxTokens] /\ sessions \in [Sids -> Records \union {None}]
  BY DEF Refresh, store, deployment, SessionsInv, SessionsTypeOK
<1>2. PICK j, s, n : j = job[t] /\ s = job[t].sid /\ n = Rotated(s)
  OBVIOUS
<1>3. /\ j.op # "login" /\ s \in Sids /\ j.held.token \in Nat /\ token[s] \in Nat
      /\ j.held.token = token[s] /\ j.sid = s
  <2>1. j.op # "login"
    BY <1>1, <1>2, Cookie
  <2> QED BY <1>1, <1>2, <2>1, Numbers DEF Honours
<1>4. n \in Nat /\ n >= token[s] /\ (rotates => n = token[s] + 1) /\ (~rotates => n = token[s])
  BY <1>1, <1>2, <1>3 DEF Rotated
<1>5. /\ token'[s] = n /\ \A q \in Sids \ {s} : token'[q] = token[q]
      /\ job'[t] = k /\ \A u \in Threads \ {t} : job'[u] = job[u]
  BY <1>1, <1>2, <1>3
<1>6. /\ \A q \in Sids : sessions[q] # None => sessions[q].token <= token[q]
      /\ \A u \in Threads : job[u] # None => CopyOK(job[u])
      /\ \A u, v \in Threads : WaitingOK(u, v)
  BY DEF InMemory
<1>7. \A q \in Sids : sessions[q] # None => sessions[q].token \in Nat
  BY <1>1, LifetimesAssumption DEF Records
<1>8. \A q \in Sids : sessions'[q] # None => sessions'[q].token <= token'[q]
  <2> SUFFICES ASSUME NEW q \in Sids, sessions[q] # None PROVE sessions[q].token <= token'[q]
    BY <1>1
  <2>1. sessions[q].token <= token[q] /\ sessions[q].token \in Nat
    BY <1>6, <1>7
  <2> QED BY <1>3, <1>4, <1>5, <2>1
<1>9. ASSUME NEW u \in Threads, job[u] # None, job[u].op # "login", job[u].sid = s, rotates
      PROVE  job[u].step # "tokens"
  <2>1. WaitingOK(u, t)
    BY <1>6
  <2> QED BY <1>1, <1>2, <1>3, <1>9, <2>1 DEF WaitingOK
<1>10. ASSUME NEW u \in Threads, job'[u] # None PROVE CopyOK(job[u])'
  <2>1. PICK d, e : d = job'[u] /\ e = job[u]
    OBVIOUS
  <2>2. CASE u = t
    <3>1. CopyOK(j)
      BY <1>1, <1>2, <1>6
    <3>2. /\ d.op = j.op /\ d.sid = s /\ d.held = j.held /\ d.step \in {"health", "tokens"}
          /\ d.step = "tokens" => d.grant = n
      BY <1>2, <1>5, <1>10, <2>1, <2>2
    <3>3. ~d.overtaken => ~j.overtaken
      BY <1>2, <1>5, <1>10, <2>1, <2>2
    <3>4. j.held.token <= n
      BY <1>3, <1>4
    <3>5. CopyOK(d)'
      BY <1>1, <1>3, <1>5, <3>1, <3>2, <3>3, <3>4 DEF CopyOK
    <3> QED BY <2>1, <3>5 DEF CopyOK
  <2>3. CASE u # t /\ e.op = "login"
    BY <1>5, <2>1, <2>3 DEF CopyOK
  <2>4. CASE u # t /\ e.op # "login"
    <3>1. d = e /\ e # None /\ CopyOK(e)
      BY <1>5, <1>6, <1>10, <2>1, <2>4
    <3>2. e.sid \in Sids /\ e.held.token \in Nat /\ token[e.sid] \in Nat
      BY <2>1, <2>4, <3>1, Numbers
    <3>3. token'[e.sid] \in Nat /\ token[e.sid] <= token'[e.sid]
      BY <1>3, <1>4, <1>5, <3>2
    <3>4. e.step = "tokens" => token'[e.sid] = token[e.sid]
      BY <1>4, <1>5, <1>9, <1>1, <2>1, <2>4, <3>1, <3>2
    <3>5. e.held.token <= token[e.sid] /\ (e.step = "tokens" => e.grant = token[e.sid])
      BY <2>4, <3>1 DEF CopyOK
    <3>6. e.held.token <= token'[e.sid]
          /\ (e.held.token < token[e.sid] => e.held.token < token'[e.sid])
      BY <3>2, <3>3, <3>5
    <3>7. CopyOK(e)'
      BY <1>1, <2>4, <3>1, <3>4, <3>5, <3>6 DEF CopyOK
    <3> QED BY <2>1, <3>1, <3>7 DEF CopyOK
  <2> QED BY <2>2, <2>3, <2>4
<1>11. ASSUME NEW u \in Threads, NEW v \in Threads PROVE WaitingOK(u, v)'
  <2>1. PICK a, b : a = job'[u] /\ b = job'[v]
    OBVIOUS
  <2>2. SUFFICES ASSUME rotates, a # None, b # None, a.op # "login", b.op # "login",
                        a.step = "tokens", b.sid = a.sid
                 PROVE  /\ b.held.token < token'[a.sid]
                        /\ sessions[a.sid] # None => sessions[a.sid].token < token'[a.sid]
                        /\ v # u => b.step # "tokens"
    BY <1>1, <2>1 DEF WaitingOK
  <2>3. /\ job[v] # None /\ b.op = job[v].op /\ b.sid = job[v].sid /\ b.held = job[v].held
        /\ v # t => b = job[v]
    BY <1>1, <1>5, <2>1, <2>2
  <2>4. /\ job[u] # None /\ a.op = job[u].op /\ a.sid = job[u].sid
        /\ u # t => a = job[u]
    BY <1>1, <1>5, <2>1, <2>2
  <2>5. a.sid \in Sids /\ b.held.token \in Nat /\ token[a.sid] \in Nat
    BY <2>2, <2>3, <2>4, Numbers
  <2>6. CASE a.sid = s
    <3>1. u = t
      BY <1>9, <2>2, <2>4, <2>6
    <3>2. b.held.token <= token[s]
      BY <1>6, <2>2, <2>3, <2>6 DEF CopyOK
    <3>3. b.held.token < token'[s]
      BY <1>3, <1>4, <1>5, <2>2, <2>5, <3>2
    <3>4. sessions[s] # None => sessions[s].token < token'[s]
      <4>1. sessions[s] # None => sessions[s].token \in Nat /\ sessions[s].token <= token[s]
        BY <1>3, <1>6, <1>7
      <4> QED BY <1>3, <1>4, <1>5, <2>2, <4>1
    <3>5. v # u => b.step # "tokens"
      BY <1>9, <2>2, <2>3, <2>6, <3>1
    <3> QED BY <2>6, <3>3, <3>4, <3>5
  <2>7. CASE a.sid # s
    <3>1. u # t /\ v # t /\ token'[a.sid] = token[a.sid]
      BY <1>2, <1>5, <2>2, <2>3, <2>4, <2>5, <2>7
    <3>2. WaitingOK(u, v)
      BY <1>6
    <3> QED BY <2>2, <2>3, <2>4, <3>1, <3>2 DEF WaitingOK
  <2> QED BY <2>6, <2>7
<1> QED BY <1>8, <1>10, <1>11 DEF InMemory

\* A new session: no request is on it yet.
LEMMA SessionMade ==
    ASSUME SessionsInv, InMemory, NEW t \in Threads, create(t)
    PROVE  InMemory'
<1> SUFFICES ASSUME backend = "memory" PROVE InMemory'
  BY DEF InMemory, create, deployment
<1>1. UNCHANGED <<backend, rotates>> /\ job' = [job EXCEPT ![t] = None]
  BY DEF create, deployment, Answer
<1>2. /\ job \in [Threads -> Jobs \union {None}] /\ sessions \in [Sids -> Records \union {None}]
      /\ token \in [Sids -> 0 .. MaxTokens]
  BY DEF SessionsInv, SessionsTypeOK
<1>3. \A u \in Threads : job'[u] = job[u] \/ job'[u] = None
  BY <1>1, <1>2
<1>4. CASE UNCHANGED <<store, token>>
  <2>1. UNCHANGED <<sessions, token>>
    BY <1>4 DEF store
  <2>2. \A u \in Threads : Calm(job[u], job'[u])
    BY <1>3 DEF Calm
  <2> QED BY <1>1, <2>1, <2>2, CalmStep
<1>5. ASSUME NEW s \in Sids \ drawn, NEW r, token' = [token EXCEPT ![s] = 1],
             r.token = 1, sessions' = [sessions EXCEPT ![s] = r]
      PROVE  InMemory'
  <2>1. /\ sessions'[s] = r /\ token'[s] = 1
        /\ \A q \in Sids \ {s} : sessions'[q] = sessions[q] /\ token'[q] = token[q]
    BY <1>2, <1>5
  <2>2. /\ \A q \in Sids : sessions[q] # None => sessions[q].token <= token[q]
        /\ \A u \in Threads : job[u] # None => CopyOK(job[u])
        /\ \A u, v \in Threads : WaitingOK(u, v)
    BY DEF InMemory
  <2>3. \A u \in Threads : job'[u] # None /\ job'[u].op # "login" =>
            job'[u] = job[u] /\ job[u].sid \in Sids \ {s}
    BY <1>3, Numbers
  <2>4. ASSUME NEW u \in Threads, job'[u] # None PROVE CopyOK(job[u])'
    <3>1. CASE job'[u].op = "login"
      BY <3>1 DEF CopyOK
    <3>2. CASE job'[u].op # "login"
      BY <2>1, <2>2, <2>3, <2>4, <3>2 DEF CopyOK
    <3> QED BY <3>1, <3>2
  <2>5. ASSUME NEW u \in Threads, NEW v \in Threads PROVE WaitingOK(u, v)'
    BY <1>1, <2>1, <2>2, <2>3 DEF WaitingOK
  <2>6. \A q \in Sids : sessions'[q] # None => sessions'[q].token <= token'[q]
    BY <1>5, <2>1, <2>2
  <2> QED BY <2>4, <2>5, <2>6 DEF InMemory
<1>6. ASSUME NEW s \in Sids \ drawn, token' = [token EXCEPT ![s] = 1],
             sessions' = [sessions EXCEPT ![s] =
                 [token |-> 1, expires_at |-> now + AccessLife,
                  refresh_expires_at |-> now + RefreshLife, role_codes |-> bindings]]
      PROVE  InMemory'
  <2>1. PICK r : r = [token |-> 1, expires_at |-> now + AccessLife,
                      refresh_expires_at |-> now + RefreshLife, role_codes |-> bindings]
    OBVIOUS
  <2>2. r.token = 1 /\ sessions' = [sessions EXCEPT ![s] = r]
    BY <1>6, <2>1
  <2> QED BY <1>5, <1>6, <2>2
<1> QED BY <1>4, <1>6 DEF create

\* The new tokens of a request are stored under the lock: they are the newest the
\* provider gave out, and whoever still waits for one was given the same.
LEMMA TokensStored ==
    ASSUME SessionsInv, InMemory, NEW t \in Threads, job[t] # None, job[t].step = "tokens",
           Live(job[t].sid), UNCHANGED <<backend, rotates, token>>, backend = "memory",
           sessions' = [sessions EXCEPT ![job[t].sid] = Renewed(sessions[job[t].sid], job[t].grant)],
           Continue(t, sessions'[job[t].sid])
    PROVE  InMemory' /\ sessions[job[t].sid].token <= sessions'[job[t].sid].token
<1>1. PICK j, s, r : j = job[t] /\ s = job[t].sid /\ r = sessions'[s]
  OBVIOUS
<1>2. /\ sessions \in [Sids -> Records \union {None}] /\ token \in [Sids -> 0 .. MaxTokens]
      /\ now \in 0 .. MaxNow
  BY DEF SessionsInv, SessionsTypeOK
<1>3. /\ j \in Jobs /\ RequestOK(j) /\ s \in Sids /\ j.op \in {"call", "refresh"} /\ j.sid = s
      /\ j.held.token \in Nat /\ token[s] \in Nat
  BY <1>1, Cookie, UnderWay, Numbers
<1>4. j.grant \in 1 .. MaxTokens /\ sessions[s] \in Records
  BY <1>1, <1>2, <1>3 DEF RequestOK, StageOK, Live
<1>5. /\ \A q \in Sids : sessions[q] # None => sessions[q].token <= token[q]
      /\ \A u \in Threads : job[u] # None => CopyOK(job[u])
      /\ \A u, v \in Threads : WaitingOK(u, v)
  BY DEF InMemory
<1>6. j.grant = token[s]
  BY <1>1, <1>3, <1>5 DEF CopyOK
<1>7. r \in Records /\ r.token = token[s] /\ r # None
  <2>1. PICK e, n : e = sessions[s] /\ n = j.grant
    OBVIOUS
  <2>2. r = Renewed(e, n)
    BY <1>1, <1>2, <1>3, <2>1
  <2>3. r \in Records /\ r.token = n
    BY <1>2, <1>4, <2>1, <2>2, RenewedRecord
  <2> QED BY <1>6, <2>1, <2>3, NoneAssumption
<1>8. \A q \in Sids \ {s} : sessions'[q] = sessions[q]
  BY <1>1, <1>2
<1>9. /\ j.op = "refresh" => job'[t] = None
      /\ j.op = "call" => job'[t] = GoingOn(j, r)
  BY <1>1 DEF Continue, GoingOn
<1>10. ASSUME NEW u \in Threads, u # t
       PROVE  \/ job'[u] = job[u] /\ (job[u] # None => job[u].sid # s)
              \/ job[u] # None /\ job[u].sid = s /\ job'[u] = Noted(job[u])
  BY <1>1, <1>10 DEF Continue, Noted
<1>11. job'[t] # None =>
          /\ job'[t].op = j.op /\ job'[t].sid = s /\ job'[t].step = "health" /\ job'[t].held = r
          /\ j.op = "call"
  <2>1. CASE j.op = "call"
    <3>1. PICK k : k = job'[t]
      OBVIOUS
    <3>2. TurnedTo(k, j, "health", r, 0, None, j.role, j.fallback, FALSE)
      BY <1>3, <1>7, <1>9, <2>1, <3>1, GoingOnFields
    <3> QED BY <1>3, <2>1, <3>1, <3>2 DEF TurnedTo
  <2> QED BY <1>3, <1>9, <2>1
<1>12. ASSUME NEW u \in Threads, u # t, job'[u] # None, job'[u].op # "login"
       PROVE  /\ job[u] # None /\ job[u].op # "login" /\ job'[u].op = job[u].op
              /\ job'[u].sid = job[u].sid /\ job'[u].held = job[u].held
              /\ job'[u].step = job[u].step /\ job'[u].grant = job[u].grant
              /\ job[u].sid = s => job'[u].overtaken
              /\ job[u].sid # s => job'[u] = job[u]
              /\ job[u].sid \in Sids
  <2>1. CASE job'[u] = job[u] /\ (job[u] # None => job[u].sid # s)
    BY <1>12, <2>1, Numbers
  <2>2. CASE job[u] # None /\ job[u].sid = s /\ job'[u] = Noted(job[u])
    <3>1. PICK d, k : d = job[u] /\ k = job'[u]
      OBVIOUS
    <3>2. d \in Jobs
      BY <2>2, <3>1, UnderWay
    <3>3. TurnedTo(k, d, d.step, d.held, d.grant, d.write, d.role, d.fallback, TRUE)
      BY <2>2, <3>1, <3>2, NotedFields
    <3> QED BY <1>3, <1>12, <2>2, <3>1, <3>3 DEF TurnedTo
  <2> QED BY <1>10, <1>12, <2>1, <2>2
<1>13. ASSUME NEW u \in Threads, job'[u] # None PROVE CopyOK(job[u])'
  <2>1. PICK d, e : d = job'[u] /\ e = job[u]
    OBVIOUS
  <2>2. CASE d.op = "login"
    BY <2>1, <2>2 DEF CopyOK
  <2>3. CASE u = t /\ d.op # "login"
    <3>1. CopyOK(d)'
      BY <1>1, <1>3, <1>7, <1>11, <1>13, <2>1, <2>3 DEF CopyOK
    <3> QED BY <2>1, <3>1 DEF CopyOK
  <2>4. CASE u # t /\ d.op # "login"
    <3>1. /\ e # None /\ e.op # "login" /\ d.op = e.op /\ d.sid = e.sid /\ d.held = e.held
          /\ d.step = e.step /\ d.grant = e.grant /\ e.sid \in Sids
          /\ e.sid = s => d.overtaken
          /\ e.sid # s => d = e
      BY <1>12, <1>13, <2>1, <2>4
    <3>2. CopyOK(e)
      BY <1>5, <2>1, <3>1
    <3>3. CASE e.sid = s
      <4>1. CopyOK(d)'
        BY <3>1, <3>2, <3>3 DEF CopyOK
      <4> QED BY <2>1, <4>1 DEF CopyOK
    <3>4. CASE e.sid # s
      <4>1. CopyOK(d)'
        BY <1>8, <3>1, <3>2, <3>4 DEF CopyOK
      <4> QED BY <2>1, <4>1 DEF CopyOK
    <3> QED BY <3>3, <3>4
  <2> QED BY <2>2, <2>3, <2>4
<1>14. ASSUME NEW u \in Threads, NEW v \in Threads PROVE WaitingOK(u, v)'
  <2>1. PICK a, b : a = job'[u] /\ b = job'[v]
    OBVIOUS
  <2>2. SUFFICES ASSUME rotates, a # None, b # None, a.op # "login", b.op # "login",
                        a.step = "tokens", b.sid = a.sid
                 PROVE  /\ b.held.token < token[a.sid]
                        /\ sessions'[a.sid] # None => sessions'[a.sid].token < token[a.sid]
                        /\ v # u => b.step # "tokens"
    BY <2>1 DEF WaitingOK
  <2>3. /\ u # t /\ job[u] # None /\ job[u].op # "login" /\ job[u].sid = a.sid
        /\ job[u].step = "tokens" /\ a.sid \in Sids
    BY <1>11, <1>12, <2>1, <2>2
  <2>4. a.sid # s
    <3>1. WaitingOK(t, u)
      BY <1>5
    <3> QED BY <1>1, <1>3, <2>2, <2>3, <3>1 DEF WaitingOK
  <2>5. v # t /\ job[v] # None /\ job[v] = b /\ job[u] = a
    BY <1>11, <1>12, <2>1, <2>2, <2>3, <2>4
  <2>6. WaitingOK(u, v)
    BY <1>5
  <2> QED BY <1>8, <2>2, <2>3, <2>4, <2>5, <2>6 DEF WaitingOK
<1>15. \A q \in Sids : sessions'[q] # None => sessions'[q].token <= token'[q]
  BY <1>1, <1>3, <1>5, <1>7, <1>8
<1>16. sessions[s].token <= r.token
  BY <1>3, <1>4, <1>5, <1>7, NoneAssumption
<1> QED BY <1>1, <1>13, <1>14, <1>15, <1>16 DEF InMemory

\* One request turns without new tokens.
LEMMA CalmTurn ==
    ASSUME SessionsInv, InMemory, NEW t \in Threads, NEW k, job' = [job EXCEPT ![t] = k],
           Calm(job[t], k), UNCHANGED <<backend, rotates, token>>,
           \A s \in Sids : sessions'[s] = sessions[s] \/ sessions'[s] = None
    PROVE  InMemory'
<1>1. job \in [Threads -> Jobs \union {None}]
  BY DEF SessionsInv, SessionsTypeOK
<1>2. \A u \in Threads : Calm(job[u], job'[u])
  BY <1>1 DEF Calm
<1> QED BY <1>2, CalmStep

\* No request turns.
LEMMA NobodyTurns ==
    ASSUME SessionsInv, InMemory, UNCHANGED <<backend, rotates, token, job>>,
           \A s \in Sids : sessions'[s] = sessions[s] \/ sessions'[s] = None
    PROVE  InMemory'
<1>1. \A u \in Threads : Calm(job[u], job'[u])
  BY DEF Calm
<1> QED BY <1>1, CalmStep

\* What a turn needs to be calm.
LEMMA CalmTurned ==
    ASSUME NEW j, NEW k, j # None, NEW step, NEW held, NEW grant, NEW write, NEW role, NEW fallback,
           NEW overtaken, TurnedTo(k, j, step, held, grant, write, role, fallback, overtaken),
           held = j.held, overtaken <=> j.overtaken, step # "tokens",
           step = "drop" => j.held.token < token[j.sid]
    PROVE  Calm(j, k)
<1>1. k.op = j.op /\ k.sid = j.sid /\ k.held = j.held /\ k.step = step
  BY DEF TurnedTo
<1>2. k.overtaken <=> j.overtaken
  BY DEF TurnedTo
<1> QED BY <1>1, <1>2 DEF Calm

\* The actions, one by one.
LEMMA InMemoryLogin ==
    ASSUME SessionsInv, InMemory, NEW t, NEW l \in Logins,
           Issue(l) \/ (t \in Threads /\ (BeginLogin(t, l) \/ Exchange(t)))
    PROVE  InMemory'
<1>1. /\ UNCHANGED <<backend, rotates, token, sessions>>
      /\ job \in [Threads -> Jobs \union {None}]
  BY DEF Issue, BeginLogin, Exchange, deployment, store, SessionsInv, SessionsTypeOK
<1>2. CASE Issue(l)
  BY <1>1, <1>2, NobodyTurns DEF Issue
<1>3. CASE t \in Threads /\ BeginLogin(t, l)
  <2>1. CASE Unexpired(l)
    <3> DEFINE k == [NewJob("login") EXCEPT !.step = "exchange", !.login = l]
    <3>1. job' = [job EXCEPT ![t] = k]
      BY <1>3, <2>1 DEF BeginLogin, PeekState
    <3>2. PICK n : n = NewJob("login")
      OBVIOUS
    <3>3. n \in Jobs /\ n.op = "login"
      BY <3>2, NewJobFields
    <3>4. k.op = "login"
      BY <3>2, <3>3 DEF Jobs
    <3> HIDE DEF k
    <3>5. Calm(job[t], k)
      BY <3>4 DEF Calm
    <3> QED BY <1>1, <1>3, <3>1, <3>5, CalmTurn
  <2>2. CASE ~Unexpired(l)
    BY <1>1, <1>3, <2>2, NobodyTurns DEF BeginLogin
  <2> QED BY <2>1, <2>2
<1>4. CASE t \in Threads /\ Exchange(t)
  <2>1. job[t] # None /\ job[t].step = "exchange"
    BY <1>4 DEF Exchange
  <2>2. PICK j : j = job[t]
    OBVIOUS
  <2>3. j \in Jobs /\ j.op = "login"
    BY <1>4, <2>1, <2>2, UnderWay DEF RequestOK, StageOK
  <2>4. CASE Answer(t)
    BY <1>1, <1>4, <2>4, CalmTurn DEF Answer, Calm
  <2>5. CASE Goto(t, "create")
    <3>1. PICK k : k = Stepped(j, "create")
      OBVIOUS
    <3>2. job' = [job EXCEPT ![t] = k]
      BY <1>4, <2>1, <2>2, <2>5, <3>1, GotoSteps
    <3>3. k.op = "login"
      BY <2>3, <3>1 DEF Stepped, Jobs
    <3> QED BY <1>1, <1>4, <3>2, <3>3, CalmTurn DEF Calm
  <2> QED BY <1>4, <2>4, <2>5 DEF Exchange
<1> QED BY <1>2, <1>3, <1>4

LEMMA InMemoryRefresh ==
    ASSUME SessionsInv, InMemory, NEW t \in Threads, Refresh(t), backend = "memory"
    PROVE  InMemory'
<1>1. /\ UNCHANGED <<backend, rotates, sessions>> /\ job[t] # None /\ job[t].step = "refresh"
      /\ job \in [Threads -> Jobs \union {None}]
  BY DEF Refresh, deployment, store, SessionsInv, SessionsTypeOK
<1>2. PICK j, s, n : j = job[t] /\ s = job[t].sid /\ n = Rotated(s)
  OBVIOUS
<1>3. /\ j \in Jobs /\ s \in Sids /\ j.op # "login" /\ j.sid = s /\ j.held.token \in Nat
      /\ token[s] \in Nat /\ j.held.token \in 1 .. MaxTokens
  BY <1>1, <1>2, UnderWay, Cookie, Numbers
<1>4. PICK f : f = AfterFailedRefresh(j)
  OBVIOUS
<1>5. f # None => /\ f.op = j.op /\ f.sid = s /\ f.held = j.held /\ f.step = "health"
                  /\ f.overtaken <=> j.overtaken
  BY <1>1, <1>2, <1>3, <1>4, FailedRefresh
<1>6. CASE /\ Honours(s, j.held.token) /\ token' = [token EXCEPT ![s] = n]
           /\ job' = [job EXCEPT ![t] = f]
  BY <1>2, <1>5, <1>6, TokenGiven
<1>7. CASE /\ Honours(s, j.held.token) /\ token' = [token EXCEPT ![s] = n] /\ n <= MaxTokens
           /\ job' = [job EXCEPT ![t].step = "tokens", ![t].grant = n]
  <2>1. n \in 1 .. MaxTokens
    <3>1. rotates \in BOOLEAN /\ MaxTokens \in Nat
      BY LifetimesAssumption DEF SessionsInv, SessionsTypeOK
    <3> QED BY <1>2, <1>3, <1>7, <3>1 DEF Rotated, Honours
  <2>2. PICK k : k = Granted(j, n)
    OBVIOUS
  <2>3. job' = [job EXCEPT ![t] = k]
    BY <1>1, <1>2, <1>7, <2>2 DEF Granted
  <2>4. TurnedTo(k, j, "tokens", j.held, n, j.write, j.role, j.fallback, j.overtaken)
    BY <1>3, <2>1, <2>2, GrantedFields
  <2>5. k.op = j.op /\ k.sid = s /\ k.held = j.held /\ k.step = "tokens" /\ k.grant = n
    BY <1>3, <2>4 DEF TurnedTo
  <2>6. k.overtaken <=> j.overtaken
    BY <2>4 DEF TurnedTo
  <2> QED BY ZenonT(60), <1>2, <1>7, <2>3, <2>5, <2>6, TokenGiven
<1>8. CASE ~Honours(s, j.held.token) /\ Goto(t, "drop") /\ UNCHANGED token
  <2> DEFINE c == "drop"
  <2>1. PICK k : k = Stepped(j, c)
    OBVIOUS
  <2>2. job' = [job EXCEPT ![t] = k] /\ c \in Steps
    BY <1>1, <1>2, <1>8, <2>1, GotoSteps DEF Steps
  <2>3. CopyOK(j)
    BY <1>1, <1>2 DEF InMemory
  <2>4. j.held.token < token[j.sid]
    BY <1>3, <1>8, <2>3 DEF CopyOK, Honours
  <2>5. c # "tokens"
    OBVIOUS
  <2> HIDE DEF c
  <2>6. TurnedTo(k, j, c, j.held, j.grant, j.write, j.role, j.fallback, j.overtaken)
    BY <1>3, <2>1, <2>2, SteppedFields
  <2>7. Calm(j, k)
    BY <1>1, <1>2, <2>4, <2>5, <2>6, CalmTurned
  <2> QED BY <1>1, <1>2, <1>8, <2>2, <2>7, CalmTurn
<1>9. CASE job' = [job EXCEPT ![t] = f] /\ UNCHANGED token
  <2>1. Calm(j, f)
    BY <1>1, <1>2, <1>3, <1>5 DEF Calm
  <2> QED BY <1>1, <1>2, <1>9, <2>1, CalmTurn
<1> QED BY <1>2, <1>4, <1>6, <1>7, <1>8, <1>9 DEF Refresh

LEMMA InMemoryRequest ==
    ASSUME SessionsInv, InMemory, NEW t \in Threads, backend = "memory",
           Drop(t) \/ Health(t) \/ Enrich(t) \/ update_actor_snapshot(t) \/ Served(t)
    PROVE  /\ InMemory'
           /\ \A q \in Sids : sessions'[q] = sessions[q] \/ sessions'[q] = None
<1>1. /\ UNCHANGED <<backend, rotates, token>> /\ job[t] # None
      /\ job[t].step \in {"drop", "health", "enrich", "snapshot", "served"}
  BY DEF Drop, Health, Enrich, update_actor_snapshot, Served, deployment
<1>2. /\ job \in [Threads -> Jobs \union {None}] /\ sessions \in [Sids -> Records \union {None}]
  BY DEF SessionsInv, SessionsTypeOK
<1>3. PICK j, s : j = job[t] /\ s = job[t].sid
  OBVIOUS
<1>4. j \in Jobs /\ s \in Sids
  BY <1>1, <1>3, UnderWay, Cookie
<1>5. \A q \in Sids : sessions'[q] = sessions[q] \/ sessions'[q] = None
  <2>1. \/ sessions' = sessions \/ sessions' = [sessions EXCEPT ![s] = None]
        \/ sessions' = [sessions EXCEPT ![s] = sessions[s]]
    BY <1>3 DEF Drop, Health, Enrich, update_actor_snapshot, Served, store, SnapshotOf
  <2> QED BY <1>2, <1>4, <2>1
<1>6. CASE job' = [job EXCEPT ![t] = None]
  <2>1. Calm(j, None)
    BY DEF Calm
  <2> QED BY <1>1, <1>3, <1>5, <1>6, <2>1, CalmTurn
<1>7. CASE Drop(t)
  <2>1. PICK f : f = AfterFailedRefresh(j)
    OBVIOUS
  <2>2. f # None => /\ f.op = j.op /\ f.sid = j.sid /\ f.held = j.held /\ f.step = "health"
                    /\ f.overtaken <=> j.overtaken
    BY <1>1, <1>3, <1>7, <2>1, FailedRefresh DEF Drop
  <2>3. Calm(j, f)
    BY <1>1, <1>3, <2>2 DEF Calm
  <2> QED BY <1>1, <1>3, <1>5, <1>7, <2>1, <2>3, CalmTurn DEF Drop
<1>8. CASE Health(t)
  <2>1. CASE Goto(t, "enrich")
    <3> DEFINE c == "enrich"
    <3>1. PICK k : k = Stepped(j, c)
      OBVIOUS
    <3>2. job' = [job EXCEPT ![t] = k] /\ c \in Steps
      BY <1>1, <1>3, <2>1, <3>1, GotoSteps DEF Steps
    <3>3. c # "tokens" /\ c # "drop"
      OBVIOUS
    <3> HIDE DEF c
    <3>4. TurnedTo(k, j, c, j.held, j.grant, j.write, j.role, j.fallback, j.overtaken)
      BY <1>4, <3>1, <3>2, SteppedFields
    <3>5. Calm(j, k)
      BY <1>1, <1>3, <3>3, <3>4, Zenon DEF Calm, TurnedTo
    <3> QED BY <1>1, <1>3, <1>5, <3>2, <3>5, CalmTurn
  <2>2. CASE job' = [job EXCEPT ![t] = Forced(j)]
    <3>1. PICK k : k = Forced(j)
      OBVIOUS
    <3>2. TurnedTo(k, j, "refresh", j.held, j.grant, j.write, j.role, j.fallback, j.overtaken)
      BY <1>4, <3>1, ForcedFields
    <3>3. Calm(j, k)
      BY <1>1, <1>3, <3>2, CalmTurned
    <3> QED BY <1>1, <1>3, <1>5, <2>2, <3>1, <3>3, CalmTurn
  <2> QED BY <1>3, <1>6, <1>8, <2>1, <2>2 DEF Health, Answer, Forced
<1>9. CASE Enrich(t)
  <2>1. PICK r : /\ r \in Roles \union {None}
                 /\ job' = [job EXCEPT ![t].step = "snapshot", ![t].role = r,
                                       ![t].fallback = (bindings = {})]
    <3>1. PICK roles : roles = IF actorStatus = "disabled" THEN {} ELSE AvailableRoles(j.held)
      OBVIOUS
    <3>2. PICK r \in IF roles = {} THEN {None} ELSE roles :
              job' = [job EXCEPT ![t].step = "snapshot", ![t].role = r,
                                 ![t].fallback = (bindings = {})]
      BY <1>3, <1>9, <3>1 DEF Enrich
    <3>3. j.held.role_codes \subseteq Roles /\ bindings \subseteq Roles
      <4>1. j.held \in Records
        BY <1>1, <1>3, Cookie
      <4> QED BY <4>1 DEF Records, SessionsInv, SessionsTypeOK
    <3>4. r \in Roles \union {None}
      BY <3>1, <3>2, <3>3 DEF AvailableRoles
    <3> QED BY <3>2, <3>4
  <2>2. PICK fb \in BOOLEAN : fb = (bindings = {})
    OBVIOUS
  <2>3. PICK k : k = Derived(j, r, fb)
    OBVIOUS
  <2>4. job' = [job EXCEPT ![t] = k]
    BY <1>2, <1>3, <2>1, <2>2, <2>3 DEF Derived
  <2>5. TurnedTo(k, j, "snapshot", j.held, j.grant, j.write, r, fb, j.overtaken)
    BY <1>4, <2>1, <2>2, <2>3, DerivedFields
  <2>6. Calm(j, k)
    BY <1>1, <1>3, <2>5, CalmTurned
  <2> QED BY <1>1, <1>3, <1>5, <2>4, <2>6, CalmTurn
<1>10. CASE update_actor_snapshot(t)
  <2>1. Resolve(t) /\ job[t].step = "snapshot"
    BY <1>10 DEF update_actor_snapshot
  <2>2. PICK k : k = ResolveAsked(j)
    OBVIOUS
  <2>3. /\ job' = [job EXCEPT ![t] = k]
        /\ k # None => /\ k.op = j.op /\ k.sid = j.sid /\ k.held = j.held /\ k.step = "served"
                       /\ k.overtaken <=> j.overtaken
    BY <1>1, <1>3, <2>1, <2>2, Resolved
  <2>4. Calm(j, k)
    BY <1>1, <1>3, <2>3 DEF Calm
  <2> QED BY <1>1, <1>3, <1>5, <2>3, <2>4, CalmTurn
<1>11. CASE Served(t)
  BY <1>6, <1>11 DEF Served, Answer
<1> QED BY <1>5, <1>7, <1>8, <1>9, <1>10, <1>11

LEMMA InMemoryTokens ==
    ASSUME SessionsInv, InMemory, NEW t \in Threads, backend = "memory", update_tokens(t)
    PROVE  /\ InMemory'
           /\ \A q \in Sids : \/ sessions'[q] = sessions[q] \/ sessions'[q] = None
                              \/ sessions[q] # None /\ sessions[q].token <= sessions'[q].token
<1>1. /\ UNCHANGED <<backend, rotates, token>> /\ job[t] # None /\ job[t].step = "tokens"
      /\ sessions \in [Sids -> Records \union {None}]
  BY DEF update_tokens, deployment, SessionsInv, SessionsTypeOK
<1>2. PICK j, s : j = job[t] /\ s = job[t].sid
  OBVIOUS
<1>3. s \in Sids
  BY <1>1, <1>2, Cookie
<1>4. CASE /\ sessions' = [sessions EXCEPT ![s] = None]
           /\ job' = [job EXCEPT ![t] = AfterFailedRefresh(j)]
  <2>1. PICK f : f = AfterFailedRefresh(j)
    OBVIOUS
  <2>2. f # None => /\ f.op = j.op /\ f.sid = j.sid /\ f.held = j.held /\ f.step = "health"
                    /\ f.overtaken <=> j.overtaken
    BY <1>1, <1>2, <2>1, FailedRefresh
  <2>3. Calm(j, f)
    BY <1>1, <1>2, <2>2 DEF Calm
  <2>4. \A q \in Sids : sessions'[q] = sessions[q] \/ sessions'[q] = None
    BY <1>1, <1>3, <1>4
  <2> QED BY <1>1, <1>2, <1>4, <2>1, <2>3, <2>4, CalmTurn
<1>5. CASE /\ Live(s) /\ sessions' = [sessions EXCEPT ![s] = Renewed(sessions[s], j.grant)]
           /\ Continue(t, sessions'[s])
  <2>1. InMemory' /\ sessions[s].token <= sessions'[s].token
    BY <1>1, <1>2, <1>5, TokensStored
  <2>2. \A q \in Sids \ {s} : sessions'[q] = sessions[q]
    BY <1>1, <1>5
  <2>3. sessions[s] # None
    BY <1>5 DEF Live
  <2> QED BY <2>1, <2>2, <2>3
<1> QED BY <1>2, <1>4, <1>5 DEF update_tokens

LEMMA InMemoryActor ==
    ASSUME SessionsInv, InMemory, NEW roles \in SUBSET Roles, NEW e \in BOOLEAN, Witness(roles, e),
           UNCHANGED <<backend, rotates, token, sessions>>
    PROVE  InMemory'
<1>1. ASSUME NEW u \in Threads PROVE Calm(job[u], job'[u])
  <2>1. PICK j, k : j = job[u] /\ k = job'[u]
    OBVIOUS
  <2>2. CASE j = None \/ j.op # "call"
    <3>1. k = j
      BY <2>1, <2>2 DEF Witness
    <3> QED BY <2>1, <3>1 DEF Calm
  <2>3. CASE j # None /\ j.op = "call"
    <3>1. k = Witnessed(j, roles, e) /\ j \in Jobs
      BY <2>1, <2>3, UnderWay DEF Witness, Witnessed
    <3>2. k.step = j.step /\ k.op = j.op /\ k.sid = j.sid /\ k.held = j.held /\ k.grant = j.grant
      BY <3>1, WitnessedFields
    <3>3. k.overtaken = j.overtaken
      BY <3>1 DEF Witnessed, Jobs
    <3> QED BY <2>1, <2>3, <3>2, <3>3 DEF Calm
  <2> QED BY <2>2, <2>3
<1> QED BY <1>1, CalmStep

\* What a step makes of the in-process store and of the requests on it.
LEMMA InMemoryStep ==
    ASSUME SessionsInv, InMemory, SessionsNext
    PROVE  /\ InMemory'
           /\ backend = "memory" => \A q \in Sids :
                 \/ sessions'[q] = sessions[q] \/ sessions'[q] = None \/ q \notin drawn
                 \/ sessions[q] # None /\ sessions[q].token <= sessions'[q].token
<1> DEFINE Kept == \A q \in Sids :
               \/ sessions'[q] = sessions[q] \/ sessions'[q] = None \/ q \notin drawn
               \/ sessions[q] # None /\ sessions[q].token <= sessions'[q].token
<1>1. backend' = backend /\ sessions \in [Sids -> Records \union {None}]
  BY DEF SessionsNext, Request, Issue, BeginLogin, BeginRequest, Exchange, create, Refresh, Drop,
         update_tokens, Health, Enrich, update_actor_snapshot, Save, Served, Logout,
         set_actor_status, assign_actor_role, revoke_actor_role, Tick, deployment, SessionsInv,
         SessionsTypeOK
<1>2. CASE backend # "memory"
  BY <1>1, <1>2 DEF InMemory
<1>3. CASE backend = "memory"
  <2>1. ASSUME NEW l \in Logins, Issue(l) PROVE InMemory' /\ Kept
    BY <2>1, InMemoryLogin DEF Issue, store
  <2>2. ASSUME NEW t \in Threads, NEW l \in Logins, BeginLogin(t, l) PROVE InMemory' /\ Kept
    BY <2>2, InMemoryLogin DEF BeginLogin, store
  <2>3. ASSUME NEW t \in Threads, NEW op \in {"call", "refresh"}, NEW s \in Sids,
               BeginRequest(t, op, s)
        PROVE  InMemory' /\ Kept
    <3>1. CASE Live(s)
      BY <2>3, <3>1, CopyTaken DEF BeginRequest, store
    <3>2. CASE ~Live(s)
      <4>1. sessions' = [sessions EXCEPT ![s] = None] /\ UNCHANGED <<backend, rotates, token, job>>
        BY <2>3, <3>2 DEF BeginRequest, deployment
      <4>2. \A q \in Sids : sessions'[q] = sessions[q] \/ sessions'[q] = None
        BY <1>1, <4>1
      <4> QED BY <4>1, <4>2, NobodyTurns
    <3> QED BY <3>1, <3>2
  <2>4. ASSUME NEW t \in Threads, Request(t) PROVE InMemory' /\ Kept
    <3>1. CASE Exchange(t)
      <4>1. job[t] # None /\ job[t].step = "exchange" /\ sessions' = sessions
        BY <3>1 DEF Exchange, store
      <4>2. job[t].login \in Logins
        BY <4>1, UnderWay DEF RequestOK, StageOK
      <4> QED BY <3>1, <4>1, <4>2, InMemoryLogin
    <3>2. CASE create(t)
      <4>1. InMemory'
        BY <3>2, SessionMade
      <4>2. Kept
        BY <1>1, <3>2 DEF create, store
      <4> QED BY <4>1, <4>2
    <3>3. CASE Refresh(t)
      BY <1>3, <3>3, InMemoryRefresh DEF Refresh, store
    <3>4. CASE update_tokens(t)
      BY <1>3, <3>4, InMemoryTokens
    <3>5. CASE Save(t)
      <4>1. job[t] # None /\ job[t].step \in {"save_tokens", "save_snapshot"}
        BY <3>5 DEF Save
      <4>2. backend = "redis"
        BY <4>1, UnderWay DEF RequestOK, StageOK
      <4> QED BY <1>3, <4>2
    <3>6. CASE Drop(t) \/ Health(t) \/ Enrich(t) \/ update_actor_snapshot(t) \/ Served(t)
      BY <1>3, <3>6, InMemoryRequest
    <3> QED BY <2>4, <3>1, <3>2, <3>3, <3>4, <3>5, <3>6 DEF Request
  <2>5. ASSUME NEW s \in Sids, Logout(s) PROVE InMemory' /\ Kept
    <3>1. sessions' = [sessions EXCEPT ![s] = None] /\ UNCHANGED <<backend, rotates, token, job>>
      BY <2>5 DEF Logout, deployment
    <3>2. \A q \in Sids : sessions'[q] = sessions[q] \/ sessions'[q] = None
      BY <1>1, <3>1
    <3> QED BY <3>1, <3>2, NobodyTurns
  <2>6. ASSUME NEW value \in {"active", "disabled"}, set_actor_status(value) PROVE InMemory' /\ Kept
    <3>1. UNCHANGED <<backend, rotates, token, sessions>>
      BY <2>6 DEF set_actor_status, deployment, store
    <3>2. PICK e \in BOOLEAN : e = (value = "active")
      OBVIOUS
    <3>3. PICK none \in SUBSET Roles : none = {}
      OBVIOUS
    <3>4. Witness(none, e)
      BY <2>6, <3>2, <3>3 DEF set_actor_status
    <3> QED BY <3>1, <3>4, InMemoryActor
  <2>7. ASSUME NEW r \in Roles, assign_actor_role(r) PROVE InMemory' /\ Kept
    <3>1. UNCHANGED <<backend, rotates, token, sessions>>
      BY <2>7 DEF assign_actor_role, deployment, store
    <3>2. PICK e \in BOOLEAN : e = FALSE
      OBVIOUS
    <3>3. PICK new \in SUBSET Roles : new = {r}
      OBVIOUS
    <3>4. Witness(new, e)
      BY <2>7, <3>2, <3>3 DEF assign_actor_role
    <3> QED BY <3>1, <3>4, InMemoryActor
  <2>8. ASSUME NEW r \in Roles, revoke_actor_role(r) PROVE InMemory' /\ Kept
    <3>1. UNCHANGED <<backend, rotates, token, sessions, job>>
      BY <2>8 DEF revoke_actor_role, deployment, store
    <3> QED BY <3>1, NobodyTurns
  <2>9. ASSUME Tick PROVE InMemory' /\ Kept
    <3>1. UNCHANGED <<backend, rotates, token, sessions, job>>
      BY <2>9 DEF Tick, deployment, store
    <3> QED BY <3>1, NobodyTurns
  <2> HIDE DEF Kept
  <2>10. InMemory' /\ Kept
    BY <2>1, <2>2, <2>3, <2>4, <2>5, <2>6, <2>7, <2>8, <2>9 DEF SessionsNext
  <2> QED BY <2>10 DEF Kept
<1> QED BY <1>2, <1>3

LEMMA InMemoryInvariance == SessionsSpec => []InMemory
<1>1. SessionsInit => InMemory
  BY DEF SessionsInit, InMemory, WaitingOK
<1>2. SessionsInv /\ InMemory /\ [SessionsNext]_sessionVars => InMemory'
  <2>1. ASSUME SessionsInv, InMemory, UNCHANGED sessionVars PROVE InMemory'
    BY <2>1, NobodyTurns DEF sessionVars
  <2> QED BY <2>1, InMemoryStep
<1> QED BY <1>1, <1>2, SessionsInvariance, PTL DEF SessionsSpec

\* With the in-process store, where the stored token is not the newest one and no call
\* failed so far, some request has the newest on the way to the store.
OnTheWay(j, s, n) == j # None /\ j.sid = s /\ j.step = "tokens" /\ j.grant = n

NewestOK(s) ==
    sessions[s] # None /\ sessions[s].token # token[s] =>
        faults > 0 \/ \E u \in Threads : OnTheWay(job[u], s, token[s])

NewestKnown == backend = "memory" => \A s \in Sids : NewestOK(s)

\* A step that stores and grants no token and loses none that is on its way.
LEMMA NothingStored ==
    ASSUME NewestKnown, UNCHANGED <<backend, token>>, faults' = faults \/ faults' > 0,
           \A s \in Sids : sessions'[s] = sessions[s] \/ sessions'[s] = None,
           \A u \in Threads : job[u] # None /\ job[u].step = "tokens" =>
               /\ job'[u] # None /\ job'[u].sid = job[u].sid
               /\ job'[u].step = "tokens" /\ job'[u].grant = job[u].grant
    PROVE  NewestKnown'
<1> SUFFICES ASSUME backend = "memory", NEW s \in Sids, sessions'[s] # None,
                    sessions'[s].token # token[s], ~(faults' > 0)
             PROVE  \E u \in Threads : OnTheWay(job'[u], s, token[s])
  BY DEF NewestKnown, NewestOK, OnTheWay
<1>1. NewestOK(s) /\ sessions'[s] = sessions[s]
  BY DEF NewestKnown
<1>2. PICK u \in Threads : OnTheWay(job[u], s, token[s])
  BY <1>1 DEF NewestOK
<1> QED BY <1>2 DEF OnTheWay

\* The same for a step in which one request turns that has no token on its way.
LEMMA NothingStoredBy ==
    ASSUME SessionsInv, NewestKnown, NEW t \in Threads, NEW k, job' = [job EXCEPT ![t] = k],
           job[t] = None \/ job[t].step # "tokens",
           UNCHANGED <<backend, token>>, faults' = faults \/ faults' > 0,
           \A s \in Sids : sessions'[s] = sessions[s] \/ sessions'[s] = None
    PROVE  NewestKnown'
<1>1. job \in [Threads -> Jobs \union {None}]
  BY DEF SessionsInv, SessionsTypeOK
<1>2. \A u \in Threads : job[u] # None /\ job[u].step = "tokens" => job'[u] = job[u]
  BY <1>1
<1> QED BY <1>2, NothingStored

\* A fault is counted.
LEMMA FaultCounts ==
    ASSUME SessionsInv, Fault
    PROVE  faults' > 0
BY LifetimesAssumption DEF SessionsInv, SessionsTypeOK, Fault

\* The provider's answer: the new token is on its way, or the call failed.
LEMMA NewestRefreshed ==
    ASSUME SessionsInv, InMemory, NewestKnown, NEW t \in Threads, Refresh(t)
    PROVE  NewestKnown'
<1> SUFFICES ASSUME backend = "memory" PROVE NewestKnown'
  BY DEF NewestKnown, Refresh, deployment
<1>1. /\ UNCHANGED <<backend, rotates, sessions>> /\ job[t] # None /\ job[t].step = "refresh"
      /\ job \in [Threads -> Jobs \union {None}] /\ token \in [Sids -> 0 .. MaxTokens]
  BY DEF Refresh, deployment, store, SessionsInv, SessionsTypeOK
<1>2. PICK j, s, n : j = job[t] /\ s = job[t].sid /\ n = Rotated(s)
  OBVIOUS
<1>3. j \in Jobs /\ s \in Sids /\ j.sid = s
  BY <1>1, <1>2, UnderWay, Cookie
<1>4. PICK f : f = AfterFailedRefresh(j)
  OBVIOUS
<1>5. CASE Fault
  BY <1>5, FaultCounts DEF NewestKnown, NewestOK
<1>6. CASE /\ Honours(s, j.held.token) /\ token' = [token EXCEPT ![s] = n] /\ n <= MaxTokens
           /\ job' = [job EXCEPT ![t].step = "tokens", ![t].grant = n] /\ UNCHANGED faults
  <2>1. PICK k : k = Granted(j, n)
    OBVIOUS
  <2>2. n \in 1 .. MaxTokens
    <3>1. rotates \in BOOLEAN /\ MaxTokens \in Nat /\ j.held.token \in 1 .. MaxTokens
      BY <1>1, <1>2, UnderWay, Cookie, LifetimesAssumption DEF SessionsInv, SessionsTypeOK, Records
    <3> QED BY <1>2, <1>6, <3>1 DEF Rotated, Honours
  <2>3. k # None /\ k.sid = s /\ k.step = "tokens" /\ k.grant = n
    <3>1. TurnedTo(k, j, "tokens", j.held, n, j.write, j.role, j.fallback, j.overtaken)
      BY <1>3, <2>1, <2>2, GrantedFields
    <3> QED BY <1>3, <3>1, NoneAssumption DEF TurnedTo
  <2>4. job' = [job EXCEPT ![t] = k]
    BY <1>1, <1>2, <1>6, <2>1 DEF Granted
  <2>5. OnTheWay(job'[t], s, token'[s])
    BY <1>1, <1>3, <1>6, <2>3, <2>4 DEF OnTheWay
  <2>6. ASSUME NEW q \in Sids PROVE NewestOK(q)'
    <3>1. CASE q = s
      BY <2>5, <3>1 DEF NewestOK
    <3>2. CASE q # s
      <4>1. token'[q] = token[q] /\ NewestOK(q)
        BY <1>1, <1>6, <2>6, <3>2 DEF NewestKnown
      <4>2. \A u \in Threads : OnTheWay(job[u], q, token[q]) => OnTheWay(job'[u], q, token[q])
        BY <1>1, <1>2, <2>4, <3>2 DEF OnTheWay
      <4> QED BY <1>1, <1>6, <4>1, <4>2 DEF NewestOK
    <3> QED BY <3>1, <3>2
  <2> QED BY <2>6 DEF NewestKnown
<1>7. CASE Goto(t, "drop") /\ UNCHANGED <<token, faults>>
  <2>1. PICK k : k = Stepped(j, "drop")
    OBVIOUS
  <2>2. job' = [job EXCEPT ![t] = k]
    BY <1>1, <1>2, <1>7, <2>1, GotoSteps
  <2> QED BY <1>1, <1>7, <2>2, NothingStoredBy
<1> QED BY <1>2, <1>5, <1>6, <1>7 DEF Refresh

\* New tokens are stored, or the session is gone.
LEMMA NewestStored ==
    ASSUME SessionsInv, InMemory, NewestKnown, NEW t \in Threads, update_tokens(t)
    PROVE  NewestKnown'
<1> SUFFICES ASSUME backend = "memory" PROVE NewestKnown'
  BY DEF NewestKnown, update_tokens, deployment
<1>1. /\ UNCHANGED <<backend, token, faults>> /\ job[t] # None /\ job[t].step = "tokens"
      /\ sessions \in [Sids -> Records \union {None}] /\ job \in [Threads -> Jobs \union {None}]
  BY DEF update_tokens, deployment, SessionsInv, SessionsTypeOK
<1>2. PICK j, s : j = job[t] /\ s = job[t].sid
  OBVIOUS
<1>3. s \in Sids /\ j.op # "login"
  BY <1>1, <1>2, Cookie
<1>4. sessions'[s] # None => sessions'[s].token = token[s]
  <2>1. CASE sessions' = [sessions EXCEPT ![s] = None]
    BY <1>1, <1>3, <2>1
  <2>2. CASE Live(s) /\ sessions' = [sessions EXCEPT ![s] = Renewed(sessions[s], j.grant)]
    <3>1. sessions[s] \in Records /\ j.grant = token[s]
      BY <1>1, <1>2, <1>3, <2>2 DEF Live, InMemory, CopyOK
    <3> QED BY <1>1, <1>3, <2>2, <3>1 DEF Renewed, Records
  <2> QED BY <1>2, <2>1, <2>2 DEF update_tokens
<1>5. \A q \in Sids \ {s} : sessions'[q] = sessions[q]
  BY <1>1, <1>2 DEF update_tokens
<1>6. ASSUME NEW u \in Threads, job[u] # None, job[u].sid # s PROVE job'[u] = job[u]
  <2>1. u # t
    BY <1>2, <1>6
  <2>2. CASE job' = [job EXCEPT ![t] = AfterFailedRefresh(j)]
    BY <1>1, <2>1, <2>2
  <2>3. CASE Continue(t, sessions'[s])
    BY <1>2, <1>6, <2>1, <2>3 DEF Continue
  <2> QED BY <1>2, <2>2, <2>3 DEF update_tokens
<1>7. ASSUME NEW q \in Sids PROVE NewestOK(q)'
  <2>1. CASE q = s
    BY <1>1, <1>4, <2>1 DEF NewestOK
  <2>2. CASE q # s
    <3>1. NewestOK(q)
      BY DEF NewestKnown
    <3> QED BY <1>1, <1>5, <1>6, <2>2, <3>1 DEF NewestOK, OnTheWay
  <2> QED BY <2>1, <2>2
<1> QED BY <1>7 DEF NewestKnown

\* An administrator's change leaves every token where it is.
LEMMA NewestWitnessed ==
    ASSUME SessionsInv, NewestKnown, NEW roles \in SUBSET Roles, NEW e \in BOOLEAN,
           Witness(roles, e), UNCHANGED <<backend, token, sessions, faults>>
    PROVE  NewestKnown'
<1>1. ASSUME NEW u \in Threads, job[u] # None
      PROVE  /\ job'[u] # None /\ job'[u].sid = job[u].sid
             /\ job'[u].step = job[u].step /\ job'[u].grant = job[u].grant
  <2>1. PICK j, k : j = job[u] /\ k = job'[u]
    OBVIOUS
  <2>2. CASE j.op # "call"
    BY <1>1, <2>1, <2>2 DEF Witness
  <2>3. CASE j.op = "call"
    <3>1. k = Witnessed(j, roles, e) /\ j \in Jobs
      BY <1>1, <2>1, <2>3, UnderWay DEF Witness, Witnessed
    <3>2. k \in Jobs /\ k.step = j.step /\ k.sid = j.sid /\ k.grant = j.grant
      BY <3>1, WitnessedFields
    <3> QED BY <2>1, <3>2, NoneAssumption
  <2> QED BY <2>2, <2>3
<1> QED BY <1>1, NothingStored

LEMMA NewestStep ==
    ASSUME SessionsInv, InMemory, NewestKnown, SessionsNext
    PROVE  NewestKnown'
<1> SUFFICES ASSUME backend = "memory" PROVE NewestKnown'
  BY DEF NewestKnown, SessionsNext, Request, Issue, BeginLogin, BeginRequest, Exchange, create,
         Refresh, Drop, update_tokens, Health, Enrich, update_actor_snapshot, Save, Served, Logout,
         set_actor_status, assign_actor_role, revoke_actor_role, Tick, deployment
<1>1. job \in [Threads -> Jobs \union {None}] /\ sessions \in [Sids -> Records \union {None}]
  BY DEF SessionsInv, SessionsTypeOK
<1>2. ASSUME NEW l \in Logins, Issue(l) PROVE NewestKnown'
  BY <1>2, NothingStored DEF Issue, deployment, store
<1>3. ASSUME NEW t \in Threads, NEW l \in Logins, BeginLogin(t, l) PROVE NewestKnown'
  <2>1. UNCHANGED <<backend, token, sessions, faults>> /\ job[t] = None
    BY <1>3 DEF BeginLogin, deployment, store
  <2>2. UNCHANGED job \/ \E k : job' = [job EXCEPT ![t] = k]
    BY <1>3 DEF BeginLogin, PeekState
  <2> QED BY <2>1, <2>2, NothingStored, NothingStoredBy
<1>4. ASSUME NEW t \in Threads, NEW op, NEW s \in Sids, BeginRequest(t, op, s)
      PROVE  NewestKnown'
  <2>1. UNCHANGED <<backend, token, faults>> /\ job[t] = None
    BY <1>4 DEF BeginRequest, deployment
  <2>2. /\ UNCHANGED job \/ \E k : job' = [job EXCEPT ![t] = k]
        /\ sessions' = sessions \/ sessions' = [sessions EXCEPT ![s] = None]
    BY <1>4 DEF BeginRequest, store
  <2>3. \A q \in Sids : sessions'[q] = sessions[q] \/ sessions'[q] = None
    BY <1>1, <2>2
  <2> QED BY <2>1, <2>2, <2>3, NothingStored, NothingStoredBy
<1>5. ASSUME NEW t \in Threads, create(t) PROVE NewestKnown'
  <2>1. UNCHANGED <<backend, faults>> /\ job' = [job EXCEPT ![t] = None]
        /\ job[t] # None /\ job[t].step = "create" /\ token \in [Sids -> 0 .. MaxTokens]
    BY <1>5 DEF create, deployment, Answer, SessionsInv, SessionsTypeOK
  <2>2. CASE UNCHANGED <<store, token>>
    BY <2>1, <2>2, NothingStoredBy DEF store
  <2>3. ASSUME NEW s \in Sids, token' = [token EXCEPT ![s] = 1], NEW r, r.token = 1,
               sessions' = [sessions EXCEPT ![s] = r]
        PROVE  NewestKnown'
    <3>1. ASSUME NEW q \in Sids PROVE NewestOK(q)'
      <4>1. CASE q = s
        BY <1>1, <2>1, <2>3, <4>1 DEF NewestOK
      <4>2. CASE q # s
        <5>1. sessions'[q] = sessions[q] /\ token'[q] = token[q] /\ NewestOK(q)
          BY <1>1, <2>1, <2>3, <4>2 DEF NewestKnown
        <5>2. \A u \in Threads : OnTheWay(job[u], q, token[q]) => job'[u] = job[u]
          BY <1>1, <2>1 DEF OnTheWay
        <5> QED BY <2>1, <5>1, <5>2 DEF NewestOK
      <4> QED BY <4>1, <4>2
    <3> QED BY <3>1 DEF NewestKnown
  <2>4. ASSUME NEW s \in Sids, token' = [token EXCEPT ![s] = 1],
               sessions' = [sessions EXCEPT ![s] =
                   [token |-> 1, expires_at |-> now + AccessLife,
                    refresh_expires_at |-> now + RefreshLife, role_codes |-> bindings]]
        PROVE  NewestKnown'
    <3>1. PICK r : r = [token |-> 1, expires_at |-> now + AccessLife,
                        refresh_expires_at |-> now + RefreshLife, role_codes |-> bindings]
      OBVIOUS
    <3>2. r.token = 1 /\ sessions' = [sessions EXCEPT ![s] = r]
      BY <2>4, <3>1
    <3> QED BY <2>3, <2>4, <3>2
  <2> QED BY <1>5, <2>2, <2>4 DEF create
<1>6. ASSUME NEW t \in Threads,
             Exchange(t) \/ Drop(t) \/ Health(t) \/ Enrich(t) \/ update_actor_snapshot(t) \/ Served(t)
      PROVE  NewestKnown'
  <2>1. /\ UNCHANGED <<backend, token>> /\ job[t] # None /\ job[t].step # "tokens"
    BY <1>6 DEF Exchange, Drop, Health, Enrich, update_actor_snapshot, Served, deployment
  <2>2. faults' = faults \/ Fault
    BY <1>6 DEF Exchange, Drop, Health, Enrich, update_actor_snapshot, Served
  <2>3. \E k : job' = [job EXCEPT ![t] = k]
    <3>1. CASE Exchange(t)
      BY <1>1, <3>1 DEF Exchange, Answer, Goto
    <3>2. CASE Drop(t)
      BY <3>2 DEF Drop
    <3>3. CASE Health(t)
      BY <1>1, <3>3 DEF Health, Answer, Goto
    <3>4. CASE Enrich(t)
      BY <1>1, <3>4 DEF Enrich
    <3>5. CASE update_actor_snapshot(t)
      BY <1>1, <3>5 DEF update_actor_snapshot, Resolve, Answer
    <3>6. CASE Served(t)
      BY <3>6 DEF Served, Answer
    <3> QED BY <1>6, <3>1, <3>2, <3>3, <3>4, <3>5, <3>6
  <2>4. \A q \in Sids : sessions'[q] = sessions[q] \/ sessions'[q] = None
    <3>1. CASE Exchange(t)
      BY <3>1 DEF Exchange, store
    <3>2. CASE ~Exchange(t)
      BY <1>6, <3>2, InMemoryRequest
    <3> QED BY <3>1, <3>2
  <2> QED BY <2>1, <2>2, <2>3, <2>4, FaultCounts, NothingStoredBy
<1>7. ASSUME NEW t \in Threads, Refresh(t) \/ update_tokens(t) PROVE NewestKnown'
  BY <1>7, NewestRefreshed, NewestStored
<1>8. ASSUME NEW t \in Threads, Save(t) PROVE FALSE
  BY <1>8, UnderWay DEF Save, RequestOK, StageOK
<1>9. ASSUME NEW s \in Sids, Logout(s) PROVE NewestKnown'
  <2>1. \A q \in Sids : sessions'[q] = sessions[q] \/ sessions'[q] = None
    BY <1>1, <1>9 DEF Logout
  <2> QED BY <1>9, <2>1, NothingStored DEF Logout, deployment
<1>10. ASSUME NEW value \in {"active", "disabled"}, set_actor_status(value) PROVE NewestKnown'
  <2>1. PICK none, e : none = {} /\ e = (value = "active")
    OBVIOUS
  <2>2. none \in SUBSET Roles /\ e \in BOOLEAN /\ Witness(none, e)
    BY <1>10, <2>1 DEF set_actor_status
  <2> QED BY <1>10, <2>2, NewestWitnessed DEF set_actor_status, deployment, store
<1>11. ASSUME NEW r \in Roles, assign_actor_role(r) PROVE NewestKnown'
  <2>1. PICK added, e : added = {r} /\ e = FALSE
    OBVIOUS
  <2>2. added \in SUBSET Roles /\ e \in BOOLEAN /\ Witness(added, e)
    BY <1>11, <2>1 DEF assign_actor_role
  <2> QED BY <1>11, <2>2, NewestWitnessed DEF assign_actor_role, deployment, store
<1>12. ASSUME NEW r \in Roles, revoke_actor_role(r) PROVE NewestKnown'
  BY <1>12, NothingStored DEF revoke_actor_role, deployment, store
<1>13. ASSUME Tick PROVE NewestKnown'
  BY <1>13, NothingStored DEF Tick, deployment, store
<1> QED BY <1>2, <1>3, <1>4, <1>5, <1>6, <1>7, <1>8, <1>9, <1>10, <1>11, <1>12, <1>13
        DEF SessionsNext, Request

LEMMA NewestInvariance == SessionsSpec => []NewestKnown
<1>1. SessionsInit => NewestKnown
  BY DEF SessionsInit, NewestKnown, NewestOK
<1>2. SessionsInv /\ InMemory /\ NewestKnown /\ [SessionsNext]_sessionVars => NewestKnown'
  <2>1. ASSUME NewestKnown, UNCHANGED sessionVars PROVE NewestKnown'
    BY <2>1, NothingStored DEF sessionVars
  <2> QED BY <2>1, NewestStep
<1> QED BY <1>1, <1>2, SessionsInvariance, InMemoryInvariance, PTL DEF SessionsSpec

\* A login state leaves the store unused only when it has expired.
LEMMA StatesKept ==
    ASSUME SessionsInv, SessionsNext, NEW l \in Logins, states[l] # None, states'[l] = None,
           l \notin burned'
    PROVE  ~Unexpired(l)
<1>1. states \in [Logins -> 0 .. MaxNow \union {None}]
  BY DEF SessionsInv, SessionsTypeOK
<1>2. ASSUME NEW m \in Logins, Issue(m) PROVE ~Unexpired(l)
  BY <1>1, <1>2 DEF Issue
<1>3. ASSUME NEW t \in Threads, NEW m \in Logins, BeginLogin(t, m) PROVE ~Unexpired(l)
  BY <1>1, <1>3 DEF BeginLogin, PeekState
<1>4. ASSUME NEW t \in Threads, Exchange(t) PROVE ~Unexpired(l)
  <2>1. PICK m : m = job[t].login
    OBVIOUS
  <2>2. states' = states \/ (states' = [states EXCEPT ![m] = None] /\ burned' = burned \union {m})
    BY <1>4, <2>1 DEF Exchange, login
  <2> QED BY <1>1, <2>2
<1>5. \/ \E m \in Logins : Issue(m) \/ \E t \in Threads : BeginLogin(t, m)
      \/ \E t \in Threads : Exchange(t)
      \/ states' = states
  BY DEF SessionsNext, Request, BeginRequest, create, Refresh, Drop, update_tokens, Health, Enrich,
         update_actor_snapshot, Save, Served, Logout, set_actor_status, assign_actor_role,
         revoke_actor_role, Tick, login
<1> QED BY <1>2, <1>3, <1>4, <1>5

\* What the store keeps of a session only goes forward, for any sessions, requests,
\* lifetimes and failures of the provider: with the in-process store an ended session
\* stays ended, no token goes back, and a live session is deleted for a refused token only
\* by the loser of a race or after the provider's answer was lost; a login state outlives
\* failed exchanges (the stores of auth_session.py, _handle_iaf_token of the REST entry).
THEOREM NothingGoesBack == SessionsSpec => SessionsGoForward
<1>1. SessionsInv /\ InMemory /\ [SessionsNext]_sessionVars =>
          [backend = "memory" =>
             \A s \in Sids : s \in drawn /\ sessions[s] = None => sessions'[s] = None]_sessionVars
  BY InMemoryStep
<1>2. SessionsInv /\ InMemory /\ [SessionsNext]_sessionVars =>
          [backend = "memory" =>
             \A s \in Sids : sessions[s] # None /\ sessions'[s] # None =>
                sessions[s].token <= sessions'[s].token]_sessionVars
  <2> SUFFICES ASSUME SessionsInv, InMemory, SessionsNext, backend = "memory", NEW s \in Sids,
                      sessions[s] # None, sessions'[s] # None
               PROVE  sessions[s].token <= sessions'[s].token
    OBVIOUS
  <2>1. s \in drawn /\ sessions[s] \in Records
    BY DEF SessionsInv, SessionsTypeOK
  <2>2. sessions[s].token \in Nat
    BY <2>1, LifetimesAssumption DEF Records
  <2>3. sessions'[s] = sessions[s] \/ sessions[s].token <= sessions'[s].token
    BY <2>1, InMemoryStep
  <2> QED BY <2>2, <2>3
<1>3. SessionsInv /\ InMemory /\ NewestKnown /\ [SessionsNext]_sessionVars =>
          [backend = "memory" => \A t \in Threads : Drop(t) /\ Live(job[t].sid) =>
             \/ LostRace(t)
             \/ faults > 0 /\ ~Honours(job[t].sid, sessions[job[t].sid].token)]_sessionVars
  <2> SUFFICES ASSUME SessionsInv, InMemory, NewestKnown, backend = "memory", NEW t \in Threads,
                      Drop(t), Live(job[t].sid), ~LostRace(t)
               PROVE  faults > 0 /\ ~Honours(job[t].sid, sessions[job[t].sid].token)
    OBVIOUS
  <2>1. PICK j, s : j = job[t] /\ s = job[t].sid
    OBVIOUS
  <2>2. j # None /\ j.step = "drop" /\ sessions[s] # None /\ ~j.overtaken
    BY <2>1 DEF Drop, Live, LostRace
  <2>3. j.op # "login" /\ CopyOK(j) /\ s \in Sids
    BY <2>1, <2>2, Cookie DEF InMemory
  <2>4. j.held.token \in Nat /\ token[s] \in Nat /\ j.held.token < token[s]
        /\ sessions[s].token = j.held.token
    BY <2>1, <2>2, <2>3, Numbers DEF CopyOK
  <2>5. NewestOK(s)
    BY <2>3 DEF NewestKnown
  <2>6. ASSUME NEW u \in Threads, OnTheWay(job[u], s, token[s]) PROVE FALSE
    BY <2>1, <2>2, <2>4, <2>6 DEF OnTheWay, LostRace
  <2>7. faults > 0
    BY <2>2, <2>4, <2>5, <2>6 DEF NewestOK
  <2> QED BY <2>1, <2>4, <2>7 DEF Honours
<1>4. SessionsInv /\ InMemory /\ [SessionsNext]_sessionVars =>
          [\A l \in Logins : states[l] # None /\ states'[l] = None /\ l \notin burned' =>
             ~Unexpired(l)]_sessionVars
  BY StatesKept
<1> QED BY <1>1, <1>2, <1>3, <1>4, SessionsInvariance, InMemoryInvariance, NewestInvariance, PTL
        DEF SessionsSpec, SessionsGoForward, EndedStaysEnded, TokensGoForward, RefusedForCause,
            StateOutlivesFailures
=============================================================================
