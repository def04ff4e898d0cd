------------------------ MODULE ApplicationLifecycle ------------------------
(***************************************************************************)
(* The life of a runtime application for a shared resource: the request    *)
(* card (application_record), its delivery task and its credential, and    *)
(* every skill that changes their state (zw_brain/command/handlers/j1 and  *)
(* zw_brain/domain/services).  One action is one whole skill, the          *)
(* credential an approval issues on its way out included; skills run one   *)
(* after the other here (overlapping ones are the subject of               *)
(* OverlappingSkills and WritePipeline).                                   *)
(*                                                                         *)
(* A resource is shared with conditions or without.  Without, one review   *)
(* decides; with conditions, acceptance and a department review do.        *)
(***************************************************************************)
EXTENDS Integers, FiniteSets

CONSTANTS
    Apps,            \* application codes
    Resources,
    Conditional,     \* the resources with shared_type = 2
    Users,
    Orgs,
    Org,             \* the org of a user
    Owner,           \* the org that provides a resource
    Managers,        \* the users with ROLE_ORGAN_MANAGER
    Nobody,          \* no user
    NoResource,
    MaxRounds        \* bound on resubmissions of an application

ASSUME ConditionalAssumption == Conditional \subseteq Resources
ASSUME OrgAssumption == Org \in [Users -> Orgs] /\ Owner \in [Resources -> Orgs]
ASSUME ManagersAssumption == Managers \subseteq Users
ASSUME NobodyAssumption == Nobody \notin Users
ASSUME NoResourceAssumption == NoResource \notin Resources
ASSUME MaxRoundsAssumption == MaxRounds \in Nat \ {0}

Statuses == {"none", "draft", "pending", "submitted", "dept_approved", "granted",
             "rejected", "need-fix", "supplementing", "summary-pending", "completed",
             "pending-provider-confirmation", "suspended", "revoked", "dispatched"}

TaskStates == {"none", "pending", "warning", "supplementing", "reconciling",
               "completed", "blocked", "granted", "replaced", "cancelled"}

Decisions == {"approve_reuse", "approve_with_supplement", "return_for_fix",
              "reject_duplicate", "route_to_provider_or_catalog_admin"}

Approvals == {"approve_reuse", "approve_with_supplement"}

Verdicts == {"none", "approve", "reject"}

VARIABLES
    status,          \* application_record.status
    resource,        \* resourceId
    applicant,
    round,           \* submissions of the application
    decision,        \* r2_review: the decision of the one-step review
    accepted,        \* platform_decision, first level
    reviewed,        \* dept_decision, second level
    reviewer,        \* who made it
    revokedBy,       \* grant.initiated_by
    task,            \* delivery_task.state
    receipt,         \* receiptStatus of the task
    backflow,        \* backflow.status of the task
    summarised,      \* summaryConfirmed of the task
    credential,      \* accessGrantSnapshot: not issued, first seed, reissued
    submitted        \* history: applications that ever were submitted

cardVars == <<resource, applicant, round>>
decisionVars == <<decision, accepted, reviewed, reviewer>>
taskVars == <<task, receipt, backflow, summarised>>
vars == <<status, resource, applicant, round, decision, accepted, reviewed, reviewer,
          revokedBy, task, receipt, backflow, summarised, credential, submitted>>

Set(f, a, v) == [f EXCEPT ![a] = v]

IsConditional(a) == resource[a] \in Conditional

Exists(a) == status[a] # "none"

\* The statuses that keep _create_request from opening another application.
InProcess == {"pending", "submitted", "supplementing", "summary-pending"}

\* The entry status of a submitted application.
EntryStatus(r) == IF r \in Conditional THEN "submitted" ELSE "pending"

Init ==
    /\ status = [a \in Apps |-> "none"]
    /\ resource = [a \in Apps |-> NoResource]
    /\ applicant = [a \in Apps |-> Nobody]
    /\ round = [a \in Apps |-> 1]
    /\ decision = [a \in Apps |-> "none"]
    /\ accepted = [a \in Apps |-> "none"]
    /\ reviewed = [a \in Apps |-> "none"]
    /\ reviewer = [a \in Apps |-> Nobody]
    /\ revokedBy = [a \in Apps |-> "none"]
    /\ task = [a \in Apps |-> "none"]
    /\ receipt = [a \in Apps |-> "none"]
    /\ backflow = [a \in Apps |-> "open"]
    /\ summarised = [a \in Apps |-> FALSE]
    /\ credential = [a \in Apps |-> "none"]
    /\ submitted = {}

-----------------------------------------------------------------------------
(* request.create and application.resource.submit, request.submit          *)

DraftOf(r) == {a \in Apps : resource[a] = r /\ status[a] = "draft"}

InProcessOf(r) == {a \in Apps : resource[a] = r /\ status[a] \in InProcess}

\* The new card: a draft, or the entry status of a direct submission.
AddRequest(a, r, u, as_draft) ==
    /\ status' = Set(status, a, IF as_draft THEN "draft" ELSE EntryStatus(r))
    /\ resource' = Set(resource, a, r)
    /\ applicant' = Set(applicant, a, u)
    /\ submitted' = IF as_draft THEN submitted ELSE submitted \union {a}

\* The delivery task that comes with it.
AddDelivery(a) ==
    /\ task' = Set(task, a, "pending")
    /\ UNCHANGED <<receipt, backflow, summarised>>

\* An existing draft is handed back unchanged, an application in process is
\* refused; a new application comes with its delivery task.
create_request(a, r, u, as_draft) ==
    /\ status[a] = "none"
    /\ DraftOf(r) = {}
    /\ InProcessOf(r) = {}
    /\ AddRequest(a, r, u, as_draft)
    /\ AddDelivery(a)
    /\ UNCHANGED <<round, decisionVars, revokedBy, credential>>

submit_request(a) ==
    /\ status[a] \in {"draft", "need-fix"}
    /\ status' = Set(status, a, EntryStatus(resource[a]))
    /\ task' = Set(task, a, IF status[a] = "draft" THEN "pending" ELSE "warning")
    /\ submitted' = submitted \union {a}
    /\ UNCHANGED <<cardVars, decisionVars, revokedBy, receipt, backflow, summarised, credential>>

-----------------------------------------------------------------------------
(* Approval                                                                *)

\* _auto_issue_credential_on_approval: a dispatch of credential.issue after
\* the approval is saved; an issued credential is left alone, and a failure
\* leaves the approval without a credential.
AutoIssue(a) ==
    credential' \in {credential,
                     IF credential[a] = "none" THEN Set(credential, a, "first") ELSE credential}

StatusAfter(d) ==
    CASE d = "approve_reuse" -> "granted"
      [] d = "approve_with_supplement" -> "supplementing"
      [] d = "return_for_fix" -> "need-fix"
      [] d = "reject_duplicate" -> "rejected"
      [] OTHER -> "pending-provider-confirmation"

TaskAfter(d) ==
    CASE d = "approve_reuse" -> "granted"
      [] d = "approve_with_supplement" -> "supplementing"
      [] OTHER -> "blocked"

\* The decision is written and, if it approves, the credential issued.
RecordReview(a, d) ==
    /\ status' = Set(status, a, StatusAfter(d))
    /\ task' = Set(task, a, TaskAfter(d))
    /\ decision' = Set(decision, a, d)
    /\ IF d \in Approvals THEN AutoIssue(a) ELSE UNCHANGED credential
    /\ UNCHANGED <<cardVars, accepted, reviewed, reviewer, revokedBy, receipt, backflow,
                   summarised, submitted>>

\* Mutant: the one-step review takes conditional applications too.
ReviewConditional(a, d) ==
    /\ Exists(a)
    /\ status[a] = "pending" \/ decision[a] = "none"
    /\ RecordReview(a, d)

\* Refused for conditional sharing, and when a decision is on record and the
\* application is not pending.
review_application_record(a, d) ==
    /\ Exists(a)
    /\ ~IsConditional(a)
    /\ status[a] = "pending" \/ decision[a] = "none"
    /\ RecordReview(a, d)

\* First level: acceptance.
platform_decide(a, v) ==
    /\ status[a] = "submitted"
    /\ status' = Set(status, a, IF v = "approve" THEN "dept_approved" ELSE "rejected")
    /\ accepted' = Set(accepted, a, v)
    /\ UNCHANGED <<cardVars, decision, reviewed, reviewer, revokedBy, taskVars, credential,
                   submitted>>

\* A manager of the providing org who is not the applicant.
MayReview(a, u) ==
    /\ u \in Managers
    /\ u # applicant[a]
    /\ Org[u] = Owner[resource[a]]

\* The final decision is written and, if it approves, the credential issued.
RecordDeptReview(a, u, v) ==
    /\ status' = Set(status, a, IF v = "approve" THEN "granted" ELSE "rejected")
    /\ reviewed' = Set(reviewed, a, v)
    /\ reviewer' = Set(reviewer, a, u)
    /\ IF v = "approve" THEN AutoIssue(a) ELSE UNCHANGED credential
    /\ UNCHANGED <<cardVars, decision, accepted, revokedBy, taskVars, submitted>>

\* Mutant: acceptance is not waited for.
DeptApproveSubmitted(a, u, v) ==
    /\ status[a] \in {"submitted", "dept_approved"}
    /\ MayReview(a, u)
    /\ RecordDeptReview(a, u, v)

\* Second level: the department review.
dept_approve(a, u, v) ==
    /\ status[a] = "dept_approved"
    /\ MayReview(a, u)
    /\ RecordDeptReview(a, u, v)

\* Anyone of the applicant's org starts the next round.
applicant_resubmit(a, u) ==
    /\ status[a] = "rejected"
    /\ Org[u] = Org[applicant[a]]
    /\ round[a] < MaxRounds
    /\ status' = Set(status, a, "submitted")
    /\ round' = Set(round, a, round[a] + 1)
    /\ UNCHANGED <<resource, applicant, decisionVars, revokedBy, taskVars, credential, submitted>>

-----------------------------------------------------------------------------
(* Requirement intake: dispatch, supplement, summary, backflow             *)

\* No status is refused.
dispatch_require_resource(a) ==
    /\ Exists(a)
    /\ status' = Set(status, a, "dispatched")
    /\ UNCHANGED <<cardVars, decisionVars, revokedBy, taskVars, credential, submitted>>

submit_supplement(a) ==
    /\ status[a] = "supplementing"
    /\ status' = Set(status, a, "summary-pending")
    /\ task' = Set(task, a, "reconciling")
    /\ backflow' = Set(backflow, a, "candidate")
    /\ UNCHANGED <<cardVars, decisionVars, revokedBy, receipt, summarised, credential, submitted>>

confirm_summary(a) ==
    /\ status[a] = "summary-pending"
    /\ status' = Set(status, a, "completed")
    /\ task' = Set(task, a, "reconciling")
    /\ backflow' = Set(backflow, a, "candidate")
    /\ summarised' = Set(summarised, a, TRUE)
    /\ UNCHANGED <<cardVars, decisionVars, revokedBy, receipt, credential, submitted>>

confirm_backflow(a) ==
    /\ status[a] = "completed"
    /\ receipt[a] = "reconciled"
    /\ backflow[a] # "confirmed"
    /\ task' = Set(task, a, "completed")
    /\ backflow' = Set(backflow, a, "confirmed")
    /\ UNCHANGED <<status, cardVars, decisionVars, revokedBy, receipt, summarised, credential,
                   submitted>>

-----------------------------------------------------------------------------
(* Grant and delivery                                                      *)

\* The task must be open and the application not withdrawn, rejected or
\* revoked.
grant_delivery_access(a) ==
    /\ task[a] \in {"pending", "warning", "reconciling", "supplementing"}
    /\ status[a] \notin {"rejected", "revoked"}
    /\ task' = Set(task, a, "completed")
    /\ receipt' = IF receipt[a] = "none" THEN Set(receipt, a, "granted") ELSE receipt
    /\ UNCHANGED <<status, cardVars, decisionVars, revokedBy, backflow, summarised, credential,
                   submitted>>

\* application.grant.approve with reject or return_for_fix.
refuse_delivery_access(a) ==
    /\ Exists(a)
    /\ task' = Set(task, a, "warning")
    /\ UNCHANGED <<status, cardVars, decisionVars, revokedBy, receipt, backflow, summarised,
                   credential, submitted>>

suspend_application_grant(a) ==
    /\ Exists(a)
    /\ revokedBy[a] = "none"
    /\ status' = Set(status, a, "suspended")
    /\ UNCHANGED <<cardVars, decisionVars, revokedBy, taskVars, credential, submitted>>

\* By the operator on duty, or by the applicant.
revoke_application_grant(a, by) ==
    /\ Exists(a)
    /\ revokedBy[a] = "none"
    /\ status' = Set(status, a, "revoked")
    /\ revokedBy' = Set(revokedBy, a, by)
    /\ UNCHANGED <<cardVars, decisionVars, taskVars, credential, submitted>>

\* The statuses credential.issue takes for approved; "approved" and
\* "in_delivery" are on its list and no runtime application gets them.
IssuableStatuses == {"supplementing", "summary-pending", "completed", "granted"}

\* Mutant: an application that passed the first level counts as approved.
IssueOnAcceptance(a, reissue) ==
    /\ status[a] \in IssuableStatuses \union {"dept_approved"}
    /\ credential[a] = "none" \/ reissue
    /\ credential' = Set(credential, a, IF credential[a] = "none" THEN "first" ELSE "reissued")
    /\ UNCHANGED <<status, cardVars, decisionVars, revokedBy, taskVars, submitted>>

\* An issued credential is handed back unless a new one is asked for.
issue_credential(a, reissue) ==
    /\ status[a] \in IssuableStatuses
    /\ credential[a] = "none" \/ reissue
    /\ credential' = Set(credential, a, IF credential[a] = "none" THEN "first" ELSE "reissued")
    /\ UNCHANGED <<status, cardVars, decisionVars, revokedBy, taskVars, submitted>>

\* The receipt status is the sender's.
ingest_delivery_receipt(a, s) ==
    /\ Exists(a)
    /\ receipt' = Set(receipt, a, s)
    /\ UNCHANGED <<status, cardVars, decisionVars, revokedBy, task, backflow, summarised,
                   credential, submitted>>

reconcile_delivery_receipt(a) ==
    /\ Exists(a)
    /\ receipt[a] # "reconciled"
    /\ receipt' = Set(receipt, a, "reconciled")
    /\ UNCHANGED <<status, cardVars, decisionVars, revokedBy, task, backflow, summarised,
                   credential, submitted>>

replace_or_cancel_delivery(a, new_state) ==
    /\ Exists(a)
    /\ task' = Set(task, a, new_state)
    /\ UNCHANGED <<status, cardVars, decisionVars, revokedBy, receipt, backflow, summarised,
                   credential, submitted>>

-----------------------------------------------------------------------------
Apply(a) ==
    \/ \E r \in Resources, u \in Users, as_draft \in BOOLEAN : create_request(a, r, u, as_draft)
    \/ submit_request(a)
    \/ \E u \in Users : applicant_resubmit(a, u)

Decide(a) ==
    \/ \E d \in Decisions : review_application_record(a, d)
    \/ \E v \in Verdicts \ {"none"} : platform_decide(a, v)
    \/ \E u \in Users, v \in Verdicts \ {"none"} : dept_approve(a, u, v)

Supply(a) ==
    \/ dispatch_require_resource(a)
    \/ submit_supplement(a)
    \/ confirm_summary(a)
    \/ confirm_backflow(a)

Deliver(a) ==
    \/ grant_delivery_access(a)
    \/ refuse_delivery_access(a)
    \/ \E s \in {"reconciled", "received"} : ingest_delivery_receipt(a, s)
    \/ reconcile_delivery_receipt(a)
    \/ \E s \in {"replaced", "cancelled"} : replace_or_cancel_delivery(a, s)

Authorise(a) ==
    \/ suspend_application_grant(a)
    \/ \E by \in {"applicant", "busiaudit"} : revoke_application_grant(a, by)
    \/ \E reissue \in BOOLEAN : issue_credential(a, reissue)

Next == \E a \in Apps : Apply(a) \/ Decide(a) \/ Supply(a) \/ Deliver(a) \/ Authorise(a)

Spec == Init /\ [][Next]_vars

-----------------------------------------------------------------------------
\* The values the variables take.
TypeOK ==
    /\ status \in [Apps -> Statuses]
    /\ resource \in [Apps -> Resources \union {NoResource}]
    /\ applicant \in [Apps -> Users \union {Nobody}]
    /\ round \in [Apps -> 1 .. MaxRounds]
    /\ decision \in [Apps -> Decisions \union {"none"}]
    /\ accepted \in [Apps -> Verdicts]
    /\ reviewed \in [Apps -> Verdicts]
    /\ reviewer \in [Apps -> Users \union {Nobody}]
    /\ revokedBy \in [Apps -> {"none", "applicant", "busiaudit"}]
    /\ task \in [Apps -> TaskStates]
    /\ receipt \in [Apps -> {"none", "granted", "received", "reconciled"}]
    /\ backflow \in [Apps -> {"open", "candidate", "confirmed"}]
    /\ summarised \in [Apps -> BOOLEAN]
    /\ credential \in [Apps -> {"none", "first", "reissued"}]
    /\ submitted \subseteq Apps

\* Both levels said yes, the second by a manager of the providing org who is
\* not the applicant.
TwoLevels(a) ==
    /\ accepted[a] = "approve"
    /\ reviewed[a] = "approve"
    /\ MayReview(a, reviewer[a])

\* The decision that lets an application through is on record.
Approved(a) == (~IsConditional(a) /\ decision[a] \in Approvals) \/ TwoLevels(a)

\* An application that counts as approved was approved the way its resource
\* asks for: no run of submissions, reviews, dispatches and suspensions gets
\* a conditional one past the two levels.
ApprovedByTheBook ==
    \A a \in Apps : status[a] \in IssuableStatuses => Approved(a)

\* A credential is issued only for an application whose approval is on
\* record, and the record stays as long as the credential.
CredentialAfterApproval ==
    \A a \in Apps : credential[a] # "none" => Approved(a)

\* A template is fed back only from an application that was approved with a
\* supplement, supplemented and summarised.
BackflowAfterSummary ==
    \A a \in Apps :
        backflow[a] = "confirmed" => summarised[a] /\ decision[a] = "approve_with_supplement"

\* Where a conditional application stands in the two-level flow.
Lane(a) ==
    IF IsConditional(a) /\ status[a] \in {"submitted", "dept_approved", "rejected", "granted"}
    THEN status[a]
    ELSE "outside"

Flow == INSTANCE ConditionalFlow WITH
    lane <- [a \in Apps |-> Lane(a)],
    entered <- {a \in submitted : IsConditional(a)}

\* A conditional application keeps to the two-level flow whatever skills are
\* called in whatever order: acceptance, then the department review, a new
\* round after a rejection, and no way back in once it was withdrawn.
KeepsConditionalFlow == Flow!Spec
=============================================================================
