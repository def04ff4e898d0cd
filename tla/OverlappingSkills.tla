-------------------------- MODULE OverlappingSkills --------------------------
(***************************************************************************)
(* Skills on the applications for one conditional resource when requests   *)
(* overlap.  Most of them look at the tables first and write later, under  *)
(* the write lock, what they decided then: _create_request, _submit_request*)
(* (zw_brain/command/handlers/j1/request.py), platform_decide,             *)
(* dept_approve, applicant_resubmit (domain/services/                      *)
(* conditional_approval.py), _issue_credential (handlers/j1/credential.py) *)
(* and grant_delivery_access (command/brain.py).  For those, one action is *)
(* the check and one the mutation with the flush that ends its bracket;    *)
(* suspending and revoking look the card up inside the bracket and are one *)
(* action.                                                                 *)
(*                                                                         *)
(* Who may decide is in ApplicationLifecycle, how a flush can lose a card  *)
(* in WritePipeline; here every flush writes.                              *)
(***************************************************************************)
EXTENDS Integers

CONSTANTS
    Apps,            \* application codes
    Threads,         \* requests in flight at once
    Idle,            \* no job
    NoApp,
    MaxRounds,       \* bound on resubmissions of an application
    MaxFaults        \* bound on brackets that end between step and flush

ASSUME RoundsAssumption == MaxRounds \in Nat \ {0}
ASSUME FaultsAssumption == MaxFaults \in Nat
ASSUME NoAppAssumption == NoApp \notin Apps

Statuses == {"none", "draft", "submitted", "dept_approved", "rejected", "granted",
             "suspended", "revoked"}

Decisions == {"platform_decide", "dept_approve"}

Ops == Decisions \union {"create_request", "submit_request", "applicant_resubmit",
                         "issue_credential", "grant_delivery_access"}

\* What the caller asks for: a draft or a direct submission, a verdict, a
\* reissue; nothing to choose elsewhere.
Choices(op) ==
    CASE op = "create_request" -> {"draft", "submitted"}
      [] op \in Decisions -> {"approve", "reject"}
      [] op = "issue_credential" -> {"issue", "reissue"}
      [] OTHER -> {"none"}

AllChoices == {"draft", "submitted", "approve", "reject", "issue", "reissue", "none"}

Credentials == {"none", "first", "reissued"}

\* round and credential are what the check read and the mutation goes by.
Jobs == [op : Ops, app : Apps \union {NoApp}, choice : AllChoices,
         round : 1 .. MaxRounds, credential : Credentials]

ASSUME IdleAssumption == Idle \notin Jobs

VARIABLES
    status,          \* application_record.status
    round,           \* payload_json.round
    steps,           \* approval_step rows of each application
    task,            \* delivery_task.state
    credential,      \* accessGrantSnapshot: none, signed from seed None, or reissued
    revoked,         \* grant.revoked
    job,             \* what each thread has checked and not yet written
    reissueAsked,    \* history: the applications somebody asked to reissue
    faults

recordVars == <<status, round, steps, task, credential, revoked>>
vars == <<status, round, steps, task, credential, revoked, job, reissueAsked, faults>>

Init ==
    /\ status = [a \in Apps |-> "none"]
    /\ round = [a \in Apps |-> 1]
    /\ steps = [a \in Apps |-> {}]
    /\ task = [a \in Apps |-> "none"]
    /\ credential = [a \in Apps |-> "none"]
    /\ revoked = {}
    /\ job = [t \in Threads |-> Idle]
    /\ reissueAsked = {}
    /\ faults = 0

-----------------------------------------------------------------------------
(* The checks                                                              *)

\* A draft would be handed back, an application in process refused.
NoneOpen == \A a \in Apps : status[a] \notin {"draft", "submitted"}

Reviewable(a) == status[a] = "dept_approved"

\* Mutant: an accepted application gets its credential.
IssuableEarly(a, choice) ==
    /\ status[a] \in {"dept_approved", "granted"}
    /\ credential[a] = "none" \/ choice = "reissue"

Issuable(a, choice) ==
    /\ status[a] = "granted"
    /\ credential[a] = "none" \/ choice = "reissue"

\* What each skill asks of its application before it writes.
Allows(op, a, choice) ==
    CASE op = "submit_request" -> status[a] = "draft"
      [] op = "platform_decide" -> status[a] = "submitted"
      [] op = "dept_approve" -> Reviewable(a)
      [] op = "applicant_resubmit" -> status[a] = "rejected"
      [] op = "issue_credential" -> Issuable(a, choice)
      [] OTHER -> task[a] = "pending" /\ status[a] \notin {"rejected", "revoked"}

\* _create_request up to deps.write.
CheckCreate(t, choice) ==
    /\ job[t] = Idle
    /\ NoneOpen
    /\ \E a \in Apps : status[a] = "none"
    /\ job' = [job EXCEPT ![t] = [op |-> "create_request", app |-> NoApp, choice |-> choice,
                                  round |-> 1, credential |-> "none"]]
    /\ UNCHANGED <<recordVars, reissueAsked, faults>>

\* The other skills up to their bracket.
Check(t, op, a, choice) ==
    /\ job[t] = Idle
    /\ Allows(op, a, choice)
    /\ op = "applicant_resubmit" => round[a] < MaxRounds
    /\ job' = [job EXCEPT ![t] = [op |-> op, app |-> a, choice |-> choice,
                                  round |-> round[a], credential |-> credential[a]]]
    /\ reissueAsked' = IF choice = "reissue" THEN reissueAsked \union {a} ELSE reissueAsked
    /\ UNCHANGED <<recordVars, faults>>

-----------------------------------------------------------------------------
(* The mutations, under the write lock                                     *)

Done(t) == job' = [job EXCEPT ![t] = Idle]

\* append_conditional_step, in a transaction of its own.
AppendStep(j) == steps' = [steps EXCEPT ![j.app] = @ \union {<<j.op, j.choice>>}]

CommitCreate(t) ==
    /\ job[t] # Idle
    /\ job[t].op = "create_request"
    /\ \E a \in Apps :
        /\ status[a] = "none"
        /\ status' = [status EXCEPT ![a] = job[t].choice]
        /\ task' = [task EXCEPT ![a] = "pending"]
    /\ Done(t)
    /\ UNCHANGED <<round, steps, credential, revoked, reissueAsked, faults>>

CommitSubmit(t) ==
    /\ job[t] # Idle
    /\ job[t].op = "submit_request"
    /\ status' = [status EXCEPT ![job[t].app] = "submitted"]
    /\ task' = [task EXCEPT ![job[t].app] = "pending"]
    /\ Done(t)
    /\ UNCHANGED <<round, steps, credential, revoked, reissueAsked, faults>>

\* What a decision or a resubmission makes of the application.
Target(j) ==
    CASE j.op = "applicant_resubmit" -> "submitted"
      [] j.op \in Decisions /\ j.choice = "reject" -> "rejected"
      [] j.op = "platform_decide" /\ j.choice = "approve" -> "dept_approved"
      [] j.op = "dept_approve" /\ j.choice = "approve" -> "granted"

\* _persist_payload writes status and payload as the check made them.
PersistPayload(j) ==
    /\ status' = [status EXCEPT ![j.app] = Target(j)]
    /\ round' = [round EXCEPT ![j.app] =
                    IF j.op = "applicant_resubmit" THEN j.round + 1 ELSE j.round]

CommitDecision(t) ==
    /\ job[t] # Idle
    /\ job[t].op \in Decisions
    /\ AppendStep(job[t])
    /\ PersistPayload(job[t])
    /\ Done(t)
    /\ UNCHANGED <<task, credential, revoked, reissueAsked, faults>>

\* The step stays when the flush fails or the process dies.
CommitBreaks(t) ==
    /\ job[t] # Idle
    /\ job[t].op \in Decisions
    /\ faults < MaxFaults
    /\ AppendStep(job[t])
    /\ Done(t)
    /\ faults' = faults + 1
    /\ UNCHANGED <<status, round, task, credential, revoked, reissueAsked>>

CommitResubmit(t) ==
    /\ job[t] # Idle
    /\ job[t].op = "applicant_resubmit"
    /\ PersistPayload(job[t])
    /\ Done(t)
    /\ UNCHANGED <<steps, task, credential, revoked, reissueAsked, faults>>

\* The seed is None if the check found no credential, else the audit id.
Signed(j) == IF j.credential = "none" THEN "first" ELSE "reissued"

CommitIssue(t) ==
    /\ job[t] # Idle
    /\ job[t].op = "issue_credential"
    /\ credential' = [credential EXCEPT ![job[t].app] = Signed(job[t])]
    /\ Done(t)
    /\ UNCHANGED <<status, round, steps, task, revoked, reissueAsked, faults>>

CommitGrant(t) ==
    /\ job[t] # Idle
    /\ job[t].op = "grant_delivery_access"
    /\ task' = [task EXCEPT ![job[t].app] = "completed"]
    /\ Done(t)
    /\ UNCHANGED <<status, round, steps, credential, revoked, reissueAsked, faults>>

\* A missing confirmation, a failed "before" event.
Abandon(t) ==
    /\ job[t] # Idle
    /\ Done(t)
    /\ UNCHANGED <<recordVars, reissueAsked, faults>>

\* application.grant.suspend and application.grant.revoke.
Withdraw(a, to) ==
    /\ status[a] \notin {"none", "revoked"}
    /\ a \notin revoked
    /\ status' = [status EXCEPT ![a] = to]
    /\ revoked' = IF to = "revoked" THEN revoked \union {a} ELSE revoked
    /\ UNCHANGED <<round, steps, task, credential, job, reissueAsked, faults>>

Next ==
    \/ \E t \in Threads :
        \/ \E choice \in Choices("create_request") : CheckCreate(t, choice)
        \/ \E op \in Ops \ {"create_request"}, a \in Apps :
              \E choice \in Choices(op) : Check(t, op, a, choice)
        \/ CommitCreate(t) \/ CommitSubmit(t) \/ CommitDecision(t) \/ CommitBreaks(t)
        \/ CommitResubmit(t) \/ CommitIssue(t) \/ CommitGrant(t) \/ Abandon(t)
    \/ \E a \in Apps, to \in {"suspended", "revoked"} : Withdraw(a, to)

Spec == Init /\ [][Next]_vars

-----------------------------------------------------------------------------
\* The values the variables take.
TypeOK ==
    /\ status \in [Apps -> Statuses]
    /\ round \in [Apps -> 1 .. MaxRounds]
    /\ steps \in [Apps -> SUBSET (Decisions \X {"approve", "reject"})]
    /\ task \in [Apps -> {"none", "pending", "completed"}]
    /\ credential \in [Apps -> Credentials]
    /\ revoked \subseteq Apps
    /\ job \in [Threads -> Jobs \union {Idle}]
    /\ reissueAsked \subseteq Apps
    /\ faults \in 0 .. MaxFaults

\* However requests overlap and fail: what was granted has an accepting step
\* and an approving department step on record.
GrantedHasBothSteps ==
    \A a \in Apps :
        status[a] = "granted"
        => /\ <<"platform_decide", "approve">> \in steps[a]
           /\ <<"dept_approve", "approve">> \in steps[a]

\* As long as nobody asks for a reissue, every credential.issue, overlapping
\* ones included, signs the same credential.
OneSecretUntilReissue ==
    \A a \in Apps : credential[a] = "reissued" => a \in reissueAsked

\* A credential belongs to an application that was accepted and reviewed, also
\* when it was withdrawn between the check and the signature.
SignedAfterReview ==
    \A a \in Apps :
        credential[a] # "none" => <<"dept_approve", "approve">> \in steps[a]

\* A credential is signed only after the department's approval, and signed anew
\* only when a caller asked for it, however the checks of two requests interleave
\* (_issue_credential).
CredentialsInOrder == SignedAfterReview /\ OneSecretUntilReissue

\* A grant stands on an acceptance and a department's approval on record and a
\* credential on the review, whichever skills pass their checks at the same time (_dept_approve,
\* _issue_credential).
GrantsInOrder == GrantedHasBothSteps /\ CredentialsInOrder

\* The resource has one draft: _create_request hands an existing one back, so
\* that pressing "apply" again makes no second one, as the comment on it says.
\* It is violated: two requests look for the draft before either writes its own.
OneDraftPerResource ==
    \A a, b \in Apps : status[a] = "draft" /\ status[b] = "draft" => a = b
=============================================================================
