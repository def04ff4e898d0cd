----------------------- MODULE OverlappingSkillsProofs -----------------------
(***************************************************************************)
(* Machine-checked proofs about the conditional approval flow: first       *)
(* OverlappingSkills, for any set of applications and threads, any number  *)
(* of resubmissions and of brackets that break; then ApprovalRecords, the  *)
(* file every review leaves behind, and DeliveryRecords, the trail of the  *)
(* delivery skills, for any codes, reviewers, receipts and bounds; last    *)
(* FormFill, the form itself, for any reference data and answers.          *)
(***************************************************************************)
EXTENDS OverlappingSkills, ApprovalRecords, DeliveryRecords, FormFill, TLAPS

Accepted == <<"platform_decide", "approve">>
Approved == <<"dept_approve", "approve">>

-----------------------------------------------------------------------------
(* The inductive invariant.                                                *)

\* What the check of a skill found stays true of the tables until its write: the
\* steps it relied on are still there, a credential it saw had been asked for.
JobKept(j) ==
    /\ j.op # "create_request" => j.app \in Apps
    /\ j.op = "create_request" => j.choice \in {"draft", "submitted"}
    /\ j.op \in Decisions => j.choice \in {"approve", "reject"}
    /\ j.op = "applicant_resubmit" => j.round < MaxRounds
    /\ j.op = "dept_approve" => Accepted \in steps[j.app]
    /\ j.op = "issue_credential" =>
          /\ Approved \in steps[j.app]
          /\ j.credential # "none" => j.app \in reissueAsked

JobsKept == \A t \in Threads : job[t] # Idle => JobKept(job[t])

\* An application the department may review was accepted.
ReviewableAccepted == \A a \in Apps : status[a] = "dept_approved" => Accepted \in steps[a]

IInv ==
    /\ TypeOK
    /\ JobsKept
    /\ ReviewableAccepted
    /\ GrantedHasBothSteps
    /\ CredentialsInOrder

-----------------------------------------------------------------------------
\* A thread that ends its bracket is idle, the others keep what they checked.
LEMMA DoneKeeps ==
    ASSUME TypeOK, NEW t \in Threads, Done(t)
    PROVE  /\ job' \in [Threads -> Jobs \union {Idle}]
           /\ \A u \in Threads : job'[u] # Idle => job'[u] = job[u]
  BY DEF TypeOK, Done

\* Rows are only added to the tables a check relied on, so what it found
\* holds until the write.
LEMMA KeptWhileRowsGrow ==
    ASSUME JobsKept,
           \A a \in Apps : steps[a] \subseteq steps'[a],
           reissueAsked \subseteq reissueAsked',
           \A u \in Threads : job'[u] # Idle => job'[u] = job[u]
    PROVE  JobsKept'
<1> SUFFICES ASSUME NEW u \in Threads, job'[u] # Idle
             PROVE  JobKept(job[u])'
  BY DEF JobsKept
<1>1. JobKept(job[u]) /\ job'[u] = job[u]
  BY DEF JobsKept
<1>. QED  BY <1>1 DEF JobKept

\* The fields of a job in flight.
LEMMA JobFields ==
    ASSUME TypeOK, JobsKept, NEW t \in Threads, job[t] # Idle
    PROVE  /\ job[t] \in Jobs /\ JobKept(job[t])
           /\ job[t].op \in Ops /\ job[t].choice \in AllChoices
           /\ job[t].round \in 1 .. MaxRounds /\ job[t].credential \in Credentials
           /\ job[t].op # "create_request" => job[t].app \in Apps
<1>1. job[t] \in Jobs /\ JobKept(job[t])
  BY DEF TypeOK, JobsKept
<1>. QED  BY <1>1 DEF Jobs, JobKept

\* A step that adds no step row, credential or approved status keeps the three
\* facts about applications.
LEMMA AppsKeptWhile ==
    ASSUME ReviewableAccepted, GrantedHasBothSteps, CredentialsInOrder,
           \A a \in Apps : steps[a] \subseteq steps'[a],
           reissueAsked \subseteq reissueAsked',
           credential' = credential,
           \A a \in Apps : status'[a] \in {"dept_approved", "granted"}
                           => status'[a] = status[a]
    PROVE  ReviewableAccepted' /\ GrantedHasBothSteps' /\ CredentialsInOrder'
<1> USE DEF Accepted, Approved
<1>1. ReviewableAccepted'
  BY DEF ReviewableAccepted
<1>2. GrantedHasBothSteps'
  BY DEF GrantedHasBothSteps
<1>3. CredentialsInOrder'
  BY DEF CredentialsInOrder, SignedAfterReview, OneSecretUntilReissue
<1>. QED  BY <1>1, <1>2, <1>3

-----------------------------------------------------------------------------
\* The tables start empty and no thread is on a request.
LEMMA InitInv == Init => IInv
  BY RoundsAssumption, FaultsAssumption
     DEF Init, IInv, TypeOK, JobsKept, ReviewableAccepted, GrantedHasBothSteps,
         CredentialsInOrder, SignedAfterReview, OneSecretUntilReissue, Statuses, Credentials

\* A check writes nothing, and its job says what it found.
LEMMA CheckStep ==
    ASSUME IInv, NEW t \in Threads, NEW op \in Ops \ {"create_request"}, NEW a \in Apps,
           NEW choice \in Choices(op), Check(t, op, a, choice)
    PROVE  IInv'
<1> DEFINE j == [op |-> op, app |-> a, choice |-> choice, round |-> round[a],
                 credential |-> credential[a]]
<1>1. choice \in AllChoices /\ (op \in Decisions => choice \in {"approve", "reject"})
  BY DEF Choices, AllChoices, Ops, Decisions
<1>2. j \in Jobs
  BY <1>1 DEF Jobs, IInv, TypeOK
<1>3. job' = [job EXCEPT ![t] = j] /\ UNCHANGED recordVars /\ UNCHANGED faults
  BY DEF Check
<1>4. reissueAsked' \subseteq Apps /\ reissueAsked \subseteq reissueAsked'
  BY DEF Check, IInv, TypeOK
<1>5. TypeOK'
  BY <1>2, <1>3, <1>4 DEF IInv, TypeOK, recordVars
<1>6. job'[t] = j /\ JobKept(job[t])'
  <2>1. op = "applicant_resubmit" => round[a] < MaxRounds
    BY DEF Check
  <2>2. op = "dept_approve" => Accepted \in steps[a]
    BY DEF Check, Allows, Reviewable, IInv, ReviewableAccepted
  <2>3. op = "issue_credential" => status[a] = "granted"
                                   /\ (credential[a] = "none" \/ choice = "reissue")
    BY DEF Check, Allows, Issuable
  <2>4. op = "issue_credential" => Approved \in steps[a]
    BY <2>3 DEF IInv, GrantedHasBothSteps, Approved
  <2>5. op = "issue_credential" /\ credential[a] # "none" => a \in reissueAsked'
    BY <2>3 DEF Check
  <2>6. job'[t] = j
    BY <1>3 DEF IInv, TypeOK
  <2>. QED
    BY <1>1, <1>3, <2>1, <2>2, <2>4, <2>5, <2>6 DEF JobKept, recordVars
<1>7. JobsKept'
  <2> SUFFICES ASSUME NEW u \in Threads, job'[u] # Idle
               PROVE  JobKept(job[u])'
    BY DEF JobsKept
  <2>1. CASE u = t
    BY <1>6, <2>1
  <2>2. CASE u # t
    <3>1. job'[u] = job[u] /\ JobKept(job[u])
      BY <1>3, <2>2 DEF IInv, TypeOK, JobsKept
    <3>. QED  BY <1>3, <1>4, <3>1 DEF JobKept, recordVars
  <2>. QED  BY <2>1, <2>2
<1>8. ReviewableAccepted' /\ GrantedHasBothSteps' /\ CredentialsInOrder'
  BY <1>3, <1>4, AppsKeptWhile DEF IInv, recordVars
<1>. QED  BY <1>5, <1>7, <1>8 DEF IInv

\* A check for a new application writes nothing.
LEMMA CheckCreateStep ==
    ASSUME IInv, NEW t \in Threads, NEW choice \in {"draft", "submitted"},
           CheckCreate(t, choice)
    PROVE  IInv'
<1> DEFINE j == [op |-> "create_request", app |-> NoApp, choice |-> choice, round |-> 1,
                 credential |-> "none"]
<1>1. j \in Jobs
  BY RoundsAssumption DEF Jobs, Ops, AllChoices, Credentials
<1>2. job' = [job EXCEPT ![t] = j] /\ UNCHANGED <<recordVars, reissueAsked, faults>>
  BY DEF CheckCreate
<1>3. TypeOK'
  BY <1>1, <1>2 DEF IInv, TypeOK, recordVars
<1>4. JobsKept'
  BY <1>2 DEF IInv, TypeOK, JobsKept, JobKept, Decisions, recordVars
<1>5. ReviewableAccepted' /\ GrantedHasBothSteps' /\ CredentialsInOrder'
  BY <1>2, AppsKeptWhile DEF IInv, recordVars
<1>. QED  BY <1>3, <1>4, <1>5 DEF IInv

\* The writes that put no application further than "submitted" or leave it.
LEMMA PlainCommitStep ==
    ASSUME IInv, NEW t \in Threads,
           \/ CommitCreate(t) \/ CommitSubmit(t) \/ CommitResubmit(t) \/ CommitGrant(t)
           \/ Abandon(t)
    PROVE  IInv'
<1>1. job[t] # Idle /\ Done(t)
  BY DEF CommitCreate, CommitSubmit, CommitResubmit, CommitGrant, Abandon
<1>2. /\ job[t].choice \in AllChoices /\ job[t].round \in 1 .. MaxRounds
      /\ job[t].op # "create_request" => job[t].app \in Apps
      /\ job[t].op = "create_request" => job[t].choice \in {"draft", "submitted"}
      /\ job[t].op = "applicant_resubmit" => job[t].round < MaxRounds
  BY <1>1, JobFields DEF IInv, JobKept
<1>3. /\ job' \in [Threads -> Jobs \union {Idle}]
      /\ \A u \in Threads : job'[u] # Idle => job'[u] = job[u]
  BY <1>1, DoneKeeps DEF IInv
<1>4. UNCHANGED <<steps, credential, revoked, reissueAsked, faults>>
  BY DEF CommitCreate, CommitSubmit, CommitResubmit, CommitGrant, Abandon, recordVars
<1>5. /\ status' \in [Apps -> Statuses]
      /\ task' \in [Apps -> {"none", "pending", "completed"}]
      /\ \A a \in Apps : status'[a] \in {"dept_approved", "granted"} => status'[a] = status[a]
  BY <1>2 DEF CommitCreate, CommitSubmit, CommitResubmit, CommitGrant, Abandon, PersistPayload,
              Target, IInv, TypeOK, Statuses, recordVars
<1>6. round' \in [Apps -> 1 .. MaxRounds]
  <2>1. CASE CommitResubmit(t)
    <3>1. job[t].round + 1 \in 1 .. MaxRounds
      BY <1>2, <2>1, RoundsAssumption DEF CommitResubmit
    <3>. QED  BY <2>1, <3>1 DEF CommitResubmit, PersistPayload, IInv, TypeOK
  <2>2. CASE UNCHANGED round
    BY <2>2 DEF IInv, TypeOK
  <2>. QED
    BY <2>1, <2>2 DEF CommitCreate, CommitSubmit, CommitGrant, Abandon, recordVars
<1>7. TypeOK'
  BY <1>3, <1>4, <1>5, <1>6 DEF IInv, TypeOK
<1>8. JobsKept'
  BY <1>3, <1>4, KeptWhileRowsGrow DEF IInv
<1>9. ReviewableAccepted' /\ GrantedHasBothSteps' /\ CredentialsInOrder'
  BY <1>4, <1>5, AppsKeptWhile DEF IInv
<1>. QED  BY <1>7, <1>8, <1>9 DEF IInv

\* A decision adds its step, and puts the application where its step allows;
\* a bracket that breaks leaves the step alone.
LEMMA DecisionStep ==
    ASSUME IInv, NEW t \in Threads, CommitDecision(t) \/ CommitBreaks(t)
    PROVE  IInv'
<1> DEFINE j == job[t]
<1>1. j # Idle /\ Done(t) /\ j.op \in Decisions /\ AppendStep(j)
  BY DEF CommitDecision, CommitBreaks
<1>2. /\ j.app \in Apps /\ j.choice \in {"approve", "reject"}
      /\ j.round \in 1 .. MaxRounds
      /\ j.op = "dept_approve" => Accepted \in steps[j.app]
  BY <1>1, JobFields DEF IInv, JobKept, Decisions
<1>3. /\ job' \in [Threads -> Jobs \union {Idle}]
      /\ \A u \in Threads : job'[u] # Idle => job'[u] = job[u]
  BY <1>1, DoneKeeps DEF IInv
<1>4. /\ steps' \in [Apps -> SUBSET (Decisions \X {"approve", "reject"})]
      /\ \A a \in Apps : steps[a] \subseteq steps'[a]
      /\ <<j.op, j.choice>> \in steps'[j.app]
  BY <1>1, <1>2 DEF AppendStep, IInv, TypeOK
<1>5. UNCHANGED <<task, credential, revoked, reissueAsked>>
  BY DEF CommitDecision, CommitBreaks
<1>6. JobsKept'
  BY <1>3, <1>4, <1>5, KeptWhileRowsGrow DEF IInv
<1>7. CASE CommitDecision(t)
  <2>1. Target(j) \in Statuses /\ j.op # "applicant_resubmit"
    BY <1>1, <1>2 DEF Target, Statuses, Decisions
  <2>2. /\ status' = [status EXCEPT ![j.app] = Target(j)]
        /\ round' = [round EXCEPT ![j.app] = j.round]
        /\ faults' = faults
    BY <1>7, <2>1 DEF CommitDecision, PersistPayload
  <2>3. TypeOK'
    BY <1>2, <1>3, <1>4, <1>5, <2>1, <2>2 DEF IInv, TypeOK
  <2>4. /\ Target(j) = "dept_approved" => <<j.op, j.choice>> = Accepted
        /\ Target(j) = "granted" => <<j.op, j.choice>> = Approved
    BY <1>1, <1>2 DEF Target, Decisions, Accepted, Approved
  <2>5. Accepted \in steps[j.app] => Accepted \in steps'[j.app]
    BY <1>2, <1>4
  <2>6. ReviewableAccepted'
    BY <1>2, <1>4, <2>2, <2>4 DEF IInv, TypeOK, ReviewableAccepted
  <2>7. Target(j) = "granted" => j.op = "dept_approve"
    BY <1>1, <1>2 DEF Target, Decisions
  <2>8. GrantedHasBothSteps'
    BY <1>2, <1>4, <2>2, <2>4, <2>5, <2>7
       DEF IInv, TypeOK, GrantedHasBothSteps, Accepted, Approved
  <2>9. CredentialsInOrder'
    BY <1>4, <1>5 DEF IInv, CredentialsInOrder, SignedAfterReview, OneSecretUntilReissue
  <2>. QED  BY <1>6, <2>3, <2>6, <2>8, <2>9 DEF IInv
<1>8. CASE CommitBreaks(t)
  <2>1. UNCHANGED <<status, round>> /\ faults' \in 0 .. MaxFaults
    BY <1>8, FaultsAssumption DEF CommitBreaks, IInv, TypeOK
  <2>2. TypeOK'
    BY <1>3, <1>4, <1>5, <2>1 DEF IInv, TypeOK
  <2>3. ReviewableAccepted' /\ GrantedHasBothSteps' /\ CredentialsInOrder'
    BY <1>4, <1>5, <2>1, AppsKeptWhile DEF IInv
  <2>. QED  BY <1>6, <2>2, <2>3 DEF IInv
<1>. QED  BY <1>7, <1>8

\* A credential is signed from what the check saw, whatever was withdrawn since.
LEMMA IssueStep ==
    ASSUME IInv, NEW t \in Threads, CommitIssue(t)
    PROVE  IInv'
<1>1. job[t] # Idle /\ Done(t) /\ job[t].op = "issue_credential"
  BY DEF CommitIssue
<1>2. /\ job[t].app \in Apps /\ Approved \in steps[job[t].app]
      /\ job[t].credential # "none" => job[t].app \in reissueAsked
  BY <1>1, JobFields DEF IInv, JobKept
<1>3. /\ job' \in [Threads -> Jobs \union {Idle}]
      /\ \A u \in Threads : job'[u] # Idle => job'[u] = job[u]
  BY <1>1, DoneKeeps DEF IInv
<1>4. /\ credential' = [credential EXCEPT ![job[t].app] = Signed(job[t])]
      /\ UNCHANGED <<status, round, steps, task, revoked, reissueAsked, faults>>
  BY DEF CommitIssue
<1>5. Signed(job[t]) \in Credentials
      /\ (Signed(job[t]) = "reissued" => job[t].app \in reissueAsked)
  BY <1>2 DEF Signed, Credentials
<1>6. TypeOK'
  BY <1>2, <1>3, <1>4, <1>5 DEF IInv, TypeOK
<1>7. JobsKept'
  BY <1>3, <1>4, KeptWhileRowsGrow DEF IInv
<1>8. ReviewableAccepted' /\ GrantedHasBothSteps'
  BY <1>4 DEF IInv, ReviewableAccepted, GrantedHasBothSteps
<1>9. CredentialsInOrder'
  BY <1>2, <1>4, <1>5
     DEF IInv, TypeOK, CredentialsInOrder, SignedAfterReview, OneSecretUntilReissue, Approved
<1>. QED  BY <1>6, <1>7, <1>8, <1>9 DEF IInv

\* Suspending or revoking touches the status and the grant only.
LEMMA WithdrawStep ==
    ASSUME IInv, NEW a \in Apps, NEW to \in {"suspended", "revoked"}, Withdraw(a, to)
    PROVE  IInv'
<1>1. UNCHANGED <<round, steps, task, credential, job, reissueAsked, faults>>
  BY DEF Withdraw
<1>2. TypeOK'
  BY <1>1 DEF Withdraw, IInv, TypeOK, Statuses
<1>3. JobsKept'
  BY <1>1, KeptWhileRowsGrow DEF IInv
<1>4. \A b \in Apps : status'[b] \in {"dept_approved", "granted"} => status'[b] = status[b]
  BY DEF Withdraw, IInv, TypeOK
<1>5. ReviewableAccepted' /\ GrantedHasBothSteps' /\ CredentialsInOrder'
  BY <1>1, <1>4, AppsKeptWhile DEF IInv
<1>. QED  BY <1>2, <1>3, <1>5 DEF IInv

\* Every step keeps the inductive invariant.
LEMMA InvStep == IInv /\ [Next]_vars => IInv'
<1> SUFFICES ASSUME IInv, [Next]_vars PROVE IInv'
  OBVIOUS
<1>1. CASE UNCHANGED vars
  <2>1. TypeOK'
    BY <1>1 DEF vars, IInv, TypeOK
  <2>2. JobsKept'
    BY <1>1, KeptWhileRowsGrow DEF vars, IInv
  <2>3. ReviewableAccepted' /\ GrantedHasBothSteps' /\ CredentialsInOrder'
    BY <1>1, AppsKeptWhile DEF vars, IInv
  <2>. QED  BY <2>1, <2>2, <2>3 DEF IInv
<1>2. ASSUME NEW t \in Threads, NEW choice \in Choices("create_request"),
             CheckCreate(t, choice)
      PROVE  IInv'
  <2>1. Choices("create_request") = {"draft", "submitted"}
    BY DEF Choices, Decisions
  <2>. QED  BY <1>2, <2>1, CheckCreateStep
<1>. QED
  BY <1>1, <1>2, CheckStep, PlainCommitStep, DecisionStep, IssueStep, WithdrawStep DEF Next

-----------------------------------------------------------------------------
\* The inductive invariant holds in every state.
THEOREM Invariance == Spec => []IInv
  BY InitInv, InvStep, PTL DEF Spec

\* The types hold, whatever requests overlap.
THEOREM TypeCorrect == Spec => []TypeOK
<1>1. IInv => TypeOK
  BY DEF IInv
<1>. QED  BY <1>1, Invariance, PTL

\* What is granted has both steps on record, and a credential is signed after the
\* department's approval and anew only when somebody asked for it, for any number of
\* applications and overlapping requests and wherever brackets break
\* (conditional_approval.py, _issue_credential).
THEOREM GrantsKeepOrder == Spec => []GrantsInOrder
<1>1. IInv => GrantsInOrder
  BY DEF IInv, GrantsInOrder
<1>. QED  BY <1>1, Invariance, PTL

-----------------------------------------------------------------------------
(* The approval file: the inductive invariant                              *)

Phases == {"idle", "status", "task", "card", "case", "lifecycle"}
\* The statuses of an application, an entry or a resource.
RowStatuses == {"none", "draft", "submitted", "pending", "dept_approved", "granted", "need-fix",
                "supplementing", "summary-pending", "completed", "rejected", "suspended",
                "revoked", "dispatched", "pending-provider-confirmation", "pending_review",
                "approved_pending_publish", "approved", "test_failed", "active", "retired"}
StepStatuses == {"pending", "in_progress", "returned", "rejected", "approved", "completed", "closed"}
StepRows == [no : Nat, status : StepStatuses, audit : Nat]
FileRecords == [status : RowStatuses, cur : Nat, steps : Seq(StepRows)]

FileTypeOK ==
    /\ kindOf \in [Codes -> Kinds]
    /\ appRow \in [Codes -> RowStatuses]
    /\ dossier \in [Codes -> FileRecords]
    /\ asked \in [Reviewers -> [id : Codes \union {NoStatus}, to : RowStatuses]]
    /\ writing \in [phase : Phases, id : Codes \union {NoStatus}, to : RowStatuses]
    /\ kept \in [Codes -> SUBSET Nat]
    /\ apart \subseteq Codes
    /\ audits \in Nat

\* The statuses whose projection is not step 1.
Late == {"supplementing", "summary-pending", "completed"}

\* The steps of a file are in order, the last is the current one.
InOrder(f) ==
    /\ \A i, j \in DOMAIN f.steps : i < j => f.steps[i].no < f.steps[j].no
    /\ f.steps # <<>> => f.cur = f.steps[Len(f.steps)].no

\* The steps of a two-level file are numbered from 1.
FromOne(f) == \A i \in DOMAIN f.steps : f.steps[i].no = i

AuditsBelow(f, n) == \A i \in DOMAIN f.steps : f.steps[i].audit <= n

\* Where a file must still be at step 1: the conditional flow has no later
\* status, and a review puts its audit id on file before it gives one.
StillEarly(c) == c \in TwoLevel \/ (c \in Applications /\ Anchors(dossier[c]) = {})

OnFile(c) ==
    /\ kept[c] \subseteq Anchors(dossier[c])
    /\ AuditsBelow(dossier[c], audits)
    /\ c \in Applications => InOrder(dossier[c])
    /\ c \in TwoLevel => FromOne(dossier[c])

FileOK(c) ==
    /\ OnFile(c)
    /\ StillEarly(c) => appRow[c] \notin Late
    /\ c \notin apart /\ c # writing.id => dossier[c].status = appRow[c]

\* What the write under the lock has done of its work by its phase.
WritingOK ==
    /\ writing.phase # "idle" => writing.id \in Codes
    /\ writing.phase = "idle" => writing.id = NoStatus
    /\ writing.phase \in {"status", "task"} =>
          /\ writing.id \in Applications \ TwoLevel
          /\ Anchors(dossier[writing.id]) # {}
          /\ dossier[writing.id].status = writing.to
    /\ writing.phase = "task" => appRow[writing.id] = writing.to
    /\ writing.phase \in {"card", "case"} =>
          /\ writing.id \in Applications
          /\ StillEarly(writing.id) => writing.to \notin Late
    /\ writing.phase = "card" /\ writing.id \notin Runtime => dossier[writing.id].status = writing.to
    /\ writing.phase = "case" => writing.id \in Runtime /\ appRow[writing.id] = writing.to
    /\ writing.phase = "lifecycle" =>
          /\ writing.id \in Subjects /\ appRow[writing.id] = writing.to
          /\ audits > 0 /\ AuditsBelow(dossier[writing.id], audits - 1)

AskedOK ==
    \A t \in Reviewers : asked[t].id # NoStatus =>
        /\ asked[t].id \in Applications
        /\ asked[t].id \in TwoLevel => asked[t].to \notin Late

FileInv == FileTypeOK /\ (\A c \in Codes : FileOK(c)) /\ WritingOK /\ AskedOK

-----------------------------------------------------------------------------
(* What the four writers make of a file                                    *)

\* A file with one more step.
LongerFile(f, s, no, st, audit) ==
    [status |-> s, cur |-> no,
     steps |-> Append(f.steps, [no |-> no, status |-> st, audit |-> audit])]

\* What it keeps of the file, and what it adds.
IsLonger(f, s, no, audit, g) ==
    /\ g \in FileRecords /\ g.status = s
    /\ Anchors(f) \subseteq Anchors(g) /\ Anchors(g) \subseteq Nat
    /\ audit # 0 => Anchors(g) # {}
    /\ \A n \in Nat : AuditsBelow(f, n) /\ audit <= n => AuditsBelow(g, n)
    /\ InOrder(f) /\ (\A i \in DOMAIN f.steps : f.steps[i].no < no) => InOrder(g)
    /\ FromOne(f) /\ no = Len(f.steps) + 1 => FromOne(g)

\* Appending a step is all that the engines and the lifecycle do to a file.
LEMMA LongerFileKeeps ==
    ASSUME NEW f \in FileRecords, NEW s \in RowStatuses, NEW no \in Nat, NEW st \in StepStatuses,
           NEW audit \in Nat
    PROVE  IsLonger(f, s, no, audit, LongerFile(f, s, no, st, audit))
<1> DEFINE g == LongerFile(f, s, no, st, audit)
<1> DEFINE row == [no |-> no, status |-> st, audit |-> audit]
<1>1. row \in StepRows /\ row.no = no /\ row.audit = audit
  BY DEF StepRows
<1>2. f.steps \in Seq(StepRows)
  BY DEF FileRecords
<1> HIDE DEF row
<1>3. g = [status |-> s, cur |-> no, steps |-> Append(f.steps, row)]
  BY DEF LongerFile, row
<1> HIDE DEF g
<1>4. /\ g.steps \in Seq(StepRows) /\ Len(g.steps) = Len(f.steps) + 1
      /\ DOMAIN g.steps = 1 .. Len(f.steps) + 1 /\ DOMAIN f.steps = 1 .. Len(f.steps)
      /\ Len(f.steps) \in Nat
      /\ \A i \in 1 .. Len(f.steps) : g.steps[i] = f.steps[i]
      /\ g.steps[Len(f.steps) + 1] = row
  BY <1>1, <1>2, <1>3
<1>5. g \in FileRecords /\ g.status = s /\ g.cur = no
  BY <1>3, <1>4 DEF FileRecords
<1>6. \A i \in DOMAIN f.steps : i \in DOMAIN g.steps /\ g.steps[i] = f.steps[i]
  BY <1>4
<1>7. Len(f.steps) + 1 \in DOMAIN g.steps
  BY <1>4
<1>8. \A i \in DOMAIN g.steps : g.steps[i] \in StepRows
  BY <1>4
<1>9. \A i \in DOMAIN g.steps : i \in DOMAIN f.steps \/ i = Len(f.steps) + 1
  BY <1>4
<1>10. Anchors(f) \subseteq Anchors(g) /\ Anchors(g) \subseteq Nat
  BY <1>6, <1>8 DEF Anchors, StepRows
<1>11. audit # 0 => Anchors(g) # {}
  BY <1>1, <1>4, <1>7 DEF Anchors
<1>12. ASSUME NEW n \in Nat, AuditsBelow(f, n), audit <= n
       PROVE  AuditsBelow(g, n)
  BY <1>1, <1>4, <1>6, <1>9, <1>12 DEF AuditsBelow
<1>13. ASSUME InOrder(f), \A i \in DOMAIN f.steps : f.steps[i].no < no
       PROVE  InOrder(g)
  <2>1. ASSUME NEW i \in DOMAIN g.steps, NEW j \in DOMAIN g.steps, i < j
        PROVE  g.steps[i].no < g.steps[j].no
    <3>1. i \in DOMAIN f.steps
      BY <1>4, <2>1
    <3>2. CASE j \in DOMAIN f.steps
      BY <1>6, <1>13, <2>1, <3>1, <3>2 DEF InOrder
    <3>3. CASE j = Len(f.steps) + 1
      BY <1>1, <1>4, <1>6, <1>13, <3>1, <3>3
    <3>. QED  BY <1>9, <3>2, <3>3
  <2>2. g.cur = g.steps[Len(g.steps)].no
    BY <1>1, <1>4, <1>5
  <2>. QED  BY <2>1, <2>2 DEF InOrder
<1>14. ASSUME FromOne(f), no = Len(f.steps) + 1
       PROVE  FromOne(g)
  BY <1>1, <1>4, <1>6, <1>9, <1>14 DEF FromOne
<1>. QED  BY <1>5, <1>10, <1>11, <1>12, <1>13, <1>14 DEF IsLonger, g

\* The rows of a file have the types of their columns.
LEMMA RowsTyped ==
    ASSUME NEW f \in FileRecords
    PROVE  /\ f.steps \in Seq(StepRows) /\ Len(f.steps) \in Nat
           /\ DOMAIN f.steps = 1 .. Len(f.steps)
           /\ \A i \in DOMAIN f.steps :
                 f.steps[i] \in StepRows /\ f.steps[i].audit \in Nat /\ f.steps[i].no \in Nat
<1>1. f.steps \in Seq(StepRows)
  BY DEF FileRecords
<1>2. \A i \in DOMAIN f.steps : f.steps[i] \in StepRows
  BY <1>1
<1>3. \A r \in StepRows : r.audit \in Nat /\ r.no \in Nat
  BY DEF StepRows
<1>. QED  BY <1>1, <1>2, <1>3

\* In a file in order, no step has a number above the current one.
LEMMA CurrentIsLast ==
    ASSUME NEW f \in FileRecords, InOrder(f)
    PROVE  /\ f.cur \in Nat /\ Len(f.steps) \in Nat
           /\ \A i \in DOMAIN f.steps : f.steps[i].no \in Nat /\ f.steps[i].no <= f.cur
<1>1. f.steps \in Seq(StepRows) /\ f.cur \in Nat
  BY DEF FileRecords
<1>2. Len(f.steps) \in Nat /\ DOMAIN f.steps = 1 .. Len(f.steps)
  BY <1>1
<1>3. ASSUME NEW i \in DOMAIN f.steps
      PROVE  f.steps[i].no \in Nat /\ f.steps[i].no <= f.cur
  <2>1. f.steps[i] \in StepRows /\ f.steps # <<>> /\ Len(f.steps) \in DOMAIN f.steps
    BY <1>1, <1>2, <1>3
  <2>2. f.cur = f.steps[Len(f.steps)].no
    BY <2>1 DEF InOrder
  <2>3. i = Len(f.steps) \/ i < Len(f.steps)
    BY <1>2, <1>3
  <2>4. f.steps[i].no \in Nat
    BY <2>1 DEF StepRows
  <2>. QED  BY <1>1, <2>1, <2>2, <2>3, <2>4 DEF InOrder
<1>. QED  BY <1>1, <1>2, <1>3

\* A file a write may commit for c under audit id n.
Committable(c, f, n) ==
    /\ f \in FileRecords
    /\ Anchors(dossier[c]) \subseteq Anchors(f) /\ Anchors(f) \subseteq Nat
    /\ AuditsBelow(f, n)
    /\ c \in Applications => InOrder(f)
    /\ c \in TwoLevel => FromOne(f)

\* The single review of an application that is not conditional.
LEMMA ReviewFile ==
    ASSUME FileInv, NEW a \in Applications \ TwoLevel, NEW s \in RowStatuses,
           NEW f, f = append_application_review_decision(dossier[a], s, audits + 1)
    PROVE  Committable(a, f, audits + 1) /\ f.status = s /\ Anchors(f) # {}
<1> DEFINE d == dossier[a]
           no == (IF d.cur < 1 THEN 1 ELSE d.cur) + 1
<1>1. a \in Codes /\ d \in FileRecords /\ audits \in Nat
  BY DEF FileInv, FileTypeOK, Applications
<1>2. FileOK(a)
  BY <1>1 DEF FileInv
<1>3. InOrder(d) /\ AuditsBelow(d, audits)
  BY <1>2 DEF FileOK, OnFile
<1>4. no \in Nat /\ \A i \in DOMAIN d.steps : d.steps[i].no < no
  BY <1>1, <1>3, CurrentIsLast
<1>5. AuditsBelow(d, audits + 1)
  <2>1. \A i \in DOMAIN d.steps : d.steps[i].audit \in Nat
    BY <1>1, RowsTyped
  <2>. QED  BY <1>1, <1>3, <2>1 DEF AuditsBelow
<1> DEFINE done == "completed"
           id == audits + 1
<1>6. f = LongerFile(d, s, no, done, id) /\ done \in StepStatuses
  BY DEF append_application_review_decision, LongerFile, StepStatuses
<1>7. id \in Nat /\ id # 0 /\ id <= id /\ AuditsBelow(d, id)
  BY <1>1, <1>5
<1> HIDE DEF d, no, done, id
<1>8. /\ f \in FileRecords /\ f.status = s /\ Anchors(d) \subseteq Anchors(f)
      /\ Anchors(f) \subseteq Nat /\ Anchors(f) # {}
      /\ AuditsBelow(f, id) /\ InOrder(f)
  <2>1. IsLonger(d, s, no, id, LongerFile(d, s, no, done, id))
    BY <1>1, <1>3, <1>4, <1>6, <1>7, LongerFileKeeps
  <2>2. IsLonger(d, s, no, id, f)
    BY <1>6, <2>1
  <2>. QED  BY <1>1, <1>3, <1>4, <1>6, <1>7, <2>2 DEF IsLonger
<1>. QED  BY <1>8 DEF Committable, d, id

\* A level of the conditional flow.
LEMMA LevelFile ==
    ASSUME FileInv, NEW a \in TwoLevel, NEW s \in RowStatuses,
           NEW f, f = append_conditional_step(dossier[a], s, audits + 1)
    PROVE  Committable(a, f, audits + 1) /\ f.status = s
<1> DEFINE d == dossier[a]
           no == Len(d.steps) + 1
<1>1. a \in Codes /\ a \in Applications /\ d \in FileRecords /\ audits \in Nat
  BY DEF FileInv, FileTypeOK, Applications, TwoLevel, Subjects
<1>2. FileOK(a)
  BY <1>1 DEF FileInv
<1>3. InOrder(d) /\ AuditsBelow(d, audits) /\ FromOne(d)
  BY <1>1, <1>2 DEF FileOK, OnFile
<1>4. no \in Nat /\ \A i \in DOMAIN d.steps : d.steps[i].no < no
  <2>1. d.steps \in Seq(StepRows)
    BY <1>1 DEF FileRecords
  <2>. QED  BY <1>3, <2>1 DEF FromOne
<1>5. AuditsBelow(d, audits + 1)
  <2>1. \A i \in DOMAIN d.steps : d.steps[i].audit \in Nat
    BY <1>1, RowsTyped
  <2>. QED  BY <1>1, <1>3, <2>1 DEF AuditsBelow
<1> DEFINE done == "completed"
           id == audits + 1
<1>6. f = LongerFile(d, s, no, done, id) /\ done \in StepStatuses
  BY DEF append_conditional_step, LongerFile, StepStatuses
<1>7. no = Len(d.steps) + 1
  OBVIOUS
<1>8. id \in Nat /\ id <= id /\ AuditsBelow(d, id)
  BY <1>1, <1>5
<1> HIDE DEF d, no, done, id
<1>9. /\ f \in FileRecords /\ f.status = s /\ Anchors(d) \subseteq Anchors(f)
      /\ Anchors(f) \subseteq Nat
      /\ AuditsBelow(f, id) /\ InOrder(f) /\ FromOne(f)
  <2>1. IsLonger(d, s, no, id, LongerFile(d, s, no, done, id))
    BY <1>1, <1>3, <1>4, <1>6, <1>7, <1>8, LongerFileKeeps
  <2>2. IsLonger(d, s, no, id, f)
    BY <1>6, <2>1
  <2>. QED  BY <1>1, <1>3, <1>4, <1>6, <1>7, <1>8, <2>2 DEF IsLonger
<1>. QED  BY <1>9 DEF Committable, d, id

\* A transition of an entry or a resource under an audit id no step has yet.
LEMMA LifecycleFile ==
    ASSUME FileInv, NEW c \in Subjects, NEW s \in RowStatuses,
           audits > 0, AuditsBelow(dossier[c], audits - 1),
           NEW f, f = upsert_lifecycle(dossier[c], s, audits)
    PROVE  Committable(c, f, audits) /\ f.status = s
<1> DEFINE d == dossier[c]
<1>1. c \in Codes /\ c \notin Applications /\ c \notin TwoLevel /\ d \in FileRecords /\ audits \in Nat
  BY DEF FileInv, FileTypeOK, Applications, TwoLevel, Subjects
<1>2. FileOK(c)
  BY <1>1 DEF FileInv
<1>3. AuditsBelow(d, audits)
  BY <1>2 DEF FileOK, OnFile
<1>4. ~(d.steps # <<>> /\ d.steps[Len(d.steps)].audit = audits)
  <2>1. SUFFICES ASSUME d.steps # <<>> PROVE d.steps[Len(d.steps)].audit # audits
    OBVIOUS
  <2>2. d.steps \in Seq(StepRows)
    BY <1>1 DEF FileRecords
  <2>3. Len(d.steps) \in DOMAIN d.steps
    BY <2>1, <2>2
  <2>4. d.steps[Len(d.steps)].audit \in Nat
    BY <1>1, <2>3, RowsTyped
  <2>5. d.steps[Len(d.steps)].audit <= audits - 1
    BY <2>3 DEF AuditsBelow
  <2>. QED  BY <1>1, <2>4, <2>5
<1> DEFINE no == api_step_no(s)
           st == api_step_status(s)
<1>5. no \in Nat /\ st \in StepStatuses
  BY DEF api_step_no, api_step_status, StepStatuses
<1>6. f = LongerFile(d, s, no, st, audits)
  BY <1>4 DEF upsert_lifecycle, LongerFile
<1> HIDE DEF d, no, st
<1>7. audits <= audits
  BY <1>1
<1>8. /\ f \in FileRecords /\ f.status = s /\ Anchors(d) \subseteq Anchors(f)
      /\ Anchors(f) \subseteq Nat /\ AuditsBelow(f, audits)
  <2>1. IsLonger(d, s, no, audits, LongerFile(d, s, no, st, audits))
    BY <1>1, <1>3, <1>5, <1>6, <1>7, LongerFileKeeps
  <2>2. IsLonger(d, s, no, audits, f)
    BY <1>6, <2>1
  <2>. QED  BY <1>1, <1>3, <1>5, <1>6, <1>7, <2>2 DEF IsLonger
<1>. QED  BY <1>1, <1>8 DEF Committable, d

\* The projection of a card, which rebuilds a file only where no step carries
\* an audit id, and then at step 1.
LEMMA ProjectedFile ==
    ASSUME FileInv, NEW a \in Applications, NEW s \in RowStatuses, StillEarly(a) => s \notin Late,
           NEW f, f = upsert_from_request_and_approval(dossier[a], s)
    PROVE  Committable(a, f, audits) /\ f.status = s
                /\ (Anchors(f) = {} => Anchors(dossier[a]) = {})
<1> DEFINE d == dossier[a]
<1>1. a \in Codes /\ d \in FileRecords /\ audits \in Nat
  BY DEF FileInv, FileTypeOK, Applications
<1>2. FileOK(a)
  BY <1>1 DEF FileInv
<1>3. InOrder(d) /\ AuditsBelow(d, audits) /\ (a \in TwoLevel => FromOne(d))
  BY <1>1, <1>2 DEF FileOK, OnFile
<1>4. CASE Anchors(d) # {}
  <2>1. f = [d EXCEPT !.status = s]
    BY <1>4 DEF upsert_from_request_and_approval
  <2>2. f \in FileRecords /\ f.status = s /\ f.cur = d.cur /\ f.steps = d.steps
    BY <1>1, <2>1 DEF FileRecords
  <2>3. \A i \in DOMAIN d.steps : d.steps[i].audit \in Nat
    BY <1>1, RowsTyped
  <2>4. Anchors(f) = Anchors(d) /\ Anchors(f) \subseteq Nat
    BY <2>2, <2>3 DEF Anchors
  <2>5. AuditsBelow(f, audits) /\ InOrder(f) /\ (a \in TwoLevel => FromOne(f))
    BY <1>3, <2>2 DEF InOrder, FromOne, AuditsBelow
  <2>. QED  BY <2>2, <2>4, <2>5 DEF Committable
<1>5. CASE Anchors(d) = {}
  <2>1. s \notin Late
    BY <1>5 DEF StillEarly
  <2>2. current_step_no(s) = 1
    BY <2>1 DEF Late, current_step_no
  <2>3. step_status(s) \in StepStatuses
    BY DEF step_status, StepStatuses
  <2> DEFINE row == [no |-> 1, status |-> step_status(s), audit |-> 0]
  <2>4. row \in StepRows /\ row.no = 1 /\ row.audit = 0
    BY <2>3 DEF StepRows
  <2> HIDE DEF row
  <2>5. f = [status |-> s, cur |-> 1, steps |-> <<row>>]
    BY <1>5, <2>2 DEF upsert_from_request_and_approval, row
  <2>6. /\ f.steps \in Seq(StepRows) /\ Len(f.steps) = 1 /\ DOMAIN f.steps = {1}
        /\ f.steps[1] = row /\ f.cur = 1 /\ f.status = s
    BY <2>4, <2>5
  <2>7. f \in FileRecords
    BY <2>5, <2>6 DEF FileRecords
  <2>8. Anchors(f) = {}
    BY <2>4, <2>6 DEF Anchors
  <2>9. AuditsBelow(f, audits) /\ FromOne(f) /\ InOrder(f)
    BY <1>1, <2>4, <2>6 DEF AuditsBelow, FromOne, InOrder
  <2>. QED  BY <1>5, <2>6, <2>7, <2>8, <2>9 DEF Committable
<1>. QED  BY <1>4, <1>5

-----------------------------------------------------------------------------
(* The steps of the writers                                                *)

\* What a code names never changes.
LEMMA KindsStay ==
    ASSUME kindOf' = kindOf
    PROVE  /\ Runtime' = Runtime /\ Imported' = Imported /\ TwoLevel' = TwoLevel
           /\ Subjects' = Subjects /\ Applications' = Applications
BY DEF Runtime, Imported, TwoLevel, Subjects, Applications

\* What the kinds say of each other.
LEMMA KindsApart ==
    /\ Runtime \subseteq Applications /\ TwoLevel \subseteq Applications
    /\ Applications \subseteq Codes /\ Subjects \subseteq Codes
    /\ Imported \subseteq Applications
    /\ \A c \in Subjects : c \notin Applications /\ c \notin TwoLevel
BY DEF Runtime, Imported, TwoLevel, Subjects, Applications

\* The commit of one file leaves all files in order.
LEMMA CommitKeeps ==
    ASSUME FileInv, NEW c \in Codes, NEW f, audits' \in Nat, audits <= audits',
           Committable(c, f, audits'), Commit(c, f), kindOf' = kindOf
    PROVE  /\ dossier' \in [Codes -> FileRecords] /\ kept' \in [Codes -> SUBSET Nat]
           /\ dossier'[c] = f /\ \A d \in Codes \ {c} : dossier'[d] = dossier[d]
           /\ \A d \in Codes : OnFile(d)'
<1>1. /\ dossier \in [Codes -> FileRecords] /\ kept \in [Codes -> SUBSET Nat] /\ audits \in Nat
      /\ \A d \in Codes : OnFile(d)
  BY DEF FileInv, FileTypeOK, FileOK
<1>2. /\ f \in FileRecords /\ Anchors(dossier[c]) \subseteq Anchors(f) /\ Anchors(f) \subseteq Nat
      /\ AuditsBelow(f, audits') /\ (c \in Applications => InOrder(f))
      /\ (c \in TwoLevel => FromOne(f))
  BY DEF Committable
<1>3. /\ dossier' = [dossier EXCEPT ![c] = f]
      /\ kept' = [kept EXCEPT ![c] = kept[c] \union Anchors(f)]
  BY DEF Commit
<1>4. /\ dossier' \in [Codes -> FileRecords] /\ dossier'[c] = f
      /\ \A d \in Codes \ {c} : dossier'[d] = dossier[d]
  BY <1>1, <1>2, <1>3
<1>5. /\ kept' \in [Codes -> SUBSET Nat] /\ kept'[c] = kept[c] \union Anchors(f)
      /\ \A d \in Codes \ {c} : kept'[d] = kept[d]
  BY <1>1, <1>2, <1>3
<1>6. Applications' = Applications /\ TwoLevel' = TwoLevel
  BY KindsStay
<1>7. OnFile(c)'
  <2>1. kept[c] \subseteq Anchors(dossier[c])
    BY <1>1 DEF OnFile
  <2>2. kept'[c] \subseteq Anchors(f)
    BY <1>2, <1>5, <2>1
  <2>. QED  BY <1>2, <1>4, <1>6, <2>2 DEF OnFile
<1>8. ASSUME NEW d \in Codes \ {c}
      PROVE  OnFile(d)'
  <2>1. OnFile(d) /\ dossier[d] \in FileRecords
    BY <1>1
  <2>2. \A i \in DOMAIN dossier[d].steps : dossier[d].steps[i].audit \in Nat
    BY <2>1, RowsTyped
  <2>3. AuditsBelow(dossier[d], audits')
    BY <1>1, <2>1, <2>2 DEF OnFile, AuditsBelow
  <2>. QED  BY <1>4, <1>5, <1>6, <2>1, <2>3 DEF OnFile
<1>. QED  BY <1>4, <1>5, <1>7, <1>8

\* A step that commits no file leaves all files in order.
LEMMA NoCommitKeeps ==
    ASSUME FileInv, UNCHANGED <<kindOf, dossier, kept>>, audits' \in Nat, audits <= audits'
    PROVE  /\ dossier' \in [Codes -> FileRecords] /\ kept' \in [Codes -> SUBSET Nat]
           /\ \A d \in Codes : OnFile(d)'
<1>1. /\ dossier \in [Codes -> FileRecords] /\ kept \in [Codes -> SUBSET Nat] /\ audits \in Nat
      /\ \A d \in Codes : OnFile(d)
  BY DEF FileInv, FileTypeOK, FileOK
<1>2. Applications' = Applications /\ TwoLevel' = TwoLevel
  BY KindsStay
<1>3. ASSUME NEW d \in Codes
      PROVE  OnFile(d)'
  <2>1. OnFile(d) /\ dossier[d] \in FileRecords
    BY <1>1
  <2>2. \A i \in DOMAIN dossier[d].steps : dossier[d].steps[i].audit \in Nat
    BY <2>1, RowsTyped
  <2>3. AuditsBelow(dossier[d], audits')
    BY <1>1, <2>1, <2>2 DEF OnFile, AuditsBelow
  <2>. QED  BY <1>2, <2>1, <2>3 DEF OnFile
<1>. QED  BY <1>1, <1>3

\* A request is checked.
LEMMA AskKeeps ==
    ASSUME FileInv, NEW t \in Reviewers, NEW a \in Applications, NEW to \in RowStatuses,
           a \in TwoLevel => to \notin Late, Ask(t, a, to)
    PROVE  FileInv'
<1>1. a \in Codes
  BY KindsApart
<1>2. asked' = [asked EXCEPT ![t] = [id |-> a, to |-> to]]
  BY DEF Ask
<1>3. UNCHANGED <<kindOf, appRow, dossier, writing, kept, apart, audits>>
  BY DEF Ask
<1>4. FileTypeOK'
  BY <1>1, <1>2, <1>3 DEF FileInv, FileTypeOK
<1>5. /\ Runtime' = Runtime /\ TwoLevel' = TwoLevel
      /\ Subjects' = Subjects /\ Applications' = Applications
  BY <1>3, KindsStay
<1>6. AskedOK'
  BY <1>1, <1>2, <1>5 DEF FileInv, FileTypeOK, AskedOK
<1>7. WritingOK'
  BY <1>3, <1>5 DEF FileInv, WritingOK, StillEarly
<1>8. \A c \in Codes : FileOK(c)'
  BY <1>3, <1>5 DEF FileInv, FileOK, OnFile, StillEarly
<1>. QED  BY <1>4, <1>6, <1>7, <1>8 DEF FileInv

\* An asked review is recorded, or a level of it.
LEMMA RecordKeeps ==
    ASSUME FileInv, NEW t \in Reviewers, RecordReview(t) \/ RecordLevel(t)
    PROVE  FileInv'
<1> DEFINE a == asked[t].id
           to == asked[t].to
<1>1. /\ asked \in [Reviewers -> [id : Codes \union {NoStatus}, to : RowStatuses]]
      /\ audits \in Nat /\ apart \subseteq Codes /\ appRow \in [Codes -> RowStatuses]
      /\ kindOf \in [Codes -> Kinds]
  BY DEF FileInv, FileTypeOK
<1>2. /\ a \in Applications /\ a \in Codes /\ to \in RowStatuses
      /\ a \in TwoLevel => to \notin Late
  BY <1>1, KindsApart, CodesAssumption DEF RecordReview, RecordLevel, FileInv, AskedOK, NoStatus
<1>3. /\ audits' = audits + 1 /\ audits' \in Nat /\ audits <= audits'
      /\ asked' = [asked EXCEPT ![t] = NoAsk]
      /\ UNCHANGED <<kindOf, appRow, apart>> /\ writing.phase = "idle"
  BY <1>1 DEF RecordReview, RecordLevel, NewAudit, LockFree
<1>4. PICK f : /\ Commit(a, f) /\ Committable(a, f, audits') /\ f.status = to
               /\ a \notin TwoLevel => Anchors(f) # {}
               /\ writing' = [phase |-> IF a \in TwoLevel THEN "card" ELSE "status",
                              id |-> a, to |-> to]
  <2>1. CASE RecordReview(t)
    <3>1. a \in Applications \ TwoLevel
      BY <2>1 DEF RecordReview
    <3>2. PICK f : f = append_application_review_decision(dossier[a], to, audits + 1)
      OBVIOUS
    <3>3. Committable(a, f, audits + 1) /\ f.status = to /\ Anchors(f) # {}
      BY <1>2, <3>1, <3>2, ReviewFile
    <3>. QED  BY <1>3, <2>1, <3>1, <3>2, <3>3 DEF RecordReview
  <2>2. CASE RecordLevel(t)
    <3>1. a \in TwoLevel
      BY <2>2 DEF RecordLevel
    <3>2. PICK f : f = append_conditional_step(dossier[a], to, audits + 1)
      OBVIOUS
    <3>3. Committable(a, f, audits + 1) /\ f.status = to
      BY <1>2, <3>1, <3>2, LevelFile
    <3>. QED  BY <1>3, <2>2, <3>1, <3>2, <3>3 DEF RecordLevel
  <2>. QED  BY <2>1, <2>2
<1>5. /\ dossier' \in [Codes -> FileRecords] /\ kept' \in [Codes -> SUBSET Nat]
      /\ dossier'[a] = f /\ (\A d \in Codes \ {a} : dossier'[d] = dossier[d])
      /\ \A d \in Codes : OnFile(d)'
  BY <1>2, <1>3, <1>4, CommitKeeps
<1>6. /\ Runtime' = Runtime /\ TwoLevel' = TwoLevel
      /\ Subjects' = Subjects /\ Applications' = Applications
  BY <1>3, KindsStay
<1> HIDE DEF a, to
<1>7. FileTypeOK'
  <2>1. writing' \in [phase : Phases, id : Codes \union {NoStatus}, to : RowStatuses]
    BY <1>2, <1>4 DEF Phases
  <2>2. asked' \in [Reviewers -> [id : Codes \union {NoStatus}, to : RowStatuses]]
    <3>1. NoAsk \in [id : Codes \union {NoStatus}, to : RowStatuses]
      BY DEF NoAsk, NoStatus, RowStatuses
    <3>. QED  BY <1>1, <1>3, <3>1
  <2>. QED  BY <1>1, <1>3, <1>5, <2>1, <2>2 DEF FileTypeOK
<1>8. AskedOK'
  BY <1>1, <1>3, <1>6 DEF FileInv, AskedOK, NoAsk
<1>9. writing'.id = a /\ writing'.to = to /\ writing'.phase = IF a \in TwoLevel THEN "card" ELSE "status"
  BY <1>4
<1>10. WritingOK'
  BY <1>2, <1>4, <1>5, <1>6, <1>9 DEF WritingOK
<1>11. Anchors(dossier[a]) \subseteq Anchors(f)
  BY <1>4 DEF Committable, a
<1>12. writing.id = NoStatus /\ a # NoStatus
  BY <1>2, <1>3, CodesAssumption DEF FileInv, WritingOK, NoStatus
<1>13. ASSUME NEW c \in Codes
       PROVE  FileOK(c)'
  <2>1. FileOK(c) /\ c # NoStatus
    BY <1>13, CodesAssumption DEF FileInv, NoStatus
  <2>2. StillEarly(c)' => StillEarly(c)
    BY <1>5, <1>6, <1>11 DEF StillEarly
  <2>3. c \notin apart' /\ c # writing'.id => dossier'[c].status = appRow'[c]
    BY <1>3, <1>5, <1>9, <1>12, <2>1 DEF FileOK
  <2>. QED  BY <1>3, <1>5, <2>1, <2>2, <2>3 DEF FileOK
<1>. QED  BY <1>7, <1>8, <1>10, <1>13 DEF FileInv

\* Where a card may go from step 1, it stays at step 1.
LEMMA EarlyMoves ==
    ASSUME FileInv, NEW a \in Codes, NEW to \in CardMoves(a)
    PROVE  to \in RowStatuses /\ (StillEarly(a) => to \notin Late)
<1>1. appRow[a] \in RowStatuses
  BY DEF FileInv, FileTypeOK
<1>2. to \in RowStatuses
  BY <1>1 DEF CardMoves, RowStatuses, NoStatus
<1>3. ASSUME StillEarly(a)
      PROVE  to \notin Late
  <2>1. appRow[a] \notin Late
    BY <1>3 DEF FileInv, FileOK
  <2>. QED  BY <2>1 DEF CardMoves, Late, NoStatus
<1>. QED  BY <1>2, <1>3

\* A write that changes one row, or none, and commits no file: its goal is what it
\* says of that row and of the write that goes on.
LEMMA RowStep ==
    ASSUME FileInv, UNCHANGED <<kindOf, dossier, kept>>, audits' \in Nat, audits <= audits',
           NEW x \in Codes, appRow' \in [Codes -> RowStatuses],
           \A c \in Codes \ {x} : appRow'[c] = appRow[c],
           writing' \in [phase : Phases, id : Codes \union {NoStatus}, to : RowStatuses],
           apart' \subseteq Codes, AskedOK',
           asked' \in [Reviewers -> [id : Codes \union {NoStatus}, to : RowStatuses]],
           StillEarly(x) => appRow'[x] \notin Late,
           x \notin apart' /\ x # writing'.id => dossier[x].status = appRow'[x],
           \A c \in Codes \ {x} : c \notin apart' => c \notin apart /\ c # writing.id,
           WritingOK'
    PROVE  FileInv'
<1>1. /\ dossier' \in [Codes -> FileRecords] /\ kept' \in [Codes -> SUBSET Nat]
      /\ \A d \in Codes : OnFile(d)'
  BY NoCommitKeeps
<1>2. FileTypeOK'
  BY <1>1 DEF FileInv, FileTypeOK
<1>3. TwoLevel' = TwoLevel /\ Applications' = Applications
  BY KindsStay
<1>4. ASSUME NEW c \in Codes
      PROVE  FileOK(c)'
  <2>1. FileOK(c)
    BY DEF FileInv
  <2>2. StillEarly(c)' <=> StillEarly(c)
    BY <1>3 DEF StillEarly
  <2>. QED  BY <1>1, <2>1, <2>2 DEF FileOK
<1>. QED  BY <1>2, <1>4 DEF FileInv

\* The facts about a write under way that its next step starts from.
LEMMA UnderWay ==
    ASSUME FileInv
    PROVE  /\ writing \in [phase : Phases, id : Codes \union {NoStatus}, to : RowStatuses]
           /\ appRow \in [Codes -> RowStatuses] /\ apart \subseteq Codes /\ audits \in Nat
           /\ asked \in [Reviewers -> [id : Codes \union {NoStatus}, to : RowStatuses]]
           /\ Still \in [phase : Phases, id : Codes \union {NoStatus}, to : RowStatuses]
           /\ writing.phase # "idle" => writing.id \in Codes
           /\ \A c \in Codes : c # NoStatus
           /\ LockFree => writing.id = NoStatus
BY CodesAssumption
   DEF FileInv, FileTypeOK, WritingOK, Still, NoStatus, RowStatuses, Phases, LockFree

\* A request that waits for the lock keeps what it asked.
LEMMA AskedStays ==
    ASSUME FileInv, UNCHANGED <<kindOf, asked>>
    PROVE  AskedOK'
<1>1. TwoLevel' = TwoLevel /\ Applications' = Applications
  BY KindsStay
<1>. QED  BY <1>1 DEF FileInv, AskedOK

\* The second and the third commit of a review.
LEMMA UpdateKeeps ==
    ASSUME FileInv, UpdateStatus \/ UpdateTask
    PROVE  FileInv'
<1>0. PICK x : x = writing.id
  OBVIOUS
<1>1. UNCHANGED <<kindOf, dossier, kept, asked, audits>>
  BY DEF UpdateStatus, UpdateTask
<1>2. /\ writing \in [phase : Phases, id : Codes \union {NoStatus}, to : RowStatuses]
      /\ appRow \in [Codes -> RowStatuses] /\ apart \subseteq Codes /\ audits \in Nat
      /\ asked \in [Reviewers -> [id : Codes \union {NoStatus}, to : RowStatuses]]
      /\ Still \in [phase : Phases, id : Codes \union {NoStatus}, to : RowStatuses]
      /\ \A c \in Codes : c # NoStatus
  BY UnderWay
<1>3. writing.phase \in {"status", "task"}
  BY DEF UpdateStatus, UpdateTask
<1>4. /\ x \in Codes /\ x \in Applications \ TwoLevel /\ Anchors(dossier[x]) # {}
      /\ dossier[x].status = writing.to
  BY <1>0, <1>3 DEF FileInv, WritingOK
<1>5. ~StillEarly(x)
  BY <1>4 DEF StillEarly
<1>6. AskedOK'
  BY <1>1, AskedStays
<1>7. /\ Runtime' = Runtime /\ TwoLevel' = TwoLevel
      /\ Subjects' = Subjects /\ Applications' = Applications
  BY <1>1, KindsStay
<1>8. StillEarly(x)' <=> StillEarly(x)
  BY <1>1, <1>7 DEF StillEarly
<1>9. audits' \in Nat /\ audits <= audits'
  BY <1>1, <1>2
<1>10. CASE UpdateStatus
  <2>1. /\ appRow' = [appRow EXCEPT ![x] = writing.to]
        /\ writing' = [writing EXCEPT !.phase = "task"] /\ apart' = apart
    BY <1>0, <1>10 DEF UpdateStatus
  <2>2. /\ writing' \in [phase : Phases, id : Codes \union {NoStatus}, to : RowStatuses]
        /\ writing'.phase = "task" /\ writing'.id = x /\ writing'.to = writing.to
    BY <1>0, <1>2, <2>1 DEF Phases
  <2>3. /\ appRow' \in [Codes -> RowStatuses] /\ appRow'[x] = writing.to
        /\ \A c \in Codes \ {x} : appRow'[c] = appRow[c]
    BY <1>2, <1>4, <2>1
  <2>4. WritingOK'
    BY <1>1, <1>4, <1>7, <2>2, <2>3 DEF WritingOK
  <2>5. \A c \in Codes \ {x} : c \notin apart' => c \notin apart /\ c # writing.id
    BY <1>0, <2>1
  <2>. QED  BY <1>1, <1>2, <1>4, <1>5, <1>6, <1>9, <2>1, <2>2, <2>3, <2>4, <2>5, RowStep
<1>11. CASE UpdateTask
  <2>1. /\ appRow' = appRow /\ apart' = apart \ {x} /\ writing.phase = "task"
        /\ writing' = IF x \in Runtime THEN [writing EXCEPT !.phase = "card"] ELSE Still
    BY <1>0, <1>11 DEF UpdateTask
  <2>2. appRow[x] = writing.to
    BY <1>0, <2>1 DEF FileInv, WritingOK
  <2>3. writing' \in [phase : Phases, id : Codes \union {NoStatus}, to : RowStatuses]
    BY <1>0, <1>2, <2>1 DEF Phases
  <2>4. WritingOK'
    <3>1. CASE x \in Runtime
      <4>1. writing'.phase = "card" /\ writing'.id = x
        BY <1>0, <1>2, <2>1, <3>1
      <4>. QED  BY <1>4, <1>5, <1>7, <1>8, <3>1, <4>1 DEF WritingOK
    <3>2. CASE x \notin Runtime
      <4>1. writing'.phase = "idle" /\ writing'.id = NoStatus
        BY <2>1, <3>2 DEF Still
      <4>. QED  BY <4>1 DEF WritingOK
    <3>. QED  BY <3>1, <3>2
  <2>5. /\ \A c \in Codes \ {x} : c \notin apart' => c \notin apart /\ c # writing.id
        /\ apart' \subseteq Codes
    BY <1>0, <1>2, <2>1
  <2>6. appRow' \in [Codes -> RowStatuses] /\ (\A c \in Codes \ {x} : appRow'[c] = appRow[c])
        /\ dossier[x].status = appRow'[x]
    BY <1>2, <1>4, <2>1, <2>2
  <2>. QED  BY <1>1, <1>2, <1>4, <1>5, <1>6, <1>9, <2>3, <2>4, <2>5, <2>6, RowStep
<1>. QED  BY <1>10, <1>11

\* The card of an application is flushed into its row.
LEMMA FlushRowKeeps ==
    ASSUME FileInv, FlushRow
    PROVE  FileInv'
<1>0. PICK x : x = writing.id
  OBVIOUS
<1>1. UNCHANGED <<kindOf, dossier, kept, asked, audits>>
  BY DEF FlushRow
<1>2. /\ writing \in [phase : Phases, id : Codes \union {NoStatus}, to : RowStatuses]
      /\ appRow \in [Codes -> RowStatuses] /\ apart \subseteq Codes /\ audits \in Nat
      /\ asked \in [Reviewers -> [id : Codes \union {NoStatus}, to : RowStatuses]]
      /\ Still \in [phase : Phases, id : Codes \union {NoStatus}, to : RowStatuses]
      /\ \A c \in Codes : c # NoStatus
  BY UnderWay
<1>3. /\ writing.phase = "card" /\ appRow' = [appRow EXCEPT ![x] = writing.to]
      /\ writing' = IF x \in Runtime THEN [writing EXCEPT !.phase = "case"] ELSE Still
      /\ apart' = IF x \in Runtime THEN apart ELSE apart \ {x}
  BY <1>0 DEF FlushRow
<1>4. /\ x \in Codes /\ x \in Applications /\ (StillEarly(x) => writing.to \notin Late)
      /\ x \notin Runtime => dossier[x].status = writing.to
  BY <1>0, <1>3 DEF FileInv, WritingOK
<1>5. AskedOK'
  BY <1>1, AskedStays
<1>6. /\ Runtime' = Runtime /\ TwoLevel' = TwoLevel
      /\ Subjects' = Subjects /\ Applications' = Applications
  BY <1>1, KindsStay
<1>7. StillEarly(x)' <=> StillEarly(x)
  BY <1>1, <1>6 DEF StillEarly
<1>8. audits' \in Nat /\ audits <= audits'
  BY <1>1, <1>2
<1>9. /\ appRow' \in [Codes -> RowStatuses] /\ appRow'[x] = writing.to
      /\ \A c \in Codes \ {x} : appRow'[c] = appRow[c]
  BY <1>2, <1>3, <1>4
<1>10. writing' \in [phase : Phases, id : Codes \union {NoStatus}, to : RowStatuses]
  BY <1>2, <1>3 DEF Phases
<1>11. WritingOK' /\ (x # writing'.id => dossier[x].status = appRow'[x])
  <2>1. CASE x \in Runtime
    <3>1. writing'.phase = "case" /\ writing'.id = x /\ writing'.to = writing.to
      BY <1>0, <1>2, <1>3, <2>1
    <3>. QED  BY <1>4, <1>6, <1>7, <1>9, <2>1, <3>1 DEF WritingOK
  <2>2. CASE x \notin Runtime
    <3>1. writing'.phase = "idle" /\ writing'.id = NoStatus
      BY <1>3, <2>2 DEF Still
    <3>. QED  BY <1>4, <1>9, <2>2, <3>1 DEF WritingOK
  <2>. QED  BY <2>1, <2>2
<1>12. /\ \A c \in Codes \ {x} : c \notin apart' => c \notin apart /\ c # writing.id
       /\ apart' \subseteq Codes
  BY <1>0, <1>2, <1>3
<1>13. StillEarly(x) => appRow'[x] \notin Late
  BY <1>4, <1>9
<1>. QED
  BY <1>1, <1>2, <1>4, <1>5, <1>8, <1>9, <1>10, <1>11, <1>12, <1>13, RowStep

\* The projection of the card and the step of a transition end a write.
LEMMA EndKeeps ==
    ASSUME FileInv, FlushCase \/ RecordTransition
    PROVE  FileInv'
<1>0. PICK x : x = writing.id
  OBVIOUS
<1>1. /\ writing' = Still /\ apart' = apart \ {x}
      /\ UNCHANGED <<kindOf, appRow, asked, audits>>
  BY <1>0 DEF FlushCase, RecordTransition
<1>2. /\ writing \in [phase : Phases, id : Codes \union {NoStatus}, to : RowStatuses]
      /\ appRow \in [Codes -> RowStatuses] /\ apart \subseteq Codes /\ audits \in Nat
      /\ asked \in [Reviewers -> [id : Codes \union {NoStatus}, to : RowStatuses]]
      /\ Still \in [phase : Phases, id : Codes \union {NoStatus}, to : RowStatuses]
      /\ \A c \in Codes : c # NoStatus
  BY UnderWay
<1>3. PICK f : /\ Commit(x, f) /\ Committable(x, f, audits) /\ f.status = appRow[x]
               /\ x \in Codes
  <2>1. CASE FlushCase
    <3>1. /\ x \in Applications /\ x \in Codes /\ appRow[x] = writing.to
          /\ StillEarly(x) => writing.to \notin Late
      BY <1>0, <2>1 DEF FlushCase, FileInv, WritingOK
    <3>2. PICK f : f = upsert_from_request_and_approval(dossier[x], writing.to)
      OBVIOUS
    <3>3. writing.to \in RowStatuses
      BY <1>2
    <3>4. Committable(x, f, audits) /\ f.status = writing.to
      BY <3>1, <3>2, <3>3, ProjectedFile
    <3>. QED  BY <1>0, <2>1, <3>1, <3>2, <3>4 DEF FlushCase
  <2>2. CASE RecordTransition
    <3>1. /\ x \in Subjects /\ x \in Codes /\ appRow[x] = writing.to
          /\ audits > 0 /\ AuditsBelow(dossier[x], audits - 1)
      BY <1>0, <2>2 DEF RecordTransition, FileInv, WritingOK
    <3>2. PICK f : f = upsert_lifecycle(dossier[x], writing.to, audits)
      OBVIOUS
    <3>3. writing.to \in RowStatuses
      BY <1>2
    <3>4. Committable(x, f, audits) /\ f.status = writing.to
      BY <3>1, <3>2, <3>3, LifecycleFile
    <3>. QED  BY <1>0, <2>2, <3>1, <3>2, <3>4 DEF RecordTransition
  <2>. QED  BY <2>1, <2>2
<1>4. audits' \in Nat /\ audits <= audits' /\ Committable(x, f, audits')
  BY <1>1, <1>2, <1>3
<1>5. /\ dossier' \in [Codes -> FileRecords] /\ kept' \in [Codes -> SUBSET Nat]
      /\ dossier'[x] = f /\ (\A d \in Codes \ {x} : dossier'[d] = dossier[d])
      /\ \A d \in Codes : OnFile(d)'
  BY <1>1, <1>3, <1>4, CommitKeeps
<1>6. TwoLevel' = TwoLevel /\ Applications' = Applications
  BY <1>1, KindsStay
<1>7. FileTypeOK'
  BY <1>1, <1>2, <1>5 DEF FileInv, FileTypeOK
<1>8. AskedOK'
  BY <1>1, AskedStays
<1>9. WritingOK' /\ writing'.id = NoStatus
  BY <1>1 DEF WritingOK, Still
<1>10. Anchors(dossier[x]) \subseteq Anchors(f)
  BY <1>3 DEF Committable
<1>11. ASSUME NEW c \in Codes
       PROVE  FileOK(c)'
  <2>1. FileOK(c)
    BY DEF FileInv
  <2>2. StillEarly(c)' => StillEarly(c)
    BY <1>5, <1>6, <1>10 DEF StillEarly
  <2>3. c \notin apart' => dossier'[c].status = appRow'[c]
    BY <1>0, <1>1, <1>3, <1>5, <2>1 DEF FileOK
  <2>. QED  BY <1>1, <1>5, <2>1, <2>2, <2>3 DEF FileOK
<1>. QED  BY <1>7, <1>8, <1>9, <1>11 DEF FileInv

\* A card skill, or the transition of an entry or a resource, takes the lock.
LEMMA BeginKeeps ==
    ASSUME FileInv, NEW x \in Codes, NEW to \in RowStatuses,
           \/ MoveCardOf(x, to)
           \/ x \in Subjects /\ TransitionSubject(x, to)
    PROVE  FileInv'
<1>1. /\ UNCHANGED <<kindOf, dossier, kept, asked, apart>> /\ LockFree
      /\ writing'.id = x /\ writing'.to = to
  BY DEF MoveCardOf, TransitionSubject
<1>2. /\ writing \in [phase : Phases, id : Codes \union {NoStatus}, to : RowStatuses]
      /\ appRow \in [Codes -> RowStatuses] /\ apart \subseteq Codes /\ audits \in Nat
      /\ asked \in [Reviewers -> [id : Codes \union {NoStatus}, to : RowStatuses]]
      /\ writing.id = NoStatus /\ \A c \in Codes : c # NoStatus
  BY <1>1, UnderWay
<1>3. AskedOK'
  BY <1>1, AskedStays
<1>4. /\ Runtime' = Runtime /\ TwoLevel' = TwoLevel
      /\ Subjects' = Subjects /\ Applications' = Applications
  BY <1>1, KindsStay
<1>5. StillEarly(x)' <=> StillEarly(x)
  BY <1>1, <1>4 DEF StillEarly
<1>6. \A c \in Codes \ {x} : c \notin apart' => c \notin apart /\ c # writing.id
  BY <1>1, <1>2
<1>7. FileOK(x)
  BY DEF FileInv
<1>8. CASE MoveCardOf(x, to)
  <2>1. /\ x \in Runtime /\ to \in CardMoves(x) /\ appRow' = appRow /\ audits' = audits
        /\ writing' = [phase |-> "card", id |-> x, to |-> to]
    BY <1>8 DEF MoveCardOf
  <2>2. x \in Applications /\ (StillEarly(x) => to \notin Late)
    BY <2>1, EarlyMoves, KindsApart
  <2>3. WritingOK'
    BY <1>4, <1>5, <2>1, <2>2 DEF WritingOK
  <2>4. writing' \in [phase : Phases, id : Codes \union {NoStatus}, to : RowStatuses]
    BY <2>1 DEF Phases
  <2>5. /\ StillEarly(x) => appRow'[x] \notin Late
        /\ appRow' \in [Codes -> RowStatuses] /\ \A c \in Codes \ {x} : appRow'[c] = appRow[c]
    BY <1>2, <1>7, <2>1 DEF FileOK
  <2>6. audits' \in Nat /\ audits <= audits'
    BY <1>2, <2>1
  <2>7. apart' \subseteq Codes /\ asked' \in [Reviewers -> [id : Codes \union {NoStatus}, to : RowStatuses]]
    BY <1>1, <1>2
  <2>. QED  BY <1>1, <1>3, <1>6, <2>3, <2>4, <2>5, <2>6, <2>7, RowStep
<1>9. CASE x \in Subjects /\ TransitionSubject(x, to)
  <2>1. /\ audits' = audits + 1 /\ appRow' = [appRow EXCEPT ![x] = to]
        /\ writing' = [phase |-> "lifecycle", id |-> x, to |-> to]
    BY <1>9 DEF TransitionSubject, NewAudit
  <2>2. /\ appRow' \in [Codes -> RowStatuses] /\ appRow'[x] = to
        /\ \A c \in Codes \ {x} : appRow'[c] = appRow[c]
    BY <1>2, <2>1
  <2>3. AuditsBelow(dossier[x], audits)
    BY <1>7 DEF FileOK, OnFile
  <2>4. audits' - 1 = audits /\ audits' > 0 /\ audits' \in Nat /\ audits <= audits'
    BY <1>2, <2>1
  <2>5. WritingOK'
    BY <1>1, <1>4, <1>9, <2>1, <2>2, <2>3, <2>4 DEF WritingOK
  <2>6. writing' \in [phase : Phases, id : Codes \union {NoStatus}, to : RowStatuses]
    BY <2>1 DEF Phases
  <2>7. ~StillEarly(x)
    BY <1>9, KindsApart DEF StillEarly
  <2>8. apart' \subseteq Codes /\ asked' \in [Reviewers -> [id : Codes \union {NoStatus}, to : RowStatuses]]
    BY <1>1, <1>2
  <2>. QED  BY <1>1, <1>3, <1>6, <2>2, <2>4, <2>5, <2>6, <2>7, <2>8, RowStep
<1>. QED  BY <1>8, <1>9

\* The status column alone is written.
LEMMA ColumnKeeps ==
    ASSUME FileInv, NEW a \in Applications, NEW to \in {"dispatched", "suspended", "revoked"},
           ColumnOnly(a, to)
    PROVE  FileInv'
<1>1. /\ UNCHANGED <<kindOf, dossier, kept, asked, writing, audits>> /\ LockFree
      /\ appRow' = [appRow EXCEPT ![a] = to] /\ apart' = apart \union {a}
  BY DEF ColumnOnly
<1>2. a \in Codes /\ to \in RowStatuses /\ to \notin Late
  BY KindsApart DEF RowStatuses, Late
<1>3. /\ writing \in [phase : Phases, id : Codes \union {NoStatus}, to : RowStatuses]
      /\ appRow \in [Codes -> RowStatuses] /\ apart \subseteq Codes /\ audits \in Nat
      /\ asked \in [Reviewers -> [id : Codes \union {NoStatus}, to : RowStatuses]]
      /\ writing.id = NoStatus /\ \A c \in Codes : c # NoStatus
  BY <1>1, UnderWay
<1>4. AskedOK'
  BY <1>1, AskedStays
<1>5. /\ appRow' \in [Codes -> RowStatuses] /\ appRow'[a] = to
      /\ \A c \in Codes \ {a} : appRow'[c] = appRow[c]
  BY <1>1, <1>2, <1>3
<1>6. WritingOK'
  <2>1. writing'.phase = "idle" /\ writing'.id = NoStatus
    BY <1>1, <1>3 DEF LockFree
  <2>. QED  BY <2>1 DEF WritingOK
<1>7. /\ \A c \in Codes \ {a} : c \notin apart' => c \notin apart /\ c # writing.id
      /\ apart' \subseteq Codes /\ a \in apart'
  BY <1>1, <1>2, <1>3
<1>8. audits' \in Nat /\ audits <= audits'
  BY <1>1, <1>3
<1>9. /\ writing' \in [phase : Phases, id : Codes \union {NoStatus}, to : RowStatuses]
      /\ asked' \in [Reviewers -> [id : Codes \union {NoStatus}, to : RowStatuses]]
  BY <1>1, <1>3
<1>. QED  BY <1>1, <1>2, <1>4, <1>5, <1>6, <1>7, <1>8, <1>9, RowStep

\* A write breaks off: its file may be left behind its row.
LEMMA BreakKeeps ==
    ASSUME FileInv, BreakOff
    PROVE  FileInv'
<1>0. PICK x : x = writing.id
  OBVIOUS
<1>1. /\ UNCHANGED <<kindOf, appRow, dossier, kept, audits>> /\ writing.phase # "idle"
      /\ writing' = Still /\ apart' = apart \union {x}
      /\ asked' \in {asked, [t \in Reviewers |-> NoAsk]}
  BY <1>0 DEF BreakOff, LockFree
<1>2. /\ appRow \in [Codes -> RowStatuses] /\ apart \subseteq Codes /\ audits \in Nat
      /\ asked \in [Reviewers -> [id : Codes \union {NoStatus}, to : RowStatuses]]
      /\ Still \in [phase : Phases, id : Codes \union {NoStatus}, to : RowStatuses]
      /\ x \in Codes
  BY <1>0, <1>1, UnderWay
<1>3. /\ asked' \in [Reviewers -> [id : Codes \union {NoStatus}, to : RowStatuses]]
      /\ AskedOK'
  <2>1. CASE asked' = asked
    BY <1>1, <1>2, <2>1, AskedStays
  <2>2. CASE asked' = [t \in Reviewers |-> NoAsk]
    <3>1. NoAsk \in [id : Codes \union {NoStatus}, to : RowStatuses] /\ NoAsk.id = NoStatus
      BY DEF NoAsk, NoStatus, RowStatuses
    <3>. QED  BY <2>2, <3>1 DEF AskedOK
  <2>. QED  BY <1>1, <2>1, <2>2
<1>4. WritingOK'
  BY <1>1 DEF WritingOK, Still
<1>5. /\ \A c \in Codes \ {x} : c \notin apart' => c \notin apart /\ c # writing.id
      /\ apart' \subseteq Codes /\ x \in apart'
  BY <1>0, <1>1, <1>2
<1>6. FileOK(x)
  BY <1>2 DEF FileInv
<1>7. /\ StillEarly(x) => appRow'[x] \notin Late
      /\ appRow' \in [Codes -> RowStatuses] /\ \A c \in Codes \ {x} : appRow'[c] = appRow[c]
  BY <1>1, <1>2, <1>6 DEF FileOK
<1>8. /\ audits' \in Nat /\ audits <= audits'
      /\ writing' \in [phase : Phases, id : Codes \union {NoStatus}, to : RowStatuses]
  BY <1>1, <1>2
<1>. QED  BY <1>1, <1>2, <1>3, <1>4, <1>5, <1>7, <1>8, RowStep

-----------------------------------------------------------------------------
(* The theorems about the approval file                                    *)

\* The four writers keep the invariant, whichever of their commits fails.
THEOREM FileInvariance == FilesSpec => []FileInv
<1>1. FilesInit => FileInv
  <2> SUFFICES ASSUME FilesInit
               PROVE  FileInv
    OBVIOUS
  <2>1. /\ kindOf \in [Codes -> Kinds] /\ dossier \in [Codes -> ImportedFiles]
        /\ \A c \in Codes \ Imported : dossier[c] = NoFile
    BY DEF FilesInit
  <2> DEFINE r1 == [no |-> 1, status |-> "completed", audit |-> 0]
             r2 == [no |-> 2, status |-> "completed", audit |-> 0]
             two == [status |-> "approved", cur |-> 2, steps |-> <<r1, r2>>]
  <2>2. ASSUME NEW f \in ImportedFiles
        PROVE  /\ f \in FileRecords /\ Anchors(f) = {} /\ AuditsBelow(f, 0)
               /\ InOrder(f) /\ FromOne(f)
    <3>1. CASE f = NoFile
      <4>1. f.steps = <<>> /\ f.cur = 0 /\ f.status = "none"
        BY <3>1 DEF NoFile, NoStatus
      <4>2. f \in FileRecords
        BY <3>1 DEF NoFile, NoStatus, FileRecords, RowStatuses
      <4>3. DOMAIN f.steps = {}
        BY <4>1
      <4>. QED  BY <4>1, <4>2, <4>3 DEF Anchors, AuditsBelow, InOrder, FromOne
    <3>2. CASE f = two
      <4>1. /\ r1 \in StepRows /\ r1.no = 1 /\ r1.audit = 0
            /\ r2 \in StepRows /\ r2.no = 2 /\ r2.audit = 0
        BY DEF StepRows, StepStatuses
      <4> HIDE DEF r1, r2
      <4>2. /\ f.steps = <<r1, r2>> /\ f.cur = 2 /\ f.status = "approved"
        BY <3>2
      <4>3. /\ f.steps \in Seq(StepRows) /\ Len(f.steps) = 2 /\ DOMAIN f.steps = {1, 2}
            /\ f.steps[1] = r1 /\ f.steps[2] = r2
        BY <4>1, <4>2
      <4>4. f \in FileRecords
        BY <3>2, <4>2, <4>3 DEF FileRecords, RowStatuses
      <4>. QED  BY <4>1, <4>2, <4>3, <4>4 DEF Anchors, AuditsBelow, InOrder, FromOne
    <3>. QED  BY <3>1, <3>2 DEF ImportedFiles
  <2> HIDE DEF r1, r2, two
  <2>3. /\ appRow \in [Codes -> RowStatuses]
        /\ \A c \in Codes : appRow[c] \in {"none", "submitted", "pending"}
        /\ \A c \in Codes \ Imported : appRow[c] = "none"
    BY DEF FilesInit, NoStatus, RowStatuses
  <2>4. /\ kept = [c \in Codes |-> {}] /\ apart = Imported /\ audits = 0 /\ writing = Still
        /\ asked = [t \in Reviewers |-> NoAsk]
    BY DEF FilesInit
  <2>5. dossier \in [Codes -> FileRecords]
    BY <2>1, <2>2
  <2>6. /\ NoAsk \in [id : Codes \union {NoStatus}, to : RowStatuses] /\ NoAsk.id = NoStatus
        /\ Still \in [phase : Phases, id : Codes \union {NoStatus}, to : RowStatuses]
    BY DEF NoAsk, Still, NoStatus, RowStatuses, Phases
  <2>7. FileTypeOK
    BY <2>1, <2>3, <2>4, <2>5, <2>6, KindsApart DEF FileTypeOK
  <2>8. WritingOK /\ AskedOK
    BY <2>4, <2>6 DEF WritingOK, AskedOK, Still
  <2>9. ASSUME NEW c \in Codes
        PROVE  FileOK(c)
    <3>1. dossier[c] \in ImportedFiles
      BY <2>1
    <3>2. OnFile(c)
      BY <2>2, <2>4, <3>1 DEF OnFile
    <3>3. appRow[c] \notin Late
      BY <2>3 DEF Late
    <3>4. c \notin apart => dossier[c].status = appRow[c]
      BY <2>1, <2>3, <2>4 DEF NoFile, NoStatus
    <3>. QED  BY <3>2, <3>3, <3>4 DEF FileOK
  <2>. QED  BY <2>7, <2>8, <2>9 DEF FileInv
<1>2. FileInv /\ [FilesNext]_fileVars => FileInv'
  <2> SUFFICES ASSUME FileInv, [FilesNext]_fileVars
               PROVE  FileInv'
    OBVIOUS
  <2>1. CASE UNCHANGED fileVars
    BY <2>1 DEF fileVars, FileInv, FileTypeOK, FileOK, OnFile, WritingOK, AskedOK, StillEarly,
                Applications, Runtime, TwoLevel, Subjects
  <2>2. ASSUME NEW t \in Reviewers, NEW a \in Applications, NEW to \in ReviewResults,
               CheckReview(t, a, to)
        PROVE  FileInv'
    <3>1. to \in RowStatuses
      BY DEF ReviewResults, RowStatuses
    <3>. QED  BY <2>2, <3>1, AskKeeps DEF CheckReview
  <2>3. ASSUME NEW t \in Reviewers, NEW a \in Applications, NEW to \in LevelResults,
               CheckLevel(t, a, to)
        PROVE  FileInv'
    <3>1. to \in RowStatuses /\ to \notin Late
      BY DEF LevelResults, RowStatuses, Late
    <3>. QED  BY <2>3, <3>1, AskKeeps DEF CheckLevel
  <2>4. ASSUME NEW a \in Runtime, NEW to \in CardMoves(a), MoveCardOf(a, to)
        PROVE  FileInv'
    <3>1. a \in Codes
      BY KindsApart
    <3>. QED  BY <2>4, <3>1, EarlyMoves, BeginKeeps
  <2>5. ASSUME NEW c \in Subjects,
               NEW to \in {"draft", "pending_review", "approved_pending_publish", "active",
                           "retired", "approved", "test_failed"},
               TransitionSubject(c, to)
        PROVE  FileInv'
    <3>1. c \in Codes /\ to \in RowStatuses
      BY KindsApart DEF RowStatuses
    <3>. QED  BY <2>5, <3>1, BeginKeeps
  <2>6. ASSUME NEW c \in Subjects, NEW passes \in BOOLEAN, TestSubject(c, passes)
        PROVE  FileInv'
    <3>1. PICK to \in {"approved", "test_failed"} : TransitionSubject(c, to)
      BY <2>6 DEF TestSubject
    <3>. QED  BY <2>5, <3>1
  <2>7. ASSUME NEW a \in Applications, NEW to \in {"dispatched", "suspended", "revoked"},
               ColumnOnly(a, to)
        PROVE  FileInv'
    BY <2>7, ColumnKeeps
  <2>. QED
    BY <2>1, <2>2, <2>3, <2>4, <2>5, <2>6, <2>7, RecordKeeps, UpdateKeeps, FlushRowKeeps,
       EndKeeps, BreakKeeps
       DEF FilesNext
<1>. QED  BY <1>1, <1>2, PTL DEF FilesSpec

\* What was decided stays on file, its steps are numbered as they were taken and
\* the file tells the status of its row, for any codes, reviewers, card skills and
\* broken writes (upsert_from_request_and_approval,
\* append_application_review_decision, append_conditional_step, _upsert_lifecycle).
THEOREM FilesAreKept == FilesSpec => []ApprovalFileKept
<1>1. FileInv => ApprovalFileKept
  <2> SUFFICES ASSUME FileInv
               PROVE  ApprovalFileKept
    OBVIOUS
  <2>1. DecisionsKept
    BY DEF FileInv, FileOK, OnFile, DecisionsKept
  <2>2. StepsNumbered
    BY KindsApart DEF FileInv, FileOK, OnFile, InOrder, StepsNumbered
  <2>3. FileTellsStatus
    BY UnderWay DEF FileInv, FileOK, FileTellsStatus
  <2>. QED  BY <2>1, <2>2, <2>3 DEF ApprovalFileKept
<1>. QED  BY <1>1, FileInvariance, PTL

-----------------------------------------------------------------------------
(* Delivery records: the inductive invariant                               *)

Codings == AttemptIds \union {"none"} \union AuditIds

TaskStates == {"pending", "failed", "warning", "supplementing", "reconciling", "replaced",
               "cancelled", "completed"}

CardStatuses == ReceiptStates \union {"none", "granted", "reconciled"}

DeliveryCards == [kind : {"runtime", "imported", "absent"}, state : TaskStates,
                  receiptStatus : CardStatuses, receiptNo : ReceiptNos \union {"none", Reconciled},
                  confirmed : BOOLEAN]

ReceiptRows == [no : ReceiptNos \union {Unnumbered, Candidate, Reconciled} \union AuditIds,
                status : ReceiptStates \union {"issued", "reconciled", "acknowledged", "rejected"},
                projected : BOOLEAN, type : {"provision", "exchange", "file_download"}]

CommitRows ==
    [do : {"attempt", "evidence"}, code : Codings, state : ExchangeStates \union ReceiptStates,
     executor : {"builtin_exchange", "exchange_receipt"}]
    \union [do : {"metric"}, success : {0, 1}, failed : {0, 1}]
    \union [do : {"receipt"}, no : ReceiptNos \union {Unnumbered} \union AuditIds,
            status : ReceiptStates \union {"issued"}, noted : BOOLEAN,
            type : {"exchange", "file_download"}]
    \union [do : {"state"}, state : {"replaced", "cancelled"}]
    \union [do : {"subscription"}, status : {"active", "paused", "cancelled"}]
    \union [do : {"terminate", "flush"}]

\* The skills that may change what a reader is told, and the others.
Telltales == {"ingest", "reconcile", "download", "grant"}
OtherSkills == {"exchange", "recovery", "withdraw", "subscribe", "terminate", "confirm",
                "move", "touch"}

SkillRecords == [name : Telltales \union OtherSkills, task : Deliveries, audit : AuditIds,
                 card : DeliveryCards, commits : Seq(CommitRows)]

GivenIds == {DeliveryAudits[i] : i \in 1 .. given}

DeliveryTypeOK ==
    /\ delivery \in [Deliveries -> DeliveryCards]
    /\ receipts \in [Deliveries -> Seq(ReceiptRows)]
    /\ skill = NoSkill \/ skill \in SkillRecords
    /\ ackedReceipt \in [Deliveries -> CardStatuses]
    /\ shown \in [Deliveries -> CardStatuses \union {"any"}]
    /\ given \in 0 .. Len(DeliveryAudits)
    /\ skill # NoSkill => given > 0 /\ skill.audit = DeliveryAudits[given]

\* The commits a skill has still to make, in their order.
PlanOK(sk) ==
    \A i \in DOMAIN sk.commits :
        LET c == sk.commits[i]
        IN /\ c.do = "flush" => i = Len(sk.commits)
           /\ c.do = "attempt" =>
                 /\ i = 1 /\ Len(sk.commits) > 1 /\ sk.name = "exchange"
                 /\ sk.commits[2].do = "evidence" /\ sk.commits[2].code = c.code
                 /\ sk.commits[2].state = c.state
           /\ c.do = "evidence" =>
                 /\ c.executor = "builtin_exchange" => sk.name = "exchange"
                 /\ sk.name = "exchange" => i = 1 \/ (i = 2 /\ sk.commits[1].do = "attempt")
                 /\ \A j \in DOMAIN sk.commits : sk.commits[j].do = "evidence" => j = i
           /\ c.do = "receipt" =>
                 /\ i = 1
                 /\ \/ /\ sk.name = "download" /\ c.no = sk.audit /\ c.type = "file_download"
                    \/ /\ sk.name = "ingest" /\ c.no \notin AuditIds
                       /\ c.status = sk.card.receiptStatus
                       /\ c.no # Unnumbered => sk.card.receiptNo = c.no
           /\ sk.name = "download" => c.do = "receipt"
           /\ sk.name = "reconcile" => c.do = "flush"

\* Attempts and evidence are those of audit ids given out; an attempt without evidence is
\* one of a skill that broke off or is about to write it.
EvidenceOK ==
    /\ DOMAIN evidenceOf \subseteq GivenIds /\ brokenOff \subseteq GivenIds
    /\ \A e \in DOMAIN evidenceOf : evidenceOf[e].executor = "builtin_exchange" =>
           evidenceOf[e].attempt \in DOMAIN exchanges
    /\ \A c \in DOMAIN exchanges :
           /\ exchanges[c].evidence \in GivenIds
           /\ exchanges[c].evidence \in DOMAIN evidenceOf =>
                 evidenceOf[exchanges[c].evidence].status = exchanges[c].state
           /\ exchanges[c].evidence \notin DOMAIN evidenceOf \union brokenOff =>
                 /\ skill # NoSkill /\ exchanges[c].evidence = skill.audit
                 /\ skill.commits # <<>> /\ skill.commits[1].do = "evidence"
                 /\ skill.commits[1].state = exchanges[c].state
    /\ skill # NoSkill =>
           /\ skill.audit \notin brokenOff
           /\ (\E i \in DOMAIN skill.commits : skill.commits[i].do = "evidence") =>
                 skill.audit \notin DOMAIN evidenceOf
           /\ (skill.name # "exchange" \/ (skill.commits # <<>> /\ skill.commits[1].do = "attempt")) =>
                 \A c \in DOMAIN exchanges : exchanges[c].evidence # skill.audit
           /\ (skill.name = "exchange" /\ skill.commits # <<>> /\ skill.commits[1].do = "evidence") =>
                 skill.commits[1].code \in DOMAIN exchanges

\* The one receipt of a link.
HasLink(rows, a) ==
    \E i \in DOMAIN rows :
        /\ rows[i].no = a /\ rows[i].type = "file_download"
        /\ \A j \in DOMAIN rows : rows[j].no = a => j = i

LinksOK ==
    /\ handedOut \subseteq GivenIds
    /\ \A t \in Deliveries : \A i \in DOMAIN receipts[t] :
           receipts[t][i].no \in AuditIds => receipts[t][i].no \in GivenIds
    /\ \A a \in handedOut : \E t \in Deliveries : HasLink(receipts[t], a)
    /\ skill # NoSkill => skill.audit \notin handedOut
    /\ skill # NoSkill /\ skill.name = "download" =>
           IF skill.commits = <<>> THEN HasLink(receipts[skill.task], skill.audit)
           ELSE \A i \in DOMAIN receipts[skill.task] : receipts[skill.task][i].no # skill.audit

\* The card of the skill under way, and the row it is flushed to.
PendingFlush(sk) == \E i \in DOMAIN sk.commits : sk.commits[i].do = "flush"

CardOK ==
    /\ skill # NoSkill =>
           /\ delivery[skill.task].kind = "runtime" =>
                 \/ PendingFlush(skill)
                 \/ /\ delivery[skill.task].receiptStatus = skill.card.receiptStatus
                    /\ delivery[skill.task].receiptNo = skill.card.receiptNo
           /\ delivery[skill.task].kind = "runtime" /\ skill.name \in OtherSkills =>
                 /\ delivery[skill.task].receiptStatus = skill.card.receiptStatus
                 /\ delivery[skill.task].receiptNo = skill.card.receiptNo
           /\ PendingFlush(skill) /\ skill.name # "grant" => delivery[skill.task].kind = "runtime"
           /\ skill.name = "reconcile" =>
                 skill.card.receiptStatus = "reconciled" /\ skill.card.receiptNo = Reconciled
    /\ \A t \in Deliveries :
           (/\ delivery[t].kind = "runtime" /\ t \notin unanswered
            /\ ~(skill # NoSkill /\ skill.task = t /\ skill.commits = <<>>)) =>
               ackedReceipt[t] \in {"none", delivery[t].receiptStatus}

LastReceipt(t) == receipts[t][Len(receipts[t])]

Numbered(t, card) == \E i \in DOMAIN receipts[t] : receipts[t][i].no = CardNumber(card)

\* The last receipt is one that no flush writes over, or one that later flushes write again as it is.
Settled(t) ==
    \/ LeftAsItIs(LastReceipt(t))
    \/ LastReceipt(t).status = "reconciled" /\ delivery[t].receiptStatus = "reconciled"

\* What the skill under way on a runtime task has put down for its answer.
AnswerOK(t) ==
    /\ (skill.name = "ingest" /\ (skill.commits = <<>> \/ skill.commits[1].do # "receipt")) =>
          /\ receipts[t] # <<>> /\ Numbered(t, skill.card)
          /\ LeftAsItIs(LastReceipt(t)) => LastReceipt(t).status = skill.card.receiptStatus
    /\ (/\ skill.name = "ingest" /\ skill.commits # <<>> /\ skill.commits[1].do = "receipt"
        /\ skill.commits[1].no = Unnumbered) =>
          skill.card.receiptNo = delivery[t].receiptNo
    /\ (/\ skill.name = "reconcile" /\ skill.commits = <<>>
        /\ LastReceipt(t).no = Reconciled) => LastReceipt(t).status = "reconciled"

ReadersOK ==
    /\ \A t \in Deliveries :
           /\ delivery[t].kind = "runtime" => Numbered(t, delivery[t])
           /\ \A i \in DOMAIN receipts[t] : receipts[t][i].no = Reconciled => receipts[t][i].projected
           /\ shown[t] # "any" => delivery[t].kind = "runtime"
           /\ shown[t] # "any" /\ ~(skill # NoSkill /\ skill.task = t /\ skill.name \in Telltales) =>
                 LastReceipt(t).status = shown[t] /\ Settled(t)
    /\ skill # NoSkill /\ delivery[skill.task].kind = "runtime" => AnswerOK(skill.task)

DeliveryInv ==
    /\ DeliveryTypeOK
    /\ skill # NoSkill => PlanOK(skill)
    /\ EvidenceOK
    /\ LinksOK
    /\ CardOK
    /\ ReadersOK

-----------------------------------------------------------------------------
(* Beginning                                                               *)

\* What a skill brings that begins.
StartOK(sk) ==
    /\ PlanOK(sk)
    /\ sk.name = "exchange" => sk.commits # <<>> /\ sk.commits[1].do = "attempt"
    /\ sk.name \in {"download", "ingest"} => sk.commits # <<>> /\ sk.commits[1].do = "receipt"
    /\ delivery[sk.task].kind = "runtime" =>
          /\ \/ PendingFlush(sk)
             \/ /\ delivery[sk.task].receiptStatus = sk.card.receiptStatus
                /\ delivery[sk.task].receiptNo = sk.card.receiptNo
          /\ sk.name \in OtherSkills =>
                /\ delivery[sk.task].receiptStatus = sk.card.receiptStatus
                /\ delivery[sk.task].receiptNo = sk.card.receiptNo
          /\ sk.name = "ingest" /\ sk.commits[1].no = Unnumbered =>
                sk.card.receiptNo = delivery[sk.task].receiptNo
          /\ sk.name = "reconcile" => sk.commits # <<>>
    /\ PendingFlush(sk) /\ sk.name # "grant" => delivery[sk.task].kind = "runtime"
    /\ sk.name = "reconcile" => sk.card.receiptStatus = "reconciled" /\ sk.card.receiptNo = Reconciled

\* The next audit id is new.
LEMMA AuditIsNew ==
    ASSUME DeliveryTypeOK, given < Len(DeliveryAudits)
    PROVE  /\ NextAudit \in AuditIds /\ NextAudit \notin GivenIds
           /\ GivenIds \subseteq AuditIds
           /\ NextAudit \notin ReceiptNos \union {Unnumbered, Candidate, Reconciled, "none"}
<1>1. /\ given \in 0 .. Len(DeliveryAudits) /\ Len(DeliveryAudits) \in Nat
      /\ DOMAIN DeliveryAudits = 1 .. Len(DeliveryAudits)
  BY DeliveryAssumption DEF DeliveryTypeOK
<1>2. NextAudit \in AuditIds
  BY <1>1 DEF NextAudit, AuditIds
<1>3. NextAudit \notin GivenIds /\ GivenIds \subseteq AuditIds
  BY <1>1, DeliveryAssumption DEF NextAudit, GivenIds, AuditIds
<1> QED BY <1>2, <1>3, DeliveryAssumption

LEMMA SkillBegins ==
    ASSUME DeliveryInv, NEW name \in Telltales \union OtherSkills, NEW t \in Deliveries,
           NEW card \in DeliveryCards, NEW commits \in Seq(CommitRows),
           Begin(name, t, card, commits),
           StartOK([name |-> name, task |-> t, audit |-> NextAudit, card |-> card,
                    commits |-> commits])
    PROVE  DeliveryInv'
<1> DEFINE new == [name |-> name, task |-> t, audit |-> NextAudit, card |-> card,
                   commits |-> commits]
<1>1. PICK sk : sk = new
  OBVIOUS
<1>2. /\ skill = NoSkill /\ given < Len(DeliveryAudits) /\ given' = given + 1 /\ skill' = sk
      /\ UNCHANGED <<delivery, receipts, exchanges, evidenceOf, handedOut, brokenOff>>
      /\ UNCHANGED <<ackedReceipt, shown, unanswered>>
  BY <1>1 DEF Begin, NextAudit, rowsOfDelivery, tellings
<1>3. /\ sk.name = name /\ sk.task = t /\ sk.audit = NextAudit /\ sk.card = card
      /\ sk.commits = commits /\ StartOK(sk)
  BY <1>1
<1>4. sk \in SkillRecords /\ sk # NoSkill
  <2>1. NextAudit \in AuditIds
    BY <1>2, AuditIsNew DEF DeliveryInv
  <2>2. sk \in SkillRecords
    BY <1>1, <2>1 DEF SkillRecords
  <2>3. NoSkill.name = "none" /\ name # "none"
    BY DEF NoSkill, Telltales, OtherSkills
  <2> QED BY <1>3, <2>2, <2>3
<1>5. /\ NextAudit \in AuditIds /\ NextAudit \notin GivenIds /\ GivenIds \subseteq AuditIds
      /\ given \in Nat /\ Len(DeliveryAudits) \in Nat
  BY <1>2, AuditIsNew, DeliveryAssumption DEF DeliveryInv, DeliveryTypeOK
<1>6. GivenIds \subseteq GivenIds' /\ NextAudit \in GivenIds'
  BY <1>2, <1>5 DEF GivenIds, NextAudit
<1>7. DeliveryTypeOK'
  BY <1>2, <1>3, <1>4, <1>5 DEF DeliveryInv, DeliveryTypeOK, NextAudit
<1>8. PlanOK(skill)'
  <2>1. PlanOK(sk)
    BY <1>3 DEF StartOK
  <2> QED BY <1>2, <2>1 DEF PlanOK
<1>9. EvidenceOK'
  <2>1. EvidenceOK
    BY DEF DeliveryInv
  <2>2. \A c \in DOMAIN exchanges : exchanges[c].evidence # sk.audit
    BY <1>3, <1>5, <2>1 DEF EvidenceOK
  <2>3. sk.audit \notin DOMAIN evidenceOf /\ sk.audit \notin brokenOff
    BY <1>3, <1>5, <2>1 DEF EvidenceOK
  <2>4. ~(sk.name = "exchange" /\ sk.commits # <<>> /\ sk.commits[1].do = "evidence")
    BY <1>3 DEF StartOK
  <2> QED BY <1>2, <1>6, <2>1, <2>2, <2>3, <2>4 DEF EvidenceOK
<1>10. LinksOK'
  <2>1. LinksOK
    BY DEF DeliveryInv
  <2>2. sk.audit \notin handedOut
    BY <1>3, <1>5, <2>1 DEF LinksOK
  <2>3. \A i \in DOMAIN receipts[t] : receipts[t][i].no # sk.audit
    BY <1>3, <1>5, <2>1 DEF LinksOK
  <2>4. sk.name = "download" => sk.commits # <<>>
    BY <1>3 DEF StartOK
  <2> QED BY <1>2, <1>3, <1>6, <2>1, <2>2, <2>3, <2>4 DEF LinksOK
<1>11. CardOK'
  <2>1. CardOK
    BY DEF DeliveryInv
  <2>2. \A u \in Deliveries : delivery[u].kind = "runtime" /\ u \notin unanswered =>
            ackedReceipt[u] \in {"none", delivery[u].receiptStatus}
    BY <1>2, <2>1 DEF CardOK
  <2> QED BY <1>2, <1>3, <2>2 DEF CardOK, StartOK, PendingFlush
<1>12. ReadersOK'
  <2>1. ReadersOK
    BY DEF DeliveryInv
  <2>2. AnswerOK(t)' \/ delivery[t].kind # "runtime"
    BY <1>2, <1>3 DEF AnswerOK, StartOK
  <2>3. \A u \in Deliveries :
           /\ delivery[u].kind = "runtime" => Numbered(u, delivery[u])
           /\ \A i \in DOMAIN receipts[u] : receipts[u][i].no = Reconciled => receipts[u][i].projected
           /\ shown[u] # "any" => delivery[u].kind = "runtime"
           /\ shown[u] # "any" => LastReceipt(u).status = shown[u] /\ Settled(u)
    BY <1>2, <2>1 DEF ReadersOK
  <2>4. \A u \in Deliveries :
           /\ (Numbered(u, delivery[u]) => Numbered(u, delivery[u])')
           /\ (LastReceipt(u) = LastReceipt(u)') /\ (Settled(u) => Settled(u)')
    BY <1>2 DEF Numbered, LastReceipt, Settled, LeftAsItIs
  <2> QED BY <1>2, <1>3, <2>2, <2>3, <2>4 DEF ReadersOK, AnswerOK
<1> QED BY <1>7, <1>8, <1>9, <1>10, <1>11, <1>12 DEF DeliveryInv

\* The card of a task, and its flush.
LEMMA CardOfTask ==
    ASSUME DeliveryInv, NEW t \in Deliveries
    PROVE  /\ by_id(t) \in DeliveryCards /\ delivery[t] \in DeliveryCards
           /\ by_id(t).kind = delivery[t].kind
           /\ delivery[t].kind = "runtime" =>
                 /\ by_id(t).receiptStatus = delivery[t].receiptStatus
                 /\ by_id(t).receiptNo = delivery[t].receiptNo
<1>1. delivery[t] \in DeliveryCards
  BY DEF DeliveryInv, DeliveryTypeOK
<1> QED BY <1>1 DEF by_id, DeliveryCards, CardStatuses

LEMMA FlushOfTask ==
    ASSUME NEW t \in Deliveries
    PROVE  /\ Flushes(t) \in Seq(CommitRows)
           /\ delivery[t].kind = "runtime" =>
                 Len(Flushes(t)) = 1 /\ Flushes(t)[1].do = "flush" /\ Flushes(t) # <<>>
           /\ delivery[t].kind # "runtime" => Len(Flushes(t)) = 0 /\ Flushes(t) = <<>>
<1>1. [do |-> "flush"] \in CommitRows
  BY DEF CommitRows
<1> QED BY <1>1 DEF Flushes

\* A plan without attempts, evidence and receipts.
LEMMA PlainPlan ==
    ASSUME NEW sk, sk.name # "download",
           \A i \in DOMAIN sk.commits :
               /\ sk.commits[i].do \notin {"attempt", "evidence", "receipt"}
               /\ sk.commits[i].do = "flush" => i = Len(sk.commits)
               /\ sk.name = "reconcile" => sk.commits[i].do = "flush"
    PROVE  PlanOK(sk)
BY DEF PlanOK

\* Concatenation, element by element.
LEMMA Concatenated ==
    ASSUME NEW S, NEW p \in Seq(S), NEW q \in Seq(S), NEW i \in Nat
    PROVE  /\ p \o q \in Seq(S) /\ Len(p \o q) = Len(p) + Len(q)
           /\ i \in 1 .. Len(p) => (p \o q)[i] = p[i]
           /\ i \in Len(p) + 1 .. Len(p) + Len(q) => (p \o q)[i] = q[i - Len(p)]
OBVIOUS

\* The plan q is p, and for a runtime task the flush.
ThenFlush(t, p, q) ==
    /\ q \in Seq(CommitRows) /\ Len(q) \in Nat /\ DOMAIN q = 1 .. Len(q) /\ Len(q) >= Len(p)
    /\ \A i \in 1 .. Len(p) : q[i] = p[i]
    /\ \A i \in DOMAIN q :
          \/ i \in 1 .. Len(p)
          \/ i = Len(q) /\ q[i].do = "flush" /\ delivery[t].kind = "runtime"
    /\ delivery[t].kind = "runtime" => Len(q) > 0 /\ q[Len(q)].do = "flush"

LEMMA FlushComesLast ==
    ASSUME NEW t \in Deliveries, NEW p \in Seq(CommitRows)
    PROVE  ThenFlush(t, p, p \o Flushes(t))
<1>1. PICK f : f = Flushes(t)
  OBVIOUS
<1>2. /\ f \in Seq(CommitRows) /\ Len(f) \in {0, 1}
      /\ Len(f) = 1 <=> delivery[t].kind = "runtime"
      /\ Len(f) = 1 => f[1].do = "flush"
  BY <1>1, FlushOfTask
<1>3. PICK q : q = p \o f
  OBVIOUS
<1>4. q \in Seq(CommitRows) /\ Len(q) = Len(p) + Len(f) /\ Len(p) \in Nat
  BY <1>2, <1>3, Concatenated
<1>5. DOMAIN q = 1 .. Len(q) /\ Len(q) \in Nat
  BY <1>4
<1>6. ASSUME NEW i \in 1 .. Len(p)
      PROVE  q[i] = p[i]
  <2>1. i \in Nat
    BY <1>4
  <2> QED BY <1>2, <1>3, <2>1, Concatenated
<1>7. ASSUME Len(f) = 1
      PROVE  q[Len(q)] = f[1]
  <2>1. Len(q) \in Nat /\ Len(q) \in Len(p) + 1 .. Len(p) + Len(f) /\ Len(q) - Len(p) = 1
    BY <1>4, <1>7
  <2> QED BY <1>2, <1>3, <2>1, Concatenated
<1>8. ASSUME NEW i \in DOMAIN q, i \notin 1 .. Len(p)
      PROVE  i = Len(q) /\ Len(f) = 1
  <2>1. i \in 1 .. Len(q)
    BY <1>5, <1>8
  <2>2. i \in Nat /\ i > Len(p) /\ i <= Len(p) + Len(f) /\ Len(f) \in {0, 1}
    BY <1>2, <1>4, <1>8, <2>1
  <2>3. Len(f) = 1
    BY <1>4, <2>2
  <2>4. i <= Len(p) + 1 /\ Len(q) = Len(p) + 1 /\ i > Len(p)
    BY <1>4, <2>2, <2>3
  <2> QED BY <1>4, <2>2, <2>3, <2>4
<1> QED BY <1>1, <1>2, <1>3, <1>4, <1>5, <1>6, <1>7, <1>8 DEF ThenFlush

\* Skills that change only the card.
LEMMA CardSkills ==
    ASSUME DeliveryInv, NEW t \in Deliveries,
           \/ reconcile_delivery_receipt(t) \/ trigger_delivery_recovery(t) \/ TouchCard(t)
           \/ confirm_backflow(t)
           \/ \E s \in {"warning", "supplementing", "reconciling"} : MoveTask(t, s)
           \/ GrantAccess(t)
    PROVE  DeliveryInv'
<1>1. PICK card : card = by_id(t)
  OBVIOUS
<1>2. /\ card \in DeliveryCards /\ card.kind = delivery[t].kind
      /\ delivery[t].kind = "runtime" =>
            card.receiptStatus = delivery[t].receiptStatus /\ card.receiptNo = delivery[t].receiptNo
  BY <1>1, CardOfTask
<1>3. PICK q : q = Flushes(t)
  OBVIOUS
<1>4. /\ q \in Seq(CommitRows) /\ DOMAIN q = 1 .. Len(q)
      /\ delivery[t].kind = "runtime" => Len(q) = 1 /\ q[1].do = "flush" /\ q # <<>>
      /\ delivery[t].kind # "runtime" => Len(q) = 0 /\ q = <<>>
  BY <1>3, FlushOfTask
<1>5. ASSUME NEW name \in {"reconcile", "recovery", "confirm", "move", "touch"}, NEW k \in DeliveryCards,
             Begin(name, t, k, q),
             name # "reconcile" => k.receiptStatus = card.receiptStatus /\ k.receiptNo = card.receiptNo,
             name = "reconcile" => k.receiptStatus = "reconciled" /\ k.receiptNo = Reconciled
      PROVE  DeliveryInv'
  <2>1. PICK sk : sk = [name |-> name, task |-> t, audit |-> NextAudit, card |-> k, commits |-> q]
    OBVIOUS
  <2>2. sk.name = name /\ sk.task = t /\ sk.card = k /\ sk.commits = q
    BY <2>1
  <2>3. PlanOK(sk)
    <3>1. \A i \in DOMAIN q : i = Len(q) /\ q[i].do = "flush"
      BY <1>4
    <3> QED BY <1>5, <2>2, <3>1, PlainPlan
  <2>4. PendingFlush(sk) <=> delivery[t].kind = "runtime"
    BY <1>4, <2>2 DEF PendingFlush
  <2>5. StartOK(sk)
    BY <1>2, <1>4, <1>5, <2>2, <2>3, <2>4 DEF StartOK, OtherSkills
  <2> QED BY <1>4, <1>5, <2>1, <2>5, SkillBegins DEF Telltales, OtherSkills
<1>6. CASE reconcile_delivery_receipt(t)
  <2>1. PICK k : k = [card EXCEPT !.receiptStatus = "reconciled", !.receiptNo = Reconciled]
    OBVIOUS
  <2>2. k \in DeliveryCards /\ k.receiptStatus = "reconciled" /\ k.receiptNo = Reconciled
    BY <1>2, <2>1 DEF DeliveryCards, CardStatuses
  <2>3. Begin("reconcile", t, k, q)
    BY <1>1, <1>3, <1>6, <2>1 DEF reconcile_delivery_receipt
  <2> QED BY <1>5, <2>2, <2>3
<1>7. CASE trigger_delivery_recovery(t)
  <2>1. PICK k : k = [card EXCEPT !.state = "warning"]
    OBVIOUS
  <2>2. k \in DeliveryCards /\ k.receiptStatus = card.receiptStatus /\ k.receiptNo = card.receiptNo
    BY <1>2, <2>1 DEF DeliveryCards, TaskStates
  <2>3. Begin("recovery", t, k, q)
    BY <1>1, <1>3, <1>7, <2>1 DEF trigger_delivery_recovery
  <2> QED BY <1>5, <2>2, <2>3
<1>8. CASE TouchCard(t)
  <2>1. Begin("touch", t, card, q)
    BY <1>1, <1>3, <1>8 DEF TouchCard
  <2> QED BY <1>2, <1>5, <2>1
<1>9. CASE GrantAccess(t)
  <2>1. PICK k : k = [card EXCEPT !.state = "completed",
                             !.receiptStatus = IF @ = "none" THEN "granted" ELSE @]
    OBVIOUS
  <2>2. k \in DeliveryCards
    <3>1. PICK s : s = IF card.receiptStatus = "none" THEN "granted" ELSE card.receiptStatus
      OBVIOUS
    <3>2. s \in CardStatuses
      BY <1>2, <3>1 DEF DeliveryCards, CardStatuses
    <3>3. k = [card EXCEPT !.state = "completed", !.receiptStatus = s]
      BY <1>2, <2>1, <3>1 DEF DeliveryCards
    <3> QED BY <1>2, <3>2, <3>3 DEF DeliveryCards, TaskStates
  <2>3. PICK r : r = <<[do |-> "flush"]>>
    OBVIOUS
  <2>4. r \in Seq(CommitRows) /\ Len(r) = 1 /\ r[1].do = "flush" /\ r # <<>>
    BY <2>3 DEF CommitRows
  <2>5. Begin("grant", t, k, r)
    BY <1>1, <1>9, <2>1, <2>3 DEF GrantAccess
  <2>6. PICK sk : sk = [name |-> "grant", task |-> t, audit |-> NextAudit, card |-> k, commits |-> r]
    OBVIOUS
  <2>7. sk.name = "grant" /\ sk.task = t /\ sk.card = k /\ sk.commits = r
    BY <2>6
  <2>8. PlanOK(sk) /\ PendingFlush(sk)
    BY <2>4, <2>7 DEF PlanOK, PendingFlush
  <2>9. StartOK(sk)
    BY <2>4, <2>7, <2>8 DEF StartOK, OtherSkills
  <2> QED BY <2>2, <2>4, <2>5, <2>6, <2>9, SkillBegins DEF Telltales
<1>10. CASE confirm_backflow(t)
  <2>1. PICK k : k = [card EXCEPT !.state = "completed", !.confirmed = TRUE]
    OBVIOUS
  <2>2. k \in DeliveryCards /\ k.receiptStatus = card.receiptStatus /\ k.receiptNo = card.receiptNo
    BY <1>2, <2>1 DEF DeliveryCards, TaskStates
  <2>3. Begin("confirm", t, k, q)
    BY <1>1, <1>3, <1>10, <2>1 DEF confirm_backflow
  <2> QED BY <1>5, <2>2, <2>3
<1>11. CASE \E s \in {"warning", "supplementing", "reconciling"} : MoveTask(t, s)
  <2>1. PICK s \in {"warning", "supplementing", "reconciling"} : MoveTask(t, s)
    BY <1>11
  <2>2. PICK k : k = [card EXCEPT !.state = s, !.confirmed = FALSE]
    OBVIOUS
  <2>3. k \in DeliveryCards /\ k.receiptStatus = card.receiptStatus /\ k.receiptNo = card.receiptNo
    BY <1>2, <2>2 DEF DeliveryCards, TaskStates
  <2>4. Begin("move", t, k, q)
    BY <1>1, <1>3, <2>1, <2>2 DEF MoveTask
  <2> QED BY <1>5, <2>3, <2>4
<1> QED BY <1>6, <1>7, <1>8, <1>9, <1>10, <1>11

\* Skills with one commit before the flush.
LEMMA OneCommitSkills ==
    ASSUME DeliveryInv, NEW t \in Deliveries,
           \/ \E s \in {"replaced", "cancelled"} : replace_or_cancel_delivery(t, s)
           \/ \E s \in {"active", "paused", "cancelled"} : manage_delivery_subscription(t, s)
           \/ TerminateSubscription(t)
    PROVE  DeliveryInv'
<1>1. PICK card : card = by_id(t)
  OBVIOUS
<1>2. /\ card \in DeliveryCards /\ card.kind = delivery[t].kind
      /\ delivery[t].kind = "runtime" =>
            card.receiptStatus = delivery[t].receiptStatus /\ card.receiptNo = delivery[t].receiptNo
  BY <1>1, CardOfTask
<1>3. ASSUME NEW c \in CommitRows
      PROVE  ThenFlush(t, <<c>>, <<c>> \o Flushes(t))
  <2>1. <<c>> \in Seq(CommitRows)
    OBVIOUS
  <2> QED BY <2>1, FlushComesLast
<1>5. ASSUME NEW name \in {"withdraw", "subscribe", "terminate"}, NEW k \in DeliveryCards,
             NEW c \in CommitRows, c.do \in {"state", "subscription", "terminate"},
             NEW q \in Seq(CommitRows), q = <<c>> \/ ThenFlush(t, <<c>>, q),
             Begin(name, t, k, q), k.receiptStatus = card.receiptStatus, k.receiptNo = card.receiptNo
      PROVE  DeliveryInv'
  <2>1. PICK sk : sk = [name |-> name, task |-> t, audit |-> NextAudit, card |-> k, commits |-> q]
    OBVIOUS
  <2>2. sk.name = name /\ sk.task = t /\ sk.card = k /\ sk.commits = q
    BY <2>1
  <2>3. \A i \in DOMAIN q :
           \/ i = 1 /\ q[i] = c
           \/ i = Len(q) /\ q[i].do = "flush" /\ delivery[t].kind = "runtime"
    <3>1. CASE q = <<c>>
      <4>1. DOMAIN q = 1 .. 1 /\ q[1] = c
        BY <3>1
      <4> QED BY <4>1
    <3>2. CASE ThenFlush(t, <<c>>, q)
      <4>1. PICK p : p = <<c>>
        OBVIOUS
      <4>2. Len(p) = 1 /\ p[1] = c
        BY <4>1
      <4>3. ThenFlush(t, p, q)
        BY <3>2, <4>1
      <4> QED BY <4>2, <4>3 DEF ThenFlush
    <3> QED BY <1>5, <3>1, <3>2
  <2>4. PlanOK(sk)
    BY <1>5, <2>2, <2>3, PlainPlan
  <2>5. PendingFlush(sk) => delivery[t].kind = "runtime"
    BY <1>5, <2>2, <2>3 DEF PendingFlush
  <2>6. StartOK(sk)
    BY <1>2, <1>5, <2>2, <2>4, <2>5 DEF StartOK, OtherSkills
  <2> QED BY <1>5, <2>1, <2>6, SkillBegins DEF Telltales, OtherSkills
<1>7. ASSUME NEW s \in {"replaced", "cancelled"}, replace_or_cancel_delivery(t, s) PROVE DeliveryInv'
  <2>1. PICK k : k = [card EXCEPT !.state = s]
    OBVIOUS
  <2>2. k \in DeliveryCards /\ k.receiptStatus = card.receiptStatus /\ k.receiptNo = card.receiptNo
    BY <1>2, <2>1 DEF DeliveryCards, TaskStates
  <2>3. PICK c : c = [do |-> "state", state |-> s]
    OBVIOUS
  <2>4. c \in CommitRows /\ c.do = "state"
    BY <2>3 DEF CommitRows
  <2>5. PICK q : q = <<c>> \o Flushes(t)
    OBVIOUS
  <2>6. Begin("withdraw", t, k, q)
    BY <1>1, <1>7, <2>1, <2>3, <2>5 DEF replace_or_cancel_delivery
  <2>7. ThenFlush(t, <<c>>, q) /\ q \in Seq(CommitRows)
    BY <1>3, <2>4, <2>5 DEF ThenFlush
  <2> QED BY <1>5, <2>2, <2>4, <2>6, <2>7
<1>8. ASSUME NEW s \in {"active", "paused", "cancelled"}, manage_delivery_subscription(t, s)
      PROVE  DeliveryInv'
  <2>1. PICK c : c = [do |-> "subscription", status |-> s]
    OBVIOUS
  <2>2. c \in CommitRows /\ c.do = "subscription"
    BY <2>1 DEF CommitRows
  <2>3. PICK q : q = <<c>> \o Flushes(t)
    OBVIOUS
  <2>4. Begin("subscribe", t, card, q)
    BY <1>1, <1>8, <2>1, <2>3 DEF manage_delivery_subscription
  <2>5. ThenFlush(t, <<c>>, q) /\ q \in Seq(CommitRows)
    BY <1>3, <2>2, <2>3 DEF ThenFlush
  <2> QED BY <1>2, <1>5, <2>2, <2>4, <2>5
<1>9. CASE TerminateSubscription(t)
  <2>1. PICK c : c = [do |-> "terminate"]
    OBVIOUS
  <2>2. c \in CommitRows /\ c.do = "terminate"
    BY <2>1 DEF CommitRows
  <2>3. PICK q : q = <<c>>
    OBVIOUS
  <2>4. q \in Seq(CommitRows) /\ q[1] = c /\ Len(q) = 1
    BY <2>2, <2>3
  <2>5. Begin("terminate", t, card, q)
    BY <1>1, <1>9, <2>1, <2>3 DEF TerminateSubscription
  <2> QED BY <1>2, <1>5, <2>2, <2>4, <2>5
<1> QED BY <1>7, <1>8, <1>9

\* The exchange skills: attempt, evidence and metric before the flush.
LEMMA ExchangeSkills ==
    ASSUME DeliveryInv, NEW t \in Deliveries, NEW s \in ExchangeStates,
           NEW a \in AttemptIds \union {"none"}, Exchange(t, s, a)
    PROVE  DeliveryInv'
<1>1. PICK card : card = by_id(t)
  OBVIOUS
<1>2. /\ card \in DeliveryCards /\ card.kind = delivery[t].kind
      /\ delivery[t].kind = "runtime" =>
            card.receiptStatus = delivery[t].receiptStatus /\ card.receiptNo = delivery[t].receiptNo
  BY <1>1, CardOfTask
<1>3. PICK code : code = IF a = "none" THEN NextAudit ELSE a
  OBVIOUS
<1>4. NextAudit \in AuditIds
  BY AuditIsNew DEF Exchange, DeliveryInv
<1>5. code \in Codings
  BY <1>3, <1>4 DEF Codings
<1>6. PICK c1, c2, c3 :
          /\ c1 = [do |-> "attempt", code |-> code, state |-> s, executor |-> "builtin_exchange"]
          /\ c2 = [do |-> "evidence", code |-> code, state |-> s, executor |-> "builtin_exchange"]
          /\ c3 = [do |-> "metric", success |-> IF s = "stopped" THEN 0 ELSE 1,
                   failed |-> IF s = "stopped" THEN 1 ELSE 0]
  OBVIOUS
<1>7. c1 \in CommitRows /\ c2 \in CommitRows /\ c3 \in CommitRows
  <2>1. c1 \in CommitRows
    BY <1>5, <1>6 DEF CommitRows
  <2>2. c2 \in CommitRows
    BY <1>5, <1>6 DEF CommitRows
  <2>3. c3 \in [do : {"metric"}, success : {0, 1}, failed : {0, 1}]
    BY <1>6
  <2>4. c3 \in CommitRows
    BY <2>3 DEF CommitRows
  <2> QED BY <2>1, <2>2, <2>4
<1>8. PICK p : p = <<c1, c2, c3>>
  OBVIOUS
<1>9. p \in Seq(CommitRows) /\ Len(p) = 3 /\ p[1] = c1 /\ p[2] = c2 /\ p[3] = c3
  BY <1>7, <1>8
<1>10. PICK q : q = p \o Flushes(t)
  OBVIOUS
<1>11. ThenFlush(t, p, q)
  BY <1>9, <1>10, FlushComesLast
<1>12. Begin("exchange", t, card, q)
  BY <1>1, <1>3, <1>6, <1>8, <1>10 DEF Exchange, record_attempt
<1>13. PICK sk : sk = [name |-> "exchange", task |-> t, audit |-> NextAudit, card |-> card, commits |-> q]
  OBVIOUS
<1>14. sk.name = "exchange" /\ sk.task = t /\ sk.card = card /\ sk.commits = q
  BY <1>13
<1>15. /\ q \in Seq(CommitRows) /\ DOMAIN q = 1 .. Len(q) /\ Len(q) \in Nat /\ Len(q) >= 3
       /\ q[1] = c1 /\ q[2] = c2 /\ q[3] = c3
       /\ \A i \in DOMAIN q :
             \/ i \in 1 .. 3
             \/ i = Len(q) /\ q[i].do = "flush" /\ delivery[t].kind = "runtime"
  BY <1>9, <1>11 DEF ThenFlush
<1>16. /\ c1.do = "attempt" /\ c2.do = "evidence" /\ c3.do = "metric"
       /\ c1.code = c2.code /\ c1.state = c2.state
  BY <1>6
<1>17. PlanOK(sk)
  <2>1. \A i \in DOMAIN q : i = 1 \/ i = 2 \/ i = 3 \/ (i = Len(q) /\ q[i].do = "flush")
    BY <1>15
  <2>2. \A i \in DOMAIN q : /\ q[i].do = "attempt" => i = 1
                            /\ q[i].do = "evidence" => i = 2
                            /\ q[i].do # "receipt"
                            /\ q[i].do = "flush" => i = Len(q)
    BY <1>15, <1>16, <2>1
  <2> QED BY <1>14, <1>15, <1>16, <2>2 DEF PlanOK
<1>18. PendingFlush(sk) => delivery[t].kind = "runtime"
  <2>1. \A i \in DOMAIN q : i = 1 \/ i = 2 \/ i = 3 \/ delivery[t].kind = "runtime"
    BY <1>15
  <2> QED BY <1>14, <1>15, <1>16, <2>1 DEF PendingFlush
<1>19. q # <<>>
  BY <1>15
<1>20. StartOK(sk)
  BY <1>2, <1>14, <1>15, <1>16, <1>17, <1>18, <1>19 DEF StartOK
<1> QED BY <1>2, <1>12, <1>13, <1>15, <1>20, SkillBegins DEF OtherSkills

LEMMA DownloadSkill ==
    ASSUME DeliveryInv, NEW t \in Deliveries, record_file_download(t)
    PROVE  DeliveryInv'
<1>1. PICK card : card = by_id(t)
  OBVIOUS
<1>2. /\ card \in DeliveryCards /\ card.kind = delivery[t].kind
      /\ delivery[t].kind = "runtime" =>
            card.receiptStatus = delivery[t].receiptStatus /\ card.receiptNo = delivery[t].receiptNo
  BY <1>1, CardOfTask
<1>3. NextAudit \in AuditIds
  BY AuditIsNew DEF record_file_download, DeliveryInv
<1>4. PICK c : c = [do |-> "receipt", no |-> NextAudit, status |-> "issued", noted |-> FALSE,
                    type |-> "file_download"]
  OBVIOUS
<1>5. /\ c \in CommitRows /\ c.do = "receipt" /\ c.no = NextAudit /\ c.type = "file_download"
      /\ c.no # Unnumbered
  BY <1>3, <1>4, DeliveryAssumption DEF CommitRows
<1>6. PICK q : q = <<c>>
  OBVIOUS
<1>7. q \in Seq(CommitRows) /\ DOMAIN q = 1 .. 1 /\ q[1] = c /\ q # <<>>
  BY <1>5, <1>6
<1>8. Begin("download", t, card, q)
  BY <1>1, <1>4, <1>6 DEF record_file_download
<1>9. PICK sk : sk = [name |-> "download", task |-> t, audit |-> NextAudit, card |-> card, commits |-> q]
  OBVIOUS
<1>10. sk.name = "download" /\ sk.task = t /\ sk.card = card /\ sk.commits = q /\ sk.audit = NextAudit
  BY <1>9
<1>11. \A i \in DOMAIN q : i = 1 /\ q[i] = c
  BY <1>7
<1>12. PlanOK(sk) /\ ~PendingFlush(sk)
  BY <1>5, <1>10, <1>11 DEF PlanOK, PendingFlush
<1>13. StartOK(sk)
  BY <1>2, <1>5, <1>7, <1>10, <1>12 DEF StartOK
<1> QED BY <1>2, <1>7, <1>8, <1>9, <1>13, SkillBegins DEF Telltales

\* The ingestion of a receipt: the receipt, then its evidence and its counts, if any.
LEMMA IngestSkill ==
    ASSUME DeliveryInv, NEW t \in Deliveries, NEW no \in ReceiptNos \union {Unnumbered},
           NEW s \in ReceiptStates, NEW noted \in BOOLEAN, NEW a \in AttemptIds \union {"none"},
           NEW counted \in BOOLEAN, ingest_delivery_receipt(t, no, s, noted, a, counted)
    PROVE  DeliveryInv'
<1>1. PICK card : card = by_id(t)
  OBVIOUS
<1>2. /\ card \in DeliveryCards /\ card.kind = delivery[t].kind
      /\ delivery[t].kind = "runtime" =>
            card.receiptStatus = delivery[t].receiptStatus /\ card.receiptNo = delivery[t].receiptNo
  BY <1>1, CardOfTask
<1>3. PICK k : k = [card EXCEPT !.receiptStatus = s, !.receiptNo = IF no = Unnumbered THEN @ ELSE no]
  OBVIOUS
<1>4. k \in DeliveryCards /\ k.receiptStatus = s
  <2>1. PICK n : n = IF no = Unnumbered THEN card.receiptNo ELSE no
    OBVIOUS
  <2>2. n \in ReceiptNos \union {"none", Reconciled}
    BY <1>2, <2>1 DEF DeliveryCards
  <2>3. k = [card EXCEPT !.receiptStatus = s, !.receiptNo = n]
    BY <1>2, <1>3, <2>1 DEF DeliveryCards
  <2>4. s \in CardStatuses
    BY DEF CardStatuses
  <2> QED BY <1>2, <2>2, <2>3, <2>4 DEF DeliveryCards
<1>5. k.receiptNo = IF no = Unnumbered THEN card.receiptNo ELSE no
  BY <1>2, <1>3 DEF DeliveryCards
<1>6. PICK c1, c2, c3 :
          /\ c1 = [do |-> "receipt", no |-> no, status |-> s, noted |-> noted, type |-> "exchange"]
          /\ c2 = [do |-> "evidence", code |-> a, state |-> s, executor |-> "exchange_receipt"]
          /\ c3 = [do |-> "metric", success |-> 0, failed |-> 0]
  OBVIOUS
<1>7. c1 \in CommitRows /\ c2 \in CommitRows /\ c3 \in CommitRows
  <2>1. c1 \in CommitRows
    BY <1>6 DEF CommitRows
  <2>2. a \in Codings
    BY DEF Codings
  <2>3. c2 \in CommitRows
    BY <1>6, <2>2 DEF CommitRows
  <2>4. c3 \in [do : {"metric"}, success : {0, 1}, failed : {0, 1}]
    BY <1>6
  <2>5. c3 \in CommitRows
    BY <2>4 DEF CommitRows
  <2> QED BY <2>1, <2>3, <2>5
<1>8. /\ c1.do = "receipt" /\ c1.no = no /\ c1.status = s /\ c1.no \notin AuditIds
      /\ c2.do = "evidence" /\ c2.executor # "builtin_exchange" /\ c3.do = "metric"
  BY <1>6, DeliveryAssumption
<1>9. PICK x, y, z : /\ x = <<c1>>
                     /\ y = IF a = "none" THEN <<>> ELSE <<c2>>
                     /\ z = IF counted THEN <<c3>> ELSE <<>>
  OBVIOUS
<1>10. PICK xy : xy = x \o y
  OBVIOUS
<1>11. /\ xy \in Seq(CommitRows) /\ Len(xy) \in {1, 2} /\ xy[1] = c1
       /\ Len(xy) = 2 => xy[2] = c2
  <2>1. x \in Seq(CommitRows) /\ Len(x) = 1 /\ x[1] = c1
    BY <1>7, <1>9
  <2>2. y \in Seq(CommitRows) /\ Len(y) \in {0, 1} /\ (Len(y) = 1 => y[1] = c2)
    BY <1>7, <1>9
  <2>3. xy \in Seq(CommitRows) /\ Len(xy) = 1 + Len(y)
    BY <1>10, <2>1, <2>2, Concatenated
  <2>4. xy[1] = c1
    <3>1. 1 \in Nat /\ 1 \in 1 .. Len(x)
      BY <2>1
    <3> QED BY <1>10, <2>1, <2>2, <3>1, Concatenated
  <2>5. Len(y) = 1 => xy[2] = c2
    <3>2. Len(x) = 1
      BY <2>1
    <3>3. Len(y) = 1 => 2 \in 1 + 1 .. 1 + Len(y)
      OBVIOUS
    <3>1. 2 \in Nat /\ (Len(y) = 1 => 2 \in Len(x) + 1 .. Len(x) + Len(y)) /\ 2 - Len(x) = 1
      <4>1. 2 - 1 = 1 /\ 2 \in Nat
        OBVIOUS
      <4> QED BY ONLY <3>2, <3>3, <4>1
    <3> QED BY <1>10, <2>1, <2>2, <3>1, Concatenated
  <2>6. \/ Len(y) = 0 /\ Len(xy) = 1
        \/ Len(y) = 1 /\ Len(xy) = 2
    <3>1. CASE Len(y) = 0
      BY <2>3, <3>1
    <3>2. CASE Len(y) = 1
      <4>1. Len(xy) = 1 + 1
        BY <2>3, <3>2
      <4> QED BY <3>2, <4>1
    <3> QED BY <2>2, <3>1, <3>2
  <2> QED BY <2>3, <2>4, <2>5, <2>6
<1>12. PICK p : p = xy \o z
  OBVIOUS
<1>13. /\ p \in Seq(CommitRows) /\ Len(p) \in Nat /\ Len(p) >= 1 /\ p[1] = c1
       /\ \A i \in 2 .. Len(p) : p[i] = c3 \/ (i = 2 /\ p[i] = c2)
  <2>1. z \in Seq(CommitRows) /\ Len(z) \in {0, 1} /\ (Len(z) = 1 => z[1] = c3)
    BY <1>7, <1>9
  <2>2. p \in Seq(CommitRows) /\ Len(p) = Len(xy) + Len(z)
    BY <1>11, <1>12, <2>1, Concatenated
  <2>3. p[1] = c1
    <3>1. 1 \in Nat /\ 1 \in 1 .. Len(xy)
      BY <1>11
    <3> QED BY <1>11, <1>12, <2>1, <3>1, Concatenated
  <2>4. ASSUME NEW i \in 2 .. Len(p)
        PROVE  p[i] = c3 \/ (i = 2 /\ p[i] = c2)
    <3>1. CASE i \in 1 .. Len(xy)
      <4>1. i = 2 /\ Len(xy) = 2 /\ i \in Nat
        <5>1. Len(xy) = 1 \/ Len(xy) = 2
          BY <1>11
        <5>2. i \in Nat /\ i >= 2 /\ i <= Len(xy)
          BY <1>11, <2>4, <3>1
        <5>3. Len(xy) = 2
          <6>1. CASE Len(xy) = 1
            <7>1. i <= 1
              BY <5>2, <6>1
            <7> QED BY <5>2, <7>1
          <6> QED BY <5>1, <6>1
        <5>4. i <= 2
          BY <5>2, <5>3
        <5> QED BY <5>2, <5>3, <5>4
      <4> QED BY <1>11, <1>12, <2>1, <3>1, <4>1, Concatenated
    <3>2. CASE i \notin 1 .. Len(xy)
      <4>1. i \in Nat /\ Len(z) = 1 /\ i \in Len(xy) + 1 .. Len(xy) + Len(z)
        BY <1>11, <2>1, <2>2, <2>4, <3>2
      <4>2. i - Len(xy) = 1
        BY <1>11, <4>1
      <4> QED BY <1>11, <1>12, <2>1, <4>1, <4>2, Concatenated
    <3> QED BY <3>1, <3>2
  <2> QED BY <1>11, <2>1, <2>2, <2>3, <2>4
<1>14. PICK q : q = p \o Flushes(t)
  OBVIOUS
<1>15. ThenFlush(t, p, q)
  BY <1>13, <1>14, FlushComesLast
<1>16. Begin("ingest", t, k, q)
  BY <1>1, <1>3, <1>6, <1>9, <1>10, <1>12, <1>14 DEF ingest_delivery_receipt
<1>17. PICK sk : sk = [name |-> "ingest", task |-> t, audit |-> NextAudit, card |-> k, commits |-> q]
  OBVIOUS
<1>18. sk.name = "ingest" /\ sk.task = t /\ sk.card = k /\ sk.commits = q
  BY <1>17
<1>19. /\ q \in Seq(CommitRows) /\ DOMAIN q = 1 .. Len(q) /\ Len(q) \in Nat /\ Len(q) >= 1 /\ q[1] = c1
       /\ \A i \in DOMAIN q :
             \/ i = 1
             \/ q[i] = c3
             \/ i = 2 /\ q[i] = c2
             \/ i = Len(q) /\ q[i].do = "flush" /\ delivery[t].kind = "runtime"
       /\ delivery[t].kind = "runtime" => q[Len(q)].do = "flush"
  <2>1. \A i \in 1 .. Len(p) : i = 1 \/ i \in 2 .. Len(p)
    BY <1>13
  <2>2. 1 \in 1 .. Len(p)
    BY <1>13
  <2> QED BY <1>13, <1>15, <2>1, <2>2 DEF ThenFlush
<1>20. PlanOK(sk)
  <2>1. \A i \in DOMAIN q : /\ q[i].do # "attempt"
                            /\ q[i].do = "evidence" => i = 2 /\ q[i] = c2
                            /\ q[i].do = "receipt" => i = 1
                            /\ q[i].do = "flush" => i = Len(q)
    BY <1>8, <1>19
  <2>2. k.receiptStatus = s /\ (no # Unnumbered => k.receiptNo = no)
    BY <1>4, <1>5
  <2> QED BY <1>8, <1>18, <1>19, <2>1, <2>2 DEF PlanOK
<1>21. /\ PendingFlush(sk) => delivery[t].kind = "runtime"
       /\ delivery[t].kind = "runtime" => PendingFlush(sk)
  <2>1. Len(q) \in DOMAIN q
    BY <1>19
  <2> QED BY <1>8, <1>18, <1>19, <2>1 DEF PendingFlush
<1>22. q # <<>>
  BY <1>19
<1>23. StartOK(sk)
  BY <1>2, <1>5, <1>8, <1>18, <1>19, <1>20, <1>21, <1>22 DEF StartOK, OtherSkills
<1> QED BY <1>4, <1>16, <1>17, <1>19, <1>23, SkillBegins DEF Telltales

-----------------------------------------------------------------------------
(* The end of a skill                                                      *)

LEMMA SkillEnds ==
    ASSUME DeliveryInv, Acknowledge
    PROVE  DeliveryInv'
<1>1. /\ skill # NoSkill /\ skill.commits = <<>> /\ skill' = NoSkill
      /\ UNCHANGED <<delivery, receipts, exchanges, evidenceOf>> /\ UNCHANGED <<brokenOff, given>>
  BY DEF Acknowledge, rowsOfDelivery
<1>2. PICK t : t = skill.task
  OBVIOUS
<1>3. /\ skill \in SkillRecords /\ t \in Deliveries /\ skill.audit \in AuditIds
      /\ skill.card.receiptStatus \in CardStatuses /\ skill.name \in Telltales \union OtherSkills
  BY <1>1, <1>2 DEF DeliveryInv, DeliveryTypeOK, SkillRecords, DeliveryCards
<1>4. /\ ackedReceipt' = [ackedReceipt EXCEPT ![t] = skill.card.receiptStatus]
      /\ shown' = [shown EXCEPT ![t] = Telling(t)]
      /\ handedOut' = IF skill.name = "download" THEN handedOut \union {skill.audit} ELSE handedOut
      /\ unanswered' = unanswered \ {t}
  BY <1>2 DEF Acknowledge
<1>5. GivenIds' = GivenIds /\ skill.audit \in GivenIds
  <2>1. given \in Nat /\ given > 0 /\ skill.audit = DeliveryAudits[given]
    BY <1>1, DeliveryAssumption DEF DeliveryInv, DeliveryTypeOK
  <2> QED BY <1>1, <2>1 DEF GivenIds
<1>6. ~PendingFlush(skill)
  BY <1>1 DEF PendingFlush
<1>7. Telling(t) \in CardStatuses \union {"any"}
  <2>1. shown[t] \in CardStatuses \union {"any"}
    BY <1>3 DEF DeliveryInv, DeliveryTypeOK
  <2>2. "reconciled" \in CardStatuses
    BY DEF CardStatuses
  <2> QED BY <1>3, <2>1, <2>2 DEF Telling
<1>8. DeliveryTypeOK'
  <2>1. shown' \in [Deliveries -> CardStatuses \union {"any"}]
    BY <1>3, <1>4, <1>7 DEF DeliveryInv, DeliveryTypeOK
  <2>2. ackedReceipt' \in [Deliveries -> CardStatuses]
    BY <1>3, <1>4 DEF DeliveryInv, DeliveryTypeOK
  <2> QED BY <1>1, <2>1, <2>2 DEF DeliveryInv, DeliveryTypeOK
<1>9. EvidenceOK'
  <2>1. \A c \in DOMAIN exchanges : exchanges[c].evidence \in DOMAIN evidenceOf \union brokenOff
    BY <1>1 DEF DeliveryInv, EvidenceOK
  <2> QED BY <1>1, <1>5, <2>1 DEF DeliveryInv, EvidenceOK
<1>10. LinksOK'
  <2>1. LinksOK
    BY DEF DeliveryInv
  <2>2. skill.name = "download" => HasLink(receipts[t], skill.audit)
    BY <1>1, <1>2, <2>1 DEF LinksOK
  <2>3. \A a \in handedOut' : \E u \in Deliveries : HasLink(receipts[u], a)
    BY <1>3, <1>4, <2>1, <2>2 DEF LinksOK
  <2>4. handedOut' \subseteq GivenIds
    BY <1>4, <1>5, <2>1 DEF LinksOK
  <2> QED BY <1>1, <1>5, <2>1, <2>3, <2>4 DEF LinksOK
<1>11. CardOK'
  <2>1. CardOK
    BY DEF DeliveryInv
  <2>2. ASSUME NEW u \in Deliveries, delivery[u].kind = "runtime", u \notin unanswered'
        PROVE  ackedReceipt'[u] \in {"none", delivery[u].receiptStatus}
    <3>1. CASE u = t
      <4>1. ackedReceipt'[u] = skill.card.receiptStatus
        BY <1>3, <1>4, <3>1 DEF DeliveryInv, DeliveryTypeOK
      <4> QED BY <1>1, <1>2, <1>6, <2>1, <2>2, <3>1, <4>1 DEF CardOK
    <3>2. CASE u # t
      <4>1. ackedReceipt'[u] = ackedReceipt[u] /\ u \notin unanswered
        BY <1>4, <2>2, <3>2 DEF DeliveryInv, DeliveryTypeOK
      <4> QED BY <1>2, <2>1, <2>2, <3>2, <4>1 DEF CardOK
    <3> QED BY <3>1, <3>2
  <2> QED BY <1>1, <2>2 DEF CardOK
<1>12. ReadersOK'
  <2>1. ReadersOK /\ CardOK
    BY DEF DeliveryInv
  <2>2. ASSUME NEW u \in Deliveries, shown'[u] # "any"
        PROVE  delivery[u].kind = "runtime" /\ LastReceipt(u).status = shown'[u] /\ Settled(u)
    <3>1. CASE u = t
      <4>1. shown'[u] = Telling(t)
        BY <1>3, <1>4, <3>1 DEF DeliveryInv, DeliveryTypeOK
      <4>2. delivery[t].kind = "runtime"
        BY <2>2, <4>1 DEF Telling
      <4>3. AnswerOK(t)
        BY <1>1, <1>2, <2>1, <4>2 DEF ReadersOK
      <4>4. CASE skill.name = "ingest"
        <5>1. LeftAsItIs(LastReceipt(t)) /\ shown'[u] = skill.card.receiptStatus
          BY <2>2, <4>1, <4>2, <4>4 DEF Telling, LastReceipt
        <5> QED BY <1>1, <3>1, <4>2, <4>3, <4>4, <5>1 DEF AnswerOK, Settled
      <4>5. CASE skill.name = "reconcile"
        <5>1. LastReceipt(t).no = Reconciled /\ shown'[u] = "reconciled"
          BY <2>2, <4>1, <4>2, <4>5 DEF Telling, LastReceipt
        <5>2. delivery[t].receiptStatus = "reconciled"
          BY <1>1, <1>2, <1>6, <2>1, <4>2, <4>5 DEF CardOK
        <5> QED BY <1>1, <3>1, <4>2, <4>3, <4>5, <5>1, <5>2 DEF AnswerOK, Settled
      <4>6. CASE skill.name \in {"download", "grant"}
        BY <2>2, <4>1, <4>2, <4>6 DEF Telling
      <4>7. CASE skill.name \in OtherSkills
        <5>1. shown'[u] = shown[t] /\ skill.name \notin Telltales
          BY <4>1, <4>2, <4>7 DEF Telling, OtherSkills, Telltales
        <5> QED BY <1>3, <2>1, <2>2, <3>1, <4>2, <5>1 DEF ReadersOK
      <4> QED BY <1>3, <4>4, <4>5, <4>6, <4>7 DEF Telltales
    <3>2. CASE u # t
      <4>1. shown'[u] = shown[u]
        BY <1>4, <3>2 DEF DeliveryInv, DeliveryTypeOK
      <4> QED BY <1>2, <2>1, <2>2, <3>2, <4>1 DEF ReadersOK
    <3> QED BY <3>1, <3>2
  <2>3. \A u \in Deliveries :
           /\ (Numbered(u, delivery[u]) => Numbered(u, delivery[u])')
           /\ (LastReceipt(u) = LastReceipt(u)') /\ (Settled(u) => Settled(u)')
    BY <1>1 DEF Numbered, LastReceipt, Settled, LeftAsItIs
  <2> QED BY <1>1, <2>1, <2>2, <2>3 DEF ReadersOK
<1> QED BY <1>1, <1>8, <1>9, <1>10, <1>11, <1>12 DEF DeliveryInv

LEMMA SkillBreaksOff ==
    ASSUME DeliveryInv, skill # NoSkill, Drop(skill.task)
    PROVE  DeliveryInv'
<1>1. /\ skill' = NoSkill /\ brokenOff' = brokenOff \union {skill.audit}
      /\ UNCHANGED <<delivery, receipts, exchanges, evidenceOf, ackedReceipt, handedOut, given>>
  BY DEF Drop, rowsOfDelivery
<1>2. PICK t : t = skill.task
  OBVIOUS
<1>3. skill \in SkillRecords /\ t \in Deliveries
  BY <1>2 DEF DeliveryInv, DeliveryTypeOK, SkillRecords
<1>4. /\ shown' = [shown EXCEPT ![t] = "any"]
      /\ unanswered' = IF skill.commits = <<>> THEN unanswered \union {t} ELSE unanswered
  BY <1>2 DEF Drop
<1>5. GivenIds' = GivenIds /\ skill.audit \in GivenIds
  <2>1. given \in Nat /\ given > 0 /\ skill.audit = DeliveryAudits[given]
    BY DeliveryAssumption DEF DeliveryInv, DeliveryTypeOK
  <2> QED BY <1>1, <2>1 DEF GivenIds
<1>6. \A u \in Deliveries : shown'[u] = IF u = t THEN "any" ELSE shown[u]
  BY <1>3, <1>4 DEF DeliveryInv, DeliveryTypeOK
<1>7. DeliveryTypeOK'
  <2>1. shown' \in [Deliveries -> CardStatuses \union {"any"}]
    BY <1>3, <1>4 DEF DeliveryInv, DeliveryTypeOK
  <2> QED BY <1>1, <2>1 DEF DeliveryInv, DeliveryTypeOK
<1>8. EvidenceOK'
  <2>1. \A c \in DOMAIN exchanges : exchanges[c].evidence \in DOMAIN evidenceOf \union brokenOff'
    BY <1>1 DEF DeliveryInv, EvidenceOK
  <2> QED BY <1>1, <1>5, <2>1 DEF DeliveryInv, EvidenceOK
<1>9. LinksOK'
  BY <1>1, <1>5 DEF DeliveryInv, LinksOK
<1>10. CardOK'
  <2>1. CardOK
    BY DEF DeliveryInv
  <2>2. \A u \in Deliveries : u \notin unanswered' =>
            u \notin unanswered /\ ~(skill.task = u /\ skill.commits = <<>>)
    BY <1>2, <1>4
  <2> QED BY <1>1, <2>1, <2>2 DEF CardOK
<1>11. ReadersOK'
  <2>1. ReadersOK
    BY DEF DeliveryInv
  <2>2. ASSUME NEW u \in Deliveries, shown'[u] # "any"
        PROVE  delivery[u].kind = "runtime" /\ LastReceipt(u).status = shown'[u] /\ Settled(u)
    BY <1>2, <1>6, <2>1, <2>2 DEF ReadersOK
  <2>3. \A u \in Deliveries :
           /\ (Numbered(u, delivery[u]) => Numbered(u, delivery[u])')
           /\ (LastReceipt(u) = LastReceipt(u)') /\ (Settled(u) => Settled(u)')
    BY <1>1 DEF Numbered, LastReceipt, Settled, LeftAsItIs
  <2> QED BY <1>1, <2>1, <2>2, <2>3 DEF ReadersOK
<1> QED BY <1>1, <1>7, <1>8, <1>9, <1>10, <1>11 DEF DeliveryInv

LEMMA DeliveryStarts == DeliveryInit => DeliveryInv
<1> SUFFICES ASSUME DeliveryInit PROVE DeliveryInv
  OBVIOUS
<1>1. /\ delivery \in [Deliveries -> StartTasks] /\ skill = NoSkill
      /\ receipts = [t \in Deliveries |->
                        IF delivery[t].kind = "runtime"
                        THEN <<Receipt(Candidate, "issued", TRUE, "provision")>> ELSE <<>>]
      /\ DOMAIN exchanges = {} /\ DOMAIN evidenceOf = {}
      /\ ackedReceipt = [t \in Deliveries |-> "none"] /\ shown = [t \in Deliveries |-> "any"]
      /\ handedOut = {} /\ brokenOff = {} /\ unanswered = {} /\ given = 0
  BY DEF DeliveryInit
<1>2. PICK row : row = Receipt(Candidate, "issued", TRUE, "provision")
  OBVIOUS
<1>3. row \in ReceiptRows /\ row.no = Candidate
  BY <1>2 DEF Receipt, ReceiptRows
<1>4. StartTasks \subseteq DeliveryCards /\ \A k \in StartTasks : k.receiptNo = "none"
  <2>1. RuntimeTask \in DeliveryCards /\ RuntimeTask.receiptNo = "none"
    BY DEF RuntimeTask, DeliveryCards, TaskStates, CardStatuses
  <2> QED BY <2>1 DEF StartTasks, DeliveryCards, TaskStates
<1>5. \A t \in Deliveries : /\ receipts[t] = <<row>> \/ receipts[t] = <<>>
                            /\ delivery[t].kind = "runtime" => receipts[t] = <<row>>
  BY <1>1, <1>2
<1>6. /\ <<row>> \in Seq(ReceiptRows) /\ <<>> \in Seq(ReceiptRows)
      /\ DOMAIN <<row>> = {1} /\ <<row>>[1] = row /\ DOMAIN <<>> = {}
  BY <1>3
<1>7. DeliveryTypeOK
  <2>1. receipts \in [Deliveries -> Seq(ReceiptRows)]
    BY <1>1, <1>5, <1>6
  <2>2. given \in 0 .. Len(DeliveryAudits)
    BY <1>1, DeliveryAssumption
  <2>3. ackedReceipt \in [Deliveries -> CardStatuses]
    BY <1>1 DEF CardStatuses
  <2> QED BY <1>1, <1>4, <2>1, <2>2, <2>3 DEF DeliveryTypeOK
<1>8. \A t \in Deliveries : \A i \in DOMAIN receipts[t] : receipts[t][i].no = Candidate
  BY <1>3, <1>5, <1>6
<1>9. EvidenceOK
  BY <1>1 DEF EvidenceOK
<1>10. LinksOK
  BY <1>1, <1>8, DeliveryAssumption DEF LinksOK
<1>11. CardOK
  BY <1>1 DEF CardOK
<1>12. ReadersOK
  <2>1. Candidate # Reconciled
    BY DEF Candidate, Reconciled
  <2>2. ASSUME NEW t \in Deliveries, delivery[t].kind = "runtime"
        PROVE  Numbered(t, delivery[t])
    <3>1. CardNumber(delivery[t]) = Candidate
      BY <1>1, <1>4 DEF CardNumber
    <3>2. 1 \in DOMAIN receipts[t] /\ receipts[t][1].no = Candidate
      BY <1>3, <1>5, <1>6, <2>2
    <3> QED BY <3>1, <3>2 DEF Numbered
  <2> QED BY <1>1, <1>8, <2>1, <2>2 DEF ReadersOK
<1> QED BY <1>1, <1>7, <1>9, <1>10, <1>11, <1>12 DEF DeliveryInv

-----------------------------------------------------------------------------
(* A commit                                                                *)

\* The fields of a commit, by what it does.
LEMMA CommitFields ==
    ASSUME NEW c \in CommitRows
    PROVE  /\ c.do = "receipt" => /\ c.no \in ReceiptNos \union {Unnumbered} \union AuditIds
                                  /\ c.status \in ReceiptStates \union {"issued"}
                                  /\ c.noted \in BOOLEAN
                                  /\ c.type \in {"exchange", "file_download"}
           /\ c.do = "state" => c.state \in TaskStates
BY DEF CommitRows, TaskStates

\* What all commits have in common: the skill goes on with the commits that follow.
GoesOn(c, t) ==
    /\ skill # NoSkill /\ skill' # NoSkill /\ skill \in SkillRecords /\ skill' \in SkillRecords
    /\ skill'.name = skill.name /\ skill'.task = skill.task /\ skill'.audit = skill.audit
    /\ skill'.card = skill.card
    /\ skill.name \in Telltales \union OtherSkills /\ t = skill.task /\ t \in Deliveries
    /\ skill.card \in DeliveryCards /\ skill.audit \in AuditIds /\ skill.audit \in GivenIds
    /\ skill.commits # <<>> /\ c = skill.commits[1] /\ c \in CommitRows /\ 1 \in DOMAIN skill.commits
    /\ UNCHANGED <<ackedReceipt, shown, handedOut, brokenOff, unanswered, given>>
    /\ GivenIds' = GivenIds /\ GivenIds \subseteq AuditIds
    /\ PlanOK(skill) /\ PlanOK(skill)'
    /\ \A i \in DOMAIN skill'.commits :
          /\ i \in Nat /\ i + 1 \in DOMAIN skill.commits /\ i + 1 # 1
          /\ skill'.commits[i] = skill.commits[i + 1]
          /\ skill'.commits[i].do \notin {"attempt", "receipt"}
    /\ skill'.commits # <<>> => 1 \in DOMAIN skill'.commits
    /\ c.do = "flush" \/ skill.name = "download" => skill'.commits = <<>>
    /\ c.do = "attempt" => skill'.commits # <<>> /\ skill'.commits[1] = skill.commits[2]
    /\ c.do # "flush" => (PendingFlush(skill') <=> PendingFlush(skill))
    /\ c.do = "flush" => PendingFlush(skill) /\ ~PendingFlush(skill')

LEMMA CommitsGoOn ==
    ASSUME DeliveryInv, Work
    PROVE  GoesOn(Head(skill.commits), skill.task)
<1>1. /\ skill # NoSkill /\ skill.commits # <<>>
      /\ skill' = [skill EXCEPT !.commits = Tail(@)]
      /\ UNCHANGED <<ackedReceipt, shown, handedOut, brokenOff, unanswered, given>>
  BY DEF Work, tellings
<1>2. skill \in SkillRecords /\ PlanOK(skill)
  BY <1>1 DEF DeliveryInv, DeliveryTypeOK
<1>3. PICK q : q = skill.commits
  OBVIOUS
<1>4. PICK r : r = Tail(q)
  OBVIOUS
<1>5. q \in Seq(CommitRows) /\ q # <<>>
  BY <1>1, <1>2, <1>3 DEF SkillRecords
<1>6. /\ Len(q) \in Nat /\ Len(q) >= 1 /\ DOMAIN q = 1 .. Len(q) /\ Head(q) = q[1] /\ q[1] \in CommitRows
      /\ r \in Seq(CommitRows) /\ Len(r) = Len(q) - 1
      /\ \A i \in 1 .. Len(r) : r[i] = q[i + 1]
  BY <1>4, <1>5
<1>7. DOMAIN r = 1 .. Len(r) /\ Len(r) \in Nat
  BY <1>6
<1>8. /\ skill' \in SkillRecords /\ skill'.commits = r
      /\ skill'.name = skill.name /\ skill'.task = skill.task /\ skill'.audit = skill.audit
      /\ skill'.card = skill.card
  BY <1>1, <1>2, <1>3, <1>4, <1>6 DEF SkillRecords
<1>9. skill' # NoSkill
  <2>1. skill'.name # "none" /\ NoSkill.name = "none"
    BY <1>8 DEF SkillRecords, NoSkill, Telltales, OtherSkills
  <2> QED BY <2>1
<1>10. /\ skill.name \in Telltales \union OtherSkills /\ skill.task \in Deliveries
       /\ skill.card \in DeliveryCards /\ skill.audit \in AuditIds
  BY <1>2 DEF SkillRecords
<1>11. GivenIds' = GivenIds /\ GivenIds \subseteq AuditIds /\ skill.audit \in GivenIds
  <2>1. /\ given \in Nat /\ given > 0 /\ skill.audit = DeliveryAudits[given]
        /\ Len(DeliveryAudits) \in Nat /\ given \in 0 .. Len(DeliveryAudits)
        /\ DOMAIN DeliveryAudits = 1 .. Len(DeliveryAudits)
    BY <1>1, DeliveryAssumption DEF DeliveryInv, DeliveryTypeOK
  <2> QED BY <1>1, <2>1 DEF GivenIds, AuditIds
<1>12. ASSUME NEW i \in DOMAIN r
       PROVE  i \in Nat /\ i >= 1 /\ i + 1 \in DOMAIN q /\ i + 1 # 1 /\ r[i] = q[i + 1] /\ i + 1 # 0
  BY <1>6, <1>7, <1>12
<1>13. \A i \in DOMAIN r : r[i].do \notin {"attempt", "receipt"}
  BY <1>2, <1>3, <1>12 DEF PlanOK
<1>14. r # <<>> => 1 \in DOMAIN r /\ r[1] = q[2]
  BY <1>6, <1>7
<1>15. ASSUME NEW i \in DOMAIN q
       PROVE  i = 1 \/ (i - 1 \in DOMAIN r /\ r[i - 1] = q[i])
  <2>1. i \in Nat /\ i >= 1 /\ i <= Len(q)
    BY <1>6
  <2>2. i # 1 => i - 1 \in 1 .. Len(r) /\ (i - 1) + 1 = i
    BY <1>6, <2>1
  <2> QED BY <1>6, <1>7, <2>2
<1>16. 1 \in DOMAIN q
  BY <1>6
<1>17. q[1].do = "flush" \/ skill.name = "download" => r = <<>>
  <2>1. q[1].do = "flush" => Len(q) = 1
    BY <1>2, <1>3, <1>16 DEF PlanOK
  <2>2. ASSUME skill.name = "download", r # <<>> PROVE FALSE
    <3>1. 1 \in DOMAIN r /\ r[1].do = "receipt"
      BY <1>2, <1>3, <1>12, <1>14, <2>2 DEF PlanOK
    <3> QED BY <1>13, <3>1
  <2>3. Len(q) = 1 => r = <<>>
    BY <1>6
  <2> QED BY <2>1, <2>2, <2>3
<1>18. q[1].do = "attempt" => r # <<>>
  <2>1. q[1].do = "attempt" => Len(q) > 1
    BY <1>2, <1>3, <1>16 DEF PlanOK
  <2>2. r = <<>> => Len(r) = 0
    OBVIOUS
  <2> QED BY <1>6, <2>1, <2>2
<1>19. PlanOK(skill)'
  <2>1. ASSUME NEW i \in DOMAIN r
        PROVE  /\ r[i].do = "flush" => i = Len(r)
               /\ r[i].do = "evidence" =>
                     /\ r[i].executor = "builtin_exchange" => skill.name = "exchange"
                     /\ skill.name = "exchange" => i = 1
                     /\ \A j \in DOMAIN r : r[j].do = "evidence" => j = i
               /\ skill.name # "download"
               /\ skill.name = "reconcile" => r[i].do = "flush"
    <3>1. i \in Nat /\ i + 1 \in DOMAIN q /\ i + 1 # 1 /\ r[i] = q[i + 1]
      BY <1>12
    <3>2. r[i].do = "flush" => i = Len(r)
      <4>1. r[i].do = "flush" => i + 1 = Len(q)
        BY <1>2, <1>3, <3>1 DEF PlanOK
      <4> QED BY <1>6, <3>1, <4>1
    <3>3. ASSUME r[i].do = "evidence"
          PROVE  /\ r[i].executor = "builtin_exchange" => skill.name = "exchange"
                 /\ skill.name = "exchange" => i = 1
      <4>1. /\ r[i].executor = "builtin_exchange" => skill.name = "exchange"
            /\ skill.name = "exchange" => i + 1 = 2
        BY <1>2, <1>3, <3>1, <3>3 DEF PlanOK
      <4> QED BY <3>1, <4>1
    <3>4. ASSUME r[i].do = "evidence", NEW j \in DOMAIN r, r[j].do = "evidence"
          PROVE  j = i
      <4>1. j \in Nat /\ j + 1 \in DOMAIN q /\ r[j] = q[j + 1]
        BY <1>12
      <4>2. j + 1 = i + 1
        BY <1>2, <1>3, <3>1, <3>4, <4>1 DEF PlanOK
      <4> QED BY <3>1, <4>1, <4>2
    <3>5. skill.name # "download"
      BY <1>17
    <3>6. skill.name = "reconcile" => r[i].do = "flush"
      BY <1>2, <1>3, <3>1 DEF PlanOK
    <3> QED BY <3>2, <3>3, <3>4, <3>5, <3>6
  <2> QED BY <1>8, <1>13, <2>1 DEF PlanOK
<1>20. /\ q[1].do # "flush" => (PendingFlush(skill') <=> PendingFlush(skill))
       /\ q[1].do = "flush" => PendingFlush(skill) /\ ~PendingFlush(skill')
  <2>1. PendingFlush(skill') => PendingFlush(skill)
    BY <1>3, <1>8, <1>12 DEF PendingFlush
  <2>2. q[1].do # "flush" /\ PendingFlush(skill) => PendingFlush(skill')
    BY <1>3, <1>8, <1>15 DEF PendingFlush
  <2>3. q[1].do = "flush" => PendingFlush(skill)
    BY <1>3, <1>16 DEF PendingFlush
  <2>4. q[1].do = "flush" => ~PendingFlush(skill')
    BY <1>8, <1>17 DEF PendingFlush
  <2> QED BY <2>1, <2>2, <2>3, <2>4
<1> QED BY <1>1, <1>2, <1>3, <1>6, <1>8, <1>9, <1>10, <1>11, <1>12, <1>13, <1>14, <1>16, <1>17, <1>18, <1>19, <1>20
    DEF GoesOn

LEMMA EvidenceAfterCommit ==
    ASSUME DeliveryInv, NEW c, NEW t, GoesOn(c, t),
           \/ c.do = "attempt" /\ upsert_attempt(t, c)
           \/ c.do = "evidence" /\ add_execution_evidence(t, c)
           \/ c.do \notin {"attempt", "evidence"} /\ UNCHANGED <<exchanges, evidenceOf>>
    PROVE  EvidenceOK'
<1>1. EvidenceOK /\ PlanOK(skill) /\ skill # NoSkill
  BY DEF DeliveryInv, GoesOn
<1>2. /\ GivenIds' = GivenIds /\ brokenOff' = brokenOff /\ skill' # NoSkill
      /\ skill'.audit = skill.audit /\ skill'.name = skill.name /\ skill.audit \in GivenIds
      /\ skill.commits # <<>> /\ c = skill.commits[1] /\ 1 \in DOMAIN skill.commits
  BY DEF GoesOn
<1>3. ASSUME \E i \in DOMAIN skill'.commits : skill'.commits[i].do = "evidence"
      PROVE  c.do # "evidence" /\ \E i \in DOMAIN skill.commits : skill.commits[i].do = "evidence"
  <2>1. PICK i \in DOMAIN skill'.commits : skill'.commits[i].do = "evidence"
    BY <1>3
  <2>2. i + 1 \in DOMAIN skill.commits /\ i + 1 # 1 /\ skill.commits[i + 1].do = "evidence"
    BY <2>1 DEF GoesOn
  <2> QED BY <1>1, <1>2, <2>2 DEF PlanOK
<1>4. skill'.commits # <<>> => 1 \in DOMAIN skill'.commits /\ skill'.commits[1].do # "attempt"
  BY DEF GoesOn
<1>5. ASSUME skill'.commits # <<>>, skill'.commits[1].do = "evidence", skill.name = "exchange"
      PROVE  /\ c.do = "attempt" /\ skill'.commits[1].code = c.code /\ skill'.commits[1].state = c.state
  <2>1. 1 + 1 \in DOMAIN skill.commits /\ skill'.commits[1] = skill.commits[1 + 1] /\ 1 + 1 = 2
    BY <1>5, <1>4 DEF GoesOn
  <2>2. 2 \in DOMAIN skill.commits /\ skill.commits[2].do = "evidence"
    BY <1>5, <2>1
  <2>3. c.do = "attempt"
    BY <1>1, <1>2, <1>5, <2>2 DEF PlanOK
  <2> QED BY <1>1, <1>2, <2>1, <2>3 DEF PlanOK
<1>6. CASE c.do = "attempt" /\ upsert_attempt(t, c)
  <2>1. /\ evidenceOf' = evidenceOf
        /\ exchanges' = With(exchanges, c.code, [state |-> c.state, evidence |-> skill.audit])
    BY <1>6 DEF upsert_attempt
  <2>2. PICK v : v = [state |-> c.state, evidence |-> skill.audit]
    OBVIOUS
  <2>3. /\ DOMAIN exchanges' = DOMAIN exchanges \union {c.code} /\ exchanges'[c.code] = v
        /\ \A k \in DOMAIN exchanges : k # c.code => exchanges'[k] = exchanges[k]
    <3>1. exchanges' = With(exchanges, c.code, v)
      BY <2>1, <2>2
    <3> QED BY <3>1 DEF With
  <2>4. /\ skill.name = "exchange" /\ skill'.commits # <<>> /\ skill'.commits[1].do = "evidence"
        /\ skill'.commits[1].code = c.code /\ skill'.commits[1].state = c.state
    <3>1. skill'.commits # <<>> /\ skill'.commits[1] = skill.commits[2]
      BY <1>6 DEF GoesOn
    <3> QED BY <1>1, <1>2, <1>6, <3>1 DEF PlanOK
  <2>5. skill.audit \notin DOMAIN evidenceOf /\ skill.audit \notin brokenOff
    BY <1>1, <1>3, <1>4, <2>4 DEF EvidenceOK
  <2>6. ASSUME NEW k \in DOMAIN exchanges', k # c.code
        PROVE  /\ k \in DOMAIN exchanges /\ exchanges'[k] = exchanges[k]
               /\ exchanges[k].evidence \in GivenIds
               /\ exchanges[k].evidence \in DOMAIN evidenceOf =>
                     evidenceOf[exchanges[k].evidence].status = exchanges[k].state
               /\ exchanges[k].evidence \in DOMAIN evidenceOf \union brokenOff
    BY <1>1, <1>2, <1>6, <2>3, <2>6 DEF EvidenceOK
  <2>7. v.evidence = skill.audit /\ v.state = c.state
    BY <2>2
  <2>8. ASSUME NEW k \in DOMAIN exchanges'
        PROVE  /\ exchanges'[k].evidence \in GivenIds
               /\ exchanges'[k].evidence \in DOMAIN evidenceOf =>
                     evidenceOf[exchanges'[k].evidence].status = exchanges'[k].state
               /\ exchanges'[k].evidence \notin DOMAIN evidenceOf \union brokenOff =>
                     exchanges'[k].evidence = skill.audit /\ exchanges'[k].state = c.state
    BY <1>2, <2>3, <2>5, <2>6, <2>7
  <2>9. \A e \in DOMAIN evidenceOf : evidenceOf[e].executor = "builtin_exchange" =>
            evidenceOf[e].attempt \in DOMAIN exchanges'
    BY <1>1, <2>3 DEF EvidenceOK
  <2>10. c.code \in DOMAIN exchanges'
    BY <2>3
  <2> QED BY SMTT(30), <1>1, <1>2, <1>4, <2>1, <2>4, <2>5, <2>8, <2>9, <2>10 DEF EvidenceOK
<1>7. CASE c.do = "evidence" /\ add_execution_evidence(t, c)
  <2>1. /\ exchanges' = exchanges
        /\ evidenceOf' = With(evidenceOf, skill.audit,
                              [attempt |-> c.code, status |-> c.state, executor |-> c.executor])
    BY <1>7 DEF add_execution_evidence
  <2>2. PICK v : v = [attempt |-> c.code, status |-> c.state, executor |-> c.executor]
    OBVIOUS
  <2>3. v.attempt = c.code /\ v.status = c.state /\ v.executor = c.executor
    BY <2>2
  <2>4. /\ DOMAIN evidenceOf' = DOMAIN evidenceOf \union {skill.audit} /\ evidenceOf'[skill.audit] = v
        /\ \A e \in DOMAIN evidenceOf : e # skill.audit => evidenceOf'[e] = evidenceOf[e]
    <3>1. evidenceOf' = With(evidenceOf, skill.audit, v)
      BY <2>1, <2>2
    <3> QED BY <3>1 DEF With
  <2>5. skill.audit \notin DOMAIN evidenceOf /\ skill.audit \notin brokenOff
    BY <1>1, <1>2, <1>7 DEF EvidenceOK
  <2>6. c.executor = "builtin_exchange" => c.code \in DOMAIN exchanges
    <3>1. c.executor = "builtin_exchange" => skill.name = "exchange"
      BY <1>1, <1>2, <1>7 DEF PlanOK
    <3> QED BY <1>1, <1>2, <1>7, <3>1 DEF EvidenceOK
  <2>7. \A e \in DOMAIN evidenceOf' : evidenceOf'[e].executor = "builtin_exchange" =>
            evidenceOf'[e].attempt \in DOMAIN exchanges
    BY <1>1, <2>3, <2>4, <2>6 DEF EvidenceOK
  <2>8. ASSUME NEW k \in DOMAIN exchanges
        PROVE  /\ exchanges[k].evidence \in GivenIds
               /\ exchanges[k].evidence \in DOMAIN evidenceOf' =>
                     evidenceOf'[exchanges[k].evidence].status = exchanges[k].state
               /\ exchanges[k].evidence \in DOMAIN evidenceOf' \union brokenOff
    <3>1. CASE exchanges[k].evidence = skill.audit
      <4>1. exchanges[k].state = c.state
        BY <1>1, <1>2, <2>5, <3>1 DEF EvidenceOK
      <4> QED BY <1>2, <2>3, <2>4, <3>1, <4>1
    <3>2. CASE exchanges[k].evidence # skill.audit
      BY <1>1, <2>4, <3>2 DEF EvidenceOK
    <3> QED BY <3>1, <3>2
  <2>9. ~\E i \in DOMAIN skill'.commits : skill'.commits[i].do = "evidence"
    BY <1>3, <1>7
  <2>10. DOMAIN evidenceOf' \subseteq GivenIds /\ brokenOff \subseteq GivenIds
    BY <1>1, <1>2, <2>4 DEF EvidenceOK
  <2>11. skill.name # "exchange" => \A k \in DOMAIN exchanges : exchanges[k].evidence # skill.audit
    BY <1>1 DEF EvidenceOK
  <2> QED BY <1>2, <1>4, <2>1, <2>5, <2>7, <2>8, <2>9, <2>10, <2>11 DEF EvidenceOK
<1>8. CASE c.do \notin {"attempt", "evidence"} /\ UNCHANGED <<exchanges, evidenceOf>>
  <2>1. \A k \in DOMAIN exchanges : exchanges[k].evidence \in DOMAIN evidenceOf \union brokenOff
    BY <1>1, <1>2, <1>8 DEF EvidenceOK
  <2>2. ~(skill.name = "exchange" /\ skill'.commits # <<>> /\ skill'.commits[1].do = "evidence")
    BY <1>5, <1>8
  <2>3. skill.audit \notin brokenOff
        /\ ((\E i \in DOMAIN skill'.commits : skill'.commits[i].do = "evidence") =>
               skill.audit \notin DOMAIN evidenceOf)
    BY <1>1, <1>3 DEF EvidenceOK
  <2>4. skill.name # "exchange" => \A k \in DOMAIN exchanges : exchanges[k].evidence # skill.audit
    BY <1>1 DEF EvidenceOK
  <2>5. \A k \in DOMAIN exchanges :
            /\ exchanges[k].evidence \in GivenIds
            /\ exchanges[k].evidence \in DOMAIN evidenceOf =>
                  evidenceOf[exchanges[k].evidence].status = exchanges[k].state
    BY <1>1 DEF EvidenceOK
  <2>6. /\ DOMAIN evidenceOf \subseteq GivenIds /\ brokenOff \subseteq GivenIds
        /\ \A e \in DOMAIN evidenceOf : evidenceOf[e].executor = "builtin_exchange" =>
               evidenceOf[e].attempt \in DOMAIN exchanges
    BY <1>1 DEF EvidenceOK
  <2> QED BY <1>2, <1>4, <1>8, <2>1, <2>2, <2>3, <2>4, <2>5, <2>6 DEF EvidenceOK
<1> QED BY <1>6, <1>7, <1>8

\* A receipt is added to those of t, or those of the card's number are brought up to date.
AddsReceipt(t, r) ==
    \E n \in Nat :
        /\ n \notin DOMAIN receipts[t] /\ DOMAIN receipts'[t] = DOMAIN receipts[t] \union {n}
        /\ Len(receipts'[t]) = n /\ receipts'[t][n] = r /\ receipts'[t] # <<>>
        /\ \A i \in DOMAIN receipts[t] : receipts'[t][i] = receipts[t][i]

ProjectsCard(t, card) ==
    /\ DOMAIN receipts'[t] = DOMAIN receipts[t] /\ Len(receipts'[t]) = Len(receipts[t])
    /\ \A i \in DOMAIN receipts[t] :
          /\ receipts'[t][i].no = receipts[t][i].no
          /\ receipts'[t][i].projected = receipts[t][i].projected
          /\ receipts[t][i].no = CardNumber(card) /\ receipts[t][i].projected =>
                receipts'[t][i].status = receipt_status(card)
          /\ receipts[t][i].no # CardNumber(card) \/ ~receipts[t][i].projected =>
                receipts'[t][i] = receipts[t][i]

OthersKeepReceipts(t) ==
    /\ receipts' \in [Deliveries -> Seq(ReceiptRows)]
    /\ \A u \in Deliveries : u # t => receipts'[u] = receipts[u]

LEMMA ReceiptIsAdded ==
    ASSUME DeliveryTypeOK, NEW t \in Deliveries, NEW r \in ReceiptRows,
           receipts' = [receipts EXCEPT ![t] = Append(@, r)]
    PROVE  AddsReceipt(t, r) /\ OthersKeepReceipts(t)
<1>1. PICK q : q = receipts[t]
  OBVIOUS
<1>2. q \in Seq(ReceiptRows)
  BY <1>1 DEF DeliveryTypeOK
<1>3. PICK p : p = Append(q, r)
  OBVIOUS
<1>4. /\ p \in Seq(ReceiptRows) /\ Len(p) = Len(q) + 1 /\ p[Len(p)] = r /\ Len(q) \in Nat
      /\ \A i \in 1 .. Len(q) : p[i] = q[i]
  BY <1>2, <1>3
<1>5. /\ DOMAIN q = 1 .. Len(q) /\ DOMAIN p = 1 .. Len(p) /\ Len(p) \in Nat /\ p # <<>>
      /\ Len(p) \notin DOMAIN q /\ DOMAIN p = DOMAIN q \union {Len(p)}
  BY <1>2, <1>4
<1>6. receipts'[t] = p /\ \A u \in Deliveries : u # t => receipts'[u] = receipts[u]
  BY <1>1, <1>3 DEF DeliveryTypeOK
<1>7. receipts' \in [Deliveries -> Seq(ReceiptRows)]
  BY <1>1, <1>3, <1>4 DEF DeliveryTypeOK
<1> QED BY <1>1, <1>4, <1>5, <1>6, <1>7 DEF AddsReceipt, OthersKeepReceipts

\* What a flush does to the row and the receipts of t.
FlushedTo(t, card) ==
    /\ delivery' \in [Deliveries -> DeliveryCards]
    /\ delivery'[t].kind = "runtime" /\ delivery'[t].receiptStatus = card.receiptStatus
    /\ delivery'[t].receiptNo = card.receiptNo
    /\ \A u \in Deliveries : u # t => delivery'[u] = delivery[u]
    /\ OthersKeepReceipts(t)
    /\ CardNumber(card) \in ReceiptNos \union {Candidate, Reconciled}
    /\ \/ /\ ~Numbered(t, card)
          /\ AddsReceipt(t, Receipt(CardNumber(card), receipt_status(card), TRUE, "provision"))
       \/ Numbered(t, card) /\ ProjectsCard(t, card)

LEMMA FlushUpdates ==
    ASSUME DeliveryTypeOK, NEW t \in Deliveries, NEW card \in DeliveryCards,
           upsert_from_delivery(t, card)
    PROVE  FlushedTo(t, card)
<1>1. PICK no, st : no = CardNumber(card) /\ st = receipt_status(card)
  OBVIOUS
<1>2. /\ no \in ReceiptNos \union {Candidate, Reconciled}
      /\ st \in {"issued", "reconciled", "acknowledged", "rejected"}
  BY <1>1 DEF CardNumber, receipt_status, DeliveryCards
<1>3. delivery' = [delivery EXCEPT ![t] = [card EXCEPT !.kind = "runtime"]]
  BY DEF upsert_from_delivery
<1>4. PICK k : k = [card EXCEPT !.kind = "runtime"]
  OBVIOUS
<1>5. /\ k \in DeliveryCards /\ k.kind = "runtime" /\ k.receiptStatus = card.receiptStatus
      /\ k.receiptNo = card.receiptNo
  BY <1>4 DEF DeliveryCards
<1>6. /\ delivery' \in [Deliveries -> DeliveryCards] /\ delivery'[t] = k
      /\ \A u \in Deliveries : u # t => delivery'[u] = delivery[u]
  BY <1>3, <1>4, <1>5 DEF DeliveryTypeOK
<1>7. Numbered(t, card) <=> Matching(t, card) # {}
  BY DEF Numbered, Matching
<1>8. CASE ~Numbered(t, card)
  <2>1. PICK r : r = Receipt(no, st, TRUE, "provision")
    OBVIOUS
  <2>2. r \in ReceiptRows
    BY <1>2, <2>1 DEF Receipt, ReceiptRows
  <2>3. receipts' = [receipts EXCEPT ![t] = Append(@, r)]
    BY <1>1, <1>7, <1>8, <2>1 DEF upsert_from_delivery
  <2>4. AddsReceipt(t, r) /\ OthersKeepReceipts(t)
    BY <2>2, <2>3, ReceiptIsAdded
  <2> QED BY <1>1, <1>2, <1>5, <1>6, <1>8, <2>1, <2>4 DEF FlushedTo
<1>9. CASE Numbered(t, card)
  <2>1. PICK q : q = receipts[t]
    OBVIOUS
  <2>2. q \in Seq(ReceiptRows) /\ DOMAIN q = 1 .. Len(q) /\ Len(q) \in Nat
    BY <2>1 DEF DeliveryTypeOK
  <2>3. PICK p : p = [i \in DOMAIN q |-> IF q[i].no = no /\ q[i].projected
                                         THEN [q[i] EXCEPT !.status = st, !.type = "provision"]
                                         ELSE q[i]]
    OBVIOUS
  <2>4. ASSUME NEW i \in DOMAIN q
        PROVE  /\ p[i] \in ReceiptRows /\ p[i].no = q[i].no
               /\ q[i].no = no /\ q[i].projected => p[i].status = st
               /\ q[i].no # no \/ ~q[i].projected => p[i] = q[i]
    <3>1. q[i] \in ReceiptRows
      BY <2>2
    <3>2. CASE q[i].no = no /\ q[i].projected
      <4>1. p[i] = [q[i] EXCEPT !.status = st, !.type = "provision"]
        BY <2>3, <3>2
      <4> QED BY <1>2, <3>1, <3>2, <4>1 DEF ReceiptRows
    <3>3. CASE ~(q[i].no = no /\ q[i].projected)
      <4>1. p[i] = q[i]
        BY <2>3, <3>3
      <4> QED BY <3>1, <3>3, <4>1
    <3> QED BY <3>2, <3>3
  <2>5. ASSUME NEW i \in DOMAIN q
        PROVE  p[i].projected = q[i].projected
    <3>1. CASE q[i].no = no /\ q[i].projected
      <4>1. p[i] = [q[i] EXCEPT !.status = st, !.type = "provision"]
        BY <2>3, <3>1
      <4>2. q[i] \in ReceiptRows
        BY <2>2
      <4> QED BY <4>1, <4>2 DEF ReceiptRows
    <3>2. CASE ~(q[i].no = no /\ q[i].projected)
      <4>1. p[i] = q[i]
        BY <2>3, <3>2
      <4> QED BY <4>1
    <3> QED BY <3>1, <3>2
  <2>6. DOMAIN p = DOMAIN q /\ p \in Seq(ReceiptRows) /\ Len(p) = Len(q)
    <3>1. p \in [1 .. Len(q) -> ReceiptRows]
      BY <2>2, <2>3, <2>4
    <3> QED BY <2>2, <3>1
  <2>7. receipts' = [receipts EXCEPT ![t] = p]
    <3>1. p = [i \in DOMAIN q |-> IF i \in Matching(t, card) /\ q[i].projected
                                  THEN [q[i] EXCEPT !.status = st, !.type = "provision"] ELSE q[i]]
      BY <1>1, <2>1, <2>3 DEF Matching
    <3> QED BY <1>1, <1>7, <1>9, <2>1, <3>1 DEF upsert_from_delivery
  <2>8. receipts'[t] = p /\ OthersKeepReceipts(t)
    BY <2>6, <2>7 DEF DeliveryTypeOK, OthersKeepReceipts
  <2>9. ProjectsCard(t, card)
    BY <1>1, <2>1, <2>4, <2>5, <2>6, <2>8 DEF ProjectsCard
  <2> QED BY <1>1, <1>2, <1>5, <1>6, <1>9, <2>8, <2>9 DEF FlushedTo
<1> QED BY <1>8, <1>9

\* The row of no task changes what its card says of receipts.
KeepsCards ==
    /\ delivery' \in [Deliveries -> DeliveryCards]
    /\ \A u \in Deliveries : /\ delivery'[u].kind = delivery[u].kind
                             /\ delivery'[u].receiptStatus = delivery[u].receiptStatus
                             /\ delivery'[u].receiptNo = delivery[u].receiptNo

NewReceipt(c) == Receipt(c.no, c.status, c.noted, c.type)

\* What a commit does to the receipts and the rows of tasks.
Committed(c, t) ==
    \/ /\ c.do = "receipt" /\ KeepsCards /\ OthersKeepReceipts(t) /\ AddsReceipt(t, NewReceipt(c))
    \/ c.do = "flush" /\ FlushedTo(t, skill.card)
    \/ c.do \notin {"receipt", "flush"} /\ KeepsCards /\ receipts' = receipts

LEMMA WorkCommits ==
    ASSUME DeliveryInv, Work, NEW c, NEW t, c = Head(skill.commits), t = skill.task, GoesOn(c, t)
    PROVE  /\ Committed(c, t)
           /\ \/ c.do = "attempt" /\ upsert_attempt(t, c)
              \/ c.do = "evidence" /\ add_execution_evidence(t, c)
              \/ c.do \notin {"attempt", "evidence"} /\ UNCHANGED <<exchanges, evidenceOf>>
<1>1. t \in Deliveries /\ c \in CommitRows /\ skill.card \in DeliveryCards /\ DeliveryTypeOK
  BY DEF GoesOn, DeliveryInv
<1>2. \/ c.do = "attempt" /\ upsert_attempt(t, c)
      \/ c.do = "evidence" /\ add_execution_evidence(t, c)
      \/ c.do = "metric" /\ upsert_exchange_metric(t, c)
      \/ c.do = "receipt" /\ append_receipt(t, c)
      \/ c.do = "state" /\ update_task_payload(t, c)
      \/ c.do = "subscription" /\ upsert_subscription(t, c)
      \/ c.do = "terminate" /\ terminate_subscription(t, c)
      \/ c.do = "flush" /\ upsert_from_delivery(t, skill.card)
  BY DEF Work
<1>3. delivery' = delivery => KeepsCards
  BY <1>1 DEF KeepsCards, DeliveryTypeOK
<1>4. CASE c.do = "receipt" /\ append_receipt(t, c)
  <2>1. PICK r : r = NewReceipt(c)
    OBVIOUS
  <2>2. r \in ReceiptRows
    BY <1>1, <1>4, <2>1, CommitFields DEF NewReceipt, Receipt, ReceiptRows
  <2>3. receipts' = [receipts EXCEPT ![t] = Append(@, r)]
    BY <1>4, <2>1 DEF append_receipt, NewReceipt
  <2>4. AddsReceipt(t, r) /\ OthersKeepReceipts(t)
    BY <1>1, <2>2, <2>3, ReceiptIsAdded
  <2>5. UNCHANGED <<delivery, exchanges, evidenceOf>>
    BY <1>4 DEF append_receipt
  <2> QED BY <1>3, <1>4, <2>1, <2>4, <2>5 DEF Committed
<1>5. CASE c.do = "flush" /\ upsert_from_delivery(t, skill.card)
  <2>1. FlushedTo(t, skill.card)
    BY <1>1, <1>5, FlushUpdates
  <2>2. UNCHANGED <<exchanges, evidenceOf>>
    BY <1>5 DEF upsert_from_delivery
  <2> QED BY <1>5, <2>1, <2>2 DEF Committed
<1>6. CASE c.do = "state" /\ update_task_payload(t, c)
  <2>1. delivery' = [delivery EXCEPT ![t].state = c.state] /\ UNCHANGED <<receipts, exchanges, evidenceOf>>
    BY <1>6 DEF update_task_payload
  <2>2. c.state \in TaskStates
    BY <1>1, <1>6, CommitFields
  <2>3. PICK s : s = c.state
    OBVIOUS
  <2>4. PICK k : k = [delivery[t] EXCEPT !.state = s]
    OBVIOUS
  <2>5. delivery[t] \in DeliveryCards
    BY <1>1 DEF DeliveryTypeOK
  <2>6. /\ k \in DeliveryCards /\ k.kind = delivery[t].kind
        /\ k.receiptStatus = delivery[t].receiptStatus /\ k.receiptNo = delivery[t].receiptNo
    BY <2>2, <2>3, <2>4, <2>5 DEF DeliveryCards
  <2>7. delivery' = [delivery EXCEPT ![t] = k]
    BY <2>1, <2>3, <2>4
  <2>8. KeepsCards
    BY <1>1, <2>6, <2>7 DEF DeliveryTypeOK, KeepsCards
  <2> QED BY <1>6, <2>1, <2>8 DEF Committed
<1>7. CASE c.do = "attempt" /\ upsert_attempt(t, c)
  BY <1>3, <1>7 DEF upsert_attempt, Committed
<1>8. CASE c.do = "evidence" /\ add_execution_evidence(t, c)
  BY <1>3, <1>8 DEF add_execution_evidence, Committed
<1>9. CASE c.do = "metric" /\ upsert_exchange_metric(t, c)
  BY <1>3, <1>9 DEF upsert_exchange_metric, Committed
<1>10. CASE c.do = "subscription" /\ upsert_subscription(t, c)
  BY <1>3, <1>10 DEF upsert_subscription, Committed
<1>11. CASE c.do = "terminate" /\ terminate_subscription(t, c)
  BY <1>3, <1>11 DEF terminate_subscription, Committed
<1> QED BY <1>2, <1>4, <1>5, <1>6, <1>7, <1>8, <1>9, <1>10, <1>11

LEMMA TypeAfterCommit ==
    ASSUME DeliveryInv, NEW c, NEW t, GoesOn(c, t), Committed(c, t)
    PROVE  DeliveryTypeOK'
<1>1. DeliveryTypeOK /\ skill # NoSkill
  BY DEF DeliveryInv, GoesOn
<1>2. delivery' \in [Deliveries -> DeliveryCards]
  BY DEF Committed, KeepsCards, FlushedTo
<1>3. receipts' \in [Deliveries -> Seq(ReceiptRows)]
  BY <1>1 DEF Committed, OthersKeepReceipts, FlushedTo, DeliveryTypeOK
<1>4. /\ skill' \in SkillRecords /\ skill' # NoSkill /\ skill'.audit = skill.audit
      /\ UNCHANGED <<ackedReceipt, shown, given>>
  BY DEF GoesOn
<1> QED BY <1>1, <1>2, <1>3, <1>4 DEF DeliveryTypeOK

LEMMA LinksAfterCommit ==
    ASSUME DeliveryInv, NEW c, NEW t, GoesOn(c, t), Committed(c, t)
    PROVE  LinksOK'
<1>1. LinksOK /\ PlanOK(skill) /\ DeliveryTypeOK
  BY DEF DeliveryInv, GoesOn
<1>2. /\ skill # NoSkill /\ skill' # NoSkill /\ skill'.name = skill.name /\ skill'.task = t
      /\ skill'.audit = skill.audit /\ t = skill.task /\ t \in Deliveries
      /\ skill.audit \in AuditIds /\ skill.audit \in GivenIds /\ skill.commits # <<>>
      /\ c = skill.commits[1] /\ 1 \in DOMAIN skill.commits
      /\ handedOut' = handedOut /\ GivenIds' = GivenIds /\ GivenIds \subseteq AuditIds
  BY DEF GoesOn
<1>3. skill.name = "download" => /\ c.do = "receipt" /\ skill'.commits = <<>>
                                 /\ \A i \in DOMAIN receipts[t] : receipts[t][i].no # skill.audit
  BY <1>1, <1>2 DEF PlanOK, LinksOK, GoesOn
<1>4. CASE c.do = "receipt" /\ OthersKeepReceipts(t) /\ AddsReceipt(t, NewReceipt(c))
  <2>1. PICK r : r = NewReceipt(c)
    OBVIOUS
  <2>2. r.no = c.no /\ r.type = c.type
    BY <2>1 DEF NewReceipt, Receipt
  <2>3. \/ skill.name = "download" /\ c.no = skill.audit /\ c.type = "file_download"
        \/ skill.name = "ingest" /\ c.no \notin AuditIds
    BY <1>1, <1>2, <1>4 DEF PlanOK
  <2>4. PICK n \in Nat :
           /\ n \notin DOMAIN receipts[t] /\ DOMAIN receipts'[t] = DOMAIN receipts[t] \union {n}
           /\ receipts'[t][n] = r
           /\ \A i \in DOMAIN receipts[t] : receipts'[t][i] = receipts[t][i]
    BY <1>4, <2>1 DEF AddsReceipt
  <2>5. \A u \in Deliveries : u # t => receipts'[u] = receipts[u]
    BY <1>4 DEF OthersKeepReceipts
  <2>6. ASSUME NEW u \in Deliveries, NEW i \in DOMAIN receipts'[u], receipts'[u][i].no \in AuditIds
        PROVE  receipts'[u][i].no \in GivenIds
    BY <1>1, <1>2, <2>2, <2>3, <2>4, <2>5, <2>6 DEF LinksOK
  <2>7. ASSUME NEW a \in handedOut
        PROVE  \E u \in Deliveries : HasLink(receipts'[u], a)
    <3>1. PICK u \in Deliveries : HasLink(receipts[u], a)
      BY <1>1 DEF LinksOK
    <3>2. a # c.no
      BY <1>1, <1>2, <2>3 DEF LinksOK
    <3>3. CASE u # t
      BY <2>5, <3>1, <3>3
    <3>4. CASE u = t
      <4>1. HasLink(receipts'[t], a)
        BY <2>2, <2>4, <3>1, <3>2, <3>4 DEF HasLink
      <4> QED BY <1>2, <4>1
    <3> QED BY <3>3, <3>4
  <2>8. skill.name = "download" => HasLink(receipts'[t], skill.audit)
    BY <1>3, <2>2, <2>3, <2>4 DEF HasLink
  <2> QED BY <1>1, <1>2, <1>3, <2>6, <2>7, <2>8 DEF LinksOK
<1>5. CASE c.do = "flush" /\ FlushedTo(t, skill.card)
  <2>1. PICK no, r : no = CardNumber(skill.card)
                     /\ r = Receipt(CardNumber(skill.card), receipt_status(skill.card), TRUE, "provision")
    OBVIOUS
  <2>2. no \notin AuditIds /\ r.no = no
    BY <1>5, <2>1, DeliveryAssumption DEF FlushedTo, Receipt
  <2>3. \A u \in Deliveries : u # t => receipts'[u] = receipts[u]
    BY <1>5 DEF FlushedTo, OthersKeepReceipts
  <2>4. skill.name # "download"
    BY <1>3, <1>5
  <2>5. ASSUME NEW i \in DOMAIN receipts'[t], receipts'[t][i].no \in AuditIds
        PROVE  i \in DOMAIN receipts[t] /\ receipts[t][i].no = receipts'[t][i].no
    BY <1>5, <2>1, <2>2, <2>5 DEF FlushedTo, AddsReceipt, ProjectsCard
  <2>6. ASSUME NEW a \in AuditIds, HasLink(receipts[t], a)
        PROVE  HasLink(receipts'[t], a)
    <3>1. \A i \in DOMAIN receipts[t] : /\ i \in DOMAIN receipts'[t]
                                        /\ receipts'[t][i].no = receipts[t][i].no
                                        /\ receipts[t][i].no \in AuditIds =>
                                              receipts'[t][i].type = receipts[t][i].type
      BY <1>5, <2>1, <2>2 DEF FlushedTo, AddsReceipt, ProjectsCard
    <3> QED BY <2>5, <2>6, <3>1 DEF HasLink
  <2>7. ASSUME NEW u \in Deliveries, NEW i \in DOMAIN receipts'[u], receipts'[u][i].no \in AuditIds
        PROVE  receipts'[u][i].no \in GivenIds
    BY <1>1, <1>2, <2>3, <2>5, <2>7 DEF LinksOK
  <2>8. ASSUME NEW a \in handedOut
        PROVE  \E u \in Deliveries : HasLink(receipts'[u], a)
    <3>1. PICK u \in Deliveries : HasLink(receipts[u], a)
      BY <1>1 DEF LinksOK
    <3>2. a \in AuditIds
      BY <1>1, <1>2 DEF LinksOK
    <3>3. HasLink(receipts'[u], a)
      BY <2>3, <2>6, <3>1, <3>2
    <3> QED BY <3>3
  <2> QED BY <1>1, <1>2, <2>4, <2>7, <2>8 DEF LinksOK
<1>6. CASE c.do \notin {"receipt", "flush"} /\ receipts' = receipts
  BY <1>1, <1>2, <1>3, <1>6 DEF LinksOK
<1> QED BY <1>4, <1>5, <1>6 DEF Committed

LEMMA CardAfterCommit ==
    ASSUME DeliveryInv, NEW c, NEW t, GoesOn(c, t), Committed(c, t)
    PROVE  CardOK'
<1>1. CardOK
  BY DEF DeliveryInv
<1>2. /\ skill # NoSkill /\ skill' # NoSkill /\ skill'.name = skill.name /\ skill'.task = t
      /\ skill'.card = skill.card /\ t = skill.task /\ t \in Deliveries /\ skill.commits # <<>>
      /\ UNCHANGED <<unanswered, ackedReceipt>>
      /\ c.do = "flush" => ~PendingFlush(skill') /\ skill'.commits = <<>>
      /\ c.do # "flush" => (PendingFlush(skill') <=> PendingFlush(skill))
  BY DEF GoesOn
<1>3. PendingFlush(skill)' <=> PendingFlush(skill')
  BY DEF PendingFlush
<1>4. CASE c.do = "flush" /\ FlushedTo(t, skill.card)
  <2>1. /\ delivery'[t].kind = "runtime" /\ delivery'[t].receiptStatus = skill.card.receiptStatus
        /\ delivery'[t].receiptNo = skill.card.receiptNo
        /\ \A u \in Deliveries : u # t => delivery'[u] = delivery[u]
    BY <1>4 DEF FlushedTo
  <2>2. ASSUME NEW u \in Deliveries, delivery'[u].kind = "runtime", u \notin unanswered, u # t
        PROVE  ackedReceipt[u] \in {"none", delivery'[u].receiptStatus}
    BY <1>1, <1>2, <2>1, <2>2 DEF CardOK
  <2> QED BY <1>1, <1>2, <1>3, <1>4, <2>1, <2>2 DEF CardOK
<1>5. CASE c.do # "flush" /\ KeepsCards
  <2>1. \A u \in Deliveries : /\ delivery'[u].kind = delivery[u].kind
                              /\ delivery'[u].receiptStatus = delivery[u].receiptStatus
                              /\ delivery'[u].receiptNo = delivery[u].receiptNo
    BY <1>5 DEF KeepsCards
  <2>2. ASSUME NEW u \in Deliveries, delivery'[u].kind = "runtime", u \notin unanswered
        PROVE  ackedReceipt[u] \in {"none", delivery'[u].receiptStatus}
    BY <1>1, <1>2, <2>1, <2>2 DEF CardOK
  <2> QED BY <1>1, <1>2, <1>3, <1>5, <2>1, <2>2 DEF CardOK
<1> QED BY <1>4, <1>5 DEF Committed

LEMMA ReadersAfterCommit ==
    ASSUME DeliveryInv, NEW c, NEW t, GoesOn(c, t), Committed(c, t)
    PROVE  ReadersOK'
<1>1. ReadersOK /\ CardOK /\ PlanOK(skill)
  BY DEF DeliveryInv, GoesOn
<1>2. /\ skill # NoSkill /\ skill' # NoSkill /\ skill'.name = skill.name /\ skill'.task = t
      /\ skill'.card = skill.card /\ t = skill.task /\ t \in Deliveries
      /\ shown' = shown
      /\ skill.commits # <<>> /\ c = skill.commits[1] /\ 1 \in DOMAIN skill.commits /\ c \in CommitRows
      /\ skill'.commits # <<>> => skill'.commits[1].do # "receipt"
      /\ c.do = "flush" => PendingFlush(skill) /\ skill'.commits = <<>>
  BY DEF GoesOn
<1>3. ASSUME NEW u \in Deliveries, shown[u] # "any"
      PROVE  /\ delivery[u].kind = "runtime" /\ Numbered(u, delivery[u])
             /\ u # t \/ skill.name \notin Telltales => LastReceipt(u).status = shown[u] /\ Settled(u)
  BY <1>1, <1>2, <1>3 DEF ReadersOK
<1>4. ASSUME NEW u \in Deliveries, u # t, receipts'[u] = receipts[u],
             delivery'[u].kind = delivery[u].kind, delivery'[u].receiptStatus = delivery[u].receiptStatus,
             delivery'[u].receiptNo = delivery[u].receiptNo
      PROVE  /\ delivery'[u].kind = "runtime" => Numbered(u, delivery[u])'
             /\ \A i \in DOMAIN receipts'[u] :
                    receipts'[u][i].no = Reconciled => receipts'[u][i].projected
             /\ shown[u] # "any" =>
                    /\ delivery'[u].kind = "runtime"
                    /\ LastReceipt(u)'.status = shown[u] /\ Settled(u)'
  <2>1. CardNumber(delivery'[u]) = CardNumber(delivery[u]) /\ LastReceipt(u)' = LastReceipt(u)
    BY <1>4 DEF CardNumber, LastReceipt
  <2>2. delivery[u].kind = "runtime" => Numbered(u, delivery[u])
    BY <1>1 DEF ReadersOK
  <2>3. Numbered(u, delivery[u]) => Numbered(u, delivery[u])'
    BY <1>4, <2>1 DEF Numbered, CardNumber
  <2>4. Settled(u) => Settled(u)'
    BY <1>4, <2>1 DEF Settled
  <2> QED BY <1>1, <1>3, <1>4, <2>1, <2>2, <2>3, <2>4 DEF ReadersOK
<1>5. CASE c.do = "receipt" /\ KeepsCards /\ OthersKeepReceipts(t) /\ AddsReceipt(t, NewReceipt(c))
  <2>1. PICK r : r = NewReceipt(c)
    OBVIOUS
  <2>2. r.no = c.no /\ r.status = c.status /\ r.projected = c.noted
    BY <2>1 DEF NewReceipt, Receipt
  <2>3. PICK n \in Nat :
           /\ n \notin DOMAIN receipts[t] /\ DOMAIN receipts'[t] = DOMAIN receipts[t] \union {n}
           /\ Len(receipts'[t]) = n /\ receipts'[t][n] = r /\ receipts'[t] # <<>>
           /\ \A i \in DOMAIN receipts[t] : receipts'[t][i] = receipts[t][i]
    BY <1>5, <2>1 DEF AddsReceipt
  <2>4. \A u \in Deliveries : /\ u # t => receipts'[u] = receipts[u]
                              /\ delivery'[u].kind = delivery[u].kind
                              /\ delivery'[u].receiptStatus = delivery[u].receiptStatus
                              /\ delivery'[u].receiptNo = delivery[u].receiptNo
    BY <1>5 DEF OthersKeepReceipts, KeepsCards
  <2>5. skill.name \in {"download", "ingest"}
    BY <1>1, <1>2, <1>5 DEF PlanOK
  <2>6. c.no # Reconciled /\ (c.no # Unnumbered /\ c.no \notin AuditIds => c.no \in ReceiptNos /\ c.no # "none")
    <3>1. c.no \in ReceiptNos \union {Unnumbered} \union AuditIds
      BY <1>2, <1>5, CommitFields
    <3>2. Unnumbered # Reconciled
      BY DEF Unnumbered, Reconciled
    <3> QED BY <3>1, <3>2, DeliveryAssumption
  <2>7. delivery'[t].kind = "runtime" => Numbered(t, delivery[t])'
    <3>1. CardNumber(delivery'[t]) = CardNumber(delivery[t])
      BY <1>2, <2>4 DEF CardNumber
    <3>2. delivery'[t].kind = "runtime" => Numbered(t, delivery[t])
      BY <1>1, <1>2, <2>4 DEF ReadersOK
    <3>3. Numbered(t, delivery[t]) => Numbered(t, delivery[t])'
      BY <2>3, <3>1 DEF Numbered, CardNumber
    <3> QED BY <3>2, <3>3
  <2>8. \A i \in DOMAIN receipts'[t] : receipts'[t][i].no = Reconciled => receipts'[t][i].projected
    BY <1>1, <1>2, <2>2, <2>3, <2>6 DEF ReadersOK
  <2>9. shown[t] # "any" => delivery'[t].kind = "runtime"
    BY <1>2, <1>3, <2>4
  <2>10. LastReceipt(t)' = r
    BY <2>3 DEF LastReceipt
  <2>11. ASSUME delivery'[t].kind = "runtime", skill.name = "ingest"
         PROVE  /\ \E i \in DOMAIN receipts'[t] : receipts'[t][i].no = CardNumber(skill.card)
                /\ c.status = skill.card.receiptStatus
    <3>1. /\ c.no \notin AuditIds /\ c.status = skill.card.receiptStatus
          /\ c.no # Unnumbered => skill.card.receiptNo = c.no
      BY <1>1, <1>2, <1>5, <2>11 DEF PlanOK
    <3>2. CASE c.no # Unnumbered
      <4>1. CardNumber(skill.card) = c.no
        BY <2>6, <3>1, <3>2 DEF CardNumber
      <4> QED BY <2>2, <2>3, <3>1, <4>1
    <3>3. CASE c.no = Unnumbered
      <4>1. AnswerOK(t) /\ Numbered(t, delivery[t])
        BY <1>1, <1>2, <2>4, <2>11 DEF ReadersOK
      <4>2. skill.card.receiptNo = delivery[t].receiptNo
        BY <1>2, <1>5, <2>11, <3>3, <4>1 DEF AnswerOK
      <4>3. CardNumber(skill.card) = CardNumber(delivery[t])
        BY <4>2 DEF CardNumber
      <4> QED BY <2>3, <3>1, <4>1, <4>3 DEF Numbered
    <3> QED BY <3>2, <3>3
  <2>12. delivery'[t].kind = "runtime" => AnswerOK(t)'
    <3>1. ASSUME delivery'[t].kind = "runtime", skill.name = "ingest"
          PROVE  /\ receipts'[t] # <<>> /\ Numbered(t, skill.card)'
                 /\ LastReceipt(t)'.status = skill.card.receiptStatus
      <4>1. Numbered(t, skill.card)'
        BY <1>2, <2>11, <3>1 DEF Numbered, CardNumber
      <4> QED BY <2>2, <2>3, <2>10, <2>11, <3>1, <4>1
    <3> QED BY <1>2, <2>5, <3>1 DEF AnswerOK
  <2> QED BY <1>2, <1>4, <2>4, <2>5, <2>7, <2>8, <2>9, <2>12 DEF ReadersOK, Telltales
<1>6. CASE c.do = "flush" /\ FlushedTo(t, skill.card)
  <2>1. PICK card, no, st : card = skill.card /\ no = CardNumber(card) /\ st = receipt_status(card)
    OBVIOUS
  <2>2. /\ delivery'[t].kind = "runtime" /\ delivery'[t].receiptStatus = card.receiptStatus
        /\ delivery'[t].receiptNo = card.receiptNo
        /\ \A u \in Deliveries : u # t => delivery'[u] = delivery[u] /\ receipts'[u] = receipts[u]
    BY <1>6, <2>1 DEF FlushedTo, OthersKeepReceipts
  <2>3. CardNumber(delivery'[t]) = no
    BY <2>1, <2>2 DEF CardNumber
  <2>4. PICK r : r = Receipt(no, st, TRUE, "provision")
    OBVIOUS
  <2>5. r.no = no /\ r.status = st /\ r.projected = TRUE
    BY <2>4 DEF Receipt
  <2>6. card.receiptStatus = "reconciled" => st = "reconciled"
    BY <2>1 DEF receipt_status
  <2>7. \/ ~Numbered(t, card) /\ AddsReceipt(t, r)
        \/ Numbered(t, card) /\ ProjectsCard(t, card)
    BY <1>6, <2>1, <2>4 DEF FlushedTo
  <2>8. Numbered(t, card) <=> \E i \in DOMAIN receipts[t] : receipts[t][i].no = no
    BY <2>1 DEF Numbered
  <2>9. \E i \in DOMAIN receipts'[t] : receipts'[t][i].no = no
    BY <2>5, <2>7, <2>8 DEF AddsReceipt, ProjectsCard
  <2>10. Numbered(t, delivery[t])' /\ Numbered(t, card)'
    <3>1. Numbered(t, delivery[t])'
      BY <2>3, <2>9 DEF Numbered, CardNumber
    <3>2. Numbered(t, card)'
      BY <2>1, <2>9 DEF Numbered, CardNumber
    <3> QED BY <3>1, <3>2
  <2>11. \A i \in DOMAIN receipts'[t] : receipts'[t][i].no = Reconciled => receipts'[t][i].projected
    <3>1. \A i \in DOMAIN receipts[t] : receipts[t][i].no = Reconciled => receipts[t][i].projected
      BY <1>1, <1>2 DEF ReadersOK
    <3>2. CASE AddsReceipt(t, r)
      BY <2>5, <3>1, <3>2 DEF AddsReceipt
    <3>3. CASE ProjectsCard(t, card)
      BY <3>1, <3>3 DEF ProjectsCard
    <3> QED BY <2>7, <3>2, <3>3
  <2>12. ASSUME Numbered(t, card)
         PROVE  /\ receipts[t] # <<>> /\ receipts'[t] # <<>>
                /\ LastReceipt(t).no = no /\ LastReceipt(t).projected => LastReceipt(t)'.status = st
                /\ LastReceipt(t).no # no \/ ~LastReceipt(t).projected => LastReceipt(t)' = LastReceipt(t)
                /\ LastReceipt(t)'.no = LastReceipt(t).no
                /\ LastReceipt(t)'.projected = LastReceipt(t).projected
    <3>1. receipts[t] \in Seq(ReceiptRows)
      BY <1>2 DEF DeliveryInv, DeliveryTypeOK
    <3>2. DOMAIN receipts[t] = 1 .. Len(receipts[t]) /\ Len(receipts[t]) \in Nat
      BY <3>1
    <3>3. PICK i \in DOMAIN receipts[t] : receipts[t][i].no = no
      BY <2>8, <2>12
    <3>4. Len(receipts[t]) \in DOMAIN receipts[t]
      BY <3>2, <3>3
    <3>5. ProjectsCard(t, card)
      BY <2>7, <2>12
    <3>6. i \in DOMAIN receipts'[t] /\ Len(receipts'[t]) = Len(receipts[t])
      BY <3>3, <3>5 DEF ProjectsCard
    <3>7. receipts[t] # <<>> /\ receipts'[t] # <<>>
      BY <3>3, <3>6
    <3> QED BY <2>1, <3>4, <3>5, <3>6, <3>7 DEF ProjectsCard, LastReceipt
  <2>15. no # Unnumbered
    <3>1. no \in ReceiptNos \union {Candidate, Reconciled}
      BY <1>6, <2>1 DEF FlushedTo
    <3>2. Unnumbered # Candidate /\ Unnumbered # Reconciled
      BY DEF Unnumbered, Candidate, Reconciled
    <3> QED BY <3>1, <3>2, DeliveryAssumption
  <2>13. ASSUME shown[t] # "any", skill.name \notin Telltales
         PROVE  LastReceipt(t)'.status = shown[t] /\ Settled(t)'
    <3>1. /\ LastReceipt(t).status = shown[t] /\ Settled(t) /\ delivery[t].kind = "runtime"
          /\ Numbered(t, delivery[t])
      BY <1>2, <1>3, <2>13
    <3>2. card.receiptStatus = delivery[t].receiptStatus /\ card.receiptNo = delivery[t].receiptNo
      <4>1. skill.name \in OtherSkills
        BY <2>13 DEF GoesOn
      <4> QED BY <1>1, <1>2, <2>1, <3>1, <4>1 DEF CardOK
    <3>3. Numbered(t, card)
      <4>1. CardNumber(card) = CardNumber(delivery[t])
        BY <3>2 DEF CardNumber
      <4> QED BY <3>1, <4>1 DEF Numbered
    <3>4. CASE ~LeftAsItIs(LastReceipt(t))
      <4>1. LastReceipt(t).status = "reconciled" /\ card.receiptStatus = "reconciled"
        BY <3>1, <3>2, <3>4 DEF Settled
      <4>2. LastReceipt(t)'.status = "reconciled"
        BY <2>6, <2>12, <3>3, <3>4, <4>1 DEF LeftAsItIs
      <4> QED BY <2>2, <3>1, <4>1, <4>2 DEF Settled
    <3>5. CASE LeftAsItIs(LastReceipt(t))
      <4>1. LastReceipt(t)' = LastReceipt(t)
        BY <2>12, <2>15, <3>3, <3>5 DEF LeftAsItIs
      <4>2. LeftAsItIs(LastReceipt(t))'
        BY <3>5, <4>1 DEF LeftAsItIs
      <4> QED BY <3>1, <4>1, <4>2 DEF Settled
    <3> QED BY <3>4, <3>5
  <2>14. AnswerOK(t)'
    <3>1. ASSUME skill.name = "ingest"
          PROVE  /\ receipts'[t] # <<>>
                 /\ LeftAsItIs(LastReceipt(t))' => LastReceipt(t)'.status = card.receiptStatus
      <4>1. delivery[t].kind = "runtime"
        BY <1>1, <1>2, <1>6, <3>1 DEF CardOK
      <4>2. AnswerOK(t)
        BY <1>1, <1>2, <4>1 DEF ReadersOK
      <4>3. /\ Numbered(t, card)
            /\ LeftAsItIs(LastReceipt(t)) => LastReceipt(t).status = card.receiptStatus
        BY <1>2, <1>6, <2>1, <3>1, <4>2 DEF AnswerOK
      <4>4. ASSUME LeftAsItIs(LastReceipt(t))'
            PROVE  LeftAsItIs(LastReceipt(t)) /\ LastReceipt(t)' = LastReceipt(t)
        <5>1. LeftAsItIs(LastReceipt(t))
          BY <2>12, <4>3, <4>4 DEF LeftAsItIs
        <5> QED BY <2>12, <2>15, <4>3, <5>1 DEF LeftAsItIs
      <4> QED BY <2>12, <4>3, <4>4
    <3>2. ASSUME skill.name = "reconcile", LastReceipt(t)'.no = Reconciled
          PROVE  LastReceipt(t)'.status = "reconciled"
      <4>1. card.receiptStatus = "reconciled" /\ card.receiptNo = Reconciled
        BY <1>1, <1>2, <2>1, <3>2 DEF CardOK
      <4>2. st = "reconciled" /\ no = Reconciled
        BY <2>1, <2>6, <4>1 DEF CardNumber, Reconciled
      <4>3. CASE AddsReceipt(t, r)
        BY <2>5, <4>2, <4>3 DEF AddsReceipt, LastReceipt
      <4>4. CASE Numbered(t, card)
        <5>1. LastReceipt(t).no = Reconciled
          BY <2>12, <3>2, <4>4
        <5>2. receipts[t] \in Seq(ReceiptRows) /\ receipts[t] # <<>>
          BY <1>2, <2>12, <4>4 DEF DeliveryInv, DeliveryTypeOK
        <5>3. Len(receipts[t]) \in DOMAIN receipts[t]
          BY <5>2
        <5>4. LastReceipt(t).projected
          BY <1>1, <1>2, <5>1, <5>3 DEF ReadersOK, LastReceipt
        <5> QED BY <2>12, <4>2, <4>4, <5>1, <5>4
      <4> QED BY <2>7, <4>3, <4>4
    <3> QED BY <1>2, <1>6, <2>1, <2>10, <3>1, <3>2 DEF AnswerOK
  <2> QED BY <1>2, <1>4, <2>2, <2>10, <2>11, <2>13, <2>14 DEF ReadersOK
<1>7. CASE c.do \notin {"receipt", "flush"} /\ KeepsCards /\ receipts' = receipts
  <2>1. \A u \in Deliveries : /\ delivery'[u].kind = delivery[u].kind
                              /\ delivery'[u].receiptStatus = delivery[u].receiptStatus
                              /\ delivery'[u].receiptNo = delivery[u].receiptNo
    BY <1>7 DEF KeepsCards
  <2>2. \A u \in Deliveries : CardNumber(delivery'[u]) = CardNumber(delivery[u])
    BY <2>1 DEF CardNumber
  <2>3. \A u \in Deliveries : LastReceipt(u)' = LastReceipt(u)
    BY <1>7 DEF LastReceipt
  <2>4. \A u \in Deliveries : /\ (Numbered(u, delivery[u]) => Numbered(u, delivery[u])')
                              /\ (Settled(u) => Settled(u)')
    BY <1>7, <2>1, <2>2, <2>3 DEF Numbered, CardNumber, Settled, LeftAsItIs
  <2>5. skill.name # "reconcile"
    BY <1>1, <1>2, <1>7 DEF PlanOK
  <2>6. delivery'[t].kind = "runtime" => AnswerOK(t)'
    <3>1. ASSUME delivery'[t].kind = "runtime", skill.name = "ingest"
          PROVE  /\ receipts[t] # <<>> /\ Numbered(t, skill.card)'
                 /\ LeftAsItIs(LastReceipt(t))' =>
                       LastReceipt(t)'.status = skill.card.receiptStatus
      <4>1. AnswerOK(t)
        BY <1>1, <1>2, <2>1, <3>1 DEF ReadersOK
      <4>2. /\ receipts[t] # <<>> /\ Numbered(t, skill.card)
            /\ LeftAsItIs(LastReceipt(t)) => LastReceipt(t).status = skill.card.receiptStatus
        BY <1>2, <1>7, <3>1, <4>1 DEF AnswerOK
      <4>3. Numbered(t, skill.card)'
        BY <1>2, <1>7, <4>2 DEF Numbered, CardNumber
      <4>4. LeftAsItIs(LastReceipt(t))' <=> LeftAsItIs(LastReceipt(t))
        BY <1>2, <2>3 DEF LeftAsItIs
      <4> QED BY <1>2, <2>3, <4>2, <4>3, <4>4
    <3> QED BY <1>2, <1>7, <2>5, <3>1 DEF AnswerOK
  <2>7. \A u \in Deliveries :
           /\ delivery'[u].kind = "runtime" => Numbered(u, delivery[u])'
           /\ \A i \in DOMAIN receipts[u] : receipts[u][i].no = Reconciled => receipts[u][i].projected
           /\ shown[u] # "any" => delivery'[u].kind = "runtime"
           /\ (shown[u] # "any" /\ ~(t = u /\ skill.name \in Telltales)) =>
                 LastReceipt(u)'.status = shown[u] /\ Settled(u)'
    BY <1>1, <1>3, <2>1, <2>3, <2>4 DEF ReadersOK
  <2> QED BY <1>2, <1>7, <2>6, <2>7 DEF ReadersOK
<1> QED BY <1>5, <1>6, <1>7 DEF Committed

-----------------------------------------------------------------------------
(* The invariant and the property                                          *)

LEMMA DeliveryStep == DeliveryInv /\ [DeliveryNext]_deliveryVars => DeliveryInv'
<1> SUFFICES ASSUME DeliveryInv, [DeliveryNext]_deliveryVars PROVE DeliveryInv'
  OBVIOUS
<1>1. CASE UNCHANGED deliveryVars
  <2>1. /\ UNCHANGED <<delivery, receipts, exchanges, evidenceOf, metrics, subscribed>>
        /\ UNCHANGED <<ackedReceipt, shown, handedOut, brokenOff, unanswered, skill, given>>
        /\ UNCHANGED commitFaults
    BY <1>1 DEF deliveryVars, rowsOfDelivery, tellings
  <2>2. DeliveryTypeOK'
    BY <2>1 DEF DeliveryInv, DeliveryTypeOK
  <2>3. (skill # NoSkill => PlanOK(skill))'
    BY <2>1 DEF DeliveryInv, PlanOK, CardNumber
  <2>4. EvidenceOK'
    BY <2>1 DEF DeliveryInv, EvidenceOK, GivenIds
  <2>5. LinksOK' /\ CardOK'
    BY <2>1 DEF DeliveryInv, LinksOK, HasLink, CardOK, PendingFlush, GivenIds
  <2>6. ASSUME NEW u \in Deliveries
        PROVE  LastReceipt(u)' = LastReceipt(u) /\ (Settled(u)' <=> Settled(u))
               /\ (Numbered(u, delivery[u])' <=> Numbered(u, delivery[u]))
    BY <2>1 DEF LeftAsItIs, LastReceipt, Settled, Numbered, CardNumber
  <2>7. (\A t \in Deliveries :
           /\ delivery[t].kind = "runtime" => Numbered(t, delivery[t])
           /\ \A i \in DOMAIN receipts[t] : receipts[t][i].no = Reconciled => receipts[t][i].projected
           /\ shown[t] # "any" => delivery[t].kind = "runtime"
           /\ shown[t] # "any" /\ ~(skill # NoSkill /\ skill.task = t /\ skill.name \in Telltales) =>
                 LastReceipt(t).status = shown[t] /\ Settled(t))'
    BY <2>1, <2>6 DEF DeliveryInv, ReadersOK
  <2>8. (skill # NoSkill /\ delivery[skill.task].kind = "runtime" => AnswerOK(skill.task))'
    <3>1. ASSUME skill # NoSkill PROVE AnswerOK(skill.task)' <=> AnswerOK(skill.task)
      BY <2>1 DEF AnswerOK, Numbered, CardNumber, LastReceipt, LeftAsItIs
    <3> QED BY <2>1, <3>1 DEF DeliveryInv, ReadersOK
  <2> QED BY <2>2, <2>3, <2>4, <2>5, <2>7, <2>8 DEF DeliveryInv, ReadersOK
<1>2. ASSUME NEW t \in Deliveries,
             \/ \E s \in ExchangeStates, a \in AttemptIds \union {"none"} : Exchange(t, s, a)
             \/ record_file_download(t)
             \/ \E no \in ReceiptNos \union {Unnumbered}, s \in ReceiptStates,
                   noted \in BOOLEAN, a \in AttemptIds \union {"none"}, counted \in BOOLEAN :
                   ingest_delivery_receipt(t, no, s, noted, a, counted)
             \/ reconcile_delivery_receipt(t)
             \/ trigger_delivery_recovery(t)
             \/ \E s \in {"replaced", "cancelled"} : replace_or_cancel_delivery(t, s)
             \/ \E s \in {"active", "paused", "cancelled"} : manage_delivery_subscription(t, s)
             \/ TerminateSubscription(t)
             \/ GrantAccess(t)
             \/ confirm_backflow(t)
             \/ \E s \in {"warning", "supplementing", "reconciling"} : MoveTask(t, s)
             \/ TouchCard(t)
      PROVE  DeliveryInv'
  BY <1>2, ExchangeSkills, DownloadSkill, IngestSkill, CardSkills, OneCommitSkills
<1>3. CASE Work
  <2>1. PICK c, t : c = Head(skill.commits) /\ t = skill.task
    OBVIOUS
  <2>2. GoesOn(c, t)
    BY <1>3, <2>1, CommitsGoOn
  <2>3. /\ Committed(c, t)
        /\ \/ c.do = "attempt" /\ upsert_attempt(t, c)
           \/ c.do = "evidence" /\ add_execution_evidence(t, c)
           \/ c.do \notin {"attempt", "evidence"} /\ UNCHANGED <<exchanges, evidenceOf>>
    BY <1>3, <2>1, <2>2, WorkCommits
  <2>4. DeliveryTypeOK' /\ LinksOK' /\ CardOK' /\ ReadersOK'
    BY <2>2, <2>3, TypeAfterCommit, LinksAfterCommit, CardAfterCommit, ReadersAfterCommit
  <2>5. EvidenceOK'
    BY <2>2, <2>3, EvidenceAfterCommit
  <2>6. PlanOK(skill)'
    BY <2>2 DEF GoesOn
  <2> QED BY <2>4, <2>5, <2>6 DEF DeliveryInv
<1>4. CASE Acknowledge
  BY <1>4, SkillEnds
<1>5. CASE Fails \/ Raises
  BY <1>5, SkillBreaksOff DEF Fails, Raises
<1> QED BY <1>1, <1>2, <1>3, <1>4, <1>5 DEF DeliveryNext

LEMMA DeliveryInvKept == DeliverySpec => []DeliveryInv
<1> QED BY DeliveryStarts, DeliveryStep, PTL DEF DeliverySpec

LEMMA TrailOfInv == DeliveryInv => DeliveryTrailKept
<1> SUFFICES ASSUME DeliveryInv PROVE DeliveryTrailKept
  OBVIOUS
<1>1. AttemptsBehindEvidence
  <2>1. EvidenceOK
    BY DEF DeliveryInv
  <2> QED BY <2>1 DEF EvidenceOK, AttemptsBehindEvidence
<1>2. LinksHaveReceipts
  <2>1. LinksOK
    BY DEF DeliveryInv
  <2> QED BY <2>1 DEF LinksOK, HasLink, LinksHaveReceipts
<1>3. CardsTellAcknowledged
  <2>1. CardOK
    BY DEF DeliveryInv
  <2> QED BY <2>1 DEF CardOK, CardsTellAcknowledged
<1>4. ReadersToldAcknowledged
  <2>1. ASSUME NEW t \in Deliveries, shown[t] # "any", skill = NoSkill
        PROVE  get_delivery_task(t).receiptStatus = shown[t]
    <3>1. LastReceipt(t).status = shown[t] /\ Numbered(t, delivery[t])
      BY <2>1 DEF DeliveryInv, ReadersOK
    <3>2. receipts[t] # <<>>
      BY <3>1 DEF Numbered
    <3> QED BY <3>1, <3>2 DEF get_delivery_task, LastReceipt
  <2> QED BY <2>1 DEF ReadersToldAcknowledged
<1> QED BY <1>1, <1>2, <1>3, <1>4 DEF DeliveryTrailKept

\* What the delivery skills leave behind can be followed back from evidence to
\* attempt, from link to receipt and from answer to card, in whatever order the
\* skills come and wherever their commits fail (DeliveryService).
THEOREM DeliveriesAreTraceable == DeliverySpec => []DeliveryTrailKept
<1> QED BY DeliveryInvKept, TrailOfInv, PTL

-----------------------------------------------------------------------------
(* Forms: what rules, identity and assistant do to a field                 *)

OrganTargets == {"organ_name", "region_code", "region_name"}

LEMMA FieldsAre ==
    /\ FIELD_KEYS = {"organ_code", "organ_name", "region_code", "region_name", "applicant_org",
                     "purpose", "apply_domain"}
    /\ FormFields = FIELD_KEYS \union {"use_item"}
    /\ \A f \in FIELD_KEYS :
          FORM_FIELD_SPECS[f] # "derived" <=> f \in {"organ_code", "region_code", "purpose", "apply_domain"}
<1>1. FIELD_KEYS = {"organ_code", "organ_name", "region_code", "region_name", "applicant_org",
                    "purpose", "apply_domain"}
  BY DEF FIELD_KEYS, FORM_FIELD_SPECS
<1>2. FormFields = FIELD_KEYS \union {"use_item"}
  BY <1>1 DEF FormFields, AI_SUGGESTABLE_FIELDS
<1>3. \A f \in FIELD_KEYS :
          FORM_FIELD_SPECS[f] # "derived" <=> f \in {"organ_code", "region_code", "purpose", "apply_domain"}
  BY <1>1 DEF FORM_FIELD_SPECS
<1> QED BY <1>1, <1>2, <1>3

LEMMA ResultsAre ==
    ASSUME NEW data, NEW code
    PROVE  /\ DOMAIN _resolve_region(data, code) = {"region_name"}
           /\ DOMAIN _resolve_organ(data, code) = OrganTargets
<1>1. DOMAIN _resolve_region(data, code) = {"region_name"}
  BY DEF _resolve_region
<1>2. DOMAIN _resolve_organ(data, code) = OrganTargets
  BY DEF _resolve_organ, OrganTargets
<1> QED BY <1>1, <1>2

IsFilled(x) ==
    /\ {"values", "provenance"} \subseteq DOMAIN x
    /\ x.values = [f \in FormFields |-> x.values[f]]
    /\ x.provenance = [f \in FormFields |-> x.provenance[f]]

\* All but values and provenance.
SameRest(x, y) ==
    DOMAIN y = DOMAIN x /\ \A k \in DOMAIN x \ {"values", "provenance"} : y[k] = x[k]

SameField(x, y, f) == y.values[f] = x.values[f] /\ y.provenance[f] = x.provenance[f]

RuledTo(x, y, trigger, result) ==
    /\ IsFilled(y) /\ SameRest(x, y)
    /\ \A f \in FormFields :
          /\ x.values[trigger] # Empty /\ f \in DOMAIN result =>
                y.values[f] = result[f] /\ y.provenance[f] = Owned("derived", FALSE)
          /\ x.values[trigger] = Empty /\ f \in DOMAIN result /\ x.provenance[f].source = "derived" =>
                y.values[f] = Empty /\ y.provenance[f] = Owned("empty", FALSE)
          /\ f \notin DOMAIN result \/ (x.values[trigger] = Empty /\ x.provenance[f].source # "derived") =>
                SameField(x, y, f)

LEMMA RuleWrites ==
    ASSUME NEW x, IsFilled(x), NEW trigger, NEW result
    PROVE  RuledTo(x, Ruled(x, trigger, result), trigger, result)
<1>1. PICK y : y = Ruled(x, trigger, result)
  OBVIOUS
<1>2. PICK v : v = [f \in FormFields |->
                      IF ~(IF x.values[trigger] # Empty THEN f \in DOMAIN result
                           ELSE f \in DOMAIN result /\ x.provenance[f].source = "derived")
                      THEN x.values[f] ELSE IF x.values[trigger] # Empty THEN result[f] ELSE Empty]
  OBVIOUS
<1>3. PICK p : p = [f \in FormFields |->
                      IF ~(IF x.values[trigger] # Empty THEN f \in DOMAIN result
                           ELSE f \in DOMAIN result /\ x.provenance[f].source = "derived")
                      THEN x.provenance[f]
                      ELSE IF x.values[trigger] # Empty THEN Owned("derived", FALSE)
                      ELSE Owned("empty", FALSE)]
  OBVIOUS
<1>4. y = [x EXCEPT !.values = v, !.provenance = p]
  BY <1>1, <1>2, <1>3 DEF Ruled
<1>5. y.values = v /\ y.provenance = p /\ SameRest(x, y) /\ {"values", "provenance"} \subseteq DOMAIN y
  BY <1>4 DEF IsFilled, SameRest
<1>6. IsFilled(y)
  BY <1>2, <1>3, <1>5 DEF IsFilled
<1> QED BY ZenonT(60), <1>1, <1>2, <1>3, <1>5, <1>6 DEF RuledTo, SameField

\* Where a value comes from, and what a person wrote last into a field: "was".
SourcesOK(x, was) ==
    \A f \in FormFields :
        /\ x.provenance[f].source \in {"none", "empty"} => x.values[f] = Empty
        /\ x.provenance[f].source = "ai_suggested" =>
              f \in AI_SUGGESTABLE_FIELDS /\ x.values[f] # Empty
        /\ x.provenance[f].source = "derived" => f \notin AI_SUGGESTABLE_FIELDS
        /\ x.provenance[f].source \in {"none", "empty", "human", "derived", "ai_suggested"}
        /\ f \in {"organ_name", "region_name"} /\ x.provenance[f].source = "human" =>
              x.values[f] = was[f]
        /\ f \in FIELD_KEYS /\ FORM_FIELD_SPECS[f] # "derived" /\ was[f] # NeverTyped =>
              /\ x.values[f] = was[f] /\ x.provenance[f].source = "human"
              /\ f = "region_code" => x.values["organ_code"] = Empty

\* What rules leave alone.
RulesKeep(x, y) ==
    \A f \in FormFields :
        f \notin OrganTargets
        \/ (f = "region_code" /\ x.values["organ_code"] = Empty /\ x.provenance[f].source # "derived") =>
            SameField(x, y, f)

\* What the rules make of the names and the region.
Fits(y, data, was) ==
    LET v == y.values
        organ == _resolve_organ(data, v["organ_code"])
    IN /\ v["organ_code"] # Empty =>
              /\ v["organ_name"] = organ.organ_name /\ v["region_code"] = organ.region_code
              /\ y.provenance["region_code"].source = "derived"
       /\ v["region_code"] # Empty =>
              v["region_name"] = _resolve_region(data, v["region_code"]).region_name
       /\ v["organ_code"] = Empty => v["organ_name"] \in {Empty, was["organ_name"]}
       /\ v["region_code"] = Empty => v["region_name"] \in {Empty, was["region_name"]}

LEMMA OrganRule ==
    ASSUME NEW x, IsFilled(x), NEW was, SourcesOK(x, was), NEW data, NEW y,
           y = Ruled(x, "organ_code", _resolve_organ(data, x.values["organ_code"]))
    PROVE  /\ IsFilled(y) /\ SameRest(x, y) /\ SourcesOK(y, was) /\ RulesKeep(x, y)
           /\ y.values["organ_code"] # Empty =>
                 /\ y.values["organ_name"] = _resolve_organ(data, y.values["organ_code"]).organ_name
                 /\ y.values["region_code"] = _resolve_organ(data, y.values["organ_code"]).region_code
                 /\ y.provenance["region_code"].source = "derived"
           /\ y.values["organ_code"] = Empty => y.values["organ_name"] \in {Empty, was["organ_name"]}
<1>1. PICK result : result = _resolve_organ(data, x.values["organ_code"])
  OBVIOUS
<1>2. RuledTo(x, y, "organ_code", result)
  BY <1>1, RuleWrites
<1>3. DOMAIN result = OrganTargets
  BY <1>1, ResultsAre
<1>4. /\ Owned("derived", FALSE).source = "derived" /\ Owned("empty", FALSE).source = "empty"
  BY DEF Owned
<1>5. "organ_code" \notin OrganTargets /\ "organ_code" \in FormFields /\ OrganTargets \subseteq FormFields
  BY FieldsAre DEF OrganTargets
<1>6. RulesKeep(x, y)
  BY <1>2, <1>3 DEF RulesKeep, RuledTo
<1>7. y.values["organ_code"] = x.values["organ_code"]
  BY <1>5, <1>6 DEF RulesKeep, SameField
<1>8. ASSUME NEW f \in FormFields
      PROVE  \/ SameField(x, y, f)
             \/ /\ x.values["organ_code"] # Empty /\ f \in OrganTargets
                /\ y.values[f] = result[f] /\ y.provenance[f].source = "derived"
             \/ /\ x.values["organ_code"] = Empty /\ f \in OrganTargets
                /\ x.provenance[f].source = "derived"
                /\ y.values[f] = Empty /\ y.provenance[f].source = "empty"
  BY <1>2, <1>3, <1>4 DEF RuledTo
<1>9. SourcesOK(y, was)
  <2>1. OrganTargets \intersect AI_SUGGESTABLE_FIELDS = {}
    BY DEF OrganTargets, AI_SUGGESTABLE_FIELDS
  <2>2. ASSUME NEW f \in FIELD_KEYS, FORM_FIELD_SPECS[f] # "derived", was[f] # NeverTyped
        PROVE  SameField(x, y, f) /\ (f = "region_code" => y.values["organ_code"] = Empty)
    <3>1. f \in FormFields /\ (f \in OrganTargets => f = "region_code")
      BY <2>2, FieldsAre DEF OrganTargets
    <3>2. x.provenance[f].source = "human" /\ (f = "region_code" => x.values["organ_code"] = Empty)
      BY <2>2, <3>1 DEF SourcesOK
    <3> QED BY <1>6, <1>7, <3>1, <3>2 DEF RulesKeep
  <2> QED BY <1>8, <2>1, <2>2 DEF SourcesOK, SameField
<1>10. ASSUME y.values["organ_code"] # Empty
       PROVE  /\ y.values["organ_name"] = result.organ_name /\ y.values["region_code"] = result.region_code
              /\ y.provenance["region_code"].source = "derived"
  BY <1>2, <1>3, <1>4, <1>5, <1>7, <1>10 DEF RuledTo, OrganTargets
<1>11. ASSUME y.values["organ_code"] = Empty
       PROVE  y.values["organ_name"] \in {Empty, was["organ_name"]}
  <2>1. "organ_name" \in FormFields /\ "organ_name" \notin AI_SUGGESTABLE_FIELDS
    BY FieldsAre DEF AI_SUGGESTABLE_FIELDS
  <2>2. y.provenance["organ_name"].source # "derived"
    <3>1. "organ_name" \in OrganTargets
      BY DEF OrganTargets
    <3> QED BY <1>2, <1>3, <1>4, <1>7, <1>11, <2>1, <3>1 DEF RuledTo, SameField
  <2> QED BY <1>9, <2>1, <2>2 DEF SourcesOK
<1> QED BY <1>1, <1>2, <1>6, <1>7, <1>9, <1>10, <1>11 DEF RuledTo

RegionRuled(x, y, data, was) ==
    /\ IsFilled(y) /\ SameRest(x, y) /\ SourcesOK(y, was)
    /\ \A f \in FormFields \ {"region_name"} : SameField(x, y, f)
    /\ y.values["region_code"] # Empty =>
          y.values["region_name"] = _resolve_region(data, y.values["region_code"]).region_name
    /\ y.values["region_code"] = Empty => y.values["region_name"] \in {Empty, was["region_name"]}

LEMMA RegionRule ==
    ASSUME NEW x, IsFilled(x), NEW was, SourcesOK(x, was), NEW data, NEW y,
           y = Ruled(x, "region_code", _resolve_region(data, x.values["region_code"]))
    PROVE  RegionRuled(x, y, data, was)
<1>1. PICK result : result = _resolve_region(data, x.values["region_code"])
  OBVIOUS
<1>2. RuledTo(x, y, "region_code", result)
  BY <1>1, RuleWrites
<1>3. DOMAIN result = {"region_name"}
  BY <1>1, ResultsAre
<1>4. /\ Owned("derived", FALSE).source = "derived" /\ Owned("empty", FALSE).source = "empty"
  BY DEF Owned
<1>5. "region_code" \in FormFields /\ "region_name" \in FormFields
  BY FieldsAre
<1>6. \A f \in FormFields \ {"region_name"} : SameField(x, y, f)
  BY <1>2, <1>3 DEF RuledTo
<1>7. y.values["region_code"] = x.values["region_code"]
  BY <1>5, <1>6 DEF SameField
<1>8. \/ SameField(x, y, "region_name") /\ x.values["region_code"] = Empty
         /\ x.provenance["region_name"].source # "derived"
      \/ /\ x.values["region_code"] # Empty
         /\ y.values["region_name"] = result["region_name"] /\ y.provenance["region_name"].source = "derived"
      \/ /\ x.values["region_code"] = Empty
         /\ y.values["region_name"] = Empty /\ y.provenance["region_name"].source = "empty"
  BY <1>2, <1>3, <1>4, <1>5 DEF RuledTo
<1>9. SourcesOK(y, was)
  <2>1. "region_name" \notin AI_SUGGESTABLE_FIELDS /\ FORM_FIELD_SPECS["region_name"] = "derived"
        /\ "organ_code" \in FormFields
    BY FieldsAre DEF AI_SUGGESTABLE_FIELDS, FORM_FIELD_SPECS
  <2>2. y.values["organ_code"] = x.values["organ_code"]
    BY <1>6, <2>1 DEF SameField
  <2> QED BY <1>6, <1>8, <2>1, <2>2 DEF SourcesOK, SameField
<1>10. y.values["region_code"] = Empty => y.values["region_name"] \in {Empty, was["region_name"]}
  <2>1. "region_name" \notin AI_SUGGESTABLE_FIELDS
    BY DEF AI_SUGGESTABLE_FIELDS
  <2> QED BY <1>5, <1>7, <1>8, <1>9, <2>1 DEF SourcesOK, SameField
<1> QED BY <1>1, <1>2, <1>6, <1>7, <1>8, <1>9, <1>10 DEF RuledTo, RegionRuled

\* What a filled form is after the rules.
RulesDone(x, y, data, was) ==
    /\ IsFilled(y) /\ SameRest(x, y) /\ SourcesOK(y, was) /\ RulesKeep(x, y) /\ Fits(y, data, was)

LEMMA PassOfRules ==
    ASSUME NEW x, IsFilled(x), NEW was, SourcesOK(x, was), NEW data
    PROVE  RulesDone(x, DERIVATION_RULES(data, x), data, was)
<1>1. PICK y : y = Ruled(x, "organ_code", _resolve_organ(data, x.values["organ_code"]))
  OBVIOUS
<1>2. PICK z : z = Ruled(y, "region_code", _resolve_region(data, y.values["region_code"]))
  OBVIOUS
<1>3. z = DERIVATION_RULES(data, x)
  BY <1>1, <1>2 DEF DERIVATION_RULES
<1>4. /\ IsFilled(y) /\ SameRest(x, y) /\ SourcesOK(y, was) /\ RulesKeep(x, y)
      /\ y.values["organ_code"] # Empty =>
            /\ y.values["organ_name"] = _resolve_organ(data, y.values["organ_code"]).organ_name
            /\ y.values["region_code"] = _resolve_organ(data, y.values["organ_code"]).region_code
            /\ y.provenance["region_code"].source = "derived"
      /\ y.values["organ_code"] = Empty => y.values["organ_name"] \in {Empty, was["organ_name"]}
  BY <1>1, OrganRule
<1>5. /\ IsFilled(z) /\ SameRest(y, z) /\ SourcesOK(z, was)
      /\ \A f \in FormFields \ {"region_name"} : SameField(y, z, f)
      /\ z.values["region_code"] # Empty =>
            z.values["region_name"] = _resolve_region(data, z.values["region_code"]).region_name
      /\ z.values["region_code"] = Empty => z.values["region_name"] \in {Empty, was["region_name"]}
  <2>1. RegionRuled(y, z, data, was)
    BY <1>2, <1>4, RegionRule
  <2> QED BY <2>1 DEF RegionRuled
<1>6. SameRest(x, z)
  BY <1>4, <1>5 DEF SameRest
<1>7. RulesKeep(x, z)
  <2>1. \A f \in FormFields : f = "region_name" => f \in OrganTargets
    BY DEF OrganTargets
  <2> QED BY <1>4, <1>5, <2>1 DEF RulesKeep, SameField
<1>8. Fits(z, data, was)
  <2>1. {"organ_code", "organ_name", "region_code"} \subseteq FormFields \ {"region_name"}
    BY FieldsAre
  <2>2. /\ z.values["organ_code"] = y.values["organ_code"] /\ z.values["organ_name"] = y.values["organ_name"]
        /\ z.values["region_code"] = y.values["region_code"]
        /\ z.provenance["region_code"] = y.provenance["region_code"]
    BY <1>5, <2>1 DEF SameField
  <2> QED BY <1>4, <1>5, <2>2 DEF Fits
<1> QED BY <1>3, <1>5, <1>6, <1>7, <1>8 DEF RulesDone

LEMMA PassesAfterPasses ==
    ASSUME NEW x, NEW y, NEW was, NEW data, RulesDone(x, y, data, was)
    PROVE  RulesDone(x, DERIVATION_RULES(data, y), data, was)
<1>1. PICK z : z = DERIVATION_RULES(data, y)
  OBVIOUS
<1>2. RulesDone(y, z, data, was)
  BY <1>1, PassOfRules DEF RulesDone
<1>3. SameRest(x, z)
  BY <1>2 DEF RulesDone, SameRest
<1>4. RulesKeep(x, z)
  <2>1. "organ_code" \in FormFields /\ "organ_code" \notin OrganTargets
    BY FieldsAre DEF OrganTargets
  <2>2. y.values["organ_code"] = x.values["organ_code"]
    BY <2>1 DEF RulesDone, RulesKeep, SameField
  <2> QED BY <1>2, <2>2 DEF RulesDone, RulesKeep, SameField
<1> QED BY <1>1, <1>2, <1>3, <1>4 DEF RulesDone

\* The passes of derive, one after the other.
LEMMA DeriveIsPasses ==
    ASSUME NEW data, NEW x, NEW x1, NEW x2, NEW x3, NEW x4,
           x1 = DERIVATION_RULES(data, x), x2 = DERIVATION_RULES(data, x1),
           x3 = DERIVATION_RULES(data, x2), x4 = DERIVATION_RULES(data, x3)
    PROVE  derive(data, x) = DERIVATION_RULES(data, x4)
<1> DEFINE Passes(g) == [n \in 0 .. _MAX_PASSES |->
                            IF n = 0 THEN x ELSE DERIVATION_RULES(data, g[n - 1])]
<1>1. PICK x5 : x5 = DERIVATION_RULES(data, x4)
  OBVIOUS
<1>2. PICK g : g = [n \in 0 .. 5 |-> IF n = 0 THEN x ELSE IF n = 1 THEN x1 ELSE IF n = 2 THEN x2
                                     ELSE IF n = 3 THEN x3 ELSE IF n = 4 THEN x4 ELSE x5]
  OBVIOUS
<1>3. g = Passes(g)
  <2>1. ASSUME NEW n \in 0 .. 5
        PROVE  g[n] = IF n = 0 THEN x ELSE DERIVATION_RULES(data, g[n - 1])
    <3>1. n = 0 \/ n = 1 \/ n = 2 \/ n = 3 \/ n = 4 \/ n = 5
      OBVIOUS
    <3>2. g[0] = x /\ g[1] = x1 /\ g[2] = x2 /\ g[3] = x3 /\ g[4] = x4 /\ g[5] = x5
      BY <1>2
    <3> QED BY <1>1, <3>1, <3>2
  <2> QED BY <1>2, <2>1 DEF _MAX_PASSES
<1>4. PICK after : after = CHOOSE h : h = Passes(h)
  OBVIOUS
<1>5. after = Passes(after)
  BY <1>3, <1>4
<1>6. \A n \in 0 .. 5 : after[n] = IF n = 0 THEN x ELSE DERIVATION_RULES(data, after[n - 1])
  BY <1>5 DEF _MAX_PASSES
<1>7. after[5] = x5
  <2>1. after[0] = x
    BY <1>6
  <2>2. after[1] = x1
    BY <1>6, <2>1
  <2>3. after[2] = x2
    BY <1>6, <2>2
  <2>4. after[3] = x3
    BY <1>6, <2>3
  <2>5. after[4] = x4
    BY <1>6, <2>4
  <2> QED BY <1>1, <1>6, <2>5
<1>8. derive(data, x) = after[5]
  BY <1>4 DEF derive, _MAX_PASSES
<1> QED BY <1>1, <1>7, <1>8

LEMMA DeriveSettles ==
    ASSUME NEW x, IsFilled(x), NEW was, SourcesOK(x, was), NEW data
    PROVE  RulesDone(x, derive(data, x), data, was)
<1>1. PICK x1, x2, x3, x4 : /\ x1 = DERIVATION_RULES(data, x) /\ x2 = DERIVATION_RULES(data, x1)
                            /\ x3 = DERIVATION_RULES(data, x2) /\ x4 = DERIVATION_RULES(data, x3)
  OBVIOUS
<1>2. RulesDone(x, x1, data, was)
  BY <1>1, PassOfRules
<1>3. RulesDone(x, x2, data, was)
  BY <1>1, <1>2, PassesAfterPasses
<1>4. RulesDone(x, x3, data, was)
  BY <1>1, <1>3, PassesAfterPasses
<1>5. RulesDone(x, x4, data, was)
  BY <1>1, <1>4, PassesAfterPasses
<1>6. RulesDone(x, DERIVATION_RULES(data, x4), data, was)
  BY <1>5, PassesAfterPasses
<1> QED BY <1>1, <1>6, DeriveIsPasses

\* One field is written.
WrittenTo(x, y, f, value, source) ==
    /\ IsFilled(y) /\ SameRest(x, y)
    /\ y.values[f] = value /\ y.provenance[f].source = source
    /\ \A g \in FormFields \ {f} : SameField(x, y, g)

LEMMA FieldIsWritten ==
    ASSUME NEW x, IsFilled(x), NEW f \in FormFields, NEW value, NEW source, NEW locked
    PROVE  WrittenTo(x, Written(x, f, value, Owned(source, locked)), f, value, source)
<1>1. PICK y, p : p = Owned(source, locked) /\ y = Written(x, f, value, Owned(source, locked))
  OBVIOUS
<1>2. p.source = source
  BY <1>1 DEF Owned
<1>3. PICK v, o : v = [x.values EXCEPT ![f] = value] /\ o = [x.provenance EXCEPT ![f] = p]
  OBVIOUS
<1>4. y = [x EXCEPT !.values = v, !.provenance = o]
  BY <1>1, <1>3 DEF Written
<1>5. DOMAIN x.values = FormFields /\ DOMAIN x.provenance = FormFields
  BY DEF IsFilled
<1>6. /\ v = [g \in FormFields |-> IF g = f THEN value ELSE x.values[g]]
      /\ o = [g \in FormFields |-> IF g = f THEN p ELSE x.provenance[g]]
  BY <1>3, <1>5
<1>7. y.values = v /\ y.provenance = o /\ SameRest(x, y) /\ {"values", "provenance"} \subseteq DOMAIN y
  BY <1>4 DEF IsFilled, SameRest
<1>8. IsFilled(y)
  BY <1>6, <1>7 DEF IsFilled
<1> QED BY <1>1, <1>2, <1>6, <1>7, <1>8 DEF WrittenTo, SameField

IdentityDone(x, y, was) ==
    /\ IsFilled(y) /\ SameRest(x, y) /\ SourcesOK(y, was)
    /\ \A g \in FormFields \ {"applicant_org"} : SameField(x, y, g)

LEMMA IdentityFills ==
    ASSUME NEW x, IsFilled(x), NEW was, SourcesOK(x, was), NEW org
    PROVE  IdentityDone(x, IdentityFilled(x, org), was)
<1>1. CASE IdentityFilled(x, org) = x
  BY <1>1 DEF IdentityDone, SameRest, SameField
<1>2. CASE IdentityFilled(x, org) # x
  <2>1. PICK y : y = IdentityFilled(x, org)
    OBVIOUS
  <2>2. y = Written(x, "applicant_org", org, Owned("derived", FALSE))
    BY <1>2, <2>1 DEF IdentityFilled
  <2>3. "applicant_org" \in FormFields
    BY FieldsAre
  <2>4. WrittenTo(x, y, "applicant_org", org, "derived")
    BY <2>2, <2>3, FieldIsWritten
  <2>5. SourcesOK(y, was)
    <3>1. /\ "applicant_org" \notin AI_SUGGESTABLE_FIELDS /\ FORM_FIELD_SPECS["applicant_org"] = "derived"
          /\ "organ_code" \in FormFields
      BY FieldsAre DEF AI_SUGGESTABLE_FIELDS, FORM_FIELD_SPECS
    <3>2. y.values["organ_code"] = x.values["organ_code"]
      BY <2>4, <3>1 DEF WrittenTo, SameField
    <3> QED BY <2>4, <3>1, <3>2 DEF WrittenTo, SourcesOK, SameField
  <2> QED BY <2>1, <2>4, <2>5 DEF IdentityDone, WrittenTo
<1> QED BY <1>1, <1>2

\* A field takes the assistant's proposal, or stays.
Proposed(x, y, f) ==
    /\ f \in AI_SUGGESTABLE_FIELDS /\ x.values[f] = Empty
    /\ x.provenance[f].source \notin {"human", "derived"}
    /\ y.values[f] = Proposal /\ y.provenance[f].source = "ai_suggested"

SuggestedTo(x, y) ==
    /\ IsFilled(y) /\ SameRest(x, y)
    /\ \A f \in FormFields : Proposed(x, y, f) \/ SameField(x, y, f)

LEMMA SuggestionsFill ==
    ASSUME NEW x, IsFilled(x), NEW proposed
    PROVE  SuggestedTo(x, Suggested(x, proposed))
<1>1. PICK y : y = Suggested(x, proposed)
  OBVIOUS
<1>2. PICK v, o :
         /\ v = [f \in FormFields |-> IF f \in proposed /\ Suggestible(x, f) THEN Proposal ELSE x.values[f]]
         /\ o = [f \in FormFields |-> IF f \in proposed /\ Suggestible(x, f)
                                      THEN Owned("ai_suggested", FALSE) ELSE x.provenance[f]]
  OBVIOUS
<1>3. y = [x EXCEPT !.values = v, !.provenance = o]
  BY <1>1, <1>2 DEF Suggested
<1>4. y.values = v /\ y.provenance = o /\ SameRest(x, y) /\ {"values", "provenance"} \subseteq DOMAIN y
  BY <1>3 DEF IsFilled, SameRest
<1>5. IsFilled(y)
  BY <1>2, <1>4 DEF IsFilled
<1>6. Owned("ai_suggested", FALSE).source = "ai_suggested"
  BY DEF Owned
<1>7. ASSUME NEW f \in FormFields
      PROVE  Proposed(x, y, f) \/ SameField(x, y, f)
  <2>1. CASE f \in proposed /\ Suggestible(x, f)
    <3>1. y.values[f] = Proposal /\ y.provenance[f].source = "ai_suggested"
      BY <1>2, <1>4, <1>6, <2>1
    <3> QED BY <2>1, <3>1 DEF Proposed, Suggestible
  <2>2. CASE ~(f \in proposed /\ Suggestible(x, f))
    BY <1>2, <1>4, <2>2 DEF SameField
  <2> QED BY <2>1, <2>2
<1> QED BY <1>1, <1>4, <1>5, <1>7 DEF SuggestedTo

\* A field that nobody answered for is noted, as empty.
NotedTo(x, y) ==
    /\ IsFilled(y) /\ SameRest(x, y)
    /\ \A f \in FormFields :
          /\ y.values[f] = x.values[f]
          /\ \/ y.provenance[f] = x.provenance[f]
             \/ x.provenance[f].source = "none" /\ y.provenance[f].source = "empty"

LEMMA NotingFills ==
    ASSUME NEW x, IsFilled(x), NEW was, SourcesOK(x, was)
    PROVE  NotedTo(x, Noted(x))
<1>1. PICK y : y = Noted(x)
  OBVIOUS
<1>2. PICK o :
         o = [f \in FormFields |->
                IF x.provenance[f] # NotNoted \/ (f \notin FIELD_KEYS /\ x.values[f] = Empty)
                THEN x.provenance[f]
                ELSE Owned(IF x.values[f] = Empty THEN "empty" ELSE "human", FALSE)]
  OBVIOUS
<1>3. y = [x EXCEPT !.provenance = o]
  BY <1>1, <1>2 DEF Noted
<1>4. /\ y.values = x.values /\ y.provenance = o /\ SameRest(x, y)
      /\ {"values", "provenance"} \subseteq DOMAIN y
  BY <1>3 DEF IsFilled, SameRest
<1>5. IsFilled(y)
  BY <1>2, <1>4 DEF IsFilled
<1>6. Owned("empty", FALSE).source = "empty" /\ NotNoted.source = "none"
  BY DEF Owned, NotNoted
<1>7. ASSUME NEW f \in FormFields, y.provenance[f] # x.provenance[f]
      PROVE  x.provenance[f].source = "none" /\ y.provenance[f].source = "empty"
  <2>1. x.provenance[f] = NotNoted
    BY <1>2, <1>4, <1>7
  <2>2. x.values[f] = Empty
    BY <1>6, <2>1 DEF SourcesOK
  <2>3. y.provenance[f] = Owned("empty", FALSE)
    BY <1>2, <1>4, <1>7, <2>1, <2>2
  <2> QED BY <1>6, <2>1, <2>3
<1> QED BY <1>1, <1>4, <1>5, <1>7 DEF NotedTo

\* What orchestrate_fill leaves.
FillDone(x, y, data, was) ==
    /\ IsFilled(y) /\ SameRest(x, y) /\ SourcesOK(y, was) /\ Fits(y, data, was)
    /\ y.values["organ_code"] = x.values["organ_code"]
    /\ \A f \in AI_SUGGESTABLE_FIELDS :
          \/ Proposed(x, y, f)
          \/ /\ y.values[f] = x.values[f]
             /\ y.provenance[f].source = "ai_suggested" <=> x.provenance[f].source = "ai_suggested"

LEMMA FillSettles ==
    ASSUME NEW x, IsFilled(x), NEW was, SourcesOK(x, was), NEW data, NEW org, NEW proposed
    PROVE  FillDone(x, orchestrate_fill(data, x, org, proposed), data, was)
<1>1. PICK a, b, c, d : /\ a = IdentityFilled(x, org) /\ b = derive(data, a)
                        /\ c = Suggested(b, proposed) /\ d = Noted(c)
  OBVIOUS
<1>2. d = orchestrate_fill(data, x, org, proposed)
  BY <1>1 DEF orchestrate_fill
<1>3. IdentityDone(x, a, was)
  BY <1>1, IdentityFills
<1>4. RulesDone(a, b, data, was)
  BY <1>1, <1>3, DeriveSettles DEF IdentityDone
<1>5. SuggestedTo(b, c)
  BY <1>1, <1>4, SuggestionsFill DEF RulesDone
<1>6. /\ AI_SUGGESTABLE_FIELDS \subseteq FormFields \ {"applicant_org"}
      /\ AI_SUGGESTABLE_FIELDS \intersect OrganTargets = {}
      /\ OrganTargets \subseteq FormFields
      /\ "organ_code" \in FormFields \ {"applicant_org"}
      /\ "organ_code" \notin AI_SUGGESTABLE_FIELDS /\ "organ_code" \notin OrganTargets
  BY FieldsAre DEF AI_SUGGESTABLE_FIELDS, OrganTargets
<1>7. \A f \in AI_SUGGESTABLE_FIELDS \union {"organ_code"} : SameField(x, b, f)
  BY <1>3, <1>4, <1>6 DEF IdentityDone, RulesDone, RulesKeep, SameField
<1>8. \A f \in FormFields \ AI_SUGGESTABLE_FIELDS : SameField(b, c, f)
  BY <1>5 DEF SuggestedTo, Proposed
<1>9. SourcesOK(c, was)
  <2>1. SourcesOK(b, was) /\ c.values["organ_code"] = b.values["organ_code"]
    BY <1>4, <1>6, <1>8 DEF RulesDone, SameField
  <2>2. ASSUME NEW f \in FormFields, Proposed(b, c, f)
        PROVE  /\ c.provenance[f].source = "ai_suggested" /\ c.values[f] # Empty
               /\ f \in AI_SUGGESTABLE_FIELDS /\ f \notin {"organ_name", "region_name"}
               /\ ~(f \in FIELD_KEYS /\ FORM_FIELD_SPECS[f] # "derived" /\ was[f] # NeverTyped)
    <3>1. /\ c.provenance[f].source = "ai_suggested" /\ c.values[f] # Empty
          /\ f \in AI_SUGGESTABLE_FIELDS /\ b.provenance[f].source # "human"
      BY <2>2 DEF Proposed, Proposal, Empty
    <3> QED BY <2>1, <3>1 DEF SourcesOK, AI_SUGGESTABLE_FIELDS
  <2>3. \A f \in FormFields : Proposed(b, c, f) \/ SameField(b, c, f)
    BY <1>5 DEF SuggestedTo
  <2> QED BY <2>1, <2>2, <2>3 DEF SourcesOK, SameField
<1>10. NotedTo(c, d)
  BY <1>1, <1>5, <1>9, NotingFills DEF SuggestedTo
<1>11. SourcesOK(d, was)
  <2>1. d.values["organ_code"] = c.values["organ_code"]
    BY <1>6, <1>10 DEF NotedTo
  <2> QED BY <1>9, <1>10, <2>1 DEF NotedTo, SourcesOK
<1>12. SameRest(x, d)
  BY <1>3, <1>4, <1>5, <1>10 DEF IdentityDone, RulesDone, SuggestedTo, NotedTo, SameRest
<1>13. Fits(d, data, was)
  <2>1. {"organ_code"} \union OrganTargets \subseteq FormFields \ AI_SUGGESTABLE_FIELDS
    BY <1>6
  <2>2. \A f \in {"organ_code"} \union OrganTargets :
           /\ d.values[f] = b.values[f]
           /\ b.provenance[f].source = "derived" => d.provenance[f].source = "derived"
    BY <1>8, <1>10, <2>1 DEF NotedTo, SameField
  <2>3. /\ d.values["organ_code"] = b.values["organ_code"] /\ d.values["organ_name"] = b.values["organ_name"]
        /\ d.values["region_code"] = b.values["region_code"]
        /\ d.values["region_name"] = b.values["region_name"]
        /\ b.provenance["region_code"].source = "derived" => d.provenance["region_code"].source = "derived"
    BY <2>2 DEF OrganTargets
  <2>4. Fits(b, data, was)
    BY <1>4 DEF RulesDone
  <2> QED BY <2>3, <2>4 DEF Fits
<1>14. d.values["organ_code"] = x.values["organ_code"]
  BY <1>6, <1>7, <1>8, <1>10 DEF NotedTo, SameField
<1>15. ASSUME NEW f \in AI_SUGGESTABLE_FIELDS
       PROVE  \/ Proposed(x, d, f)
              \/ /\ d.values[f] = x.values[f]
                 /\ d.provenance[f].source = "ai_suggested" <=> x.provenance[f].source = "ai_suggested"
  <2>1. f \in FormFields /\ SameField(x, b, f)
    BY <1>6, <1>7
  <2>2. CASE Proposed(b, c, f)
    BY <1>10, <2>1, <2>2 DEF Proposed, NotedTo, SameField
  <2>3. CASE SameField(b, c, f)
    BY <1>10, <2>1, <2>3 DEF NotedTo, SameField
  <2> QED BY <1>5, <2>1, <2>2, <2>3 DEF SuggestedTo
<1>16. IsFilled(d)
  BY <1>10 DEF NotedTo
<1> QED BY <1>2, <1>11, <1>12, <1>13, <1>14, <1>15, <1>16 DEF FillDone

-----------------------------------------------------------------------------
(* The inductive invariant of a form                                       *)

\* A text of the assistant's is marked as one for as long as nobody wrote it.
MarkedAsProposal ==
    \A f \in AI_SUGGESTABLE_FIELDS :
        form.provenance[f].source = "ai_suggested"
            <=> (writer[f] = "machine" /\ form.values[f] # Empty)

FormInv ==
    /\ DOMAIN form = {"status", "audit", "values", "provenance"} /\ IsFilled(form)
    /\ SourcesOK(form, typed)
    /\ Fits(form, readAt, typed)
    /\ form.status = "absent" => form = Absent /\ \A f \in FormFields : typed[f] = NeverTyped
    /\ MarkedAsProposal
    /\ AuditNamesProposals

-----------------------------------------------------------------------------
(* One edit of a person                                                    *)

\* The organ a form names once a person wrote into a field.
OrganAfter(x, f, value) == IF f = "organ_code" THEN value ELSE x.values["organ_code"]

\* What a person wrote last, after the edit: an organ takes the region over.
WasAfter(x, f, value, was) ==
    [g \in FormFields |->
        IF g = "region_code" /\ OrganAfter(x, f, value) # Empty THEN NeverTyped
        ELSE IF g = f THEN value ELSE was[g]]

\* What an edit leaves: the derived fields follow, nothing else moves.
EditDone(x, y, f, value, data, was) ==
    /\ IsFilled(y) /\ SameRest(x, y) /\ SourcesOK(y, was) /\ Fits(y, data, was)
    /\ y.values["organ_code"] = OrganAfter(x, f, value)
    /\ (f # "region_code" \/ x.provenance[f].source # "derived") =>
          /\ f = "region_code" => x.values["organ_code"] = Empty
          /\ y.values[f] = value /\ y.provenance[f].source = "human"
    /\ \A g \in FormFields \ {f} : g \notin OrganTargets => SameField(x, y, g)

LEMMA EditSettles ==
    ASSUME NEW x, IsFilled(x), NEW was, SourcesOK(x, was), NEW before, Fits(x, before, was),
           NEW f \in FIELD_KEYS, FORM_FIELD_SPECS[f] # "derived", NEW value, NEW data
    PROVE  EditDone(x, apply_human_edit(data, x, f, value), f, value, data,
                    WasAfter(x, f, value, was))
<1>1. PICK a, y, now : /\ a = Written(x, f, value, Owned("human", TRUE)) /\ y = derive(data, a)
                       /\ now = WasAfter(x, f, value, was)
  OBVIOUS
<1>2. f \in FormFields /\ f \in {"organ_code", "region_code", "purpose", "apply_domain"}
  BY FieldsAre
<1>3. WrittenTo(x, a, f, value, "human")
  BY <1>1, <1>2, FieldIsWritten
<1>4. "organ_code" \in FormFields
  BY FieldsAre
<1>5. a.values["organ_code"] = OrganAfter(x, f, value)
  BY <1>3, <1>4 DEF WrittenTo, SameField, OrganAfter
<1>6. \A g \in FormFields :
         now[g] = IF g = "region_code" /\ OrganAfter(x, f, value) # Empty THEN NeverTyped
                  ELSE IF g = f THEN value ELSE was[g]
  BY <1>1 DEF WasAfter
<1>7. SourcesOK(a, now)
  <2>1. ASSUME NEW g \in FormFields
        PROVE  /\ a.provenance[g].source \in {"none", "empty"} => a.values[g] = Empty
               /\ a.provenance[g].source = "ai_suggested" =>
                     g \in AI_SUGGESTABLE_FIELDS /\ a.values[g] # Empty
               /\ a.provenance[g].source = "derived" => g \notin AI_SUGGESTABLE_FIELDS
               /\ a.provenance[g].source \in {"none", "empty", "human", "derived", "ai_suggested"}
    BY <1>3 DEF WrittenTo, SameField, SourcesOK
  <2>2. ASSUME NEW g \in FormFields, g \in {"organ_name", "region_name"},
               a.provenance[g].source = "human"
        PROVE  a.values[g] = now[g]
    <3>1. g # f /\ g # "region_code"
      BY <1>2, <2>2
    <3> QED BY <1>3, <1>6, <2>2, <3>1 DEF WrittenTo, SameField, SourcesOK
  <2>3. ASSUME NEW g \in FormFields, g \in FIELD_KEYS, FORM_FIELD_SPECS[g] # "derived",
               now[g] # NeverTyped
        PROVE  /\ a.values[g] = now[g] /\ a.provenance[g].source = "human"
               /\ g = "region_code" => a.values["organ_code"] = Empty
    <3>1. g = "region_code" => a.values["organ_code"] = Empty
      BY <1>5, <1>6, <2>3
    <3>2. CASE g = f
      <4>1. a.values[f] = value /\ a.provenance[f].source = "human"
        BY <1>3 DEF WrittenTo
      <4>2. now[g] = value
        BY <1>6, <2>3, <3>2
      <4> QED BY <3>1, <3>2, <4>1, <4>2
    <3>3. CASE g # f
      BY <1>3, <1>6, <2>3, <3>1, <3>3 DEF WrittenTo, SameField, SourcesOK
    <3> QED BY <3>1, <3>2, <3>3
  <2> QED BY <2>1, <2>2, <2>3 DEF SourcesOK
<1>8. RulesDone(a, y, data, now)
  BY <1>1, <1>3, <1>7, DeriveSettles DEF WrittenTo
<1>9. y.values["organ_code"] = OrganAfter(x, f, value)
  <2>1. "organ_code" \notin OrganTargets
    BY DEF OrganTargets
  <2> QED BY <1>4, <1>5, <1>8, <2>1 DEF RulesDone, RulesKeep, SameField
<1>10. ASSUME f # "region_code" \/ x.provenance[f].source # "derived"
       PROVE  /\ f = "region_code" => x.values["organ_code"] = Empty
              /\ y.values[f] = value /\ y.provenance[f].source = "human"
  <2>1. f = "region_code" => x.values["organ_code"] = Empty
    BY <1>10 DEF Fits
  <2>2. f \in OrganTargets => f = "region_code"
    BY <1>2 DEF OrganTargets
  <2>3. f = "region_code" => a.values["organ_code"] = Empty
    BY <1>5, <2>1 DEF OrganAfter
  <2>4. a.values[f] = value /\ a.provenance[f].source = "human"
    BY <1>3 DEF WrittenTo
  <2>5. SameField(a, y, f)
    BY <1>2, <1>8, <2>2, <2>3, <2>4 DEF RulesDone, RulesKeep
  <2> QED BY <2>1, <2>4, <2>5 DEF SameField
<1>11. ASSUME NEW g \in FormFields \ {f}, g \notin OrganTargets
       PROVE  SameField(x, y, g)
  BY <1>3, <1>8, <1>11 DEF WrittenTo, RulesDone, RulesKeep, SameField
<1>12. SameRest(x, y)
  BY <1>3, <1>8 DEF WrittenTo, RulesDone, SameRest
<1>13. y = apply_human_edit(data, x, f, value)
  BY <1>1 DEF apply_human_edit
<1> QED BY <1>1, <1>8, <1>9, <1>10, <1>11, <1>12, <1>13 DEF EditDone, RulesDone

-----------------------------------------------------------------------------
(* The steps                                                               *)

LEMMA FormStarts == FormInit => FormInv
<1> SUFFICES ASSUME FormInit PROVE FormInv
  OBVIOUS
<1>1. form = Absent /\ typed = [f \in FormFields |-> NeverTyped]
  BY DEF FormInit
<1>2. /\ form.values = [f \in FormFields |-> Empty] /\ form.provenance = [f \in FormFields |-> NotNoted]
      /\ form.audit = NoAudit /\ form.status = "absent"
      /\ DOMAIN form = {"status", "audit", "values", "provenance"}
  BY <1>1 DEF Absent
<1>3. NotNoted.source = "none"
  BY DEF NotNoted, Owned
<1>4. IsFilled(form)
  BY <1>2 DEF IsFilled
<1>5. \A f \in FormFields : /\ form.values[f] = Empty /\ form.provenance[f].source = "none"
                           /\ typed[f] = NeverTyped
  BY <1>1, <1>2, <1>3
<1>6. SourcesOK(form, typed)
  BY <1>5 DEF SourcesOK
<1>7. Fits(form, readAt, typed)
  <2>1. OrganTargets \union {"organ_code"} \subseteq FormFields
    BY FieldsAre DEF OrganTargets
  <2> QED BY <1>5, <2>1 DEF Fits, OrganTargets
<1>8. MarkedAsProposal
  <2>1. AI_SUGGESTABLE_FIELDS \subseteq FormFields
    BY DEF FormFields
  <2> QED BY <1>5, <2>1 DEF MarkedAsProposal
<1>9. AuditNamesProposals
  BY <1>2 DEF AuditNamesProposals
<1> QED BY <1>1, <1>2, <1>4, <1>5, <1>6, <1>7, <1>8, <1>9 DEF FormInv

\* _update_field
LEMMA EditStep ==
    ASSUME FormInv, NEW f \in FIELD_KEYS, NEW value, UpdateField(f, value)
    PROVE  FormInv'
<1>1. /\ FORM_FIELD_SPECS[f] # "derived" /\ form.status \in _SUBMITTABLE_STATUSES
      /\ form' = apply_human_edit(reference, form, f, value)
      /\ readAt' = reference
  BY DEF UpdateField, Witnessed
<1>2. /\ DOMAIN form = {"status", "audit", "values", "provenance"} /\ IsFilled(form)
      /\ SourcesOK(form, typed) /\ Fits(form, readAt, typed) /\ MarkedAsProposal
  BY DEF FormInv
<1>3. EditDone(form, form', f, value, reference, WasAfter(form, f, value, typed))
  BY <1>1, <1>2, EditSettles
<1>4. f \in FormFields /\ f \in {"organ_code", "region_code", "purpose", "apply_domain"}
  BY <1>1, FieldsAre
<1>5. typed' = WasAfter(form, f, value, typed)
  <2>1. form'.values["organ_code"] = OrganAfter(form, f, value)
    BY <1>3 DEF EditDone
  <2>2. PICK by : by = [g \in {f} |-> value]
    OBVIOUS
  <2>3. typed' = [g \in FormFields |-> IF Yielded(g) THEN NeverTyped
                                       ELSE IF g \in DOMAIN by THEN by[g] ELSE typed[g]]
    BY <2>2 DEF UpdateField, Witnessed
  <2>4. DOMAIN by = {f} /\ by[f] = value
    BY <2>2
  <2> QED BY <2>1, <2>3, <2>4 DEF WasAfter, Yielded
<1>6. /\ IsFilled(form') /\ SourcesOK(form', typed') /\ Fits(form', readAt', typed')
      /\ SameRest(form, form')
  BY <1>1, <1>3, <1>5 DEF EditDone
<1>7. DOMAIN form' = DOMAIN form /\ form'.status = form.status
  BY <1>2, <1>6 DEF SameRest
<1>8. MarkedAsProposal'
  <2>1. ASSUME NEW g \in AI_SUGGESTABLE_FIELDS
        PROVE  form'.provenance[g].source = "ai_suggested"
                   <=> (writer'[g] = "machine" /\ form'.values[g] # Empty)
    <3>1. g \in FormFields /\ g \notin OrganTargets /\ g # "region_code"
      BY <2>1 DEF FormFields, AI_SUGGESTABLE_FIELDS, OrganTargets
    <3>2. writer'[g] = IF g = f THEN "person"
                       ELSE IF form'.values[g] # form.values[g] THEN "machine" ELSE writer[g]
      <4>1. DOMAIN [h \in {f} |-> value] = {f}
        OBVIOUS
      <4> QED BY <3>1, <4>1 DEF UpdateField, Witnessed
    <3>3. CASE g = f
      <4>1. form'.provenance[g].source = "human"
        BY <1>3, <3>1, <3>3 DEF EditDone
      <4> QED BY <3>2, <3>3, <4>1
    <3>4. CASE g # f
      <4>1. SameField(form, form', g)
        BY <1>3, <3>1, <3>4 DEF EditDone
      <4> QED BY <1>2, <3>2, <3>4, <4>1 DEF MarkedAsProposal, SameField
    <3> QED BY <3>3, <3>4
  <2> QED BY <2>1 DEF MarkedAsProposal
<1>9. AuditNamesProposals'
  BY <1>1, <1>7 DEF AuditNamesProposals, _SUBMITTABLE_STATUSES
<1> QED BY <1>1, <1>2, <1>6, <1>7, <1>8, <1>9 DEF FormInv, _SUBMITTABLE_STATUSES

\* _ai_suggest_draft
LEMMA SuggestStep ==
    ASSUME FormInv, AiSuggestDraft
    PROVE  FormInv'
<1>1. /\ form.status \in _SUBMITTABLE_STATUSES
      /\ form' = orchestrate_fill(reference, form, Empty, _draft_fallback)
      /\ readAt' = reference
  BY DEF AiSuggestDraft, Witnessed
<1>2. /\ DOMAIN form = {"status", "audit", "values", "provenance"} /\ IsFilled(form)
      /\ SourcesOK(form, typed) /\ MarkedAsProposal
  BY DEF FormInv
<1>3. PICK by : by = [g \in {} |-> Empty]
  OBVIOUS
<1>4. DOMAIN by = {}
  BY <1>3
<1>5. /\ typed' = [g \in FormFields |-> IF Yielded(g) THEN NeverTyped
                                        ELSE IF g \in DOMAIN by THEN by[g] ELSE typed[g]]
      /\ writer' = [g \in FormFields |-> IF g \in DOMAIN by THEN "person"
                                         ELSE IF form'.values[g] # form.values[g] THEN "machine"
                                         ELSE writer[g]]
  BY <1>3 DEF AiSuggestDraft, Witnessed
<1>6. /\ \A g \in FormFields : typed'[g] = typed[g] \/ (g = "region_code" /\ typed'[g] = NeverTyped)
      /\ \A g \in FormFields :
            writer'[g] = IF form'.values[g] # form.values[g] THEN "machine" ELSE writer[g]
  BY <1>4, <1>5 DEF Yielded
<1>7. SourcesOK(form, typed')
  BY <1>2, <1>6 DEF SourcesOK
<1>8. FillDone(form, form', reference, typed')
  BY <1>1, <1>2, <1>7, FillSettles
<1>9. DOMAIN form' = DOMAIN form /\ form'.status = form.status
  BY <1>2, <1>8 DEF FillDone, SameRest
<1>10. MarkedAsProposal'
  <2>1. ASSUME NEW g \in AI_SUGGESTABLE_FIELDS
        PROVE  form'.provenance[g].source = "ai_suggested"
                   <=> (writer'[g] = "machine" /\ form'.values[g] # Empty)
    <3>1. g \in FormFields
      BY <2>1 DEF FormFields
    <3>2. CASE Proposed(form, form', g)
      BY <1>6, <3>1, <3>2 DEF Proposed, Proposal, Empty
    <3>3. CASE /\ form'.values[g] = form.values[g]
               /\ form'.provenance[g].source = "ai_suggested"
                     <=> form.provenance[g].source = "ai_suggested"
      BY <1>2, <1>6, <3>1, <3>3 DEF MarkedAsProposal
    <3> QED BY <1>8, <3>2, <3>3 DEF FillDone
  <2> QED BY <2>1 DEF MarkedAsProposal
<1>11. AuditNamesProposals'
  BY <1>1, <1>9 DEF AuditNamesProposals, _SUBMITTABLE_STATUSES
<1> QED BY <1>1, <1>2, <1>8, <1>9, <1>10, <1>11 DEF FormInv, FillDone, _SUBMITTABLE_STATUSES

\* _create_request
LEMMA CreateStep ==
    ASSUME FormInv, NEW entered, NEW org, NEW proposed, NEW as \in {"draft", "in process"},
           Create(entered, org, proposed, as)
    PROVE  FormInv'
<1>1. form.status = "absent" /\ readAt' = reference
  BY DEF Create, Witnessed
<1>2. form = Absent /\ \A f \in FormFields : typed[f] = NeverTyped
  BY <1>1 DEF FormInv
<1>3. \A f \in FormFields : form.values[f] = Empty
  BY <1>2 DEF Absent
<1>4. PICK answers, by : answers = {f \in FIELD_KEYS : entered[f] # Empty} /\ by = [f \in answers |-> entered[f]]
  OBVIOUS
<1>5. DOMAIN by = answers
  BY <1>4
<1>6. PICK v, p : /\ v = [f \in FormFields |-> IF f \in FIELD_KEYS THEN entered[f] ELSE Empty]
                  /\ p = [f \in FormFields |-> IF f \in FIELD_KEYS /\ entered[f] # Empty
                                               THEN Owned("human", TRUE) ELSE NotNoted]
  OBVIOUS
<1>7. PICK x : x = [values |-> v, provenance |-> p]
  OBVIOUS
<1>8. x.values = v /\ x.provenance = p /\ DOMAIN x = {"values", "provenance"}
  BY <1>7
<1>9. IsFilled(x)
  BY <1>6, <1>8 DEF IsFilled
<1>10. Owned("human", TRUE).source = "human" /\ NotNoted.source = "none"
  BY DEF NotNoted, Owned
<1>11. ASSUME NEW f \in FormFields
       PROVE  \/ f \in answers /\ x.values[f] = entered[f] /\ x.values[f] # Empty
                 /\ x.provenance[f].source = "human"
              \/ f \notin answers /\ x.values[f] = Empty /\ x.provenance[f].source = "none"
  <2>1. /\ x.values[f] = IF f \in FIELD_KEYS THEN entered[f] ELSE Empty
        /\ x.provenance[f] = IF f \in FIELD_KEYS /\ entered[f] # Empty
                             THEN Owned("human", TRUE) ELSE NotNoted
    BY ZenonT(60), <1>6, <1>8
  <2>2. CASE f \in answers
    BY <1>4, <1>10, <2>1, <2>2
  <2>3. CASE f \notin answers
    BY <1>4, <1>10, <2>1, <2>3
  <2> QED BY <2>2, <2>3
<1>12. PICK was : was = [f \in FormFields |->
                           IF f = "region_code" /\ x.values["organ_code"] # Empty THEN NeverTyped
                           ELSE IF f \in answers THEN entered[f] ELSE NeverTyped]
  OBVIOUS
<1>13. SourcesOK(x, was)
  <2>1. ASSUME NEW f \in FormFields
        PROVE  \/ was[f] = NeverTyped /\ (f = "region_code" \/ f \notin answers)
               \/ f \in answers /\ was[f] = entered[f]
                  /\ (f = "region_code" => x.values["organ_code"] = Empty)
    BY <1>12
  <2> QED BY <1>11, <2>1 DEF SourcesOK
<1>14. PICK y : y = orchestrate_fill(reference, x, org, proposed)
  OBVIOUS
<1>15. FillDone(x, y, reference, was)
  BY <1>9, <1>13, <1>14, FillSettles
<1>16. y = build_initial(reference, entered, org, proposed)
  BY <1>6, <1>7, <1>14 DEF build_initial
<1>17. form' = [status |-> as, audit |-> NoAudit, values |-> y.values, provenance |-> y.provenance]
  BY <1>16 DEF Create
<1>18. /\ form'.status = as /\ form'.audit = NoAudit
       /\ form'.values = y.values /\ form'.provenance = y.provenance
       /\ DOMAIN form' = {"status", "audit", "values", "provenance"}
  BY <1>17
<1>19. /\ typed' = [f \in FormFields |-> IF Yielded(f) THEN NeverTyped
                                         ELSE IF f \in DOMAIN by THEN by[f] ELSE typed[f]]
       /\ writer' = [f \in FormFields |-> IF f \in DOMAIN by THEN "person"
                                          ELSE IF form'.values[f] # form.values[f] THEN "machine"
                                          ELSE writer[f]]
  BY <1>4 DEF Create, Witnessed
<1>20. typed' = was
  <2>1. ASSUME NEW f \in FormFields
        PROVE  Yielded(f) <=> f = "region_code" /\ x.values["organ_code"] # Empty
    BY <1>15, <1>18 DEF Yielded, FillDone
  <2>2. ASSUME NEW f \in FormFields
        PROVE  (IF f \in DOMAIN by THEN by[f] ELSE typed[f])
                   = IF f \in answers THEN entered[f] ELSE NeverTyped
    BY <1>2, <1>4, <1>5
  <2> QED BY <1>12, <1>19, <2>1, <2>2
<1>21. /\ IsFilled(form') /\ SourcesOK(form', typed') /\ Fits(form', readAt', typed')
  <2>1. IsFilled(y) /\ SourcesOK(y, was) /\ Fits(y, reference, was)
    BY <1>15 DEF FillDone
  <2>2. IsFilled(form')
    BY <1>18, <2>1 DEF IsFilled
  <2>3. SourcesOK(form', was)
    BY <1>18, <2>1 DEF SourcesOK
  <2>4. Fits(form', reference, was)
    BY <1>18, <2>1 DEF Fits
  <2> QED BY <1>1, <1>20, <2>2, <2>3, <2>4
<1>22. MarkedAsProposal'
  <2>1. ASSUME NEW f \in AI_SUGGESTABLE_FIELDS
        PROVE  form'.provenance[f].source = "ai_suggested"
                   <=> (writer'[f] = "machine" /\ form'.values[f] # Empty)
    <3>1. f \in FormFields
      BY <2>1 DEF FormFields
    <3>2. writer'[f] = IF f \in answers THEN "person"
                       ELSE IF form'.values[f] # Empty THEN "machine" ELSE writer[f]
      BY <1>3, <1>5, <1>19, <3>1
    <3>3. CASE Proposed(x, y, f)
      BY <1>11, <1>18, <3>1, <3>2, <3>3 DEF Proposed, Proposal, Empty
    <3>4. CASE /\ y.values[f] = x.values[f]
               /\ y.provenance[f].source = "ai_suggested" <=> x.provenance[f].source = "ai_suggested"
      BY <1>11, <1>18, <3>1, <3>2, <3>4
    <3> QED BY <1>15, <3>3, <3>4 DEF FillDone
  <2> QED BY <2>1 DEF MarkedAsProposal
<1>23. AuditNamesProposals'
  BY <1>18 DEF AuditNamesProposals
<1> QED BY <1>18, <1>21, <1>22, <1>23 DEF FormInv

\* Submission and return touch the status and the audit, the reference data
\* nothing of the form.
LEMMA OtherFormSteps ==
    ASSUME FormInv, SubmitForm \/ ReturnForFix \/ ChangeReference \/ UNCHANGED formVars
    PROVE  FormInv'
<1>1. DOMAIN form = {"status", "audit", "values", "provenance"}
  BY DEF FormInv
<1>2. UNCHANGED <<typed, writer, readAt>>
  BY DEF SubmitForm, ReturnForFix, ChangeReference, formVars
<1>3. /\ DOMAIN form' = DOMAIN form
      /\ form'.values = form.values /\ form'.provenance = form.provenance
      /\ form'.status = "absent" => form' = form
  BY <1>1 DEF SubmitForm, ReturnForFix, ChangeReference, formVars
<1>4. IsFilled(form')
  BY <1>1, <1>3 DEF FormInv, IsFilled
<1>5. SourcesOK(form', typed')
  BY <1>2, <1>3 DEF FormInv, SourcesOK
<1>6. Fits(form', readAt', typed')
  BY <1>2, <1>3 DEF FormInv, Fits
<1>7. MarkedAsProposal'
  BY <1>2, <1>3 DEF FormInv, MarkedAsProposal
<1>8. form'.status = "absent" => form' = Absent /\ \A f \in FormFields : typed'[f] = NeverTyped
  BY <1>2, <1>3 DEF FormInv
<1>9. AuditNamesProposals'
  <2>1. CASE SubmitForm
    <3>1. form'.audit = provenance_audit_snapshot(form)
      BY <1>1, <2>1 DEF SubmitForm
    <3>2. form'.audit["ai_suggested"]
              = {f \in FormFields : form.provenance[f].source = "ai_suggested"}
      BY <3>1 DEF provenance_audit_snapshot
    <3>3. AI_SUGGESTABLE_FIELDS \subseteq FormFields
      BY DEF FormFields
    <3>4. ASSUME NEW f
          PROVE  f \in FormFields /\ form.provenance[f].source = "ai_suggested"
                     <=> /\ f \in AI_SUGGESTABLE_FIELDS
                         /\ writer'[f] = "machine" /\ form'.values[f] # Empty
      BY <1>2, <1>3, <3>3 DEF FormInv, SourcesOK, MarkedAsProposal
    <3> QED BY <3>2, <3>4 DEF AuditNamesProposals
  <2>2. CASE ReturnForFix
    BY <1>1, <2>2 DEF ReturnForFix, AuditNamesProposals
  <2>3. CASE ChangeReference \/ UNCHANGED formVars
    <3>1. form' = form /\ writer' = writer
      BY <2>3 DEF ChangeReference, formVars
    <3> QED BY <3>1 DEF FormInv, AuditNamesProposals
  <2> QED BY <2>1, <2>2, <2>3
<1> QED BY <1>1, <1>3, <1>4, <1>5, <1>6, <1>7, <1>8, <1>9 DEF FormInv

LEMMA FormStep == FormInv /\ [FormNext]_formVars => FormInv'
<1> SUFFICES ASSUME FormInv, [FormNext]_formVars PROVE FormInv'
  OBVIOUS
<1>1. CASE \E entered \in Entries, org \in {Empty, SessionOrg},
              proposed \in SUBSET AI_SUGGESTABLE_FIELDS, as \in {"draft", "in process"} :
              Create(entered, org, proposed, as)
  BY <1>1, CreateStep
<1>2. CASE \E f \in FIELD_KEYS : \E value \in Answers(f) : UpdateField(f, value)
  BY <1>2, EditStep
<1>3. CASE AiSuggestDraft
  BY <1>3, SuggestStep
<1>4. CASE SubmitForm \/ ReturnForFix \/ ChangeReference \/ UNCHANGED formVars
  BY <1>4, OtherFormSteps
<1> QED BY <1>1, <1>2, <1>3, <1>4 DEF FormNext

LEMMA FormInvKept == FormSpec => []FormInv
<1> QED BY FormStarts, FormStep, PTL DEF FormSpec

\* Each part of the kept form follows; that an editable field takes what a person
\* enters is a fact about the edit that could come next.
LEMMA KeptForm == FormInv => FormKept
<1> SUFFICES ASSUME FormInv PROVE FormKept
  OBVIOUS
<1>1. IsFilled(form) /\ SourcesOK(form, typed) /\ Fits(form, readAt, typed)
  BY DEF FormInv
<1>2. PersonHasTheSay
  BY <1>1 DEF SourcesOK, PersonHasTheSay, FormFields
<1>3. NamesFitCodes
  BY <1>1 DEF Fits, NamesFitCodes
<1>4. EditableSticks
  <2> SUFFICES ASSUME NEW f \in assemble_form_fields(form), NEW value \in Answers(f)
               PROVE  apply_human_edit(reference, form, f, value).values[f] = value
    BY DEF EditableSticks
  <2>1. f \in FIELD_KEYS /\ FORM_FIELD_SPECS[f] # "derived" /\ form.provenance[f].source # "derived"
    BY DEF assemble_form_fields
  <2>2. EditDone(form, apply_human_edit(reference, form, f, value), f, value, reference,
                 WasAfter(form, f, value, typed))
    BY <1>1, <2>1, EditSettles
  <2> QED BY <2>1, <2>2 DEF EditDone
<1>5. AuditNamesProposals
  BY DEF FormInv
<1> QED BY <1>2, <1>3, <1>4, <1>5 DEF FormKept

\* Whatever edits, proposals, changes of the reference data, submissions and
\* returns a form goes through, what persons wrote is kept, names fit their codes,
\* what the page lets one edit can be edited, and the submission says which texts
\* nobody wrote - for any reference data, answers and number of skills
\* (field_derivation, form_fill_service, _update_field, _ai_suggest_draft,
\* _submit_request).
THEOREM FormsAreKept == FormSpec => []FormKept
<1> QED BY FormInvKept, KeptForm, PTL
==============================================================================
