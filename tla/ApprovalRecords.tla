--------------------------- MODULE ApprovalRecords ---------------------------
(***************************************************************************)
(* The approval file (approval_case, approval_step, approval_decision): a  *)
(* case per application, catalogue entry or resource, with its steps.      *)
(* Four writers share it.  The single review and the two levels of the     *)
(* conditional flow append a step that carries their audit id; the skills  *)
(* that move an entry or a resource append one per transition; and every   *)
(* flush of a changed application card projects its status into the case,  *)
(* where it deletes the steps and writes one of its own unless a step      *)
(* carries an audit id.                                                    *)
(*                                                                         *)
(* A write is several commits under the write lock, and any of them can    *)
(* fail.  A review checks the application before it takes the lock.        *)
(***************************************************************************)
EXTENDS Naturals, Sequences

CONSTANTS Codes,          \* application codes, catalogue codes and resource codes
          Reviewers,      \* concurrent requests
          MaxAudits,      \* bound on the audit ids given out
          MaxCardWrites,  \* bound on the other card skills
          MaxBreaks       \* bound on failing commits

ASSUME CodesAssumption == "none" \notin Codes

VARIABLES kindOf,    \* what each code names
          appRow,    \* application_record.status, or the subject's lifecycle_status
          dossier,   \* the case and its steps
          decided,   \* the delivery task carries a review decision
          asked,     \* the review each request has checked
          writing,   \* the write that holds the lock
          kept,      \* history: the decisions committed, by audit id
          apart,     \* history: files left behind their row
          audits,    \* audit ids given out
          cardWrites, breaks

fileVars == <<kindOf, appRow, dossier, decided, asked, writing, kept, apart, audits, cardWrites,
              breaks>>

\* The card of a runtime application is flushed, that of an imported one never
\* is; conditional sharing takes two levels, everything else a single review.
Kinds == {"runtime", "runtime two-level", "imported", "imported two-level", "subject"}
Runtime == {c \in Codes : kindOf[c] \in {"runtime", "runtime two-level"}}
Imported == {c \in Codes : kindOf[c] \in {"imported", "imported two-level"}}
TwoLevel == {c \in Codes : kindOf[c] \in {"runtime two-level", "imported two-level"}}
Subjects == {c \in Codes : kindOf[c] = "subject"}
Applications == Codes \ Subjects

NoStatus == "none"
NoFile == [status |-> NoStatus, cur |-> 0, steps |-> <<>>]
NoAsk == [id |-> NoStatus, to |-> NoStatus]
Still == [phase |-> "idle", id |-> NoStatus, to |-> NoStatus]
LockFree == writing.phase = "idle"

Anchors(f) == {f.steps[i].audit : i \in DOMAIN f.steps} \ {0}

-----------------------------------------------------------------------------
(* The writers of the file                                                 *)

\* _current_step_no
current_step_no(s) ==
    CASE s = "supplementing" -> 2
      [] s = "summary-pending" -> 3
      [] s = "completed" -> 4
      [] OTHER -> 1

\* _step_status
step_status(s) ==
    CASE s \in {"pending", "supplementing", "summary-pending"} -> "in_progress"
      [] s = "need-fix" -> "returned"
      [] s = "rejected" -> "rejected"
      [] s = "completed" -> "approved"
      [] OTHER -> "pending"

\* Mutant: the steps are rebuilt whoever wrote them.
Rebuilt(f, s) ==
    [status |-> s, cur |-> current_step_no(s),
     steps |-> <<[no |-> current_step_no(s), status |-> step_status(s), audit |-> 0]>>]

\* upsert_from_request_and_approval: a new case starts at step 1 whatever the
\* status; a step with an audit id stops the rebuilding.
upsert_from_request_and_approval(f, s) ==
    IF Anchors(f) # {} THEN [f EXCEPT !.status = s]
    ELSE [status |-> s, cur |-> IF f = NoFile THEN 1 ELSE current_step_no(s),
          steps |-> <<[no |-> current_step_no(s), status |-> step_status(s), audit |-> 0]>>]

\* append_application_review_decision: the number after current_step, which is
\* at least 1.
append_application_review_decision(f, s, audit) ==
    LET no == (IF f.cur < 1 THEN 1 ELSE f.cur) + 1
    IN [status |-> s, cur |-> no,
        steps |-> Append(f.steps, [no |-> no, status |-> "completed", audit |-> audit])]

\* append_conditional_step: the number after the steps there are.
append_conditional_step(f, s, audit) ==
    LET no == Len(f.steps) + 1
    IN [status |-> s, cur |-> no,
        steps |-> Append(f.steps, [no |-> no, status |-> "completed", audit |-> audit])]

\* _api_step_no
api_step_no(s) ==
    CASE s \in {"approved_pending_publish", "test_failed"} -> 2
      [] s = "active" -> 3
      [] s \in {"retired", "revoked"} -> 4
      [] OTHER -> 1

\* _api_step_status
api_step_status(s) ==
    CASE s = "pending_review" -> "in_progress"
      [] s \in {"approved_pending_publish", "active"} -> "approved"
      [] s \in {"retired", "revoked"} -> "closed"
      [] s = "test_failed" -> "returned"
      [] OTHER -> "pending"

\* _upsert_lifecycle: a repeat under the last audit id adds nothing.
upsert_lifecycle(f, s, audit) ==
    IF f.steps # <<>> /\ f.steps[Len(f.steps)].audit = audit THEN f
    ELSE [status |-> s, cur |-> api_step_no(s),
          steps |-> Append(f.steps, [no |-> api_step_no(s), status |-> api_step_status(s),
                                     audit |-> audit])]

\* The commit of a file; what it decides is remembered.
Commit(c, f) ==
    /\ dossier' = [dossier EXCEPT ![c] = f]
    /\ kept' = [kept EXCEPT ![c] = @ \union Anchors(f)]

NewAudit == audits < MaxAudits /\ audits' = audits + 1

-----------------------------------------------------------------------------
(* The single review                                                       *)

\* result_status of review_application_record
ReviewResults == {"granted", "supplementing", "need-fix", "rejected",
                  "pending-provider-confirmation"}

\* The checks come before the lock.
Ask(t, a, to) ==
    /\ asked[t].id = NoStatus
    /\ asked' = [asked EXCEPT ![t] = [id |-> a, to |-> to]]
    /\ UNCHANGED <<kindOf, appRow, dossier, decided, writing, kept, apart, audits, cardWrites,
                   breaks>>

CheckReview(t, a, to) ==
    /\ a \notin TwoLevel /\ appRow[a] # NoStatus
    /\ ~(appRow[a] # "pending" /\ decided[a])
    /\ Ask(t, a, to)

\* The decision is committed first.
RecordReview(t) ==
    LET a == asked[t].id
    IN /\ a \in Applications \ TwoLevel /\ LockFree /\ NewAudit
       /\ Commit(a, append_application_review_decision(dossier[a], asked[t].to, audits'))
       /\ writing' = [phase |-> "status", id |-> a, to |-> asked[t].to]
       /\ asked' = [asked EXCEPT ![t] = NoAsk]
       /\ UNCHANGED <<kindOf, appRow, decided, apart, cardWrites, breaks>>

\* update_status, then the task's payload.
UpdateStatus ==
    /\ writing.phase = "status"
    /\ appRow' = [appRow EXCEPT ![writing.id] = writing.to]
    /\ writing' = [writing EXCEPT !.phase = "task"]
    /\ UNCHANGED <<kindOf, dossier, decided, asked, kept, apart, audits, cardWrites, breaks>>

UpdateTask ==
    /\ writing.phase = "task"
    /\ decided' = [decided EXCEPT ![writing.id] = TRUE]
    /\ writing' = IF writing.id \in Runtime THEN [writing EXCEPT !.phase = "card"] ELSE Still
    /\ apart' = apart \ {writing.id}
    /\ UNCHANGED <<kindOf, appRow, dossier, asked, kept, audits, cardWrites, breaks>>

-----------------------------------------------------------------------------
(* The two levels                                                          *)

\* platform_decide and dept_approve: the step, then the row; the card of an
\* imported application is written at once.
LevelMoves == [submitted |-> {"dept_approved", "rejected"},
               dept_approved |-> {"granted", "rejected"}]
LevelResults == {"dept_approved", "granted", "rejected"}

CheckLevel(t, a, to) ==
    /\ a \in TwoLevel /\ appRow[a] \in DOMAIN LevelMoves
    /\ to \in LevelMoves[appRow[a]]
    /\ Ask(t, a, to)

RecordLevel(t) ==
    LET a == asked[t].id
    IN /\ a \in TwoLevel /\ LockFree /\ NewAudit
       /\ Commit(a, append_conditional_step(dossier[a], asked[t].to, audits'))
       /\ writing' = [phase |-> "card", id |-> a, to |-> asked[t].to]
       /\ asked' = [asked EXCEPT ![t] = NoAsk]
       /\ UNCHANGED <<kindOf, appRow, decided, apart, cardWrites, breaks>>

-----------------------------------------------------------------------------
(* The card skills and the flush                                           *)

\* What else moves a runtime card: creation, submission, resubmission,
\* supplement, summary, suspension and withdrawal.
CardMoves(a) ==
    LET entry == IF a \in TwoLevel THEN "submitted" ELSE "pending"
    IN CASE appRow[a] = NoStatus -> {"draft", entry}
         [] appRow[a] \in {"draft", "need-fix"} -> {entry, "suspended", "revoked"}
         [] appRow[a] = "rejected" -> (IF a \in TwoLevel THEN {"submitted"} ELSE {})
                                      \union {"suspended", "revoked"}
         [] appRow[a] = "supplementing" -> {"summary-pending", "suspended", "revoked"}
         [] appRow[a] = "summary-pending" -> {"completed", "suspended", "revoked"}
         [] appRow[a] = "revoked" -> {}
         [] OTHER -> {"suspended", "revoked"}

MoveCardOf(a, to) ==
    /\ LockFree /\ cardWrites < MaxCardWrites
    /\ a \in Runtime /\ to \in CardMoves(a)
    /\ writing' = [phase |-> "card", id |-> a, to |-> to]
    /\ cardWrites' = cardWrites + 1
    /\ UNCHANGED <<kindOf, appRow, dossier, decided, asked, kept, apart, audits, breaks>>

\* Writes of the status column alone: the dispatch of a demand, and what is
\* suspended or withdrawn of the imported applications.
ColumnOnly(a, to) ==
    /\ LockFree /\ cardWrites < MaxCardWrites
    /\ appRow[a] # NoStatus
    /\ to # "dispatched" => a \in Imported /\ appRow[a] # "revoked"
    /\ appRow' = [appRow EXCEPT ![a] = to]
    /\ apart' = apart \union {a}
    /\ cardWrites' = cardWrites + 1
    /\ UNCHANGED <<kindOf, dossier, decided, asked, writing, kept, audits, breaks>>

\* flush: upsert_from_request commits the row, then the case is projected.
FlushRow ==
    /\ writing.phase = "card"
    /\ appRow' = [appRow EXCEPT ![writing.id] = writing.to]
    /\ writing' = IF writing.id \in Runtime THEN [writing EXCEPT !.phase = "case"] ELSE Still
    /\ apart' = IF writing.id \in Runtime THEN apart ELSE apart \ {writing.id}
    /\ UNCHANGED <<kindOf, dossier, decided, asked, kept, audits, cardWrites, breaks>>

FlushCase ==
    /\ writing.phase = "case"
    /\ Commit(writing.id, upsert_from_request_and_approval(dossier[writing.id], writing.to))
    /\ writing' = Still
    /\ apart' = apart \ {writing.id}
    /\ UNCHANGED <<kindOf, appRow, decided, asked, audits, cardWrites, breaks>>

-----------------------------------------------------------------------------
(* Entries and resources                                                   *)

\* The transition of the row is committed, then its step
\* (_transition_api_resource, _transition_catalog_entry, transition_resource).
TransitionSubject(s, to) ==
    /\ LockFree /\ NewAudit /\ appRow[s] # to
    /\ appRow' = [appRow EXCEPT ![s] = to]
    /\ writing' = [phase |-> "lifecycle", id |-> s, to |-> to]
    /\ UNCHANGED <<kindOf, dossier, decided, asked, kept, apart, cardWrites, breaks>>

\* resource.api.test: what passes is "approved", which has no step number of
\* its own.
TestSubject(s, passes) == TransitionSubject(s, IF passes THEN "approved" ELSE "test_failed")

RecordTransition ==
    /\ writing.phase = "lifecycle"
    /\ Commit(writing.id, upsert_lifecycle(dossier[writing.id], writing.to, audits))
    /\ writing' = Still
    /\ apart' = apart \ {writing.id}
    /\ UNCHANGED <<kindOf, appRow, decided, asked, audits, cardWrites, breaks>>

-----------------------------------------------------------------------------

\* The next commit of a write fails, or the process ends: what is committed
\* stays, the rest is not done.
BreakOff ==
    /\ ~LockFree /\ breaks < MaxBreaks
    /\ writing' = Still
    /\ asked' \in {asked, [t \in Reviewers |-> NoAsk]}
    /\ apart' = apart \union {writing.id}
    /\ breaks' = breaks + 1
    /\ UNCHANGED <<kindOf, appRow, dossier, decided, kept, audits, cardWrites>>

\* An imported application comes with its case, without one, or with a case
\* whose steps the importer has numbered.
ImportedFiles ==
    {NoFile,
     [status |-> "approved", cur |-> 2,
      steps |-> <<[no |-> 1, status |-> "completed", audit |-> 0],
                  [no |-> 2, status |-> "completed", audit |-> 0]>>]}

FilesInit ==
    /\ kindOf \in [Codes -> Kinds]
    /\ appRow = [c \in Codes |-> IF c \in Imported
                                 THEN IF c \in TwoLevel THEN "submitted" ELSE "pending"
                                 ELSE NoStatus]
    /\ dossier \in {f \in [Codes -> ImportedFiles] : \A c \in Codes \ Imported : f[c] = NoFile}
    /\ decided = [c \in Codes |-> FALSE]
    /\ asked = [t \in Reviewers |-> NoAsk]
    /\ writing = Still
    /\ kept = [c \in Codes |-> {}]
    /\ apart = Imported
    /\ audits = 0 /\ cardWrites = 0 /\ breaks = 0

FilesNext ==
    \/ \E t \in Reviewers :
          \/ \E a \in Applications : \/ \E to \in ReviewResults : CheckReview(t, a, to)
                                     \/ \E to \in LevelResults : CheckLevel(t, a, to)
          \/ RecordReview(t) \/ RecordLevel(t)
    \/ UpdateStatus \/ UpdateTask \/ FlushRow \/ FlushCase \/ RecordTransition \/ BreakOff
    \/ \E a \in Runtime : \E to \in CardMoves(a) : MoveCardOf(a, to)
    \/ \E a \in Applications, to \in {"dispatched", "suspended", "revoked"} : ColumnOnly(a, to)
    \/ \E c \in Subjects :
          \E to \in {"draft", "pending_review", "approved_pending_publish", "active", "retired"} :
             TransitionSubject(c, to)
    \/ \E c \in Subjects, passes \in BOOLEAN : TestSubject(c, passes)

FilesSpec == FilesInit /\ [][FilesNext]_fileVars

-----------------------------------------------------------------------------

\* What was decided stays on file: the step of every decision that was
\* committed is there through all later flushes of the card, resubmissions,
\* withdrawals and broken writes (the scenario "部门审通过的记录仍保留").
DecisionsKept == \A c \in Codes : kept[c] \subseteq Anchors(dossier[c])

\* The steps of an application are numbered in the order they were taken, the
\* last of them being the current one, though one writer counts from
\* current_step and the other from the steps there are.
StepsNumbered ==
    \A a \in Applications :
        LET f == dossier[a]
        IN /\ \A i, j \in DOMAIN f.steps : i < j => f.steps[i].no < f.steps[j].no
           /\ f.steps # <<>> => f.cur = f.steps[Len(f.steps)].no

\* With no write under way the file tells the status of its application or
\* subject, unless the last write of it broke off or wrote the column alone.
FileTellsStatus ==
    LockFree => \A c \in Codes \ apart : dossier[c].status = appRow[c]

\* The three together: decisions stay on file, their steps are numbered as they were
\* taken, and the case tells the status its card was flushed with
\* (upsert_from_request_and_approval, append_conditional_step).
ApprovalFileKept == DecisionsKept /\ StepsNumbered /\ FileTellsStatus
=============================================================================
