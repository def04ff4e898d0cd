--------------------------- MODULE ComplianceCases ---------------------------
(***************************************************************************)
(* The compliance cases: a list in the process's snapshot that the         *)
(* compliance skills work on, the row of runtime state the snapshot is     *)
(* saved to, and the objection case, its steps and its evaluation that     *)
(* every write mirrors each changed case into.                             *)
(*                                                                         *)
(* A skill looks its case up and checks the transition before it takes the *)
(* write lock.  Under the lock the case is changed in memory, then the     *)
(* aggregates are mirrored (AnchorMiddleware, which swallows what fails),  *)
(* then the snapshot is saved (PersistMiddleware).                         *)
(***************************************************************************)
EXTENDS Naturals, Sequences, FiniteSetsExt

CONSTANTS CaseIds, ComplianceThreads,
          MaxCaseSteps,        \* bound on the steps of all timelines
          MaxDisturbances      \* bound on faults, restarts and objection skills

VARIABLES ledger,        \* _snapshot["disputes"]: status and length of the timeline
          opened,        \* the order of the list
          savedLedger,   \* [ledger, opened] of the saved row
          caseRow,       \* objection_case with its process rows and evaluation
          prints,        \* _aggregate_fingerprints
          caseWork,      \* the skill each thread runs
          ackedSteps,    \* history: the length of the timeline last acknowledged
          behind,        \* history: the cases whose last mirroring failed
          caseCount      \* the disturbances so far

caseVars == <<ledger, opened, savedLedger, caseRow, prints, caseWork, ackedSteps, behind,
              caseCount>>

Nowhere == "none"
NoCaseWork == [step |-> "idle", id |-> Nowhere, op |-> Nowhere]
NoRow == [status |-> Nowhere, steps |-> 0, solved |-> FALSE, by |-> "register"]

\* The write lock.
Locked == \E t \in ComplianceThreads : caseWork[t].step \in {"mutated", "mirrored"}

\* Room for one more step within the bound.
RoomForStep == MapThenSumSet(LAMBDA c : ledger[c].steps, CaseIds) < MaxCaseSteps

Disturb == caseCount < MaxDisturbances /\ caseCount' = caseCount + 1

OnList(c) == \E i \in DOMAIN opened : opened[i] = c

\* The transitions of _transition_compliance_case and their targets; an
\* investigation has no guard on the status.
CaseTransitions ==
    [detected  |-> {"assigned", "resolved"},
     open      |-> {"assigned", "resolved"},
     assigned  |-> {"resolved"},
     escalated |-> {"assigned", "resolved"},
     resolved  |-> {"closed"},
     closed    |-> {}]

Targets == [assign |-> "assigned", resolve |-> "resolved", close |-> "closed"]

MayStartOn(c, op) ==
    /\ OnList(c)
    /\ op \in DOMAIN Targets => Targets[op] \in CaseTransitions[ledger[c].status]

StatusAfterOp(s, op) ==
    IF op \in DOMAIN Targets THEN Targets[op] ELSE IF op = "escalate" THEN "escalated" ELSE s

-----------------------------------------------------------------------------
(* The mirror                                                              *)

\* _map_status: the words of the objection cases pass.
map_status(s) ==
    CASE s = "escalated" -> "platform_investigating"
      [] s \in {"resolved", "closed"} -> s
      [] OTHER -> "submitted"

\* upsert_from_dispute: status, one process row per step of the timeline, and
\* an evaluation; what the objection skills wrote there is replaced.
upsert_from_dispute(c) ==
    [status |-> map_status(ledger[c].status), steps |-> ledger[c].steps,
     solved |-> ledger[c].status = "resolved", by |-> "register"]

\* Mutant: the timeline is no part of the fingerprint.
StatusOnly(c) == [status |-> ledger[c].status, steps |-> 0]

\* _content_fingerprint: the whole case.
content_fingerprint(c) == [status |-> ledger[c].status, steps |-> ledger[c].steps]

aggregate_changed(c) == prints[c] # content_fingerprint(c)

\* sync_aggregate_tables: the changed cases in the order of the list.  The
\* fingerprint is noted before the row is written, and a failing case ends the
\* sweep.
SweepTo(n) ==
    LET swept == {opened[i] : i \in {j \in DOMAIN opened : j < n /\ aggregate_changed(opened[j])}}
        noted == swept \union {opened[i] : i \in DOMAIN opened \intersect {n}}
    IN /\ caseRow' = [c \in CaseIds |-> IF c \in swept THEN upsert_from_dispute(c)
                                        ELSE caseRow[c]]
       /\ prints' = [c \in CaseIds |-> IF c \in noted THEN content_fingerprint(c)
                                       ELSE prints[c]]
       /\ behind' = (behind \ swept) \union (noted \ swept)

-----------------------------------------------------------------------------
(* The skills                                                              *)

\* compliance.case.open checks under the lock that the case is new.
OpenCase(t, c) ==
    /\ caseWork[t].step = "idle" /\ ~Locked /\ ~OnList(c) /\ RoomForStep
    /\ ledger' = [ledger EXCEPT ![c] = [status |-> "detected", steps |-> 1]]
    /\ opened' = Append(opened, c)
    /\ caseWork' = [caseWork EXCEPT ![t] = [step |-> "mutated", id |-> c, op |-> "open"]]
    /\ UNCHANGED <<savedLedger, caseRow, prints, ackedSteps, behind, caseCount>>

\* Lookup and check, without the lock.
LookUpCase(t, c, op) ==
    /\ caseWork[t].step = "idle" /\ MayStartOn(c, op)
    /\ caseWork' = [caseWork EXCEPT ![t] = [step |-> "checked", id |-> c, op |-> op]]
    /\ UNCHANGED <<ledger, opened, savedLedger, caseRow, prints, ackedSteps, behind, caseCount>>

\* The mutation: a step of the timeline whatever the case has become since.
MutateCase(t) ==
    LET c == caseWork[t].id
    IN /\ caseWork[t].step = "checked" /\ ~Locked /\ RoomForStep
       /\ ledger' = [ledger EXCEPT ![c] = [status |-> StatusAfterOp(@.status, caseWork[t].op),
                                           steps |-> @.steps + 1]]
       /\ caseWork' = [caseWork EXCEPT ![t].step = "mutated"]
       /\ UNCHANGED <<opened, savedLedger, caseRow, prints, ackedSteps, behind, caseCount>>

MirrorCases(t) ==
    /\ caseWork[t].step = "mutated"
    /\ SweepTo(Len(opened) + 1)
    /\ caseWork' = [caseWork EXCEPT ![t].step = "mirrored"]
    /\ UNCHANGED <<ledger, opened, savedLedger, ackedSteps, caseCount>>

\* A changed case cannot be written: AnchorMiddleware swallows it.
MirrorFails(t) ==
    /\ caseWork[t].step = "mutated" /\ Disturb
    /\ \E n \in {i \in DOMAIN opened : aggregate_changed(opened[i])} : SweepTo(n)
    /\ caseWork' = [caseWork EXCEPT ![t].step = "mirrored"]
    /\ UNCHANGED <<ledger, opened, savedLedger, ackedSteps>>

SaveCases(t) ==
    /\ caseWork[t].step = "mirrored"
    /\ savedLedger' = [ledger |-> ledger, opened |-> opened]
    /\ ackedSteps' = [ackedSteps EXCEPT ![caseWork[t].id] = ledger[caseWork[t].id].steps]
    /\ caseWork' = [caseWork EXCEPT ![t] = NoCaseWork]
    /\ UNCHANGED <<ledger, opened, caseRow, prints, behind, caseCount>>

\* The snapshot cannot be saved: an error for the caller, and the change
\* stays in memory.
SaveCasesFails(t) ==
    /\ caseWork[t].step = "mirrored" /\ Disturb
    /\ caseWork' = [caseWork EXCEPT ![t] = NoCaseWork]
    /\ UNCHANGED <<ledger, opened, savedLedger, caseRow, prints, ackedSteps, behind>>

\* A skill that is not confirmed ends before the lock.
DropCase(t) ==
    /\ caseWork[t].step = "checked"
    /\ caseWork' = [caseWork EXCEPT ![t] = NoCaseWork]
    /\ UNCHANGED <<ledger, opened, savedLedger, caseRow, prints, ackedSteps, behind, caseCount>>

\* An objection skill moves the row (its rules are ObjectionCases').
MoveRow(c, st) ==
    /\ ~Locked /\ Disturb
    /\ caseRow[c].status \notin {Nowhere, st}
    /\ caseRow' = [caseRow EXCEPT ![c] = [@ EXCEPT !.status = st, !.by = "objection"]]
    /\ UNCHANGED <<ledger, opened, savedLedger, prints, caseWork, ackedSteps, behind>>

\* The process ends and starts again: the saved list, and every row of it
\* written anew.
RestartCases ==
    /\ Disturb
    /\ ledger' = savedLedger.ledger /\ opened' = savedLedger.opened
    /\ LET listed == {savedLedger.opened[i] : i \in DOMAIN savedLedger.opened}
       IN /\ caseRow' = [c \in CaseIds |-> IF c \in listed THEN upsert_from_dispute(c)'
                                           ELSE caseRow[c]]
          /\ prints' = [c \in CaseIds |-> IF c \in listed THEN content_fingerprint(c)'
                                          ELSE [status |-> Nowhere, steps |-> 0]]
    /\ caseWork' = [t \in ComplianceThreads |-> NoCaseWork]
    /\ behind' = {}
    /\ UNCHANGED <<savedLedger, ackedSteps>>

ComplianceInit ==
    /\ ledger = [c \in CaseIds |-> [status |-> Nowhere, steps |-> 0]]
    /\ opened = <<>>
    /\ savedLedger = [ledger |-> ledger, opened |-> opened]
    /\ caseRow = [c \in CaseIds |-> NoRow]
    /\ prints = [c \in CaseIds |-> [status |-> Nowhere, steps |-> 0]]
    /\ caseWork = [t \in ComplianceThreads |-> NoCaseWork]
    /\ ackedSteps = [c \in CaseIds |-> 0]
    /\ behind = {}
    /\ caseCount = 0

ComplianceNext ==
    \/ \E t \in ComplianceThreads :
          \/ \E c \in CaseIds : OpenCase(t, c)
          \/ \E c \in CaseIds, op \in DOMAIN Targets \union {"progress", "escalate"} :
                LookUpCase(t, c, op)
          \/ MutateCase(t) \/ MirrorCases(t) \/ MirrorFails(t)
          \/ SaveCases(t) \/ SaveCasesFails(t) \/ DropCase(t)
    \/ \E c \in CaseIds, st \in {"accepted", "resolved"} : MoveRow(c, st)
    \/ RestartCases

ComplianceSpec == ComplianceInit /\ [][ComplianceNext]_caseVars

-----------------------------------------------------------------------------

\* The desks agree and nothing acknowledged is lost: with no write under way
\* the objection case of a compliance case has its status, its steps and its
\* evaluation, unless the last mirroring failed or an objection skill has
\* moved it since; and a step that was acknowledged is in the saved list,
\* through failing saves and restarts (sync_aggregate_tables, persist).
RegisterMirrored ==
    /\ ~Locked => \A c \in CaseIds :
                      (OnList(c) /\ c \notin behind /\ caseRow[c].by = "register")
                      => caseRow[c] = upsert_from_dispute(c)
    /\ \A c \in CaseIds : ackedSteps[c] <= savedLedger.ledger[c].steps
=============================================================================
