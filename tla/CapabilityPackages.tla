-------------------------- MODULE CapabilityPackages --------------------------
(***************************************************************************)
(* Capability packages and the policy of the tenant: the skills of         *)
(* command/handlers/b1/capability_admin.py and intake.py.  A package lives *)
(* in the snapshot that all threads share; the capability_package and      *)
(* tenant_capability_policy tables are written by some of the mutations    *)
(* themselves (domain/repositories/capability_package.py) and by the sync  *)
(* that follows each write (DatabaseStore.sync_reference_tables), which    *)
(* skips a package whose fingerprint it has seen last.                     *)
(*                                                                         *)
(* A request checks the live package before it takes the write lock, then  *)
(* mutates, syncs and saves under it.  The sync runs inside the anchor     *)
(* middleware, which swallows what it raises.                              *)
(***************************************************************************)
EXTENDS Naturals

CONSTANTS
    Packages,        \* package ids (slug and id are one)
    Seeded,          \* the packages of the seed snapshot, approved
    Requests,        \* threads, each with one call at a time
    Nobody,          \* no request
    MaxCalls,        \* bound on the calls made
    MaxFaults        \* bound on database failures and crashes

ASSUME SeededAssumption == Seeded \subseteq Packages
ASSUME NobodyAssumption == Nobody \notin Requests
ASSUME BoundsAssumption == MaxCalls \in Nat /\ MaxFaults \in Nat

Statuses == {"absent", "pending", "approved", "pending-fix", "rejected",
             "active", "rolled-back"}
VersionStatuses == {"none", "pending-registration", "registered"}
Versions == {"none", "v0.9.0", "v1.0.0"}
Surfaces == {"api", "mcp", "a2a"}
TrustLevels == {"baseline", "revoked"}
PolicyStatuses == {"none", "reviewing", "enabled", "disabled"}

Item == [status : Statuses, versionStatus : VersionStatuses, registeredVersion : Versions,
         rollbackTarget : Versions, exposure : SUBSET Surfaces, trustLevel : TrustLevels]

VARIABLES
    item,            \* the package in BrainService._snapshot
    saved,           \* the package in the runtime-state row
    row,             \* capability_package.review_status
    policy,          \* tenant_capability_policy.policy_status
    fingerprint,     \* _aggregate_fingerprints: the content synced last
    calling,            \* what each request is about
    stage,           \* where each request stands
    holder,          \* who holds the write lock
    approvedOnce,    \* history: packages declared approved
    off,             \* history: packages the tenant switched off last
    syncBroke,       \* history: a sync of this process was cut short
    calls,           \* calls so far
    faults           \* faults so far

stores == <<saved, row, policy, fingerprint>>
histories == <<approvedOnce, off, syncBroke>>
vars == <<item, saved, row, policy, fingerprint, calling, stage, holder, approvedOnce, off,
          syncBroke, calls, faults>>

Absent == [status |-> "absent", versionStatus |-> "none", registeredVersion |-> "none",
           rollbackTarget |-> "none", exposure |-> {}, trustLevel |-> "baseline"]

SeedItem == [Absent EXCEPT !.status = "approved", !.exposure = {"api", "mcp"}]

NotCalling == [skill |-> "none"]

Present == {p \in Packages : item[p].status # "absent"}

Fault == faults < MaxFaults /\ faults' = faults + 1

\* The policy a package starts with.
PolicyStatusOf(status) ==
    CASE status = "approved" -> "enabled"
      [] status \in {"pending", "pending-fix"} -> "reviewing"
      [] OTHER -> "disabled"

Init ==
    /\ item = [p \in Packages |-> IF p \in Seeded THEN SeedItem ELSE Absent]
    /\ saved = item
    /\ row = [p \in Packages |-> item[p].status]
    /\ policy = [p \in Packages |-> IF p \in Seeded THEN "enabled" ELSE "none"]
    /\ fingerprint = item
    /\ calling = [r \in Requests |-> NotCalling]
    /\ stage = [r \in Requests |-> "idle"]
    /\ holder = Nobody
    /\ approvedOnce = Seeded
    /\ off = {}
    /\ syncBroke = FALSE
    /\ calls = 0
    /\ faults = 0

-----------------------------------------------------------------------------
(* The checks, on the live package and before the lock.                    *)

Begin(r, c) ==
    /\ stage[r] = "idle"
    /\ calls < MaxCalls
    /\ calls' = calls + 1
    /\ calling' = [calling EXCEPT ![r] = c]
    /\ stage' = [stage EXCEPT ![r] = "checked"]
    /\ UNCHANGED <<item, stores, holder, histories, faults>>

\* No check: the caller names the status of the package it registers.
BeginRegister(r, p, status) ==
    Begin(r, [skill |-> "register", pkg |-> p, arg |-> status])

BeginVersion(r, p) ==
    /\ item[p].status = "approved"
    /\ Begin(r, [skill |-> "version", pkg |-> p])

BeginReview(r, p, decision) ==
    /\ p \in Present
    /\ Begin(r, [skill |-> "review", pkg |-> p, arg |-> decision])

BeginExposure(r, p, mode) ==
    /\ item[p].versionStatus = "registered"
    /\ Begin(r, [skill |-> "exposure", pkg |-> p, arg |-> mode])

BeginEnable(r, p) ==
    /\ item[p].versionStatus = "registered"
    /\ Begin(r, [skill |-> "enable", pkg |-> p])

BeginDisable(r, p) ==
    /\ p \in Present
    /\ Begin(r, [skill |-> "disable", pkg |-> p])

\* The version that is left, and the status to end in, are read here.
BeginRollback(r, p, target) ==
    /\ p \in Present
    /\ item[p].registeredVersion # target
    /\ Begin(r, [skill |-> "rollback", pkg |-> p, arg |-> target,
                 left |-> item[p].registeredVersion,
                 next |-> IF item[p].status = "active" THEN "rolled-back"
                          ELSE item[p].status])

BeginTrust(r, p, level) ==
    /\ p \in Present
    /\ item[p].trustLevel # level
    /\ Begin(r, [skill |-> "trust", pkg |-> p, arg |-> level])

\* A write that concerns no package: it still syncs and saves them all.
BeginOther(r, p) ==
    /\ p \in Present
    /\ Begin(r, [skill |-> "other", pkg |-> p])

-----------------------------------------------------------------------------
(* The mutations.                                                          *)

OrDefault(value, default) == IF value = "none" THEN default ELSE value

\* The package after the mutation, in memory.
Mutated(c) ==
    LET old == item[c.pkg] IN
    CASE c.skill = "register" -> [old EXCEPT !.status = c.arg, !.exposure = {"api"}]
      [] c.skill = "version" ->
            [old EXCEPT !.versionStatus = "registered", !.registeredVersion = "v1.0.0",
                        !.rollbackTarget = OrDefault(@, "v0.9.0")]
      [] c.skill = "review" /\ c.arg = "approve" ->
            [old EXCEPT !.status = "approved",
                        !.versionStatus = OrDefault(@, "pending-registration"),
                        !.rollbackTarget = OrDefault(@, "v0.9.0")]
      [] c.skill = "review" /\ c.arg = "return_for_fix" -> [old EXCEPT !.status = "pending-fix"]
      [] c.skill = "review" /\ c.arg = "reject" -> [old EXCEPT !.status = "rejected"]
      [] c.skill = "exposure" ->
            [old EXCEPT !.exposure = IF c.arg = "expand" THEN @ \union {"a2a"}
                                     ELSE IF @ = {"mcp"} THEN @ ELSE @ \ {"mcp"}]
      [] c.skill = "enable" -> [old EXCEPT !.status = "approved"]
      [] c.skill = "rollback" ->
            [old EXCEPT !.registeredVersion = c.arg, !.status = c.next,
                        !.rollbackTarget = c.left]
      [] c.skill = "trust" -> [old EXCEPT !.trustLevel = c.arg]
      [] OTHER -> old

\* The skills whose mutation writes the tables itself.
WritesTables(c) == c.skill \in {"register", "enable", "disable", "rollback", "trust"}

\* upsert_from_package: the policy row is inserted when it is missing.
upsert_from_package(it, done) ==
    [p \in Packages |->
        IF p \in done /\ policy[p] = "none" THEN PolicyStatusOf(it[p].status) ELSE policy[p]]

\* The policy rows after the mutation's own writes.
PolicyAfter(c, it) ==
    CASE c.skill \in {"register", "rollback", "trust"} -> upsert_from_package(it, {c.pkg})
      [] c.skill = "enable" -> [policy EXCEPT ![c.pkg] = "enabled"]
      [] c.skill = "disable" -> [policy EXCEPT ![c.pkg] = "disabled"]
      [] OTHER -> policy

Declares(c) ==
    (c.skill = "register" /\ c.arg = "approved") \/ (c.skill = "review" /\ c.arg = "approve")

Mutate(r) ==
    LET c == calling[r]
        it == [item EXCEPT ![c.pkg] = Mutated(c)]
    IN  /\ stage[r] = "checked"
        /\ holder = Nobody
        /\ holder' = r
        /\ item' = it
        /\ row' = IF WritesTables(c) THEN [row EXCEPT ![c.pkg] = it[c.pkg].status] ELSE row
        /\ policy' = PolicyAfter(c, it)
        /\ approvedOnce' = IF Declares(c) THEN approvedOnce \union {c.pkg} ELSE approvedOnce
        /\ off' = CASE c.skill = "disable" -> off \union {c.pkg}
                    [] c.skill = "enable" -> off \ {c.pkg}
                    [] OTHER -> off
        /\ stage' = [stage EXCEPT ![r] = "sync"]
        /\ UNCHANGED <<saved, fingerprint, calling, syncBroke, calls, faults>>

\* The mutation's own write raises: memory is changed and stays so, nothing
\* is synced or saved.
MutateRaises(r) ==
    LET c == calling[r] IN
    /\ stage[r] = "checked"
    /\ holder = Nobody
    /\ WritesTables(c)
    /\ Fault
    /\ item' = [item EXCEPT ![c.pkg] = Mutated(c)]
    /\ approvedOnce' = IF Declares(c) THEN approvedOnce \union {c.pkg} ELSE approvedOnce
    /\ stage' = [stage EXCEPT ![r] = "idle"]
    /\ calling' = [calling EXCEPT ![r] = NotCalling]
    /\ UNCHANGED <<stores, holder, off, syncBroke, calls>>

-----------------------------------------------------------------------------
(* sync_reference_tables and persist.                                      *)

\* Mutant: the fingerprint leaves the status out.
ChangedButStatus(p) ==
    [fingerprint[p] EXCEPT !.status = item[p].status] # item[p]

\* _aggregate_changed.
Changed(p) == fingerprint[p] # item[p]

\* The upserts of the packages in done, given that they are due.
Sync(due) ==
    /\ row' = [p \in Packages |-> IF p \in due THEN item[p].status ELSE row[p]]
    /\ policy' = upsert_from_package(item, due)

SyncAll(r) ==
    /\ stage[r] = "sync"
    /\ Sync({p \in Present : Changed(p)})
    /\ fingerprint' = [p \in Packages |-> IF p \in Present THEN item[p] ELSE fingerprint[p]]
    /\ stage' = [stage EXCEPT ![r] = "persist"]
    /\ UNCHANGED <<item, saved, calling, holder, histories, calls, faults>>

\* The upsert of a package raises after its fingerprint was noted; the
\* packages in done came before it.  The middleware goes on regardless.
SyncBreaks(r, broken, done) ==
    /\ stage[r] = "sync"
    /\ Fault
    /\ broken \in Present /\ Changed(broken)
    /\ done \subseteq Present \ {broken}
    /\ Sync({p \in done : Changed(p)})
    /\ fingerprint' = [p \in Packages |->
                          IF p \in done \union {broken} THEN item[p] ELSE fingerprint[p]]
    /\ syncBroke' = TRUE
    /\ stage' = [stage EXCEPT ![r] = "persist"]
    /\ UNCHANGED <<item, saved, calling, holder, approvedOnce, off, calls>>

\* The snapshot is saved, or the save raises; the lock is released.
Persist(r) ==
    /\ stage[r] = "persist"
    /\ \/ saved' = item /\ UNCHANGED faults
       \/ Fault /\ UNCHANGED saved
    /\ holder' = Nobody
    /\ stage' = [stage EXCEPT ![r] = "idle"]
    /\ calling' = [calling EXCEPT ![r] = NotCalling]
    /\ UNCHANGED <<item, row, policy, fingerprint, histories, calls>>

\* The process dies; the next one loads the saved snapshot and syncs it with
\* an empty fingerprint cache before it serves.
Restart ==
    LET due == {p \in Packages : saved[p].status # "absent"} IN
    /\ Fault
    /\ item' = saved
    /\ fingerprint' = [p \in Packages |-> IF p \in due THEN saved[p] ELSE Absent]
    /\ row' = [p \in Packages |-> IF p \in due THEN saved[p].status ELSE row[p]]
    /\ policy' = upsert_from_package(saved, due)
    /\ calling' = [r \in Requests |-> NotCalling]
    /\ stage' = [r \in Requests |-> "idle"]
    /\ holder' = Nobody
    /\ syncBroke' = FALSE
    /\ UNCHANGED <<saved, approvedOnce, off, calls>>

StartCall(r, p) ==
    \/ \E s \in {"pending", "approved", "active"} : BeginRegister(r, p, s)
    \/ BeginVersion(r, p)
    \/ \E d \in {"approve", "return_for_fix", "reject"} : BeginReview(r, p, d)
    \/ \E m \in {"tighten", "expand"} : BeginExposure(r, p, m)
    \/ BeginEnable(r, p)
    \/ BeginDisable(r, p)
    \/ \E v \in Versions \ {"none"} : BeginRollback(r, p, v)
    \/ \E l \in TrustLevels : BeginTrust(r, p, l)
    \/ BeginOther(r, p)

InWrite(r) ==
    \/ Mutate(r)
    \/ MutateRaises(r)
    \/ SyncAll(r)
    \/ \E p \in Packages, done \in SUBSET Packages : SyncBreaks(r, p, done)
    \/ Persist(r)

Next ==
    \/ \E r \in Requests : InWrite(r) \/ \E p \in Packages : StartCall(r, p)
    \/ Restart

Spec == Init /\ [][Next]_vars

-----------------------------------------------------------------------------
\* A package is enabled for the tenant only if a review or its registration
\* declared it approved at some time, even if the check of the version or of
\* the policy was made before another request changed the package.
EnabledWasApproved ==
    \A p \in Packages : policy[p] = "enabled" => p \in approvedOnce

\* Until a sync of this process was cut short, skipping a package with a
\* known fingerprint is "observationally identical" to writing it: its row
\* says what the snapshot says.
SkippedIsWritten ==
    ~syncBroke =>
        \A p \in Present : fingerprint[p] = item[p] => row[p] = item[p].status

\* What the tenant switched off stays off until somebody switches it on: no
\* registration, review, rollback, sync or restart enables it again.
SwitchedOffStaysOff ==
    \A p \in off : policy[p] = "disabled"

\* The tables follow the decisions: an enabled policy was approved once, a package
\* whose sync is skipped is in its table as it is, and what the tenant switched off
\* stays off (capability_admin.py, sync_reference_tables).
TablesFollowDecisions == EnabledWasApproved /\ SkippedIsWritten /\ SwitchedOffStaysOff
=============================================================================
