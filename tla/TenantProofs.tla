----------------------------- MODULE TenantProofs -----------------------------
(***************************************************************************)
(* Machine-checked proofs about what a tenant may do and who its actors    *)
(* are: PolicyCandidates, CapabilityPackages and ActorIdentity, each for   *)
(* every value of its constants.                                           *)
(***************************************************************************)
EXTENDS PolicyCandidates, CapabilityPackages, ActorIdentity, FiniteSetTheorems, TLAPS

-----------------------------------------------------------------------------
(* PolicyCandidates.                                                       *)

\* The roles a policy may name.
PolicyRoles == ProductRoles \union EnablerRoles \union {RoleRefOf[c] : c \in Candidates}

\* A review under way: what it has still to write and to enable.
ReviewJobs ==
    [decision : ReviewDecisions, write : SUBSET Candidates,
     enable : UNION {[D -> SUBSET PolicyRoles] :
                        D \in SUBSET Capabilities}]

\* The values the variables take.
CandidateTypeOK ==
    /\ candidate \in [Candidates -> CandidateStatuses]
    /\ tenantPolicy \in [Capabilities ->
          [status : {"none", "enabled", "reviewing", "disabled"}, roles : SUBSET PolicyRoles]]
    /\ review # NoReview => review \in ReviewJobs
    /\ passed \subseteq Candidates
    /\ reviewCrashes \in Nat

\* A candidate for capability k and role r that has passed a review.
Backed(k, r) == \E c \in passed : CapabilityOf[c] = k /\ RoleRefOf[c] = r

\* What a review is about to enable is backed by a candidate that passed, or
\* that the same review has still to write before it enables anything.
PlansBacked ==
    review # NoReview =>
        \A k \in DOMAIN review.enable : \A r \in review.enable[k] :
            \/ Backed(k, r)
            \/ /\ review.decision # "reject"
               /\ \E c \in review.write : CapabilityOf[c] = k /\ RoleRefOf[c] = r

\* "approved" on a candidate's row is the mark of a review.
ApprovedPassed == \A c \in Candidates : candidate[c] = "approved" => c \in passed

\* The roles of an enabled policy were given the capability, and one that names
\* none came with an approved package.
RolesBacked ==
    \A k \in Capabilities :
        tenantPolicy[k].status = "enabled" =>
            /\ \A r \in tenantPolicy[k].roles : OpenedTo(k, r)
            /\ tenantPolicy[k].roles = {} => <<k, NoRoleRef>> \in granted

\* What a review enables names a role.
GroupsNamed ==
    review # NoReview => \A k \in DOMAIN review.enable : review.enable[k] # {}

CandidateInv ==
    CandidateTypeOK /\ PlansBacked /\ ApprovedPassed /\ RolesBacked /\ GroupsNamed

\* Before the import there is nothing to review and no policy.
LEMMA CandidateInitInv == CandidateInit => CandidateInv
  BY DEF CandidateInit, CandidateInv, CandidateTypeOK, CandidateStatuses, PlansBacked,
         ApprovedPassed, RolesBacked, GroupsNamed, NoPolicy

\* The plan of a review holds candidates of its items, those to be applied
\* without being written are approved.
LEMMA PlanFacts ==
    ASSUME NEW decision \in ReviewDecisions, NEW items \in SUBSET Candidates
    PROVE  /\ Reviewable(decision, items) \subseteq Candidates
           /\ decision = "apply" =>
                \A c \in Reviewable(decision, items) : candidate[c] = "approved"
  BY DEF Reviewable, ReviewDecisions

\* A plan's groups: per capability, the roles its candidates name.
LEMMA GroupFacts ==
    ASSUME NEW plan \in SUBSET Candidates
    PROVE  /\ Groups(plan) \in
                UNION {[D -> SUBSET PolicyRoles] :
                            D \in SUBSET Capabilities}
           /\ \A k \in DOMAIN Groups(plan) : \A r \in Groups(plan)[k] :
                \E c \in plan : CapabilityOf[c] = k /\ RoleRefOf[c] = r
<1> DEFINE D == {CapabilityOf[c] : c \in plan}
<1>1. D \in SUBSET Capabilities
  BY CandidatesAssumption
<1>2. Groups(plan) \in [D -> SUBSET PolicyRoles]
  BY DEF Groups, PolicyRoles
<1>3. \A k \in DOMAIN Groups(plan) : \A r \in Groups(plan)[k] :
        \E c \in plan : CapabilityOf[c] = k /\ RoleRefOf[c] = r
  BY DEF Groups
<1>. QED  BY <1>1, <1>2, <1>3

\* The import overwrites a row, never with "approved".
LEMMA ImportStep ==
    ASSUME CandidateInv, NEW c \in Candidates, NEW status \in PENDING,
           import_legacy_policy_candidate(c, status)
    PROVE  CandidateInv'
  BY DEF CandidateInv, import_legacy_policy_candidate, CandidateTypeOK, CandidateStatuses,
         PENDING, PlansBacked, ApprovedPassed, RolesBacked, Backed, policyTables, OpenedTo,
         GroupsNamed

\* A plan is made of candidates that passed already or are about to.
LEMMA PlanStep ==
    ASSUME CandidateInv, NEW decision \in ReviewDecisions, NEW items \in SUBSET Candidates,
           PlanReview(decision, items)
    PROVE  CandidateInv'
<1> DEFINE plan == Reviewable(decision, items)
           write == IF decision = "apply" THEN {} ELSE plan
           enable == IF Applies(decision) THEN Groups(plan) ELSE Groups({})
<1>1. /\ review' = [decision |-> decision, write |-> write, enable |-> enable]
      /\ UNCHANGED <<candidate, tenantPolicy, granted, passed, reviewCrashes>>
      /\ Applies(decision) => Appliable(plan)
  BY DEF PlanReview, policyTables
<1>2. plan \in SUBSET Candidates
  BY PlanFacts
<1>3. review' \in ReviewJobs
  <2>1. enable \in UNION {[D -> SUBSET PolicyRoles] : D \in SUBSET Capabilities}
    BY <1>2, GroupFacts
  <2>. HIDE DEF enable, plan
  <2>. QED  BY <1>1, <1>2, <2>1 DEF ReviewJobs
<1>4. ASSUME NEW k \in DOMAIN review'.enable, NEW r \in review'.enable[k]
      PROVE  \/ Backed(k, r)'
             \/ /\ review'.decision # "reject"
                /\ \E c \in review'.write : CapabilityOf[c] = k /\ RoleRefOf[c] = r
  <2>1. Applies(decision) /\ k \in DOMAIN Groups(plan) /\ r \in Groups(plan)[k]
    BY <1>1, <1>4 DEF Groups
  <2>2. PICK c \in plan : CapabilityOf[c] = k /\ RoleRefOf[c] = r
    BY <1>2, <2>1, GroupFacts
  <2>3. CASE decision = "apply"
    <3>1. candidate[c] = "approved" /\ c \in Candidates
      BY <2>2, <2>3, PlanFacts
    <3>. QED  BY <1>1, <2>2, <3>1 DEF CandidateInv, ApprovedPassed, Backed
  <2>4. CASE decision # "apply"
    BY <1>1, <2>1, <2>2, <2>4 DEF Applies
  <2>. QED  BY <2>3, <2>4
<1>5. \A k \in DOMAIN enable : enable[k] # {}
  BY <1>1 DEF Appliable, Groups
<1>. HIDE DEF plan, write, enable
<1>6. PlansBacked' /\ GroupsNamed'
  BY <1>1, <1>4, <1>5 DEF PlansBacked, GroupsNamed
<1>7. RolesBacked' /\ ApprovedPassed'
  BY <1>1 DEF CandidateInv, ApprovedPassed, RolesBacked, OpenedTo
<1>. QED
  BY <1>1, <1>3, <1>6, <1>7 DEF CandidateInv, CandidateTypeOK

\* A candidate that leaves the list of a review that does not reject has passed.
LEMMA WriteStep ==
    ASSUME CandidateInv, NEW c \in Candidates, ReviewCandidate(c)
    PROVE  CandidateInv'
<1>1. review # NoReview /\ review \in ReviewJobs
  BY DEF ReviewCandidate, CandidateInv, CandidateTypeOK
<1>2. /\ review' = [review EXCEPT !.write = @ \ {c}]
      /\ review' \in ReviewJobs
      /\ review'.write = review.write \ {c} /\ review'.enable = review.enable
      /\ review'.decision = review.decision
      /\ UNCHANGED <<tenantPolicy, granted, reviewCrashes>>
  BY <1>1 DEF ReviewCandidate, ReviewJobs, policyTables
<1>3. /\ passed \subseteq passed' /\ passed' \subseteq Candidates
      /\ review.decision # "reject" => c \in passed'
  BY DEF ReviewCandidate, CandidateInv, CandidateTypeOK
<1>4. candidate' \in [Candidates -> CandidateStatuses]
  BY DEF ReviewCandidate, CandidateInv, CandidateTypeOK, CandidateStatuses
<1>5. ApprovedPassed'
  BY DEF ReviewCandidate, CandidateInv, CandidateTypeOK, ApprovedPassed
<1>6. PlansBacked' /\ GroupsNamed'
  BY <1>1, <1>2, <1>3 DEF CandidateInv, PlansBacked, Backed, GroupsNamed
<1>7. RolesBacked'
  BY <1>2, <1>3 DEF CandidateInv, RolesBacked, OpenedTo
<1>. QED
  BY <1>2, <1>3, <1>4, <1>5, <1>6, <1>7 DEF CandidateInv, CandidateTypeOK

\* A policy row is replaced by one that nothing speaks against.
LEMMA SetPolicyKeeps ==
    ASSUME CandidateInv, NEW k \in Capabilities, NEW roles \in SUBSET PolicyRoles,
           NEW status \in {"enabled", "reviewing", "disabled"}, SetPolicy(k, status, roles),
           passed' = passed, granted \subseteq granted',
           status = "enabled" =>
               /\ \A r \in roles : OpenedTo(k, r)'
               /\ roles = {} => <<k, NoRoleRef>> \in granted'
    PROVE  /\ RolesBacked'
           /\ tenantPolicy' \in [Capabilities ->
                [status : {"none", "enabled", "reviewing", "disabled"}, roles : SUBSET PolicyRoles]]
<1>1. tenantPolicy \in [Capabilities ->
          [status : {"none", "enabled", "reviewing", "disabled"}, roles : SUBSET PolicyRoles]]
  BY DEF CandidateInv, CandidateTypeOK
<1>2. /\ tenantPolicy'[k] = [status |-> status, roles |-> roles]
      /\ \A j \in Capabilities : j # k => tenantPolicy'[j] = tenantPolicy[j]
  BY <1>1 DEF SetPolicy
<1>3. \A j \in Capabilities, r \in PolicyRoles : OpenedTo(j, r) => OpenedTo(j, r)'
  BY DEF OpenedTo
<1>4. ASSUME NEW j \in Capabilities, tenantPolicy'[j].status = "enabled"
      PROVE  /\ \A r \in tenantPolicy'[j].roles : OpenedTo(j, r)'
             /\ tenantPolicy'[j].roles = {} => <<j, NoRoleRef>> \in granted'
  <2>1. CASE j = k
    BY <1>2, <1>4, <2>1
  <2>2. CASE j # k
    <3>1. tenantPolicy'[j] = tenantPolicy[j] /\ tenantPolicy[j].roles \in SUBSET PolicyRoles
      BY <1>1, <1>2, <2>2
    <3>. QED  BY <1>3, <1>4, <3>1 DEF CandidateInv, RolesBacked
  <2>. QED  BY <2>1, <2>2
<1>5. RolesBacked'
  BY <1>4 DEF RolesBacked
<1>6. tenantPolicy' \in [Capabilities ->
          [status : {"none", "enabled", "reviewing", "disabled"}, roles : SUBSET PolicyRoles]]
  BY <1>1 DEF SetPolicy
<1>. QED  BY <1>5, <1>6

\* The row of a package's capability is written under the lock reviews hold.
LEMMA PackageRowStep ==
    ASSUME CandidateInv, NEW k \in Capabilities, PackageWrites(k)
    PROVE  CandidateInv'
<1>1. UNCHANGED <<candidate, review, passed, reviewCrashes>>
  BY DEF PackageWrites, apply_package_tenant_policy, disable_tenant_capability, InsertPolicy
<1>2. PICK status \in {"enabled", "reviewing", "disabled"}, roles \in SUBSET PolicyRoles :
        /\ SetPolicy(k, status, roles)
        /\ IF status = "enabled" THEN Grant(k, roles) ELSE UNCHANGED granted
  <2>1. ASSUME NEW role \in EnablerRoles, apply_package_tenant_policy(k, role)
        PROVE  SetPolicy(k, "enabled", {role}) /\ Grant(k, {role}) /\ {role} \in SUBSET PolicyRoles
    BY <2>1 DEF apply_package_tenant_policy, PolicyRoles
  <2>2. ASSUME disable_tenant_capability(k)
        PROVE  SetPolicy(k, "disabled", {}) /\ UNCHANGED granted /\ {} \in SUBSET PolicyRoles
    BY <2>2 DEF disable_tenant_capability
  <2>3. ASSUME NEW status \in {"enabled", "reviewing", "disabled"}, NEW roles \in SUBSET ProductRoles,
               InsertPolicy(k, status, roles)
        PROVE  /\ SetPolicy(k, status, roles) /\ roles \in SUBSET PolicyRoles
               /\ IF status = "enabled" THEN Grant(k, roles) ELSE UNCHANGED granted
    BY <2>3 DEF InsertPolicy, PolicyRoles
  <2>. QED  BY <2>1, <2>2, <2>3 DEF PackageWrites
<1>3. /\ granted \subseteq granted'
      /\ status = "enabled" =>
            /\ \A r \in roles : <<k, r>> \in granted'
            /\ roles = {} => <<k, NoRoleRef>> \in granted'
  BY <1>2 DEF Grant
<1>4. status = "enabled" => \A r \in roles : OpenedTo(k, r)'
  BY <1>3 DEF OpenedTo
<1>5. RolesBacked' /\ tenantPolicy' \in [Capabilities ->
          [status : {"none", "enabled", "reviewing", "disabled"}, roles : SUBSET PolicyRoles]]
  BY <1>1, <1>2, <1>3, <1>4, SetPolicyKeeps
<1>. QED
  BY <1>1, <1>5 DEF CandidateInv, CandidateTypeOK, PlansBacked, ApprovedPassed, Backed, GroupsNamed

\* A policy is enabled after the last candidate is written, so what it opens is
\* backed by candidates that have passed.
LEMMA EnableStep ==
    ASSUME CandidateInv, NEW k \in Capabilities, EnablePolicy(k)
    PROVE  CandidateInv'
<1>1. review # NoReview /\ review \in ReviewJobs /\ review.write = {}
      /\ k \in DOMAIN review.enable
  BY DEF EnablePolicy, MayEnable, CandidateInv, CandidateTypeOK
<1>2. PICK D \in SUBSET Capabilities :
        review.enable \in [D -> SUBSET PolicyRoles]
  BY <1>1 DEF ReviewJobs
<1> DEFINE rest == [j \in DOMAIN review.enable \ {k} |-> review.enable[j]]
<1>3. rest \in [D \ {k} -> SUBSET PolicyRoles]
      /\ D \ {k} \in SUBSET Capabilities
  BY <1>2
<1>4. /\ review' = [review EXCEPT !.enable = rest]
      /\ SetPolicy(k, "enabled", review.enable[k])
      /\ UNCHANGED <<candidate, granted, passed, reviewCrashes>>
  BY DEF EnablePolicy
<1>5. /\ \A j \in DOMAIN rest : j \in DOMAIN review.enable /\ rest[j] = review.enable[j]
  OBVIOUS
<1>6. review.enable[k] \in SUBSET PolicyRoles
  BY <1>1, <1>2
<1> HIDE DEF rest
<1>7. /\ review' \in ReviewJobs
      /\ review'.enable = rest /\ review'.write = review.write
      /\ review'.decision = review.decision
  BY <1>1, <1>3, <1>4 DEF ReviewJobs
<1>8. review.enable[k] # {} /\ \A r \in review.enable[k] : OpenedTo(k, r)
  BY <1>1 DEF CandidateInv, PlansBacked, Backed, OpenedTo, GroupsNamed
<1>9. RolesBacked' /\ tenantPolicy' \in [Capabilities ->
          [status : {"none", "enabled", "reviewing", "disabled"}, roles : SUBSET PolicyRoles]]
  <2>1. PICK roles \in SUBSET PolicyRoles : roles = review.enable[k]
    BY <1>6
  <2>2. roles # {} /\ \A r \in roles : OpenedTo(k, r)'
    BY <1>4, <1>8, <2>1 DEF OpenedTo
  <2>3. granted \subseteq granted' /\ passed' = passed /\ SetPolicy(k, "enabled", roles)
    BY <1>4, <2>1
  <2>. QED  BY <2>2, <2>3, SetPolicyKeeps
<1>10. PlansBacked' /\ GroupsNamed'
  BY <1>1, <1>4, <1>5, <1>7 DEF CandidateInv, PlansBacked, Backed, GroupsNamed
<1>11. CandidateTypeOK'
  BY <1>4, <1>7, <1>9 DEF CandidateInv, CandidateTypeOK
<1>. QED
  BY <1>4, <1>9, <1>10, <1>11 DEF CandidateInv, ApprovedPassed

\* Every step of importer and review keeps the invariant.
LEMMA CandidateStep == CandidateInv /\ [CandidateNext]_candidateVars => CandidateInv'
<1> SUFFICES ASSUME CandidateInv, [CandidateNext]_candidateVars PROVE CandidateInv'
  OBVIOUS
<1>1. CASE EndReview \/ ReviewDies
  BY <1>1 DEF EndReview, ReviewDies, CandidateInv, CandidateTypeOK, PlansBacked, ApprovedPassed,
              RolesBacked, OpenedTo, GroupsNamed, policyTables
<1>2. CASE UNCHANGED candidateVars
  BY <1>2 DEF candidateVars, CandidateInv, CandidateTypeOK, PlansBacked, ApprovedPassed,
              RolesBacked, Backed, OpenedTo, GroupsNamed, policyTables
<1>3. ASSUME NEW k \in PackagedCapabilities, PackageWrites(k) PROVE CandidateInv'
  BY <1>3, PackageRowStep, CandidatesAssumption
<1>. QED
  BY <1>1, <1>2, <1>3, ImportStep, PlanStep, WriteStep, EnableStep DEF CandidateNext

\* A question that is answered with "allowed" is about an enabled policy, and a
\* role of its asker is among those of the policy or of the registry, unless the
\* policy names none.
LEMMA AllowedMeans ==
    ASSUME NEW q \in Questions, q.holds # {},
           evaluate_tenant_policy(q) = "allowed_by_tenant_policy"
    PROVE  /\ tenantPolicy[q.cap].status = "enabled"
           /\ \/ tenantPolicy[q.cap].roles = {}
              \/ \E r \in q.holds : r \in tenantPolicy[q.cap].roles \union RegistryRoles[q.cap]
<1>1. q.but \in Situations
  BY DEF Questions
<1>2. tenantPolicy[q.cap].status = "enabled" /\ RoleMatched(q) /\ BindingMatches(q)
  BY <1>1, CandidatesAssumption DEF evaluate_tenant_policy
<1>3. role_codes(q) \subseteq q.holds
  BY <1>2 DEF BindingMatches, role_codes
<1>. QED  BY <1>2, <1>3 DEF RoleMatched, PolicyRoleMatched

\* No review that ends early and no import between plan and write opens a
\* capability to a role nobody named (j2/governance.py, b1/capability_admin.py,
\* j2/tenant_policy.py), for any candidates, roles, packages and capabilities.
THEOREM PoliciesAreApproved == CandidateSpec => []PolicyHasApproval
<1>1. CandidateInv => PolicyHasApproval
  <2> SUFFICES ASSUME CandidateInv PROVE PolicyHasApproval
    OBVIOUS
  <2>1. ASSUME NEW k \in Capabilities, tenantPolicy[k].status = "enabled"
        PROVE  /\ \A r \in tenantPolicy[k].roles : OpenedTo(k, r)
               /\ tenantPolicy[k].roles = {} => <<k, NoRoleRef>> \in granted
    BY <2>1 DEF CandidateInv, RolesBacked
  <2>2. ASSUME NEW q \in Questions, q.holds # {},
               evaluate_tenant_policy(q) = "allowed_by_tenant_policy"
        PROVE  /\ \/ \E c \in passed : CapabilityOf[c] = q.cap
                  \/ \E g \in granted : g[1] = q.cap
               /\ \/ \E r \in q.holds : r \in RegistryRoles[q.cap] \/ OpenedTo(q.cap, r)
                  \/ <<q.cap, NoRoleRef>> \in granted
    <3> DEFINE roles == tenantPolicy[q.cap].roles
    <3>1. q.cap \in Capabilities
      BY DEF Questions
    <3>2. tenantPolicy[q.cap].status = "enabled"
          /\ (roles = {} \/ \E r \in q.holds : r \in roles \union RegistryRoles[q.cap])
      BY <2>2, AllowedMeans
    <3>3. CASE roles = {}
      <4>1. <<q.cap, NoRoleRef>> \in granted
        BY <2>1, <3>1, <3>2, <3>3
      <4>2. <<q.cap, NoRoleRef>>[1] = q.cap
        OBVIOUS
      <4>. QED  BY <4>1, <4>2
    <3>4. CASE roles # {}
      <4>1. PICK r \in roles : OpenedTo(q.cap, r)
        BY <2>1, <3>1, <3>2, <3>4
      <4>2. <<q.cap, r>>[1] = q.cap
        OBVIOUS
      <4>3. \/ \E c \in passed : CapabilityOf[c] = q.cap
            \/ \E g \in granted : g[1] = q.cap
        BY <4>1, <4>2 DEF OpenedTo
      <4>4. \E s \in q.holds : s \in RegistryRoles[q.cap] \/ OpenedTo(q.cap, s)
        BY <2>1, <3>1, <3>2, <3>4
      <4>. QED  BY <4>3, <4>4
    <3>. QED  BY <3>3, <3>4
  <2>. QED  BY <2>1, <2>2 DEF PolicyHasApproval
<1>. QED  BY <1>1, CandidateInitInv, CandidateStep, PTL DEF CandidateSpec
-----------------------------------------------------------------------------
(* CapabilityPackages.                                                     *)

Skills == {"register", "version", "review", "exposure", "enable", "disable", "rollback",
           "trust", "other"}

\* A checked call: its arguments, and what its check saw and its write relies on.
CallKept(c) ==
    /\ c.skill \in Skills
    /\ c.pkg \in Packages
    /\ c.skill = "register" => c.arg \in {"pending", "approved", "active"}
    /\ c.skill = "review" => c.arg \in {"approve", "return_for_fix", "reject"}
    /\ c.skill = "trust" => c.arg \in TrustLevels
    /\ c.skill = "rollback" =>
          /\ c.arg \in Versions /\ c.left \in Versions
          /\ c.next \in Statuses \ {"absent"}
          /\ c.next = "approved" => c.pkg \in approvedOnce
    /\ c.skill \in {"version", "enable"} => c.pkg \in approvedOnce

CallsKept == \A r \in Requests : stage[r] = "checked" => CallKept(calling[r])

\* The values the variables take.
PackageTypeOK ==
    /\ item \in [Packages -> Item]
    /\ saved \in [Packages -> Item]
    /\ fingerprint \in [Packages -> Item]
    /\ row \in [Packages -> Statuses]
    /\ policy \in [Packages -> PolicyStatuses]
    /\ stage \in [Requests -> {"idle", "checked", "sync", "persist"}]
    /\ DOMAIN calling = Requests
    /\ approvedOnce \subseteq Packages
    /\ off \subseteq Packages
    /\ syncBroke \in BOOLEAN
    /\ calls \in Nat /\ faults \in Nat

\* A package that is approved or has a registered version was declared approved.
DeclaredIn(it) ==
    \A p \in Packages :
        it[p].status = "approved" \/ it[p].versionStatus = "registered" => p \in approvedOnce

\* A package the process has synced once is in its memory.
KnownPresent ==
    \A p \in Packages : fingerprint[p].status # "absent" => item[p].status # "absent"

\* While a request is between mutation and sync it holds the write lock.
SyncHoldsLock ==
    /\ holder # Nobody => holder \in Requests
    /\ \A r \in Requests : stage[r] \in {"sync", "persist"} => holder = r

\* The row of a synced package says what was synced last, or already what the
\* request under the lock has made of it.
RowsKnown ==
    ~syncBroke =>
        \A p \in Packages : fingerprint[p].status # "absent" =>
            \/ row[p] = fingerprint[p].status
            \/ row[p] = item[p].status /\ \E r \in Requests : stage[r] = "sync"

PackageInv ==
    /\ PackageTypeOK
    /\ CallsKept
    /\ DeclaredIn(item)
    /\ DeclaredIn(saved)
    /\ KnownPresent
    /\ SyncHoldsLock
    /\ RowsKnown
    /\ EnabledWasApproved
    /\ SwitchedOffStaysOff

\* The seed is synced and approved.
LEMMA PackageInitInv == Init => PackageInv
<1> SUFFICES ASSUME Init PROVE PackageInv
  OBVIOUS
<1>1. SeedItem \in Item /\ Absent \in Item /\ SeedItem.status = "approved"
      /\ Absent.status = "absent" /\ Absent.versionStatus = "none"
      /\ SeedItem.versionStatus = "none"
  BY DEF SeedItem, Absent, Item, Statuses, VersionStatuses, Versions, Surfaces, TrustLevels
<1>2. item \in [Packages -> Item] /\ saved = item /\ fingerprint = item
  BY <1>1 DEF Init
<1>3. row \in [Packages -> Statuses] /\ policy \in [Packages -> PolicyStatuses]
  BY <1>2 DEF Init, Item, PolicyStatuses
<1>4. PackageTypeOK
  BY <1>2, <1>3, SeededAssumption DEF Init, PackageTypeOK
<1>5. DeclaredIn(item) /\ DeclaredIn(saved)
  BY <1>1 DEF Init, DeclaredIn
<1>. QED
  BY <1>1, <1>4, <1>5 DEF Init, PackageInv, CallsKept, KnownPresent, SyncHoldsLock, RowsKnown,
                          EnabledWasApproved, SwitchedOffStaysOff

\* A check writes nothing but its own call.
LEMMA BeginKeeps ==
    ASSUME PackageInv, NEW r \in Requests, NEW c, CallKept(c), Begin(r, c)
    PROVE  PackageInv'
<1>1. /\ stage' = [stage EXCEPT ![r] = "checked"] /\ calling' = [calling EXCEPT ![r] = c]
      /\ stage[r] = "idle"
      /\ UNCHANGED <<item, saved, row, policy, fingerprint, holder, approvedOnce, off,
                     syncBroke, faults>>
      /\ calls' = calls + 1
  BY DEF Begin, stores, histories
<1>2. PackageTypeOK'
  BY <1>1 DEF PackageInv, PackageTypeOK
<1>3. CallsKept'
  <2> SUFFICES ASSUME NEW u \in Requests, stage'[u] = "checked" PROVE CallKept(calling[u])'
    BY DEF CallsKept
  <2>1. CASE u = r
    <3>1. calling'[u] = c
      BY <1>1, <2>1 DEF PackageInv, PackageTypeOK
    <3>. QED  BY <1>1, <3>1 DEF CallKept
  <2>2. CASE u # r
    <3>1. calling'[u] = calling[u] /\ CallKept(calling[u])
      BY <1>1, <2>2 DEF PackageInv, PackageTypeOK, CallsKept
    <3>. QED  BY <1>1, <3>1 DEF CallKept
  <2>. QED  BY <2>1, <2>2
<1>4. DeclaredIn(item)' /\ DeclaredIn(saved)'
  BY <1>1 DEF PackageInv, DeclaredIn
<1>5. KnownPresent' /\ EnabledWasApproved' /\ SwitchedOffStaysOff'
  BY <1>1 DEF PackageInv, KnownPresent, EnabledWasApproved, SwitchedOffStaysOff
<1>6. SyncHoldsLock'
  BY <1>1 DEF PackageInv, PackageTypeOK, SyncHoldsLock
<1>7. RowsKnown'
  BY <1>1 DEF PackageInv, PackageTypeOK, RowsKnown
<1>. QED  BY <1>2, <1>3, <1>4, <1>5, <1>6, <1>7 DEF PackageInv

\* Each check records what its write relies on.
LEMMA CallStep ==
    ASSUME PackageInv, NEW r \in Requests, NEW p \in Packages, StartCall(r, p)
    PROVE  PackageInv'
<1> USE DEF CallKept, Skills
<1>0. item[p] \in Item
  BY DEF PackageInv, PackageTypeOK
<1>1. CASE \E s \in {"pending", "approved", "active"} : BeginRegister(r, p, s)
  BY <1>1, BeginKeeps DEF BeginRegister
<1>2. CASE BeginVersion(r, p)
  BY <1>2, BeginKeeps DEF BeginVersion, PackageInv, DeclaredIn
<1>3. CASE \E d \in {"approve", "return_for_fix", "reject"} : BeginReview(r, p, d)
  BY <1>3, BeginKeeps DEF BeginReview
<1>4. CASE \E m \in {"tighten", "expand"} : BeginExposure(r, p, m)
  BY <1>4, BeginKeeps DEF BeginExposure
<1>5. CASE BeginEnable(r, p)
  BY <1>5, BeginKeeps DEF BeginEnable, PackageInv, DeclaredIn
<1>6. CASE BeginDisable(r, p)
  BY <1>6, BeginKeeps DEF BeginDisable
<1>7. CASE \E v \in Versions \ {"none"} : BeginRollback(r, p, v)
  <2>1. PICK v \in Versions \ {"none"} : BeginRollback(r, p, v)
    BY <1>7
  <2> DEFINE next == IF item[p].status = "active" THEN "rolled-back" ELSE item[p].status
             c == [skill |-> "rollback", pkg |-> p, arg |-> v,
                   left |-> item[p].registeredVersion, next |-> next]
  <2>2. Begin(r, c) /\ item[p].status # "absent"
    BY <2>1 DEF BeginRollback, Present
  <2>3. next \in Statuses \ {"absent"} /\ (next = "approved" => p \in approvedOnce)
    BY <1>0, <2>2 DEF Item, Statuses, PackageInv, DeclaredIn
  <2>4. item[p].registeredVersion \in Versions
    BY <1>0 DEF Item
  <2> HIDE DEF next
  <2>5. CallKept(c)
    BY <2>3, <2>4
  <2> HIDE DEF c
  <2>. QED  BY <2>2, <2>5, BeginKeeps
<1>8. CASE \E l \in TrustLevels : BeginTrust(r, p, l)
  BY <1>8, BeginKeeps DEF BeginTrust
<1>9. CASE BeginOther(r, p)
  BY <1>9, BeginKeeps DEF BeginOther
<1>. QED
  BY <1>1, <1>2, <1>3, <1>4, <1>5, <1>6, <1>7, <1>8, <1>9 DEF StartCall
\* What a mutation makes of a package: a package, still there if it was, and
\* approved or with a version only if that was declared, now or before.
LEMMA MutatedFacts ==
    ASSUME PackageInv, NEW c, CallKept(c)
    PROVE  /\ Mutated(c) \in Item
           /\ item[c.pkg].status # "absent" => Mutated(c).status # "absent"
           /\ Mutated(c).status = "approved" \/ Mutated(c).versionStatus = "registered"
                => c.pkg \in approvedOnce \/ Declares(c)
<1> DEFINE old == item[c.pkg]
<1>0. /\ old \in Item /\ c.pkg \in Packages /\ c.skill \in Skills
      /\ old.status = "approved" \/ old.versionStatus = "registered" => c.pkg \in approvedOnce
  BY DEF PackageInv, PackageTypeOK, CallKept, DeclaredIn
<1>1. CASE c.skill = "register"
  <2>1. Mutated(c) = [old EXCEPT !.status = c.arg, !.exposure = {"api"}]
    BY <1>1 DEF Mutated
  <2>2. c.arg \in {"pending", "approved", "active"}
    BY <1>1 DEF CallKept
  <2>. QED  BY <1>0, <1>1, <2>1, <2>2 DEF Item, Statuses, Surfaces, Declares
<1>2. CASE c.skill = "version"
  <2>1. Mutated(c) = [old EXCEPT !.versionStatus = "registered", !.registeredVersion = "v1.0.0",
                                 !.rollbackTarget = OrDefault(@, "v0.9.0")]
    BY <1>2 DEF Mutated
  <2>2. c.pkg \in approvedOnce
    BY <1>2 DEF CallKept
  <2>. QED  BY <1>0, <2>1, <2>2 DEF Item, VersionStatuses, Versions, OrDefault
<1>3. CASE c.skill = "review" /\ c.arg = "approve"
  <2>1. Mutated(c) = [old EXCEPT !.status = "approved",
                                 !.versionStatus = OrDefault(@, "pending-registration"),
                                 !.rollbackTarget = OrDefault(@, "v0.9.0")]
    BY <1>3 DEF Mutated
  <2>. QED  BY <1>0, <1>3, <2>1 DEF Item, Statuses, VersionStatuses, Versions, OrDefault, Declares
<1>4. CASE c.skill = "review" /\ c.arg # "approve"
  <2>1. PICK s \in {"pending-fix", "rejected"} : Mutated(c) = [old EXCEPT !.status = s]
    BY <1>4 DEF Mutated, CallKept
  <2>. QED  BY <1>0, <2>1 DEF Item, Statuses
<1>5. CASE c.skill = "exposure"
  <2>1. PICK e \in SUBSET Surfaces : Mutated(c) = [old EXCEPT !.exposure = e]
    BY <1>0, <1>5 DEF Mutated, Item, Surfaces
  <2>. QED  BY <1>0, <2>1 DEF Item
<1>6. CASE c.skill = "enable"
  <2>1. Mutated(c) = [old EXCEPT !.status = "approved"]
    BY <1>6 DEF Mutated
  <2>2. c.pkg \in approvedOnce
    BY <1>6 DEF CallKept
  <2>. QED  BY <1>0, <2>1, <2>2 DEF Item, Statuses
<1>7. CASE c.skill = "rollback"
  <2>1. Mutated(c) = [old EXCEPT !.registeredVersion = c.arg, !.status = c.next,
                                 !.rollbackTarget = c.left]
    BY <1>7 DEF Mutated
  <2>2. /\ c.arg \in Versions /\ c.left \in Versions /\ c.next \in Statuses \ {"absent"}
        /\ c.next = "approved" => c.pkg \in approvedOnce
    BY <1>7 DEF CallKept
  <2>. QED  BY <1>0, <2>1, <2>2 DEF Item
<1>8. CASE c.skill = "trust"
  <2>1. Mutated(c) = [old EXCEPT !.trustLevel = c.arg]
    BY <1>8 DEF Mutated
  <2>2. c.arg \in TrustLevels
    BY <1>8 DEF CallKept
  <2>. QED  BY <1>0, <2>1, <2>2 DEF Item
<1>9. CASE c.skill \in {"disable", "other"}
  <2>1. Mutated(c) = old
    BY <1>9 DEF Mutated
  <2>. QED  BY <1>0, <2>1
<1>. QED
  BY <1>0, <1>1, <1>2, <1>3, <1>4, <1>5, <1>6, <1>7, <1>8, <1>9 DEF Skills

\* The memory after a mutation that was written or raised.
LEMMA MemoryStep ==
    ASSUME PackageInv, NEW r \in Requests, stage[r] = "checked",
           item' = [item EXCEPT ![calling[r].pkg] = Mutated(calling[r])],
           approvedOnce' = IF Declares(calling[r]) THEN approvedOnce \union {calling[r].pkg}
                                                ELSE approvedOnce,
           UNCHANGED <<saved, fingerprint>>
    PROVE  /\ CallKept(calling[r]) /\ calling[r].pkg \in Packages
           /\ item' \in [Packages -> Item]
           /\ approvedOnce \subseteq approvedOnce' /\ approvedOnce' \subseteq Packages
           /\ DeclaredIn(item)' /\ DeclaredIn(saved)'
           /\ KnownPresent'
<1>1. CallKept(calling[r]) /\ calling[r].pkg \in Packages
  BY DEF PackageInv, CallsKept, CallKept
<1> DEFINE m == Mutated(calling[r])
           k == calling[r].pkg
<1>2. /\ m \in Item /\ (item[k].status # "absent" => m.status # "absent")
      /\ m.status = "approved" \/ m.versionStatus = "registered"
            => k \in approvedOnce \/ Declares(calling[r])
  BY <1>1, MutatedFacts
<1>3. item' = [item EXCEPT ![k] = m] /\ item \in [Packages -> Item] /\ k \in Packages
  BY <1>1 DEF PackageInv, PackageTypeOK
<1>4. /\ approvedOnce \subseteq approvedOnce' /\ approvedOnce' \subseteq Packages
      /\ Declares(calling[r]) => k \in approvedOnce'
  BY <1>1 DEF PackageInv, PackageTypeOK
<1> HIDE DEF m, k
<1>5. DeclaredIn(item)'
  BY <1>2, <1>3, <1>4 DEF PackageInv, DeclaredIn
<1>6. DeclaredIn(saved)'
  BY <1>4 DEF PackageInv, DeclaredIn
<1>7. KnownPresent'
  BY <1>2, <1>3 DEF PackageInv, KnownPresent
<1>. QED  BY <1>1, <1>2, <1>3, <1>4, <1>5, <1>6, <1>7

\* Calls that are checked elsewhere keep what they rely on: declarations only grow.
LEMMA OtherCallsKept ==
    ASSUME PackageInv, approvedOnce \subseteq approvedOnce',
           \A u \in Requests : stage'[u] = "checked" => stage[u] = "checked" /\ calling'[u] = calling[u]
    PROVE  CallsKept'
<1> SUFFICES ASSUME NEW u \in Requests, stage'[u] = "checked" PROVE CallKept(calling[u])'
  BY DEF CallsKept
<1>1. CallKept(calling[u]) /\ calling'[u] = calling[u]
  BY DEF PackageInv, CallsKept
<1>. QED  BY <1>1 DEF CallKept

\* Inserting missing policy rows enables only what was declared approved and
\* never touches a row that is there.
LEMMA UpsertFacts ==
    ASSUME PackageInv, NEW it \in [Packages -> Item], NEW done,
           \A p \in Packages : it[p].status = "approved" => p \in approvedOnce'
    PROVE  LET new == upsert_from_package(it, done)
           IN  /\ new \in [Packages -> PolicyStatuses]
               /\ \A p \in Packages : policy[p] # "none" => new[p] = policy[p]
               /\ \A p \in Packages : new[p] = "enabled" =>
                      policy[p] = "enabled" \/ p \in approvedOnce'
<1>1. \A s : /\ PolicyStatusOf(s) \in {"enabled", "reviewing", "disabled"}
             /\ PolicyStatusOf(s) = "enabled" => s = "approved"
  BY DEF PolicyStatusOf
<1>. QED
  BY <1>1 DEF upsert_from_package, PolicyStatuses, PackageInv, PackageTypeOK

\* A mutation with its own table writes, under the lock.
LEMMA MutateStep ==
    ASSUME PackageInv, NEW r \in Requests, Mutate(r)
    PROVE  PackageInv'
<1> DEFINE c == calling[r]
           it == [item EXCEPT ![c.pkg] = Mutated(c)]
<1>1. /\ stage[r] = "checked" /\ holder = Nobody /\ holder' = r /\ item' = it
      /\ row' = IF WritesTables(c) THEN [row EXCEPT ![c.pkg] = it[c.pkg].status] ELSE row
      /\ policy' = PolicyAfter(c, it)
      /\ approvedOnce' = IF Declares(c) THEN approvedOnce \union {c.pkg} ELSE approvedOnce
      /\ off' = CASE c.skill = "disable" -> off \union {c.pkg}
                  [] c.skill = "enable" -> off \ {c.pkg}
                  [] OTHER -> off
      /\ stage' = [stage EXCEPT ![r] = "sync"]
      /\ UNCHANGED <<saved, fingerprint, calling, syncBroke, calls, faults>>
  BY DEF Mutate
<1>2. /\ CallKept(c) /\ c.pkg \in Packages
      /\ item' \in [Packages -> Item]
      /\ approvedOnce \subseteq approvedOnce' /\ approvedOnce' \subseteq Packages
      /\ DeclaredIn(item)' /\ DeclaredIn(saved)'
      /\ KnownPresent'
  BY <1>1, MemoryStep
<1>3. item' = it
  BY <1>1
<1> HIDE DEF it
<1>4. row' \in [Packages -> Statuses]
      /\ \A p \in Packages : row'[p] = row[p] \/ row'[p] = item'[p].status
  <2>1. item'[c.pkg].status \in Statuses
    BY <1>2 DEF Item
  <2>. QED  BY <1>1, <1>2, <1>3, <2>1 DEF PackageInv, PackageTypeOK
<1>5. \A p \in Packages : item'[p].status = "approved" => p \in approvedOnce'
  BY <1>2 DEF DeclaredIn
<1>6. /\ policy' \in [Packages -> PolicyStatuses] /\ off' \subseteq Packages
      /\ EnabledWasApproved' /\ SwitchedOffStaysOff'
  <2>1. CASE c.skill \in {"register", "rollback", "trust"}
    <3>1. policy' = upsert_from_package(item', {c.pkg}) /\ off' = off
      BY <1>1, <1>3, <2>1 DEF PolicyAfter
    <3>2. /\ policy' \in [Packages -> PolicyStatuses]
          /\ \A p \in Packages : policy[p] # "none" => policy'[p] = policy[p]
          /\ \A p \in Packages : policy'[p] = "enabled" =>
                  policy[p] = "enabled" \/ p \in approvedOnce'
      BY <1>2, <1>5, <3>1, UpsertFacts
    <3>. QED
      BY <1>2, <3>1, <3>2
         DEF PackageInv, PackageTypeOK, EnabledWasApproved, SwitchedOffStaysOff
  <2>2. CASE c.skill \notin {"register", "rollback", "trust"}
    <3>1. policy' \in [Packages -> PolicyStatuses] /\ off' \subseteq Packages
      BY <1>1, <1>2, <2>2 DEF PolicyAfter, PolicyStatuses, PackageInv, PackageTypeOK
    <3>2. c.skill = "enable" => c.pkg \in approvedOnce
      BY <1>2 DEF CallKept
    <3>3. EnabledWasApproved'
      BY <1>1, <1>2, <2>2, <3>2 DEF PolicyAfter, PackageInv, PackageTypeOK, EnabledWasApproved
    <3>4. SwitchedOffStaysOff'
      BY <1>1, <1>2, <2>2 DEF PolicyAfter, PackageInv, PackageTypeOK, SwitchedOffStaysOff
    <3>. QED  BY <3>1, <3>3, <3>4
  <2>. QED  BY <2>1, <2>2
<1>7. PackageTypeOK'
  BY <1>1, <1>2, <1>4, <1>6 DEF PackageInv, PackageTypeOK
<1>8. CallsKept'
  BY <1>1, <1>2, OtherCallsKept DEF PackageInv, PackageTypeOK
<1>9. SyncHoldsLock'
  BY <1>1, NobodyAssumption DEF PackageInv, PackageTypeOK, SyncHoldsLock
<1>10. RowsKnown'
  <2>1. ~\E u \in Requests : stage[u] = "sync"
    BY <1>1, NobodyAssumption DEF PackageInv, SyncHoldsLock
  <2>2. stage'[r] = "sync"
    BY <1>1 DEF PackageInv, PackageTypeOK
  <2>. QED  BY <1>1, <1>4, <2>1, <2>2 DEF PackageInv, RowsKnown
<1>. QED
  BY <1>2, <1>6, <1>7, <1>8, <1>9, <1>10 DEF PackageInv

\* A mutation whose table write raises: memory alone is changed.
LEMMA RaiseStep ==
    ASSUME PackageInv, NEW r \in Requests, MutateRaises(r)
    PROVE  PackageInv'
<1>1. /\ stage[r] = "checked" /\ holder = Nobody
      /\ item' = [item EXCEPT ![calling[r].pkg] = Mutated(calling[r])]
      /\ approvedOnce' = IF Declares(calling[r]) THEN approvedOnce \union {calling[r].pkg}
                                              ELSE approvedOnce
      /\ stage' = [stage EXCEPT ![r] = "idle"] /\ calling' = [calling EXCEPT ![r] = NotCalling]
      /\ faults' = faults + 1
      /\ UNCHANGED <<saved, row, policy, fingerprint, holder, off, syncBroke, calls>>
  BY DEF MutateRaises, Fault, stores
<1>2. /\ item' \in [Packages -> Item]
      /\ approvedOnce \subseteq approvedOnce' /\ approvedOnce' \subseteq Packages
      /\ DeclaredIn(item)' /\ DeclaredIn(saved)'
      /\ KnownPresent'
  BY <1>1, MemoryStep
<1>3. PackageTypeOK'
  BY <1>1, <1>2 DEF PackageInv, PackageTypeOK
<1>4. CallsKept'
  BY <1>1, <1>2, OtherCallsKept DEF PackageInv, PackageTypeOK
<1>5. SyncHoldsLock'
  BY <1>1 DEF PackageInv, PackageTypeOK, SyncHoldsLock
<1>6. ~\E u \in Requests : stage[u] = "sync"
  BY <1>1, NobodyAssumption DEF PackageInv, SyncHoldsLock
<1>7. RowsKnown'
  BY <1>1, <1>6 DEF PackageInv, RowsKnown
<1>8. EnabledWasApproved' /\ SwitchedOffStaysOff'
  BY <1>1, <1>2 DEF PackageInv, EnabledWasApproved, SwitchedOffStaysOff
<1>. QED
  BY <1>2, <1>3, <1>4, <1>5, <1>7, <1>8 DEF PackageInv

\* What every sync, whole, cut short or after a restart, does to the tables.
LEMMA SyncKeeps ==
    ASSUME PackageInv, NEW it \in [Packages -> Item], NEW due,
           DeclaredIn(it), approvedOnce' = approvedOnce, off' = off,
           row' = [p \in Packages |-> IF p \in due THEN it[p].status ELSE row[p]],
           policy' = upsert_from_package(it, due)
    PROVE  /\ row' \in [Packages -> Statuses]
           /\ policy' \in [Packages -> PolicyStatuses]
           /\ EnabledWasApproved' /\ SwitchedOffStaysOff'
<1>1. row' \in [Packages -> Statuses]
  BY DEF Item, PackageInv, PackageTypeOK
<1>2. \A p \in Packages : it[p].status = "approved" => p \in approvedOnce'
  BY DEF DeclaredIn
<1>3. /\ policy' \in [Packages -> PolicyStatuses]
      /\ \A p \in Packages : policy[p] # "none" => policy'[p] = policy[p]
      /\ \A p \in Packages : policy'[p] = "enabled" =>
              policy[p] = "enabled" \/ p \in approvedOnce'
  BY <1>2, UpsertFacts
<1>. QED
  BY <1>1, <1>3 DEF PackageInv, PackageTypeOK, EnabledWasApproved, SwitchedOffStaysOff

\* The sync of a request, whole or cut short.
LEMMA SyncStep ==
    ASSUME PackageInv, NEW r \in Requests,
           SyncAll(r) \/ \E p \in Packages, done \in SUBSET Packages : SyncBreaks(r, p, done)
    PROVE  PackageInv'
<1>1. PICK due : Sync({p \in due : Changed(p)}) /\ due \subseteq Present
  BY DEF SyncAll, SyncBreaks
<1>2. PICK noted :
        /\ noted \subseteq Present
        /\ fingerprint' = [p \in Packages |-> IF p \in noted THEN item[p] ELSE fingerprint[p]]
  BY DEF SyncAll, SyncBreaks
<1>3. /\ stage[r] = "sync" /\ stage' = [stage EXCEPT ![r] = "persist"]
      /\ UNCHANGED <<item, saved, calling, holder, approvedOnce, off, calls>>
      /\ syncBroke' \in BOOLEAN /\ faults' \in Nat
  <2>1. faults \in Nat /\ syncBroke \in BOOLEAN
    BY DEF PackageInv, PackageTypeOK
  <2>2. CASE SyncAll(r)
    BY <2>1, <2>2 DEF SyncAll, histories
  <2>3. CASE \E p \in Packages, done \in SUBSET Packages : SyncBreaks(r, p, done)
    BY <2>1, <2>3 DEF SyncBreaks, Fault
  <2>. QED  BY <2>2, <2>3
<1>4. /\ row' \in [Packages -> Statuses]
      /\ policy' \in [Packages -> PolicyStatuses]
      /\ EnabledWasApproved' /\ SwitchedOffStaysOff'
  BY <1>1, <1>3, SyncKeeps DEF Sync, PackageInv, PackageTypeOK
<1>5. PackageTypeOK'
  BY <1>2, <1>3, <1>4 DEF PackageInv, PackageTypeOK
<1>6. CallsKept'
  BY <1>3, OtherCallsKept DEF PackageInv, PackageTypeOK
<1>7. DeclaredIn(item)' /\ DeclaredIn(saved)'
  BY <1>3 DEF PackageInv, DeclaredIn
<1>8. KnownPresent'
  BY <1>2, <1>3 DEF PackageInv, PackageTypeOK, KnownPresent, Present
<1>9. SyncHoldsLock'
  BY <1>3 DEF PackageInv, PackageTypeOK, SyncHoldsLock
<1>10. RowsKnown'
  <2>1. CASE SyncAll(r)
    <3> SUFFICES ASSUME ~syncBroke, NEW p \in Packages, fingerprint'[p].status # "absent"
                 PROVE  row'[p] = fingerprint'[p].status
      BY <2>1 DEF RowsKnown, SyncAll, histories
    <3>1. p \in Present
      BY <2>1 DEF SyncAll, PackageInv, KnownPresent, Present
    <3>2. fingerprint'[p] = item[p]
      BY <2>1, <3>1 DEF SyncAll
    <3>3. CASE Changed(p)
      BY <2>1, <3>1, <3>2, <3>3 DEF SyncAll, Sync
    <3>4. CASE ~Changed(p)
      <4>1. row'[p] = row[p] /\ fingerprint[p] = item[p]
        BY <2>1, <3>4 DEF SyncAll, Sync, Changed
      <4>. QED  BY <3>1, <3>2, <4>1 DEF PackageInv, RowsKnown, Present
    <3>. QED  BY <3>3, <3>4
  <2>2. CASE \E p \in Packages, done \in SUBSET Packages : SyncBreaks(r, p, done)
    BY <2>2 DEF SyncBreaks, RowsKnown
  <2>. QED  BY <2>1, <2>2
<1>. QED
  BY <1>4, <1>5, <1>6, <1>7, <1>8, <1>9, <1>10 DEF PackageInv

\* The save of the snapshot ends the bracket, whether it succeeds or raises.
LEMMA PersistStep ==
    ASSUME PackageInv, NEW r \in Requests, Persist(r)
    PROVE  PackageInv'
<1>1. /\ stage[r] = "persist" /\ holder' = Nobody
      /\ saved' = item \/ saved' = saved
      /\ faults' \in Nat
      /\ stage' = [stage EXCEPT ![r] = "idle"] /\ calling' = [calling EXCEPT ![r] = NotCalling]
      /\ UNCHANGED <<item, row, policy, fingerprint, approvedOnce, off, syncBroke, calls>>
  BY DEF Persist, Fault, histories, PackageInv, PackageTypeOK
<1>2. PackageTypeOK'
  BY <1>1 DEF PackageInv, PackageTypeOK
<1>3. CallsKept'
  BY <1>1, OtherCallsKept DEF PackageInv, PackageTypeOK
<1>4. DeclaredIn(item)' /\ DeclaredIn(saved)'
  BY <1>1 DEF PackageInv, DeclaredIn
<1>5. \A u \in Requests : stage[u] \in {"sync", "persist"} => u = r
  BY <1>1 DEF PackageInv, SyncHoldsLock
<1>6. SyncHoldsLock'
  BY <1>1, <1>5 DEF PackageInv, PackageTypeOK, SyncHoldsLock
<1>7. RowsKnown'
  BY <1>1, <1>5 DEF PackageInv, PackageTypeOK, RowsKnown
<1>8. KnownPresent' /\ EnabledWasApproved' /\ SwitchedOffStaysOff'
  BY <1>1 DEF PackageInv, KnownPresent, EnabledWasApproved, SwitchedOffStaysOff
<1>. QED
  BY <1>2, <1>3, <1>4, <1>6, <1>7, <1>8 DEF PackageInv

\* A new process loads what was saved and syncs all of it.
LEMMA RestartStep ==
    ASSUME PackageInv, Restart
    PROVE  PackageInv'
<1> DEFINE due == {p \in Packages : saved[p].status # "absent"}
<1>1. /\ item' = saved /\ faults' = faults + 1
      /\ fingerprint' = [p \in Packages |-> IF p \in due THEN saved[p] ELSE Absent]
      /\ row' = [p \in Packages |-> IF p \in due THEN saved[p].status ELSE row[p]]
      /\ policy' = upsert_from_package(saved, due)
      /\ calling' = [r \in Requests |-> NotCalling] /\ stage' = [r \in Requests |-> "idle"]
      /\ holder' = Nobody /\ syncBroke' = FALSE
      /\ UNCHANGED <<saved, approvedOnce, off, calls>>
  BY DEF Restart, Fault
<1>2. /\ row' \in [Packages -> Statuses]
      /\ policy' \in [Packages -> PolicyStatuses]
      /\ EnabledWasApproved' /\ SwitchedOffStaysOff'
  BY <1>1, SyncKeeps DEF PackageInv, PackageTypeOK
<1>3. Absent \in Item /\ Absent.status = "absent"
  BY DEF Absent, Item, Statuses, VersionStatuses, Versions, TrustLevels
<1>4. PackageTypeOK'
  <2>1. fingerprint' \in [Packages -> Item]
    BY <1>1, <1>3 DEF PackageInv, PackageTypeOK
  <2>2. faults' \in Nat /\ calls' \in Nat
    BY <1>1 DEF PackageInv, PackageTypeOK
  <2>3. syncBroke' \in BOOLEAN
    BY <1>1
  <2>4. stage' \in [Requests -> {"idle", "checked", "sync", "persist"}] /\ DOMAIN calling' = Requests
    BY <1>1
  <2>5. /\ item' \in [Packages -> Item] /\ saved' \in [Packages -> Item]
        /\ approvedOnce' \subseteq Packages /\ off' \subseteq Packages
    BY <1>1 DEF PackageInv, PackageTypeOK
  <2>. QED  BY <1>2, <2>1, <2>2, <2>3, <2>4, <2>5 DEF PackageTypeOK
<1>5. DeclaredIn(item)' /\ DeclaredIn(saved)'
  BY <1>1 DEF PackageInv, DeclaredIn
<1>6. KnownPresent' /\ RowsKnown'
  BY <1>1, <1>3 DEF KnownPresent, RowsKnown
<1>7. CallsKept' /\ SyncHoldsLock'
  BY <1>1 DEF CallsKept, SyncHoldsLock
<1>. QED
  BY <1>2, <1>4, <1>5, <1>6, <1>7 DEF PackageInv

\* Every step of every request, and a restart, keeps the invariant.
LEMMA PackageStep == PackageInv /\ [Next]_vars => PackageInv'
<1> SUFFICES ASSUME PackageInv, [Next]_vars PROVE PackageInv'
  OBVIOUS
<1>1. CASE UNCHANGED vars
  <2>1. CallsKept'
    BY <1>1, OtherCallsKept DEF vars
  <2>. QED
    BY <1>1, <2>1 DEF vars, PackageInv, PackageTypeOK, DeclaredIn, KnownPresent, SyncHoldsLock,
                      RowsKnown, EnabledWasApproved, SwitchedOffStaysOff
<1>2. ASSUME NEW r \in Requests, InWrite(r) PROVE PackageInv'
  BY <1>2, MutateStep, RaiseStep, SyncStep, PersistStep DEF InWrite
<1>. QED
  BY <1>1, <1>2, CallStep, RestartStep DEF Next

\* The tables follow the decisions, for any packages and any number of requests,
\* whatever checks are stale when written, wherever a sync is cut short and
\* whenever the process dies (capability_admin.py, sync_reference_tables).
THEOREM DecisionsReachTables == Spec => []TablesFollowDecisions
<1>1. PackageInv => TablesFollowDecisions
  <2> SUFFICES ASSUME PackageInv PROVE SkippedIsWritten
    BY DEF PackageInv, TablesFollowDecisions
  <2>. QED  BY DEF PackageInv, SkippedIsWritten, RowsKnown, Present
<1>. QED  BY <1>1, PackageInitInv, PackageStep, PTL DEF Spec
-----------------------------------------------------------------------------
(* ActorIdentity.                                                          *)

Actor == [status : ActorStatuses, roles : SUBSET Roles, legacy : Users \union {NoUser},
          thin : BOOLEAN]

Bindings == [Posts -> {"none", "active", "disabled"}]

\* The values the tables and the three processes take.
RowsTypeOK ==
    /\ actors \in [ActorKeys -> Actor]
    /\ grants \in [ActorKeys -> Bindings]
    /\ userMaps \in [Users -> SUBSET ActorKeys]
    /\ revoked \in [ActorKeys -> SUBSET Roles]

ProcessesTypeOK ==
    /\ assigning # Idle => assigning \in [key : ActorKeys, post : Posts]
    /\ importer # Idle => importer \in [row : ActorRows, step : {"actor", "bindings", "mapping"}]
    /\ repairing # Idle => repairing \in [sub : Subs, ref : ActorKeys, roles : SUBSET Roles,
                                          step : {"delete", "claim"}]
    /\ identitySpent \in [edits : Nat, imports : Nat, crashes : Nat]

\* A role revoked of a key is in no active binding of it and not in its role
\* codes; and nothing is remembered as revoked of a key without a row.
RevokedGone ==
    \A k \in ActorKeys :
        /\ ~Exists(k) => revoked[k] = {}
        /\ revoked[k] \intersect actors[k].roles = {}
        /\ revoked[k] \intersect RolesIn(ActivePosts(k)) = {}

IdentityInv == RowsTypeOK /\ ProcessesTypeOK /\ RevokedGone

\* A legacy row that goes leaves no active binding and no mapping.
LeavesNothing ==
    \A k \in ActorKeys \ Subs :
        Exists(k) /\ ~Exists(k)' =>
            /\ ActivePosts(k)' = {}
            /\ \A u \in Users : k \notin userMaps'[u]

\* What each step has to show.
RowsGoal == RowsTypeOK' /\ RevokedGone' /\ LeavesNothing

\* The roles of posts are roles.
LEMMA RolesOfPosts ==
    /\ \A posts \in SUBSET Posts : RolesIn(posts) \subseteq Roles
    /\ \A bindings, k : Held(bindings, k) \subseteq Posts
  BY DEF RolesIn, Posts, Held

\* The initial tables are empty.
LEMMA IdentityInitInv == IdentityInit => IdentityInv
<1> SUFFICES ASSUME IdentityInit PROVE IdentityInv
  OBVIOUS
<1>1. FALSE \in BOOLEAN
  OBVIOUS
<1>2. NoActor \in Actor
  BY <1>1 DEF NoActor, Actor, ActorStatuses
<1>3. RowsTypeOK
  BY <1>2 DEF IdentityInit, RowsTypeOK, Bindings
<1>4. ProcessesTypeOK
  BY DEF IdentityInit, ProcessesTypeOK
<1>5. RevokedGone
  BY DEF IdentityInit, RevokedGone, Exists
<1>. QED  BY <1>3, <1>4, <1>5 DEF IdentityInv

\* A step that leaves the rows alone.
LEMMA RowsUnchanged ==
    ASSUME IdentityInv, UNCHANGED rowVars
    PROVE  RowsGoal
  BY DEF IdentityInv, rowVars, RowsGoal, RowsTypeOK, RevokedGone, LeavesNothing, Exists,
         ActivePosts, Held, RolesIn

\* Writing one actor row that stays, and nothing else but what was revoked of it.
LEMMA WriteActor ==
    ASSUME IdentityInv, NEW k \in ActorKeys, NEW new \in Actor, new.status # "none",
           NEW less \in SUBSET Roles, less \subseteq revoked[k],
           less \intersect new.roles = {},
           actors' = [actors EXCEPT ![k] = new],
           revoked' = [revoked EXCEPT ![k] = less],
           UNCHANGED <<grants, userMaps>>
    PROVE  RowsGoal
<1>1. RowsTypeOK'
  BY DEF IdentityInv, RowsTypeOK
<1>2. RevokedGone'
  BY DEF IdentityInv, RowsTypeOK, RevokedGone, Exists, ActivePosts, Held, RolesIn
<1>3. LeavesNothing
  BY DEF IdentityInv, RowsTypeOK, LeavesNothing, Exists
<1>. QED  BY <1>1, <1>2, <1>3 DEF RowsGoal

\* Re-keying a row moves row, bindings, mappings and what was revoked together.
LEMMA RekeyKeeps ==
    ASSUME IdentityInv, NEW s \in Subs, NEW k \in ActorKeys, Exists(k), ~Exists(s), Rekey(k, s)
    PROVE  RowsGoal
<1>0. k # s /\ s \in ActorKeys /\ actors[k] \in Actor
  BY DEF IdentityInv, RowsTypeOK, ActorKeys
<1>1. Applied(actors[k]) \in Actor /\ Applied(actors[k]).status = "active"
      /\ Applied(actors[k]).roles = actors[k].roles
  BY <1>0 DEF Applied, Actor, ActorStatuses
<1>2. NoActor \in Actor /\ NoActor.status = "none" /\ NoActor.roles = {}
  <2>1. FALSE \in BOOLEAN
    OBVIOUS
  <2>. QED  BY <2>1 DEF NoActor, Actor, ActorStatuses
<1>3. /\ actors' \in [ActorKeys -> Actor]
      /\ actors'[s] = Applied(actors[k]) /\ actors'[k] = NoActor
      /\ \A j \in ActorKeys \ {k, s} : actors'[j] = actors[j]
  BY <1>0, <1>1, <1>2 DEF Rekey, IdentityInv, RowsTypeOK
<1>4. /\ grants' \in [ActorKeys -> Bindings]
      /\ \A p \in Posts : grants'[k][p] # "active"
      /\ \A j \in ActorKeys \ {k, s} : grants'[j] = grants[j]
  <2>1. grants' = RekeyedGrants(k, s)
    BY DEF Rekey
  <2>2. grants[k] \in Bindings /\ grants[s] \in Bindings
    BY <1>0 DEF IdentityInv, RowsTypeOK
  <2> DEFINE gk == [p \in Posts |->
                      IF grants[k][p] # "none" /\ grants[s][p] # "none" THEN "disabled" ELSE "none"]
             gs == [p \in Posts |-> IF grants[s][p] = "none" THEN grants[k][p] ELSE grants[s][p]]
  <2>3. gk \in Bindings /\ gs \in Bindings /\ \A p \in Posts : gk[p] # "active"
    BY <2>2 DEF Bindings
  <2>4. grants' = [grants EXCEPT ![k] = gk, ![s] = gs]
    BY <1>0, <2>1 DEF RekeyedGrants, IdentityInv, RowsTypeOK
  <2> HIDE DEF gk, gs
  <2>. QED  BY <1>0, <2>3, <2>4 DEF IdentityInv, RowsTypeOK
<1>5. userMaps' \in [Users -> SUBSET ActorKeys] /\ \A u \in Users : k \notin userMaps'[u]
  BY <1>0 DEF Rekey, RekeyedMaps, IdentityInv, RowsTypeOK
<1>6. /\ revoked' \in [ActorKeys -> SUBSET Roles]
      /\ revoked'[k] = {} /\ revoked'[s] = revoked[k] \ RolesIn(Held(grants', s))
      /\ \A j \in ActorKeys \ {k, s} : revoked'[j] = revoked[j]
  BY <1>0 DEF Rekey, IdentityInv, RowsTypeOK, RevokedGone
<1>7. RowsTypeOK'
  BY <1>3, <1>4, <1>5, <1>6 DEF RowsTypeOK
<1>8. RevokedGone'
  <2> SUFFICES ASSUME NEW j \in ActorKeys
               PROVE  /\ ~Exists(j)' => revoked'[j] = {}
                      /\ revoked'[j] \intersect actors'[j].roles = {}
                      /\ revoked'[j] \intersect RolesIn(Held(grants', j)) = {}
    BY DEF RevokedGone, ActivePosts
  <2>1. CASE j = k
    BY <1>6, <2>1
  <2>2. CASE j = s
    BY <1>0, <1>1, <1>3, <1>6, <2>2 DEF IdentityInv, RevokedGone, Exists
  <2>3. CASE j \notin {k, s}
    BY <1>3, <1>4, <1>6, <2>3 DEF IdentityInv, RevokedGone, Exists, ActivePosts, Held
  <2>. QED  BY <2>1, <2>2, <2>3
<1>9. LeavesNothing
  BY <1>3, <1>4, <1>5 DEF LeavesNothing, Exists, ActivePosts, Held
<1>. QED  BY <1>7, <1>8, <1>9 DEF RowsGoal

\* A claim updates the row of the sub, re-keys the legacy row or makes a new one.
LEMMA ClaimKeeps ==
    ASSUME IdentityInv, NEW s \in Subs, NEW known \in SUBSET ActorKeys,
           NEW roles \in SUBSET Roles, NEW legacy \in Users \union {NoUser},
           NEW thin \in BOOLEAN, Claim(s, known, roles, legacy, thin)
    PROVE  RowsGoal
<1>0. s \in ActorKeys /\ actors[s] \in Actor /\ revoked[s] \in SUBSET Roles
      /\ revoked = [revoked EXCEPT ![s] = revoked[s]]
  BY DEF IdentityInv, RowsTypeOK, ActorKeys
<1>1. CASE /\ Exists(s)
           /\ actors' = [actors EXCEPT ![s] = Linked(Applied(@), legacy)]
           /\ UNCHANGED <<grants, userMaps, revoked>>
  <2>1. PICK new \in Actor : /\ actors' = [actors EXCEPT ![s] = new]
                             /\ new.status = "active" /\ new.roles = actors[s].roles
    <3> DEFINE n == Linked(Applied(actors[s]), legacy)
    <3>1. n \in Actor /\ n.status = "active" /\ n.roles = actors[s].roles
      BY <1>0 DEF Applied, Linked, Actor, ActorStatuses
    <3>2. actors' = [actors EXCEPT ![s] = n]
      BY <1>1
    <3>. QED  BY <3>1, <3>2
  <2>2. revoked[s] \intersect new.roles = {}
    BY <1>0, <2>1 DEF IdentityInv, RevokedGone
  <2>. QED  BY <1>0, <1>1, <2>1, <2>2, WriteActor
<1>2. CASE ~Exists(s) /\ \E k \in known : actors[k].status \in CLAIMABLE_STATUSES /\ Rekey(k, s)
  BY <1>2, RekeyKeeps DEF Exists, CLAIMABLE_STATUSES
<1>3. CASE /\ ~Exists(s)
           /\ actors' = [actors EXCEPT ![s] = Fresh(roles, legacy, thin)]
           /\ UNCHANGED <<grants, userMaps, revoked>>
  <2>1. Fresh(roles, legacy, thin) \in Actor /\ Fresh(roles, legacy, thin).status = "active"
    BY DEF Fresh, Actor, ActorStatuses
  <2>2. revoked[s] = {}
    BY <1>0, <1>3 DEF IdentityInv, RevokedGone
  <2>. QED  BY ZenonT(60), <1>0, <1>3, <2>1, <2>2, WriteActor
<1>. QED  BY <1>1, <1>2, <1>3 DEF Claim
-----------------------------------------------------------------------------
\* A login: the rows it looks at are rows.
LEMMA LoginStep ==
    ASSUME IdentityInv, NEW s \in Subs, SignIn(s)
    PROVE  RowsGoal
<1>1. PICK roles \in SUBSET Roles : Claim(s, MatchLegacy(s), roles, NoUser, TRUE)
  BY DEF SignIn, sync_actor_projection
<1>2. MatchLegacy(s) \in SUBSET ActorKeys
  BY DEF MatchLegacy, ClaimableMatches, AuxMatches
<1>3. TRUE \in BOOLEAN
  OBVIOUS
<1>. QED  BY <1>1, <1>2, <1>3, ClaimKeeps

\* Changing one binding, with the mirror taken after it.
LEMMA BindKeeps ==
    ASSUME IdentityInv, NEW k \in ActorKeys, NEW p \in Posts,
           NEW status \in {"active", "disabled"},
           grants' = [grants EXCEPT ![k][p] = status],
           actors' = Mirrored(k, grants'),
           revoked' \in [ActorKeys -> SUBSET Roles],
           \A j \in ActorKeys \ {k} : revoked'[j] = revoked[j],
           Exists(k) => revoked'[k] \intersect RolesIn(Held(grants', k)) = {},
           ~Exists(k) => revoked'[k] = {},
           UNCHANGED userMaps
    PROVE  RowsGoal
<1>1. /\ grants' \in [ActorKeys -> Bindings]
      /\ \A j \in ActorKeys \ {k} : grants'[j] = grants[j]
  BY DEF IdentityInv, RowsTypeOK, Bindings
<1>2. RolesIn(Held(grants', k)) \in SUBSET Roles
  BY RolesOfPosts
<1>3. /\ actors' \in [ActorKeys -> Actor]
      /\ \A j \in ActorKeys : actors'[j].status = actors[j].status
      /\ \A j \in ActorKeys \ {k} : actors'[j] = actors[j]
      /\ Exists(k) => actors'[k].roles = RolesIn(Held(grants', k))
  <2>1. CASE Exists(k)
    <3>1. actors' = [actors EXCEPT ![k].roles = RolesIn(Held(grants', k))]
      BY <2>1 DEF Mirrored
    <3> DEFINE new == [actors[k] EXCEPT !.roles = RolesIn(Held(grants', k))]
    <3>2. actors' = [actors EXCEPT ![k] = new]
      BY <3>1 DEF IdentityInv, RowsTypeOK
    <3>3. /\ new \in Actor /\ new.status = actors[k].status
          /\ new.roles = RolesIn(Held(grants', k))
      BY <1>2 DEF IdentityInv, RowsTypeOK, Actor
    <3> HIDE DEF new
    <3>. QED  BY <3>2, <3>3 DEF IdentityInv, RowsTypeOK
  <2>2. CASE ~Exists(k)
    BY <2>2 DEF Mirrored, IdentityInv, RowsTypeOK
  <2>. QED  BY <2>1, <2>2
<1>4. RowsTypeOK'
  BY <1>1, <1>3 DEF IdentityInv, RowsTypeOK
<1>5. RevokedGone'
  <2> SUFFICES ASSUME NEW j \in ActorKeys
               PROVE  /\ ~Exists(j)' => revoked'[j] = {}
                      /\ revoked'[j] \intersect actors'[j].roles = {}
                      /\ revoked'[j] \intersect RolesIn(Held(grants', j)) = {}
    BY DEF RevokedGone, ActivePosts
  <2>1. CASE j = k
    BY <1>3, <2>1 DEF Exists
  <2>2. CASE j # k
    BY <1>1, <1>3, <2>2 DEF IdentityInv, RevokedGone, Exists, ActivePosts, Held
  <2>. QED  BY <2>1, <2>2
<1>6. LeavesNothing
  BY <1>3 DEF LeavesNothing, Exists
<1>. QED  BY <1>4, <1>5, <1>6 DEF RowsGoal

\* Assigning a role, however long after its check.
LEMMA AssignStep ==
    ASSUME IdentityInv, assign_actor_role
    PROVE  RowsGoal
<1>1. assigning.key \in ActorKeys /\ assigning.post \in Posts
  BY DEF assign_actor_role, IdentityInv, ProcessesTypeOK
<1> DEFINE k == assigning.key
           p == assigning.post
<1>2. /\ grants' = [grants EXCEPT ![k][p] = "active"]
      /\ actors' = Mirrored(k, grants')
      /\ revoked' = [revoked EXCEPT ![k] = @ \ {p[2]}]
      /\ UNCHANGED userMaps
  BY DEF assign_actor_role
<1>3. Held(grants', k) = Held(grants, k) \union {p}
  BY <1>1, <1>2 DEF Held, IdentityInv, RowsTypeOK, Bindings
<1>4. RolesIn(Held(grants', k)) = RolesIn(Held(grants, k)) \union {p[2]}
  BY <1>3 DEF RolesIn
<1>5. revoked[k] \intersect RolesIn(Held(grants, k)) = {} /\ (~Exists(k) => revoked[k] = {})
  BY <1>1 DEF IdentityInv, RevokedGone, ActivePosts
<1>6. /\ revoked' \in [ActorKeys -> SUBSET Roles]
      /\ \A j \in ActorKeys \ {k} : revoked'[j] = revoked[j]
      /\ revoked'[k] = revoked[k] \ {p[2]}
  BY <1>1, <1>2 DEF IdentityInv, RowsTypeOK
<1> HIDE DEF k, p
<1>7. revoked'[k] \intersect RolesIn(Held(grants', k)) = {} /\ (~Exists(k) => revoked'[k] = {})
  BY <1>4, <1>5, <1>6
<1>8. k \in ActorKeys /\ p \in Posts
  BY <1>1 DEF k, p
<1>. QED  BY <1>2, <1>6, <1>7, <1>8, BindKeeps

\* Revoking a role.
LEMMA RevokeStep ==
    ASSUME IdentityInv, NEW k \in ActorKeys, NEW p \in Posts, _revoke_actor_role(k, p)
    PROVE  RowsGoal
<1>1. /\ grants' = [grants EXCEPT ![k][p] = "disabled"]
      /\ actors' = Mirrored(k, grants')
      /\ revoked' = IF Exists(k) THEN [revoked EXCEPT ![k] =
                                         (@ \union {p[2]}) \ RolesIn(Held(grants', k))]
                                 ELSE revoked
      /\ UNCHANGED userMaps
  BY DEF _revoke_actor_role, revoke_actor_role
<1>2. p[2] \in Roles
  BY DEF Posts
<1>3. /\ revoked' \in [ActorKeys -> SUBSET Roles]
      /\ \A j \in ActorKeys \ {k} : revoked'[j] = revoked[j]
      /\ Exists(k) => revoked'[k] \intersect RolesIn(Held(grants', k)) = {}
      /\ ~Exists(k) => revoked'[k] = {}
  BY <1>1, <1>2 DEF IdentityInv, RowsTypeOK, RevokedGone
<1>. QED  BY <1>1, <1>3, BindKeeps

\* Enabling or disabling an actor.
LEMMA StatusStep ==
    ASSUME IdentityInv, NEW k \in ActorKeys, NEW status \in {"active", "disabled"},
           _set_actor_status(k, status)
    PROVE  RowsGoal
<1> DEFINE new == [actors[k] EXCEPT !.status = status]
<1>1. actors' = [actors EXCEPT ![k] = new] /\ UNCHANGED <<grants, userMaps, revoked>>
  BY DEF _set_actor_status, set_actor_status, IdentityInv, RowsTypeOK
<1>2. new \in Actor /\ new.status # "none" /\ new.roles = actors[k].roles
  BY DEF IdentityInv, RowsTypeOK, Actor, ActorStatuses
<1>3. /\ revoked[k] \in SUBSET Roles /\ revoked[k] \intersect new.roles = {}
      /\ revoked' = [revoked EXCEPT ![k] = revoked[k]]
  BY <1>1, <1>2 DEF IdentityInv, RowsTypeOK, RevokedGone
<1> HIDE DEF new
<1>. QED  BY <1>1, <1>2, <1>3, WriteActor

\* What the importer makes of a legacy row.
LEMMA RowFacts ==
    ASSUME NEW rec \in ActorRows
    PROVE  /\ RowKey(rec) \in ActorKeys /\ rec.user \in Users /\ rec.user \in ActorKeys
           /\ RowStatus(rec) \in ActorStatuses \ {"none"}
           /\ RowRoles(rec) \in SUBSET Roles /\ RolesIn(rec.posts) \in SUBSET Roles
           /\ rec.posts \subseteq Posts
           /\ Claims(rec) => rec.sub \in Subs
<1>1. /\ rec.table \in {"pub_user", "sys_user", "pub_user_plain"}
      /\ rec.user \in Users /\ rec.sub \in Subs \union {NoSub}
      /\ rec.posts \subseteq Posts
  BY ActorRowsAssumption DEF Posts
<1>2. RowKey(rec) \in ActorKeys /\ rec.user \in ActorKeys
  BY <1>1 DEF RowKey, KeyOf, ActorKeys
<1>3. /\ PubStatus(rec) \in ActorStatuses \ {"none"}
      /\ PubStatus(rec) = "active" => rec.sub # NoSub
  BY DEF PubStatus, ActorStatuses, CLAIMABLE_STATUSES
<1>4. SysStatus(rec) \in ActorStatuses \ {"none"} /\ PlainStatus(rec) \in ActorStatuses \ {"none"}
  BY DEF SysStatus, PlainStatus, ActorStatuses, CLAIMABLE_STATUSES
<1>5. RowStatus(rec) \in ActorStatuses \ {"none"}
  BY <1>1, <1>3, <1>4 DEF RowStatus
<1>6. Claims(rec) => rec.sub \in Subs
  BY <1>1, <1>3 DEF Claims, RowStatus
<1>7. RolesIn(rec.posts) \in SUBSET Roles
  BY <1>1, RolesOfPosts
<1>8. RowRoles(rec) \in SUBSET Roles
  BY <1>7 DEF RowRoles
<1>. QED  BY <1>1, <1>2, <1>5, <1>6, <1>7, <1>8

\* The actor step of the importer.
LEMMA ImportActorStep ==
    ASSUME IdentityInv, ImportActor
    PROVE  RowsGoal
<1> DEFINE rec == importer.row
           known == {k \in {rec.user} : Exists(k)}
<1>1. rec \in ActorRows
  BY DEF ImportActor, IdentityInv, ProcessesTypeOK
<1>2. /\ RowKey(rec) \in ActorKeys /\ rec.user \in Users /\ known \in SUBSET ActorKeys
      /\ RowStatus(rec) \in ActorStatuses \ {"none"}
      /\ RowRoles(rec) \in SUBSET Roles /\ RolesIn(rec.posts) \in SUBSET Roles
      /\ Claims(rec) => rec.sub \in Subs
  BY <1>1, RowFacts
<1>3. FALSE \in BOOLEAN
  OBVIOUS
<1>4. CASE upsert_actor(rec)
  <2> DEFINE new == [status |-> RowStatus(rec), roles |-> RowRoles(rec), legacy |-> rec.user,
                     thin |-> FALSE]
             less == revoked[RowKey(rec)] \ RowRoles(rec)
  <2>1. /\ actors' = [actors EXCEPT ![RowKey(rec)] = new]
        /\ revoked' = [revoked EXCEPT ![RowKey(rec)] = less]
        /\ UNCHANGED <<grants, userMaps>>
    BY <1>4 DEF upsert_actor
  <2>2. new \in Actor /\ new.status # "none" /\ new.roles = RowRoles(rec)
    BY <1>2, <1>3 DEF Actor
  <2>3. less \in SUBSET Roles /\ less \subseteq revoked[RowKey(rec)]
        /\ less \intersect RowRoles(rec) = {}
    BY <1>2 DEF IdentityInv, RowsTypeOK
  <2> HIDE DEF new, less, rec
  <2>. QED  BY <1>2, <2>1, <2>2, <2>3, WriteActor
<1>5. CASE Claims(rec) /\ Claim(rec.sub, known, RolesIn(rec.posts), rec.user, FALSE)
  <2> HIDE DEF rec, known
  <2>. QED  BY <1>2, <1>3, <1>5, ClaimKeeps
<1>6. CASE UNCHANGED rowVars
  BY <1>6, RowsUnchanged
<1>. QED  BY <1>4, <1>5, <1>6 DEF ImportActor

\* The binding step of the importer: it disables what the legacy row does not have,
\* and what it has counts as granted again.
LEMMA ImportBindingsStep ==
    ASSUME IdentityInv, ImportBindings
    PROVE  RowsGoal
<1> DEFINE rec == importer.row
           k == RowKey(rec)
           wanted == IF RowStatus(rec) = "active" THEN rec.posts ELSE {}
           new == [p \in Posts |->
                     IF p \in wanted THEN "active"
                     ELSE IF grants[k][p] = "none" THEN "none" ELSE "disabled"]
<1>1. rec \in ActorRows
  BY DEF ImportBindings, IdentityInv, ProcessesTypeOK
<1>2. k \in ActorKeys /\ wanted \subseteq Posts
  BY <1>1, RowFacts
<1>3. /\ grants' = [grants EXCEPT ![k] = new]
      /\ revoked' = [revoked EXCEPT ![k] = @ \ RolesIn(wanted)]
      /\ UNCHANGED <<actors, userMaps>>
  BY DEF ImportBindings
<1>4. new \in Bindings /\ {p \in Posts : new[p] = "active"} = wanted
  BY <1>2 DEF Bindings
<1> HIDE DEF rec, k, wanted, new
<1>5. /\ grants' \in [ActorKeys -> Bindings] /\ Held(grants', k) = wanted
      /\ \A j \in ActorKeys \ {k} : grants'[j] = grants[j]
  BY <1>2, <1>3, <1>4 DEF IdentityInv, RowsTypeOK, Held
<1>6. /\ revoked' \in [ActorKeys -> SUBSET Roles]
      /\ revoked'[k] = revoked[k] \ RolesIn(wanted)
      /\ \A j \in ActorKeys \ {k} : revoked'[j] = revoked[j]
  BY <1>2, <1>3 DEF IdentityInv, RowsTypeOK
<1>7. RowsTypeOK'
  BY <1>3, <1>5, <1>6 DEF IdentityInv, RowsTypeOK
<1>8. RevokedGone'
  <2> SUFFICES ASSUME NEW j \in ActorKeys
               PROVE  /\ ~Exists(j)' => revoked'[j] = {}
                      /\ revoked'[j] \intersect actors'[j].roles = {}
                      /\ revoked'[j] \intersect RolesIn(Held(grants', j)) = {}
    BY DEF RevokedGone, ActivePosts
  <2>1. CASE j = k
    BY <1>2, <1>3, <1>5, <1>6, <2>1 DEF IdentityInv, RevokedGone, Exists
  <2>2. CASE j # k
    BY <1>3, <1>5, <1>6, <2>2 DEF IdentityInv, RevokedGone, Exists, ActivePosts, Held
  <2>. QED  BY <2>1, <2>2
<1>9. LeavesNothing
  BY <1>3 DEF LeavesNothing, Exists
<1>. QED  BY <1>7, <1>8, <1>9 DEF RowsGoal

\* The mapping step of the importer.
LEMMA ImportMappingStep ==
    ASSUME IdentityInv, ImportMapping
    PROVE  RowsGoal
<1>1. importer.row \in ActorRows
  BY DEF ImportMapping, IdentityInv, ProcessesTypeOK
<1>2. RowKey(importer.row) \in ActorKeys /\ importer.row.user \in Users
  BY <1>1, RowFacts
<1>3. /\ userMaps' = [userMaps EXCEPT ![importer.row.user] = @ \union {RowKey(importer.row)}]
      /\ UNCHANGED <<actors, grants, revoked>>
  BY DEF ImportMapping
<1>4. RowsTypeOK'
  BY <1>2, <1>3 DEF IdentityInv, RowsTypeOK
<1>. QED
  BY <1>3, <1>4 DEF RowsGoal, IdentityInv, RevokedGone, LeavesNothing, Exists, ActivePosts, Held

\* The repair script deletes thin rows of subs only, and then claims.
LEMMA RepairStep ==
    ASSUME IdentityInv, delete_actor_row \/ RepairClaim
    PROVE  RowsGoal
<1> DEFINE s == repairing.sub
           known == {k \in {repairing.ref} : Exists(k)}
<1>1. /\ s \in Subs /\ s \in ActorKeys /\ known \in SUBSET ActorKeys
      /\ repairing.roles \in SUBSET Roles
  BY DEF delete_actor_row, RepairClaim, IdentityInv, ProcessesTypeOK, ActorKeys
<1>2. CASE UNCHANGED rowVars
  BY <1>2, RowsUnchanged
<1>3. CASE /\ actors' = [actors EXCEPT ![s] = NoActor]
           /\ revoked' = [revoked EXCEPT ![s] = {}]
           /\ UNCHANGED <<grants, userMaps>>
  <2>1. NoActor \in Actor /\ NoActor.status = "none" /\ NoActor.roles = {}
    <3>1. FALSE \in BOOLEAN
      OBVIOUS
    <3>. QED  BY <3>1 DEF NoActor, Actor, ActorStatuses
  <2> HIDE DEF s
  <2>2. RowsTypeOK'
    BY <1>1, <1>3, <2>1 DEF IdentityInv, RowsTypeOK
  <2>3. RevokedGone'
    BY <1>1, <1>3, <2>1 DEF IdentityInv, RowsTypeOK, RevokedGone, Exists, ActivePosts, Held
  <2>4. LeavesNothing
    BY <1>1, <1>3 DEF IdentityInv, RowsTypeOK, LeavesNothing, Exists
  <2>. QED  BY <2>2, <2>3, <2>4 DEF RowsGoal
<1>4. CASE Claim(s, known, repairing.roles, NoUser, TRUE)
  <2>1. TRUE \in BOOLEAN
    OBVIOUS
  <2> HIDE DEF s, known
  <2>. QED  BY <1>1, <1>4, <2>1, ClaimKeeps
<1>. QED  BY <1>2, <1>3, <1>4 DEF delete_actor_row, RepairClaim
\* Every step keeps the rows in order.
LEMMA IdentityRowsStep ==
    ASSUME IdentityInv, [IdentityNext]_identityVars
    PROVE  RowsGoal
<1>1. ASSUME NEW k \in ActorKeys, NEW p \in Posts, CheckAssign(k, p) PROVE RowsGoal
  BY <1>1, RowsUnchanged DEF CheckAssign
<1>2. ASSUME NEW rec \in ActorRows, StartImport(rec) PROVE RowsGoal
  BY <1>2, RowsUnchanged DEF StartImport
<1>3. ASSUME NEW s \in Subs, NEW k \in ActorKeys, PlanRepair(s, k) PROVE RowsGoal
  BY <1>3, RowsUnchanged DEF PlanRepair
<1>4. CASE IdentityProcessDies
  BY <1>4, RowsUnchanged DEF IdentityProcessDies
<1>5. CASE UNCHANGED identityVars
  BY <1>5, RowsUnchanged DEF identityVars, rowVars
<1>. QED
  BY <1>1, <1>2, <1>3, <1>4, <1>5, LoginStep, AssignStep, RevokeStep, StatusStep,
     ImportActorStep, ImportBindingsStep, ImportMappingStep, RepairStep
     DEF IdentityNext

\* Every step keeps the types of the three processes.
LEMMA IdentityProcessesStep ==
    ASSUME IdentityInv, [IdentityNext]_identityVars
    PROVE  ProcessesTypeOK'
<1> USE DEF IdentityInv, ProcessesTypeOK
<1>1. ASSUME NEW k \in ActorKeys, NEW p \in Posts, CheckAssign(k, p)
      PROVE  ProcessesTypeOK'
  BY <1>1 DEF CheckAssign, EditSpent
<1>2. ASSUME NEW k \in ActorKeys, NEW p \in Posts, _revoke_actor_role(k, p)
      PROVE  ProcessesTypeOK'
  BY <1>2 DEF _revoke_actor_role, EditSpent
<1>3. ASSUME NEW s \in Subs, SignIn(s) PROVE ProcessesTypeOK'
  BY <1>3 DEF SignIn, sync_actor_projection
<1>4. CASE assign_actor_role
  BY <1>4 DEF assign_actor_role
<1>5. ASSUME NEW k \in ActorKeys, NEW status, _set_actor_status(k, status)
      PROVE  ProcessesTypeOK'
  BY <1>5 DEF _set_actor_status, EditSpent
<1>6. ASSUME NEW rec \in ActorRows, StartImport(rec) PROVE ProcessesTypeOK'
  BY <1>6 DEF StartImport
<1>7. CASE ImportActor
  <2>1. /\ importer' = Idle \/ importer' = [importer EXCEPT !.step = "bindings"]
        /\ importer # Idle
        /\ UNCHANGED <<assigning, repairing, identitySpent>>
    BY <1>7 DEF ImportActor
  <2>. QED  BY <2>1
<1>8. CASE ImportBindings
  BY <1>8 DEF ImportBindings
<1>9. CASE ImportMapping
  BY <1>9 DEF ImportMapping
<1>10. ASSUME NEW s \in Subs, NEW k \in ActorKeys, PlanRepair(s, k) PROVE ProcessesTypeOK'
  <2>1. actors[s].roles \in SUBSET Roles
    BY DEF RowsTypeOK, Actor, ActorKeys
  <2>. QED  BY <1>10, <2>1 DEF PlanRepair
<1>11. CASE delete_actor_row
  <2>1. /\ repairing' = Idle \/ repairing' = [repairing EXCEPT !.step = "claim"]
        /\ repairing # Idle
        /\ UNCHANGED <<assigning, importer, identitySpent>>
    BY <1>11 DEF delete_actor_row
  <2>. QED  BY <2>1
<1>12. CASE RepairClaim
  BY <1>12 DEF RepairClaim
<1>13. CASE IdentityProcessDies
  BY <1>13 DEF IdentityProcessDies
<1>14. CASE UNCHANGED identityVars
  BY <1>14 DEF identityVars
<1>. QED
  BY <1>1, <1>2, <1>3, <1>4, <1>5, <1>6, <1>7, <1>8, <1>9, <1>10, <1>11, <1>12, <1>13, <1>14
     DEF IdentityNext

\* The invariant of the identity tables, for any users, subs, organisations and
\* roles, any number of edits, imports and deaths.
LEMMA IdentityInvariance == IdentitySpec => []IdentityInv
<1>1. IdentityInv /\ [IdentityNext]_identityVars => IdentityInv'
  BY IdentityRowsStep, IdentityProcessesStep DEF IdentityInv, RowsGoal
<1>. QED  BY <1>1, IdentityInitInv, PTL DEF IdentitySpec

\* A revoked role is not served again before it is assigned or imported again,
\* whichever of the four parties writes in between
\* (domain/repositories/governance_projection.py).
THEOREM RevokedStaysRevoked == IdentitySpec => []RevokedNotServed
<1>1. IdentityInv => RevokedNotServed
  BY DEF IdentityInv, RevokedGone, RevokedNotServed, ServedRoles
<1>. QED  BY <1>1, IdentityInvariance, PTL

\* A claim by a sub spares every disabled row, and makes none when one is known.
LEMMA LoginFacts ==
    ASSUME IdentityInv, NEW s \in Subs, SignIn(s)
    PROVE  /\ \A k \in ActorKeys : actors[k].status = "disabled" => actors'[k] = actors[k]
           /\ (\E k \in ActorKeys : AuxMatches(s) = {k} /\ actors[k].status = "disabled")
                => Exists(s) /\ actors[s].status # "disabled"
<1>1. PICK roles \in SUBSET Roles : Claim(s, MatchLegacy(s), roles, NoUser, TRUE)
  BY DEF SignIn, sync_actor_projection
<1>2. \A k \in ActorKeys : actors[k].status = "disabled" => actors'[k] = actors[k]
  BY <1>1 DEF Claim, Rekey, Exists, CLAIMABLE_STATUSES, IdentityInv, RowsTypeOK
<1>3. ASSUME NEW k \in ActorKeys, AuxMatches(s) = {k}, actors[k].status = "disabled"
      PROVE  Exists(s) /\ actors[s].status # "disabled"
  <2>1. ClaimableMatches(s) = {}
    BY <1>3 DEF ClaimableMatches, CLAIMABLE_STATUSES
  <2>2. Cardinality(AuxMatches(s)) = 1
    BY <1>3, FS_Singleton
  <2>3. MatchLegacy(s) = {k}
    BY <1>3, <2>1, <2>2 DEF MatchLegacy
  <2>. QED
    BY <1>1, <1>3, <2>3 DEF Claim, MayInsert, CLAIMABLE_STATUSES
<1>. QED  BY <1>2, <1>3

\* "A disabled identity must never be re-activated by re-login", and a legacy row
\* that is taken over leaves nothing behind: in every step, for any constants.
THEOREM TakeOversAreWhole == IdentitySpec => RowsTakenOverWhole
<1>1. ASSUME IdentityInv, [IdentityNext]_identityVars
      PROVE  /\ \A s \in Subs : SignIn(s) =>
                  /\ \A k \in ActorKeys : actors[k].status = "disabled" => actors'[k] = actors[k]
                  /\ (\E k \in ActorKeys : AuxMatches(s) = {k} /\ actors[k].status = "disabled")
                      => Exists(s) /\ actors[s].status # "disabled"
             /\ LeavesNothing
  BY <1>1, LoginFacts, IdentityRowsStep DEF RowsGoal
<1>. QED
  BY <1>1, IdentityInvariance, PTL
     DEF IdentitySpec, RowsTakenOverWhole, LoginSparesDisabled, NothingLeftBehind, LeavesNothing
=============================================================================
