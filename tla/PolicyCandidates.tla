-------------------------- MODULE PolicyCandidates --------------------------
(***************************************************************************)
(* Permissions of the legacy platform become tenant policies only after a  *)
(* review (command/handlers/j2/governance.py).  The importer writes a      *)
(* candidate per legacy permission and capability; a review plans over all *)
(* its items first, then writes candidate after candidate and policy after *)
(* policy, each in a commit of its own, and may end between two of them.   *)
(* A review holds the write lock; the importer is another process.         *)
(* tenant_capability_policy is keyed by package slug, so a package whose   *)
(* slug is a capability id writes the same row (b1/capability_admin.py),   *)
(* under the same lock and without any candidate.                          *)
(***************************************************************************)
EXTENDS FiniteSets, Naturals

CONSTANTS
    Candidates,
    Capabilities,
    ProductRoles,
    CapabilityOf,      \* the capability a candidate is mapped to
    RoleRefOf,         \* its legacy_role_ref: a role, or NoRoleRef
    ManifestCapabilities, \* capabilities with a manifest
    RegistryRoles,     \* roles the registry lets execute a capability
    PackagedCapabilities, \* capabilities whose id is the slug of a package too
    EnablerRoles,      \* roles that may switch the policy of a package on
    ACCOUNT_ADMIN,     \* the role a policy never counts
    Situations,        \* what else an evaluation is asked about
    NoRoleRef,
    NoReview,
    MaxReviewCrashes   \* bound on reviews that end early

ASSUME CandidatesAssumption ==
    /\ CapabilityOf \in [Candidates -> Capabilities]
    /\ ManifestCapabilities \subseteq Capabilities
    /\ DOMAIN RegistryRoles = Capabilities
    /\ Situations \subseteq {"none", "surface_not_exposed", "actor_disabled", "cross_tenant",
                             "org_mismatch"}
    /\ PackagedCapabilities \subseteq Capabilities
    /\ \A c \in Candidates : NoReview # c

PENDING == {"pending_review", "needs_review"}
CandidateStatuses == PENDING \union {"none", "approved", "rejected"}
ReviewDecisions == {"approve", "reject", "approve_and_apply", "apply"}

VARIABLES
    candidate,         \* candidate_status, "none" before the import
    tenantPolicy,      \* the policy row of a capability: its status and role codes
    granted,           \* history: what was opened without a review, to which role
    review,            \* the review under way
    passed,            \* candidates some review has approved
    reviewCrashes

policyTables == <<tenantPolicy, granted>>
candidateVars == <<candidate, policyTables, review, passed, reviewCrashes>>

NoPolicy == [status |-> "none", roles |-> {}]

CandidateInit ==
    /\ candidate = [c \in Candidates |-> "none"]
    /\ tenantPolicy = [k \in Capabilities |-> NoPolicy]
    /\ granted = {}
    /\ review = NoReview
    /\ passed = {}
    /\ reviewCrashes = 0

\* import_legacy_policy_candidate: the row of a known candidate is overwritten,
\* its review status too.
import_legacy_policy_candidate(c, status) ==
    /\ candidate' = [candidate EXCEPT ![c] = status]
    /\ UNCHANGED <<policyTables, review, passed, reviewCrashes>>

-----------------------------------------------------------------------------

\* The candidates of the items the decision may touch; the others are skipped.
Reviewable(decision, items) ==
    {c \in items :
        CASE decision = "reject" -> candidate[c] \in PENDING \union {"approved"}
          [] decision = "approve" -> candidate[c] \in PENDING
          [] OTHER ->
                /\ CapabilityOf[c] \in ManifestCapabilities
                /\ RoleRefOf[c] \in ProductRoles \union {NoRoleRef}
                /\ candidate[c] \in IF decision = "apply" THEN {"approved"} ELSE PENDING}

Applies(decision) == decision \in {"apply", "approve_and_apply"}

\* Phase 1: apply_groups, the roles to enable per capability.
Groups(plan) ==
    [k \in {CapabilityOf[c] : c \in plan} |->
        {RoleRefOf[c] : c \in {d \in plan : CapabilityOf[d] = k}} \ {NoRoleRef}]

\* Phase 2: one capability without a product role aborts the whole review.
Appliable(plan) == \A k \in DOMAIN Groups(plan) : Groups(plan)[k] # {}

PlanReview(decision, items) ==
    /\ review = NoReview
    /\ items # {}
    /\ LET plan == Reviewable(decision, items)
       IN /\ Applies(decision) => Appliable(plan)
          /\ review' = [decision |-> decision,
                        write |-> IF decision = "apply" THEN {} ELSE plan,
                        enable |-> IF Applies(decision) THEN Groups(plan) ELSE Groups({})]
    /\ UNCHANGED <<candidate, policyTables, passed, reviewCrashes>>

\* review_policy_candidate: whatever status the row has by now.
ReviewCandidate(c) ==
    /\ review # NoReview
    /\ c \in review.write
    /\ LET next == IF review.decision = "reject" THEN "rejected" ELSE "approved"
       IN /\ candidate' = [candidate EXCEPT ![c] = next]
          /\ passed' = IF next = "approved" THEN passed \union {c} ELSE passed
    /\ review' = [review EXCEPT !.write = @ \ {c}]
    /\ UNCHANGED <<policyTables, reviewCrashes>>

\* set_tenant_policy_status and upsert_tenant_policy: the row is replaced.
SetPolicy(k, status, roles) ==
    tenantPolicy' = [tenantPolicy EXCEPT ![k] = [status |-> status, roles |-> roles]]

EnablesAnytime(job) == TRUE

\* Phase 3 enables policies after the last candidate is written.
MayEnable(job) == job.write = {}

\* set_tenant_policy_status: the roles of this review replace those before.
EnablePolicy(k) ==
    /\ review # NoReview
    /\ MayEnable(review)
    /\ k \in DOMAIN review.enable
    /\ SetPolicy(k, "enabled", review.enable[k])
    /\ review' = [review EXCEPT !.enable =
                    [j \in DOMAIN review.enable \ {k} |-> review.enable[j]]]
    /\ UNCHANGED <<candidate, granted, passed, reviewCrashes>>

EndReview ==
    /\ review # NoReview
    /\ review.write = {} /\ DOMAIN review.enable = {}
    /\ review' = NoReview
    /\ UNCHANGED <<candidate, policyTables, passed, reviewCrashes>>

ReviewDies ==
    /\ review # NoReview
    /\ reviewCrashes < MaxReviewCrashes
    /\ review' = NoReview
    /\ reviewCrashes' = reviewCrashes + 1
    /\ UNCHANGED <<candidate, policyTables, passed>>

-----------------------------------------------------------------------------
(* A package with the capability's slug writes the row as well             *)

\* Opened to these roles without a review; to any role, if there are none.
Grant(k, roles) == granted' = granted \union
    {<<k, role>> : role \in IF roles = {} THEN {NoRoleRef} ELSE roles}

\* package.apply_tenant_policy and tenant.capability.enable: the caller's role
\* is the policy's only one.
apply_package_tenant_policy(k, role) ==
    /\ review = NoReview
    /\ SetPolicy(k, "enabled", {role})
    /\ Grant(k, {role})
    /\ UNCHANGED <<candidate, review, passed, reviewCrashes>>

\* tenant.capability.disable: the roles go with the status.
disable_tenant_capability(k) ==
    /\ review = NoReview
    /\ SetPolicy(k, "disabled", {})
    /\ UNCHANGED <<candidate, granted, review, passed, reviewCrashes>>

\* upsert_from_package: a registered package gets a row, when it has none, with
\* the roles its registration named; it is enabled if it came as approved.
InsertPolicy(k, status, roles) ==
    /\ review = NoReview
    /\ tenantPolicy[k] = NoPolicy
    /\ SetPolicy(k, status, roles)
    /\ IF status = "enabled" THEN Grant(k, roles) ELSE UNCHANGED granted
    /\ UNCHANGED <<candidate, review, passed, reviewCrashes>>

PackageWrites(k) ==
    \/ \E role \in EnablerRoles : apply_package_tenant_policy(k, role)
    \/ disable_tenant_capability(k)
    \/ \E status \in {"enabled", "reviewing", "disabled"}, roles \in SUBSET ProductRoles :
            InsertPolicy(k, status, roles)

CandidateNext ==
    \/ \E c \in Candidates, status \in PENDING : import_legacy_policy_candidate(c, status)
    \/ \E decision \in ReviewDecisions, items \in SUBSET Candidates :
            PlanReview(decision, items)
    \/ \E c \in Candidates : ReviewCandidate(c)
    \/ \E k \in Capabilities : EnablePolicy(k)
    \/ \E k \in PackagedCapabilities : PackageWrites(k)
    \/ EndReview
    \/ ReviewDies

CandidateSpec == CandidateInit /\ [][CandidateNext]_candidateVars

-----------------------------------------------------------------------------
(* tenant.policy.evaluate, which changes nothing                            *)

\* A question: the capability, the role asked for, the further roles named,
\* the roles of the actor's snapshot (none when it has no list), and what
\* else the snapshots say.
AskedRoles == UNION {RegistryRoles[k] : k \in Capabilities} \union ProductRoles
Questions == [cap : Capabilities, role : AskedRoles, more : SUBSET AskedRoles,
              holds : SUBSET AskedRoles, but : Situations]

\* Every role somebody mentioned.
role_codes(q) == {q.role} \union q.more \union q.holds

\* The policy's roles meet those mentioned; a policy without any lets every
\* role pass; ACCOUNT_ADMIN counts in neither case.
PolicyRoleMatched(q) ==
    IF tenantPolicy[q.cap].roles = {} THEN q.role # ACCOUNT_ADMIN
    ELSE tenantPolicy[q.cap].roles \intersect (role_codes(q) \ {ACCOUNT_ADMIN}) # {}

\* The policy, or the registry, knows a role mentioned.
RoleMatched(q) ==
    PolicyRoleMatched(q) \/ RegistryRoles[q.cap] \intersect role_codes(q) # {}

\* The roles asked for must be the actor's own, if these are known.
BindingMatches(q) == q.holds = {} \/ ({q.role} \union q.more) \subseteq q.holds

\* decision_reason
evaluate_tenant_policy(q) ==
    IF q.but \notin {"none", "surface_not_exposed"} THEN q.but
    ELSE IF tenantPolicy[q.cap].status = "none" THEN "missing_tenant_policy"
    ELSE IF tenantPolicy[q.cap].status # "enabled" THEN "tenant_policy_disabled"
    ELSE IF q.but = "surface_not_exposed" THEN q.but
    ELSE IF ~RoleMatched(q) THEN "role_not_allowed_by_registry"
    ELSE IF ~BindingMatches(q) THEN "role_binding_mismatch"
    ELSE "allowed_by_tenant_policy"

-----------------------------------------------------------------------------

\* A candidate for this role and capability has passed a review, or the role was
\* given the capability with its package.
OpenedTo(k, role) ==
    \/ \E c \in passed : CapabilityOf[c] = k /\ RoleRefOf[c] = role
    \/ <<k, role>> \in granted

\* A role is in an enabled tenant policy only when a review approved a candidate
\* for that role and capability, or whoever registered or enabled the package of
\* that slug named it: a review that ends early, or an import that puts a
\* candidate back to pending between plan and write, opens no capability to a
\* role nobody named; and an actor whose roles are known is told that a
\* capability is allowed only if one of these roles was given it, or is the
\* registry's, or the package was registered as approved and names no role,
\* which the evaluation takes for every role (j2/tenant_policy.py).
PolicyHasApproval ==
    /\ \A k \in Capabilities :
           tenantPolicy[k].status = "enabled" =>
               \A role \in tenantPolicy[k].roles : OpenedTo(k, role)
    /\ \A q \in Questions :
           (q.holds # {} /\ evaluate_tenant_policy(q) = "allowed_by_tenant_policy")
           => /\ \/ \E c \in passed : CapabilityOf[c] = q.cap
                 \/ \E g \in granted : g[1] = q.cap
              /\ \/ \E role \in q.holds : role \in RegistryRoles[q.cap] \/ OpenedTo(q.cap, role)
                 \/ <<q.cap, NoRoleRef>> \in granted
=============================================================================
