---------------------------- MODULE SkillAccess ----------------------------
(***************************************************************************)
(* How a call reaches a skill on the REST, MCP, A2A and command line       *)
(* surfaces, and under which role it runs (entry/*, shared/auth_context,   *)
(* shared/session_context, capability_registry/runtime, domain/policy,     *)
(* command/brain.py up to the dispatch).                                   *)
(*                                                                         *)
(* A call is refused or passed on at each of several stations, and an      *)
(* administrator may change the actor's status and bindings between two of *)
(* them.  A REST call comes with a cookie session, whose (organisation,    *)
(* role) pair is derived twice, or with a bearer token; the tool daemons,  *)
(* their one-shot commands and the command line act as the development     *)
(* identity, whether or not the bypass is on.  Only refusals and their     *)
(* audit events are modelled here; what a skill does is not.               *)
(***************************************************************************)
EXTENDS FiniteSets, Integers, Sequences

CONSTANTS
    CallIds,           \* calls under way at once
    Orgs, ActorRoles,  \* ACTOR_NAMES
    Skills,
    Manifest,          \* [Skills -> manifests], see Manifests
    PERMISSION_ROLES,  \* permission -> roles
    ROLE_HIERARCHY,    \* role -> roles it includes
    DevRoles, DevOrg,  \* ZW_BRAIN_DEV_IAM_BYPASS_ROLES and _ORG
    TokenOrg,          \* org_code of a bearer token's claims
    Deployments,       \* environments, see deploy below
    InitialContexts,   \* bindings the actor may start with
    NoRole, NoOrg, NoSession, NoCall,
    QUOTA_WINDOW,      \* _QUOTA_WINDOW_SECONDS
    MaxNow,            \* bound on the clock
    MaxAdminChanges,   \* bound on administrators' changes
    MaxAuditFaults     \* bound on audit events that fail to be written

SURFACES == {"api", "cli", "mcp", "a2a"}
Pairs == Orgs \X ActorRoles

\* The keys of the permission table.
Permissions == DOMAIN PERMISSION_ROLES

\* validate_manifest: what a registered manifest says of its exposure.
Manifests == [compatibility : SUBSET SURFACES, live : BOOLEAN, side_effects : BOOLEAN,
              human_confirmation_required : BOOLEAN,
              permissions : SUBSET Permissions]

ASSUME AccessAssumption ==
    /\ Manifest \in [Skills -> Manifests]
    /\ ROLE_HIERARCHY \in [ActorRoles -> SUBSET ActorRoles]
    /\ \A p \in Permissions : PERMISSION_ROLES[p] \subseteq ActorRoles
    /\ NoRole \notin ActorRoles /\ NoOrg \notin Orgs
    /\ InitialContexts \subseteq SUBSET Pairs
    /\ \A d \in Deployments : d.limit \in Nat
    /\ QUOTA_WINDOW \in Nat \ {0} /\ MaxNow \in Nat

Answers == {"open", "served", "not_exposed", "no_role", "role_forbidden", "policy_denied",
            "unconfirmed", "trust_denied", "quota_exceeded", "error"}

VARIABLES
    deploy,            \* [bypass, prod, trust, limit]: the environment
    account,           \* [status, contexts]: the actor and its active bindings
    snapshot,          \* actor snapshot of the cookie session
    call,              \* the calls under way
    window,            \* _mcp_call_window
    admitted,          \* history: when the daemon let calls of a tool through
    now, adminChanges, auditFaults

accessVars == <<deploy, account, snapshot, call, window, admitted, now, adminChanges,
                auditFaults>>
bounds == <<adminChanges, auditFaults>>
quota == <<window, admitted, now>>

AccessInit ==
    /\ deploy \in Deployments
    /\ account \in [status : {"active"}, contexts : InitialContexts]
    /\ snapshot = NoSession
    /\ call = [q \in CallIds |-> NoCall]
    /\ window = [s \in Skills |-> <<>>]
    /\ admitted = [s \in Skills |-> <<>>]
    /\ now = 0 /\ adminChanges = 0 /\ auditFaults = 0

\* get_dev_iam_bypass_enabled; with both set it raises, and the daemons of REST,
\* MCP and A2A do not start, the command line answers with an error.  The
\* one-shot commands of MCP and A2A do not ask.
BypassInProduction == deploy.bypass /\ deploy.prod
BypassEnabled == deploy.bypass /\ ~deploy.prod

\* One of the roles, always the same one: the first of the sorted list.
FirstRole(roles) == CHOOSE r \in roles : TRUE

RolesOf(pairs) == {p[2] : p \in pairs}

Goto(q, phase) == call' = [call EXCEPT ![q].phase = phase]
Answer(q, answer) == call' = [call EXCEPT ![q].phase = "done", ![q].answer = answer]

-----------------------------------------------------------------------------
(* Stations every surface shares.                                          *)

\* require_surface.
Exposed(skill, surface) ==
    /\ surface \in Manifest[skill].compatibility
    /\ Manifest[skill].live

\* _is_responsibility_bearing, the same on MCP and A2A.
ResponsibilityBearing(skill) ==
    Manifest[skill].side_effects \/ Manifest[skill].human_confirmation_required

\* mcp_trust_level_allows_write.
TrustAllowsWrite == deploy.trust \in {"verified", "platform"}

\* _expand_with_hierarchy: manager includes operator, one level deep.
Expanded(role) == {role} \union ROLE_HIERARCHY[role]

\* permissions_for_role.
PermissionsFor(role) ==
    {p \in Permissions : PERMISSION_ROLES[p] \cap Expanded(role) # {}}

\* enforce_manifest_policy; the tenant of every call is the runtime's own.
PolicyAllows(skill, role) == Manifest[skill].permissions \subseteq PermissionsFor(role)

\* Taking the requested role at its word.
HonourRequest(wanted, allowed, isWrite) == wanted

\* resolve_role_from_identity: a held role is used; an unheld one is refused
\* to a write and replaced for a read; no role at all is refused.
ResolveFromIdentity(wanted, allowed, isWrite) ==
    IF wanted \in allowed THEN wanted
    ELSE IF allowed = {} \/ (wanted # NoRole /\ isWrite) THEN NoRole
    ELSE FirstRole(allowed)

\* resolve_trusted_role: the pair asked for has to be one of the session's;
\* apply_runtime_context has seen to it that the current pair is.
ResolveTrusted(pairs, current, wanted, org) ==
    IF wanted = NoRole THEN current[2]
    ELSE IF <<IF org = NoOrg THEN current[1] ELSE org, wanted>> \in pairs THEN wanted
    ELSE NoRole

-----------------------------------------------------------------------------
(* Sessions and the actor's account.                                       *)

\* The dev-bypass login stores a synthetic user with every DevRoles role.
DevBypassLogin ==
    /\ snapshot = NoSession /\ BypassEnabled
    /\ snapshot' = [dev |-> TRUE, role_codes |-> DevRoles, org |-> DevOrg,
                    role |-> IF DevRoles = {} THEN NoRole ELSE FirstRole(DevRoles)]
    /\ UNCHANGED <<deploy, account, call, quota, bounds>>

\* A login through the identity provider: any of the bound pairs is current.
Login ==
    /\ snapshot = NoSession /\ ~BypassInProduction
    /\ account.status = "active"
    /\ \E p \in IF account.contexts = {} THEN {<<NoOrg, NoRole>>} ELSE account.contexts :
          snapshot' = [dev |-> FALSE, role_codes |-> RolesOf(account.contexts),
                       org |-> p[1], role |-> p[2]]
    /\ UNCHANGED <<deploy, account, call, quota, bounds>>

\* Calls remember every pair that was bound while they ran.
Witness(pairs) ==
    call' = [q \in CallIds |->
        IF call[q] = NoCall THEN NoCall ELSE [call[q] EXCEPT !.seen = @ \union pairs]]

ChangeAccount(status, contexts) ==
    /\ adminChanges < MaxAdminChanges
    /\ adminChanges' = adminChanges + 1
    /\ account # [status |-> status, contexts |-> contexts]
    /\ account' = [status |-> status, contexts |-> contexts]
    /\ Witness(IF status = "active" THEN contexts ELSE {})
    /\ UNCHANGED <<deploy, snapshot, quota, auditFaults>>

SetStatus(status) == ChangeAccount(status, account.contexts)
AssignRole(p) == ChangeAccount(account.status, account.contexts \union {p})
RevokeRole(p) == ChangeAccount(account.status, account.contexts \ {p})

-----------------------------------------------------------------------------
(* REST.                                                                   *)

\* What _with_authenticated_request finds: the session, the bypass, or a token.
AuthPaths == IF snapshot # NoSession THEN {"cookie"}
             ELSE IF BypassEnabled THEN {"dev"} ELSE {"bearer"}

\* _binding_role_codes_for_subject: a disabled actor has none.
BoundRoles == IF account.status = "disabled" THEN {} ELSE RolesOf(account.contexts)

\* _bind_auth: the verified identity's roles, read once.
IdentityRoles(path) ==
    IF path = "dev" \/ (path = "cookie" /\ snapshot.dev) THEN DevRoles ELSE BoundRoles

NewCall(surface, path, skill, wanted, org, confirmed) ==
    [surface |-> surface, path |-> path, skill |-> skill, wanted |-> wanted, org |-> org,
     confirmed |-> confirmed, once |-> FALSE, phase |-> "enter", answer |-> "open",
     allowed |-> {}, pairs |-> {}, pair |-> <<NoOrg, NoRole>>, fallback |-> FALSE, recorded |-> FALSE,
     lost |-> FALSE, seen |-> IF account.status = "active" THEN account.contexts ELSE {}]

\* A request to /api/skills, GET or POST, authenticated.
ArriveRest(q, path, skill, wanted, org, confirmed) ==
    /\ call[q] = NoCall /\ ~BypassInProduction
    /\ path \in AuthPaths
    /\ path # "cookie" => org = NoOrg
    /\ call' = [call EXCEPT ![q] =
           [NewCall("api", path, skill, wanted, org, confirmed) EXCEPT
               !.allowed = IdentityRoles(path)]]
    /\ UNCHANGED <<deploy, account, snapshot, quota, bounds>>

RefuseUnexposed(q) ==
    /\ call[q] # NoCall /\ call[q].phase = "enter"
    /\ ~Exposed(call[q].skill, call[q].surface)
    /\ Answer(q, "not_exposed")
    /\ UNCHANGED <<deploy, account, snapshot, quota, bounds>>

\* contexts_from_bindings and apply_runtime_context: the pairs bound now, or
\* without any (and always for the synthetic user) the login's role codes.
Available == IF snapshot.dev \/ account.contexts = {}
             THEN {snapshot.org} \X snapshot.role_codes ELSE account.contexts

\* The pair that becomes current: the one stored, else one of the same
\* organisation, else any.
CurrentPairs(pairs) ==
    LET stored == <<snapshot.org, snapshot.role>>
        same == {p \in pairs : p[1] = snapshot.org}
    IN IF stored \in pairs THEN {stored} ELSE IF same # {} THEN same ELSE pairs

\* _trusted_skill_payload: the snapshot is derived anew and saved, the role
\* resolved against it and stamped with the current organisation.
StampTrusted(q) ==
    /\ call[q] # NoCall /\ call[q].phase = "enter" /\ call[q].path = "cookie"
    /\ Exposed(call[q].skill, "api")
    /\ snapshot # NoSession
    /\ LET disabled == ~snapshot.dev /\ account.status = "disabled" IN
       \/ /\ disabled \/ Available = {}
          /\ Answer(q, "no_role")
          /\ UNCHANGED snapshot
       \/ /\ ~disabled
          /\ \E current \in CurrentPairs(Available) :
             LET role == ResolveTrusted(Available, current, call[q].wanted, call[q].org) IN
             /\ snapshot' = [snapshot EXCEPT !.org = current[1], !.role = current[2]]
             /\ call' = [call EXCEPT ![q].pairs = Available, ![q].pair = <<current[1], role>>,
                          ![q].fallback = (snapshot.dev \/ account.contexts = {}),
                          ![q].phase = IF role = NoRole THEN "done" ELSE "invoke",
                          ![q].answer = IF role = NoRole THEN "no_role" ELSE "open"]
    /\ UNCHANGED <<deploy, account, quota, bounds>>

\* _apply_verified_identity_role: a write keeps the role it asked for, a read
\* gets one the identity holds; the organisation is the token's.
StampIdentity(q) ==
    /\ call[q] # NoCall /\ call[q].phase = "enter" /\ call[q].path \in {"dev", "bearer"}
    /\ call[q].surface = "api"
    /\ Exposed(call[q].skill, "api")
    /\ LET c == call[q]
           role == IF Manifest[c.skill].side_effects THEN c.wanted
                   ELSE ResolveFromIdentity(c.wanted, c.allowed, FALSE)
       IN IF c.allowed = {} THEN Answer(q, "no_role")
          ELSE call' = [call EXCEPT ![q].phase = "invoke",
                   ![q].pair = <<IF c.path = "dev" THEN DevOrg ELSE TokenOrg, role>>]
    /\ UNCHANGED <<deploy, account, snapshot, quota, bounds>>

-----------------------------------------------------------------------------
(* The tool daemons and the command line.                                  *)

\* Calls act as dev_iam_bypass_auth_context, whatever the bypass says.
ToolCall(surface, once, skill, wanted, confirmed) ==
    [NewCall(surface, "dev", skill, wanted, NoOrg, confirmed) EXCEPT
        !.once = once, !.allowed = DevRoles, !.pair = <<NoOrg, wanted>>]

ArriveTool(q, surface, once, skill, wanted, confirmed) ==
    /\ call[q] = NoCall
    /\ call' = [call EXCEPT ![q] = ToolCall(surface, once, skill, wanted, confirmed)]
    /\ UNCHANGED <<deploy, account, snapshot, quota, bounds>>

\* The MCP daemon, which reads one line of its input after the other.  Its gate
\* refuses the bypass in production and starts it without any bypass.
ArriveMcp(q, skill, wanted, confirmed) ==
    /\ ~BypassInProduction
    /\ \A r \in CallIds : call[r] # NoCall => call[r].surface # "mcp" \/ call[r].once
    /\ ArriveTool(q, "mcp", FALSE, skill, wanted, confirmed)

\* The A2A daemon starts only under the bypass.
ArriveA2a(q, skill, wanted, confirmed) ==
    /\ BypassEnabled
    /\ ArriveTool(q, "a2a", FALSE, skill, wanted, confirmed)

\* The commands "call-tool" of MCP and "invoke" of A2A: a process for one call,
\* behind no gate.
ArriveOnce(q, surface, skill, wanted, confirmed) ==
    /\ surface \in {"mcp", "a2a"}
    /\ ArriveTool(q, surface, TRUE, skill, wanted, confirmed)

\* The command line fills in a role of its own; its gate is that of MCP.
ArriveCli(q, skill, wanted, confirmed) ==
    /\ ~BypassInProduction /\ wanted # NoRole
    /\ ArriveTool(q, "cli", FALSE, skill, wanted, confirmed)

\* The trust cut: the reject event is written before the refusal; when it
\* cannot be, the call ends in an error, and with it the MCP daemon, whose
\* counters a restart does not keep.
CutUntrusted(q) ==
    \/ /\ call' = [call EXCEPT ![q].phase = "done", ![q].answer = "trust_denied",
                               ![q].recorded = TRUE]
       /\ UNCHANGED <<quota, bounds>>
    \/ /\ auditFaults < MaxAuditFaults
       /\ auditFaults' = auditFaults + 1
       /\ Answer(q, "error")
       /\ IF call[q].surface = "mcp" /\ ~call[q].once
          THEN /\ window' = [s \in Skills |-> <<>>]
               /\ admitted' = [s \in Skills |-> <<>>]
               /\ UNCHANGED now
          ELSE UNCHANGED quota
       /\ UNCHANGED adminChanges

\* The calls of the tool that still count.  They were noted in the order of the
\* clock, so the ones that no longer do come first.
InWindow(times) ==
    LET lapsed == {i \in DOMAIN times : now - times[i] >= QUOTA_WINDOW}
    IN  SubSeq(times, Cardinality(lapsed) + 1, Len(times))

\* _enforce_mcp_quota: no limit, nothing is counted.
AdmitOrThrottle(q) ==
    LET s == call[q].skill
        recent == InWindow(window[s])
    IN
    \/ /\ deploy.limit = 0
       /\ Goto(q, "invoke")
       /\ UNCHANGED quota
    \/ /\ deploy.limit > 0 /\ Len(recent) < deploy.limit
       /\ window' = [window EXCEPT ![s] = Append(recent, now)]
       /\ admitted' = [admitted EXCEPT ![s] = Append(@, now)]
       /\ Goto(q, "invoke")
       /\ UNCHANGED now
    \/ /\ deploy.limit > 0 /\ Len(recent) >= deploy.limit
       /\ window' = [window EXCEPT ![s] = recent]
       /\ Answer(q, "quota_exceeded")
       /\ UNCHANGED <<admitted, now>>

Untrusted(skill) == ResponsibilityBearing(skill) /\ ~TrustAllowsWrite

Entering(q, surface) ==
    /\ call[q] # NoCall /\ call[q].phase = "enter" /\ call[q].surface = surface
    /\ Exposed(call[q].skill, surface)

\* resolve_tool_manifest, then the quota.
EnterMcp(q) ==
    /\ Entering(q, "mcp") /\ ~call[q].once
    /\ \/ /\ Untrusted(call[q].skill)
          /\ CutUntrusted(q)
       \/ /\ ~Untrusted(call[q].skill)
          /\ AdmitOrThrottle(q)
          /\ UNCHANGED bounds
    /\ UNCHANGED <<deploy, account, snapshot>>

\* The same cut, without a quota.
EnterA2a(q) ==
    /\ Entering(q, "a2a") /\ ~call[q].once
    /\ \/ /\ Untrusted(call[q].skill)
          /\ CutUntrusted(q)
       \/ /\ ~Untrusted(call[q].skill)
          /\ Goto(q, "invoke")
          /\ UNCHANGED <<quota, bounds>>
    /\ UNCHANGED <<deploy, account, snapshot>>

\* The ways in that cut an untrusted caller off.
TrustRequired(c) == c.surface = "mcp" \/ (c.surface = "a2a" /\ ~c.once)

\* A one-shot call: MCP's makes the cut, and its quota is that of a process that
\* has counted nothing; A2A's has neither.
EnterOnce(q) ==
    /\ \E surface \in {"mcp", "a2a"} : Entering(q, surface)
    /\ call[q].once
    /\ \/ /\ TrustRequired(call[q]) /\ Untrusted(call[q].skill)
          /\ CutUntrusted(q)
       \/ /\ ~(TrustRequired(call[q]) /\ Untrusted(call[q].skill))
          /\ Goto(q, "invoke")
          /\ UNCHANGED <<quota, bounds>>
    /\ UNCHANGED <<deploy, account, snapshot>>

\* Neither.
EnterCli(q) ==
    /\ Entering(q, "cli")
    /\ Goto(q, "invoke")
    /\ UNCHANGED <<deploy, account, snapshot, quota, bounds>>

-----------------------------------------------------------------------------
(* BrainService.invoke_skill.                                              *)

\* _resolve_role: a cookie call is checked again, now with the organisation
\* that was stamped; any other against the identity.
ResolvedRole(c) ==
    IF c.path = "cookie" THEN ResolveTrusted(c.pairs, c.pair, c.pair[2], c.pair[1])
    ELSE ResolveFromIdentity(c.pair[2], c.allowed, Manifest[c.skill].side_effects)

\* _enforce_manifest_policy refuses: the deny event is tried, and refused all
\* the same when it cannot be written.
Deny(q) ==
    \/ /\ call' = [call EXCEPT ![q].phase = "done", ![q].answer = "policy_denied",
                               ![q].recorded = TRUE]
       /\ UNCHANGED bounds
    \/ /\ auditFaults < MaxAuditFaults
       /\ auditFaults' = auditFaults + 1
       /\ call' = [call EXCEPT ![q].phase = "done", ![q].answer = "policy_denied",
                               ![q].lost = TRUE]
       /\ UNCHANGED adminChanges

invoke_skill(q) ==
    /\ call[q] # NoCall /\ call[q].phase = "invoke"
    /\ LET c == call[q]
           role == ResolvedRole(c)
       IN \/ /\ role = NoRole
             /\ Answer(q, "role_forbidden")
             /\ UNCHANGED bounds
          \/ /\ role # NoRole /\ ~PolicyAllows(c.skill, role)
             /\ Deny(q)
          \/ /\ role # NoRole /\ PolicyAllows(c.skill, role)
             /\ call' = [call EXCEPT ![q].pair = <<c.pair[1], role>>,
                    ![q].phase = IF Manifest[c.skill].side_effects THEN "write" ELSE "done",
                    ![q].answer = IF Manifest[c.skill].side_effects THEN "open" ELSE "served"]
             /\ UNCHANGED bounds
    /\ UNCHANGED <<deploy, account, snapshot, quota>>

\* PolicyMiddleware: an unconfirmed call that needs it goes no further.
NeedsConfirmation(c) == Manifest[c.skill].human_confirmation_required /\ ~c.confirmed

Write(q) ==
    /\ call[q] # NoCall /\ call[q].phase = "write"
    /\ Answer(q, IF NeedsConfirmation(call[q]) THEN "unconfirmed" ELSE "served")
    /\ UNCHANGED <<deploy, account, snapshot, quota, bounds>>

EndCall(q) ==
    /\ call[q] # NoCall /\ call[q].phase = "done"
    /\ call' = [call EXCEPT ![q] = NoCall]
    /\ UNCHANGED <<deploy, account, snapshot, quota, bounds>>

\* time.monotonic, which only the quota reads.
AccessTick ==
    /\ deploy.limit > 0 /\ now < MaxNow
    /\ now' = now + 1
    /\ UNCHANGED <<deploy, account, snapshot, call, window, admitted, bounds>>

AccessNext ==
    \/ Login \/ DevBypassLogin
    \/ \E status \in {"active", "disabled"} : SetStatus(status)
    \/ \E p \in Pairs : AssignRole(p) \/ RevokeRole(p)
    \/ \E q \in CallIds, skill \in Skills, wanted \in ActorRoles \union {NoRole},
          confirmed \in BOOLEAN :
          \/ \E path \in {"cookie", "dev", "bearer"}, org \in Orgs \union {NoOrg} :
                ArriveRest(q, path, skill, wanted, org, confirmed)
          \/ ArriveMcp(q, skill, wanted, confirmed)
          \/ ArriveA2a(q, skill, wanted, confirmed)
          \/ \E surface \in {"mcp", "a2a"} : ArriveOnce(q, surface, skill, wanted, confirmed)
          \/ ArriveCli(q, skill, wanted, confirmed)
    \/ \E q \in CallIds :
          \/ RefuseUnexposed(q) \/ StampTrusted(q) \/ StampIdentity(q)
          \/ EnterMcp(q) \/ EnterA2a(q) \/ EnterOnce(q) \/ EnterCli(q)
          \/ invoke_skill(q) \/ Write(q) \/ EndCall(q)
    \/ AccessTick

AccessSpec == AccessInit /\ [][AccessNext]_accessVars

-----------------------------------------------------------------------------

\* A skill runs only under a role whose permissions cover it and which the
\* caller held at some moment of the call: bound then, or, without any
\* binding, among the role codes of its login, or of the development
\* identity.  A write runs only confirmed where that is asked for, and over
\* MCP and by the A2A daemon only for a trusted caller; the one-shot command
\* of A2A runs it for any.
ServedByRight ==
    \A q \in CallIds : call[q] # NoCall /\ call[q].answer = "served" =>
        LET c == call[q] IN
        /\ PolicyAllows(c.skill, c.pair[2])
        /\ c.pair[2] \in CASE c.path = "dev" -> DevRoles
                           [] c.path = "bearer" -> RolesOf(c.seen)
                           [] OTHER -> RolesOf(c.seen) \union RolesOf(c.pairs)
        /\ Manifest[c.skill].side_effects /\ Manifest[c.skill].human_confirmation_required
               => c.confirmed
        /\ TrustRequired(c) /\ ResponsibilityBearing(c.skill) => TrustAllowsWrite

\* A browser call acts for an organisation only in a role assigned there: the
\* pair of a served call was bound while it ran, whatever role and
\* organisation it asked for and whichever pair became current meanwhile.
ActsWhereAssigned ==
    \A q \in CallIds : call[q] # NoCall =>
        LET c == call[q] IN
        c.answer = "served" /\ c.path = "cookie" /\ ~c.fallback => c.pair \in c.seen

\* A refusal by policy leaves a deny event unless the audit bus failed just
\* then, and a refusal for want of trust is never answered without one.
RefusalsOnRecord ==
    \A q \in CallIds : call[q] # NoCall =>
        /\ call[q].answer = "policy_denied" => call[q].recorded \/ call[q].lost
        /\ call[q].answer = "trust_denied" => call[q].recorded

\* No window of QUOTA_WINDOW seconds holds more calls of a tool by the MCP
\* daemon than the limit, however the calls fall and however many were
\* throttled between.
QuotaKept ==
    deploy.limit > 0 => \A s \in Skills : \A i \in 1 .. Len(admitted[s]) - deploy.limit :
        admitted[s][i + deploy.limit] - admitted[s][i] >= QUOTA_WINDOW

\* The four together: a call is served by a right its actor holds, where it was
\* assigned, within the quota, and a refusal is on record, whatever an
\* administrator changes between the check and the use.
CallsByRight == ServedByRight /\ ActsWhereAssigned /\ RefusalsOnRecord /\ QuotaKept

\* The tool surfaces and the command line run a skill as the development
\* identity only where the development bypass is on, as the comments on
\* dev_iam_bypass_auth_context, on MCP's _invoke_under_dev_identity and in
\* cli/main.py say.  It is violated: the gate of MCP and of the command line
\* only refuses the bypass in production, and the one-shot commands have none.
DevIdentityUnderBypass ==
    \A q \in CallIds : call[q] # NoCall =>
        (call[q].surface # "api" /\ call[q].answer = "served" => BypassEnabled)
=============================================================================
