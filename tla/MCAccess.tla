------------------------------- MODULE MCAccess -------------------------------
(***************************************************************************)
(* Who may call what: the calls of skills over every surface, the agents'  *)
(* tasks, capability packages, the reviewed policy candidates and the      *)
(* actor rows.  "focus" says which of them a behaviour looks at; the       *)
(* others stay as they are.                                                *)
(***************************************************************************)
EXTENDS AgentRuntime, CapabilityPackages, PolicyCandidates, ActorIdentity, TLC

CONSTANTS o1, o2, operator, manager, assistant,
          u1, u2, s1, d1, d2, d3, k1, k2, q1, q2

VARIABLE focus

\* Requests on capability packages are interchangeable.
RequestSymmetry == Permutations(Requests)

Skill(surfaces, live, sideEffects, confirm, permissions) ==
    [compatibility |-> surfaces, live |-> live, side_effects |-> sideEffects,
     human_confirmation_required |-> confirm, permissions |-> permissions]

MCManifest ==
    [list    |-> Skill({"api", "mcp", "cli"}, TRUE, FALSE, FALSE, {"list.execute"}),
     approve |-> Skill(SURFACES, TRUE, TRUE, TRUE, {"approve.execute"}),
     draft   |-> Skill({"api"}, TRUE, TRUE, FALSE, {"draft.execute"}),
     later   |-> Skill({"api", "a2a"}, FALSE, FALSE, FALSE, {})]

MCPermissionRoles ==
    "list.execute" :> {operator} @@ "approve.execute" :> {manager} @@ "draft.execute" :> {operator}

MCHierarchy == operator :> {} @@ manager :> {operator}

\* Production; development with and without a trusted daemon; the combination
\* that refuses to start; a daemon with a quota.
MCDeployments ==
    LET Env(bypass, prod, trust, limit) ==
            [bypass |-> bypass, prod |-> prod, trust |-> trust, limit |-> limit]
    IN {Env(FALSE, TRUE, "untrusted", 0), Env(TRUE, FALSE, "untrusted", 0),
        Env(TRUE, FALSE, "verified", 0), Env(TRUE, TRUE, "verified", 0),
        Env(FALSE, FALSE, "untrusted", 2)}

MCContexts == {{<<o1, manager>>, <<o2, operator>>}}

MCAgentSkills == assistant :> {"list", "approve"}
MCAuthorizationMode == assistant :> "any_read_tool"

\* Two candidates for one capability, one of them for a role of another
\* product; one candidate without a role.
MCCapabilityOf == d1 :> k1 @@ d2 :> k1 @@ d3 :> k2
MCRoleRefOf == d1 :> q1 @@ d2 :> q2 @@ d3 :> NoRoleRef
MCRegistryRoles == k1 :> {} @@ k2 :> {q1}

\* Both users may stand for the one subject.
MCAux == s1 :> {u1, u2}

MCActorRows ==
    LET UserRow(table, user, sub, enabled, posts) ==
            [table |-> table, user |-> user, sub |-> sub, enabled |-> enabled, posts |-> posts]
        post == {<<o1, manager>>}
    IN {UserRow("pub_user", u1, NoSub, TRUE, {}), UserRow("pub_user", u1, s1, TRUE, post),
        UserRow("pub_user", u1, s1, TRUE, {}), UserRow("pub_user", u1, s1, FALSE, post),
        UserRow("sys_user", u1, s1, FALSE, post), UserRow("sys_user", u2, NoSub, TRUE, post),
        UserRow("pub_user_plain", u2, NoSub, TRUE, post)}

\* What has several initial values keeps one where the focus is elsewhere.
MCInit ==
    /\ focus \in {"skills", "agents", "packages", "candidates", "actors"}
    /\ AccessInit /\ AgentInit /\ Init /\ CandidateInit /\ IdentityInit
    /\ focus # "skills" =>
           deploy = [bypass |-> FALSE, prod |-> TRUE, trust |-> "untrusted", limit |-> 0]

MCNext ==
    /\ \/ /\ focus = "skills" /\ AccessNext
          /\ UNCHANGED <<agentVars, vars, candidateVars, identityVars>>
       \/ /\ focus = "agents" /\ AgentNext
          /\ UNCHANGED <<accessVars, vars, candidateVars, identityVars>>
       \/ /\ focus = "packages" /\ Next
          /\ UNCHANGED <<accessVars, agentVars, candidateVars, identityVars>>
       \/ /\ focus = "candidates" /\ CandidateNext
          /\ UNCHANGED <<accessVars, agentVars, vars, identityVars>>
       \/ /\ focus = "actors" /\ IdentityNext
          /\ UNCHANGED <<accessVars, agentVars, vars, candidateVars>>
    /\ UNCHANGED focus

MCSpec ==
    MCInit /\ [][MCNext]_<<focus, accessVars, agentVars, vars, candidateVars, identityVars>>
=============================================================================
