------------------------------ MODULE Workbench ------------------------------
(***************************************************************************)
(* What the roles are shown of the work that waits for them: the todos of  *)
(* the applications, which every write computes anew and keeps in the      *)
(* in-memory snapshot (command/sync.py, command/demo_state_sync.py), and   *)
(* the pages computed from the database at every read                      *)
(* (domain/workbench_backlog_projection.py,                                *)
(* domain/provider_snapshot_projection.py,                                 *)
(* domain/discovery_snapshot_projection.py,                                *)
(* domain/dispute_snapshot_projection.py), cut to what the reader's        *)
(* organisation may see (domain/services/reference_service.py) and to what *)
(* its role may load (domain/web_snapshot_redaction.py).                   *)
(*                                                                         *)
(* Reads take no lock: a write, or the importer of another process, may    *)
(* come between two of their queries.  The skills that move an application,*)
(* a catalogue entry, a resource or an objection are the subject of other  *)
(* modules; here each of them may move its object to any of its states.    *)
(***************************************************************************)
EXTENDS Integers, FiniteSets

CONSTANTS
    Apps, AppOf,         \* applications: kind, shared_type, applicant and the two organisations
    Entries, EntryOf,    \* catalogue entries: owner, source, whether the list shows its prefix
    Assets, AssetOf,     \* resources: owner, resource_kind
    BenchCases, CaseOf,       \* objection cases: complainant, provider
    Demands,             \* registered demands
    OrgCodes, Parent,    \* org_projection: codes and parent_org_code
    OrgNames, OrgName,   \* names, which old rows hold in place of a code
    NoOrgCode,
    Viewers, ViewerOf,   \* sessions: role, org, actor
    MAX_ORG_TREE_DEPTH,  \* _MAX_ORG_TREE_DEPTH
    BenchBudgets         \* bounds on writes, on imports and restarts together, and on reads

\* Rows of different tables have different identifiers.
ASSUME BenchAssumption ==
    /\ Apps \cap (Entries \union Assets \union BenchCases) = {}
    /\ Entries \cap (Assets \union BenchCases) = {}
    /\ Assets \cap BenchCases = {}

BUSIAUDIT == "ROLE_BUSIAUDIT"
MANAGER == "ROLE_ORGAN_MANAGER"
OPERATER == "ROLE_ORGAN_OPERATER"
SECURITY_AUDIT == "ROLE_SECURITY_AUDIT"
SYSTEM == "ROLE_SYSTEM"

Absent == "none"

\* Statuses of application_record: a runtime card's and, for an imported row,
\* the old platform's.
CardStatuses == {"draft", "submitted", "pending", "dept_approved", "granted", "need-fix",
                 "supplementing", "summary-pending", "completed", "rejected"}
ImportedStatuses == {"submitted", "under_review", "effective"}

EntryStages == {"draft", "pending_review", "pending_platform_review",
                "approved_pending_publish", "active", "retired"}
AssetStages == {"draft", "pending_review", "approved_pending_publish", "active", "retired"}
CaseStages == {"draft", "submitted", "accepted", "platform_investigating",
               "provider_investigating", "resolved", "closed", "rejected"}

\* ALLOWED_PHASE_TRANSITIONS
PhaseTransitions ==
    [gap_discovered     |-> {"registered"},
     registered         |-> {"recommend_failed", "provider_responded"},
     recommend_failed   |-> {"manual_registered"},
     manual_registered  |-> {"provider_responded"},
     provider_responded |-> {"subscribed"},
     subscribed         |-> {}]

VARIABLES
    app,          \* application_record.status
    approval,     \* applications with a row in approval_case
    stage,        \* lifecycle_status of entries and resources, status of cases, phase of demands
    supervised,   \* cases with an escalate event
    todos,        \* snapshot["workbench"]: the request todos
    savedTodos,   \* the same in the runtime-state row
    bench,        \* the write under the lock: "idle", "mutated" or "synced"
    fresh,        \* history: the cards have not changed since the todos were computed
    page,         \* what each viewer is reading or has read
    benchBudget   \* writes, imports or restarts, and reads left

benchVars == <<app, approval, stage, supervised, todos, savedTodos, bench, fresh, page,
               benchBudget>>

Spend(b) == benchBudget[b] > 0 /\ benchBudget' = [benchBudget EXCEPT ![b] = @ - 1]

-----------------------------------------------------------------------------
(* The organisations a reader may see                                      *)

GlobalRoles == {BUSIAUDIT, SYSTEM, SECURITY_AUDIT}

\* The organisations at most n levels below an organisation.
Subtree(org) ==
    LET below[n \in 0..MAX_ORG_TREE_DEPTH] ==
            IF n = 0 THEN {org}
            ELSE below[n - 1] \union {c \in OrgCodes : Parent[c] \in below[n - 1]}
    IN below[MAX_ORG_TREE_DEPTH]

\* The scope of a reader: everything for a global role, nothing for a
\* department role without an organisation; a manager sees the subtree.
visible_org_codes(v) ==
    LET r == ViewerOf[v]
    IN [all   |-> r.role \in GlobalRoles,
        codes |-> IF r.role \in GlobalRoles \/ r.org = NoOrgCode THEN {}
                  ELSE {r.org} \union (IF r.role = MANAGER THEN Subtree(r.org) ELSE {})]

\* A code stands for itself, a name for the one organisation that bears it.
resolve_org_code(o) ==
    IF o \in OrgCodes THEN o
    ELSE LET bearers == {c \in OrgCodes : OrgName[c] = o}
         IN IF Cardinality(bearers) = 1 THEN CHOOSE c \in bearers : TRUE ELSE NoOrgCode

\* Mutant: the organisation of the row is not looked at.
AnyOrgInScope(o, scope) == scope.all \/ scope.codes # {}

\* The owner as it stands or, when it is a name, the code it resolves to; an
\* owner that resolves to nothing is in no department's scope.
org_in_scope(o, scope) ==
    \/ scope.all
    \/ \E code \in {o, resolve_org_code(o)} : code # NoOrgCode /\ code \in scope.codes

FailClosed(scope) == ~scope.all /\ scope.codes = {}

-----------------------------------------------------------------------------
(* The todos of the applications                                           *)

\* Imported rows carry a kind, runtime cards never do.
IsRuntimeCard(a) == AppOf[a].kind = "card"

Todo(role, a, category, text, offer) ==
    [role |-> role, id |-> a, category |-> category, text |-> text, offer |-> offer]

\* The draft text is the only one the pages tell apart.
status_text(s) == IF s = "draft" THEN "draft" ELSE "other"

\* The capability the inline decision calls: by shared_type.
AcceptOffer(a) ==
    IF AppOf[a].shared = 2 THEN "application.platform_approve" ELSE "approval.case.decide"

SupplementStatuses == {"supplementing", "summary-pending", "completed", "need-fix"}
SummaryStatuses == {"pending", "summary-pending", "completed", "need-fix", "rejected"}

\* The todos an application in status s has.
TodosOf(a, s) ==
    {Todo(OPERATER, a, "apply-progress", status_text(s), "none")}
    \union (IF s \in {"submitted", "pending"}
            THEN {Todo(BUSIAUDIT, a, "accept", "other", AcceptOffer(a))} ELSE {})
    \union (IF s = "dept_approved"
            THEN {Todo(MANAGER, a, "review", "other", "application.dept_approve")} ELSE {})
    \union (IF s \in SupplementStatuses
            THEN {Todo(OPERATER, a, c, "other", "none") :
                      c \in {"supplement-township", "supplement-village"}} ELSE {})
    \union (IF s \in SummaryStatuses
            THEN {Todo(MANAGER, a, "summary", "other", "none")} ELSE {})

SameTodo(t, u) == t.role = u.role /\ t.id = u.id /\ t.category = u.category

\* Mutant: a category that no longer applies keeps its todo.
NothingRemoved(a, s) == {}

\* remove_todo: the categories an application in status s has no todo in.
RemovedCategories(a, s) ==
    {"accept", "review", "supplement-township", "supplement-village", "summary"}
        \ {t.category : t \in TodosOf(a, s)}

\* upsert_todo and remove_todo for every runtime card of the table st.
sync_request_todos(ts, st) ==
    LET synced == {a \in Apps : IsRuntimeCard(a) /\ st[a] # Absent}
        wanted == UNION {TodosOf(a, st[a]) : a \in synced}
    IN wanted \union
       {t \in ts : /\ ~\E u \in wanted : SameTodo(t, u)
                   /\ ~(t.id \in synced /\ t.category \in RemovedCategories(t.id, st[t.id]))}

-----------------------------------------------------------------------------
(* The backlog page (workbench.view)                                       *)

Row(face, id, offer) == [face |-> face, id |-> id, offer |-> offer]
RowsOf(face, ids, offer) == {Row(face, i, offer) : i \in ids}

EntriesAt(st) == {e \in Entries : stage[e] = st}
AssetsAt(st) == {x \in Assets : stage[x] = st}
CasesAt(S) == {c \in BenchCases : stage[c] \in S}

ProviderPhases == {"registered", "manual_registered", "recommend_failed"}

\* A registered demand is an application_record row of another kind.
PendingDemands == {d \in Demands : stage[d] \in ProviderPhases}

\* kind = apply (or none), dept_approved, channel_class = national.
national_escalate_records ==
    {a \in Apps : /\ AppOf[a].kind \in {"card", "apply"} /\ app[a] = "dept_approved"
                  /\ AppOf[a].channel = "national"}

list_supervised_cases == {c \in supervised : stage[c] \notin {"closed", "rejected"}}

\* The aggregates of the platform's role; the one that counts applications is
\* left out because their todos are listed one by one.
BacklogRows ==
    RowsOf("catalog-platform-review", EntriesAt("pending_platform_review"),
           "catalog.entry.review")
    \union RowsOf("catalog-publish", EntriesAt("approved_pending_publish"),
                  "catalog.entry.publish")
    \union RowsOf("resource-publish", AssetsAt("approved_pending_publish"),
                  "resource.asset.publish")
    \union RowsOf("national-escalate", national_escalate_records,
                  "application.escalate_national")
    \union RowsOf("objection", CasesAt({"submitted"}), "objection.case.accept")
    \union RowsOf("objection-supervised", list_supervised_cases, "none")
    \union RowsOf("demand", PendingDemands, "none")

IsApi(x) == AssetOf[x].kind \in {"api", "service"}

list_assets_pending_review(scope, apiSide) ==
    {x \in AssetsAt("pending_review") :
        IsApi(x) = apiSide /\ org_in_scope(AssetOf[x].owner, scope)}

ReverseDrafts(scope) ==
    {e \in EntriesAt("draft") :
        EntryOf[e].source = "reverse" /\ org_in_scope(EntryOf[e].owner, scope)}

ManagerRows(scope) ==
    RowsOf("catalog-dept-review",
           {e \in EntriesAt("pending_review") : org_in_scope(EntryOf[e].owner, scope)},
           "catalog.entry.review")
    \union RowsOf("reverse-draft-review", ReverseDrafts(scope),
                  "catalog.entry.reverse_draft.confirm")
    \union RowsOf("hookup-review", list_assets_pending_review(scope, FALSE),
                  "resource.asset.review")
    \union RowsOf("api-review", list_assets_pending_review(scope, TRUE), "none")

\* The applicant's organisation or the provider's is in the scope.
request_party_in_scope(a, scope) ==
    org_in_scope(AppOf[a].applicantOrg, scope) \/ org_in_scope(AppOf[a].provider, scope)

IsMine(a, v) == AppOf[a].applicant = ViewerOf[v].actor

\* The applications a department's reader has todos of; the reader's own are
\* among an operator's whatever their organisations.
org_visible_request_ids(v, own) ==
    LET scope == visible_org_codes(v)
    IN {a \in Apps : /\ app[a] # Absent
                     /\ \/ request_party_in_scope(a, scope)
                        \/ own /\ ~FailClosed(scope) /\ IsMine(a, v)}

\* The request todos outside the scope are dropped.
drop_unscoped_request_todos(ts, ids) == {t \in ts : t.id \in ids}

TodoRows(ts) == {Row(t.category, t.id, t.offer) : t \in ts}

\* The operator's todos, folded into three cards: drafts (each can be
\* submitted in place), applications under way, supplements.
operator_aggregate_todos(ts) ==
    LET progress == {t \in ts : t.category = "apply-progress"}
        drafts == {t \in progress : t.text = "draft"}
    IN RowsOf("my-draft-applications", {t.id : t \in drafts}, "request.submit")
       \union RowsOf("my-active-applications", {t.id : t \in progress \ drafts}, "none")
       \union RowsOf("my-supplement-tasks",
                     {t.id : t \in {u \in ts : u.category \in
                                     {"supplement-township", "supplement-village"}}}, "none")

\* enrich_workbench_backlog: the page of a viewer whose role's todos are ts.
BacklogPage(v, ts) ==
    LET role == ViewerOf[v].role
        scope == visible_org_codes(v)
    IN CASE role = MANAGER ->
              ManagerRows(scope) \union
              TodoRows(drop_unscoped_request_todos(ts, org_visible_request_ids(v, FALSE)))
         [] role = OPERATER ->
              operator_aggregate_todos(
                  drop_unscoped_request_todos(ts, org_visible_request_ids(v, TRUE)))
         [] role = SECURITY_AUDIT -> {}
         [] role = BUSIAUDIT -> BacklogRows \union TodoRows(ts)
         [] OTHER -> TodoRows(ts)

-----------------------------------------------------------------------------
(* The snapshot page (system.snapshot), in two groups of queries           *)

\* The cases in process that the inbox lists.
ObjectionInboxStatuses == {"submitted", "platform_investigating", "provider_investigating"}

\* The provider's pages, the disputes and the requests.
FieldDecisions(scope) == RowsOf("field_decisions", ReverseDrafts(scope), "none")
HookupReviews(scope) == RowsOf("hookup_reviews", list_assets_pending_review(scope, FALSE), "none")
DemandMatches == RowsOf("demand_matches", PendingDemands, "none")
ObjectionInbox == RowsOf("objection_cases", CasesAt(ObjectionInboxStatuses), "none")

project_provider_inbox(scope) ==
    FieldDecisions(scope) \union HookupReviews(scope) \union DemandMatches \union ObjectionInbox
    \union RowsOf("publish_queue", EntriesAt("approved_pending_publish"), "none")

project_api_services(scope) ==
    RowsOf("services",
           {x \in Assets : /\ stage[x] # Absent /\ IsApi(x)
                           /\ org_in_scope(AssetOf[x].owner, scope)}, "none")

project_provider_catalogs(scope) ==
    RowsOf("catalogs",
           {e \in Entries : /\ stage[e] \notin {Absent, "retired"} /\ EntryOf[e].listed
                            /\ org_in_scope(EntryOf[e].owner, scope)}, "none")

project_provider_resources(scope) ==
    RowsOf("resources",
           {x \in Assets : /\ stage[x] \notin {Absent, "retired"}
                           /\ org_in_scope(AssetOf[x].owner, scope)}, "none")

enrich_disputes_snapshot(scope) ==
    RowsOf("disputes",
           {c \in BenchCases : /\ stage[c] # Absent
                          /\ \/ org_in_scope(CaseOf[c].complainant, scope)
                             \/ org_in_scope(CaseOf[c].provider, scope)}, "none")

\* Demands of the old platform are not requests; a viewer's own requests are
\* kept whatever their organisations, unless the viewer has none.
enrich_requests_snapshot(v, scope) ==
    RowsOf("requests",
           {a \in Apps : /\ app[a] # Absent /\ AppOf[a].kind # "require"
                         /\ \/ request_party_in_scope(a, scope)
                            \/ ~FailClosed(scope) /\ IsMine(a, v)}, "none")

FirstRows(v) ==
    LET scope == visible_org_codes(v)
    IN project_provider_inbox(scope) \union project_api_services(scope)
       \union project_provider_catalogs(scope) \union project_provider_resources(scope)
       \union enrich_disputes_snapshot(scope) \union enrich_requests_snapshot(v, scope)

RequestsIn(rows) == {r.id : r \in {q \in rows : q.face = "requests"}}

\* The approval inbox: the provider is taken from the request cards already
\* on the page, and a case without one is dropped.
enrich_approvals_snapshot(scope, rows) ==
    RowsOf("approvals",
           {a \in approval : \/ scope.all
                             \/ /\ a \in RequestsIn(rows)
                                /\ org_in_scope(AppOf[a].provider, scope)}, "none")

\* A delivery task follows its request.
enrich_delivery_tasks_snapshot(scope, rows) ==
    RowsOf("delivery_tasks",
           {a \in Apps : /\ IsRuntimeCard(a) /\ app[a] # Absent
                         /\ scope.all \/ a \in RequestsIn(rows)}, "none")

\* Only published resources can be found.
project_resource_cards == RowsOf("discovery", AssetsAt("active"), "none")

\* The faces a role does not load.
RedactedFaces(role) ==
    (IF role \in {OPERATER, MANAGER, BUSIAUDIT}
     THEN {} ELSE {"discovery", "requests", "approvals"})
    \union (IF role \in {OPERATER, MANAGER} THEN {} ELSE {"delivery_tasks"})
    \union (IF role \in {MANAGER, BUSIAUDIT} THEN {}
            ELSE {"field_decisions", "publish_queue", "hookup_reviews", "demand_matches",
                  "objection_cases"})
    \union (IF role \in {MANAGER, BUSIAUDIT, OPERATER} THEN {}
            ELSE {"catalogs", "services", "resources"})
    \union (IF role = OPERATER THEN {"disputes"} ELSE {})

redact_webui_snapshot(rows, role) == {r \in rows : r.face \notin RedactedFaces(role)}

LastRows(v, rows) ==
    LET scope == visible_org_codes(v)
    IN redact_webui_snapshot(
           rows \union enrich_approvals_snapshot(scope, rows)
                \union enrich_delivery_tasks_snapshot(scope, rows)
                \union project_resource_cards,
           ViewerOf[v].role)

-----------------------------------------------------------------------------
(* Whose desk the progress bars of the cards name                          *)

holder_for(a) ==
    CASE app[a] \in {"submitted", "pending"} -> BUSIAUDIT
      [] app[a] = "dept_approved" -> MANAGER
      [] app[a] = "need-fix" -> OPERATER
      [] app[a] = "supplementing" -> "township"
      [] OTHER -> Absent

catalog_lifecycle_timeline(e) ==
    CASE stage[e] = "draft" -> OPERATER
      [] stage[e] = "pending_review" -> MANAGER
      [] stage[e] \in {"pending_platform_review", "approved_pending_publish"} -> BUSIAUDIT
      [] OTHER -> Absent

resource_lifecycle_timeline(x) ==
    CASE stage[x] = "draft" -> OPERATER
      [] stage[x] = "pending_review" -> MANAGER
      [] stage[x] = "approved_pending_publish" -> BUSIAUDIT
      [] OTHER -> Absent

objection_timeline(c) ==
    CASE stage[c] \in {"submitted", "accepted", "platform_investigating"} -> BUSIAUDIT
      [] stage[c] = "provider_investigating" -> MANAGER
      [] stage[c] = "resolved" -> "complainant"
      [] OTHER -> Absent

Holder(x) ==
    IF x \in Apps THEN holder_for(x)
    ELSE IF x \in Entries THEN catalog_lifecycle_timeline(x)
    ELSE IF x \in Assets THEN resource_lifecycle_timeline(x)
    ELSE objection_timeline(x)

-----------------------------------------------------------------------------
(* Reading                                                                 *)

NoPage == [step |-> "none", todos |-> {}, rows |-> {}]

\* workbench.view: a copy of the role's todos, then the queries.
OpenWorkbench(v) ==
    /\ page[v].step \notin {"todos", "requests"}
    /\ page' = [page EXCEPT ![v] = [step |-> "todos", rows |-> {},
                                    todos |-> {t \in todos : t.role = ViewerOf[v].role}]]
    /\ Spend("reads")
    /\ UNCHANGED <<app, approval, stage, supervised, todos, savedTodos, bench, fresh>>

ShowWorkbench(v) ==
    /\ page[v].step = "todos"
    /\ page' = [page EXCEPT ![v] = [step |-> "workbench", todos |-> {},
                                    rows |-> BacklogPage(v, page[v].todos)]]
    /\ UNCHANGED <<app, approval, stage, supervised, todos, savedTodos, bench, fresh,
                   benchBudget>>

OpenSnapshot(v) ==
    /\ page[v].step \notin {"todos", "requests"}
    /\ page' = [page EXCEPT ![v] = [step |-> "requests", todos |-> {}, rows |-> FirstRows(v)]]
    /\ Spend("reads")
    /\ UNCHANGED <<app, approval, stage, supervised, todos, savedTodos, bench, fresh>>

ShowSnapshot(v) ==
    /\ page[v].step = "requests"
    /\ page' = [page EXCEPT ![v] = [step |-> "snapshot", todos |-> {},
                                    rows |-> LastRows(v, page[v].rows)]]
    /\ UNCHANGED <<app, approval, stage, supervised, todos, savedTodos, bench, fresh,
                   benchBudget>>

-----------------------------------------------------------------------------
(* Writing                                                                 *)

\* A skill moves an application; submitting it opens its approval case.
MoveCard(a, s) ==
    /\ bench = "idle" /\ IsRuntimeCard(a) /\ s # app[a] /\ Spend("writes")
    /\ app' = [app EXCEPT ![a] = s]
    /\ approval' = IF s = "draft" THEN approval ELSE approval \union {a}
    /\ bench' = "mutated" /\ fresh' = FALSE
    /\ UNCHANGED <<stage, supervised, todos, savedTodos, page>>

\* A skill moves an entry, a resource or an objection case.
MoveStage(x, st) ==
    /\ bench = "idle" /\ st # stage[x] /\ Spend("writes")
    /\ stage' = [stage EXCEPT ![x] = st]
    /\ bench' = "mutated"
    /\ UNCHANGED <<app, approval, supervised, todos, savedTodos, fresh, page>>

\* objection.case.escalate: an event, the status stays.
EscalateCase(c) ==
    /\ bench = "idle" /\ stage[c] \notin {Absent, "draft"} /\ Spend("writes")
    /\ supervised' = supervised \union {c}
    /\ bench' = "mutated"
    /\ UNCHANGED <<app, approval, stage, todos, savedTodos, fresh, page>>

\* demand.register: a demand of that id starts over.
register_demand(d) ==
    /\ bench = "idle" /\ Spend("writes")
    /\ stage' = [stage EXCEPT ![d] = "gap_discovered"]
    /\ bench' = "mutated"
    /\ UNCHANGED <<app, approval, supervised, todos, savedTodos, fresh, page>>

\* demand.phase.advance
advance_phase(d, next) ==
    /\ bench = "idle" /\ stage[d] # Absent /\ Spend("writes")
    /\ next \in PhaseTransitions[stage[d]]
    /\ stage' = [stage EXCEPT ![d] = next]
    /\ bench' = "mutated"
    /\ UNCHANGED <<app, approval, supervised, todos, savedTodos, fresh, page>>

\* PersistMiddleware: the todos from the table the write left ...
SyncStateViews ==
    /\ bench = "mutated"
    /\ todos' = sync_request_todos(todos, app)
    /\ bench' = "synced" /\ fresh' = TRUE
    /\ UNCHANGED <<app, approval, stage, supervised, savedTodos, page, benchBudget>>

\* ... and the snapshot into its row.
SaveSnapshot ==
    /\ bench = "synced"
    /\ savedTodos' = todos
    /\ bench' = "idle"
    /\ UNCHANGED <<app, approval, stage, supervised, todos, fresh, page, benchBudget>>

\* The skill raises after its first commit, or the snapshot cannot be saved.
WriteFails ==
    /\ bench # "idle"
    /\ bench' = "idle"
    /\ UNCHANGED <<app, approval, stage, supervised, todos, savedTodos, fresh, page,
                   benchBudget>>

\* The importer, in a process of its own, brings an application of the old
\* platform.
ImportApplication(a, s) ==
    /\ ~IsRuntimeCard(a) /\ s # app[a] /\ Spend("outside")
    /\ app' = [app EXCEPT ![a] = s]
    /\ approval' = approval \union {a}
    /\ UNCHANGED <<stage, supervised, todos, savedTodos, bench, fresh, page>>

\* A restart loads the saved snapshot and computes the todos before anything
\* is served.
RestartBrain ==
    /\ Spend("outside")
    /\ todos' = sync_request_todos(savedTodos, app)
    /\ savedTodos' = todos'
    /\ bench' = "idle" /\ fresh' = TRUE
    /\ page' = [v \in Viewers |-> NoPage]
    /\ UNCHANGED <<app, approval, stage, supervised>>

BenchInit ==
    /\ app = [a \in Apps |-> Absent]
    /\ approval = {} /\ supervised = {}
    /\ stage = [x \in Entries \union Assets \union BenchCases \union Demands |-> Absent]
    /\ todos = {} /\ savedTodos = {}
    /\ bench = "idle" /\ fresh = TRUE
    /\ page = [v \in Viewers |-> NoPage]
    /\ benchBudget \in BenchBudgets

BenchNext ==
    \/ \E v \in Viewers : \/ OpenWorkbench(v) \/ ShowWorkbench(v)
                          \/ OpenSnapshot(v) \/ ShowSnapshot(v)
    \/ \E a \in Apps, s \in CardStatuses : MoveCard(a, s)
    \/ \E e \in Entries, st \in EntryStages : MoveStage(e, st)
    \/ \E x \in Assets, st \in AssetStages : MoveStage(x, st)
    \/ \E c \in BenchCases, st \in CaseStages : MoveStage(c, st)
    \/ \E c \in BenchCases : EscalateCase(c)
    \/ \E d \in Demands : register_demand(d)
    \/ \E d \in Demands, next \in DOMAIN PhaseTransitions : advance_phase(d, next)
    \/ \E a \in Apps, s \in ImportedStatuses : ImportApplication(a, s)
    \/ SyncStateViews \/ SaveSnapshot \/ WriteFails \/ RestartBrain

BenchSpec == BenchInit /\ [][BenchNext]_benchVars

-----------------------------------------------------------------------------
(* Properties                                                              *)

\* Once the todos have been computed, every card has exactly the todos of its
\* status: none of an earlier status is left, whose inline decision would run
\* against an application that has moved on, also after failed saves and
\* restarts (command/sync.py:200, demo_state_sync.remove_todo).
TodosTellStatus ==
    fresh => todos = UNION {TodosOf(a, app[a]) :
                                a \in {b \in Apps : IsRuntimeCard(b) /\ app[b] # Absent}}

\* The organisations a row is about.
PartiesOf(id) ==
    IF id \in Apps THEN {AppOf[id].applicantOrg, AppOf[id].provider}
    ELSE IF id \in Entries THEN {EntryOf[id].owner}
    ELSE IF id \in Assets THEN {AssetOf[id].owner}
    ELSE IF id \in BenchCases THEN {CaseOf[id].complainant, CaseOf[id].provider}
    ELSE {}

\* The market: published resources, for every department.
Market == {"discovery"}

\* Inboxes that project_provider_inbox does not cut to the reader's organisation.
UncutInboxes == {"publish_queue", "demand_matches", "objection_cases"}

\* The organisation of a viewer or, for a manager, one above the row's.
Belongs(v, o) ==
    LET org == ViewerOf[v].org
    IN /\ org # NoOrgCode
       /\ \E code \in {o, resolve_org_code(o)} :
             /\ code # NoOrgCode
             /\ \/ code = org
                \/ ViewerOf[v].role = MANAGER /\ code \in Subtree(org)

\* But for the market and, on a manager's provider page, the three uncut inboxes
\* (publications, demands, objections), a department's reader is shown only rows of
\* its organisation (a manager's subtree) and its own applications, whatever is
\* written between the queries of the page; without an organisation, nothing
\* (ReferenceService.org_in_scope and its callers, web_snapshot_redaction).
DepartmentSeesItsOwn ==
    \A v \in Viewers :
        (page[v].step \in {"workbench", "snapshot"} /\ ViewerOf[v].role \notin GlobalRoles)
        => \A r \in page[v].rows :
               \/ r.face \in Market
               \/ r.face \in UncutInboxes /\ ViewerOf[v].role = MANAGER
               \/ \E o \in PartiesOf(r.id) : Belongs(v, o)
               \/ /\ ViewerOf[v].org # NoOrgCode
                  /\ r.id \in Apps /\ IsMine(r.id, v)

\* In a department's snapshot every approval and every delivery task has its
\* request card, although the cards were read first and applications come in
\* between (enrich_approvals_snapshot, enrich_delivery_tasks_snapshot).
CardsBehindApprovals ==
    \A v \in Viewers :
        (page[v].step = "snapshot" /\ ViewerOf[v].role \notin GlobalRoles)
        => \A r \in page[v].rows :
               r.face \in {"approvals", "delivery_tasks"} => r.id \in RequestsIn(page[v].rows)

\* A viewer on whose desk the bar puts x: the role, and for a department the
\* organisation that provides it (the applicant for what came back).
HoldsOn(v, x) ==
    /\ Holder(x) = ViewerOf[v].role
    /\ \/ Holder(x) = BUSIAUDIT
       \/ Holder(x) = OPERATER /\ IsMine(x, v) /\ ViewerOf[v].org # NoOrgCode
       \/ Holder(x) = MANAGER /\ Belongs(v, IF x \in Apps THEN AppOf[x].provider
                                            ELSE IF x \in Entries THEN EntryOf[x].owner
                                            ELSE IF x \in Assets THEN AssetOf[x].owner
                                            ELSE CaseOf[x].provider)

\* Nothing waits unseen: whoever the progress bar names finds the object
\* among the rows of its pages (workbench_backlog_projection and
\* provider_snapshot_projection against lifecycle_timeline and _holder_for).
\* A draft is no one's task yet, and an accepted objection is on no page while
\* it waits for its investigation: see the README.
HolderFindsIt ==
    fresh =>
    \A v \in Viewers,
       x \in {a \in Apps : IsRuntimeCard(a)}
             \union {y \in Entries \union Assets \union BenchCases :
                        stage[y] \notin {"draft", "accepted"}} :
        HoldsOn(v, x) =>
            \E r \in BacklogPage(v, {t \in todos : t.role = ViewerOf[v].role})
                         \union LastRows(v, FirstRows(v)) :
                r.id = x /\ r.face \notin {"catalogs", "resources", "services", "disputes",
                                           "requests", "delivery_tasks"}

\* The two together: a department's page shows its own rows only, but for the
\* market and a manager's three uncut inboxes, and no approval or delivery task on
\* it is without its request card, whatever is written between the queries of the
\* page (org_in_scope, enrich_approvals_snapshot).
PagesInScope == DepartmentSeesItsOwn /\ CardsBehindApprovals

\* What a comment says of the objection inbox: the department's view of it is cut to
\* the organisations of complainant and provider elsewhere, with the disputes.  The
\* disputes are a page of their own; the inbox a manager loads lists every case in
\* process (project_provider_inbox).
ObjectionInboxCut ==
    \A v \in Viewers :
        (page[v].step = "snapshot" /\ ViewerOf[v].role \notin GlobalRoles)
        => \A r \in page[v].rows :
               r.face = "objection_cases" => \E o \in PartiesOf(r.id) : Belongs(v, o)

\* What waits for somebody reaches them and nothing else does: the to-dos are those
\* of the statuses, and the holder has the object on a page (sync_todos_for_request,
\* _holder_for).
WorkReachesHolder == TodosTellStatus /\ HolderFindsIt
=============================================================================
