---------------------------- MODULE ApprovalFlows ----------------------------
(***************************************************************************)
(* The approval flow engine (zw_brain/domain/approval_flow_schema.py): a   *)
(* table of templates that go draft -> preview -> live under a version per *)
(* code; its two siblings are FormTemplates and Recommendations.  An       *)
(* application that is submitted starts an approval case from the live     *)
(* flow of its scope (approval_flow_walker.py), or else from the baseline  *)
(* (approval_flow_baseline.py).                                            *)
(*                                                                         *)
(* A flow is a graph: what its inner nodes are and, for every node, the    *)
(* list of its branches.  The write lock makes the skills follow each      *)
(* other; what is not one commit can break in between.                     *)
(***************************************************************************)
EXTENDS Integers, Sequences, FiniteSets

CONSTANTS
    Codes,          \* codes of custom templates
    SharedTypes,    \* how a resource is shared, as _resolved_shared_type gives it
    Projects,       \* project codes
    Apps,           \* applications
    Line,           \* node codes between start and end, in the order of their levels
    Flows,          \* flows an administrator writes by hand
    None,           \* no project, no row, no next node
    MaxRows,        \* bound on rows of the template tables
    MaxManual       \* bound on handwritten templates

Inner == {Line[k] : k \in 1 .. Len(Line)}

ASSUME NoneAssumption == None \notin Projects \union Inner \union {"start", "end"}
ASSUME LineAssumption ==
    /\ Line \in Seq(Inner) /\ Line # <<>> /\ {"start", "end"} \cap Inner = {}
    /\ \A j, k \in 1 .. Len(Line) : Line[j] = Line[k] => j = k
ASSUME SharedTypesAssumption == SharedTypes \subseteq {1, 2}
ASSUME BoundsAssumption == MaxRows \in Nat /\ MaxManual \in Nat

Nodes == Inner \union {"start", "end"}

\* _VALID_CONDITION_KINDS with the priorities of the walker.
EdgePriority == [always |-> 0, on_decision |-> 1, expression |-> 2]

\* A payload that _validate_payload lets through, as far as the walk goes.
ValidFlows ==
    [type : [Inner -> {"approval", "notify"}], nodes : Seq(Inner),
     out : [Nodes -> Seq([to : Nodes, kind : DOMAIN EdgePriority])]]

ASSUME FlowsAssumption == Flows \subseteq ValidFlows

\* _BASELINE_BY_SHARED_TYPE.
BaselineCode == [t \in SharedTypes |->
                   IF t = 1 THEN "baseline_shared_conditional" ELSE "baseline_shared_unconditional"]

\* Only the seeder and the drafts from a sentence use the codes of a baseline.
ASSUME CodesAssumption == \A t \in SharedTypes : BaselineCode[t] \notin Codes

AllCodes == Codes \union {BaselineCode[t] : t \in SharedTypes}

VARIABLES
    rows,           \* all template rows, in the order of their creation
    cases,          \* approval cases, in the order of their creation
    commits         \* history: rows in the order they went live

flowVars == <<rows, cases, commits>>

-----------------------------------------------------------------------------
(* Flows.                                                                  *)

Types(flow, n) == IF n \in Inner THEN flow.type[n] ELSE n

Successors(flow, n) == {flow.out[n][k].to : k \in 1 .. Len(flow.out[n])}

\* The nodes that lie in every set closed under "step" that contains n.
ReachableFrom(n, step) ==
    {m \in Nodes : \A S \in SUBSET Nodes :
        n \in S /\ (\A x \in S : step[x] \subseteq S) => m \in S}

\* commit_to_live: some path leads from start to end.
AssertReachable(flow) == "end" \in ReachableFrom("start", [n \in Nodes |-> Successors(flow, n)])

\* The default branch: the first of those with the best priority (a stable
\* sort by priority, then the head); None without a branch.
PickNextEdge(flow, n) ==
    LET out == flow.out[n]
        best == {k \in 1 .. Len(out) : \A j \in 1 .. Len(out) :
                   EdgePriority[out[k].kind] <= EdgePriority[out[j].kind]}
    IN  IF out = <<>> THEN None ELSE out[CHOOSE k \in best : \A j \in best : k <= j].to

\* The walk from a node: the approval nodes it passes, or <<None>> at the end if
\* it runs into a circle or a dead end; "walk" goes on, given the nodes seen.
WalkOn(flow, walk, seen) ==
    [n \in Nodes \union {None} |->
        IF n = None \/ n \in seen THEN <<None>>
        ELSE IF n = "end" THEN <<>>
        ELSE (IF Types(flow, n) = "approval" THEN <<n>> ELSE <<>>)
             \o walk[seen \union {n}][PickNextEdge(flow, n)]]

WalkFrom(flow) ==
    LET walk[seen \in SUBSET Nodes] == WalkOn(flow, walk, seen)
    IN  walk[{}]["start"]

Failed(steps) == \E k \in 1 .. Len(steps) : steps[k] = None

\* Mutant: a walk without an approval is as good as any.
WalksAnyway(flow) == ~Failed(WalkFrom(flow))

\* instantiate_steps_from_schema raises ApprovalFlowWalkError unless the walk
\* reaches the end and passes an approval.
Walks(flow) == ~Failed(WalkFrom(flow)) /\ WalkFrom(flow) # <<>>

\* What nl_draft and the baseline payloads are: a line of approvals, listed
\* in the order of the line.
LinearFlow(levels) ==
    LET after(k) == IF k = levels THEN "end" ELSE Line[k + 1]
        level(n) == CHOOSE k \in 1 .. Len(Line) : Line[k] = n
    IN  [type |-> [n \in Inner |-> "approval"],
         nodes |-> SubSeq(Line, 1, levels),
         out |-> [n \in Nodes |->
                    CASE n = "start" -> <<[to |-> Line[1], kind |-> "always"]>>
                      [] n \in Inner /\ level(n) <= levels ->
                           <<[to |-> after(level(n)), kind |-> "on_decision"]>>
                      [] OTHER -> <<>>]]

\* The conditional baseline has all levels, the unconditional one level.
BaselinePayload(t) == LinearFlow(IF t = 1 THEN Len(Line) ELSE 1)

\* start_approval_workflow_from_baseline takes the approval nodes in the
\* order they are listed in.
ListedApprovals(flow) ==
    LET at == {k \in 1 .. Len(flow.nodes) : Types(flow, flow.nodes[k]) = "approval"}
        rank(k) == Cardinality({j \in at : j <= k})
    IN  [p \in 1 .. Cardinality(at) |-> flow.nodes[CHOOSE k \in at : rank(k) = p]]

-----------------------------------------------------------------------------
(* Templates.                                                              *)

RowsOf(code) == {i \in 1 .. Len(rows) : rows[i].code = code}

MaxVersion(code) ==
    LET versions == {rows[i].version : i \in RowsOf(code)} \union {0}
    IN  CHOOSE v \in versions : \A w \in versions : w <= v

Manual == {i \in 1 .. Len(rows) : rows[i].source = "manual"}

NewRow(code, flow, scope, source, status, version) ==
    rows' = Append(rows, [code |-> code, flow |-> flow, scope |-> scope, source |-> source,
                          status |-> status, version |-> version])

NoScope == [type |-> 0, project |-> None]

FlowsInit ==
    /\ rows = <<>>
    /\ cases = <<>>
    /\ commits = <<>>

\* create_draft with a valid payload: the next version of its code.
create_draft(code, flow, scope, source) ==
    /\ Len(rows) < MaxRows
    /\ source = "manual" => Cardinality(Manual) < MaxManual
    /\ NewRow(code, flow, scope, source, "draft", MaxVersion(code) + 1)
    /\ UNCHANGED <<cases, commits>>

\* A flow somebody wrote, with the scope it is meant for.
ManualFlow(code, flow, scope) == create_draft(code, flow, scope, "manual")

\* approval_flow.nl_draft: a linear flow from a sentence, without a scope.
nl_draft_flow(code, levels) ==
    create_draft(code, LinearFlow(levels), NoScope, "nl_draft")

promote_to_preview(i) ==
    /\ rows[i].status = "draft"
    /\ rows' = [rows EXCEPT ![i].status = "preview"]
    /\ UNCHANGED <<cases, commits>>

revert_to_draft(i) ==
    /\ rows[i].status = "preview"
    /\ rows' = [rows EXCEPT ![i].status = "draft"]
    /\ UNCHANGED <<cases, commits>>

\* max(existing_max + 1, version + 1).
CommittedVersion(i) == MaxVersion(rows[i].code) + 1

GoLive(i) ==
    /\ rows' = [rows EXCEPT ![i].status = "live", ![i].version = CommittedVersion(i)]
    /\ commits' = Append(commits, i)
    /\ UNCHANGED cases

\* ApprovalFlowSchemaRepo.commit_to_live: the end has to be reachable.
commit_flow(i) ==
    /\ rows[i].status = "preview"
    /\ AssertReachable(rows[i].flow)
    /\ GoLive(i)

\* ApprovalFlowBaselineSeeder.seed_all for one baseline: nothing if it is
\* live already; otherwise drafted, promoted and committed, three commits of
\* which the later may fail.
seed_baseline(t) ==
    /\ ~\E i \in RowsOf(BaselineCode[t]) : rows[i].status = "live"
    /\ Len(rows) < MaxRows
    /\ LET drafted == MaxVersion(BaselineCode[t]) + 1 IN
       \/ /\ NewRow(BaselineCode[t], BaselinePayload(t), NoScope, "seed", "live", drafted + 1)
          /\ commits' = Append(commits, Len(rows) + 1)
       \/ \E status \in {"draft", "preview"} :
             /\ NewRow(BaselineCode[t], BaselinePayload(t), NoScope, "seed", status, drafted)
             /\ UNCHANGED commits
    /\ UNCHANGED cases

-----------------------------------------------------------------------------
(* Cases.                                                                  *)

LiveFlows == {i \in 1 .. Len(rows) : rows[i].status = "live"}

\* Order by version, descending; rows of equal version in any order.
Highest(S) == {i \in S : \A j \in S : rows[j].version <= rows[i].version}

InScope(i, shared, project) ==
    rows[i].scope.type = shared /\ rows[i].scope.project = project

\* The highest live flow for the project, else the highest for all projects.
find_live_for_scope(shared, project) ==
    LET exact == {i \in LiveFlows : project # None /\ InScope(i, shared, project)}
        wildcard == {i \in LiveFlows : InScope(i, shared, None)}
    IN  IF exact # {} THEN Highest(exact) ELSE Highest(wildcard)

FindLiveBaseline(shared) ==
    Highest({i \in LiveFlows : rows[i].code = BaselineCode[shared]})

Case(app, shared, project, row, matched, steps) ==
    [app |-> app, shared |-> shared, project |-> project, row |-> row, matched |-> matched,
     steps |-> steps, asOf |-> Len(commits)]

\* start_approval_workflow_from_schema: walked before anything is written.
CaseFromSchema(app, shared, project) ==
    \E i \in find_live_for_scope(shared, project) :
        /\ Walks(rows[i].flow)
        /\ cases' = Append(cases, Case(app, shared, project, i, i, WalkFrom(rows[i].flow)))

\* The fallback, if no flow is in scope or the walk of the chosen one fails.
CaseFromBaseline(app, shared, project) ==
    /\ \E b \in FindLiveBaseline(shared),
          m \in (IF find_live_for_scope(shared, project) = {} THEN {None}
                 ELSE {i \in find_live_for_scope(shared, project) : ~Walks(rows[i].flow)}) :
          cases' = Append(cases, Case(app, shared, project, b, m, ListedApprovals(rows[b].flow)))

\* _maybe_start_approval_workflow, once per application, when it is submitted.
\* It may fail, or find no baseline: the application goes on without a case.
StartWorkflow(app, shared, project) ==
    /\ \A k \in 1 .. Len(cases) : cases[k].app # app
    /\ \/ CaseFromSchema(app, shared, project)
       \/ CaseFromBaseline(app, shared, project)
    /\ UNCHANGED <<rows, commits>>

-----------------------------------------------------------------------------
FlowsNext ==
    \/ \E code \in Codes, flow \in Flows, t \in SharedTypes, p \in Projects \union {None} :
          ManualFlow(code, flow, [type |-> t, project |-> p])
    \/ \E code \in AllCodes, levels \in 1 .. Len(Line) : nl_draft_flow(code, levels)
    \/ \E i \in 1 .. Len(rows) :
          promote_to_preview(i) \/ revert_to_draft(i) \/ commit_flow(i)
    \/ \E t \in SharedTypes : seed_baseline(t)
    \/ \E app \in Apps, t \in SharedTypes, p \in Projects \union {None} :
          StartWorkflow(app, t, p)

FlowsSpec == FlowsInit /\ [][FlowsNext]_flowVars

-----------------------------------------------------------------------------
\* Two rows of a code never share a version: the UNIQUE constraint of the
\* tables, which would fail the skill, is never met, whatever order rows of a
\* code are drafted, reverted and committed in.
VersionsUnique ==
    \A i, j \in 1 .. Len(rows) :
        rows[i].code = rows[j].code /\ rows[i].version = rows[j].version => i = j

\* The default branches as a relation, and the nodes on the route along them to
\* the end, where it stops.
Default(flow) ==
    [n \in Nodes |-> IF n = "end" THEN {} ELSE {PickNextEdge(flow, n)} \ {None}]

OnRoute(flow) ==
    LET step == Default(flow)
    IN  {n \in ReachableFrom("start", step) : "end" \in ReachableFrom(n, step)}

\* A case has every approval on the default route of its flow, each once, in
\* the order of the route, and nothing else; and the baseline stands in only
\* if no flow is in scope or the one in scope has no such route.
CaseFollowsFlow ==
    \A k \in 1 .. Len(cases) :
        LET c == cases[k]
            flow == rows[c.row].flow
            approvals == {n \in OnRoute(flow) : Types(flow, n) = "approval"}
        IN  /\ approvals # {}
            /\ {c.steps[s] : s \in 1 .. Len(c.steps)} = approvals
            /\ Len(c.steps) = Cardinality(approvals)
            /\ \A s \in 1 .. Len(c.steps) - 1 :
                  c.steps[s + 1] \in ReachableFrom(c.steps[s], Default(flow))
            /\ c.matched \notin {None, c.row}
               => \A n \in OnRoute(rows[c.matched].flow) :
                     Types(rows[c.matched].flow, n) # "approval"

Position(i) == CHOOSE k \in 1 .. Len(commits) : commits[k] = i

\* The flow that drives a case is the one committed last among the flows of
\* its code with its scope: an older version never comes back to life, and a
\* flow for all projects never replaces one for the project.
LatestCommitWins ==
    \A k \in 1 .. Len(cases), j \in 1 .. Len(commits) :
        LET c == cases[k]
            other == rows[commits[j]]
        IN  /\ j <= c.asOf /\ other.code = rows[c.row].code
               /\ other.scope = rows[c.row].scope
               => j <= Position(c.row)
            /\ j <= c.asOf /\ c.matched # None /\ c.project # None
               /\ other.scope = [type |-> c.shared, project |-> c.project]
               => rows[c.matched].scope = other.scope

\* Templates and the cases started from them agree: versions of a code are unique,
\* a case takes the flow of its scope that went live last, and its steps are the
\* approvals on the flow's way (commit_to_live, find_live_for_scope, the walker).
FlowsAgree == VersionsUnique /\ CaseFollowsFlow /\ LatestCommitWins
=============================================================================
