# TLA+ models of zw-brain

zw-brain is a Python service for sharing government data. Departments apply for
resources, reviewers decide, access is granted and delivered, and every write is
audited and anchored on a chain. All work goes through *skills*: an entry surface
(REST, MCP, A2A, CLI) calls `BrainService.invoke_skill`, which checks policy, runs a
handler, and for a write runs it inside a chain of middlewares.

This directory models the parts where state changes in several steps or by several
actors, checks them with TLC on small instances and proves most of the safety properties
with TLAPS for all instances.

## Inventory

| Component | State | Operations | Hard part |
|---|---|---|---|
| Skill dispatch (`command/brain.py`) | dispatch depth, in-memory snapshot | `invoke_skill`, policy gate, nested dispatch | one `BrainService` under `ThreadingMixIn`: all threads share it |
| Skill pipeline (`command/pipeline.py`, `pipeline_ops.py`) | write lock | audit before/after/error, `capability_call` row, anchor row, persist | many ways out of the chain; each step may fail |
| Card session (`command/card_session.py`) | identity map of loaded cards | get, add, flush, clear | shared by all threads, not protected by the lock |
| Anchor outbox (`background_tasks`, `shared/database_store.py`) | `anchor_outbox`, `audit_receipt`, leases | list, claim, anchor, record, mark; start, stop | replicas, crashes, slow calls |
| Application lifecycle (`handlers/j1`, `domain/services`) | application status, decisions, delivery task, credential | create to backflow | long sequences of legal calls, guards spread over handlers |
| Delivery (`handlers/j1/delivery.py`, `repositories/delivery.py`) | task, receipts, attempts, evidence, metrics, subscriptions | exchange, download, ingest, reconcile, withdraw, subscribe | several commits per skill, callers that try again |
| Conditional approval and the approval file (`conditional_approval.py`, `repositories/approval.py`) | status, payload, case, steps, decisions | accept, review, resubmit; mirror | checks before the lock, four writers of one case |
| Approval flows, forms, rules | templates with versions, cases started from them | draft, promote, revert, commit, walk | order of commits, graphs that lead nowhere |
| Objection and compliance cases | a case each, its evidence, its mirror | accept, assign, evaluate, escalate, close | the table a case moves by changes under it; a mirror that may fail |
| Catalog entries and assets | status, owner, review note | draft, submit, review, mount, publish | status and owner read before the lock |
| Topic packages | package, items, visibility, evidence, trail | configure, submit, review, publish; two importers | importers commit step by step |
| Capability packages, policy candidates | snapshot, package and policy tables | register, review, enable, disable, roll back | a sync that skips what it believes written |
| Sessions and identity | sessions, tokens, actor rows, bindings | login, refresh, logout; claim, assign, import, repair | refresh races, rows of one person under two keys |
| Entry surfaces | quota windows, trust levels | admit or refuse a call | each surface checks in its own place |
| Agent runtime bridge | agent switches, tasks of an external service | start, poll, wait, resume | lost and late answers |
| Audit bus and store | two event tables | append, query, replay, scan | one sink fails, limits cut the answer |
| Legacy migration | mapping rows, run records, canonical rows | import, repeat, verify, roll back | order of rows, crashes between commits |
| Snapshot projections and to-dos | the to-do list of the snapshot | recompute on every write, page per role | stale to-dos, filters that do not meet |
| National channel | channel state, compilation tasks, run records | escalate, compile, review, sync, revoke | an answer that is lost after acceptance |
| Form autofill | values and provenance of the form's fields, on the card | fill at creation, edit, propose, derive, submit | rules and the assistant write over what persons wrote |
| Recommendation | rules with versions, registered requirements | draft, promote, revert; score | resources that close while the engine is in use |
| Search | none of its own | reads | none for a model checker |
| Frontend, scripts, schema migrations | none at run time | | none for a model checker |

`PROJECT.json` lists every component with its sources and, for the ones left out, why.

Interaction: a handler looks cards up in the card session (often *before* the write
bracket), the write bracket takes the lock, audits, runs the handler's closure, mirrors
the aggregates, leaves an outbox row, flushes the cards, recomputes the to-dos, saves the
snapshot, records the call and audits again. An anchor worker takes the outbox rows from
there. Approvals end with a nested dispatch that issues the credential. Reads take no
lock. Importers, the rollback and the repair script are processes of their own that share
only the database.

## Modules

| Module | Models |
|---|---|
| `AnchorLedger` | what anchoring promises (abstract) |
| `AnchorOutbox` | outbox table, leases and drain loops; implements `AnchorLedger` |
| `WritePipeline` | dispatch, card session and middleware chain, one thread per request |
| `ConditionalFlow` | what conditional sharing promises (abstract) |
| `ApplicationLifecycle` | all skills on applications, one after the other; implements `ConditionalFlow` |
| `OverlappingSkills` | creation, decisions, credentials and grants split into check and write, overlapping |
| `ApprovalRecords` | the approval file and its four writers, commit by commit |
| `DeliveryRecords` | receipts, attempts, evidence, metrics and subscriptions, commit by commit |
| `FormFill` | the form of an application: field values, where they come from, derivation rules, proposals |
| `ApprovalFlows` | templates of approval flows, and the cases started from them |
| `FormTemplates` | templates of forms, by hand or from a sentence, and the page made of one |
| `Recommendations` | recommendation rules, their scoring and what it leaves out |
| `ObjectionCases` | objections over both transition tables |
| `ComplianceCases` | compliance cases, their mirror and the saved snapshot |
| `ResourceCatalog` | catalog entries and assets |
| `TopicPackages` | topic packages, their skills and their importers |
| `CapabilityPackages` | packages, tenant policy and the sync that follows a write |
| `PolicyCandidates` | legacy permissions reviewed into tenant policy, and its evaluation |
| `ActorIdentity` | actor rows and role bindings: login, administration, import, repair |
| `Sessions` | browser sessions, token refresh, both stores, live roles |
| `SkillAccess` | how a call of each surface gets its role and is let through or refused |
| `AgentRuntime` | agent switches and agent tasks; uses the permissions of `SkillAccess` |
| `AuditTrail` | the bus with its two sinks and the skills that read the trail |
| `LegacyMigration` | runs, run records, mapping rows, verification and rollback |
| `LegacyRows` | what every mapper writes for its rows, in any order |
| `Workbench` | to-dos, inboxes and pages of the roles |
| `NationalChannel` | gate, client, escalations, compilation tasks, adapter records |
| `AnchorOutboxProofs` | theorems about `AnchorOutbox` and its refinement, `AgentRuntime` and `SkillAccess` |
| `ApplicationLifecycleProofs` | theorems about `ApplicationLifecycle` and its refinement, and about `Sessions` |
| `WritePipelineProofs` | theorems about `WritePipeline` and `Workbench` |
| `OverlappingSkillsProofs` | theorems about `OverlappingSkills`, `ApprovalRecords`, `DeliveryRecords` and `FormFill` |
| `ResourceCatalogProofs` | theorems about `ResourceCatalog`, `ApprovalFlows`, `FormTemplates` and `Recommendations` |
| `TenantProofs` | theorems about `PolicyCandidates`, `CapabilityPackages`, `ActorIdentity` |
| `MigrationProofs` | theorems about `LegacyMigration`, `TopicPackages` |
| `RegisterProofs` | theorems about `ObjectionCases`, `NationalChannel`, `ComplianceCases`, `AuditTrail`, `LegacyRows` |
| `MC*` | the instances TLC checks; `AnchorOutbox` and `WritePipeline` need none and have a `.cfg` of their own |

A module that mutates a definition for a sanity run keeps the mutated form next to it,
marked *Mutant*: the runs' properties fail when the mutant takes the definition's place
(`PROJECT.json`, "mutants"). Where a property is a conjunction (`WritesKept`,
`DeliveryTrailKept`, ...), every conjunct has a comment of its own, and most have a
mutant of their own in the module.

### AnchorOutbox

An outbox row is a content hash. `created`, `delivered` and `receipt` are its columns and its
`audit_receipt` row; `lease` is what is left of `_ANCHOR_CLAIM_LEASE_SECONDS` since
`claimed_at`, so the claim's WHERE clause is `Claimable`. Every database call of `_drain_outbox`
is a transaction and an action; between any two, other workers run, time passes (`Tick`), the
call raises (`PassRaises`, `AnchorRaises`: `_run` logs and ends the pass) or the process dies
(`Crash`). A failed anchor may or may not have reached the chain. `chainTx` counts what the
chain, which is external, holds. `claims` and `lapses` are history.

Only `run_once`, which also drains an in-memory queue nobody fills, is left out: the
running service does not call it.

### WritePipeline

A dispatch is a request in its own thread, at a stage (`pc`) of `invoke_skill` and of
the chain. The content of a card, row or snapshot is the set of dispatches whose
mutation it contains: enough to say that a write was lost or that something failed
left a trace. Card objects have an identity (`heap`, `ref`), because the question is
whether the object a handler changes is still the one the session flushes. Handlers
come in the four shapes of the code: look up before the bracket, look up inside,
create, read.

Atomicity: the depth test, the clear and the increment of `invoke_skill` are separate
steps; the increment itself is one (CPython switches threads only on calls and backward
jumps, neither of which occurs inside `x += 1` on an attribute). A miss of `get_*` is a
load and a registration. `flush` visits one card at a time, and raises when the size of
its dict changed meanwhile, as Python does. The database's own transactions are atomic.

Abstracted: the three card maps are one; a dispatch writes one card; nested dispatches
(the credential after an approval) and traced reads are not there; the audit bus is one
call that succeeds or raises (its inside is `AuditTrail`); the to-do projection is part of
`Persist` (its inside is `Workbench`).

### ApplicationLifecycle, OverlappingSkills

`ApplicationLifecycle`: one action per skill, its guard the handler's early returns, the
automatic credential after an approval included (`AutoIssue`: it may also fail, which
leaves the approval as it is). Resources are conditional (`shared_type` 2) or not; users
have an org; a resource is provided by one. Users and orgs are taken to be known: with an
empty org or actor the guards of `policy.py` decide differently. The database mode is
modelled, in which `review_application_record` is the one-step review. Renewals and form
edits change none of the state here.

`OverlappingSkills`: the skills that check before the lock and write under it are two
actions, a `Check` that keeps what it read and a commit that writes from it; withdrawals
look the card up inside and are one. `append_conditional_step` commits by itself, so a
bracket can break between the step and the status. A secret is the set of seeds it was
signed from. `GrantsInOrder` holds with overlap: what is granted has both decisions
(`GrantedHasBothSteps`), a secret changes only when a reissue was asked for and nothing is
signed before its review (`CredentialsInOrder`). Two creations that overlap both look for a
draft before either writes one: run `two_drafts` shows the two drafts.

### ApprovalRecords, DeliveryRecords

Both cut a skill into its commits, each a database session of its own, and let any of them
fail (`BreakOff`, `Fails`). `ApprovalRecords` has the case, its steps and decisions, and
the status column of the application; a step is what its number, name, status and audit
id say. `ApprovalFileKept`: the step of a committed decision stays on file through all
later flushes and broken writes, the steps of the engines are numbered as they say, and
the file tells the status of the card.

`DeliveryRecords` has one skill at a time, also those of other parts that move a task's
card (`confirm_backflow`; `MoveTask` for supplements, summaries and decisions). A runtime
task is flushed from its card; an imported one has a card made up from its row.
`upsert_from_delivery` looks for the receipt that is the card's projection, by its number
or by what its body holds. `DeliveryTrailKept`: evidence has its attempt and agrees with
it, an answered download link has one receipt, the card tells what was acknowledged last,
and a reader of `delivery.view` is told the same, unless the receipt is a numbered one of a
partner that holds a note, a backflow or a history: the same skill's flush takes it for the
projection and writes over it. `shown` is "any" where the code tells something else on
purpose or by the deviations below.

### FormFill

A form is the value of each field and its provenance; fields that the code treats alike
are one. `derive` is the bounded iteration over the two rules, `orchestrate_fill` and
`apply_human_edit` are built on it as in the code, and the organ and region tables change
between two skills. The histories `typed` and `writer` say who wrote what without looking
at the provenance. `FormKept`: what a person wrote or cleared stays, a chosen region until
an organ gives one; names are those of their codes in the data last read; a field the page
shows as editable keeps what is entered; the audit of a submission names exactly the texts
that nobody wrote, as long as the form is under review.

### ApprovalFlows, FormTemplates, Recommendations

Three tables of templates that go from draft to live, with a version per code. A flow is a
graph given by its nodes and their branches; the walk takes the default branch from node
to node and is compared with the reference `CaseFollowsFlow`. A form is its sections,
fields and validators; a page is what `FormTemplates` makes of it, a sentence what the
drafting reads into one. `Recommendations` scores catalogs clause by clause and leaves out
the resources that are closed. Each of the three keeps the versions of its rows apart. In
`FlowsAgree` the latest commit is the one an application finds and its case follows the
flow, in `FormsAgree` a page keeps what its form says and a sentence makes a form that is
accepted as a draft, and in `RulesAgree` a closed resource is never suggested.

### ObjectionCases, ComplianceCases

Which table an objection moves by follows from its evidence each time; accept and assign choose
before the lock. A creation takes any status its caller names (`CreateStates`), an assignment
any target the table allows (`AssignTargets`, "resolved" included, although the manifest lists
only the investigations). `ClosedAfterReview`: what is resolved, closed or evaluated was
reviewed, but for a case that was created at such an end or assigned to be resolved (histories
`createdAs`, `assignedEnd`). `CasesEndOnce` holds whatever callers name, as the transition is
checked again under the lock. A compliance case lives in the snapshot: a skill checks before the
lock, changes memory, mirrors the changed cases to objection rows (failures are swallowed, the
fingerprint stays) and saves. `RegisterMirrored`: a row that no failure and no other skill
touched says what the case says, also its content.

### ResourceCatalog, TopicPackages

Entries and assets with their statuses, owners and notes; approving, submitting and
mounting are a check and a commit. A new asset has the lifecycle status its caller names
(`AssetStarts`). `NoStaleReason`: nothing approved shows the reason of
an earlier return. `ReviewsAndOwnersKept`: approvals come in the order of the roles and a
mount keeps the owner, unless another request wrote between check and commit, which the
property spells out. A topic package's skills are single transactions; its importers are
not. A package starts in the status its caller names (`PackageStarts`) or the number of its
old zone says (`ZoneStatuses`). `PackagesAccounted`: the trail tells the status, a package is
published out of a submission or out of a creation as waiting to go offline, an import that
comes to its end leaves what its row says whatever an earlier one left behind, and a catalog
of a package is found only through a published one.

### CapabilityPackages, PolicyCandidates, ActorIdentity

A package is in the shared snapshot, its row and policy in two tables; the sync skips what its
fingerprint says is written. `TablesFollowDecisions`: enabling needs an approval, a skipped sync
is as good as a write, what is switched off stays off. A candidate's review plans all items and
then writes them one by one. The same policy row is written without a candidate by the skills on
the package of that slug (`PackageWrites`): applying and enabling put the caller's role in place
of all others, disabling leaves none, and a registration inserts the roles it names where there
is no row yet. A policy with no roles lets every role through, a disabled one nobody.
`PolicyHasApproval`: a role is in an enabled policy by an approved candidate or by whoever
registered or enabled the package with it (`granted`), and who is told "allowed" has such a
role, or one of the registry, or the package names none. An actor row is keyed by the provider's
sub or, before it is known, by the legacy user. `RevokedNotServed`: no revoked role is among the
role codes a login serves; `RowsTakenOverWhole`: a login does not revive a disabled row, and
taking a row over leaves nothing behind on its old key.

### Sessions, SkillAccess, AgentRuntime

A request of a session is a thread whose calls to store and provider are steps. `ServedAsHeld`:
a skill runs under a role that was held at some time during the request. `SessionsGoForward`: in
the in-process store an ended session stays ended and tokens are not replaced by older ones; in
either store a login state survives a failed exchange. A live session does not survive a lost
refresh race: the loser's token is refused and its request deletes the session, the winner's
with it. `RefusedForCause` says that this, and an answer of the provider that was lost with the
new token in it, are the only ways in which a refused token costs a live session.

`SkillAccess` follows a call through the stations of its surface, the daemons and the
one-shot commands of MCP and A2A (`ArriveOnce`, `EnterOnce`) apart, as the start gate and
the quota are the daemons' alone and A2A's one-shot command does not look at trust either.
`CallsByRight`: what is served had the right to it, acts where its role was assigned, came
from a trusted caller where the surface asks for one (`TrustRequired`), a refusal is on the
audit trail where the surface writes one, and the quota of the MCP daemon holds. That the
daemons and the command line serve the development identity only under the bypass, as their
docstrings say, is shown violated by run `dev_identity`. `AgentRuntime`
starts, polls and resumes tasks of an external service; `TasksInOrder`: a task was
allowed when it started, what a caller is told is what the service knew, and a waiting
call ends within its bound.

### AuditTrail

An event is stamped, then written to the store, then to the main table; either may fail.
`TrailComplete`: the store has all the main table shows, and nobody is given an answer from
the trail without an event about it. `TrailReadWhole`: a replay is in the order of events
and the scan misses no failure it has room for.

### LegacyMigration, LegacyRows

`LegacyMigration` keeps the accounts of an import: mapping rows, run records, receipts,
verdicts, rollback. `AmbiguousNeverMapped` and `AccountsAreTrue` (a succeeded record has
its rows, a succeeded run is complete, the repeated import adds nothing). `LegacyRows`
has the rows themselves: a dump is a set of rows read in any order, every mapper's handler
is an action with its commits, held-back rows come last and a crash starts over.
`RowsConverge`: a pass that ends leaves what the rows say, whatever the order and the
crashes before, and all along attempts have tasks, steps are numbered in order of time and
no two links of one triple are active. A node without a time counts with the time of its
import, so after all that have one, in the order the import made them (`ImportTime`).
`KeysMean` says what the keys of a dump mean.

### Workbench

To-dos are kept in the snapshot and recomputed by every write; pages are computed at every read
from several queries, between which writes may come. `PagesInScope`: a department sees its own
rows only, but for the market and for a manager's publish queue, demand matches and objection
inbox, which no filter cuts; and every approval and delivery task it sees has its request card.
A comment says that the objection inbox is cut elsewhere; run `uncut_inbox` shows that it is
not. `WorkReachesHolder` has two parts. `TodosTellStatus`: once computed, the to-dos are exactly
those of the cards' statuses. `HolderFindsIt`: the role a timeline names as the holder of an
entry, asset, application or case finds it in its inbox, the exceptions below left out.

### NationalChannel

The environment of the process decides the channel's state; the platform accepts, refuses,
or its answer is lost or garbled. `NationalHonest`: nobody is told that the platform took
something it did not take, no element is synchronised before both reviews, and run records
and mappings of one operation agree.

## Runs

| Run | Instance | Shows | States |
|---|---|---|---|
| `anchor_outbox` | 2 rows, 2 workers, lease 2, 1 fault | `DeliveredIsAnchored`, `OneTxPerLease`, `KeepsLedger` with liveness | 270 k |
| `overlapping_writes` | 2 requests of any kind on 1 card, 2 faults | `AuditedFirst`, `WritesKept`, `TrailCloses`, `EveryRequestEnds` | 522 k |
| `overlapping_skills` | 1 application and 2 requests; 1 file and 2 reviewers; 1 delivery and 3 skills; 1 fault each; 1 form, 5 skills, 2 states of the tables | `GrantsInOrder`, `ApprovalFileKept`, `DeliveryTrailKept`, `FormKept` | 1.9 M |
| `resource_catalog` | 1 entry, 1 asset, 2 orgs, 2 requests | `NoStaleReason`, `ReviewsAndOwnersKept` | 2.0 M |
| `sessions` | 1 session, 2 requests, 2 token generations, either store; 2 applications, 2 resources, 2 users | `ServedAsHeld`, `SessionsGoForward`, `ApprovedByTheBook`, `CredentialAfterApproval`, `KeepsConditionalFlow` | 4.7 M |
| `legacy_migration` | 2 schemas, 2 codes, 2 dumps each, 2 runs, 1 fault, 1 rollback; 1 topic package, 4 review rows, 1 crash | `AmbiguousNeverMapped`, `AccountsAreTrue`, `PackagesAccounted` | 3.2 M |
| `approval_flows` | 3 flow templates and 1 application; 3 forms of 2 tenants; 3 rules, 2 resources, 3 changes or suggestions | `FlowsAgree`, `FormsAgree`, `RulesAgree` | 743 k |
| `access` | 1 call by every way in, 1 change by an administrator, 1 audit fault; 2 jobs of 1 agent; 1 package, 2 requests, 4 calls, 2 faults; 3 candidates; 2 users of one sub, 3 edits, 2 imports | `CallsByRight`, `TasksInOrder`, `TablesFollowDecisions`, `PolicyHasApproval`, `RevokedNotServed`, `RowsTakenOverWhole` | 2.1 M |
| `registers` | 1 objection, 2 calls in flight; 2 passes over small dumps; 2 audit threads; 4 viewers; 1 element; 2 compliance cases | `ClosedAfterReview`, `CasesEndOnce`, `RowsConverge`, `TrailComplete`, `TrailReadWhole`, `PagesInScope`, `WorkReachesHolder`, `NationalHonest`, `RegisterMirrored` | 1.5 M |

Three runs show that what a comment promises does not hold:

| Run | Violated | Shows |
|---|---|---|
| `two_drafts` | `OneDraftPerResource` | two overlapping `request.create` calls both find no draft (`request.py:219`) and write two |
| `uncut_inbox` | `ObjectionInboxCut` | a manager's inbox lists an objection between other organisations (`provider_snapshot_projection.py:444`) |
| `dev_identity` | `DevIdentityUnderBypass` | MCP, A2A's one-shot command and the command line serve the development identity without the bypass (`mcp/server.py:396`) |

`sessions`, `access`, `overlapping_skills`, `legacy_migration`, `approval_flows` and
`registers` hold several modules that share no state. Each such MC module has a variable
`focus`: the initial state chooses one module, only that one moves, and the others stay as
they started. The run is the union of the modules' own state spaces, and no interleaving is
lost, as there is nothing for them to share.

Bounds. Two workers or two requests are enough for every race between a pair, and the
races found are between pairs; a third would only repeat a role. A lease of two ticks
lets time pass within a lease and lets it lapse. One fault is a failure at any point,
followed by a recovery; two in the pipeline run let a failing error path follow a failure.
Skills on different applications share nothing but the checks of `create_request`, for
which there are two. Two rounds reach every resubmission. Two token generations are an old
and a new one; one session meets itself in two requests. Two runs of an import are an
import and its repetition, two codes an ambiguity. The dumps of `LegacyRows` put together
the rows that refer to each other, in all orders; rows that do not are independent. Three
template rows are a live one, its successor and a draft. Histories are capped by
`MaxTrail`, `MaxOps`, `MaxCalls`, `MaxEdits`, `MaxCaseSteps`, budgets per kind of step
(`BenchBudgets`) and the like, all named in the modules. What is proved holds for all
values anyway.

`CHECK_DEADLOCK FALSE` is set where a bounded history comes to its end; elsewhere a
finished system has an explicit stuttering step (`Quiet`, `Closed`) or always something to
do. Symmetry is used over interchangeable requests, threads and codes, and only for
invariants and properties of single steps.

Fairness. `AnchorOutbox`: a worker's loop keeps running, its anchor call comes back, a
stopped or dead service is started again, and time passes. The code sets no timeout on
the anchor call, so a call that hangs forever stops its worker; that is excluded by
assumption. Faults are finitely many. `WritePipeline`: every thread keeps running and
the lock goes round (weak fairness of a thread's whole step suffices, as the requests
are finitely many). The other modules state safety only and assume no fairness.

## Proofs

Every theorem holds for any value of the constants that meets the named assumptions of the
modules. These say no more than that marker values (`Nobody`, `NoApp`, `Idle`, `None`...)
are none of the things they are told apart from, that the tables of the instance have
their types, that bounds are numbers, and that requests, workers and schemas are finitely
many. Most of the invariants below were also checked by TLC as invariants of the run
before they were proved. In each module the step lemmas come one per action or group of
actions, with frame lemmas for what the other threads and records keep.

`AnchorOutboxProofs`. `OneTxPerLease` is not inductive: a worker may be about to anchor a
row on a claim made long ago. The strengthening counts: the transactions of a row together
with the workers between claim and anchor are no more than its claims (`TxPaid`), and its
claims are no more than its lapses, plus one while a lease is running (`ClaimsPaid`; a
delivered row keeps the plus one). For `DeliveredIsAnchored` a worker that holds a receipt
names a real transaction (`ReceiptsReal`) and one about to mark a row has its receipt
stored (`ReceiptFirst`). `ImplementsLedger` maps each step to a step of `AnchorLedger` or
a stutter. The same module holds `TasksStayInOrder`, about `AgentRuntime`: by the step a
request has reached, the agent was startable for its role when it passed the check
(`AllowedOK`), an end it holds of a task is one the service has said (`ToldOK`), and the
time it has used is bounded (`TimeOK`). `RuntimeAssumption` keeps the markers
for no state and no task apart from states and tasks.

`CallsAreByRight`, about `SkillAccess`, is in it too. Rights change while a call is under way,
so a call is compared with every pair of role and organisation that was bound during it
(`SeenOK`). By the station it has passed: its roles come from its identity or from the pairs of
its session (`SourceOK`), a tool's call was trusted where trust is asked for (`TrustedOK`), past
`invoke_skill` it has a role the policy covers (`RightOK`), and a refusal is on record or its
audit was lost (`RecordOK`). Trust is asked for over MCP and by the A2A daemon only
(`TrustRequired`). For the quota, the window of a skill is the end of the list of what was
admitted and all before it has lapsed (`WindowIsEnd`). That filtering an ascending list drops an
initial segment of it is shown with the least element of a set of naturals (`LeastNatural`,
`InitialSegment`). `AccessAssumption` gives the tables of the instance their types and makes
limits natural numbers.

`ApplicationLifecycleProofs`. The invariants of one application rest on what each status
says about the record (`AppInv`): an undecided application has no approval on record,
`dept_approved` means accepted, a conditional application never has a one-step decision,
an unconditional one that is in the two-level lane (it was rejected and resubmitted) has
one, and the supplement chain starts with `approve_with_supplement`. A step touches one
application (`StepIsLocal`), so every action is checked for that one and a frame lemma
carries the others. `ImplementsConditionalFlow` also needs that an application that is
in a lane entered it by a submission.

`Sessions` is proved about in the same module. For `ServedAsHeld`, a request has in hand what
its step needs (`StageOK`), a skill call has noted every binding there was during it (`NotedOK`)
and the role it derived is one of those (`RoleOK`). For `SessionsGoForward` the in-process store
needs more (`InMemory`): the provider's token is never behind the stored one, the copy of a
request nobody overtook has the stored token (`CopyOK`), and while a rotated token is on its way
to the store all copies, and the stored session, are behind it, so that nobody else can be
granted one (`WaitingOK`). For `RefusedForCause` a stored token that is not the newest means
that an answer was lost or that some request has the newest on its way (`NewestOK`), and that is
the race the deleting request lost. Turns that bring no token are one lemma (`CalmStep`); a new
copy, a granted, a lost and a stored token and a new session are the others.
`LifetimesAssumption` makes lifetimes and the number of tokens positive, the bounds numbers;
`NoneAssumption` keeps the marker for nothing apart from all else.

`WritePipelineProofs`, for any number of overlapping requests and faults. `AuditedFirst`
says what rows and snapshots may contain, so the invariant has to follow a mutation from
its audit event through the heap, the cards, the snapshot and the outbox (`OnlyAudited`),
through an overlapping request's flush as well. What an answer promises depends on the
stage: `SavedByStage` says what of a dispatch is saved at each `pc`, `OnTheWay` that an
audited dispatch without a fault is still inside the chain or has closed its trail. The
serial half of `WritesKept` is a second invariant (`SerialInv`) on top: as long as no two
requests overlapped, the session holds at most the card of the one open request, clean
before its mutation and dirty after it (`CardByStage`). It rests on the depth counter being
the number of counted dispatches (`DepthCounts`): only then does the epoch of the next
request clear what the last one left. `CardsAssumption` is that a new card's id is fresh.

For `Workbench`, `BenchInv` says that the todos in memory and in the saved row are todos of
present cards in some status, and that a todo's category determines its role: then
`sync_request_todos` drops and recomputes exactly what the status asks for, which is
`TodosTellStatus`. What may be shown of an id depends only on the reader and on the parties
of that id, none of which changes once it is there, so each query of a read stays in scope
although others write before the next one (`PageOK`, by the step of the read). `HolderFindsIt`
follows from the todos and a case analysis over statuses. `BenchAssumption`: the ids of
applications, entries, assets and cases are disjoint.

`OverlappingSkillsProofs`. What a check found is kept until the write although others write in
between (`JobsKept`): steps are only added, and a credential a check saw was asked for again.
With it an application in review was accepted (`ReviewableAccepted`), which gives
`GrantedHasBothSteps` and `CredentialsInOrder`. For the approval files (`FileInv`),
`upsert_from_request_and_approval` rebuilds a file at step 1 unless one of its steps carries an
audit id, so the proof has to show that this never loses a decision: the conditional flow has no
late status, and a review puts its audit id on file before it gives one, hence a file that is
rebuilt is at its first step (`StillEarly`). `OnFile` says what a file keeps and how it is
numbered, `WritingOK` what a write under the lock has put down by its phase, and `AskedOK` what
a review that waits for the lock had checked. `CodesAssumption` keeps the marker for no code
apart from the codes.

`DeliveriesAreTraceable`, about `DeliveryRecords`, is in the same module. `PlanOK` says which
commits a skill may still have before it and in which order, and it is kept by taking the first
one away; `GoesOn` states that once for all commits. An attempt without evidence belongs to a
skill that broke off or is about to write it (`EvidenceOK`). A download's number is on no
receipt before its commit and on one after it (`LinksOK`). A card differs from its row only
while the flush is to come (`CardOK`). For what a reader is told the last receipt has to be one
that no later flush rewrites, or a projection that it rewrites as it is (`Settled`): a receipt
of a partner that has no number or is not taken for a projection, or a reconciliation of a card
that stays reconciled. `DeliveryAssumption` says that audit ids are unique and that partners do
not number their receipts with them or with the platform's `RCPT` number; the code does not
check what partners send, and a receipt under that number would be taken for the
reconciliation's.

`FormsAreKept`, about `FormFill`, is there too. A rule is a map of fields that says what it
writes and what it leaves (`RuleWrites`); the five passes of `derive` are written out one by
one (`DeriveIsPasses`), so that what holds after each holds after the last (`DeriveSettles`).
The invariant has to tie the provenance to the value (`SourcesOK`: what nobody answered for
is empty, a region of the person's own has no organ beside it) and to the history
(`MarkedAsProposal`); that a name fits its code (`Fits`) holds of the tables last read, not
of the present ones. That an editable field takes what is entered is the lemma about one
edit, `EditSettles`, used once for `_update_field` and once for the edit to come. Nothing
is assumed of tables, answers or entries.

`ResourceCatalogProofs`. The threads between check and commit carry what their check
allowed (`JobsChecked`): a reviewer may approve what he saw, a mount writes a draft of the
owner it found. `AssetStartsAssumption` is that a new asset's status is one of the known ones.
`StepOK` says what one step may make of a row; `NoStaleReason` and the
action property `ReviewsAndOwnersKept` follow from it.

`TemplatesAndCasesAgree` (`FlowsAgree`), about `ApprovalFlows`, is in the same module, for any
graphs of branches. The walk is a function of the set of nodes seen, defined from larger such
sets: that it exists and is unique (`WalkExistsAbove`, `WalkIsUnique`), and what it computes,
go by a largest set that is a counterexample (`LargestSet`). A walk that does not fail passes
the approvals ahead of where it is, each once and in order (`Passes`, `WalkPasses`); one that
fails ends in a set of nodes that the default branches do not leave and that the end is not
in (`FailedWalkStays`), so there is no route. A baseline is a line (`LinearShape`), so the
list of its approvals is the way along it (`LinePasses`, `LineIsListed`).

For the templates, a row is live exactly if it was committed, and of the rows of a code the one
committed later has the higher version (`FlowRowsInv`): the highest live row is then the one
that went live last (`HighestIsLatest`). Every step on templates touches one row, as a draft
(`Drafts`) or as a row that goes live (`Lives`); cases stay right as templates and commits grow
(`CaseStays`). `LineAssumption` is that the levels of a line are different nodes,
`FlowsAssumption` that what an administrator writes passed `_validate_payload`, and
`CodesAssumption` that a flow with branches of its own has no baseline's code: in the code only
the seeder and `approval_flow.nl_draft` call `create_draft`, and both draft lines.

`FormsKeepWord` (`FormsAgree`) and `RulesStayApartAndOpen` (`RulesAgree`), in the same module, are
about `FormTemplates` and `Recommendations`. A new version is the greatest of the code plus one,
and greatest values exist of bounded sets only (`BoundedHasGreatest`), so the invariants
(`FormsInv`, `RulesInv`) carry a bound on the versions written so far. `ClosedNeverSuggested`
follows from `PoolIsOpen`, whatever a clause scores: `ResourcesAssumption` is that an item or
past requirement names a known resource or none.

Of the rows of forms the rest of `FormsInv` is that their payloads passed `_validate_payload`
(`FormPayloads`). What the page of such a payload checks is found with a function on the number
of validators applied (`PropertyAfter`): that the function exists (`PropertyRuns`), which
keywords a field has after k of them (`KeywordsGiven`) and whose value (`LastValidatorWins`)
each goes by the least k for which it would fail (`LeastNatural`), which stands in for an
induction. The lists made of a sentence number the positions of a set (`InOrder`): each
position has its number and no two the same one (`ListsInOrder`), since a map of a finite set
into an interval of its size that repeats none misses none. So the fields of a sentence are
those it mentions, each once (`MentionsOnce`), and their validators bear codes of their own
(`KnownFieldsMakeForms`). `FormsAssumption` is that payloads hold lists and that what
`_match_field_templates` finds in a sentence are fields of `_FIELD_TEMPLATES`.

`TenantProofs`. For `PolicyHasApproval` a review that is between its writes enables only
what passed or what it has still to write (`PlansBacked`), and always for some role
(`GroupsNamed`): an enabled policy without roles therefore came with its package
(`RolesBacked`, with `NoRoleRef` in `granted`). `TablesFollowDecisions` rests on
`DeclaredIn` (an approved status or a registered version, in memory and in the saved
snapshot, was declared once), on calls keeping what they checked (`CallsKept`), and, for
the skipped sync, on `RowsKnown`: a row says what was synced last, or what the holder of
the lock is about to sync. For `RevokedNotServed`, `RevokedGone` keeps a revoked role out
of bindings and role codes whichever of login, administrator, importer and repair script
writes next; `RowsTakenOverWhole` is proved with it step by step (`LeavesNothing`).

`MigrationProofs`. `AmbiguousNeverMapped` needs that a settled mapping is the only one of
its object (`MappedIsAlone`). `AccountsAreTrue` follows a run from dump to verdict: the
record that is due has its rows (`DueIsStored`), a run without error has stored all it went
through (`DoneIsStored`), receipts were written for all it has no longer to write
(`ReceiptsAreWhole`), and a repetition finds what the first import wrote (`RepeatFinds`).
For `PackagesAccounted`, `TrailsLinked` is that each review row starts where the one before
ended, and `ImportProgress` says how far an undisturbed import has come at each of its
commits; `StepsOfKind` bounds the walk. `MadeAs` finds the creation that a publication out
of "offline_pending" goes back to. `PackageStartsAssumption` and `ZoneStatusesAssumption` say
that the statuses named are those of the table (any other leads nowhere), and that no old zone
waits to go offline.

`RegisterProofs`, four registers with a specification each, and the rows that are imported
into them.
- Objections: an acceptance between choice and write is on its way to an investigation,
  never to "resolved" (`AcceptsInvestigate`), so that only an assignment can resolve a case
  without a review; a case that has ended keeps its status (`CasesEndOnce`).
  `NamedAssumption` is that callers name statuses the tables know; a case in any other
  would stay where it is.
- National channel: a call that came back accepted was accepted and a mapping about to be
  written has its record (`CallsCovered`); before the supervisor's review there was the
  business one (`BusinessFirst`).
- Compliance: one thread at most is between mutation and save (`OneHolder`), so a
  fingerprint is that of the case unless it is being mirrored (`PrintsCurrent`), a row
  tells its fingerprint (`RowsTellPrints`), and acknowledged, saved and remembered steps
  come in this order (`StepsGrow`), through restarts that load the saved list.
- Audit trail: a thread's event is in the store, and in the main table, by the step it has
  reached (`ThreadOK`), and what the main table has, up to its time of writing, the store
  has (`MainInStore`). For `TrailReadWhole` the rows of a call lie in the store in the order of
  their stamps, the first of them alone with the phase "before", and the event a thread is
  about to emit comes after them (`ReadInv`); a clock that goes back would break it. That a
  query which was not cut has all its rows, and that a report of the first `TOP_N` can always
  be made, is one lemma about the first ones of an order (`FirstOnes`): the places of a finite
  set's elements are an injection into an interval of its size. `ResidueAssumption` is that the
  rows of earlier deployments have a stamp and the id of no call of this one.
- Imported rows: the tables agree at all times with the rows that are `Settled`, those of the
  pass that are neither to be read nor held nor due, and each kind of row has a part of
  `RowsInv` that says how. A child may be bound to the legacy id until its catalog is
  settled, which moves it over (`CatalogsOK`); the general rows of services, and the
  objections with their children, stay held until all who need them are served
  (`ServicesOK`, `ObjectionsOK`). A crash settles nothing and what is written stays, so the
  next pass writes the same over it. A frame lemma for each part carries it through the
  steps that touch other tables. At the end of a pass every row is settled. That the ranks
  by time of a trail are 1 to n (`RanksFillInterval`) is an injection of a finite set into
  an interval of its size. `KeysAssumption` (`KeysMean`) is what the import takes for granted
  of one dump: no catalog has the id or code of another, an id that comes twice says the
  same both times, and of the nodes of a trail that have a time no two have the same one or a
  time after the import began. Where a dump breaks it the
  row that is read last wins, or the sort goes by the names of the nodes; the code
  does not check it.

Only model-checked:
- `EveryRequestEnds` and the liveness half of `KeepsLedger`: fairness and ENABLED are
  outside what the prover handles.

## Where the code does something else than it says, or than a reader may expect

These are what the models show of the code as it is; each is in the model, and the
property next to it says what does hold.

Writes and cards
- A row can be anchored twice after a crash or a lapsed lease; the worker's docstring
  (`background_tasks/__init__.py:46`) reads otherwise. `OneTxPerLease` is the bound.
- An acknowledged card write is lost when another request's flush or clear drops the card
  between lookup and mutation (`brain.py:432`); `card_session.py:12` and `pipeline.py:482`
  say that the shape holds. `WritesKept` says that it does without overlap.
- The dirty card of a handler that raised is flushed by an overlapping request.
- Fingerprints are noted before the upsert: after a failing one the row stays behind until
  the aggregate changes or the process restarts.

Applications
- A grant that was revoked before its review can be granted again
  (`application_grant.py:100`); a resubmission, or two overlapping creations, leave two
  applications in process. Two overlapping creations also make two drafts of one resource,
  where the comment at `request.py:217` promises one (run `two_drafts`).
- Overlapping decisions can make a move that is not in the table of
  `conditional_approval.py:22`; an old secret can be signed again.
- A review that breaks off after its first commit leaves a decided file of a pending
  application, and its repetition decides twice. Suspensions by dispatch write the status
  column only, so the case stays behind. Lifecycle steps are numbered by status, so a
  second round repeats numbers.
- A partner's receipt with a number and with a note, a backflow or a history in its body is
  taken for the card's projection (`repositories/delivery.py:420`): the flush of the skill that
  stored it writes the card's status over it.
- A receipt number that is sent twice makes the card unwritable (`MultipleResultsFound`)
  until another number or a reconciliation. Exchange metrics are replaced, not added to.
  `subscription.manage` works at any status and drops the list of terminations. A second
  reconciliation is not visible in `delivery.view`, and after a download the view says
  "issued". What is done to the card of an imported task is acknowledged and not kept;
  granting one makes a runtime task of it. A receipt for an unknown task is accepted.
- The codes of `shared_type` differ between `request.py` and
  `approval_flow_baseline.py:33`.

Form
- An organ's own region name, to which `ReferenceService.organ` falls back, does not
  survive on the form: the region rule runs after the organ rule and clears it. The two
  rules then take turns until `_MAX_PASSES`, where the comment expects two passes.
- The assistant fills texts that are not on the form, so that nobody can edit or confirm
  them; the submission's audit counts them.
- A submission derives nothing anew, and an application created without the draft stage
  has no `submitProvenanceAudit`. An edited purpose is not carried to the card's own.

Catalogs, packages, objections, compliance
- Publishing an asset writes its entry as active. A rejected package becomes approved by
  `apply_tenant_policy`.
- The publish guard of a topic package counts a subscription as visibility
  (`repositories/topic_package.py:340`); the share-zone import publishes without it;
  creating a package under an existing code resets a published one.
- Callers name statuses: a creation of an objection (`repositories/objection.py:166`), a
  topic package (`handlers/j2/topic_package_create.py:23`) or an asset
  (`provider_service.py:80`) starts in the status of its payload, and an assignment
  of an objection goes to any target its table allows (`objection.py:353`), although the
  manifest lists only the investigations. A case can so be resolved without a review, and a
  package that was created as waiting to go offline be published without a submission.
- Escalating a compliance case has no guard and reopens a closed one; closing mirrors it
  as unsolved and clears the summary; a restart rewrites objection rows that objection
  skills have moved on.

Identity and access
- A session falls back to the role codes of its login. The Redis store reads, replaces
  and saves.
- The request that loses the race for a refresh token deletes the session
  (`entry/rest/server.py:1098`), and so logs out the one that won.
- A tenant policy without roles lets every role through (`tenant_policy.py:94`); enabling a
  package or applying its policy puts the caller's role in place of those that reviewed
  candidates gave (`capability_admin.py:144`).
- The daemons of MCP and A2A and the command line are documented to run only under the
  development bypass (`mcp/server.py:180`, `auth_context.py:78`, `cli/main.py:144`). The gate
  of the MCP daemon and of the command line refuses the bypass in production and nothing
  else, the one-shot commands have no gate (run `dev_identity`); only the A2A daemon's gate
  asks for the bypass. A2A's one-shot command does not
  look at the caller's trust either (`a2a/server.py:335`).
- A re-import of a disabled row without sub resets it, and the next login revives it; an
  import disables bindings an administrator assigned; a changed sub makes a second row; a
  disabled actor in the dump aborts the import.
- A later candidate replaces the roles of an earlier one; a re-import puts reviewed
  candidates back to pending; a crash leaves approved ones unapplied.
- A role held only in another organisation passes the first resolution and is refused by
  the second; refusals by identity leave no deny event; the MCP daemon ends when its
  reject event cannot be written; quota windows are per process.
- A start whose answer is lost leaves a task nobody knows; the blocking wait can exceed the
  "~25s" of its docstring (`http_client.py:201`); polling and resuming do not look at the
  agent's switch again.

Audit, workbench, national channel, import
- `audit/index.py` promises the latest rows of a query, the store returns the oldest; the
  rule for repeated refusals cannot fire; a replay is cut before the tenant filter; the
  main row may be missing when only the second sink failed.
- A manager of any organisation, or of none, sees the whole publish queue, all demand matches
  and all objections in process; the comment at `provider_snapshot_projection.py:443` says
  that the objections are cut elsewhere (run `uncut_inbox`).
- Imported applications under review are in no inbox of the platform's reviewer; accepted
  generic objections are in none; a reverse draft's bar names another role than the one
  whose inbox it is in; where two organisations have one name, nobody sees the row;
  registering a demand again resets its phase.
- After a supervisor's rejection a compilation task has a status and no review step;
  `is_national_sync_ready` does not ask for the channel's switch; adapter operations are
  recorded as succeeded whatever the channel's state; an answer that is lost after
  acceptance is told as an error, and the retry reports twice.
- The rollback suspends no row, as it looks for an id where it has a code
  (`rollback.py:133`, announced at `rollback.py:11`); `--batch-id` matches nothing; a
  partial failure of an earlier run keeps failing later ones.
- A case's imported status is that of the course row read last; a node that comes again as
  pending keeps its earlier decision; a re-import overwrites what was done since.

## Not modelled

- `run_once` and the in-memory queue: no caller in the running service.
- Nested dispatches inside `WritePipeline`, traced reads, CSRF, JWKS rotation.
- Search and the assistants that only propose: reads. `record_recommended_pick`: no caller.
- Renewals of grants: data without a life cycle.
- Model fields, schema mappings and test projections of assets, compliance rules, metrics,
  the operations handlers: single-record upserts that carry no status.
- `NationalCredentialWriter` and `upsert_basic_elem_catalog`: no production caller.
- The seed packages and old zones that the sync writes into the package tables at a start
  (`database_store.py:366-391`). The row that `upsert_from_dispute` writes of a compliance
  case is in `ComplianceCases`, not in `ObjectionCases`.
- The columns the importers build rows from, request parsing and rendering, the frontend,
  build scripts and schema migrations.

## Plan

1. Done: models of all components with a life cycle; proofs of the core (anchor outbox,
   write pipeline, application lifecycle with two refinements), of overlapping decisions,
   approval files, delivery records, forms, approval flows, form templates, rules, catalog,
   tenant policy, identity, imports and their rows, topic packages, the four registers, the
   workbench, the agent runtime, the rights of a call and the browser sessions.
2. Later: nested dispatches in `WritePipeline`.
