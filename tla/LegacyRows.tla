----------------------------- MODULE LegacyRows -----------------------------
(***************************************************************************)
(* What the mappers of the legacy import do with the rows of the dumps     *)
(* (zw_brain/adapters/legacy/mappers).  A dump is a set of rows; a pass    *)
(* reads them in any order, each handler commits on its own, some rows are *)
(* held back until every row was read, and the process may die between any *)
(* two commits, which loses what is held and starts the pass over.         *)
(*                                                                         *)
(* A row names its table, its legacy id and the legacy ids it refers to.   *)
(* Fields that are only copied are left out.  The mappers of the different *)
(* schemas run one after the other and share only the delivery tasks, so   *)
(* one loop over all rows has every order the code can see.                *)
(***************************************************************************)
EXTENDS Integers, FiniteSets

CONSTANTS
    Dumps,           \* sets of rows
    None,
    ImportTime,      \* when the import begins, later than every time in the dumps
    MaxPasses,       \* bound on complete passes
    MaxCrashes       \* bound on crashes

ASSUME RowBoundsAssumption == MaxPasses \in Nat \ {0} /\ MaxCrashes \in Nat
                                 /\ ImportTime \in Int

Of(rows, tables) == {r \in rows : r.table \in tables}

ChildTables == {"data_catalog_column", "data_resource", "rc_resource",
                "rc_resource_catalog_item_link"}

\* The rows of a dump that make steps of an approval trail.
StepRows(rows) ==
    {r \in Of(rows, {"data_apply_course", "data_apply_dept_approve", "resource_flow_log"}) :
        r.table # "resource_flow_log" => r.apply # None}

\* What the keys of the legacy tables mean within one dump: no catalog is known
\* by the id or code of another, what is bound by an id is bound to one
\* catalog, an id or code has one status, state or parent, and two nodes of a
\* trail are not passed at the same time.
KeysMean(rows) ==
    /\ None \notin rows
    /\ \A c \in Of(rows, {"data_catalog"}) :
          \A d \in Of(rows, {"data_catalog", "data_basic_elem_catalog"}) :
             d.id \in {c.id, c.code} => d.code = c.code
    /\ \A ch \in Of(rows, ChildTables) :
          \A o \in Of(rows, ChildTables \union {"data_basic_elem_catalog_item"}) :
             o.id = ch.id => o.table \in ChildTables /\ o.catalog = ch.catalog
    /\ \A table \in {"data_catalog_group", "data_objection"} :
          \A a, b \in Of(rows, {table}) : a.id = b.id => a.status = b.status
    /\ \A a \in Of(rows, {"data_apply"}) :
          \A b \in Of(rows, {"data_apply", "data_require", "data_original_require"}) :
             a.id = b.id => a.status = b.status
    /\ \A a \in Of(rows, {"data_apply_authrization"}) :
          /\ \A b \in Of(rows, {"data_apply_authrization"}) :
                a.apply = b.apply => a.state = b.state
          /\ \A j \in Of(rows, {"subscribe_job"}) : j.id # a.apply
    /\ \A a, b \in Of(rows, {"exchange_executor"}) : a.id = b.id => a.job = b.job
    /\ \A d, e \in Of(rows, {"sys_department"}) :
          /\ d.id = e.id => d.code = e.code
          /\ d.code = e.code /\ d.id # None /\ e.id # None => d.parent = e.parent
          /\ \A o \in Of(rows, {"pub_organ"}) :
                o.code = d.code /\ d.parent = e.id => o.parent = e.code
    /\ \A a \in StepRows(rows) :
          /\ a.at = None \/ (a.at \in Int /\ a.at < ImportTime)
          /\ \A b \in StepRows(rows) :
                a.apply = b.apply /\ a.node # b.node => a.at = None \/ a.at # b.at

ASSUME KeysAssumption == \A rows \in Dumps : KeysMean(rows)

VARIABLES
    dump,
    todo,            \* rows not read yet in this pass
    held,            \* rows read and held back
    due,             \* the row whose handler has commits to go
    phase,           \* idle, reading, or done when a pass has come to its end
    passes, crashes,
    entries,         \* catalog_entry codes
    refs,            \* legacy_object_mapping of data_catalog: codes per legacy id
    bound,           \* catalog_code of items, assets and links
    groups,          \* topic packages that project a catalog group
    links,           \* status of resource_schema_mapping
    apps,            \* application status
    tasks,           \* delivery task state
    cases,           \* approval cases with their steps
    attempts,        \* delivery attempts
    objections,      \* objection cases with their replayed children
    services,        \* assets of api_service_info: whether merged with general
    orgs,            \* parent_org_code of each org_projection row
    records          \* every other row written, by canonical type and key

loop == <<dump, todo, held, due, phase, passes, crashes>>
catalogTables == <<entries, refs, bound, groups, links>>
exchangeTables == <<apps, tasks, cases, attempts>>
otherTables == <<objections, services, orgs, records>>
rowsVars == <<loop, catalogTables, exchangeTables, otherTables>>

RowsInit ==
    /\ dump \in Dumps
    /\ todo = {} /\ held = {} /\ due = None
    /\ phase = "idle" /\ passes = 0 /\ crashes = 0
    /\ entries = {}
    /\ refs = << >> /\ bound = << >> /\ groups = << >> /\ links = << >>
    /\ apps = << >> /\ tasks = << >> /\ cases = << >>
    /\ attempts = {}
    /\ objections = << >> /\ services = << >> /\ orgs = << >>
    /\ records = {}

\* f with key set to value, key new or not.
Put(f, key, value) ==
    [k \in DOMAIN f \union {key} |-> IF k = key THEN value ELSE f[k]]

\* A written row: its canonical type, and what its key is made of.
Rec(type, space, key, id) == <<type, space, key, id>>

-----------------------------------------------------------------------------
(* Catalogs and the rows that refer to them (catalog_metadata.py).         *)

\* _catalog_code_for: the code the legacy catalog maps to, if one, else the
\* legacy id itself.
CatalogCodeFor(ref) ==
    IF Cardinality(IF ref \in DOMAIN refs THEN refs[ref] ELSE {}) = 1
    THEN CHOOSE c \in refs[ref] : TRUE
    ELSE ref

\* Mutant: what was bound before the catalog came stays where it is.
UnboundRebind(ref, code) == bound

\* _rebind_catalog_code: items, assets and links on the legacy id move over.
Rebound(ref, code) == [ch \in DOMAIN bound |-> IF bound[ch] = ref THEN code ELSE bound[ch]]

\* _upsert_topic_package_projection: only data_catalog_group replaces.
Project(g, source, status, replace) ==
    IF g \in DOMAIN groups /\ ~replace THEN groups
    ELSE Put(groups, g, [source |-> source, status |-> status])

\* CatalogRepository.upsert_from_resource: the entry, with its mapping.
UpsertEntry(r) ==
    /\ entries' = entries \union {r.code}
    /\ refs' = IF r.table = "data_catalog"
               THEN Put(refs, r.id, {r.code} \union
                        (IF r.id \in DOMAIN refs THEN refs[r.id] ELSE {}))
               ELSE refs

\* The entry first; the group and the rebinding by other commits.
MapDataCatalog(r) ==
    /\ r.table = "data_catalog"
    /\ UpsertEntry(r)
    /\ due' = r
    /\ UNCHANGED <<held, bound, groups, links, exchangeTables, otherTables>>

MapDataBasicElemCatalog(r) ==
    /\ r.table = "data_basic_elem_catalog"
    /\ UpsertEntry(r)
    /\ due' = r
    /\ UNCHANGED <<held, bound, groups, links, exchangeTables, otherTables>>

\* _attach_catalog_to_group_projection, then _rebind_catalog_code.
FinishDataCatalog ==
    /\ due # None /\ due.table \in {"data_catalog", "data_basic_elem_catalog"}
    /\ groups' = IF due.group = None THEN groups
                 ELSE Project(due.group, "data_catalog",
                              IF due.active THEN "published" ELSE "configuring", FALSE)
    /\ bound' = Rebound(due.id, due.code)
    /\ due' = None
    /\ UNCHANGED <<todo, held, dump, phase, passes, crashes, entries, refs, links>>
    /\ UNCHANGED <<exchangeTables, otherTables>>

\* CatalogRepository.upsert_item and ResourceApiRepository.upsert_asset: the
\* row is found by its code and takes the catalog code of the payload.
UpsertItem(item, code) == bound' = Put(bound, item, code)

UpsertAsset(asset, code) == bound' = Put(bound, asset, code)

MapDataCatalogColumn(r) ==
    /\ r.table = "data_catalog_column"
    /\ UpsertItem(r.id, CatalogCodeFor(r.catalog))
    /\ UNCHANGED <<held, due, entries, refs, groups, links, exchangeTables, otherTables>>

MapDataResource(r) ==
    /\ r.table = "data_resource"
    /\ UpsertAsset(r.id, CatalogCodeFor(r.catalog))
    /\ UNCHANGED <<held, due, entries, refs, groups, links, exchangeTables, otherTables>>

MapRcResource(r) ==
    /\ r.table = "rc_resource"
    /\ UpsertAsset(r.id, CatalogCodeFor(r.catalog))
    /\ UNCHANGED <<held, due, entries, refs, groups, links, exchangeTables, otherTables>>

\* Elements of a basic catalog fall back to the code that catalog will have.
MapDataBasicElemCatalogItem(r) ==
    /\ r.table = "data_basic_elem_catalog_item"
    /\ UpsertItem(r.id, r.code)
    /\ UNCHANGED <<held, due, entries, refs, groups, links, exchangeTables, otherTables>>

\* _has_active_mapping_for: another row of the same item, resource and binding.
HasActiveMapping(r) ==
    \E l \in DOMAIN links : /\ l # r.id
                            /\ links[l] = [triple |-> r.triple, status |-> "active"]

\* MetadataEvidenceRepository.upsert_schema_mapping.
UpsertSchemaMapping(r, status) ==
    /\ bound' = Put(bound, r.id, CatalogCodeFor(r.catalog))
    /\ links' = Put(links, r.id, [triple |-> r.triple, status |-> status])

MapResourceCatalogItemLink(r) ==
    /\ r.table = "rc_resource_catalog_item_link"
    /\ UpsertSchemaMapping(r, IF HasActiveMapping(r) THEN "superseded" ELSE "active")
    /\ UNCHANGED <<held, due, entries, refs, groups, exchangeTables, otherTables>>

MapDataCatalogGroup(r) ==
    /\ r.table = "data_catalog_group"
    /\ groups' = Project(r.id, "data_catalog_group", r.status, TRUE)
    /\ UNCHANGED <<held, due, entries, refs, bound, links, exchangeTables, otherTables>>

UpsertTopicVisibility(group, id) == Rec("visibility", None, group, id)

MapDataGroupPermission(r) ==
    /\ r.table = "data_group_permission"
    /\ groups' = Project(r.group, "data_group_permission", "published", FALSE)
    /\ records' = records \union {UpsertTopicVisibility(r.group, r.id)}
    /\ UNCHANGED <<held, due, entries, refs, bound, links, exchangeTables>>
    /\ UNCHANGED <<objections, services, orgs>>

-----------------------------------------------------------------------------
(* Applications, approval trails and deliveries (exchange.py,              *)
(* pipelines.py, resource_flow_log of catalog_metadata.py).                *)

\* ApplicationRepository.upsert_from_request.
UpsertFromRequest(r) == apps' = Put(apps, r.id, r.status)

\* An approved application has a pending delivery as well, by another commit.
MapDataApply(r) ==
    /\ r.table = "data_apply"
    /\ UpsertFromRequest(r)
    /\ due' = IF r.status = "approved" THEN r ELSE None
    /\ UNCHANGED <<held, tasks, cases, attempts, catalogTables, otherTables>>

MapDataRequire(r) ==
    /\ r.table = "data_require"
    /\ UpsertFromRequest(r)
    /\ UNCHANGED <<held, due, tasks, cases, attempts, catalogTables, otherTables>>

MapDataOriginalRequire(r) ==
    /\ r.table = "data_original_require"
    /\ UpsertFromRequest(r)
    /\ UNCHANGED <<held, due, tasks, cases, attempts, catalogTables, otherTables>>

\* _upsert_pending_delivery_for_apply: a task that exists keeps its state.
PendingDelivery(apply) ==
    IF apply \in DOMAIN tasks THEN tasks ELSE Put(tasks, apply, "pending")

FinishDataApply ==
    /\ due # None /\ due.table = "data_apply"
    /\ tasks' = PendingDelivery(due.id)
    /\ due' = None
    /\ UNCHANGED <<todo, held, dump, phase, passes, crashes, apps, cases, attempts>>
    /\ UNCHANGED <<catalogTables, otherTables>>

\* The how many-th step of its case a node's step was made as.
MadeNo(case, node) ==
    IF node \in DOMAIN case.steps THEN case.steps[node].made ELSE case.step + 1

\* The step of a row: a node that comes again takes over the step of that name,
\* and a decision stays when the later row has none.  A row without a time
\* counts from when its step was made.
StepOf(case, r) ==
    [at |-> IF r.at = None THEN ImportTime + MadeNo(case, r.node) ELSE r.at,
     made |-> MadeNo(case, r.node),
     status |-> IF r.decision = None THEN "pending" ELSE "completed",
     decision |-> IF r.decision # None THEN r.decision
                  ELSE IF r.node \in DOMAIN case.steps THEN case.steps[r.node].decision
                  ELSE None,
     no |-> IF r.node \in DOMAIN case.steps THEN case.steps[r.node].no
            ELSE case.step + 1]

\* Steps are numbered again by time on every row.
Renumber(steps) ==
    [n \in DOMAIN steps |->
        [steps[n] EXCEPT !.no =
            Cardinality({m \in DOMAIN steps : steps[m].at <= steps[n].at})]]

CaseStatus(r) == IF r.decision = None THEN "pending_decision" ELSE r.decision

CaseBefore(r) ==
    IF r.apply \in DOMAIN cases THEN cases[r.apply]
    ELSE [status |-> CaseStatus(r), step |-> 0, steps |-> << >>]

WithStep(case, r, status) ==
    LET steps == Renumber(Put(case.steps, r.node, StepOf(case, r)))
    IN [status |-> status, step |-> Cardinality(DOMAIN steps), steps |-> steps]

\* Every row of the course sets the status of the case; a deleted one, or one
\* without an application, is passed over.
MapDataApplyCourse(r) ==
    /\ r.table = "data_apply_course"
    /\ cases' = IF r.apply = None THEN cases
                ELSE Put(cases, r.apply, WithStep(CaseBefore(r), r, CaseStatus(r)))
    /\ UNCHANGED <<held, due, apps, tasks, attempts, catalogTables, otherTables>>

\* A department's row does not touch the status of a case that exists.
MapDataApplyDeptApprove(r) ==
    /\ r.table = "data_apply_dept_approve"
    /\ cases' = IF r.apply = None THEN cases
                ELSE Put(cases, r.apply, WithStep(CaseBefore(r), r, CaseBefore(r).status))
    /\ UNCHANGED <<held, due, apps, tasks, attempts, catalogTables, otherTables>>

\* The review of a resource has a case of its own.
MapResourceFlowLog(r) ==
    /\ r.table = "resource_flow_log"
    /\ cases' = Put(cases, r.apply, WithStep(CaseBefore(r), r, CaseStatus(r)))
    /\ UNCHANGED <<held, due, apps, tasks, attempts, catalogTables, otherTables>>

\* The authorisation decides the state of the application's delivery.
MapDataApplyAuthrization(r) ==
    /\ r.table = "data_apply_authrization"
    /\ tasks' = Put(tasks, r.apply, r.state)
    /\ UNCHANGED <<held, due, apps, cases, attempts, catalogTables, otherTables>>

\* DeliveryRepository.upsert_subscription.
UpsertSubscription(id) == Rec("subscription", None, None, id)

MapSubscribeJob(r) ==
    /\ r.table = "subscribe_job"
    /\ tasks' = Put(tasks, r.id, r.state)
    /\ records' = records \union {UpsertSubscription(r.id)}
    /\ UNCHANGED <<held, due, apps, cases, attempts, catalogTables, objections, services,
                   orgs>>

-----------------------------------------------------------------------------
(* Rows held back until every row was read.                                *)

Hold(r) ==
    /\ held' = held \union {r}
    /\ UNCHANGED <<due, catalogTables, exchangeTables, otherTables>>

\* _map_exchange_executor: only for a job whose task was imported.
MayAttempt(r) == r.job \in DOMAIN tasks

MapExchangeExecutor(r) ==
    /\ r.table = "exchange_executor"
    /\ attempts' = IF MayAttempt(r) THEN attempts \union {r.id} ELSE attempts
    /\ held' = held \ {r}
    /\ UNCHANGED <<apps, tasks, cases, catalogTables, otherTables>>

\* _map_service_info, merged with the general row of the same service.
MapServiceInfo(r) ==
    /\ r.table = "api_service_info"
    /\ services' = Put(services, r.id,
                       \E g \in Of(held, {"api_service_general"}) : g.service = r.id)
    /\ held' = held \ {r}
    /\ UNCHANGED <<objections, orgs, records, catalogTables, exchangeTables>>

\* General rows are merged, never written by themselves.
DropGeneral ==
    /\ Of(held, {"api_service_info"}) = {}
    /\ Of(held, {"api_service_general"}) # {}
    /\ held' = held \ Of(held, {"api_service_general"})
    /\ UNCHANGED <<catalogTables, exchangeTables, otherTables>>

\* The children an objection is given: the old ones are deleted first.
Replayed(o, rows) ==
    {c \in Of(rows, {"data_objection_process"}) : c.objection = o}

\* One commit for all the objections of the dump; a deleted one is skipped, and
\* so are the children of a parent that is not there.
MapObjections ==
    /\ Of(held, {"data_objection", "data_objection_process"}) # {}
    /\ LET kept == {r \in Of(held, {"data_objection"}) : r.status # "deleted"}
       IN objections' =
            [o \in DOMAIN objections \union {r.id : r \in kept} |->
                IF \E r \in kept : r.id = o
                THEN [status |-> (CHOOSE r \in kept : r.id = o).status,
                      children |-> Cardinality(Replayed(o, held))]
                ELSE objections[o]]
    /\ held' = held \ Of(held, {"data_objection", "data_objection_process"})
    /\ UNCHANGED <<services, orgs, records, catalogTables, exchangeTables>>

\* _import_sys_departments: every department is read before the first is
\* written, and a parent given by id becomes that department's code.
ParentOf(r) ==
    IF \E d \in Of(dump, {"sys_department"}) : d.id = r.parent
    THEN (CHOOSE d \in Of(dump, {"sys_department"}) : d.id = r.parent).code
    ELSE r.parent

MapSysDepartment(r) ==
    /\ r.table = "sys_department"
    /\ orgs' = IF r.id = None THEN orgs ELSE Put(orgs, r.code, ParentOf(r))
    /\ held' = held \ {r}
    /\ UNCHANGED <<objections, services, records, catalogTables, exchangeTables>>

\* _map_organ: the parent is in the trace of the row itself.
MapOrgan(r) ==
    /\ r.table = "pub_organ"
    /\ orgs' = Put(orgs, r.code, r.parent)
    /\ UNCHANGED <<held, due, objections, services, records, catalogTables, exchangeTables>>

-----------------------------------------------------------------------------
(* Rows that are written by themselves, by canonical type and key.         *)

\* The repositories find a row by these keys, and write it over.
UpsertBinding(space, resource, id) == Rec("binding", space, resource, id)
UpsertSchemaSnapshot(table, resource, id) == Rec("snapshot", table, resource, id)
UpsertGatherEvidence(id) == Rec("gather", None, None, id)
UpsertLineageRelation(space, id) == Rec("lineage", space, None, id)
UpsertQualityEvidence(table, id) == Rec("quality", table, None, id)
UpsertAttempt(catalog, id) == Rec("attempt", "materialize", catalog, id)
UpsertMetric(api, day) == Rec("metric", "service", api, day)
UpsertRiskEvent(table, id) == Rec("risk", table, None, id)
UpsertRule(id) == Rec("rule", None, None, id)
UpsertCase(space, id) == Rec("case", space, None, id)
UpsertHealthSignal(kind, service) == Rec("health", kind, service, None)
UpsertMetricDefinition(id) == Rec("metric_definition", None, None, id)
UpsertMapping(table, id) == Rec("external", table, None, id)
UpsertEndpoint(id) == Rec("endpoint", None, None, id)

\* Bindings of a resource; a url has one per resource.
ChannelBinding(r) ==
    UpsertBinding("channel", r.key, IF r.table = "rc_resource_url" THEN "url" ELSE r.id)

SchemaSnapshot(r) == UpsertSchemaSnapshot(r.table, r.key, r.id)

GatherTask(r) == UpsertGatherEvidence(r.id)

LineageRelation(r) == UpsertLineageRelation(None, r.id)

CatalogMaterialize(r) == UpsertAttempt(r.key, r.id)

QualityEvidence(r) == UpsertQualityEvidence(r.table, r.id)

\* A relation of the graph store has a name space of its own; one without an id
\* is an error, never a row of its own.
GraphRelation(r) == IF r.id = None THEN None ELSE UpsertLineageRelation("graphdb", r.id)

ServiceChannel(r) == UpsertBinding(r.table, r.key, r.id)

ApiServiceCatalog(r) == IF r.key = None THEN None ELSE UpsertBinding("catalog", r.key, r.id)

ApiGroup(r) == Rec("catalog_entry", "api-group", r.key, None)

ServiceApp(r) == Rec("app_mapping", None, None, r.id)

\* Counts of an api and a day, one row however often they are read.
ServiceTimes(r) == IF r.key = None THEN None ELSE UpsertMetric(r.key, r.at)

WarningRecord(r) ==
    IF r.table = "warning_notice_rules" THEN UpsertRule(r.id)
    ELSE UpsertRiskEvent(r.table, r.id)

MatterRecord(r) == UpsertCase(None, r.id)

\* The handling of a warning joins the case of that warning.
WarningHandleProcess(r) == IF r.key = None THEN None ELSE UpsertCase("WARN", r.key)

ProbeRecord(r) == UpsertHealthSignal(r.table, r.key)

KpiIndexInfo(r) == UpsertMetricDefinition(r.id)

\* The national platform's objects, and the databases of the pipelines.
ConnectRow(r) == IF r.id = None THEN None ELSE UpsertMapping(r.table, r.id)

MetaDatabase(r) == UpsertEndpoint(r.id)

ExchangePipelines(r) == Rec("channel", None, None, r.id)

\* Regions, dictionaries and roles of the governance dump, by their code; a
\* row without one is an issue of the run.  Nothing is kept of pub_apps.
UpsertProjection(type, code) == IF code = None THEN None ELSE Rec(type, None, code, None)

PubRegion(r) == UpsertProjection("region", r.key)
PubDict(r) == UpsertProjection("dict", r.key)
PubRole(r) == UpsertProjection("role", r.key)
PubApps(r) == None
SysRegion(r) == UpsertProjection("region", r.key)
SysRole(r) == UpsertProjection("role", r.key)

\* A row that is written by itself, or passed over.
MapPlain(r, record) ==
    /\ records' = records \union ({record} \ {None})
    /\ UNCHANGED <<held, due, objections, services, orgs, catalogTables, exchangeTables>>

-----------------------------------------------------------------------------
(* The mappers' loops over the rows of their tables.                       *)

CatalogMetadataMapper(r) ==
    \/ MapDataCatalog(r) \/ MapDataCatalogColumn(r) \/ MapDataCatalogGroup(r)
    \/ MapDataGroupPermission(r) \/ MapDataBasicElemCatalog(r)
    \/ MapDataBasicElemCatalogItem(r) \/ MapDataResource(r) \/ MapRcResource(r)
    \/ MapResourceCatalogItemLink(r) \/ MapResourceFlowLog(r)
    \/ r.table \in {"rc_resource_table", "rc_resource_file", "rc_resource_url",
                    "rc_resource_api"} /\ MapPlain(r, ChannelBinding(r))
    \/ r.table \in {"db_meta_table", "db_meta_column", "meta_baseinfo",
                    "meta_baseinfo_history", "meta_table_column"}
       /\ MapPlain(r, SchemaSnapshot(r))
    \/ r.table = "meta_gather_task" /\ MapPlain(r, GatherTask(r))
    \/ r.table = "meta_relation" /\ MapPlain(r, LineageRelation(r))
    \/ r.table = "rc_catalog_materialize" /\ MapPlain(r, CatalogMaterialize(r))
    \/ r.table \in {"catalog_quality_task", "catalog_quality_result"}
       /\ MapPlain(r, QualityEvidence(r))

GraphLineageMapper(r) == r.table = "graphdb_relation" /\ MapPlain(r, GraphRelation(r))

ExchangeMapper(r) ==
    \/ MapDataRequire(r) \/ MapDataOriginalRequire(r) \/ MapDataApply(r)
    \/ MapDataApplyCourse(r) \/ MapDataApplyDeptApprove(r) \/ MapDataApplyAuthrization(r)

\* Executors wait for the jobs.
PipelinesMapper(r) ==
    \/ MapSubscribeJob(r)
    \/ r.table = "exchange_executor" /\ Hold(r)
    \/ r.table = "exchange_pipelines" /\ MapPlain(r, ExchangePipelines(r))

\* The two halves of a service wait for each other.
ServiceMapper(r) ==
    \/ r.table \in {"api_service_info", "api_service_general"} /\ Hold(r)
    \/ r.table \in {"api_service_data", "api_service_proxy"} /\ MapPlain(r, ServiceChannel(r))
    \/ r.table = "api_service_catalog" /\ MapPlain(r, ApiServiceCatalog(r))
    \/ r.table = "api_group" /\ MapPlain(r, ApiGroup(r))
    \/ r.table = "api_service_app" /\ MapPlain(r, ServiceApp(r))
    \/ r.table = "api_service_times" /\ MapPlain(r, ServiceTimes(r))

\* Children wait for their objection.
ObjectionMapper(r) == r.table \in {"data_objection", "data_objection_process"} /\ Hold(r)

MonitorMapper(r) ==
    \/ r.table \in {"warning_message_info", "ip_connection_failure", "warning_notice_rules"}
       /\ MapPlain(r, WarningRecord(r))
    \/ r.table \in {"matter_handle", "matter_manage"} /\ MapPlain(r, MatterRecord(r))
    \/ r.table = "warning_handle_process" /\ MapPlain(r, WarningHandleProcess(r))
    \/ r.table \in {"interface_result", "product_call_result"} /\ MapPlain(r, ProbeRecord(r))

PerformMapper(r) == r.table = "kpi_index_info" /\ MapPlain(r, KpiIndexInfo(r))

ConnectMapper(r) == r.table = "dc_catalog" /\ MapPlain(r, ConnectRow(r))

DatasourceEndpointMapper(r) == r.table = "meta_database" /\ MapPlain(r, MetaDatabase(r))

\* Users and permissions of the dump are in ActorIdentity and PolicyCandidates.
GovernanceMapper(r) ==
    \/ MapOrgan(r)
    \/ r.table = "sys_department" /\ Hold(r)
    \/ r.table = "pub_region" /\ MapPlain(r, PubRegion(r))
    \/ r.table = "pub_dict" /\ MapPlain(r, PubDict(r))
    \/ r.table = "pub_role" /\ MapPlain(r, PubRole(r))
    \/ r.table = "pub_apps" /\ MapPlain(r, PubApps(r))
    \/ r.table = "sys_region" /\ MapPlain(r, SysRegion(r))
    \/ r.table = "sys_role" /\ MapPlain(r, SysRole(r))

-----------------------------------------------------------------------------
(* The pass.                                                               *)

StartPass ==
    /\ phase # "reading" /\ passes < MaxPasses
    /\ phase' = "reading"
    /\ todo' = dump
    /\ UNCHANGED <<dump, held, due, passes, crashes>>
    /\ UNCHANGED <<catalogTables, exchangeTables, otherTables>>

\* The next row of the dump.
Read(r) ==
    /\ due = None
    /\ todo' = todo \ {r}
    /\ \/ CatalogMetadataMapper(r) \/ GraphLineageMapper(r) \/ ExchangeMapper(r)
       \/ PipelinesMapper(r) \/ ServiceMapper(r) \/ ObjectionMapper(r)
       \/ MonitorMapper(r) \/ PerformMapper(r) \/ ConnectMapper(r)
       \/ DatasourceEndpointMapper(r) \/ GovernanceMapper(r)
    /\ UNCHANGED <<dump, phase, passes, crashes>>

\* The commits a row's handler has to go.
FinishRow == FinishDataCatalog \/ FinishDataApply

\* Held rows, when every row was read.
ReadHeld ==
    /\ todo = {} /\ due = None
    /\ \/ \E r \in held : MapExchangeExecutor(r) \/ MapServiceInfo(r) \/ MapSysDepartment(r)
       \/ DropGeneral
       \/ MapObjections
    /\ UNCHANGED <<dump, todo, due, phase, passes, crashes>>

EndPass ==
    /\ phase = "reading" /\ todo = {} /\ held = {} /\ due = None
    /\ phase' = "done"
    /\ passes' = passes + 1
    /\ UNCHANGED <<dump, todo, held, due, crashes>>
    /\ UNCHANGED <<catalogTables, exchangeTables, otherTables>>

Crash ==
    /\ phase = "reading" /\ crashes < MaxCrashes
    /\ phase' = "idle"
    /\ todo' = {} /\ held' = {} /\ due' = None
    /\ crashes' = crashes + 1
    /\ UNCHANGED <<dump, passes, catalogTables, exchangeTables, otherTables>>

RowsNext ==
    StartPass \/ (\E r \in todo : Read(r)) \/ FinishRow \/ ReadHeld \/ EndPass \/ Crash

RowsSpec == RowsInit /\ [][RowsNext]_rowsVars

-----------------------------------------------------------------------------
(* Properties.                                                             *)

CatalogRows == Of(dump, {"data_catalog"})
Children == Of(dump, ChildTables)

\* Whatever order the rows came in, items, assets and links are bound to the
\* code of the catalog they belong to when the dump has that catalog.
ChildrenBound ==
    \A ch \in Children : \A c \in CatalogRows : ch.catalog = c.id => bound[ch.id] = c.code

\* A group's own row decides, not the catalogs or permissions that name it.
GroupsFromTheirRow ==
    \A g \in Of(dump, {"data_catalog_group"}) :
        groups[g.id] = [source |-> "data_catalog_group", status |-> g.status]

\* A delivery has the state of its authorisation, or is pending.
DeliveriesDecided ==
    /\ \A a \in Of(dump, {"data_apply_authrization"}) : tasks[a.apply] = a.state
    /\ \A a \in Of(dump, {"data_apply"}) :
        /\ apps[a.id] = a.status
        /\ a.status = "approved" => a.id \in DOMAIN tasks

\* An objection has the children of the dump once, however often it is read.
ObjectionsReplayed ==
    \A o \in Of(dump, {"data_objection"}) :
        IF o.status = "deleted" THEN o.id \notin DOMAIN objections
        ELSE objections[o.id] = [status |-> o.status,
                                 children |-> Cardinality(Replayed(o.id, dump))]

\* A service has its general row, whichever of the two came first.
ServicesMerged ==
    \A s \in Of(dump, {"api_service_info"}) :
        services[s.id] = (\E g \in Of(dump, {"api_service_general"}) : g.service = s.id)

\* A department is under the code of its parent, read before or after it.
DepartmentsUnderParents ==
    \A d \in Of(dump, {"sys_department"}) :
        d.id # None =>
            /\ \A up \in Of(dump, {"sys_department"}) : d.parent = up.id => orgs[d.code] = up.code
            /\ d.code \in DOMAIN orgs

\* No attempt is without its delivery task, although executors come before
\* the jobs in the dump and no foreign key says so (pipelines.py).
AttemptsHaveTasks ==
    \A e \in Of(dump, {"exchange_executor"}) : e.id \in attempts => e.job \in DOMAIN tasks

\* The steps of an approval trail are numbered from one in the order they were
\* taken, those without a time last and in the order the import made them,
\* whatever order the rows came in and from whichever table, and the case points
\* at the last (exchange._map_data_apply_course).
StepsInTimeOrder ==
    \A c \in DOMAIN cases :
        LET steps == cases[c].steps
        IN /\ cases[c].step = Cardinality(DOMAIN steps)
           /\ {steps[n].no : n \in DOMAIN steps} = 1 .. Cardinality(DOMAIN steps)
           /\ \A m, n \in DOMAIN steps : steps[m].at < steps[n].at => steps[m].no < steps[n].no

\* Several link rows of one item, resource and binding never leave two active
\* mappings, and the first stays active when the dump is read again: the
\* unique constraint would end the import (catalog_metadata.py).
OneActiveLink ==
    \A k, l \in DOMAIN links :
        (k # l /\ links[k].status = "active" /\ links[l].status = "active")
            => links[k].triple # links[l].triple

\* Every pass that comes to its end leaves what the rows of the dump say,
\* whatever order they came in and wherever an earlier pass died
\* (catalog_metadata._rebind_catalog_code, exchange, service and objection
\* mappers).  All along, an attempt has its task, the steps of a case are
\* numbered by their time, and a triple has one active link (PipelinesMapper,
\* _map_data_apply_course, the unique constraint of resource_schema_mapping).
RowsConverge ==
    /\ phase = "done" => /\ ChildrenBound /\ GroupsFromTheirRow /\ DeliveriesDecided
                         /\ ObjectionsReplayed /\ ServicesMerged /\ DepartmentsUnderParents
    /\ AttemptsHaveTasks /\ StepsInTimeOrder /\ OneActiveLink
=============================================================================
