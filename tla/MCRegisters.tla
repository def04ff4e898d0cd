----------------------------- MODULE MCRegisters -----------------------------
(***************************************************************************)
(* Instances of the registers: six components with tables of their own and  *)
(* no step in common.  "focus" says which of them a behaviour looks at;    *)
(* the others stay as they are.                                            *)
(***************************************************************************)
EXTENDS ObjectionCases, LegacyRows, AuditTrail, Workbench, NationalChannel, ComplianceCases,
        TLC

CONSTANTS oA, oB, oC

VARIABLE focus

-----------------------------------------------------------------------------
(* LegacyRows: up to four rows of one family, so that every order of every *)
(* such choice is read.                                                    *)

Catalog(id, code, group, isActive) ==
    [table |-> "data_catalog", id |-> id, code |-> code, group |-> group, active |-> isActive]

Step(table, id, node, at, decision) ==
    [table |-> table, id |-> id, apply |-> "apply", node |-> node, at |-> at,
     decision |-> decision]

Plain(table, id, key) == [table |-> table, id |-> id, key |-> key, at |-> "day"]

Link(id) ==
    [table |-> "rc_resource_catalog_item_link", id |-> id, catalog |-> "c1", triple |-> "t"]
CatalogFamily ==
    {Catalog("c1", "CODE-1", "g1", TRUE), Catalog("c2", "CODE-2", "g1", FALSE),
     [table |-> "data_basic_elem_catalog", id |-> "b1", code |-> "basic-elem:b1",
      group |-> None, active |-> TRUE],
     [table |-> "data_basic_elem_catalog_item", id |-> "e1", code |-> "basic-elem:b1"],
     [table |-> "data_catalog_column", id |-> "i1", catalog |-> "c1"],
     [table |-> "rc_resource", id |-> "r1", catalog |-> "c2"],
     [table |-> "data_resource", id |-> "r2", catalog |-> "c1"],
     Link("l1"), Link("l2"),
     [table |-> "data_catalog_group", id |-> "g1", status |-> "offline"],
     [table |-> "data_group_permission", id |-> "p1", group |-> "g1"]}

ExchangeFamily ==
    {[table |-> "data_apply", id |-> "apply", status |-> "approved"],
     [table |-> "data_apply", id |-> "apply2", status |-> "rejected"],
     [table |-> "data_original_require", id |-> "require2", status |-> "draft"],
     [Step("data_apply_course", "k5", "deleted", 5, "approved") EXCEPT !.apply = None],
     [table |-> "data_require", id |-> "require", status |-> "submitted"],
     Step("data_apply_course", "k1", "platform", 3, "approved"),
     Step("data_apply_course", "k2", "platform", None, None),
     Step("data_apply_dept_approve", "k3", "dept", 2, "approved"),
     Step("data_apply_dept_approve", "k6", "dept2", None, None),
     [Step("resource_flow_log", "k4", "mount", 4, "rejected") EXCEPT !.apply = "review"],
     [table |-> "data_apply_authrization", id |-> "z1", apply |-> "apply",
      state |-> "granted"],
     [table |-> "subscribe_job", id |-> "j1", state |-> "running"],
     [table |-> "exchange_executor", id |-> "x1", job |-> "j1"],
     [table |-> "exchange_executor", id |-> "x2", job |-> "apply"]}

OtherFamily ==
    {[table |-> "data_objection", id |-> "o1", status |-> "submitted"],
     [table |-> "data_objection", id |-> "o2", status |-> "deleted"],
     [table |-> "data_objection_process", id |-> "h1", objection |-> "o1"],
     [table |-> "data_objection_process", id |-> "h2", objection |-> "o2"],
     [table |-> "api_service_info", id |-> "s1"],
     [table |-> "api_service_general", id |-> "n1", service |-> "s1"],
     Plain("rc_resource_url", "u1", "r1"), Plain("rc_resource_table", "u2", "r1"),
     Plain("db_meta_table", "m1", "r1"), Plain("catalog_quality_task", "q1", "c1"),
     Plain("meta_relation", "q2", "c1"), Plain("rc_catalog_materialize", "q3", "c1"),
     Plain("meta_gather_task", "q4", "c1"), Plain("graphdb_relation", None, "c1"),
     Plain("api_service_times", "v1", "s1"), Plain("api_group", "v2", "s1"),
     Plain("api_service_app", "v3", "s1"), Plain("api_service_data", "v4", "s1"),
     Plain("interface_result", "w1", "s1"), Plain("warning_handle_process", "w2", None),
     Plain("matter_manage", "w3", "s1"), Plain("warning_notice_rules", "w4", "s1"),
     Plain("ip_connection_failure", "w5", "s1"), Plain("kpi_index_info", "w6", "s1"),
     Plain("api_service_catalog", "v5", "s1"), Plain("product_call_result", "w7", "s1"),
     Plain("dc_catalog", "d1", "c1"), Plain("meta_database", "d2", "c1"),
     Plain("exchange_pipelines", "d3", "c1")}

Department(id, code, parent) ==
    [table |-> "sys_department", id |-> id, code |-> code, parent |-> parent]

GovernanceFamily ==
    {Department("1", "dep-a", None), Department("2", "dep-b", "1"),
     Department("3", "dep-c", "2"), Department(None, "dep-d", None),
     [table |-> "pub_organ", id |-> "g1", code |-> "organ", parent |-> "dep-a"],
     Plain("pub_region", "g2", "370000"), Plain("pub_dict", "g3", None),
     Plain("pub_role", "g4", "ROLE"), Plain("pub_apps", "g5", "app"),
     Plain("sys_region", "g6", "370000"), Plain("sys_role", "g7", "ROLE")}

\* Up to four rows of a family, or up to three.
Four(family) == {{a, b, c, d} : a, b, c, d \in family}
Three(family) == {{a, b, c} : a, b, c \in family}

\* With the empty dump, for behaviours that look elsewhere.
MCDumps == {{}} \union Four(CatalogFamily) \union Four(ExchangeFamily) \union Three(OtherFamily)
           \union Three(GovernanceFamily)

-----------------------------------------------------------------------------
(* AuditTrail: the store holds a row of another tenant.                    *)

MCResidue ==
    <<[request |-> 0, actor |-> "a1", tenant |-> "old", phase |-> "after",
       audit_class |-> "read-sensitive", outcome |-> "none", error |-> FALSE,
       decision |-> "none", count |-> 0, time |-> 0]>>

MCCalls == {<<"write-default", "reject">>, <<"read-trace", "none">>}

-----------------------------------------------------------------------------
(* Workbench: three organisations, one below another; names that mean one, *)
(* two or no organisation; an application of each kind.                    *)

MCAppOf ==
    LET App(kind, shared, by, from, owner, ch) ==
            [kind |-> kind, shared |-> shared, applicant |-> by, applicantOrg |-> from,
             provider |-> owner, channel |-> ch]
    IN [a1 |-> App("card", 2, "ann", oB, oA, "national"),
        a2 |-> App("card", 1, "ann", "dup", "nameB", "internal"),
        a3 |-> App("apply", 1, "old", "nameA", oC, "internal")]

MCEntryOf == [e1 |-> [owner |-> "nameA", source |-> "reverse", listed |-> TRUE]]
MCAssetOf == [x1 |-> [owner |-> oC, kind |-> "none"]]
MCCaseOf == [j1 |-> [complainant |-> oB, provider |-> oA]]
MCParent == oA :> NoOrgCode @@ oB :> NoOrgCode @@ oC :> oA
MCOrgName == oA :> "nameA" @@ oB :> "nameB" @@ oC :> "nameC"

MCViewerOf ==
    LET Viewer(role, org, who) == [role |-> role, org |-> org, actor |-> who]
    IN [v1 |-> Viewer("ROLE_ORGAN_MANAGER", oA, "max"),
        v2 |-> Viewer("ROLE_ORGAN_OPERATER", oB, "ann"),
        v3 |-> Viewer("ROLE_BUSIAUDIT", oA, "bea"),
        v4 |-> Viewer("ROLE_ORGAN_MANAGER", NoOrgCode, "ann")]

MCBenchBudgets ==
    {[writes |-> 2, outside |-> 1, reads |-> 0], [writes |-> 2, outside |-> 0, reads |-> 1],
     [writes |-> 1, outside |-> 1, reads |-> 1]}

-----------------------------------------------------------------------------
(* NationalChannel: switched off, without access, without an identity of   *)
(* the applicant, and ready.                                               *)

MCOperations == {[id |-> "o1", named |-> TRUE], [id |-> "o2", named |-> FALSE]}

MCNatEnvs ==
    LET Env(enabled, access, sid, material) ==
            [enabled |-> enabled, access |-> access, sid |-> sid, material |-> material]
    IN {Env(FALSE, TRUE, "mapped", TRUE), Env(TRUE, FALSE, "mapped", FALSE),
        Env(TRUE, TRUE, "others", FALSE), Env(TRUE, TRUE, "mapped", TRUE)}

-----------------------------------------------------------------------------

\* The threads of the objections are interchangeable.
ThreadSymmetry == Permutations(Threads)

Foci == {"objections", "rows", "trail", "bench", "national", "compliance"}

\* What has several initial values keeps one where the focus is elsewhere.
MCInit ==
    /\ focus \in Foci
    /\ focus # "rows" => dump = {}
    /\ focus # "bench" => benchBudget = CHOOSE b \in BenchBudgets : TRUE
    /\ focus # "national" => natEnv = CHOOSE e \in NatEnvs : TRUE
    /\ Init /\ RowsInit /\ TrailInit /\ BenchInit /\ NatInit /\ ComplianceInit

MCNext ==
    /\ \/ /\ focus = "objections" /\ Next
          /\ UNCHANGED <<rowsVars, trailVars, benchVars, natVars, caseVars>>
       \/ /\ focus = "rows" /\ RowsNext
          /\ UNCHANGED <<vars, trailVars, benchVars, natVars, caseVars>>
       \/ /\ focus = "trail" /\ TrailNext
          /\ UNCHANGED <<vars, rowsVars, benchVars, natVars, caseVars>>
       \/ /\ focus = "bench" /\ BenchNext
          /\ UNCHANGED <<vars, rowsVars, trailVars, natVars, caseVars>>
       \/ /\ focus = "national" /\ NatNext
          /\ UNCHANGED <<vars, rowsVars, trailVars, benchVars, caseVars>>
       \/ /\ focus = "compliance" /\ ComplianceNext
          /\ UNCHANGED <<vars, rowsVars, trailVars, benchVars, natVars>>
    /\ UNCHANGED focus

MCSpec ==
    MCInit /\ [][MCNext]_<<focus, vars, rowsVars, trailVars, benchVars, natVars, caseVars>>
=============================================================================
