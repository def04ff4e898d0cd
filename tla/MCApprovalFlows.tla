-------------------------- MODULE MCApprovalFlows --------------------------
(***************************************************************************)
(* The three configuration engines for TLC: approval flows, forms and      *)
(* recommendation rules.  "focus" says which of them a behaviour looks at; *)
(* the others stay as they are.  Flows are over two inner nodes, with dead *)
(* ends, circles, by-passes and branches of every priority.                *)
(***************************************************************************)
EXTENDS ApprovalFlows, FormTemplates, Recommendations

VARIABLE focus

Edge(n, kind) == [to |-> n, kind |-> kind]

Flow(tb, start, oa, ob) ==
    [type |-> [a |-> "approval", b |-> tb], nodes |-> <<"b", "a">>,
     out |-> [start |-> start, a |-> oa, b |-> ob, end |-> <<>>]]

ToA == <<Edge("a", "always")>>
ToB == <<Edge("b", "always")>>
ToEnd == <<Edge("end", "on_decision")>>

MCLine == <<"a", "b">>

MCFlows == {
    Flow("approval", ToB, ToEnd, ToA),                                  \* against the list order
    Flow("notify", ToA, ToB, ToEnd),                                    \* a notice on the way
    Flow("notify", ToB, ToEnd, ToEnd),                                  \* no approval
    Flow("approval", ToA, <<Edge("end", "expression"), Edge("b", "always")>>, ToA),  \* a circle
    Flow("approval", ToA, <<Edge("b", "expression"), Edge("end", "expression")>>, <<>>), \* dead end
    Flow("approval", <<Edge("b", "on_decision"), Edge("a", "on_decision")>>, ToEnd, ToEnd) }

\* A form with two validators of a kind on one field, one with a repeated field
\* and one with a validator of an unknown field.
MCPayloads ==
    LET Check(code, field, min) == [code |-> code, field |-> field, kind |-> "length",
                                    given |-> [w \in {"minLength"} |-> min]]
        Form(second, checks) == [sections |-> <<"basic">>, validators |-> checks,
                                 fields |-> <<Field("a", "multiselect", TRUE),
                                              Field(second, "datetime", FALSE)>>]
    IN {Form("b", <<Check("v1", "a", "2"), Check("v2", "a", "5"), Check("v3", "b", "1")>>),
        Form("a", <<>>), Form("b", <<Check("v1", "c", "2")>>)}

\* Names in any order, one repeated; a number; too large a number; nothing.
MCSentences ==
    LET Says(mentions, count) == [mentions |-> mentions, count |-> count]
    IN {Says(<<"phone", "applicant_name", "phone">>, 0), Says(<<"attachment", "apply_date">>, 2),
        Says(<<>>, 3), Says(<<>>, 21), Says(<<>>, 0)}

\* Clauses of every kind, and a payload that repeats a code.
MCRulePayloads ==
    LET Clause(code, kind, weight) ==
            [code |-> code, kind |-> kind, weight |-> weight, words |-> {"water", "map"},
             hint |-> {}, orgs |-> {"o1"}, scale |-> 24, min |-> 1]
    IN {<<Clause("k", "keyword_match", 1), Clause("u", "usage_frequency", 1),
          Clause("c", "category_match", 1)>>,
        <<Clause("f", "fuzzy_text", 2), Clause("o", "org_affinity", 1),
          Clause("n", "negative_filter", 1)>>,
        <<Clause("k", "keyword_match", 1), Clause("k", "fuzzy_text", 1)>>}

\* One catalog that only an item ties to its resource, one that only a past
\* requirement does.
MCItems == {[code |-> "c1", resource |-> "r1", title |-> {"water", "use"}],
            [code |-> "c2", resource |-> NoResource, title |-> {"roads"}]}
MCPast == {[id |-> "h1", catalog |-> "c2", resource |-> "r2", name |-> {"roads", "plan"}],
           [id |-> "h2", catalog |-> "c1", resource |-> NoResource, name |-> {"water"}]}
MCIntents == {[text |-> {"roads", "plan"}, org |-> "o1"], [text |-> {"soil"}, org |-> "o2"]}

MCInit ==
    /\ focus \in {"flows", "forms", "rules"}
    /\ FlowsInit /\ FormInit /\ RuleInit

MCNext ==
    /\ \/ focus = "flows" /\ FlowsNext /\ UNCHANGED <<forms, ruleVars>>
       \/ focus = "forms" /\ FormNext /\ UNCHANGED <<flowVars, ruleVars>>
       \/ focus = "rules" /\ RuleNext /\ UNCHANGED <<flowVars, forms>>
    /\ UNCHANGED focus

MCSpec == MCInit /\ [][MCNext]_<<focus, flowVars, forms, ruleVars>>
=============================================================================
