--------------------------- MODULE Recommendations ---------------------------
(***************************************************************************)
(* The recommendation engine: rule templates that go draft -> preview ->   *)
(* live (zw_brain/domain/recommendation_rule.py) and the scoring of        *)
(* catalogs for what an applicant says he needs                            *)
(* (recommendation_engine.py).  Catalogs come from the catalog items and   *)
(* from past requirements; the share types of their resources change while *)
(* the engine is in use.                                                   *)
(*                                                                         *)
(* A text is the set of its tokens.  Scores are counted in 120ths, so that *)
(* the overlap of texts with up to six tokens between them is a whole      *)
(* number.  A clause is a record of its code, kind and weight and what its *)
(* kind needs: words, hint, orgs, scale and min.  Past requirements        *)
(* without a catalog count for nothing and are left out.                   *)
(***************************************************************************)
EXTENDS Integers, Sequences, FiniteSets, SequencesExt, FiniteSetsExt

CONSTANTS RuleCodes,      \* codes of rules
          RulePayloads,   \* lists of clauses a program hands to create_draft
          Items,          \* catalog items: code, resource and title
          Past,           \* requirement_history rows: id, catalog, resource and name
          Resources,      \* resource codes
          NoResource,     \* no resource on an item or in a past requirement
          Intents,        \* what applicants ask for: text and org
          TopKs,          \* how many catalogs they want
          MaxRules,       \* bound on the rows of recommendation_rule
          MaxAsked        \* bound on the suggestions and changes of the catalog

ASSUME RuleBoundsAssumption == MaxRules \in Nat /\ MaxAsked \in Nat
ASSUME ResourcesAssumption ==
    \A tied \in Items \union Past : tied.resource \in Resources \union {NoResource}

VARIABLES
    rules,       \* the rows of recommendation_rule, in the order of their creation
    listed,      \* the catalog items there are
    past,        \* the past requirements there are
    share,       \* the share type of each resource
    submissions, \* requirement_submission rows: the intents registered for a person
    asked        \* suggestions and changes so far

ruleVars == <<rules, listed, past, share, submissions, asked>>

ShareTypes == 1 .. 3
SHARE_TYPE_CLOSED == 3

Unit == 120
DEFAULT_SCORE_THRESHOLD == Unit \div 10

ClauseKinds == {"keyword_match", "category_match", "org_affinity", "usage_frequency",
                "fuzzy_text", "negative_filter"}

-----------------------------------------------------------------------------
(* Rules                                                                   *)

\* _validate_payload: clauses with codes of their own, known kinds, and
\* weights above zero.
ValidClauses(clauses) ==
    /\ clauses # <<>>
    /\ \A k \in 1 .. Len(clauses) :
          /\ \A j \in 1 .. k - 1 : clauses[j].code # clauses[k].code
          /\ clauses[k].kind \in ClauseKinds
          /\ clauses[k].weight > 0

RowsOfRule(code) == {i \in 1 .. Len(rules) : rules[i].code = code}

NextRuleVersion(code) == Max({rules[i].version : i \in RowsOfRule(code)} \union {0}) + 1

AppendRule(code, clauses, status, version) ==
    /\ Len(rules) < MaxRules
    /\ rules' = Append(rules, [code |-> code, status |-> status, version |-> version,
                               clauses |-> clauses])
    /\ UNCHANGED <<listed, past, share, submissions, asked>>

\* RecommendationRuleRepo.create_draft, called by a fixture or an administrator's
\* program; a payload that is not valid raises.
create_rule_draft(code, clauses) ==
    /\ ValidClauses(clauses)
    /\ AppendRule(code, clauses, "draft", NextRuleVersion(code))

MoveRule(i, from, to, version) ==
    /\ rules[i].status = from
    /\ rules' = [rules EXCEPT ![i].status = to, ![i].version = version]
    /\ UNCHANGED <<listed, past, share, submissions, asked>>

promote_rule(i) == MoveRule(i, "draft", "preview", rules[i].version)
revert_rule(i) == MoveRule(i, "preview", "draft", rules[i].version)

\* commit_to_live: the version goes above all rows of the code.
commit_rule(i) == MoveRule(i, "preview", "live", NextRuleVersion(rules[i].code))

\* latest_by_code
Latest(code) == CHOOSE i \in RowsOfRule(code) :
                    \A j \in RowsOfRule(code) : rules[j].version <= rules[i].version

\* recommendation.rule.commit with a rule_code: the latest payload as a new
\* draft, promoted and committed, three commits of which the later may fail.
reapply_rule(code) ==
    /\ RowsOfRule(code) # {}
    /\ LET drafted == NextRuleVersion(code)
       IN \/ AppendRule(code, rules[Latest(code)].clauses, "live", drafted + 1)
          \/ \E status \in {"draft", "preview"} :
                AppendRule(code, rules[Latest(code)].clauses, status, drafted)

-----------------------------------------------------------------------------
(* Scoring                                                                 *)

\* list_live: every live row, older versions of a code among them.
list_live == {i \in 1 .. Len(rules) : rules[i].status = "live"}

\* The clauses of the live rules, by row and place.
LiveClauses ==
    LET most == Max({Len(rules[i].clauses) : i \in list_live} \union {0})
    IN {c \in list_live \X (1 .. most) : c[2] <= Len(rules[c[1]].clauses)}

Overlap(a, b) ==
    IF a = {} \/ b = {} THEN 0
    ELSE (Unit * Cardinality(a \intersect b)) \div Cardinality(a \union b)

\* The past requirements of a catalog, in order.
HistoryOf(catalog) == SelectSeq(past, LAMBDA h : h.catalog = catalog)

\* What one clause adds to the score of a catalog; 0 where it does not hit.
Delta(clause, catalog, title, intent) ==
    LET touched == clause.words \intersect (intent.text \union title) # {}
        used == Len(HistoryOf(catalog))
        texts == {title} \union {h.name : h \in ToSet(HistoryOf(catalog))}
    IN CASE clause.kind = "keyword_match" -> IF touched THEN clause.weight * Unit ELSE 0
         [] clause.kind = "category_match" ->
               LET category == IF clause.hint = {} THEN title ELSE clause.hint
               IN IF clause.words \intersect category # {} THEN clause.weight * Unit ELSE 0
         [] clause.kind = "org_affinity" ->
               IF intent.org \in clause.orgs THEN clause.weight * Unit ELSE 0
         [] clause.kind = "usage_frequency" ->
               IF used >= clause.min THEN clause.weight * clause.scale * used ELSE 0
         [] clause.kind = "fuzzy_text" ->
               IF title = {} THEN 0
               ELSE clause.weight * Max({Overlap(intent.text, t) : t \in texts})
         [] clause.kind = "negative_filter" -> IF touched THEN -(clause.weight * Unit) ELSE 0

\* The weights of all clauses of all live rules add up.
_score_catalog(catalog, title, intent) ==
    MapThenSumSet(LAMBDA c : Delta(rules[c[1]].clauses[c[2]], catalog, title, intent), LiveClauses)

\* _no_share_resource_codes
_no_share_resource_codes == {r \in Resources : share[r] = SHARE_TYPE_CLOSED}

\* Mutant: past requirements are forgotten.
ExcludedByItems(closed) == {i.code : i \in {j \in ToSet(listed) : j.resource \in closed}}

\* The catalogs that an item or a past requirement ties to a closed resource.
excluded_catalog_ids(closed) ==
    {i.code : i \in {j \in ToSet(listed) : j.resource \in closed}}
    \union {h.catalog : h \in {r \in ToSet(past) : r.resource \in closed}}

\* The catalogs that may be suggested.
Pool == ({i.code : i \in ToSet(listed)} \union {h.catalog : h \in ToSet(past)})
        \ excluded_catalog_ids(_no_share_resource_codes)

\* The title a catalog is scored under: that of its last item, or, where it has
\* none, the name of its first past requirement.
TitleOf(catalog) ==
    LET items == SelectSeq(listed, LAMBDA i : i.code = catalog)
    IN IF items # <<>> THEN Last(items).title ELSE Head(HistoryOf(catalog)).name

\* The catalogs with a score above zero.
Candidates(intent) ==
    {c \in [catalog : Pool, score : {_score_catalog(p, TitleOf(p), intent) : p \in Pool}] :
        c.score > 0 /\ c.score = _score_catalog(c.catalog, TitleOf(c.catalog), intent)}

\* What suggest may return: the best "top" candidates, ties either way, as the
\* rows come; nothing without a live rule or if the best is below the threshold.
suggest(intent, top) ==
    LET all == Candidates(intent)
    IN IF list_live = {} \/ \A c \in all : c.score < DEFAULT_SCORE_THRESHOLD THEN {{}}
       ELSE {best \in SUBSET all :
                /\ Cardinality(best) = Min({top, Cardinality(all)})
                /\ \A c \in best, d \in all \ best : c.score >= d.score}

-----------------------------------------------------------------------------
RuleInit ==
    /\ rules = <<>>
    /\ listed = <<>>
    /\ past = <<>>
    /\ share = [r \in Resources |-> 1]
    /\ submissions = <<>>
    /\ asked = 0

Ask == asked < MaxAsked /\ asked' = asked + 1

\* recommendation.similar_catalog.suggest; an empty answer registers the
\* requirement for a person if the caller wants that.
Suggest(intent, top, register) ==
    /\ Ask
    /\ \E found \in suggest(intent, top) :
          submissions' = IF found = {} /\ register THEN Append(submissions, intent)
                         ELSE submissions
    /\ UNCHANGED <<rules, listed, past, share>>

\* The catalog, the past requirements and the share types change.
ListItem(i) ==
    /\ Ask
    /\ i \notin ToSet(listed)
    /\ listed' = Append(listed, i)
    /\ UNCHANGED <<rules, past, share, submissions>>

AddPast(h) ==
    /\ Ask
    /\ h \notin ToSet(past)
    /\ past' = Append(past, h)
    /\ UNCHANGED <<rules, listed, share, submissions>>

SetShareType(r, type) ==
    /\ Ask
    /\ share[r] # type
    /\ share' = [share EXCEPT ![r] = type]
    /\ UNCHANGED <<rules, listed, past, submissions>>

RuleNext ==
    \/ \E code \in RuleCodes :
          (\E clauses \in RulePayloads : create_rule_draft(code, clauses)) \/ reapply_rule(code)
    \/ \E i \in 1 .. Len(rules) : promote_rule(i) \/ revert_rule(i) \/ commit_rule(i)
    \/ \E intent \in Intents, top \in TopKs, register \in BOOLEAN : Suggest(intent, top, register)
    \/ \E i \in Items : ListItem(i)
    \/ \E h \in Past : AddPast(h)
    \/ \E r \in Resources, type \in ShareTypes : SetShareType(r, type)

RuleSpec == RuleInit /\ [][RuleNext]_ruleVars

-----------------------------------------------------------------------------
(* Properties                                                              *)

\* Two rows of a rule code never share a version: uq_recommendation_rule is
\* never met, whatever order rows are drafted, reverted, committed and applied
\* again in, and wherever that breaks off.
RuleVersionsUnique ==
    \A i, j \in 1 .. Len(rules) :
        i # j /\ rules[i].code = rules[j].code => rules[i].version # rules[j].version

\* A resource that is not shared is never suggested: no row, of the items or of
\* the past requirements, ties a suggested catalog to a closed resource, whatever
\* the rules say and whichever of the two brought the catalog in.
ClosedNeverSuggested ==
    \A intent \in Intents, top \in TopKs :
        \A found \in suggest(intent, top) : \A c \in found :
            /\ \A i \in ToSet(listed) :
                  i.code = c.catalog /\ i.resource # NoResource
                  => share[i.resource] # SHARE_TYPE_CLOSED
            /\ \A h \in ToSet(past) :
                  h.catalog = c.catalog /\ h.resource # NoResource
                  => share[h.resource] # SHARE_TYPE_CLOSED

\* The two together: the rules of a code keep their versions apart and no rule makes
\* the engine suggest a catalog tied to a closed resource (_commit_rule, suggest).
RulesAgree == RuleVersionsUnique /\ ClosedNeverSuggested
=============================================================================
