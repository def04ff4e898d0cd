\* Three flow templates, two of them handwritten, and one application; three form
\* templates in two tenants; three rules and three changes or suggestions.
SPECIFICATION MCSpec
CONSTANTS
    Codes = {"x"}
    SharedTypes = {1}
    Projects = {"p"}
    Apps = {"a1"}
    Line <- MCLine
    Flows <- MCFlows
    None = None
    MaxRows = 3
    MaxManual = 2
    FormTenants = {"t1", "t2"}
    FormCodes = {"f"}
    Payloads <- MCPayloads
    Sentences <- MCSentences
    MaxForms = 3
    RuleCodes = {"x"}
    RulePayloads <- MCRulePayloads
    Items <- MCItems
    Past <- MCPast
    Resources = {"r1", "r2"}
    NoResource = "no resource"
    Intents <- MCIntents
    TopKs = {1, 5}
    MaxRules = 3
    MaxAsked = 3
CHECK_DEADLOCK FALSE
INVARIANTS
    FlowsAgree
    FormsAgree
    RulesAgree
