------------------------- MODULE MCLegacyMigration -------------------------
(***************************************************************************)
(* The accounts of an import, and the topic packages with their importers. *)
(* "focus" says which of the two a behaviour looks at; the other stays as  *)
(* it is.                                                                  *)
(***************************************************************************)
EXTENDS LegacyMigration, TopicPackages, TLC

CONSTANTS p1, c1

VARIABLE focus

\* Schemas and codes are interchangeable.
MigrationSymmetry == Permutations(Schemas) \union Permutations(Refs)

\* Rows of the topic packages' dumps.
MCPackageRows ==
    LET ImportRow(kind, status, items, files, feedbacks) ==
            [kind |-> kind, package |-> p1, status |-> status, items |-> items,
             files |-> files, feedbacks |-> feedbacks]
    IN {ImportRow("data_example", "4", {c1}, 1, 1), ImportRow("data_example", "2", {c1}, 2, 0),
        ImportRow("data_example", "0", {}, 0, 0), ImportRow("basesubject_info", "0", {c1}, 0, 0)}

\* What has several initial values keeps one where the focus is elsewhere.
MCInit ==
    /\ focus \in {"accounts", "packages"}
    /\ focus # "packages" => active = {}
    /\ Init /\ TopicInit
    /\ focus # "accounts" =>
           /\ schema = "empty"
           /\ \A s \in Schemas : dump[s] = [found |-> 0, row |-> Bad, unknown |-> FALSE, file |-> 1]

MCNext ==
    /\ \/ focus = "accounts" /\ Next /\ UNCHANGED topicVars
       \/ focus = "packages" /\ TopicNext /\ UNCHANGED vars
    /\ UNCHANGED focus

MCSpec == MCInit /\ [][MCNext]_<<focus, vars, topicVars>>
=============================================================================
