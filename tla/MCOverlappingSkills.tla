------------------------ MODULE MCOverlappingSkills ------------------------
(***************************************************************************)
(* Applications under overlapping skills, what such skills leave behind -  *)
(* the approval file and the delivery records - and the form.  "focus"     *)
(* says which of the four a behaviour looks at; the others stay as they    *)
(* are.                                                                    *)
(***************************************************************************)
EXTENDS OverlappingSkills, ApprovalRecords, DeliveryRecords, FormFill, TLC

VARIABLE focus

MCDeliveryAudits == <<"a1", "a2", "a3">>

\* Threads and applications are interchangeable.
SkillSymmetry == Permutations(Threads) \union Permutations(Apps)

\* Organs with a region, with a region the table does not hold, and with a
\* region's name only; and the tables after a reform.
MCReferenceData ==
    LET Row(name, region, region_name) ==
            [name |-> name, region |-> region, region_name |-> region_name]
    IN {[organs |-> [o1 |-> Row("one", "r1", "own"), o2 |-> Row("two", Empty, "own")],
         regions |-> [r1 |-> "region one"]],
        [organs |-> [o1 |-> Row("new one", "rx", "own"), o2 |-> Row("two", "r1", Empty)],
         regions |-> [r1 |-> "new region"]]}

\* An organ, a region, the names and the texts, each given or not.
MCEntries ==
    {[organ_code |-> organ, region_code |-> region, organ_name |-> names,
      region_name |-> names, applicant_org |-> names, purpose |-> texts,
      apply_domain |-> texts] :
        organ \in {Empty, "o1"}, region \in {Empty, "rx"}, names \in {Empty, "text"},
        texts \in {Empty, "text"}}

MCInit ==
    /\ focus \in {"skills", "files", "delivery", "form"}
    /\ focus # "form" => reference = CHOOSE d \in ReferenceData : TRUE
    /\ focus # "files" => kindOf = [c \in Codes |-> "runtime"]
    /\ focus # "delivery" => delivery = [t \in Deliveries |-> RuntimeTask]
    /\ Init /\ FilesInit /\ DeliveryInit /\ FormInit

MCNext ==
    /\ \/ focus = "skills" /\ Next /\ UNCHANGED <<fileVars, deliveryVars, formVars>>
       \/ focus = "files" /\ FilesNext /\ UNCHANGED <<vars, deliveryVars, formVars>>
       \/ focus = "delivery" /\ DeliveryNext /\ UNCHANGED <<vars, fileVars, formVars>>
       \/ focus = "form" /\ FormNext /\ UNCHANGED <<vars, fileVars, deliveryVars>>
    /\ UNCHANGED focus

MCSpec == MCInit /\ [][MCNext]_<<focus, vars, fileVars, deliveryVars, formVars>>
=============================================================================
