------------------------------ MODULE FormFill ------------------------------
(***************************************************************************)
(* The form of an application: the value of every field and where it comes *)
(* from.  A person fills fields in, at creation or one by one; the         *)
(* derivation rules fill in what follows from an organ or a region; the    *)
(* assistant proposes texts for what is empty; the session gives the       *)
(* applicant's organisation.  The reference data that the rules read       *)
(* change on their own, and a submitted form may come back for correction. *)
(*                                                                         *)
(* Fields that are treated alike are one field: "purpose" stands for       *)
(* use_reason and scope too, "apply_domain" for delivery_expectation,      *)
(* "use_item" for the texts the assistant proposes that are not on the     *)
(* form, "applicant_org" for what else the identity gives.  Requests that  *)
(* overlap are the subject of WritePipeline and OverlappingSkills: here    *)
(* one skill runs at a time.                                               *)
(***************************************************************************)
EXTENDS Naturals

CONSTANTS Texts,         \* what a person writes into free fields
          OrganCodes,    \* codes a person picks as organ, known or not
          RegionCodes,   \* codes a person picks as region, known or not
          Entries,       \* what a person may fill in at creation, field by field
          ReferenceData, \* contents of the organ and region tables
          MaxFormSteps   \* bound on the skills called on a form

VARIABLES form,      \* the card: status, values, source and locked of each field, audit
          reference, \* what org_projection and region_projection hold now
          typed,     \* history: what a person last wrote into a field that is theirs
          writer,    \* history: who wrote the present value of a field
          readAt,    \* history: the reference data the last derivation read
          formSteps

formVars == <<form, reference, typed, writer, readAt, formSteps>>

Empty == ""
NeverTyped == "never typed"
Proposal == "proposal"          \* a text of the assistant
SessionOrg == "session org"     \* the name of the caller's organisation

\* FORM_FIELD_SPECS: the kinds of the fields on the form.
FORM_FIELD_SPECS ==
    [organ_code |-> "org", organ_name |-> "derived", region_code |-> "region",
     region_name |-> "derived", applicant_org |-> "derived", purpose |-> "text",
     apply_domain |-> "enum"]

FIELD_KEYS == DOMAIN FORM_FIELD_SPECS
AI_SUGGESTABLE_FIELDS == {"purpose", "use_item"}
FormFields == FIELD_KEYS \union AI_SUGGESTABLE_FIELDS

_MAX_PASSES == 5

Owned(source, locked) == [source |-> source, locked |-> locked]
NotNoted == Owned("none", FALSE)

Written(filled, f, value, provenance) ==
    [filled EXCEPT !.values[f] = value, !.provenance[f] = provenance]

-----------------------------------------------------------------------------
(* The derivation rules                                                    *)

\* ReferenceService.region and _resolve_region
_resolve_region(data, code) ==
    [f \in {"region_name"} |->
        IF code \in DOMAIN data.regions THEN data.regions[code] ELSE Empty]

\* ReferenceService.organ and _resolve_organ: the region table has the say on
\* the region's name, then the organ's own row.
_resolve_organ(data, code) ==
    IF code \notin DOMAIN data.organs
    THEN [f \in {"organ_name", "region_code", "region_name"} |-> Empty]
    ELSE LET row == data.organs[code]
             known == _resolve_region(data, row.region).region_name
         IN [organ_name |-> row.name, region_code |-> row.region,
             region_name |-> IF known # Empty THEN known ELSE row.region_name]

\* The body of derive's loop for one rule: a trigger that is set writes its
\* targets whoever owns them, one that is empty takes back what was derived.
Ruled(filled, trigger, result) ==
    LET given == filled.values[trigger] # Empty
        taken(f) == IF given THEN f \in DOMAIN result
                    ELSE f \in DOMAIN result /\ filled.provenance[f].source = "derived"
    IN [filled EXCEPT
           !.values = [f \in FormFields |->
               IF ~taken(f) THEN @[f] ELSE IF given THEN result[f] ELSE Empty],
           !.provenance = [f \in FormFields |->
               IF ~taken(f) THEN @[f]
               ELSE IF given THEN Owned("derived", FALSE) ELSE Owned("empty", FALSE)]]

\* One pass over DERIVATION_RULES, the organ first.
DERIVATION_RULES(data, filled) ==
    LET organised ==
            Ruled(filled, "organ_code", _resolve_organ(data, filled.values["organ_code"]))
    IN Ruled(organised, "region_code",
             _resolve_region(data, organised.values["region_code"]))

\* A pass that changes nothing ends the loop; the passes it saves would change
\* nothing either.
derive(data, filled) ==
    LET after[n \in 0 .. _MAX_PASSES] ==
            IF n = 0 THEN filled ELSE DERIVATION_RULES(data, after[n - 1])
    IN after[_MAX_PASSES]

-----------------------------------------------------------------------------
(* Filling                                                                 *)

\* Step 1 of orchestrate_fill; org is Empty where the caller has none.
IdentityFilled(filled, org) ==
    IF org = Empty \/ filled.provenance["applicant_org"].source = "human" THEN filled
    ELSE Written(filled, "applicant_org", org, Owned("derived", FALSE))

\* Mutant: whatever is empty may be written, though a person cleared it.
SuggestedWhereEmpty(filled, f) ==
    f \in AI_SUGGESTABLE_FIELDS /\ filled.values[f] = Empty

\* Step 3: whether the assistant may write a field.
Suggestible(filled, f) ==
    /\ f \in AI_SUGGESTABLE_FIELDS
    /\ ~filled.provenance[f].locked
    /\ filled.provenance[f].source \notin {"human", "derived"}
    /\ filled.values[f] = Empty

\* The proposals are for different fields: their order does not matter.
Suggested(filled, proposed) ==
    [filled EXCEPT
        !.values = [f \in FormFields |->
            IF f \in proposed /\ Suggestible(filled, f) THEN Proposal ELSE @[f]],
        !.provenance = [f \in FormFields |->
            IF f \in proposed /\ Suggestible(filled, f)
            THEN Owned("ai_suggested", FALSE) ELSE @[f]]]

\* Step 4: a field of the form nobody has answered for yet.
Noted(filled) ==
    [filled EXCEPT !.provenance = [f \in FormFields |->
        IF @[f] # NotNoted \/ (f \notin FIELD_KEYS /\ filled.values[f] = Empty) THEN @[f]
        ELSE Owned(IF filled.values[f] = Empty THEN "empty" ELSE "human", FALSE)]]

orchestrate_fill(data, filled, org, proposed) ==
    Noted(Suggested(derive(data, IdentityFilled(filled, org)), proposed))

\* entered: what the person filled in, field by field, Empty where nothing.
build_initial(data, entered, org, proposed) ==
    LET blank == [values |-> [f \in FormFields |->
                      IF f \in FIELD_KEYS THEN entered[f] ELSE Empty],
                  provenance |-> [f \in FormFields |->
                      IF f \in FIELD_KEYS /\ entered[f] # Empty
                      THEN Owned("human", TRUE) ELSE NotNoted]]
    IN orchestrate_fill(data, blank, org, proposed)

apply_human_edit(data, filled, f, value) ==
    derive(data, Written(filled, f, value, Owned("human", TRUE)))

\* The part of assemble_form_fields that says what the page lets a person edit.
assemble_form_fields(filled) ==
    {f \in FIELD_KEYS :
        FORM_FIELD_SPECS[f] # "derived" /\ filled.provenance[f].source # "derived"}

provenance_audit_snapshot(filled) ==
    [source \in {"ai_suggested", "human", "derived"} |->
        {f \in FormFields : filled.provenance[f].source = source}]

-----------------------------------------------------------------------------
(* The skills on the form                                                  *)

NoAudit == [source \in {} |-> {}]
Absent == [status |-> "absent", audit |-> NoAudit,
           values |-> [f \in FormFields |-> Empty],
           provenance |-> [f \in FormFields |-> NotNoted]]

\* What a person can give for a field.
Answers(f) ==
    CASE f = "organ_code" -> OrganCodes \union {Empty}
      [] f = "region_code" -> RegionCodes \union {Empty}
      [] OTHER -> Texts \union {Empty}

FormInit ==
    /\ form = Absent
    /\ reference \in ReferenceData
    /\ typed = [f \in FormFields |-> NeverTyped]
    /\ writer = [f \in FormFields |-> "nobody"]
    /\ readAt = reference
    /\ formSteps = 0

\* A region belongs to the person only while no organ gives it.
Yielded(f) == f = "region_code" /\ form'.values["organ_code"] # Empty

\* A step in which a person wrote the fields of "by" and "other" the rest.
Witnessed(by, other) ==
    /\ typed' = [f \in FormFields |->
           IF Yielded(f) THEN NeverTyped
           ELSE IF f \in DOMAIN by THEN by[f]
           ELSE typed[f]]
    /\ writer' = [f \in FormFields |->
           IF f \in DOMAIN by THEN "person"
           ELSE IF form'.values[f] # form.values[f] THEN other
           ELSE writer[f]]
    /\ readAt' = reference
    /\ formSteps < MaxFormSteps /\ formSteps' = formSteps + 1
    /\ UNCHANGED reference

\* _create_request: the form of a new application, a draft or one that goes
\* into process at once.  Each proposal is for a field the caller names.
Create(entered, org, proposed, status) ==
    /\ form.status = "absent"
    /\ LET filled == build_initial(reference, entered, org, proposed)
       IN form' = [status |-> status, audit |-> NoAudit, values |-> filled.values,
                   provenance |-> filled.provenance]
    /\ LET given == {f \in FIELD_KEYS : entered[f] # Empty}
       IN Witnessed([f \in given |-> entered[f]], "machine")

_SUBMITTABLE_STATUSES == {"draft", "need-fix"}

\* _update_field
UpdateField(f, value) ==
    /\ f \in FIELD_KEYS /\ FORM_FIELD_SPECS[f] # "derived"
    /\ form.status \in _SUBMITTABLE_STATUSES
    /\ form' = apply_human_edit(reference, form, f, value)
    /\ Witnessed([g \in {f} |-> value], "machine")

\* The fields for which the rule-made draft has a text; what else it says of
\* risks and gaps is shown and not kept.
_draft_fallback == {"purpose", "use_item"}

\* _ai_suggest_draft; no identity is handed on.
AiSuggestDraft ==
    /\ form.status \in _SUBMITTABLE_STATUSES
    /\ form' = orchestrate_fill(reference, form, Empty, _draft_fallback)
    /\ Witnessed([f \in {} |-> Empty], "machine")

\* The part of _submit_request that touches the form: nothing is derived anew.
SubmitForm ==
    /\ form.status \in _SUBMITTABLE_STATUSES
    /\ form' = [form EXCEPT !.status = "in process",
                            !.audit = provenance_audit_snapshot(form)]
    /\ formSteps < MaxFormSteps /\ formSteps' = formSteps + 1
    /\ UNCHANGED <<reference, typed, writer, readAt>>

\* The reviewer sends the application back (return_for_fix).
ReturnForFix ==
    /\ form.status = "in process"
    /\ form' = [form EXCEPT !.status = "need-fix"]
    /\ formSteps < MaxFormSteps /\ formSteps' = formSteps + 1
    /\ UNCHANGED <<reference, typed, writer, readAt>>

\* An import or a governance skill writes the organ and region tables.
ChangeReference ==
    /\ reference' \in ReferenceData \ {reference}
    /\ formSteps < MaxFormSteps /\ formSteps' = formSteps + 1
    /\ UNCHANGED <<form, typed, writer, readAt>>

FormNext ==
    \/ \E entered \in Entries, org \in {Empty, SessionOrg},
          proposed \in SUBSET AI_SUGGESTABLE_FIELDS, status \in {"draft", "in process"} :
          Create(entered, org, proposed, status)
    \/ \E f \in FIELD_KEYS : \E value \in Answers(f) : UpdateField(f, value)
    \/ AiSuggestDraft \/ SubmitForm \/ ReturnForFix \/ ChangeReference

FormSpec == FormInit /\ [][FormNext]_formVars

-----------------------------------------------------------------------------
(* Properties                                                              *)

\* What a person wrote, or cleared, stays until the person changes it, through
\* proposals, derivations, submissions and returns; a region only until an
\* organ gives one.
PersonHasTheSay ==
    \A f \in FIELD_KEYS :
        typed[f] # NeverTyped /\ FORM_FIELD_SPECS[f] # "derived" => form.values[f] = typed[f]

\* The names are those of the codes in the data last read, and the region is
\* the organ's; without its code a name is empty or the person's own.
NamesFitCodes ==
    LET v == form.values
        organ == _resolve_organ(readAt, v["organ_code"])
    IN /\ v["organ_code"] # Empty =>
              v["organ_name"] = organ.organ_name /\ v["region_code"] = organ.region_code
       /\ v["region_code"] # Empty =>
              v["region_name"] = _resolve_region(readAt, v["region_code"]).region_name
       /\ v["organ_code"] = Empty => v["organ_name"] \in {Empty, typed["organ_name"]}
       /\ v["region_code"] = Empty => v["region_name"] \in {Empty, typed["region_name"]}

\* A field the page lets a person edit keeps what the person enters.
EditableSticks ==
    form.status \in _SUBMITTABLE_STATUSES =>
        \A f \in assemble_form_fields(form) : \A value \in Answers(f) :
            apply_human_edit(reference, form, f, value).values[f] = value

\* The audit made at submission names as proposals exactly the texts that no
\* person wrote or replaced, and is still true of the form under review.
AuditNamesProposals ==
    form.status = "in process" /\ form.audit # NoAudit =>
        form.audit["ai_suggested"] =
            {f \in AI_SUGGESTABLE_FIELDS : writer[f] = "machine" /\ form.values[f] # Empty}

\* Whatever edits, proposals, changes of the reference data, submissions and
\* returns a form goes through, what persons wrote is kept, names fit their
\* codes, what the page lets one edit can be edited, and the submission says
\* which texts nobody wrote (field_derivation, form_fill_service, _update_field,
\* _ai_suggest_draft, _submit_request).
FormKept == PersonHasTheSay /\ NamesFitCodes /\ EditableSticks /\ AuditNamesProposals
=============================================================================
