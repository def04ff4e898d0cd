---------------------------- MODULE FormTemplates ----------------------------
(***************************************************************************)
(* The form engine (zw_brain/domain/form_schema.py): form templates of a   *)
(* tenant that go draft -> preview -> live under a version per form code,  *)
(* drafted by hand or from a sentence (form_schema_nl_draft.py), and the   *)
(* JSON Schema a page makes of one.                                        *)
(*                                                                         *)
(* A payload is a list of section codes, of fields and of validators.  A   *)
(* validator gives values for some of the keywords of its kind; the        *)
(* section, field and validator tables repeat the payload in the same      *)
(* commit and are not kept apart.  A sentence is the list of known field   *)
(* names in it, by position, and the number it says of "fields", 0 for     *)
(* none.  The write lock makes the skills follow each other.               *)
(***************************************************************************)
EXTENDS Integers, Sequences, FiniteSets, SequencesExt

CONSTANTS FormTenants,   \* tenants
          FormCodes,     \* form codes
          Payloads,      \* payloads a program hands to create_draft, valid or not
          Sentences,     \* sentences of administrators
          MaxForms       \* bound on the rows of form_schema

ASSUME FormBoundsAssumption == MaxForms \in Nat

VARIABLE forms           \* the rows of form_schema, in the order of their creation

ValidFieldTypes == {"text", "textarea", "number", "date", "datetime", "select",
                    "multiselect", "checkbox", "file", "user_picker", "org_picker"}

\* _VALID_VALIDATOR_KINDS, with the keywords that _apply_validator_to_prop
\* knows for each.
KeywordsOf == [regex |-> {"pattern"}, range |-> {"minimum", "maximum"},
               length |-> {"minLength", "maxLength"}, enum |-> {"enum"},
               file_size |-> {"x-file-max-bytes"}, file_type |-> {"x-file-accepted-types"},
               custom_expression |-> {"x-custom-expression"}]

Field(code, type, required) ==
    [code |-> code, section |-> "basic", type |-> type, required |-> required]

-----------------------------------------------------------------------------
(* Payloads                                                                *)

CodesOf(list) == {list[k].code : k \in 1 .. Len(list)}

Unrepeated(list) == Cardinality(CodesOf(list)) = Len(list)

_validate_payload(payload) ==
    /\ payload.sections # <<>> /\ payload.fields # <<>>
    /\ Cardinality(ToSet(payload.sections)) = Len(payload.sections)
    /\ Unrepeated(payload.fields) /\ Unrepeated(payload.validators)
    /\ \A k \in 1 .. Len(payload.fields) :
          /\ payload.fields[k].section \in ToSet(payload.sections)
          /\ payload.fields[k].type \in ValidFieldTypes
    /\ \A k \in 1 .. Len(payload.validators) :
          /\ payload.validators[k].field \in CodesOf(payload.fields)
          /\ payload.validators[k].kind \in DOMAIN KeywordsOf

\* _FIELD_TEMPLATES: type, whether required, and the kind of the one validator.
FieldTemplates ==
    LET Of(type, required, kind) == [type |-> type, required |-> required, kind |-> kind]
    IN [applicant_name |-> Of("text", TRUE, "length"), id_card |-> Of("text", TRUE, "regex"),
        phone |-> Of("text", TRUE, "length"), applicant_org |-> Of("text", TRUE, "none"),
        apply_reason |-> Of("textarea", TRUE, "length"), apply_date |-> Of("date", TRUE, "none"),
        attachment |-> Of("file", FALSE, "file_size"), remark |-> Of("textarea", FALSE, "none"),
        email |-> Of("text", FALSE, "regex"), address |-> Of("text", FALSE, "none")]

_DEFAULT_MAX_FIELDS == 20

\* A payload has lists, and a sentence mentions known fields.
ASSUME FormsAssumption ==
    /\ \A p \in Payloads : /\ p.sections \in Seq(ToSet(p.sections))
                          /\ p.fields \in Seq(ToSet(p.fields))
                          /\ p.validators \in Seq(ToSet(p.validators))
    /\ \A s \in Sentences : s.mentions \in Seq(DOMAIN FieldTemplates)

\* The numbers of a finite set, from the least on.
InOrder(S) ==
    [k \in 1 .. Cardinality(S) |-> CHOOSE n \in S : Cardinality({m \in S : m < n}) = k - 1]

\* The known fields in the order of their first mention, each once.
_match_field_templates(sentence) ==
    LET first == InOrder({k \in DOMAIN sentence.mentions :
                    \A j \in 1 .. k - 1 : sentence.mentions[j] # sentence.mentions[k]})
    IN [k \in DOMAIN first |-> sentence.mentions[first[k]]]

\* One section, the fields of the templates and the validators bound to them.
_build_payload_from_templates(codes) ==
    LET Bound(code, kind) ==
            [code |-> <<code, kind>>, field |-> code, kind |-> kind,
             given |-> [w \in KeywordsOf[kind] |-> code]]
        checked == InOrder({k \in DOMAIN codes : FieldTemplates[codes[k]].kind # "none"})
    IN [sections |-> <<"basic">>,
        fields |-> [k \in 1 .. Len(codes) |->
            Field(codes[k], FieldTemplates[codes[k]].type, FieldTemplates[codes[k]].required)],
        validators |-> [k \in DOMAIN checked |->
            Bound(codes[checked[k]], FieldTemplates[codes[checked[k]]].kind)]]

\* Known fields, else as many plain ones as the sentence says, else one.
_deterministic_payload(sentence) ==
    LET codes == _match_field_templates(sentence)
        Plain(fields) == [sections |-> <<"basic">>, fields |-> fields, validators |-> <<>>]
    IN IF codes # <<>> THEN _build_payload_from_templates(codes)
       ELSE IF sentence.count \in 1 .. _DEFAULT_MAX_FIELDS
       THEN Plain([k \in 1 .. sentence.count |-> Field(<<"field", k>>, "text", FALSE)])
       ELSE Plain(<<Field("applicant_name", "text", TRUE)>>)

-----------------------------------------------------------------------------
(* The JSON Schema of a payload                                            *)

\* _FIELD_TYPE_TO_JSON_TYPE and _FIELD_TYPE_TO_JSON_FORMAT.
JsonType(type) == CASE type = "number" -> "number"
                    [] type = "multiselect" -> "array"
                    [] type = "checkbox" -> "boolean"
                    [] OTHER -> "string"
JsonFormat(type) == CASE type = "date" -> "date"
                      [] type = "datetime" -> "date-time"
                      [] OTHER -> "none"

\* What the validator gives replaces what an earlier one gave.
_apply_validator_to_prop(prop, validator) ==
    [prop EXCEPT !.keywords = [w \in DOMAIN @ \union DOMAIN validator.given |->
        IF w \in DOMAIN validator.given THEN validator.given[w] ELSE @[w]]]

\* The property of a field after the first k validators of the form.
PropertyAfter(payload, field) ==
    LET prop[k \in 0 .. Len(payload.validators)] ==
            IF k = 0
            THEN [type |-> JsonType(field.type), format |-> JsonFormat(field.type),
                  keywords |-> <<>>]
            ELSE IF payload.validators[k].field = field.code
            THEN _apply_validator_to_prop(prop[k - 1], payload.validators[k])
            ELSE prop[k - 1]
    IN prop

to_json_schema(payload) ==
    LET OfCode(code) == CHOOSE field \in ToSet(payload.fields) : field.code = code
    IN [properties |-> [code \in CodesOf(payload.fields) |->
            PropertyAfter(payload, OfCode(code))[Len(payload.validators)]],
        required |-> {f.code : f \in {g \in ToSet(payload.fields) : g.required}}]

-----------------------------------------------------------------------------
(* FormSchemaRepo and the skills on it                                     *)

FormInit == forms = <<>>

\* Versions of a code in a tenant, 0 where there is none.
FormVersions(tenant, code) ==
    {forms[i].version : i \in {j \in 1 .. Len(forms) :
        forms[j].tenant = tenant /\ forms[j].code = code}} \union {0}

\* Mutant: the rows are counted, whatever their versions are.
VersionByCount(tenant, code) ==
    1 + Cardinality({i \in 1 .. Len(forms) : forms[i].tenant = tenant /\ forms[i].code = code})

NextVersion(tenant, code) ==
    1 + (CHOOSE v \in FormVersions(tenant, code) : \A w \in FormVersions(tenant, code) : w <= v)

\* A payload that is not valid raises, and nothing is written.
create_form_draft(tenant, code, payload, source) ==
    /\ _validate_payload(payload)
    /\ Len(forms) < MaxForms
    /\ forms' = Append(forms, [tenant |-> tenant, code |-> code, status |-> "draft",
                               version |-> NextVersion(tenant, code), source |-> source,
                               payload |-> payload])

\* form_schema.nl_draft
nl_draft_form(tenant, code, sentence) ==
    create_form_draft(tenant, code, _deterministic_payload(sentence), "nl_draft")

\* form_schema.promote_to_preview, for a row of the caller's tenant.
promote_form(tenant, i) ==
    /\ forms[i].tenant = tenant
    /\ forms[i].status = "draft"
    /\ _validate_payload(forms[i].payload)
    /\ forms' = [forms EXCEPT ![i].status = "preview"]

\* form_schema.revert_to_draft
revert_form(tenant, i) ==
    /\ forms[i].tenant = tenant
    /\ forms[i].status = "preview"
    /\ forms' = [forms EXCEPT ![i].status = "draft"]

\* form_schema.commit: the next version of the code, above all its rows.
commit_form(tenant, i) ==
    /\ forms[i].tenant = tenant
    /\ forms[i].status = "preview"
    /\ _validate_payload(forms[i].payload)
    /\ forms' = [forms EXCEPT ![i].status = "live",
                              ![i].version = NextVersion(forms[i].tenant, forms[i].code)]

FormNext ==
    \E tenant \in FormTenants :
        \/ \E code \in FormCodes :
              \/ \E payload \in Payloads : create_form_draft(tenant, code, payload, "manual")
              \/ \E sentence \in Sentences : nl_draft_form(tenant, code, sentence)
        \/ \E i \in 1 .. Len(forms) :
              promote_form(tenant, i) \/ revert_form(tenant, i) \/ commit_form(tenant, i)

FormSpec == FormInit /\ [][FormNext]_forms

-----------------------------------------------------------------------------
(* Properties                                                              *)

\* Two rows of a code in a tenant never share a version, in whatever order they
\* are drafted, reverted and committed: uq_form_schema_tenant_code_version is
\* never met.
FormVersionsUnique ==
    \A i, j \in 1 .. Len(forms) :
        i # j /\ forms[i].tenant = forms[j].tenant /\ forms[i].code = forms[j].code
        => forms[i].version # forms[j].version

Gives(validator, code, w) == validator.field = code /\ w \in DOMAIN validator.given

\* The page of a payload asks for each of its fields and no other, and checks
\* what its validators say: each keyword as the last validator of the field
\* that gives it.
PageKeeps(payload) ==
    LET page == to_json_schema(payload)
    IN /\ page.required \subseteq DOMAIN page.properties
       /\ DOMAIN page.properties = CodesOf(payload.fields)
       /\ \A k \in 1 .. Len(payload.validators) :
            LET f == payload.validators[k].field
            IN \A w \in DOMAIN payload.validators[k].given :
                  (\A j \in k + 1 .. Len(payload.validators) : ~Gives(payload.validators[j], f, w))
                  => page.properties[f].keywords[w] = payload.validators[k].given[w]

\* The page made of a template keeps it, whatever was drafted, reverted or
\* committed.
PageKeepsForm == \A i \in 1 .. Len(forms) : PageKeeps(forms[i].payload)

\* Any sentence makes a form that create_draft accepts, whatever it repeats and
\* whatever number it says; the page of it checks all that the known fields
\* check.
SentencesMakeForms ==
    \A sentence \in Sentences :
        LET payload == _deterministic_payload(sentence)
            page == to_json_schema(payload)
        IN /\ _validate_payload(payload)
           /\ \A code \in ToSet(sentence.mentions) :
                 LET kind == FieldTemplates[code].kind
                 IN kind # "none" => KeywordsOf[kind] = DOMAIN page.properties[code].keywords

\* A form template is what its users rely on: its version is its own, its page
\* checks what the form says, and an administrator's sentence makes a valid one
\* (commit_to_live, to_json_schema, deterministic_payload).
FormsAgree == FormVersionsUnique /\ PageKeepsForm /\ SentencesMakeForms
=============================================================================
