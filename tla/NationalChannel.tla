--------------------------- MODULE NationalChannel ---------------------------
(***************************************************************************)
(* The channel to the national platform.  An application is passed on by   *)
(* application.escalate_national through the channel's gate and its HTTP   *)
(* client; the extension elements are compiled, reviewed on two levels,    *)
(* synchronised, revised and revoked (catalog.national_ext_elem.compile);  *)
(* the adapter skills keep a run record and a mapping per operation.       *)
(*                                                                         *)
(* Every skill here runs as one write under the write lock, the HTTP call  *)
(* included.  The access data are read from the environment of the         *)
(* process, so that they change at a restart only.                         *)
(***************************************************************************)
EXTENDS Naturals, FiniteSets

CONSTANTS Elements,       \* task codes of the compilation tasks
          Escalated,      \* application codes
          Operations,     \* [id, named]: calls of the adapter skills
          NatEnvs,        \* the environments an operator deploys
          MaxEscalations,
          MaxNatRestarts

VARIABLES natEnv,      \* [enabled, access, sid, material]
          element,     \* [status, step] of each compilation task
          reviews,     \* history: the levels that approved since the last edit
          natCall,     \* the write that holds the lock
          accepted,    \* the applications the platform accepted
          told,        \* what the callers were answered about each application
          runs,        \* adapter_run_record: status by idempotency key
          mappings,    \* external_object_mapping: the keys mapped
          natCount     \* restarts and escalations so far

natVars == <<natEnv, element, reviews, natCall, accepted, told, runs, mappings, natCount>>

Unknown == "none"
NatIdle == [step |-> "idle", id |-> Unknown]
NatFree == natCall.step = "idle"

-----------------------------------------------------------------------------
(* The channel's state                                                     *)

\* sid: no interface has a service id, only others have, this one has.
load_national_provisioning == natEnv.access /\ natEnv.sid # "none"

resolve_national_channel_state ==
    IF ~natEnv.enabled THEN "off"
    ELSE IF ~load_national_provisioning THEN "unprovisioned" ELSE "provisioned"

GateOpen == resolve_national_channel_state = "provisioned"

\* The switch is not asked for here.
is_national_sync_ready == load_national_provisioning /\ natEnv.material

-----------------------------------------------------------------------------
(* Passing an application on                                               *)

Tell(a, what) == told' = [told EXCEPT ![a] = @ \union {what}]

\* Off or unprovisioned: an honest pending, nothing leaves.
EscalatePending(a) ==
    /\ NatFree /\ ~GateOpen /\ natCount.escalations < MaxEscalations
    /\ Tell(a, "pending")
    /\ natCount' = [natCount EXCEPT !.escalations = @ + 1]
    /\ UNCHANGED <<natEnv, element, reviews, natCall, accepted, runs, mappings>>

EscalateNational(a) ==
    /\ NatFree /\ GateOpen /\ natCount.escalations < MaxEscalations
    /\ natCall' = [step |-> "open", id |-> a]
    /\ natCount' = [natCount EXCEPT !.escalations = @ + 1]
    /\ UNCHANGED <<natEnv, element, reviews, accepted, told, runs, mappings>>

\* build_headers: without a service id of the interface nothing is sent.
MissingInterfaceSid ==
    /\ natCall.step = "open" /\ natEnv.sid # "mapped"
    /\ Tell(natCall.id, "error")
    /\ natCall' = NatIdle
    /\ UNCHANGED <<natEnv, element, reviews, accepted, runs, mappings, natCount>>

\* NationalDirectClient.post: the request is signed and sent; the platform
\* accepts it, refuses it or never sees it.
Post ==
    /\ natCall.step = "open" /\ natEnv.sid = "mapped"
    /\ \/ /\ accepted' = accepted \union {natCall.id}
          /\ natCall' = [natCall EXCEPT !.step = "accepted"]
       \/ /\ natCall' = [natCall EXCEPT !.step = "refused"]
          /\ UNCHANGED accepted
       \/ /\ natCall' = [natCall EXCEPT !.step = "lost"]
          /\ UNCHANGED accepted
    /\ UNCHANGED <<natEnv, element, reviews, told, runs, mappings, natCount>>

\* Mutant: an answer without a code counts as a success.
NoCodeIsSuccess(answer) == IF answer \in {"200", "no code"} THEN "submitted" ELSE "rejected"

\* A missing code and what cannot be parsed are failures.
parse_response(answer) == IF answer = "200" THEN "submitted" ELSE "rejected"

\* What can come back: the platform's code, an object without one, something
\* that is not JSON (a proxy's page), or an exception of the transport.
Answers(step) ==
    (IF step = "accepted" THEN {"200"} ELSE {}) \union (IF step = "refused" THEN {"300"} ELSE {})
    \union {"no code", "no json"}

Answered ==
    /\ natCall.step \in {"accepted", "refused", "lost"}
    /\ \/ \E answer \in Answers(natCall.step) : Tell(natCall.id, parse_response(answer))
       \/ Tell(natCall.id, "error")
    /\ natCall' = NatIdle
    /\ UNCHANGED <<natEnv, element, reviews, accepted, runs, mappings, natCount>>

-----------------------------------------------------------------------------
(* The compilation of the extension elements                               *)

Business == {"pending_business_review", "pending_business_review_revision"}
Supervisor == {"pending_supervisor_review", "pending_supervisor_review_revision"}

\* _ALLOWED_TRANSITIONS
CompileTransitions ==
    [draft |-> {"pending_business_review"},
     pending_business_review |-> {"pending_supervisor_review", "draft"},
     pending_supervisor_review |-> {"pending_national_sync", "pending_business_review"},
     pending_national_sync |-> {"published"},
     published |-> {"revision_draft", "pending_revoke_review"},
     revision_draft |-> {"pending_business_review_revision"},
     pending_business_review_revision |->
         {"pending_supervisor_review_revision", "revision_draft"},
     pending_supervisor_review_revision |->
         {"pending_national_sync", "pending_business_review_revision"},
     pending_revoke_review |-> {"revoked", "published"},
     revoked |-> {}]

\* The same status is a legal transition that changes nothing.
validate_transition(from, to) == from = to \/ to \in CompileTransitions[from]

submit_target == [draft |-> "pending_business_review",
                  revision_draft |-> "pending_business_review_revision"]

\* next_review_status
ApproveTarget == [pending_business_review |-> "pending_supervisor_review",
                  pending_supervisor_review |-> "pending_national_sync",
                  pending_business_review_revision |-> "pending_supervisor_review_revision",
                  pending_supervisor_review_revision |-> "pending_national_sync",
                  pending_revoke_review |-> "revoked"]
RejectTarget == [pending_business_review |-> "draft",
                 pending_supervisor_review |-> "pending_business_review",
                 pending_business_review_revision |-> "revision_draft",
                 pending_supervisor_review_revision |-> "pending_business_review_revision",
                 pending_revoke_review |-> "published"]

set_status(e, to, step) ==
    /\ NatFree /\ element[e].status # Unknown
    /\ validate_transition(element[e].status, to)
    /\ element' = [element EXCEPT ![e] = [status |-> to, step |-> step]]
    /\ UNCHANGED <<natEnv, natCall, accepted, told, runs, mappings, natCount>>

create_task(e) ==
    /\ NatFree /\ element[e].status = Unknown
    /\ element' = [element EXCEPT ![e] = [status |-> "draft", step |-> 0]]
    /\ UNCHANGED <<natEnv, reviews, natCall, accepted, told, runs, mappings, natCount>>

SubmitElement(e) ==
    /\ element[e].status \in DOMAIN submit_target
    /\ set_status(e, submit_target[element[e].status], 1)
    /\ reviews' = [reviews EXCEPT ![e] = {}]

\* review_decision: the supervisor's step is numbered 2, every other target
\* has no number, the business review a rejection goes back to included.
ReviewElement(e, approve) ==
    LET from == element[e].status
        level == IF from \in Business THEN {"business"}
                 ELSE IF from \in Supervisor THEN {"supervisor"} ELSE {}
        to == IF approve THEN ApproveTarget[from] ELSE RejectTarget[from]
    IN /\ from \in DOMAIN ApproveTarget
       /\ set_status(e, to, IF to \in Supervisor THEN 2 ELSE 0)
       /\ reviews' = [reviews EXCEPT ![e] =
                         IF approve THEN @ \union level
                         ELSE IF level = {} THEN @ ELSE {}]

SyncElement(e) ==
    /\ is_national_sync_ready
    /\ element[e].status = "pending_national_sync"
    /\ set_status(e, "published", 0)
    /\ UNCHANGED reviews

ReviseElement(e) ==
    /\ set_status(e, "revision_draft", 0)
    /\ reviews' = [reviews EXCEPT ![e] = {}]

RevokeElement(e) ==
    /\ set_status(e, "pending_revoke_review", 0)
    /\ UNCHANGED reviews

-----------------------------------------------------------------------------
(* The adapter skills                                                      *)

\* An operation that names no object falls back on a common key.
adapter_idempotency_key(op) == IF op.named THEN op.id ELSE "pending"

\* The record of the run is committed first, the mapping of a named object
\* after it.
record_adapter_operation(op) ==
    /\ NatFree
    /\ natCall' = [step |-> "run", id |-> op]
    /\ UNCHANGED <<natEnv, element, reviews, accepted, told, runs, mappings, natCount>>

upsert_run_record(status) ==
    /\ natCall.step = "run"
    /\ runs' = [runs EXCEPT ![adapter_idempotency_key(natCall.id)] = status]
    /\ natCall' = IF natCall.id.named THEN [natCall EXCEPT !.step = "map"] ELSE NatIdle
    /\ UNCHANGED <<natEnv, element, reviews, accepted, told, mappings, natCount>>

upsert_mapping ==
    /\ natCall.step = "map"
    /\ mappings' = mappings \union {adapter_idempotency_key(natCall.id)}
    /\ natCall' = NatIdle
    /\ UNCHANGED <<natEnv, element, reviews, accepted, told, runs, natCount>>

\* A database error between the two.
AdapterFails ==
    /\ natCall.step \in {"run", "map"}
    /\ natCall' = NatIdle
    /\ UNCHANGED <<natEnv, element, reviews, accepted, told, runs, mappings, natCount>>

-----------------------------------------------------------------------------

\* The process ends at any point and comes back with the environment that is
\* deployed by then.
NatRestart(env) ==
    /\ natCount.restarts < MaxNatRestarts
    /\ natEnv' = env /\ natCall' = NatIdle
    /\ natCount' = [natCount EXCEPT !.restarts = @ + 1]
    /\ UNCHANGED <<element, reviews, accepted, told, runs, mappings>>

NatInit ==
    /\ natEnv \in NatEnvs
    /\ element = [e \in Elements |-> [status |-> Unknown, step |-> 0]]
    /\ reviews = [e \in Elements |-> {}]
    /\ natCall = NatIdle
    /\ accepted = {} /\ told = [a \in Escalated |-> {}]
    /\ runs = [k \in {adapter_idempotency_key(op) : op \in Operations} |-> Unknown]
    /\ mappings = {}
    /\ natCount = [restarts |-> 0, escalations |-> 0]

NatNext ==
    \/ \E a \in Escalated : EscalatePending(a) \/ EscalateNational(a)
    \/ MissingInterfaceSid \/ Post \/ Answered
    \/ \E e \in Elements : \/ create_task(e) \/ SubmitElement(e)
                           \/ \E approve \in BOOLEAN : ReviewElement(e, approve)
                           \/ SyncElement(e) \/ ReviseElement(e) \/ RevokeElement(e)
    \/ \E op \in Operations : record_adapter_operation(op)
    \/ \E status \in {"succeeded", "failed"} : upsert_run_record(status)
    \/ upsert_mapping \/ AdapterFails
    \/ \E env \in NatEnvs : NatRestart(env)

NatSpec == NatInit /\ [][NatNext]_natVars

-----------------------------------------------------------------------------

\* Nothing is faked: a caller is told that an application was passed on only
\* if the platform accepted it, whatever came back, and nothing is under way
\* while the channel is off or lacks its access data (the gate's evaluate,
\* parse_response).
NothingFaked ==
    /\ \A a \in Escalated : "submitted" \in told[a] => a \in accepted
    /\ natCall.step \in {"open", "accepted", "refused", "lost"}
           => resolve_national_channel_state = "provisioned"

\* What waits for the platform or is published was approved on both levels
\* since its last edit, through rejections, revisions and revocations that
\* were turned down; the step number names the level that reviews
\* (national_ext_elem_walker, review_decision).
PublishedWasReviewed ==
    \A e \in Elements :
        /\ element[e].status \in {"pending_national_sync", "published", "pending_revoke_review",
                                  "revoked"}
               => reviews[e] = {"business", "supervisor"}
        /\ element[e].step = 2 <=> element[e].status \in Supervisor
        /\ element[e].step = 1 => element[e].status \in Business

\* A mapped object has the record of the run that mapped it
\* (_record_adapter_operation commits the two one after the other).
MappedHasRun == \A k \in mappings : runs[k] # Unknown

\* The three together: nothing is told that the platform did not say, no element is
\* published unreviewed, and a mapping has its run record (parse_response,
\* review_decision, _record_adapter_operation).
NationalHonest == NothingFaked /\ PublishedWasReviewed /\ MappedHasRun
=============================================================================
