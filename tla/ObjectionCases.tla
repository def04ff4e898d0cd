--------------------------- MODULE ObjectionCases ---------------------------
(***************************************************************************)
(* Objections against catalogs, resources, authorizations and deliveries:  *)
(* ObjectionRepository (zw_brain/domain/repositories/objection.py), the    *)
(* state tables (zw_brain/domain/objection_state.py) and the skills        *)
(* objection.case.* (zw_brain/command/handlers/j1/objection.py).           *)
(*                                                                         *)
(* Which table holds for a case depends on its dimension, which is worked  *)
(* out from its evidence each time, so that evidence added on the way can  *)
(* change the table under the case.  Accept and assign choose their target *)
(* from the case as it is before the write bracket; the transition itself  *)
(* is checked again inside.  All other skills read and write inside.       *)
(*                                                                         *)
(* A caller may name the status of a case it creates, and the target of an *)
(* assignment: the first is stored as it is, the second is looked up in    *)
(* the table like any other.  The manifest of objection.case.assign lists  *)
(* the two investigations only, but nothing compares a call with the list  *)
(* (_validate_required_input looks for missing fields alone).              *)
(*                                                                         *)
(* Of the five business dimensions, which share one table, two are         *)
(* distinguished: "catalog", whose evidence takes precedence, and "use".   *)
(***************************************************************************)
EXTENDS Integers

CONSTANTS
    Cases,           \* objection ids
    Threads,         \* requests in flight at once
    CreateStates,    \* the statuses the calls that create cases name
    AssignTargets,   \* the targets the assignments name
    Idle             \* no job

Dimensions == {"catalog", "use", "generic"}

EvidenceTypes == {"catalog", "usage"}

\* The evidence a call may bring: none that tells a dimension, or a piece of some
\* type that does.
Attachments == {{}} \union {{e} : e \in EvidenceTypes}

Statuses == {"none", "draft", "submitted", "accepted", "platform_investigating",
             "provider_investigating", "escalated", "resolved", "rejected", "closed"}

Investigations == {"platform_investigating", "provider_investigating"}

\* Of the types of process rows, those something asks for later.
Milestones == {"review", "escalate"}

Jobs == [case : Cases, action : {"accept", "assign"}, target : Statuses,
         evidence : Attachments]

ASSUME IdleAssumption == Idle \notin Jobs

ASSUME NamedAssumption ==
    CreateStates \union AssignTargets \subseteq Statuses \ {"none"}

VARIABLES
    status,          \* objection_case.status
    base,            \* the dimension by objection_kind and target_type
    evidence,        \* the types of the objection_evidence rows
    events,          \* the milestones among the objection_process rows
    evaluated,       \* the cases with an objection_evaluation row
    job,             \* accept and assign calls between choice and write
    createdAs,       \* history: the status a case was created with
    assignedEnd      \* history: the cases that an assignment resolved

vars == <<status, base, evidence, events, evaluated, job, createdAs, assignedEnd>>

Init ==
    /\ status = [c \in Cases |-> "none"]
    /\ base = [c \in Cases |-> "generic"]
    /\ evidence = [c \in Cases |-> {}]
    /\ events = [c \in Cases |-> {}]
    /\ evaluated = {}
    /\ createdAs = [c \in Cases |-> "none"]
    /\ assignedEnd = {}
    /\ job = [t \in Threads |-> Idle]

-----------------------------------------------------------------------------
(* Tables and dimensions                                                   *)

\* _SHARED_ALLOWED_TRANSITIONS, of all five business dimensions.
SharedTransitions ==
    [draft |-> {"submitted"},
     submitted |-> {"platform_investigating", "rejected"},
     platform_investigating |-> {"provider_investigating", "resolved", "rejected"},
     provider_investigating |-> {"platform_investigating", "resolved", "rejected"},
     resolved |-> {"closed", "provider_investigating"},
     rejected |-> {},
     closed |-> {}]

\* ObjectionRepository.TRANSITIONS, of cases without a business dimension.
GenericTransitions ==
    [draft |-> {"submitted", "rejected"},
     submitted |-> {"accepted", "rejected"},
     accepted |-> {"platform_investigating", "provider_investigating"},
     platform_investigating |->
        {"provider_investigating", "resolved", "rejected", "escalated"},
     provider_investigating |->
        {"platform_investigating", "resolved", "rejected", "escalated"},
     escalated |-> {"platform_investigating", "provider_investigating", "resolved", "rejected"},
     resolved |-> {"closed", "provider_investigating"},
     rejected |-> {},
     closed |-> {}]

\* dimension_of: catalog evidence, then other evidence, then kind and target.
DimensionOf(c) ==
    CASE "catalog" \in evidence[c] -> "catalog"
      [] evidence[c] \intersect {"catalog", "usage"} = {"usage"} -> "use"
      [] OTHER -> base[c]

\* Where the case may go from here; a status the table does not know, nowhere.
Allowed(c) ==
    LET table == IF DimensionOf(c) = "generic" THEN GenericTransitions ELSE SharedTransitions
    IN  IF status[c] \in DOMAIN table THEN table[status[c]] ELSE {}

-----------------------------------------------------------------------------
(* ObjectionRepository                                                     *)

\* The process row and the evidence rows of a call.
AddRows(c, action, ev) ==
    /\ events' = [events EXCEPT ![c] = @ \union ({action} \intersect Milestones)]
    /\ evidence' = [evidence EXCEPT ![c] = @ \union ev]

\* Mutant: the transition is not checked again.
TransitionUnchecked(c, next, action, ev) ==
    /\ status[c] # "none"
    /\ status' = [status EXCEPT ![c] = next]
    /\ AddRows(c, action, ev)
    /\ UNCHANGED <<base, evaluated>>

\* Looks up the case and its evidence, checks the transition, writes.
TransitionCase(c, next, action, ev) ==
    /\ status[c] # "none"
    /\ next \in Allowed(c)
    /\ status' = [status EXCEPT ![c] = next]
    /\ AddRows(c, action, ev)
    /\ UNCHANGED <<base, evaluated>>

\* A process row; the status is not looked at.
AddProcess(c, action, ev) ==
    /\ status[c] # "none"
    /\ AddRows(c, action, ev)
    /\ UNCHANGED <<status, base, evaluated>>

\* Mutant: a case under investigation may be evaluated.
EvaluateAnyCase(c) ==
    /\ status[c] \in {"resolved", "provider_investigating"}
    /\ evaluated' = evaluated \union {c}
    /\ AddRows(c, "evaluate", {})
    /\ UNCHANGED <<status, base>>

\* One evaluation per case, overwritten by a later one.
EvaluateCase(c) ==
    /\ status[c] = "resolved"
    /\ evaluated' = evaluated \union {c}
    /\ AddRows(c, "evaluate", {})
    /\ UNCHANGED <<status, base>>

\* list_supervised_cases: escalated at some time and not at an end.
SupervisedCases ==
    {c \in Cases : "escalate" \in events[c] /\ status[c] \notin {"closed", "rejected"}}

-----------------------------------------------------------------------------
(* The skills                                                              *)

\* What accept, assign and create leave to the others.
noChoice == <<job, createdAs, assignedEnd>>

\* The object exists; kind and target give the base dimension.  The status is the
\* caller's, or "draft".
create_objection_case(c, dimension, s, ev) ==
    /\ status[c] = "none"
    /\ status' = [status EXCEPT ![c] = s]
    /\ createdAs' = [createdAs EXCEPT ![c] = s]
    /\ base' = [base EXCEPT ![c] = dimension]
    /\ AddRows(c, "create", ev)
    /\ UNCHANGED <<evaluated, job, assignedEnd>>

submit(c, ev) == TransitionCase(c, "submitted", "submit", ev) /\ UNCHANGED noChoice

\* The target of accept by the dimension before the bracket.
AcceptTarget(c) ==
    IF DimensionOf(c) = "generic" THEN "accepted" ELSE "platform_investigating"

\* _legal_assign_target: the department if the table has it, else the
\* platform, else a target that will be refused.
LegalAssignTarget(c) ==
    IF Allowed(c) \intersect Investigations = {"platform_investigating"}
    THEN "platform_investigating"
    ELSE "provider_investigating"

\* The request goes on to its bracket, its target chosen.
Choose(t, c, action, target, ev) ==
    /\ job[t] = Idle
    /\ job' = [job EXCEPT ![t] = [case |-> c, action |-> action, target |-> target,
                                  evidence |-> ev]]
    /\ UNCHANGED <<status, base, evidence, events, evaluated, createdAs, assignedEnd>>

accept(t, c, ev) ==
    /\ status[c] # "none"
    /\ Choose(t, c, "accept", AcceptTarget(c), ev)

\* The caller names the target or leaves it to the table.
assign(t, c, ev) ==
    \E target \in {LegalAssignTarget(c)} \union AssignTargets :
        Choose(t, c, "assign", target, ev)

\* The bracket of accept and assign: the transition, or nothing if it is
\* illegal by now.
Write(t) ==
    /\ job[t] # Idle
    /\ LET j == job[t] IN
        \/ TransitionCase(j.case, j.target, j.action, j.evidence)
        \/ /\ j.target \notin Allowed(j.case)
           /\ UNCHANGED <<status, base, evidence, events, evaluated>>
    /\ assignedEnd' = assignedEnd \union
           {c \in Cases : /\ status'[c] = "resolved" /\ status[c] # "resolved"
                          /\ job[t].action = "assign"}
    /\ job' = [job EXCEPT ![t] = Idle]
    /\ UNCHANGED createdAs

review(c, decision, ev) ==
    /\ TransitionCase(c, IF decision = "resolve" THEN "resolved" ELSE "provider_investigating",
                      "review", ev)
    /\ UNCHANGED noChoice

reject(c, ev) == TransitionCase(c, "rejected", "reject", ev) /\ UNCHANGED noChoice

close(c, ev) == TransitionCase(c, "closed", "close", ev) /\ UNCHANGED noChoice

reply(c, ev) == AddProcess(c, "reply", ev) /\ UNCHANGED noChoice

\* An event, not a status.
escalate(c, ev) == AddProcess(c, "escalate", ev) /\ UNCHANGED noChoice

evaluate(c) == EvaluateCase(c) /\ UNCHANGED noChoice

Next ==
    \/ \E c \in Cases, ev \in Attachments :
        \/ \E dimension \in Dimensions, s \in CreateStates \union {"draft"} :
                create_objection_case(c, dimension, s, ev)
        \/ submit(c, ev)
        \/ \E t \in Threads : accept(t, c, ev) \/ assign(t, c, ev)
        \/ \E decision \in {"resolve", "return"} : review(c, decision, ev)
        \/ reject(c, ev)
        \/ close(c, ev)
        \/ reply(c, ev)
        \/ escalate(c, ev)
    \/ \E c \in Cases : evaluate(c)
    \/ \E t \in Threads : Write(t)

Spec == Init /\ [][Next]_vars

-----------------------------------------------------------------------------
\* The values the variables take.
TypeOK ==
    /\ status \in [Cases -> Statuses]
    /\ base \in [Cases -> Dimensions]
    /\ evidence \in [Cases -> SUBSET EvidenceTypes]
    /\ events \in [Cases -> SUBSET Milestones]
    /\ evaluated \subseteq Cases
    /\ job \in [Threads -> Jobs \union {Idle}]
    /\ createdAs \in [Cases -> Statuses]
    /\ assignedEnd \subseteq Cases
    /\ \A c \in Cases : status[c] = "none" => createdAs[c] = "none"

Ends == {"resolved", "closed"}

\* A case is resolved or closed only by way of a review, and evaluated only after
\* one, whichever of the two tables it goes through and however late an accept or
\* an assignment is written - unless its caller named the end: created the case
\* there, or assigned it to "resolved" (TRANSITIONS, evaluate_case).  No accept, no
\* assignment that leaves the target to the table and no reply ever does.
ClosedAfterReview ==
    \A c \in Cases :
        (status[c] \in Ends \/ c \in evaluated)
        => "review" \in events[c] \/ createdAs[c] \in Ends \/ c \in assignedEnd

\* A rejected or closed case stays so, also when an accept or an assignment
\* chose its target before.
FinalStaysFinal ==
    [][\A c \in Cases : status[c] \in {"rejected", "closed"} => status'[c] = status[c]]_vars

\* A supervised case stays in the queue until it is closed or rejected, also
\* when it is resolved and reopened.
SupervisedUntilFinal ==
    [][\A c \in SupervisedCases :
          c \in SupervisedCases' \/ status'[c] \in {"closed", "rejected"}]_vars

\* A case leaves every table of transitions for good once it is closed or rejected,
\* and a supervised case is watched until then (TRANSITIONS, the supervision list).
CasesEndOnce == FinalStaysFinal /\ SupervisedUntilFinal
=============================================================================
