----------------------------- MODULE MCSessions -----------------------------
(***************************************************************************)
(* Sessions and ApplicationLifecycle for TLC; "focus" says which of the    *)
(* two a behaviour looks at, the other stays as it is.                     *)
(*                                                                         *)
(* Applications: an operator of one org and a manager of the org that      *)
(* provides all resources; either may apply.  The first application goes   *)
(* through every skill, the others compete with it for its resource and go *)
(* no further than their submission.                                       *)
(***************************************************************************)
EXTENDS ApplicationLifecycle, Sessions, TLC

CONSTANTS operator, manager, consumer, provider, first

VARIABLE focus

\* Threads and roles are interchangeable.
SessionSymmetry == Permutations(Threads) \union Permutations(Roles)

MCOrg == (operator :> consumer) @@ (manager :> provider)

MCOwner == [r \in Resources |-> provider]

ApplicationsNext ==
    \/ \E a \in Apps : Apply(a)
    \/ Decide(first)
    \/ Supply(first)
    \/ Deliver(first)
    \/ Authorise(first)

MCInit ==
    /\ focus \in {"sessions", "applications"}
    /\ Init /\ SessionsInit
    /\ focus = "applications" => backend = "memory" /\ ~rotates

MCNext ==
    /\ \/ focus = "sessions" /\ SessionsNext /\ UNCHANGED vars
       \/ focus = "applications" /\ ApplicationsNext /\ UNCHANGED sessionVars
    /\ UNCHANGED focus

MCSpec == MCInit /\ [][MCNext]_<<focus, vars, sessionVars>>
=============================================================================
