--------------------------- MODULE ConditionalFlow ---------------------------
(***************************************************************************)
(* What conditional sharing promises about one application: acceptance     *)
(* (the first level) comes before the department review (the second        *)
(* level), a rejected application starts over from acceptance, and nothing *)
(* else leads to "granted".  This is the transition table of               *)
(* zw_brain/domain/services/conditional_approval.py as it is meant for     *)
(* conditional sharing: its entry submitted -> granted is for acceptance   *)
(* that ends the application, which conditional sharing does not have.     *)
(* A lane is the status, "outside" stands for every status the table does  *)
(* not know, and what left the lanes never comes back.                     *)
(***************************************************************************)
CONSTANT Apps

VARIABLES
    lane,            \* where each application stands
    entered          \* applications that ever were in a lane

Lanes == {"outside", "submitted", "dept_approved", "rejected", "granted"}

ConditionalMoves ==
    [submitted |-> {"dept_approved", "rejected"},
     dept_approved |-> {"granted", "rejected"},
     rejected |-> {"submitted"},
     granted |-> {}]

Init ==
    /\ lane = [a \in Apps |-> "outside"]
    /\ entered = {}

\* The application is submitted for the first time.
Enter(a) ==
    /\ lane[a] = "outside"
    /\ a \notin entered
    /\ lane' = [lane EXCEPT ![a] = "submitted"]
    /\ entered' = entered \union {a}

\* A decision, or the applicant starting over.
Move(a) ==
    /\ lane[a] # "outside"
    /\ \E to \in ConditionalMoves[lane[a]] : lane' = [lane EXCEPT ![a] = to]
    /\ UNCHANGED entered

\* Suspended, revoked or dispatched: capabilities of their own.
Withdraw(a) ==
    /\ lane[a] # "outside"
    /\ lane' = [lane EXCEPT ![a] = "outside"]
    /\ UNCHANGED entered

Next == \E a \in Apps : Enter(a) \/ Move(a) \/ Withdraw(a)

Spec == Init /\ [][Next]_<<lane, entered>>
=============================================================================
