------------------------------ MODULE ForkJoin ------------------------------
(***************************************************************************)
(* What a parallel node promises to the workflow: every branch gets one    *)
(* outcome, an outcome once given stays, and the node returns only when    *)
(* every branch has one.  A node may also be abandoned.                    *)
(***************************************************************************)
CONSTANTS Branches, Outcomes, NoOutcome

VARIABLES outcome, state      \* state: "open", "returned" or "abandoned"

forkVars == <<outcome, state>>

Init ==
    /\ outcome \in [Branches -> Outcomes \union {NoOutcome}]
    /\ state = "open"

Decide ==
    /\ state = "open" /\ state' = state
    /\ outcome' \in [Branches -> Outcomes \union {NoOutcome}]
    /\ \A b \in Branches : outcome[b] # NoOutcome => outcome'[b] = outcome[b]

Return ==
    /\ state = "open" /\ state' = "returned"
    /\ \A b \in Branches : outcome[b] # NoOutcome
    /\ UNCHANGED outcome

Abandon ==
    /\ state = "open" /\ state' = "abandoned"
    /\ UNCHANGED outcome

Next == Decide \/ Return \/ Abandon

Spec == Init /\ [][Next]_forkVars
=============================================================================
