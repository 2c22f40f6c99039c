----------------------------- MODULE Settlement -----------------------------
(***************************************************************************)
(* What sendEvents and sendMetrics promise the agent, whatever happens in  *)
(* between: items of the batch get their answers, never two, and the call  *)
(* returns with a definitive outcome exactly when all of them have one.    *)
(***************************************************************************)
EXTENDS FiniteSets

VARIABLES
    batch,      \* the items of the call
    answered,   \* those accepted, rejected for good or dropped as too large
    result      \* "pending", then "settled" or "requeue"

vars == <<batch, answered, result>>

Init ==
    /\ IsFiniteSet(batch) /\ batch # {}
    /\ answered = {}
    /\ result = "pending"

Answer(S) ==
    /\ result = "pending"
    /\ S # {} /\ S \subseteq batch \ answered
    /\ answered' = answered \union S
    /\ UNCHANGED <<batch, result>>

Return ==
    /\ result = "pending"
    /\ result' = IF answered = batch THEN "settled" ELSE "requeue"
    /\ UNCHANGED <<batch, answered>>

Next == Return \/ \E S \in SUBSET batch : Answer(S)

Spec == Init /\ [][Next]_vars
=============================================================================
