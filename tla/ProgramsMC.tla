----------------------------- MODULE ProgramsMC -----------------------------
(* What a Chebyshev series of degree 2 and of degree 8 costs: OpenFHE's own *)
(* table says 5 for degrees 6 to 13; one more leaves room for the scaling   *)
(* of the argument.                                                         *)
EXTENDS Programs

MCCosts == {[d \in {2, 8} |-> IF d = 2 THEN low ELSE high] : low \in {2, 4}, high \in {5, 6}}

\* What the theorems on levels assume of the costs holds here.
ASSUME PlanAssumption == StepFits /\ Planned
=============================================================================
