-------------------------- MODULE MCLandingPipeline --------------------------
(* TLC instances of LandingPipeline: small sets of executions and rows. *)
EXTENDS LandingPipeline, TLC

CONSTANTS e1, e2, r1, r2

OneExecution == {e1}
TwoExecutions == {e1, e2}
TwoRows == {r1, r2}

Symmetry == Permutations(TwoExecutions) \cup Permutations(TwoRows)
=============================================================================
