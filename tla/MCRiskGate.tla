---------------------------- MODULE MCRiskGate ----------------------------
(* Sessions are interchangeable. *)
EXTENDS RiskGate, TLC

Symmetry == Permutations(Sessions)
=============================================================================
