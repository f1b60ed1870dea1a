--------------------------- MODULE MCRadioArbiter ---------------------------
(* Instance of RadioArbiter for TLC, and the mutants of its definitions.      *)
EXTENDS RadioArbiter, TLC

Symmetry == Permutations(Subject)
=============================================================================
