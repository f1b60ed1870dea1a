-------------------------- MODULE MCSessionRegistry --------------------------
(* Instance of SessionRegistry for TLC.                                       *)
EXTENDS SessionRegistry, TLC

Symmetry == Permutations(Offer) \cup Permutations(Session) \cup Permutations(Worker)
=============================================================================
