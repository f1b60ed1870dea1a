-------------------------- MODULE MCReceiveSession --------------------------
(* Instance of ReceiveSession for TLC: payload ids are interchangeable.       *)
EXTENDS ReceiveSession

PayloadSymmetry == Permutations(Payload)
=============================================================================
