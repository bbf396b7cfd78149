---------------------------- MODULE MCCircuitUse ----------------------------
(* Instances of CircuitUse for TLC. *)
EXTENDS CircuitUse, TLC

\* Circuits, streams and ASes are only compared with each other.
UseSymmetry == Permutations(Circ) \cup Permutations(Stream) \cup Permutations(AS)
=============================================================================
