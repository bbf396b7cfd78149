--------------------------- MODULE MCAttackMatrix ---------------------------
(* Instances of AttackMatrix for TLC. *)
EXTENDS AttackMatrix, TLC

\* ASes are compared for equality only.
ASNSymmetry == Permutations(ASN)
=============================================================================
