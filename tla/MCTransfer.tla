----------------------------- MODULE MCTransfer -----------------------------
(* Instances of MetaTransfer for TLC. *)
EXTENDS MetaTransfer, TLC

Symmetry == Permutations(Subflows)
=============================================================================
