----------------------------- MODULE MCLfsPair -----------------------------
(* The directories are interchangeable.                                     *)
EXTENDS LfsPair, TLC

Symmetry == Permutations(Value)
=============================================================================
