------------------------------ MODULE MCAiQueue ------------------------------
(***************************************************************************)
(* Instances of AiQueue for TLC. Records differ by nothing but their names *)
(* and only invariants are checked, so TLC may take one for another.       *)
(***************************************************************************)
EXTENDS AiQueue, TLC

Symmetry == Permutations(Items)
=============================================================================
