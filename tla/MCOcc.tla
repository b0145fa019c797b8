------------------------------- MODULE MCOcc -------------------------------
(* Instances of Occ for TLC. *)
EXTENDS Occ, TLC

CONSTANTS p1, p2, p3

AnyPath == Permutations(Paths)   \* nothing orders the paths

OneEdge == {<<1, 4>>}
=============================================================================
