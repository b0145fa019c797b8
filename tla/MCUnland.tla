------------------------------ MODULE MCUnland ------------------------------
(* Instances of Unland.  Run ids are numbers in the order they are given out. *)
EXTENDS Unland, TLC

CONSTANTS h1, h2

\* Each region is a file of its own, or all are in one file.
OneOrTwoFiles == {[p \in Regions |-> p], [p \in Regions |-> "f"]}

Symmetric == Permutations(Unlanders) \union Permutations(Regions)
=============================================================================
