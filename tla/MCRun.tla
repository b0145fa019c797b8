------------------------------- MODULE MCRun -------------------------------
(* Instances of Run for TLC. *)
EXTENDS Run, TLC

CONSTANTS r1, r2, r3,  \* runs
          t1, t2, t3   \* tasks

FreshRuns == Permutations({r1, r2})  \* both do the same in RunResume
=============================================================================
