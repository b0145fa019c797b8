------------------------------ MODULE MCServe ------------------------------
(* Instances of Serve for TLC. *)
EXTENDS Serve

CONSTANTS d1, d2,      \* daemons
          r1, r2,      \* runs
          k1, k2,      \* calls
          c1, c2       \* cells
=============================================================================
