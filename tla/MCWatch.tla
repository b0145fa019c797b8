------------------------------ MODULE MCWatch ------------------------------
(* Instances of Watch: pushed branches are numbers, in name order.           *)
EXTENDS Watch

TwoIntents == <<"deps", "lint">>
OneIntent  == <<"deps">>
Verified   == [batch |-> 1, maxRed |-> 0, verify |-> TRUE]
Defaults   == [batch |-> 0, maxRed |-> 2, verify |-> FALSE]
=============================================================================
