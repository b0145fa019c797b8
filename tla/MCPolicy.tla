------------------------------ MODULE MCPolicy ------------------------------
(* Instances of Policy.                                                      *)
EXTENDS Policy, TLC

CONSTANTS r1, r2, b1, b2, pf, a, b, m1, m2

Open(v, k) == [valid |-> TRUE, verify |-> v, strict |-> FALSE, ack |-> k, deny |-> {}, maxAgents |-> 0]

\* No policy; and one with a battery, an ack-path, a path barred to the fixer, a floor.
Policy2 == <<Open({}, {}), [Open({m1}, {a}) EXCEPT !.strict = TRUE, !.deny = {b}]>>

OneImport == {<<a, b>>}

\* A plain request and one with the impact command, both cached.
TwoFlags == (r1 :> [verify |-> {m2}, impact |-> TRUE, cache |-> TRUE, lanes |-> "unset"])
            @@ (r2 :> [verify |-> {m2}, impact |-> FALSE, cache |-> TRUE, lanes |-> "weak"])

Symmetric == Permutations({b1, b2})
=============================================================================
