------------------------------ MODULE MCAgents ------------------------------
(* Instances of Agents.                                                      *)
EXTENDS Agents, TLC

CONSTANTS r1, r2, r3, t1, t2, g1, g2
=============================================================================
