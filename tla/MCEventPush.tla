---------------------------- MODULE MCEventPush ----------------------------
(* Instances of EventPush for TLC. *)
EXTENDS EventPush

CONSTANTS e1, e2  \* emitters
=============================================================================
