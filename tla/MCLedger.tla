------------------------------ MODULE MCLedger ------------------------------
(* Instances of Ledger.  Run ids are numbers in the order they are given out. *)
EXTENDS Ledger

AllQuestions == {"release", "sha", "board"}
=============================================================================
