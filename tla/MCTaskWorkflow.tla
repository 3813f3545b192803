-------------------------- MODULE MCTaskWorkflow --------------------------
(* Instances of TaskWorkflow for TLC: two accounts. *)
EXTENDS TaskWorkflow, TLC

CONSTANTS u1, u2
\* The owner and another account are told apart by the guards only
Colleagues == Permutations({u1, u2})
=============================================================================
