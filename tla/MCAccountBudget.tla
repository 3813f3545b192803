-------------------------- MODULE MCAccountBudget --------------------------
(***************************************************************************)
(* Instances of AccountBudget for TLC.                                     *)
(***************************************************************************)
EXTENDS AccountBudget, TLC

CONSTANTS p1, p2, m1, m2

MCExecutions == {p1, p2}
MCAdmins == {m1, m2}

\* Executions are interchangeable, and so are administrators.
Symmetry == Permutations(MCExecutions) \cup Permutations(MCAdmins)
=============================================================================
