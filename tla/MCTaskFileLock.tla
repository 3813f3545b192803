--------------------------- MODULE MCTaskFileLock ---------------------------
(***************************************************************************)
(* Small instances of TaskFileLock: one task that is updated, two that are *)
(* made under one name, by transactions of two stores.                     *)
(***************************************************************************)
EXTENDS TaskFileLock, TLC

CONSTANTS i1, i2, n1

Updates == {[kind |-> "update", id |-> i1]}
Both == Updates \cup [kind : {"create"}, id : {i1, i2}, name : {n1}]

Symmetric == Permutations(Transactions) \cup Permutations(Stores)

=============================================================================
