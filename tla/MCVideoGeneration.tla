------------------------- MODULE MCVideoGeneration -------------------------
(***************************************************************************)
(* Instances of VideoGeneration for TLC.                                   *)
(***************************************************************************)
EXTENDS VideoGeneration, TLC

CONSTANTS p1, p2, r1, r2

MCProcs == {p1, p2}
MCRequests == {r1, r2}

\* Requests in flight and request ids are interchangeable.
Symmetry == Permutations(MCProcs) \cup Permutations(MCRequests)
=============================================================================
