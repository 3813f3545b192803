------------------------- MODULE MCLegacyMigration -------------------------
(* Instances of LegacyMigration for TLC: commands and APIs of one kind are *)
(* alike.                                                                  *)
EXTENDS LegacyMigration, TLC

CONSTANTS m1, m2, m3, a1, a2

Processes == Permutations({m1, m2, m3}) \union Permutations({a1, a2})

\* Bound: of three commands one is dead or not under way.
TwoAtATime == Cardinality({m \in Migrators : Alive(m)}) <= 2

\* Bound: of a crash, a failing operation and an edit two happen.
TwoAccidents == edits + crashes + faults <= 2

\* What follows on a usurped lock is not explored: nothing is claimed of it but
\* the types, which are proved.
UntilUsurped == ~usurped
=============================================================================
