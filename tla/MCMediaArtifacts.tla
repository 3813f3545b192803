-------------------------- MODULE MCMediaArtifacts --------------------------
(* Instances of MediaArtifacts for TLC. *)
EXTENDS MediaArtifacts, TLC

CONSTANTS a1, a2, t1, m1, m2, preview, r1, c1, c2, n1, n2, n3

\* A candidate that names a version in a bucket that keeps none, or none in one
\* that does, is refused by its first head, like one with another content.
Fitting ==
    \A n \in Calls :
        calls[n].kind = "register" =>
            (calls[n].media.objectVersion = None) = ~versioning

Symmetric == Permutations({a1, a2}) \cup Permutations({c1, c2})
             \cup Permutations({m1, m2})
             \cup Permutations({n1, n2, n3})
=============================================================================
