------------------------- MODULE MCWorkspaceAccess -------------------------
(* Instances of ProjectCreation, and with it of WorkspaceAccess, for TLC. *)
EXTENDS ProjectCreation, SequencesExt

CONSTANTS m1, m2, c1, k1, k2, n1, n2, x, y

\* Two vehicles whose identifiers come in both orders
Vehicles == {1, 2}

Given(account, v) ==
    [account |-> account, brand |-> 1, vehicle |-> v, active |-> TRUE, revision |-> 1]

\* One brand; the vehicles made so far, with a package and a grant for each
\* creator; a grant that was revoked and given again
SetUp(made) ==
    [brands |-> <<[name |-> n1, active |-> TRUE, revision |-> 1]>>,
     vehicles |-> [v \in Vehicles |->
         IF v \in made
         THEN <<[brand |-> 1, key |-> IF v = 2 /\ 1 \in made THEN y ELSE x, active |-> TRUE]>>
         ELSE <<>>],
     associations |-> [v \in Vehicles |->
         IF v \in made THEN [brand |-> 1, revision |-> 1] ELSE [brand |-> 0, revision |-> 0]],
     grants |->
         SetToSeq({Given(m, Brandwide) : m \in Admins})
         \o <<[Given(c1, CHOOSE v \in made : TRUE) EXCEPT !.active = FALSE, !.revision = 2]>>
         \o SetToSeq({Given(c, v) : c \in Creators, v \in made})]

Tenants == {SetUp(made) : made \in {{1}, {2}, {1, 2}}}
=============================================================================
