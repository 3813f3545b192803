--------------------------- MODULE MCProjectAssets ---------------------------
(* Instances of ProjectAssets for TLC. *)
EXTENDS ProjectAssets, TLC

CONSTANTS v1, v2, p1, f1, k1, k2, t1, t2

\* One script wants the second vehicle asset, one finds nothing that matches
TwoScripts == {{v2}, {}}

\* The tasks start with different scripts
DifferentScripts == \A t, u \in Tasks : t # u => tasks[t].script # tasks[u].script

MCInit == Init /\ DifferentScripts

MCSpec == MCInit /\ [][Next]_vars

\* Only the order of the ranks counts.  A rank that too few uploads can still
\* come below is left out: no order is lost by it.
RanksPacked ==
    \A i \in DOMAIN uploads : uploads[i].rank <= Len(uploads) + MaxEvents - events

\* Bound: of the calls under way one at most does nothing but show a page.
OneLoads == Cardinality({k \in Calls : calls[k].kind = "load"}) <= 1

\* Bound: when the events are used up and nothing more is confirmed or uploaded,
\* pages would only be shown again.
SomethingGoesOn ==
    \/ events < MaxEvents
    \/ \E t \in Tasks : pages[t].request # 0
    \/ \E k \in Calls : calls[k].kind \in {"confirm", "upload"}

\* Likewise a page whose owner has not confirmed by then is not loaded again.
LoadsCount ==
    \A t \in Tasks :
        events = MaxEvents /\ pages[t].request = 0 /\ pages[t].loads = None
            => pages'[t].loads = None

Symmetry == Permutations(Calls) \cup Permutations(Tasks)
=============================================================================
