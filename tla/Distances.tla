------------------------------ MODULE Distances ------------------------------
(***************************************************************************)
(* The squared L2 distances that walks and prunes compare, and the sort by *)
(* them.                                                                   *)
(***************************************************************************)
EXTENDS Naturals, SequencesExt

CONSTANT dist   \* of every vertex or query to every vertex

Dist(u, v) == dist[u, v]

(* Insertion sort: ascending, and stable.  A candidate's place comes after *)
(* those of all that precede it.                                           *)
Precedes(anchor, cands, i, j) ==
  \/ Dist(anchor, cands[i]) < Dist(anchor, cands[j])
  \/ Dist(anchor, cands[i]) = Dist(anchor, cands[j]) /\ i < j

Place(anchor, cands, i) ==
  1 + Cardinality({j \in DOMAIN cands : Precedes(anchor, cands, j, i)})

ByDistance(anchor, cands) ==
  [p \in DOMAIN cands |-> cands[CHOOSE i \in DOMAIN cands : Place(anchor, cands, i) = p]]
=============================================================================
