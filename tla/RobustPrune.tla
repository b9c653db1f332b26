----------------------------- MODULE RobustPrune -----------------------------
(***************************************************************************)
(* The alpha-RNG that every operation of src/fda prunes a neighbour list   *)
(* with: candidates are taken by distance from the anchor, and one that a  *)
(* vertex selected earlier covers is dropped.                              *)
(***************************************************************************)
EXTENDS Distances

CONSTANTS
  R,                  \* the most neighbours a vertex has
  AlphaNum, AlphaDen  \* alpha, as a fraction

ASSUME PruneAssumption == {R, AlphaNum, AlphaDen} \subseteq Nat \ {0}

Covers(anchor, s, c) == AlphaNum * Dist(s, c) <= AlphaDen * Dist(anchor, c)

Select(anchor, selected, c) ==
  IF Len(selected) < R /\ \A i \in DOMAIN selected : ~Covers(anchor, selected[i], c)
  THEN Append(selected, c) ELSE selected

Pruned(anchor, cands) ==
  LET near == ByDistance(anchor, cands)
      selected[n \in 0 .. Len(near)] ==
        IF n = 0 THEN <<>> ELSE Select(anchor, selected[n - 1], near[n])
  IN  selected[Len(near)]
=============================================================================
