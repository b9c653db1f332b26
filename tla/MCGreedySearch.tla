--------------------------- MODULE MCGreedySearch ---------------------------
EXTENDS GreedySearch

(* A query by the start vertex, equally far from two others, and one to    *)
(* which every vertex on a path is nearer than the one before.             *)
MCVertices == 0 .. 4
MCTargets == {"near", "far"}
MCDist == [t \in MCTargets, v \in MCVertices |->
             IF t = "near" THEN <<1, 9, 4, 4, 25>>[v + 1] ELSE <<100, 36, 49, 16, 4>>[v + 1]]

(* Lists of at most two: every vertex keeps a way on and may have an edge  *)
(* back to the start.                                                      *)
MCGraphs ==
  {[v \in MCVertices |-> CASE v = 0 -> a [] v = 1 -> b [] v = 2 -> c [] v = 3 -> d [] v = 4 -> e] :
     a \in {<<1>>, <<1, 2>>, <<2, 3>>}, b \in {<<0, 3>>, <<2>>, <<4, 3>>},
     c \in {<<>>, <<4, 0>>, <<3, 1>>}, d \in {<<0>>, <<4>>, <<1, 2>>}, e \in {<<>>, <<3, 0>>}}

(* A filter that tells all vertices apart, and one in which vertex 3 shows *)
(* as met once 1 and 2 are.                                                *)
MCBits == {[v \in MCVertices |-> {v}], [v \in MCVertices |-> IF v = 3 THEN {1, 2} ELSE {v}]}

MCBatches == {<<"near">>, <<"far", "near">>}

MCInputs ==
  {[adj |-> g, dead |-> x, medoid |-> 0, bits |-> b, target |-> t, searchL |-> w] :
     g \in MCGraphs, x \in {{}, {2}, {0, 4}}, b \in MCBits, t \in MCBatches,
     w \in {2, 3}}
=============================================================================
