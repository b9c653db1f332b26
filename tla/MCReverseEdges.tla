--------------------------- MODULE MCReverseEdges ---------------------------
EXTENDS ReverseEdges

(* Vertices on a line, the new ones between and beside the old ones.       *)
MCVertices == 0 .. 4
MCNew == {2, 3, 4}
MCBlocks == MCVertices \X MCNew
At == <<0, 6, 2, 3, 7>>
MCDist == [u, v \in MCVertices |-> (At[u + 1] - At[v + 1]) * (At[u + 1] - At[v + 1])]

(* Every new vertex has chosen some old ones, or a vertex of the batch that *)
(* is in the graph already; an old list may hold a vertex that is inserted  *)
(* again.                                                                   *)
MCForward ==
  { [v \in MCVertices |-> CASE v = 0 -> lists[1] [] v = 3 -> lists[2] [] OTHER -> <<0>>] :
      lists \in {<<<<1>>, <<0, 1>>>>, <<<<3, 1>>, <<0, 2>>>>} }
=============================================================================
