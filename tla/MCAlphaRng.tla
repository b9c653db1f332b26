----------------------------- MODULE MCAlphaRng -----------------------------
EXTENDS AlphaRng

(* Points in space, one dimension for each of three warps.                 *)
MCVertices == 0 .. 4
At == <<<<0, 0, 0>>, <<2, 1, 0>>, <<2, 4, 1>>, <<-3, 3, 1>>, <<4, 1, 2>>>>
MCPart == [w \in 0 .. 2 |->
             [u, x \in MCVertices |->
                (At[u + 1][w + 1] - At[x + 1][w + 1]) * (At[u + 1][w + 1] - At[x + 1][w + 1])]]
MCDist == [u, x \in MCVertices |-> MCPart[0][u, x] + MCPart[1][u, x] + MCPart[2][u, x]]

(* Two vertices, each with any of the others as its neighbours.            *)
MCInputs ==
  UNION {{[v |-> a, cands |-> s] : s \in UNION {SetToSeqs(S) : S \in SUBSET (MCVertices \ {a}) \ {{}}}}
           : a \in {0, 1}}
=============================================================================
