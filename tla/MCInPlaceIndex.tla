--------------------------- MODULE MCInPlaceIndex ---------------------------
EXTENDS InPlaceIndex

(* Vectors in the plane, by slot: the new vertices among the old ones, and *)
(* a query from the side.                                                  *)
MCCapacity == 5
MCSlots == 0 .. MCCapacity - 1
MCThreads == (1 .. 2) \X (1 .. 3)
MCQueries == {9}
MCPlace == [x \in MCSlots \cup MCQueries |->
              CASE x = 0 -> <<0, 0>> [] x = 1 -> <<6, 1>> [] x = 2 -> <<2, 5>>
                [] x = 3 -> <<4, 2>> [] x = 4 -> <<5, 6>>
                [] x = 9 -> <<7, 3>>]
MCSquare(a) == a * a
MCDist == [x \in MCSlots \cup MCQueries, v \in MCSlots |->
             MCSquare(MCPlace[x][1] - MCPlace[v][1]) + MCSquare(MCPlace[x][2] - MCPlace[v][2])]
ASSUME NoTies == \A x \in MCSlots \cup MCQueries : \A u, v \in MCSlots :
                   u # v => MCDist[x, u] # MCDist[x, v]

MCBaseGraphs ==
  {[v \in MCSlots |-> CASE v = 0 -> <<1>> [] v = 1 -> <<0>> [] OTHER -> <<>>]}
MCBaseMedoids == {0}

MCIdsOf == [insert |-> {3}, delete |-> {0, 1, 3}, query |-> {9}]
=============================================================================
