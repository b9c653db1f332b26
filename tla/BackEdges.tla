------------------------------ MODULE BackEdges ------------------------------
(***************************************************************************)
(* What linking a batch into the graph promises: every collected edge      *)
(* source -> target gets its back edge at the target, one at a time and in *)
(* no particular order.  A list with room keeps what it has and takes the  *)
(* source; a full one is pruned together with it, unless the block that    *)
(* prunes it comes apart: nothing is promised of that list from then on.   *)
(***************************************************************************)
EXTENDS RobustPrune

CONSTANTS Vertices, Starts

VARIABLES
  adj,    \* neighbour lists, of the vertices whose blocks kept together
  todo    \* pairs <<target, source>> not linked yet

Init == \E start \in Starts : adj = start.adj /\ todo = start.pairs

Linked(target, source) ==
  IF source = target \/ source \in ToSet(adj[target])
  THEN adj[target]
  ELSE IF Len(adj[target]) < R
       THEN Append(adj[target], source)
       ELSE Pruned(target, Append(adj[target], source))

Link(target, source) ==
  /\ <<target, source>> \in todo
  /\ adj' = [v \in DOMAIN adj |-> IF v = target THEN Linked(target, source) ELSE adj[v]]
  /\ todo' = todo \ {<<target, source>>}

ComeApart(target, source) ==
  /\ <<target, source>> \in todo /\ source # target
  /\ target \in DOMAIN adj => Len(adj[target]) = R /\ source \notin ToSet(adj[target])
  /\ adj' = [v \in DOMAIN adj \ {target} |-> adj[v]]
  /\ UNCHANGED todo

Next == \E p \in todo : Link(p[1], p[2]) \/ ComeApart(p[1], p[2])

Spec == Init /\ [][Next]_<<adj, todo>>
=============================================================================
