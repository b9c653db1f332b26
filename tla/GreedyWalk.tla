----------------------------- MODULE GreedyWalk -----------------------------
(***************************************************************************)
(* The best-first walk every operation of src/fda and src/fda2 searches    *)
(* the graph with (baseline_src/greedySearch.cu), for one query: a list of *)
(* the nearest vertices met, the closest one not yet visited is expanded   *)
(* next, what was met is remembered in a bloom filter.  The vertices are   *)
(* slots; `target` names the query vector.                                 *)
(***************************************************************************)
EXTENDS Distances

CONSTANTS
  NoVertex,    \* d_hasParent is false
  MaxParents   \* MAX_PARENTS_PERQUERY, the room of a visited set

ASSUME WalkAssumption == MaxParents \in Nat \ {0}

Ids(list) == {list[i].id : i \in DOMAIN list}

(* The neighbours a block looks at: vertex `block` is taken for the query  *)
(* itself, and tombstoned ones are skipped (none is where dead = {}).      *)
Eligible(neighbours, block, dead) ==
  {neighbours[i] : i \in DOMAIN neighbours} \ ({block} \cup dead)

(* A vertex passes for met when all its bits are set.                      *)
Unmet(S, bits, bloom) == {v \in S : ~(bits[v] \subseteq bloom)}
BloomWith(S, bits, bloom) == bloom \cup UNION {bits[v] : v \in S}

(* The threads of a block check and set the filter without a barrier: of   *)
(* the vertices unmet so far any may miss out if others have set its bits. *)
Admissible_Unchecked(S, bits, bloom) == {S}   \* mutant
Admissible(S, bits, bloom) ==
  {A \in SUBSET Unmet(S, bits, bloom) : Unmet(S, bits, BloomWith(A, bits, bloom)) = {}}

(* Ascending by distance; equal distances in any order, as atomicAdd left  *)
(* them to the stable sort.                                                *)
Sorted(target, S) ==
  {s \in SetToSeqs(S) :
     \A i, j \in DOMAIN s : i < j => Dist(target, s[i]) <= Dist(target, s[j])}

MergedLength_Unbounded(list, near, width) == Len(list) + Len(near)   \* mutant
MergedLength_OneLess(list, near, width) ==   \* mutant
  IF Len(list) + Len(near) <= width THEN Len(list) + Len(near) ELSE width - 1
MergedLength(list, near, width) ==
  IF Len(list) + Len(near) <= width THEN Len(list) + Len(near) ELSE width

(* A neighbour goes before the entries farther than it, and after those as *)
(* far: lowerBound for the entries, upperBound for the neighbours.         *)
GoesBefore(dNear, dEntry) == dNear < dEntry

EntryPlace(target, list, near, i) ==
  i + Cardinality({j \in DOMAIN near :
                     GoesBefore(Dist(target, near[j]), Dist(target, list[i].id))})
NearPlace(target, list, near, j) ==
  j + Cardinality({i \in DOMAIN list :
                     ~GoesBefore(Dist(target, near[j]), Dist(target, list[i].id))})

(* What falls past `width` is lost.                                        *)
Merged(target, list, near, width) ==
  LET all == [p \in 1 .. Len(list) + Len(near) |->
                LET from == {i \in DOMAIN list : EntryPlace(target, list, near, i) = p}
                    new  == {j \in DOMAIN near : NearPlace(target, list, near, j) = p}
                IN  IF new # {} THEN [id |-> near[CHOOSE j \in new : TRUE], visited |-> FALSE]
                    ELSE list[CHOOSE i \in from : TRUE]]
  IN  SubSeq(all, 1, MergedLength(list, near, width))

Unvisited(list) == {i \in DOMAIN list : ~list[i].visited}

NextToVisit(list) == CHOOSE i \in Unvisited(list) : \A j \in Unvisited(list) : i <= j

NextParent(list) == IF Unvisited(list) = {} THEN NoVertex ELSE list[NextToVisit(list)].id

MarkNext(list) ==
  IF Unvisited(list) = {} THEN list ELSE [list EXCEPT ![NextToVisit(list)].visited = TRUE]

(* The visited set keeps the first MaxParents vertices expanded.           *)
Recorded(visitedSet, v) ==
  IF Len(visitedSet) < MaxParents THEN Append(visitedSet, v) ELSE visitedSet

StartList(medoid) == <<[id |-> medoid, visited |-> TRUE]>>

-----------------------------------------------------------------------------
(* The walk of one query by itself, where no two vertices share all their  *)
(* bits: what the lockstep of GreedySearch comes to.                       *)

Iterations(width) == 2 * width

Expand(adj, dead, block, target, width, st) ==
  LET fresh == Eligible(adj[st.parent], block, dead) \ st.met
      near  == CHOOSE s \in Sorted(target, fresh) : TRUE
      list  == Merged(target, st.list, near, width)
  IN  [list    |-> MarkNext(list),
       parent  |-> NextParent(list),
       met     |-> st.met \cup fresh,
       visited |-> Recorded(st.visited, st.parent)]

Advance(adj, dead, block, target, width, st) ==
  IF st.parent = NoVertex THEN st ELSE Expand(adj, dead, block, target, width, st)

Started(medoid) ==
  [list |-> StartList(medoid), parent |-> medoid, met |-> {}, visited |-> <<>>]

Walk(adj, dead, medoid, block, target, width) ==
  LET st[n \in 0 .. Iterations(width)] ==
        IF n = 0 THEN Started(medoid) ELSE Advance(adj, dead, block, target, width, st[n - 1])
  IN  st[Iterations(width)]

(* extractTopKFromWorklist, extractTopKKernel: the first k of the list.    *)
TopK(list, k) == {list[i].id : i \in {i \in DOMAIN list : i <= k}}
=============================================================================
