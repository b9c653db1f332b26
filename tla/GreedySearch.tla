---------------------------- MODULE GreedySearch ----------------------------
(***************************************************************************)
(* greedySearchNoSyncPrealloc: a batch of queries searched in lockstep.    *)
(* Each iteration launches a filter kernel and a merge kernel (distances   *)
(* and sort between them touch what the block filtered only), one block    *)
(* per query; the host looks at the shared flag d_nextIter every           *)
(* CheckInterval iterations, so queries that are through go on merging     *)
(* the neighbours they filtered last.                                      *)
(***************************************************************************)
EXTENDS GreedyWalk

CONSTANTS
  Vertices,
  Targets,        \* query vectors
  CheckInterval,  \* CHECK_INTERVAL
  Inputs          \* the graphs and batches to search: see InputType

(* A graph, its tombstones, the start vertex, the bits each vertex is      *)
(* hashed to, the query of each block, and the length of the work list.    *)
InputType ==
  [adj : [Vertices -> Seq(Vertices)], dead : SUBSET Vertices, medoid : Vertices,
   bits : [Vertices -> (SUBSET Nat) \ {{}}], target : Seq(Targets),
   searchL : Nat \ {0}]

ASSUME SearchAssumption ==
  /\ CheckInterval \in Nat \ {0}
  /\ IsFiniteSet(Vertices) /\ Vertices \subseteq Nat /\ NoVertex \notin Vertices
  /\ \A t \in Targets, v \in Vertices : Dist(t, v) \in Nat
  /\ Inputs \subseteq InputType

VARIABLES
  input,        \* the graph and the batch; nobody writes them
  launch,       \* the kernel on the stream, or "host"
  ran,          \* its blocks that have returned
  iter, inner,  \* host loop counters
  nextIter,     \* d_nextIter
  worklist, near, parent, bloom, visitedSet,
  admitted      \* what was ever filtered in (history)

frozen == <<input>>
hostVars == <<launch, ran, iter, inner>>
vars == <<frozen, hostVars, nextIter, worklist, near, parent, bloom, visitedSet, admitted>>

SearchL == input.searchL

(* Block q works for query q + 1 of the batch.                             *)
Blocks == 0 .. Len(input.target) - 1
target(q) == input.target[q + 1]

Init ==
  /\ input \in Inputs
  /\ launch = "host" /\ ran = {} /\ iter = 0 /\ inner = 0
  /\ nextIter = TRUE
  /\ worklist = [q \in Blocks |-> StartList(input.medoid)]
  /\ near = [q \in Blocks |-> <<>>]
  /\ parent = [q \in Blocks |-> input.medoid]
  /\ bloom = [q \in Blocks |-> {}]
  /\ visitedSet = [q \in Blocks |-> <<>>]
  /\ admitted = [q \in Blocks |-> {}]

(* h_nextIter is TRUE before the first round, d_nextIter decides later.    *)
Iterate ==
  /\ launch = "host" /\ iter < Iterations(SearchL)
  /\ inner < CheckInterval \/ nextIter
  /\ iter' = iter + 1
  /\ inner' = IF inner < CheckInterval THEN inner + 1 ELSE 1
  /\ nextIter' = FALSE
  /\ launch' = "filter" /\ ran' = {}
  /\ UNCHANGED <<frozen, worklist, near, parent, bloom, visitedSet, admitted>>

HostDone ==
  /\ launch = "host"
  /\ iter >= Iterations(SearchL) \/ (inner >= CheckInterval /\ ~nextIter)
  /\ launch' = "done"
  /\ UNCHANGED <<frozen, ran, iter, inner, nextIter, worklist, near, parent, bloom,
                 visitedSet, admitted>>

(* Block q of the running kernel returns; the stream starts the next       *)
(* kernel when all have.                                                   *)
Return(q, next) ==
  IF ran \cup {q} = Blocks THEN launch' = next /\ ran' = {}
  ELSE launch' = launch /\ ran' = ran \cup {q}

CandidatesOf(q) == Eligible(input.adj[parent[q]], q, input.dead)

(* filterNeighborsNoSync, then computeDists and sortByDistance.  A block   *)
(* without a parent leaves its neighbours, and their count, as they are.   *)
FilterNeighbors(q) ==
  /\ launch = "filter" /\ q \notin ran
  /\ Return(q, "merge")
  /\ \/ /\ parent[q] = NoVertex
        /\ UNCHANGED <<near, parent, bloom, visitedSet, admitted>>
     \/ /\ parent[q] # NoVertex
        /\ \E A \in Admissible(CandidatesOf(q), input.bits, bloom[q]) :
             /\ \E s \in Sorted(target(q), A) : near' = [near EXCEPT ![q] = s]
             /\ bloom' = [bloom EXCEPT ![q] = BloomWith(A, input.bits, @)]
             /\ admitted' = [admitted EXCEPT ![q] = @ \cup A]
        /\ visitedSet' = [visitedSet EXCEPT ![q] = Recorded(@, parent[q])]
        /\ parent' = [parent EXCEPT ![q] = NoVertex]
  /\ UNCHANGED <<frozen, iter, inner, nextIter, worklist>>

(* Every block may raise the flag, none lowers it.                         *)
NextIterAfter_LastWins(list) == Unvisited(list) # {}   \* mutant
NextIterAfter(list) == nextIter \/ Unvisited(list) # {}

MergeIntoWorklist(q) ==
  /\ launch = "merge" /\ q \notin ran
  /\ Return(q, "host")
  /\ LET list == Merged(target(q), worklist[q], near[q], SearchL)
     IN  /\ worklist' = [worklist EXCEPT ![q] = MarkNext(list)]
         /\ parent' = [parent EXCEPT ![q] = NextParent(list)]
         /\ nextIter' = NextIterAfter(list)
  /\ UNCHANGED <<frozen, iter, inner, near, bloom, visitedSet, admitted>>

Searched == launch = "done" /\ UNCHANGED vars

Work == \/ Iterate \/ HostDone
        \/ \E q \in Blocks : FilterNeighbors(q) \/ MergeIntoWorklist(q)
Next == Work \/ Searched

Spec == Init /\ [][Next]_vars

-----------------------------------------------------------------------------
(* Properties.                                                             *)

(* Lists hold vertices, the work list never more than SearchL of them, and *)
(* the host stops within twice that many iterations.                       *)
TypeOK ==
  /\ launch \in {"host", "filter", "merge", "done"}
  /\ ran \subseteq Blocks
  /\ iter \in 0 .. 2 * SearchL /\ inner \in 0 .. CheckInterval
  /\ nextIter \in BOOLEAN
  /\ \A q \in Blocks :
       /\ worklist[q] \in Seq([id : Vertices, visited : BOOLEAN])
       /\ Len(worklist[q]) <= SearchL
       /\ near[q] \in Seq(Vertices)
       /\ parent[q] \in Vertices \cup {NoVertex}
       /\ bloom[q] \subseteq Nat
       /\ visitedSet[q] \in Seq(Vertices) /\ Len(visitedSet[q]) <= MaxParents
       /\ admitted[q] \subseteq Vertices

MergedBy(q) == launch = "host" \/ launch = "done" \/ (launch = "merge" /\ q \in ran)

(* The filter lets a vertex in once, whatever the threads of a block race  *)
(* for: a work list is in order, it names no vertex twice and none is      *)
(* expanded twice, but for the start, which is not in the filter and comes *)
(* in again by a back edge.                                                *)
ListInOrder ==
  \A q \in Blocks :
    /\ \A i, j \in DOMAIN worklist[q] : i < j =>
         LET a == worklist[q][i].id
             b == worklist[q][j].id
         IN  /\ Dist(target(q), a) <= Dist(target(q), b)
             /\ a = b => /\ a = input.medoid
                         /\ \A h \in DOMAIN worklist[q] : worklist[q][h].id = a => h \in {i, j}
    /\ \A i, j \in DOMAIN visitedSet[q] :
         i < j /\ visitedSet[q][i] = visitedSet[q][j] => i = 1

(* A vertex that was filtered in is in the list unless SearchL others are  *)
(* no farther: merging loses nothing nearer than what it keeps.            *)
KeepsTheNearest ==
  \A q \in Blocks : MergedBy(q) =>
    \A v \in admitted[q] \ Ids(worklist[q]) :
      /\ Len(worklist[q]) = SearchL
      /\ \A i \in 1 .. SearchL : Dist(target(q), worklist[q][i].id) <= Dist(target(q), v)

(* A query that is through still takes part in the rounds of the others,   *)
(* with the neighbours of its last round: merging them again would change  *)
(* nothing.                                                                *)
StaleMergeIsHarmless ==
  launch \in {"host", "done"} =>
    \A q \in Blocks : parent[q] = NoVertex =>
      Merged(target(q), worklist[q], near[q], SearchL) = worklist[q]

(* The search ends only when no query has anything left to expand, unless  *)
(* the iterations run out: every live neighbour of a vertex in the list    *)
(* was met, or is taken for met by the filter.                             *)
ClosedWhenDone ==
  launch = "done" /\ iter < Iterations(SearchL) =>
    \A q \in Blocks : \A v \in Ids(worklist[q]) :
      /\ parent[q] = NoVertex
      /\ Unmet(Eligible(input.adj[v], q, input.dead), input.bits, bloom[q]) = {}

(* Where no two vertices share a bit, and none are equally far, each query *)
(* of the batch ends as if it had been searched by itself.                 *)
NoSharedBits ==
  \A u, v \in Vertices : u # v => input.bits[u] \cap input.bits[v] = {}
NoTies(t) == \A u, v \in Vertices : u # v => Dist(t, u) # Dist(t, v)
AsIfAlone ==
  launch = "done" /\ NoSharedBits =>
    \A q \in Blocks : NoTies(target(q)) =>
      LET alone == Walk(input.adj, input.dead, input.medoid, q, target(q), SearchL)
      IN  worklist[q] = alone.list /\ visitedSet[q] = alone.visited
=============================================================================
