---------------------------- MODULE ReverseEdges ----------------------------
(***************************************************************************)
(* The back edges of a batch of inserts (src/fda/src/fda_insert.cu):       *)
(* collectReverseEdgesKernel turns the neighbours of every new vertex into *)
(* pairs <<target, source>>, and appendReverseEdgesRoutedKernel runs one   *)
(* block per pair, all at once, each under the lock of its target.  The    *)
(* block prunes with the loop of AlphaRng: its warps may come apart there, *)
(* and then some of them write the list after thread 0 has gone on.        *)
(***************************************************************************)
EXTENDS NodeLocks, RobustPrune

CONSTANTS
  New,       \* the vertices of the batch
  Forward,   \* adjacency lists after robustPruneBatchKernel, a set of choices
  NoVertex,  \* a list entry that was never written
  NumWarps   \* warps of a block

ASSUME BlockAssumption == New \subseteq Vertices /\ Blocks = Vertices \X New
ASSUME ForwardAssumption ==
  \A adj \in Forward :
    /\ adj \in [Vertices -> Seq(Vertices)]
    /\ \A v \in Vertices : /\ Len(adj[v]) <= R
                          /\ ToSet(adj[v]) \subseteq Vertices \ {v}
                          /\ IsInjective(adj[v])
ASSUME DistAssumption ==
  \A u, v \in Vertices : Dist(u, v) \in Nat /\ Dist(v, v) = 0
ASSUME NoVertexAssumption == NoVertex \notin Vertices
ASSUME WarpAssumption == NumWarps \in Nat \ {0}

VARIABLES
  deg,       \* length of every list
  nbr,       \* entries of every list, the unused ones too
  pc,        \* where each block is in the kernel
  currDeg,   \* the length it read
  cands,     \* its candidates for the pruned list
  kept,      \* those it selected
  unwritten, \* the entries of the new list its warps have yet to write
  apart      \* its warps have left a barrier at different places (history)

pruneVars == <<kept, unwritten, apart>>
kernelVars == <<deg, nbr, pc, currDeg, cands, pruneVars>>
vars == <<lockVars, kernelVars>>

target(b) == b[1]
source(b) == b[2]

(* One block per pair; blocks past the count of pairs return at once.      *)
Collected(adj) == {b \in Blocks : target(b) \in ToSet(adj[source(b)])}

Init ==
  \E adj \in Forward :
    /\ lockOf = [b \in Blocks |-> target(b)] /\ LockInit
    /\ deg = [v \in Vertices |-> Len(adj[v])]
    /\ nbr = [v \in Vertices |->
                [i \in 1 .. R |-> IF i <= Len(adj[v]) THEN adj[v][i] ELSE NoVertex]]
    /\ pc = [b \in Blocks |-> IF b \in Collected(adj) THEN "begin" ELSE "end"]
    /\ currDeg = [b \in Blocks |-> 0]
    /\ cands = [b \in Blocks |-> <<>>]
    /\ kept = [b \in Blocks |-> <<>>]
    /\ unwritten = [b \in Blocks |-> {}]
    /\ apart = [b \in Blocks |-> FALSE]

List(v) == [i \in 1 .. deg[v] |-> nbr[v][i]]

Goto(b, from, to) ==
  /\ pc[b] = from
  /\ pc' = [pc EXCEPT ![b] = to]

(* A vertex has no edge to itself, so the first branch is never taken.     *)
Begin(b) ==
  /\ IF target(b) = source(b)
     THEN Goto(b, "begin", "end") /\ UNCHANGED lockVars
     ELSE Goto(b, "begin", "look") /\ Acquire(b, target(b))
  /\ UNCHANGED <<deg, nbr, currDeg, cands, pruneVars>>

Already_LastMissed(b) ==   \* mutant
  \E i \in 1 .. deg[target(b)] - 1 : nbr[target(b)][i] = source(b)
Already(b) == source(b) \in ToSet(List(target(b)))

HasRoom_AtTheLimit(d) == d <= R   \* mutant
HasRoom(d) == d < R

Look(b) ==
  /\ lockPc[b] = "held"
  /\ ~Already(b)
  /\ Goto(b, "look", IF HasRoom(deg[target(b)]) THEN "append" ELSE "gather")
  /\ currDeg' = [currDeg EXCEPT ![b] = deg[target(b)]]
  /\ UNCHANGED <<lockVars, deg, nbr, cands, pruneVars>>

AlreadyLinked(b) ==
  /\ lockPc[b] = "held"
  /\ Already(b)
  /\ Goto(b, "look", "end")
  /\ Release(b)
  /\ UNCHANGED <<deg, nbr, currDeg, cands, pruneVars>>

AppendSource(b) ==
  /\ Goto(b, "append", "count")
  /\ nbr' = [nbr EXCEPT ![target(b)][currDeg[b] + 1] = source(b)]
  /\ UNCHANGED <<lockVars, deg, currDeg, cands, pruneVars>>

CountSource(b) ==
  /\ Goto(b, "count", "end")
  /\ deg' = [deg EXCEPT ![target(b)] = currDeg[b] + 1]
  /\ Release(b)
  /\ UNCHANGED <<nbr, currDeg, cands, pruneVars>>

(* Overflow: the R neighbours and the source.                              *)
Gather(b) ==
  /\ Goto(b, "gather", "prune")
  /\ cands' = [cands EXCEPT ![b] = Append([i \in 1 .. R |-> nbr[target(b)][i]], source(b))]
  /\ UNCHANGED <<lockVars, deg, nbr, currDeg, pruneVars>>

(* What warps that stay together select (AlphaRng!SelectedIfTogether) ...  *)
Survivors_OfTheSource(b) == Pruned(source(b), cands[b])   \* mutant
Survivors(b) == Pruned(target(b), cands[b])

(* ... and all that is certain of the selection of warps that come apart   *)
(* (AlphaRng!ListInOrder).                                                 *)
InOrder(near, list) ==
  /\ list # <<>> /\ list[1] = near[1]
  /\ \A k, l \in DOMAIN list : k < l =>
       \E m, n \in DOMAIN near : m < n /\ list[k] = near[m] /\ list[l] = near[n]

Selections(b, drift) ==
  IF drift
  THEN {list \in SeqOf(ToSet(cands[b]), R) : InOrder(ByDistance(target(b), cands[b]), list)}
  ELSE {Survivors(b)}

(* The entries of the new list are dealt out among the warps.  A warp that *)
(* came apart may find nSel too low, and pass over some of its own.        *)
OfWarp0(k) == (k - 1) % NumWarps = 0
PassedOver(list, drift) == {k \in 1 .. Len(list) : drift /\ ~OfWarp0(k)}

Prune(b) ==
  /\ Goto(b, "prune", "shrink")
  /\ \E drift \in IF NumWarps > 1 THEN BOOLEAN ELSE {FALSE} :
       /\ apart' = [apart EXCEPT ![b] = drift]
       /\ \E list \in Selections(b, drift) :
            /\ kept' = [kept EXCEPT ![b] = list]
            /\ \E passed \in SUBSET PassedOver(list, drift) :
                 unwritten' = [unwritten EXCEPT ![b] = 1 .. Len(list) \ passed]
  /\ UNCHANGED <<lockVars, deg, nbr, currDeg, cands>>

(* Thread 0 writes the length.                                             *)
Shrink(b) ==
  /\ Goto(b, "shrink", "rewrite")
  /\ deg' = [deg EXCEPT ![target(b)] = Len(kept[b])]
  /\ UNCHANGED <<lockVars, nbr, currDeg, cands, pruneVars>>

(* A barrier on either side keeps the writes of the entries between thread *)
(* 0's write of the length and its release -- if the warps meet there.     *)
MayWrite(b) == pc[b] = "rewrite" \/ (apart[b] /\ pc[b] \in {"shrink", "end"})

WriteEntry(b, k) ==
  /\ MayWrite(b) /\ k \in unwritten[b]
  /\ nbr' = [nbr EXCEPT ![target(b)][k] = kept[b][k]]
  /\ unwritten' = [unwritten EXCEPT ![b] = @ \ {k}]
  /\ UNCHANGED <<lockVars, deg, pc, currDeg, cands, kept, apart>>

(* Warp 0 has written its own entries when thread 0 releases the lock, and *)
(* a warp that came apart may not have.                                    *)
LeftToLaggards_Any(b) == TRUE   \* mutant
LeftToLaggards(b) == apart[b] /\ \A k \in unwritten[b] : ~OfWarp0(k)

Finish(b) ==
  /\ unwritten[b] = {} \/ LeftToLaggards(b)
  /\ Goto(b, "rewrite", "end")
  /\ Release(b)
  /\ UNCHANGED <<deg, nbr, currDeg, cands, pruneVars>>

BlockNext(b) ==
  \/ LockNext(b) /\ UNCHANGED kernelVars
  \/ Begin(b) \/ Look(b) \/ AlreadyLinked(b)
  \/ AppendSource(b) \/ CountSource(b)
  \/ Gather(b) \/ Prune(b) \/ Shrink(b) \/ (\E k \in 1 .. R : WriteEntry(b, k)) \/ Finish(b)

(* The kernel is over: the host launches the next one.                     *)
Returned(b) == pc[b] = "end" /\ lockPc[b] = "idle" /\ unwritten[b] = {}
KernelOver == (\A b \in Blocks : Returned(b)) /\ UNCHANGED vars

Next == (\E b \in Blocks : BlockNext(b)) \/ KernelOver

(* The device keeps every resident block running, and a block that waits   *)
(* for a lock waits for one that is resident.                              *)
Spec == Init /\ [][Next]_vars /\ \A b \in Blocks : WF_vars(BlockNext(b))

-----------------------------------------------------------------------------
(* Properties.                                                             *)

KernelPcs == {"begin", "look", "append", "count", "gather", "prune", "shrink", "rewrite", "end"}

(* Every variable has its type; no list entry is written past R.           *)
TypeOK ==
  /\ LockTypeOK
  /\ deg \in [Vertices -> 0 .. R]
  /\ nbr \in [Vertices -> [1 .. R -> Vertices \cup {NoVertex}]]
  /\ pc \in [Blocks -> KernelPcs]
  /\ currDeg \in [Blocks -> 0 .. R]
  /\ {cands, kept} \subseteq [Blocks -> Seq(Vertices \cup {NoVertex})]
  /\ unwritten \in [Blocks -> SUBSET (1 .. R)]
  /\ apart \in [Blocks -> BOOLEAN]

CameApart(v) == \E b \in Blocks : target(b) = v /\ apart[b]

(* A list names other vertices only, in every state and whatever the warps *)
(* of its blocks do; it names each once when its lock is free and no block *)
(* that pruned it came apart.                                              *)
ListsSound ==
  \A v \in Vertices :
    /\ ToSet(List(v)) \subseteq Vertices \ {v}
    /\ d_locks[v] = Unlocked /\ ~CameApart(v) => IsInjective(List(v))

(* The list of a target as the blocks that are through left it.            *)
Committed(v) ==
  IF \E b \in Blocks : target(b) = v /\ pc[b] = "rewrite"
  THEN Front(cands[CHOOSE b \in Blocks : target(b) = v /\ pc[b] = "rewrite"])
  ELSE List(v)

(* However the blocks interleave, the kernel links one pair after another, *)
(* in every list that no block came apart at.                              *)
Links == INSTANCE BackEdges
  WITH Starts <- {[adj |-> adj, pairs |-> Collected(adj)] : adj \in Forward},
       adj    <- [v \in {u \in Vertices : ~CameApart(u)} |-> Committed(v)],
       todo   <- {b \in Blocks : pc[b] # "end"}
LinksOneByOne == Links!Spec

(* No block spins for ever: the kernel returns.                            *)
Termination == <>(\A b \in Blocks : Returned(b))
=============================================================================
