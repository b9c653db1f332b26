---------------------------- MODULE InPlaceIndex ----------------------------
(***************************************************************************)
(* The in-place index of src/fda2: one graph, one host thread.  Events are *)
(* collected into batches of one kind; an event of another kind flushes    *)
(* them first.  A flush runs its kernels one after another, but the        *)
(* threads of the kernels that append to the scratch interleave.           *)
(***************************************************************************)
EXTENDS AppendScratch, RobustPrune, GreedyWalk

CONSTANTS
  Pids, Queries,            \* point and query ids
  IdsOf,                    \* those the events name, by kind
  L,                        \* numBasePoints
  BaseGraphs, BaseMedoids,  \* adjacency lists and entry points at the start
  InsertBatch, DeleteBatch, QueryBatch,
  SearchL, K,               \* beam and answers of a search
  DelLd, DelK, DelC,        \* DEL_LD, DEL_K, DEL_C
  MaxInserts, MaxDeletes, MaxQueries,   \* bounds on the workload
  NoPid

Capacity == Cardinality(Slots)

ASSUME IndexAssumption ==
  /\ L \in Nat /\ L <= Capacity /\ Slots = 0 .. Capacity - 1
  /\ 0 .. L - 1 \subseteq Pids /\ NoPid \notin Pids
  /\ IdsOf["query"] \subseteq Queries /\ IdsOf["insert"] \cup IdsOf["delete"] \subseteq Pids
  /\ BaseMedoids \subseteq 0 .. L - 1
  /\ {InsertBatch, DeleteBatch, QueryBatch} \subseteq Nat \ {0}
  /\ {MaxInserts, MaxDeletes, MaxQueries} \subseteq Nat
ASSUME ThreadAssumption ==
  /\ (1 .. InsertBatch) \X (1 .. R) \cup (1 .. DeleteBatch) \X (1 .. R)
    \cup (1 .. DeleteBatch) \X (1 .. MaxParents) \subseteq Threads
  /\ Threads \subseteq (Nat \ {0}) \X (Nat \ {0})
ASSUME SearchAssumption ==
  /\ \A v \in Slots : Dist(v, v) = 0 /\ \A x \in Slots \cup Queries : Dist(x, v) \in Nat
  /\ {SearchL, K, DelLd, DelK, DelC} \subseteq Nat
ASSUME BaseAssumption ==
  \A graph \in BaseGraphs :
    /\ graph \in [Slots -> Seq(0 .. L - 1)]
    /\ \A v \in Slots : Len(graph[v]) <= R /\ IsInjective(graph[v]) /\ v \notin ToSet(graph[v])

VARIABLES
  todo,             \* what the event at hand, or the end, has yet to do
  pc,               \* the kernels under way, or "loop"
  asked,            \* events so far, by kind (bounds the workload)
  over,             \* the workload was read to its end
  pending,          \* pendInsIds, pendDelIds, pendQryIdx
  numPoints, medoid, adj, deleted,   \* UnifiedGraph; d_deleted as a set
  pointIdToSlot, slotToPointId,
  hostDeleted,      \* as a set
  answers,          \* deferredRecall
  want, due,        \* points the events leave present; inserts not carried out (history)
  emptied           \* at some time no slot was live (history)

hostVars == <<todo, pc, asked, over, pending, pointIdToSlot, slotToPointId, hostDeleted>>
graphVars == <<numPoints, medoid, adj, deleted>>
historyVars == <<answers, want, due, emptied>>
vars == <<hostVars, graphVars, historyVars, scratchVars>>

Kinds == {"insert", "delete", "query"}
BatchSize(kind) == CASE kind = "insert" -> InsertBatch [] kind = "delete" -> DeleteBatch
                     [] kind = "query" -> QueryBatch
Limit(kind) == CASE kind = "insert" -> MaxInserts [] kind = "delete" -> MaxDeletes
                 [] kind = "query" -> MaxQueries

Init ==
  /\ todo = <<>> /\ pc = "loop" /\ over = FALSE
  /\ asked = [kind \in Kinds |-> 0]
  /\ pending = [kind \in Kinds |-> <<>>]
  /\ numPoints = L
  /\ medoid \in BaseMedoids
  /\ adj \in BaseGraphs
  /\ deleted = {} /\ hostDeleted = {}
  /\ pointIdToSlot = [p \in 0 .. L - 1 |-> p]
  /\ slotToPointId = [s \in Slots |-> IF s < L THEN s ELSE NoPid]
  /\ answers = {} /\ due = {} /\ emptied = FALSE
  /\ want = 0 .. L - 1
  /\ ScratchInit

-----------------------------------------------------------------------------
(* The event loop.                                                         *)

Flush(kind) == [do |-> "flush", kind |-> kind, id |-> NoPid]
Push(kind, id) == [do |-> "push", kind |-> kind, id |-> id]
DueFlush(kind) == IF pending[kind] = <<>> THEN <<>> ELSE <<Flush(kind)>>

(* What the case of runWorkload for an event of this kind flushes first.   *)
FlushedFirst_OneOther(kind) ==   \* mutant
  CASE kind = "insert" -> DueFlush("query")
    [] kind = "query"  -> DueFlush("insert") \o DueFlush("delete")
    [] kind = "delete" -> DueFlush("insert")
FlushedFirst(kind) ==
  CASE kind = "insert" -> DueFlush("query") \o DueFlush("delete")
    [] kind = "query"  -> DueFlush("insert") \o DueFlush("delete")
    [] kind = "delete" -> DueFlush("insert") \o DueFlush("query")

AtLoop == pc = "loop" /\ todo = <<>> /\ ~over

Event(kind) ==
  /\ AtLoop /\ asked[kind] < Limit(kind)
  /\ asked' = [asked EXCEPT ![kind] = @ + 1]
  /\ \E id \in IdsOf[kind] : todo' = FlushedFirst(kind) \o <<Push(kind, id)>>
  /\ UNCHANGED <<pc, over, pending, pointIdToSlot, slotToPointId, hostDeleted,
                 graphVars, historyVars, scratchVars>>

EventsOver ==
  /\ AtLoop
  /\ over' = TRUE
  /\ todo' = DueFlush("insert") \o DueFlush("delete") \o DueFlush("query")
  /\ UNCHANGED <<pc, asked, pending, pointIdToSlot, slotToPointId, hostDeleted,
                 graphVars, historyVars, scratchVars>>

Doing(do) == pc = "loop" /\ todo # <<>> /\ Head(todo).do = do
Flushing(kind) == Doing("flush") /\ Head(todo).kind = kind

PushEvent ==
  /\ Doing("push")
  /\ LET kind == Head(todo).kind
         id   == Head(todo).id
     IN  /\ pending' = [pending EXCEPT ![kind] = Append(@, id)]
         /\ todo' = IF Len(pending[kind]) + 1 >= BatchSize(kind) THEN <<Flush(kind)>>
                    ELSE Tail(todo)
         /\ want' = CASE kind = "insert" -> want \cup {id}
                      [] kind = "delete" -> want \ {id}
                      [] kind = "query"  -> want
         /\ due' = IF kind = "insert" THEN due \cup {id} ELSE due
  /\ UNCHANGED <<pc, asked, over, pointIdToSlot, slotToPointId, hostDeleted,
                 graphVars, answers, emptied, scratchVars>>

-----------------------------------------------------------------------------
(* flushInserts, insertBatch.                                              *)

Room_OneTooMany(wanted) ==   \* mutant
  IF numPoints + wanted > Capacity + 1 THEN Capacity - numPoints ELSE wanted
Room(wanted) == IF numPoints + wanted > Capacity THEN Capacity - numPoints ELSE wanted

(* What is left of the batch is tried once more, and given up when no slot *)
(* is free.                                                                *)
Leave_Retry(batch) == batch   \* mutant
Leave(batch) == <<>>

GiveUp ==
  /\ Flushing("insert")
  /\ LET batch == pending["insert"]
     IN  /\ Room(Len(batch)) = 0
         /\ pending' = [pending EXCEPT !["insert"] = Leave(batch)]
         /\ todo' = IF Leave(batch) = <<>> THEN Tail(todo) ELSE todo
  /\ UNCHANGED <<pc, asked, over, pointIdToSlot, slotToPointId, hostDeleted,
                 graphVars, historyVars, scratchVars>>

ChunkLength == Room(Len(pending["insert"]))
NewSlot(i) == numPoints + i - 1

(* The entries of a list that are in S, in their order.                    *)
KeepIf(kept, c, S) == IF c \in S THEN Append(kept, c) ELSE kept
Only(list, S) ==
  LET kept[n \in 0 .. Len(list)] == IF n = 0 THEN <<>> ELSE KeepIf(kept[n - 1], list[n], S)
  IN  kept[Len(list)]

(* writeNewVectorsKernel, then the walk of every new vertex and the prune  *)
(* of what it visited: nobody writes lists meanwhile.                      *)
Written == [v \in Slots |-> IF v \in {NewSlot(i) : i \in 1 .. ChunkLength} THEN <<>> ELSE adj[v]]

ForwardCandidates(i, visited) == Only(visited, Slots \ ({NewSlot(i)} \cup deleted))

Forward(i) ==
  LET walk == Walk(Written, deleted, medoid, i - 1, NewSlot(i), SearchL)
  IN  Pruned(NewSlot(i), ForwardCandidates(i, walk.visited))

(* collectReverseEdgesKernel: one thread per forward edge.                 *)
BackEdges(forward) ==
  [t \in Threads |->
     IF t[1] <= ChunkLength /\ t[2] <= Len(forward[t[1]])
     THEN <<[at |-> forward[t[1]][t[2]], adds |-> <<NewSlot(t[1])>>]>>
     ELSE <<>>]

(* An id in use is mapped to its new slot, and the old one forgotten.      *)
LastWith(batch, p) == CHOOSE i \in DOMAIN batch :
  batch[i] = p /\ \A j \in DOMAIN batch : j > i => batch[j] # p

InsertChunk ==
  /\ Flushing("insert")
  /\ ChunkLength > 0
  /\ LET chunk   == SubSeq(pending["insert"], 1, ChunkLength)
         forward == [i \in 1 .. ChunkLength |-> Forward(i)]
     IN  /\ pointIdToSlot' =
              [p \in DOMAIN pointIdToSlot \cup ToSet(chunk) |->
                 IF p \in ToSet(chunk) THEN NewSlot(LastWith(chunk, p)) ELSE pointIdToSlot[p]]
         /\ slotToPointId' =
              [s \in Slots |-> IF s >= numPoints /\ s < numPoints + ChunkLength
                               THEN chunk[s - numPoints + 1] ELSE slotToPointId[s]]
         /\ adj' = [v \in Slots |->
                      IF v >= numPoints /\ v < numPoints + ChunkLength
                      THEN forward[v - numPoints + 1] ELSE Written[v]]
         /\ Launch(BackEdges(forward))
  /\ pc' = "append"
  /\ UNCHANGED <<todo, asked, over, pending, hostDeleted, numPoints, medoid, deleted,
                 historyVars>>

(* Existing neighbours first, then the additions that are not there yet.   *)
Once_AllKept(before, list) == before \o list   \* mutant
AddNew(kept, c) == IF c \in ToSet(kept) THEN kept ELSE Append(kept, c)
Once(before, list) ==
  LET kept[n \in 0 .. Len(list)] == IF n = 0 THEN before ELSE AddNew(kept[n - 1], list[n])
  IN  kept[Len(list)]
Additions(v) == [i \in 1 .. addScratchCount[v] |-> addScratch[v][i - 1]]
AtMostR(v, cands) == IF Len(cands) <= R THEN cands ELSE Pruned(v, cands)

(* pruneAddScratchKernel, a block per listed vertex: the list is taken as  *)
(* it is, deleted neighbours too.                                          *)
Linked(v) == AtMostR(v, Once(adj[v], Only(Additions(v), (Slots \cup {Stale}) \ {v})))

PruneInserted ==
  /\ pc = "append" /\ Drain
  /\ adj' = [v \in Slots |->
               IF v \in ToSet(dirtyList) /\ v \notin deleted THEN Linked(v) ELSE adj[v]]
  /\ numPoints' = numPoints + ChunkLength
  /\ LET batch == pending["insert"]
         rest  == SubSeq(batch, ChunkLength + 1, Len(batch))
     IN  /\ pending' = [pending EXCEPT !["insert"] = rest]
         /\ todo' = IF rest = <<>> THEN Tail(todo) ELSE todo
         /\ due' = due \ ToSet(SubSeq(batch, 1, ChunkLength))
  /\ pc' = "loop"
  /\ UNCHANGED <<asked, over, pointIdToSlot, slotToPointId, hostDeleted, medoid, deleted,
                 answers, want, emptied>>

-----------------------------------------------------------------------------
(* flushDeletes, deleteBatch.                                              *)

(* An unknown id is skipped; a mapping outlives its point.                 *)
Known == Only(pending["delete"], DOMAIN pointIdToSlot)
DeleteSlots == [b \in DOMAIN Known |-> pointIdToSlot[Known[b]]]

NothingToDelete ==
  /\ Flushing("delete") /\ DeleteSlots = <<>>
  /\ pending' = [pending EXCEPT !["delete"] = <<>>]
  /\ todo' = Tail(todo)
  /\ UNCHANGED <<pc, asked, over, pointIdToSlot, slotToPointId, hostDeleted,
                 graphVars, historyVars, scratchVars>>

(* The walk for the b-th vertex of the batch, from its own vector, past    *)
(* all that are marked: the vertices it visited and the nearest it found.  *)
Repair(b, dead) ==
  LET walk == Walk(adj, dead, medoid, b - 1, DeleteSlots[b], DelLd)
  IN  [visited |-> walk.visited,
       candidates |-> [i \in 1 .. (IF Len(walk.list) <= DelK THEN Len(walk.list) ELSE DelK) |->
                         walk.list[i].id]]

(* closestCCandidates                                                      *)
Closest(v, candidates, p, dead) ==
  LET near == ByDistance(v, Only(candidates, Slots \ ({p, v} \cup dead)))
  IN  SubSeq(near, 1, IF Len(near) <= DelC THEN Len(near) ELSE DelC)

(* inNeighborRepairKernel: a visited vertex with an edge to p gets the     *)
(* candidates closest to it, and is listed even if there is none.          *)
InRepair(dead) ==
  LET repair == [b \in DOMAIN DeleteSlots |-> Repair(b, dead)]
      Needs(b, i) ==
        /\ b \in DOMAIN repair /\ i \in DOMAIN repair[b].visited
        /\ repair[b].visited[i] \notin {DeleteSlots[b]} \cup dead
        /\ DeleteSlots[b] \in ToSet(adj[repair[b].visited[i]])
  IN  [t \in Threads |->
         IF Needs(t[1], t[2])
         THEN LET z == repair[t[1]].visited[t[2]]
              IN  <<[at |-> z, adds |-> Closest(z, repair[t[1]].candidates,
                                                DeleteSlots[t[1]], dead)]>>
         ELSE <<>>]

MarkDeleted ==
  /\ Flushing("delete") /\ DeleteSlots # <<>>
  /\ deleted' = deleted \cup ToSet(DeleteSlots)
  /\ Launch(InRepair(deleted'))
  /\ pc' = "inRepair"
  /\ UNCHANGED <<todo, asked, over, pending, pointIdToSlot, slotToPointId, hostDeleted,
                 numPoints, medoid, adj, historyVars>>

(* outNeighborRepairKernel: every live neighbour w of p is added to the    *)
(* candidates closest to w.                                                *)
OutRepair ==
  [t \in Threads |->
     IF /\ t[1] \in DOMAIN DeleteSlots
        /\ t[2] \in DOMAIN adj[DeleteSlots[t[1]]]
        /\ adj[DeleteSlots[t[1]]][t[2]] \notin {DeleteSlots[t[1]]} \cup deleted
     THEN LET p == DeleteSlots[t[1]]
              w == adj[p][t[2]]
              ys == Closest(w, Repair(t[1], deleted).candidates, p, deleted)
          IN  [i \in DOMAIN ys |-> [at |-> ys[i], adds |-> <<w>>]]
     ELSE <<>>]

LaunchOutRepair ==
  /\ pc = "inRepair"
  /\ Launch(OutRepair)
  /\ pc' = "outRepair"
  /\ UNCHANGED <<todo, asked, over, pending, pointIdToSlot, slotToPointId, hostDeleted,
                 graphVars, historyVars>>

(* pruneUpdatedKernel: deleted neighbours are dropped here.                *)
Mended(v) ==
  AtMostR(v, Once(<<>>, Only(adj[v] \o Additions(v), (Slots \cup {Stale}) \ ({v} \cup deleted))))

(* findLiveMedoid: the first live slot, if there is one.                   *)
LiveSlots(dead) == (0 .. numPoints - 1) \ dead
FindLiveMedoid(dead) ==
  IF LiveSlots(dead) = {} THEN medoid
  ELSE CHOOSE s \in LiveSlots(dead) : \A u \in LiveSlots(dead) : s <= u

MedoidHit_LastOnly(slots) == medoid = slots[Len(slots)]   \* mutant
MedoidHit(slots) == medoid \in ToSet(slots)

(* pruneUpdatedKernel, tombstoneDeletedKernel, then the mirror and the     *)
(* entry point on the host.                                                *)
FinishDelete ==
  /\ pc = "outRepair" /\ Drain
  /\ adj' = [v \in Slots |->
               IF v \in ToSet(DeleteSlots) THEN <<>>
               ELSE IF v \in ToSet(dirtyList) /\ v \notin deleted THEN Mended(v)
               ELSE adj[v]]
  /\ hostDeleted' = hostDeleted \cup ToSet(DeleteSlots)
  /\ medoid' = IF MedoidHit(DeleteSlots) THEN FindLiveMedoid(hostDeleted') ELSE medoid
  /\ emptied' = (emptied \/ LiveSlots(hostDeleted') = {})
  /\ pending' = [pending EXCEPT !["delete"] = <<>>]
  /\ todo' = Tail(todo)
  /\ pc' = "loop"
  /\ UNCHANGED <<asked, over, pointIdToSlot, slotToPointId, numPoints, deleted,
                 answers, want, due>>

-----------------------------------------------------------------------------
(* flushQueries, searchBatch; the answers are looked at when all is over.  *)

Found(b) ==
  LET walk == Walk(adj, deleted, medoid, b - 1, pending["query"][b], SearchL)
  IN  TopK(walk.list, K)

FlushQueries ==
  /\ Flushing("query")
  /\ answers' = answers \cup
       {[slot |-> s, pid |-> slotToPointId[s], dead |-> s \in deleted] :
          s \in UNION {Found(b) : b \in DOMAIN pending["query"]}}
  /\ pending' = [pending EXCEPT !["query"] = <<>>]
  /\ todo' = Tail(todo)
  /\ UNCHANGED <<pc, asked, over, pointIdToSlot, slotToPointId, hostDeleted, graphVars,
                 want, due, emptied, scratchVars>>

Kernels ==
  /\ \E t \in Threads : AppendStep(t)
  /\ UNCHANGED <<hostVars, graphVars, historyVars>>

Loop ==
  \/ \E kind \in Kinds : Event(kind)
  \/ EventsOver \/ PushEvent
  \/ GiveUp \/ NothingToDelete
  \/ Kernels

Batch ==
  \/ InsertChunk \/ PruneInserted
  \/ MarkDeleted \/ LaunchOutRepair \/ FinishDelete
  \/ FlushQueries

Finished == pc = "loop" /\ over /\ todo = <<>>

Next == Loop \/ Batch \/ (Finished /\ UNCHANGED vars)

(* One host thread that never waits for good, and kernels that the device  *)
(* runs to their end.  The second conjunct is WF_vars(Batch) with ENABLED  *)
(* spelled out, which TLC would find by computing the walks once more.     *)
BatchReady ==
  \/ Flushing("insert") /\ ChunkLength > 0
  \/ Flushing("delete") /\ DeleteSlots # <<>>
  \/ Flushing("query")
  \/ pc # "loop" /\ AllReturned

Progress ==
  /\ WF_vars(Loop)
  /\ []<>~BatchReady \/ []<><<Batch>>_vars

Spec == Init /\ [][Next]_vars /\ Progress

-----------------------------------------------------------------------------
(* Properties.                                                             *)

(* Every variable has its type; no slot is handed out past the capacity.   *)
TypeOK ==
  /\ ScratchTypeOK
  /\ todo \in Seq([do : {"flush", "push"}, kind : Kinds, id : Pids \cup Queries \cup {NoPid}])
  /\ pc \in {"loop", "append", "inRepair", "outRepair"}
  /\ \A kind \in Kinds : pending[kind] \in Seq(IdsOf[kind])
  /\ numPoints \in L .. Capacity
  /\ medoid \in Slots
  /\ adj \in [Slots -> Seq(Slots)]
  /\ deleted \subseteq Slots /\ hostDeleted \subseteq Slots
  /\ DOMAIN pointIdToSlot \subseteq Pids
  /\ \A p \in DOMAIN pointIdToSlot : pointIdToSlot[p] \in Slots
  /\ slotToPointId \in [Slots -> Pids \cup {NoPid}]

(* Between two flushes every list names other vertices in use, each once   *)
(* and at most R, and that of a tombstone is empty, whatever order the     *)
(* appends came in and although a walk may visit its start vertex twice.   *)
ListsSound ==
  pc = "loop" =>
    \A v \in 0 .. numPoints - 1 :
      /\ Len(adj[v]) <= R
      /\ IsInjective(adj[v])
      /\ ToSet(adj[v]) \subseteq (0 .. numPoints - 1) \ {v}
      /\ v \in deleted => adj[v] = <<>>

(* fda2_executor.h:81: only one kind of operation is ever pending, so a    *)
(* flush never overtakes what was asked for before it.                     *)
OneKindPending ==
  AtLoop => \A j, k \in Kinds : pending[j] # <<>> /\ pending[k] # <<>> => j = k

(* fda2_executor.h:67-70: whenever a batch is flushed the searches start   *)
(* at a live vertex, and the host's mirror agrees with the device, unless  *)
(* everything was deleted at some time: the entry point is not looked for  *)
(* again when points are inserted after that.                              *)
EntryPointLive ==
  pc = "loop" =>
    /\ hostDeleted = deleted
    /\ medoid \in LiveSlots(deleted) \/ emptied

(* fda2_search.cu:85-90: the top-k holds no deleted point, with the same   *)
(* exception; and an answer still translates to its point when the run is  *)
(* over and slots are looked up (computeAllRecall).                        *)
AnswersStand ==
  /\ ~emptied => \A a \in answers : ~a.dead
  /\ Finished => \A a \in answers : slotToPointId[a.slot] = a.pid

(* The index is the abstract store: an insert makes its points visible     *)
(* once and in the order asked, a deleted point is gone when its batch is  *)
(* flushed, and an insert is left undone only for want of a free slot.     *)
Store == INSTANCE VectorStore
  WITH Base <- 0 .. L - 1,
       due  <- IF numPoints < Capacity THEN ToSet(pending["insert"]) ELSE due,
       live <- {slotToPointId[s] : s \in LiveSlots(deleted)}
StoreSpec == Store!Spec

(* The workload is carried out to its end: no flush comes back for a batch *)
(* that does not fit, and every kernel returns.                            *)
Termination == <>Finished

=============================================================================
