# A TLA+ development of the streaming GPU vector indexes

The repository holds two GPU indexes for streaming approximate nearest-neighbour
search, `src/fda` (out-of-place FreshDiskANN) and `src/fda2` (in-place, with
IP-DiskANN deletes), together with a wrapper around an external library
(`src/freshbang`), a vendored baseline (`src/nvidia-cuvs`) and benchmark scripts
(`src/bench_harness`). This directory models the project's own logic, checks it
with TLC on small instances and proves the main invariants with TLAPS.

## 1. Inventory

### 1.1 `src/fda`: the out-of-place index

| part | state | operations |
|---|---|---|
| executor (`fda_executor.{h,cu}`) | pending batches, `pointIdToSlot` / `slotToPointId`, `globalIndexLock`, `mergeThread`, deferred answers | `runWorkload`, `flushInsertBatch`, `flushDeleteBatch`, `launchSearchBatch`, `triggerMergeIfNeeded`, `triggerMergeAsync`, `mergeNow`, `phaseBReinsertAllTempRWToView`, `computeAllRecall` |
| unified index (`fda_index.{h,cu}`) | `ltiCount`, `numActiveTemps`, `rwBase`, `rwCount`, `rwMedoid`, `tempMedoids`, the device allocation `d_graph` | `allocateUnifiedIndex`, `sealCurrentRW`, `allocateDeltaMemory`, `freeDeltaMemory` |
| delete list (`fda_index.{h,cu}`) | a device bit vector, a host count | `batchMarkDeleted`, `clearDeleteList` |
| insert kernels, node locks (`fda_insert.cu`, `fda_locks.cuh`, `fda_robust_prune.cuh`) | adjacency lists, one lock byte per vertex | write vectors, greedy search, RobustPrune, collect and append back edges |
| merge kernels (`fda_merge.cu`) | the new graph | Phase A: copy the survivors and prune their lists again |
| search kernels (`fda_search.cu`) | work lists, top-k buffers | `searchUnified` over LTI, Temps and RW |
| greedy search (`greedySearch.cu`, `baseline_src/`) | `g_runtimeMedoid` in device memory, work lists, bloom filters | the walk itself |
| driver (`fda_main.cu`, `v11_loader.hpp`, `metric.hpp`) | none | command line, files, units |

The main thread reads a workload of insert, delete and query events. An event
appends to a pending batch and flushes the other kinds; a flush takes
`globalIndexLock`, launches kernels on one CUDA stream and waits for them.
Inserts fill the RW window; a full window of `T` slots is *sealed* into a Temp,
and the `M`-th Temp (or a threshold on the delete list) starts a *merge* in
`mergeThread`. The merge copies the index into a new allocation **without the
lock** - Phase A consolidates `[0, rwBase)`, Phase B inserts the Temps again,
the RW window is copied verbatim - and takes the lock only for the swap.
Afterwards it clears the delete list and frees the old allocation, again
without the lock. In eager mode the main thread runs the same merge by itself
before a batch of queries.

What is hard: the merge reads `ltiCount`, `numActiveTemps`, `rwBase`, `rwCount`,
`rwMedoid`, the delete bits and the graph at different moments while the main
thread moves them, and moves them one after the other when it seals; two merges can exist; slots are given back and used again
while answers still name them; the delete list forgets everything at once; the
join of the previous merge must not happen under the lock that merge waits for;
the start vertex of greedy search is one device global for two streams.

What makes it correct: slot arithmetic stays consistent and inside the
allocation; a slot always translates to the point stored in it; the live buffer
is not freed; a consolidated vertex is lost only if it was deleted; a live point
is found and a deleted one is not; the run ends.

### 1.2 `src/fda2`: the in-place index

| part | state | operations |
|---|---|---|
| executor (`fda2_executor.{h,cu}`) | pending batches, both id maps, `hostDeleted`, `g.numPoints`, `g.medoid` | `flushInserts`, `flushDeletes`, `flushQueries`, `findLiveMedoid`, `runWorkload` |
| graph and insert (`fda2_graph.cu`, `fda2_insert.cu`) | adjacency, `addScratch` and its counts, the dirty list and its marks | append back-edge candidates with atomics, prune dirty lists |
| delete (`fda2_delete.cu`) | tombstones, replacement candidates, the same scratch | IP-DiskANN Algorithm 5 |
| search (`fda2_search.cu`) | work lists | top-k of the live vertices |
| driver and tools (`fda2_main.cu`, `fda2_tools/`) | none | command line; offline graph generators |

One host thread, one stream: operations never overlap. The host collects events
into a batch of one kind and flushes the others first; an insert flush writes the
new vertices, walks the graph from the entry point for each, prunes what the
walk visited to the forward edges and appends back edges to the scratch; a delete
flush marks its batch, walks for each vertex, appends replacements to the scratch
of the in-neighbours it met and of the candidates, prunes what was touched and
empties the lists of the deleted; then the host updates its mirror and, if the
entry point is gone, takes the first live slot.

What is hard: inside a kernel many threads append to the same scratch with bare
atomics; counts and marks are never cleared but by the prune of the operation
before; deletes are approximate, so lists keep naming tombstones; the entry point
may be anywhere in a batch of deletes; ids are used again; the index can be full
or empty. The walk itself runs a batch in lockstep, with one shared flag, racing
filters and stale neighbours. What makes it correct: every granted place of the
scratch is written once, a vertex is listed for the prune once, lists stay sound,
work lists stay sorted and keep the nearest, the entry point is live, a live
point stays in the index and a deleted one is never returned.

### 1.3 The rest

`src/freshbang` drives a library whose source is not here; `src/nvidia-cuvs` is
third-party; `src/bench_harness` converts data and plots results. None of them
is modelled.

## 2. Modules

| module | models | state |
|---|---|---|
| `UnifiedIndex` | `fda_index.{h,cu}` and which slots `searchUnified` can return | one variable per field of `UnifiedIndex` and `DeleteList`; `graph` is the content of every allocation |
| `FdaExecutor` (extends it) | `fda_executor.{h,cu}`: both threads | `mainPc` and `todo` are the main thread's place, `mergePc[a]` the place of the merge made by thread `a` |
| `VectorStore` | nothing of the code: what a streaming index promises | `want`, `due`, `live` |
| `MCFdaExecutor` | the instance TLC explores | |
| `FdaExecutorProofs` | theorems about `FdaExecutor` | |
| `NodeLocks` | `fda_locks.cuh` | the lock bytes, and for each block its place in the compare-and-swap loop and the word it expects |
| `Distances` | the squared L2 distances and the sort by them, which prunes and walks share | none: operators |
| `RobustPrune` (extends it) | the alpha-RNG selection as `fda_insert.cu` and `fda_merge.cu` apply it | none: operators |
| `ReverseEdges` (extends both) | the two reverse-edge kernels of `fda_insert.cu` | lists (`deg`, `nbr`) and the shared variables of each block |
| `BackEdges` | nothing of the code: one pair linked after another | `adj`, `todo` |
| `MCReverseEdges` | the instance TLC explores | |
| `AlphaRng` (extends `RobustPrune`) | `blockAlphaRNG` and `l2DistBlock` of `fda_robust_prune.cuh`, as one block of `mergePhaseAOutOfPlaceKernel` runs them | the block's shared variables, and of every warp its place and registers |
| `MCAlphaRng` | the instance TLC explores | |
| `GreedyWalk` (extends `Distances`) | the kernels of `baseline_src/greedySearch.cu` (`fda2`; `fda` holds the same) as operators, and the walk of one query | none: operators |
| `GreedySearch` (extends it) | `greedySearchNoSyncPrealloc`: the host loop and the two kernels that touch shared state | the buffers per query, the host's counters, the kernel on the stream and which of its blocks have returned |
| `MCGreedySearch` | the instance TLC explores | |
| `AppendScratch` | the append helpers of `fda2_insert.cu` and `fda2_delete.cu` | scratch, counts, marks, list, and of every thread what it has yet to append |
| `InPlaceIndex` (extends it and `RobustPrune`, uses `GreedyWalk`, refines `VectorStore`) | `fda2_executor.cu`, `fda2_insert.cu`, `fda2_delete.cu`, `fda2_graph.cu`, `fda2_search.cu` | the fields of `Executor` and `UnifiedGraph` under their names; `todo` is what the event at hand has yet to do, `pc` the kernels under way |
| `MCInPlaceIndex` | the instance TLC explores | |
| `ReverseEdgesProofs`, `AlphaRngProofs`, `GreedySearchProofs`, `InPlaceIndexProofs` | theorems about the module named; `ReverseEdgesProofs` covers `NodeLocks` too, `InPlaceIndexProofs` `AppendScratch` | |
| `RobustPruneProofs`, `GreedyWalkProofs` | what prune, merge and walk return | |
| `ListLemmas` | facts about numbers, sequences and the sort that several proofs cite | |

**Main thread.** An event (`EventInsert`, `EventDelete`, `EventQuery`) appends to
its batch and leaves in `todo` the flushes its `case` of `runWorkload` makes, in
their order; `EventsOver` does so for the end of the workload. `BeginInsert`
takes the lock; then, chunk by chunk, `AssignSlots` (slot maps, RW medoid, start
vertex) and `InsertChunk` (the kernels, then `rwCount`); a window that is full now, or
was when the loop came round (`WindowIsFull`), is refused a seal (`SealRefused`) or
sealed; `EndInsert` clears the batch. `sealCurrentRW` writes its fields in four
steps, `BeginSeal` (with `SealTemp`), `MoveBase`, `ResetCount` and `ResetMedoid`: the lock
that its caller holds does not keep the merge thread from reading in between. The Temp's
entry point is written together with the count of Temps, since only holders of the
lock read it. Two history variables tell what came of it: `tornRead`, a merge has
read one of its four fields in the midst of a seal, and `tornCounts`, how many merges
read `rwCount` of a window that is counted as a Temp already (`CountedTwice`). `FlushDelete` translates, marks
and looks at the merge thresholds; `LaunchSearch` keeps answers as slots.
`Trigger*` is `triggerMergeAsync`: skipped, spawned at once, or the lock released,
the old thread joined, the lock taken again.

**Merge.** `mergeNow` is one action per read of shared state: `SnapshotCounts`,
`SnapshotRwBase`, `SnapshotRwCount`, `SnapshotRwMedoid` (with the allocation),
`PhaseA`, `PhaseBGather`, `PhaseBLink`, `CopyRW`, `Swap` (under the lock),
`ClearBits` and `ClearCount` in either order, `FreeOld`. The same actions serve
the background thread (`a = "background"`) and the eager merge (`a = "main"`).

**Abstractions.** A slot's vector is the id of the point it belongs to. A search
may return any vertex of an index that has an entry point and is not tombstoned:
distances and reachability inside one index are left out, so "found" means
"findable". Kernels of one flush are one step where the host waits for them
before another step can see them. A slot past the allocation ends the run
(`overrun`). The limit of 16 indexes in `searchUnified` is not reached in the
instances. `IdsUsedOnce` restricts the workload to one insert per point.

**Reverse edges.** A block is named by its pair `<<target, source>>`; the pairs come
from one of the adjacency lists in `Forward`, the outcome of the forward prune
(`Collected`). Blocks run interleaved: reading and deciding (`Look`), writing the
entry (`AppendSource`), writing the length and releasing (`CountSource`), and on
overflow `Gather`, `Prune`, `Shrink` (thread 0 writes the new length), `WriteEntry` for each
entry and `Finish` (the release) are separate steps. So are the load and the swap of a lock word:
`d_locks` holds one byte per vertex, a swap compares and stores all bytes of the
word. Memory is sequentially consistent, which the fences on both sides of the
locked region give the lists. Distances are a constant `dist` and alpha a
fraction. Not modelled: `tryAcquireNodeLock` (no caller), the early return of
blocks past the number of pairs.

The prune of a block is the loop that `AlphaRng` takes warp by warp. `Prune` takes over what
is shown there: a block whose warps stay together selects the alpha-RNG of its
candidates (`SelectedIfTogether`); of one whose warps come apart (`apart`, any block that
has more than one) only this is certain, that it selects distinct candidates,
nearest first, beginning with the nearest (`ListInOrder`), so it may select any such
list. The writes after it are dealt out among `NumWarps` warps. While the warps
are together, barriers keep all of them between the write of the length and the
release. Once they are apart, the warps other than warp 0 may write before
the length is there or after thread 0 has released the lock (`MayWrite`,
`LeftToLaggards`), into a list that is free or held by another block; one that found
`nSel` too low passes over entries (`PassedOver`), whose places keep what was there.
Thread 0's warp writes its own entries before it releases.

**Warps.** In `AlphaRng` a step is what one warp does to the shared variables
between two barriers, split where another warp may come in between: the reads of
the candidate and of the count (`ReadCandidate`, `ReadCount`), the verdict
(`InnerRejected`, `StorePartial`), the sum (`SumUp`), the selection (`Choose`). A
barrier opens when every warp that has not exited waits at one, whichever one:
that is what the hardware does, where the language leaves divergence undefined.
A distance is split into one part per warp. `apart` is a history variable: some
barrier has released warps from different places. Gathering and sorting the
candidates happen before (`ByDistance`); `atomicAdd` gathers them in any order, so
`Inputs` has every order.

**Greedy search.** A step of `GreedySearch` is one block of the filter kernel
(`FilterNeighbors`, with the distances and the sort that follow, which touch only
what this block filtered) or of the merge kernel (`MergeIntoWorklist`), blocks in
any order; `Iterate` and `HostDone` are the host. A vertex sets a set of bits in
the bloom filter; threads of a block check and set without a barrier, so of
neighbours that share bits any subset that leaves nobody unmet may enter
(`Admissible`). Neighbours equally far come out of `atomicAdd` and the stable sort
in any order (`Sorted`). Two things the code does are kept as they are: the start
vertex is not in the filter, so a back edge brings it in a second time and it may
stand twice in a work list, a visited set and an answer; and the neighbour that
equals the number of the block is skipped (line 438), so query `q` of a batch
never meets slot `q`. `Walk` is one query by itself, a fold; `AsIfAlone` shows
that the lockstep comes to it where no two vertices share bits and none are
equally far, which is what `InPlaceIndex` assumes when it uses `Walk`.

**In-place index.** `Event`, `PushEvent` and `EventsOver` are `runWorkload`;
`InsertChunk` is one round of the loop of `flushInserts` up to the append kernel,
`PruneInserted` the prune after it, `GiveUp` the exit when no slot is free;
`MarkDeleted`, `LaunchOutRepair` and `FinishDelete` are `deleteBatch`, divided at
its two append kernels, with the mirror and the entry point; `FlushQueries` is
`searchBatch` with the top-k. Between a launch and the end of its kernel the
threads run `AppendStep`s, interleaved: reserve (`atomicAdd`), fill and give back,
mark and enlist. Writing the places and the `atomicSub` are one step: the places
are the thread's own until the kernel ends, so others see the `atomicSub` only,
and it may come as late as it likes. The other kernels give
each vertex to one block and are part of these steps. `Stale` stands for what a
place of the scratch held before; the code leaves old entries there, and never
reads them if `PlacesWritten` holds. Distances are a constant; vectors belong to
slots, so two inserts of one id may differ. Left out: events with a vector that
is too short (skipped by the code), `FDA2_MEDOID_LAST` and the switches of
`searchBatch`.

## 3. Runs

`L` vertices at the start, `T` slots per Temp, `M` Temps. One slot to start from
is enough because every LTI vertex is treated alike; `T = 2` is the smallest
window that can be partly full, `M = 2` (3) the smallest layout in which a seal
differs from the seal that triggers a merge. Three buffers are one more than two
overlapping builds of one thread need, so a missing `free` would show.

| run | bounds | distinct states | question |
|---|---|---|---|
| `fda_background_merge` | `M=2`, 7 inserts, 1 delete, ids used again | 459,703 | inserts against a background merge: types, layout, capacity, translation of answers, buffers, thread hand-over, LTI, swap, termination |
| `fda_skip_merge` | `M=2`, 5 inserts, 2 deletes, 2 queries, `M*T` = 4 slots of Temps and one RW window | 34,138 | `FDA_SKIP_MERGE`: the executor implements `VectorStore`; nothing lost or resurrected; answers still translate at the end |
| `fda_eager_merge` | `M=3`, 4 inserts, 2 deletes, 2 queries, ids used again | 118,791 | merges by the main thread: no live point lost |
| `fda_rw_disturbed` | 5 inserts | violation | "RW operations continue undisturbed" |
| `fda_resurrected` | 2 inserts, 1 delete, 1 query, eager | violation | a deleted point stays deleted |
| `fda_two_merges` | 4 inserts, 1 query, eager | violation | "only one merge at a time" |
| `fda_phase_b_medoid` | 5 inserts | violation | Phase B searches from the LTI medoid |
| `alpha_rng` | 3 warps, `R=2`, up to 4 candidates of two vertices, a tie | 44,398 | the block-cooperative prune under every interleaving of its warps |
| `alpha_rng_race` | the same | violation | "Postcondition: selected[0..nSel) = survivors" |
| `reverse_edges` | 5 vertices, `R=2`, 2 lock bytes a word, 3 new vertices, 4 pairs, 2 warps | 158,113 | back edges on a hub under byte locks, by warps that may come apart: one holder, no lost byte, sound lists, the kernel implements `BackEdges`, it returns |
| `greedy_search` | 5 vertices, 162 graphs, batches of one or two queries, work lists of 2 or 3, the flag looked at every 2nd round | 114,884 | the walk in lockstep: sorted, nearest kept, stale rounds harmless, closed and as if alone at the end |
| `fda2_in_place` | capacity 5, 2 base points, `R = P = 2`, 4 inserts and 2 deletes in batches of 2, 1 query | 422,289 | the in-place index from the event loop to the scratch: slots, lists, entry point, answers, `VectorStore`, termination |

Seven inserts in `fda_background_merge` seal three windows: the second seal
starts a merge, the third finds its thread running or exited, which is where the
spawn, the join and a swap with a moved window meet, and where a merge can read in the
midst of the third seal. Its capacity of 10 slots is just what `fda_index.h:88-91` asks
for (`L`, the inserts and one `T`), three more than the driver allocates (note 7 of
section 4). Deadlock is checked in every
run; the executor's end is a stuttering step of its own.

In `reverse_edges` vertex 0 is the target of three pairs and starts with one
neighbour, or with two of which one is a source already, so one kernel appends,
skips and overflows, and up to two blocks come apart at one vertex; 0 and 1 share
a lock word and are both targets, so swaps fail because of a neighbour's byte; the
vertices lie on a line such that a prune drops a covered vertex. Two warps are
enough for a late one: which warps are late makes no difference to the list.

Three warps in `alpha_rng` let one be in time and another late; four candidates
with two places leave rounds after the drift begins.

In `greedy_search` one query starts at the vertex nearest to it and has a tie, for
the other every step leads nearer, so the two are through in different rounds;
one bloom filter takes vertex 3 for met once 1 and 2 are. A work list of 2 drops
entries in most graphs.

In `fda2_in_place` the four inserts meet three free slots, so a batch is cut and
another given up; the one inserted id is used again, and deleted; a batch of two
deletes may be the whole base graph, the entry point first or last, or one point
twice; `P = 2` with two new vertices linked to one hub and two deletes repaired at
one vertex makes the scratch overflow in part and as a whole; `R = 2` makes lists
overflow into the prune. That each of these, a list naming a tombstone and an
answer given up by a later delete is reached was checked by asking TLC for states
without it.

**Fairness.** Weak fairness of the main thread and of each merge: both are host
threads the operating system schedules again, and a mutex that is free is
eventually taken (a thread waits here for a lock that its holder releases for
good, so weak fairness is enough). `Termination` holds under it and fails when
the lock is kept during the join. It also needs a merge to make room: with merges
skipped and more sealed windows than `M` the insert loop spins for ever, which is
why `fda_skip_merge` keeps to the bound its comment asks for.
In `ReverseEdges` weak fairness of each block: resident blocks are scheduled
again, and a block that waits for a lock waits for one that is resident. A
failed swap means another block's succeeded, and each block takes one lock, so
no block fails for ever.
In `InPlaceIndex` one host thread reads a workload that ends, and the device runs
a launched kernel to its end: weak fairness of `Loop` and of `Batch`. The second
is written out as a formula about `BatchReady`, since TLC would compute every
walk once more to decide `ENABLED`; the two mean the same because `BatchReady` is
the conjunction of the guards.

## 4. What the violations say

1. `fda_executor.cu:360` says RW operations continue undisturbed during a merge.
   The swap puts back the window saved before Phase A (463-464); vertices inserted
   since are in no searched window any more, and their slots are assigned again.
2. `fda_executor.cu:468` clears the delete list "now that consolidation is final",
   but the RW window is copied verbatim: its tombstones are lost and deleted
   points come back, without any concurrency.
3. `fda_executor.h:135` says only one merge runs at a time; the eager path calls
   `mergeNow` without joining the background merge.
4. `fda_executor.cu:682` sets Phase B's start vertex explicitly; the variable is a
   device global that the insert path sets on its own stream meanwhile.

5. `fda_robust_prune.cuh:77` promises the survivors, and line 29 asks all threads to
   call `l2DistBlock` together. For the first candidate no barrier lies between
   the warps' reads of the count (103) and thread 0's increment (116): a late warp
   calls `l2DistBlock` alone, its barriers pair with other barriers of the rest
   from then on, and thread 0 adds up stale partial sums. `alpha_rng` shows that
   this is the only place where the warps come apart (`ApartAtTheFirstOnly`) and
   that the list is right when they do not (`SelectedIfTogether`); even apart, a
   list names distinct candidates, nearest first (`ListInOrder`). `fda_insert.cu`
   holds the same loop twice; `fda2_prune.cuh` reads the count before a barrier.

The next three were met while modelling and have no run of their own; each was
reproduced by TLC on the instance it gives.

6. `fda_insert.cu:256` says every back edge goes through the lock. Its prune is the
   loop of item 5: a warp that came apart writes its entries (384) after thread 0
   has released the lock (387). On the instance of `reverse_edges` a list changes while
   nobody holds its lock. What `reverse_edges` checks therefore distinguishes. At any
   time, in every list, the counted entries are other vertices; no entry is written past
   `R`; the locks are not affected. That a free list names nobody twice and is the
   outcome of linking one pair after another is promised only where no block came
   apart; a list that one came apart at may mix two results.

7. A merge whose reads (`fda_executor.cu:379-387`) fall between the writes of
   `sealCurrentRW` (97-99) counts the window among the Temps and saves its `rwCount` as
   well; the swap then shows a full window of `T` slots that hold nothing, and the next
   flush seals it. `WithinCapacity` bounds the damage: `T` slots for each such read. The
   header (`fda_index.h:88-91`) asks for `L` plus the inserts plus one `T`, which lasts for
   one. With `L = T = M = 1`, five inserts and the header's 7 slots an insert is given a
   slot past the allocation after a few of them. Such a merge can also publish a window
   in which a slot does not translate to the point whose vector is there, which is why
   `AnswersTranslate` speaks of runs without a torn read. With `M = 1` every restored
   window is sealed at once and starts another merge, so that the insert loop could go
   round for ever on torn reads alone; `Termination` is checked with `M = 2`.

8. The driver allocates `L + (M+1)*T` slots (`fda_main.cu:291`), fewer than the header
   asks for when the workload has more than `M*T` inserts: with `T = M = 2`, `L = 1` and
   7 inserts (`Capacity = 7` in `FdaBackgroundMerge.cfg`) TLC runs past it without any
   torn read. With the driver's own `T = ceil(inserts / M)` (278) the allocation is
   enough, and no merge can read in the midst of a seal, because only the last seal
   starts one (`DriverSizingHolds`).

Two further divergences between comments and code have no run either:
`fda_executor.h:173` says the lock also synchronises the streams (the swap does
not wait for them), and the header's description of the eager mode seals a
partial window, while the code keeps it (`fda_executor.cu:518`).

In `src/fda2` the following are noted, without a run:

* When every point was deleted the entry point stays a tombstone and inserts do
  not look for another (`findLiveMedoid` is called by deletes only): new vertices
  get no edges, and searches return the tombstone. `fda2_insert.cu:305` ("always
  the current (live) medoid"), `fda2_executor.h:67-70` and `fda2_search.cu:85-90`
  ("naturally all-live") do not hold then. `EntryPointLive` and `AnswersStand`
  except it (`emptied`).
* `fda2_insert.cu:243-244` says existing neighbours are never deleted; deletes are
  approximate (`fda2_search.cu:116`) and leave edges to tombstones that no walk met.
* `fda2_delete.cu:24` gives `c = 3`, line 48 sets `DEL_C` to 2;
  `fda2_delete.h:38-45` describes a splice under per-vertex locks, which the code
  replaced by the scratch.
* A batch past the capacity is dropped with a message, and an insert of an id in
  use leaves its old slot live: such a point cannot be deleted any more.

The passing properties are stated so that they hold beside these: for instance
`LtiOnlyLosesTombstones` speaks of consolidated vertices, and
`UndisturbedSwapKeepsAnswers` of swaps that find the window as it was saved.

## 5. Proofs

Every theorem holds for all values of the constants that satisfy the named
assumptions of the modules; an assumption beyond these is in the theorem itself.
Each inductive invariant was checked by TLC as an invariant of a run before it was
proved. The modules build on each other:

    ListLemmas <- RobustPruneProofs <- ReverseEdgesProofs, AlphaRngProofs
               <- GreedyWalkProofs  <- GreedySearchProofs
    RobustPruneProofs, GreedyWalkProofs <- InPlaceIndexProofs
    FdaExecutorProofs

### 5.1 `FdaExecutorProofs`

| theorem | statement | assumed in the theorem |
|---|---|---|
| `TypeCorrect` | `Spec => []TypeOK` | |
| `LayoutHolds` | `Spec => []IndexLayout` | |
| `SpawnHolds` | `Spec => SpawnAfterJoin` | |
| `CapacityHolds` | `Spec => []WithinCapacity` | background merges only |
| `DriverSizingHolds` | `Spec => [](NoOverrun /\ ~tornRead)` | background merges only; `DriverSized` |
| `LiveBufferHolds` | `Spec => []LiveBufferKept` | background merges only |
| `LtiHolds` | `Spec => LtiOnlyLosesTombstones` | background merges only |
| `TranslationHolds` | `Spec => []AnswersTranslate` | background merges only |
| `SwapKeepsAnswers` | `Spec => UndisturbedSwapKeepsAnswers` | background merges only |
| `LostNever` | `Spec => []NothingLost` | `StoreMode` |
| `ResurrectedNever` | `Spec => []NothingResurrected` | `StoreMode` |
| `RecallHolds` | `Spec => []AnswersTranslateAtTheEnd` | `StoreMode` |
| `ExecutorIsAStore` | `Spec => StoreSpec` | `StoreMode` |
| `EagerLosesNothing` | `Spec => []NothingLost` | `NothingTriggered` |
| `EagerLeavesWindow` | `Spec => RwUndisturbed` | `NothingTriggered` |

"Background merges only" is `~EagerMerge`; `StoreMode` is `SkipMerge`, `~EagerMerge`
and `IdsUsedOnce`. These are the modes of the runs that check the properties. They
are needed: in eager mode two merges can run at once, and outside `StoreMode` the
runs of section 4 find points lost and points resurrected.

`DriverSized` is `MaxInserts <= M * T` and `MaxDeletes < DeleteCap`: what `fda_main.cu:278`
makes of a workload when `T` is not given, and a delete list that does not fill.
Nothing is asked of the allocation beyond `LayoutAssumption`, which is what the driver
allocates. `CapacityHolds` asks for no capacity at all: it accounts every slot handed out to
`L`, to an insert, or to the `T` slots a merge can lose by reading the count of a window
that is being sealed, and an overrun happens only where these exceed the allocation.
`TranslationHolds` says nothing of a run in which a merge has read in the midst of a
seal (note 7 of section 4).

`NothingTriggered` is `MaxInserts < M * T`, `MaxDeletes < DeleteCap` and
`DeleteBatch = 1`: the workload stays below each threshold of `triggerMergeAsync`,
so that only eager merges run, and every delete is flushed by the event that asks for
it. `fda_eager_merge` satisfies it (4 < 3 * 2, 2 < 9); `IdsUsedOnce` is not assumed. Both
parts are needed. With a background merge `fda_rw_disturbed` refutes `RwUndisturbed`.
With larger delete batches a point may be deleted, inserted again and searched for
while the delete is still pending; `flushDeleteBatch` then looks up the slot of the
new copy and marks that one.

* **`LayoutInv`** = `TypeOK` and `IndexLayout` with three additions: the batch
  offset stays inside the batch, a busy main thread has the task it works on at
  the head of `todo`, and what a merge has saved so far could be a layout itself
  (`newLtiCount >= L`, `savedRwCount <= T`). The last part is why a swap that
  restores a stale window still leaves a consistent layout, in every mode, with
  two merges as well.
* **`CapacityInv`** counts: window end plus pending inserts is at most `L` plus the
  inserts so far plus `T` for each merge that read `rwCount` of a window counted twice, and
  what a merge has saved so far ends no later than that. The bound is on this sum and not
  on the present window, which a torn read lets a swap pass. It needs one merge at a time,
  hence the assumption. The steps of the main thread are cut into two lemmas: they move
  the window's end by the slots they take from the pending inserts
  (`MainMovesWindowUp`), and they leave what a merge saved alone (`MainKeepsSnapshot`).
* **`DriverInv`** is why the driver's sizing escapes that: it counts inserts against seals
  and deletes against the list, so that a merge runs only when the last insert has been
  taken in (`MergesLast`), and no seal comes after it.
* **`BufferInv`** says which buffers are allocated at each place of a merge
  (`BuffersExact`), and that from Phase A to the swap the copy agrees with the
  live LTI except for tombstones, which only grow meanwhile (`CopyAgrees`): the
  lock-free reads are harmless below `ltiCount` because the main thread writes
  past it.
* **`AnswerInv`** is why a slot still translates although the merge reads base, count
  and medoid of the window at three moments. What it saved is the present window,
  or a shorter one with the same base, or a window that has been sealed since
  (`BaseBehind`), so neither the live buffer nor the copy names a point beyond the
  window's end (`LiveTranslates`, `CopyTranslates`); and a chunk that has its slots
  but is not written yet lies past that end (`ChunkAssigned`). It holds up to the first torn read. `TempsCopied`,
  `WindowCopied` and `MedoidSaved` say what the swap will publish, which is all that
  `SwapKeepsAnswers` needs when the window did not move.
* **`SkipInv`** relates slots to requests in `StoreMode`. `SlotsInv`: points and the
  slots below the end of the window (and of a chunk under way) correspond one to
  one, and every Temp and a window in use have an entry point. `RequestsInv`: a
  pending insert has no slot yet, a point is wanted exactly if it was inserted and
  neither tombstoned nor about to be, and in `todo` the flush of inserts comes
  before that of deletes - so a delete always finds its slot. From it
  `VisibleExact` says which points a search sees; the refinement maps a chunk of
  inserts and a delete flush to the store's steps and all else to stuttering.
* **`EagerInv`** follows a live point through merges and through reuse of its id.
  `CountsInv` accounts for every insert (a slot or pending) and every delete (counted,
  pending or done with), which keeps the layout, the index and the delete list below
  their thresholds (`LayoutNeverFull`), so no path reaches the merge trigger and
  `OneThread` holds: a merge has the main thread to itself. Then what it saved is the present
  layout (`SnapshotExact`), and its copy agrees with the live buffer on every slot
  without a tombstone, up to `rwBase` after Phase A and up to the window's end at the
  swap (`LiveCopied`). `PointsInv` says that a wanted point is pending or sits in the
  slot of its own that `pointIdToSlot` names, below the window's end and without a
  tombstone (`AllHeld`); that no two points share a slot (`Owned`), so a delete of one
  marks no other; and that no tombstone waits on a slot still to be handed out
  (`TombstonesTaken`), so a new vertex is not born dead. `TasksInv` says that a pending
  delete is of a point that is not wanted and is flushed before the next event. The
  tombstones need not stay: clearing them after a merge can only make more points
  visible (section 4), never fewer.

### 5.2 `ListLemmas`, `RobustPruneProofs`, `GreedyWalkProofs`

`tlapm` cannot instantiate the library's induction over a predicate, so `ListLemmas`
proves induction over an interval with a *set* in place of the predicate, from the
well-foundedness of `<` on `Nat`, and gets from it that a function defined step by
step exists (`StepByStep`). With these, what a recursion over data returns can be
proved after all. `SortedList` says what the sort by places returns.

`PrunedIsAlphaRNG` states the prune by what it must achieve, for candidates of any
kind: at most `R` of them, nearest first, none covered by a nearer survivor, and
one that was dropped is covered, or there was no room.

`GreedyWalkProofs` shows that placing entries by `lowerBound` and neighbours by
`upperBound` fills every place of the merged list once, ascending, with equal
distances too (`MergePlaces`), that the cut drops only what is no nearer
(`MergeLosesTheFarthest`), that a merge after which nothing is left to visit took
nothing in (`NothingNewMerged`), and that a walk is a run of rounds
that stays within the vertices reachable from its start, with an ascending list in
each (`WalkRuns`, `WalkStays`).

### 5.3 `ReverseEdgesProofs`

| theorem | statement |
|---|---|
| `LocksExclude` | `Spec => []MutualExclusion` |
| `BytesFollowHolders` | `Spec => []BytesTellHolders` |
| `KernelTyped` | `Spec => []TypeOK` |
| `FreeListsSound` | `Spec => []ListsSound` |
| `KernelLinksOneByOne` | `Spec => LinksOneByOne` |

For any vertices, blocks and bytes per word; `DistAssumption` asks for distances in
`Nat` that are zero from a vertex to itself. The locks: **`LockInv`** is both
properties, the types, and `ReadAsFree` - a block that is about to take a lock read
its byte as free. A successful swap found the whole word as it was read, so it
changes the block's own byte only (`OwnByte`); with `ReadAsFree` the lock it takes
has no holder. The lemmas are about `LockClient`, any client that locks one vertex
at a time, and `KernelUsesLocks` shows that the kernel is one.

The lists: **`KernelInv`** says where a block holds its lock (`PlaceTellsLock`) and has two
layers. One holds whatever the warps do: every counted entry, locked or not, is another
vertex (`ListsNamed`), and what a block that has come to each of its places keeps for itself
and may still write (`Midway`) - a late warp's entries lie below the length of a list
that its block chose, and are other vertices. The other holds at a vertex that no
block came apart at: its list repeats nobody unless it is being rewritten (`ListsOnce`), and
what the block that holds it has left half done is exactly known (`Clean`), for instance
that at `rewrite` the entries written so far are those of the prune of the old list and
the source. A late write touches only the list of a vertex that some block has come
apart at (`WritesLate`), so it leaves the second layer of every other vertex alone.

The refinement of `BackEdges` maps a list that is being rewritten to the old entries and any
other list to its counted part (`Committed`), so a pair is linked with the last step its
block takes on the list, whichever way it took. A vertex leaves the abstract graph when a
block comes apart at it (`ComeApart`), which only a block that prunes a full list can do.

### 5.4 `AlphaRngProofs`

| theorem | statement |
|---|---|
| `BlockTyped` | `Spec => []TypeOK` |
| `TogetherIsAlphaRNG` | `Spec => []SelectedIfTogether` |
| `DriftStartsAtTheFirst` | `Spec => ApartAtTheFirstOnly` |
| `DriftKeepsOrder` | `Spec => []ListInOrder` |

For any number of warps, candidates and places, and any distances in `Nat` that
are the sum of the warps' parts (`PartAssumption`). **`TypeInv`** holds even when the
warps have drifted apart: that the survivors fit is a matter of warp 0 alone, which
finds room before it proposes a candidate and adds one survivor per candidate.
**`Together`** holds until a barrier releases warps from different places: all warps
are between the same two barriers, with the same loop counters. There are nine such
places (`AtOnePlace`), from `AtStart` to `AtWrite`, and each says what the shared
variables hold before and after warp 0 has written them: which candidate is under
test, how many survivors are tested (`CoveredBefore`), whose distance the partial sums add up
to, and that the survivors are those of the recursive alpha-RNG so far (`Holding`).
One lemma per place shows that a warp's step stays there (`LoopStep`, ...), one that
the next barrier leads to the next place (`LoopReleased`, ...). `AtFirst` is the only
place where warps can be at two barriers at once: a warp that reads the count after
warp 0 has selected the first candidate enters the inner loop, the others do not.

What remains true from there on is `DriftKeepsOrder`: the list that is written is
still an ascending choice of distinct candidates that starts with the nearest. It
rests on no warp writing its entries before warp 0 has selected the last survivor, and
that on none getting ahead of warp 0, which only an invariant of the loop counters
shows (**`DriftInv`**). It speaks of warp 0 and one other warp at a time, because no
warp but 0 moves the verdict or the survivors and a barrier opens for both or for
none. `Counters` and `Chosen` say what warp 0 does on its own, whatever the others do:
the survivors are candidates before its own, in their order. `Beside` lists, for the
barrier warp 0 has left last, the barriers the other one can have left, with how many
tests and candidates it can be behind: seven cases for the same interval (`Starting`,
`Turn`, `FirstSelected`, `Read`, `Tested`, `Decided`, `Over`), ten for an earlier one
(`StillTesting`, `DecidesLate`, ..., `ReadsLate`). The tests of a candidate that the late
warp has left are counted against those of warp 0 (`Behind`), which is what keeps it
from running out of tests, and so of barriers, first. A lemma for a step of the other
warp, one for a step of warp 0 and one for a barrier show where each case leads
(`OtherKeepsBehind`, `LeaderKeepsBehind`, `BarrierKeepsBehind`). `TLC` checked
`DriftInv` for three warps first.

### 5.5 `GreedySearchProofs`

| theorem | statement |
|---|---|
| `SearchTyped` | `Spec => []TypeOK` |
| `ListsInOrder` | `Spec => []ListInOrder` |
| `NearestKept` | `Spec => []KeepsTheNearest` |
| `StaleMergesHarmless` | `Spec => []StaleMergeIsHarmless` |
| `ClosedAtTheEnd` | `Spec => []ClosedWhenDone` |
| `BatchIsAsIfAlone` | `Spec => []AsIfAlone` |

For any graph, tombstones, filter bits, batch, list length and check interval.
**`SearchInv`** says for each query what its block keeps (`BlockInv`), in two phases,
before and after its merge of the round: the list is ascending and names of what was
let in each vertex once, except the start, which may stand twice; a vertex let in
that is not in the list has `searchL` entries that are no farther (`Kept`); after the
merge, with no parent left, merging the last neighbours again would change nothing
(`Settled`), and before it, the list accounts for all but the neighbours just
filtered (`Pending`). `FlagInv` says what a flag left at zero promises at each
place of the host loop: every block merged since the flag was cleared has nothing
left to expand. **`LockstepInv`** ties each block, round by round, to the run of the
one-query `Walk`; that a query has "one course" - no shared bits, no ties - is the
hypothesis of `AsIfAlone` itself.

### 5.6 `InPlaceIndexProofs`

| theorem | statement |
|---|---|
| `ScratchTypes` | `ScratchSpec => []ScratchTypeOK` |
| `PlacesHold` | `ScratchSpec => []PlacesWritten` |
| `ListHolds` | `ScratchSpec => []ListedOnce` |
| `OneKindHolds` | `Spec => []OneKindPending` |
| `EntryPointHolds` | `Spec => []EntryPointLive` |
| `SlotsSuffice` | `Spec => [](numPoints <= Capacity)` |
| `IndexIsAStore` | `Spec => StoreSpec` |
| `IndexTyped` | `Spec => []TypeOK` |
| `GraphSound` | `Spec => []ListsSound` |
| `AnswersHold` | `Spec => []AnswersStand` |
| `KernelsUseScratch` | `Spec => [](PlacesWritten /\ ListedOnce)` |

The assumptions say what the code relies on: a thread for every run of a batch
(`ThreadAssumption`), distances in `Nat` that are zero from a slot to itself
(`SearchAssumption`), and a base graph whose lists are sound (`BaseAssumption`).

* **`ScratchInv`** is about `ScratchSpec`: any kernels one after another, each with any
  runs for its threads, and any prune after them. A count is moved up by a whole run
  and down by what did not fit, by threads in any order, so between steps it counts
  too much. `PlacesInv` says by how much: the count of a vertex exceeds `P` by exactly
  what the threads that are filling will give back (`Owed`), if they owe anything;
  granted places lie apart and below the count, and a place is written exactly if it
  lies below the count and no thread is still to fill it. `ListInv`: the list names
  exactly the marked vertices, each once, and a vertex with a count is marked or
  about to be.
* **`HostInv`** is true inside an event: a batch under way is at the head of `todo`
  and every pending batch but that of the event's own kind has its flush in `todo`
  (`PendingInv`), the slots in use fit (`InUse`), the device is ahead of the host's
  mirror by exactly the batch being deleted (`Mirrored`), and the entry point is
  live by the mirror at every step (`EntryKept`).
* **`StoreInv`** adds the maps: a point maps to its last slot and back, although a
  mapping is never removed (`MapsAgree`), and what is pending is what was asked for
  (`RequestsKept`). Only an index without a free slot drops a request, so `due` is
  compared with the pending inserts while there is room.
* **`GraphInv`**: at every step, kernels under way included, every list names at most
  `R` other slots in use, each once, and so do the runs the threads have yet to
  append. It rests on `PrunedIsAlphaRNG` and on the walk naming slots only, and it
  makes the kernels clients of the scratch (`KernelsUseScratch`), whose theorems
  then hold in the index.
* **`AnswersInv`**: an answer's slot is in use and its point is that of the slot; it is
  a tombstone only if the index was empty once (`emptied`).

### 5.7 Checked only

* The `Termination` properties of the executor, the kernel and the in-place index:
  liveness under fairness is out of the prover's reach.

## 6. Not modelled

Drivers, loaders and scripts are input and output. The vectors themselves are
distances. The locked, versioned and fused variants of the greedy search: `src/fda`
inserts with the locked one, whose lists change under it; the versioned and fused
ones have no caller. The adjacency lists of a whole merge and the top-k over
several indexes are planned below. `markDeleted`, the in-place Phase B and the
rebuild helpers have no caller. `src/freshbang` and `src/nvidia-cuvs` hold no
logic of this project, and make up nearly all of the source lines.

## 7. Plan

Done: `UnifiedIndex`, `FdaExecutor`, `VectorStore`; `NodeLocks`, `RobustPrune`,
`ReverseEdges`, `BackEdges`; `AlphaRng`; `GreedyWalk`, `GreedySearch`; `AppendScratch`,
`InPlaceIndex`; and the proofs of all of these.

Next, in this order:

1. **Adjacency in a merge** (`fda_merge.cu`): the lists Phase A writes for all
   vertices, the copied RW lists; no edge to a vertex that is gone.
2. **Locked walk** (`filterNeighborsLocked`): a walk of an insert in `src/fda` while
   back edges of the merge stream change the lists.
3. **Executor**: a run with delete batches larger than one (a delete applied after
   the point is inserted again), and the top-k over several indexes.
