----------------------------- MODULE FdaExecutor -----------------------------
(***************************************************************************)
(* The executor of the out-of-place FreshDiskANN                           *)
(* (src/fda/src/fda_executor.{h,cu}): the main thread turns workload       *)
(* events into batched inserts, deletes and searches under                 *)
(* globalIndexLock, and merges the sealed Temps into a new LTI, in a       *)
(* background thread (triggerMergeAsync) or, in eager mode, by itself.     *)
(* The merge reads the index WITHOUT the lock and takes it only to swap.   *)
(***************************************************************************)
EXTENDS UnifiedIndex, Sequences

CONSTANTS
  InsertBatch, DeleteBatch, QueryBatch,     \* flush thresholds
  SkipMerge,                                \* FDA_SKIP_MERGE is set
  EagerMerge,                               \* eagerMergeOnTransition
  IdsUsedOnce,                              \* no pid is inserted twice, nor deleted unseen
  MaxInserts, MaxDeletes, MaxQueries        \* bounds of the workload

ASSUME BatchAssumption ==
  /\ {InsertBatch, DeleteBatch, QueryBatch} \subseteq Nat \ {0}
  /\ {MaxInserts, MaxDeletes, MaxQueries} \subseteq Nat
ASSUME ModeAssumption == {SkipMerge, EagerMerge, IdsUsedOnce} \subseteq BOOLEAN

VARIABLES
  mainPc,            \* where the main thread is
  afterMerge,        \* who called triggerMergeAsync
  todo,              \* flushes the current event still asks for
  globalIndexLock,   \* the main thread holds the mutex
  pendingInsertIds, pendingDeleteIds, pendingQueries,
  offset,            \* inserts of the batch already in the index
  pointIdToSlot, slotToPointId,
  deferredRecall,    \* <<slot, pid it held>> of every answer so far
  runtimeMedoid,     \* g_runtimeMedoid, one device global for both streams
  numInserts, numDeletes, numQueries,
  want,              \* the pids live after the events so far (history)
  mergePc,           \* where each merge is; "none": no such thread
  newLtiCount, savedRwBase, savedRwCount, savedRwMedoid, newGraph, oldGraph,
  tornRead,          \* a merge has read the index in the midst of a seal (history)
  tornCounts         \* merges that read the count of a window being sealed (history)

mainVars == <<mainPc, afterMerge, todo, globalIndexLock, offset>>
pendVars == <<pendingInsertIds, pendingDeleteIds, pendingQueries>>
mapVars  == <<pointIdToSlot, slotToPointId>>
loadVars == <<numInserts, numDeletes, numQueries, want>>
snapVars == <<newLtiCount, savedRwBase, savedRwCount, savedRwMedoid, newGraph, oldGraph,
              tornRead, tornCounts>>
vars == <<idxVars, bufVars, delVars, mainVars, pendVars, mapVars, deferredRecall,
          runtimeMedoid, loadVars, mergePc, snapVars>>

Mergers == {"background", "main"}

ExecutorInit ==
  /\ mainPc = "loop" /\ afterMerge = "insert" /\ todo = <<>>
  /\ globalIndexLock = FALSE /\ offset = 0
  /\ pendingInsertIds = <<>> /\ pendingDeleteIds = <<>> /\ pendingQueries = 0
  /\ pointIdToSlot = [p \in Pids |-> IF p \in 0 .. L - 1 THEN p ELSE NoSlot]
  /\ slotToPointId = [s \in Slots |-> IF s < L THEN s ELSE NoPid]
  /\ deferredRecall = {}
  /\ runtimeMedoid = LtiMedoid
  /\ numInserts = 0 /\ numDeletes = 0 /\ numQueries = 0
  /\ want = 0 .. L - 1
  /\ mergePc = [a \in Mergers |-> "none"]
  /\ newLtiCount = [a \in Mergers |-> 0]
  /\ savedRwBase = [a \in Mergers |-> 0]
  /\ savedRwCount = [a \in Mergers |-> 0]
  /\ savedRwMedoid = [a \in Mergers |-> NoSlot]
  /\ newGraph = [a \in Mergers |-> cur]
  /\ oldGraph = [a \in Mergers |-> cur]
  /\ tornRead = FALSE /\ tornCounts = 0

Init == IndexInit /\ ExecutorInit

-----------------------------------------------------------------------------
(* Workload events.  The event appends to a pending batch, which only the  *)
(* main thread sees, and leaves in `todo` the flushes its handler makes.   *)

InsertDue == IF pendingInsertIds # <<>> THEN <<"insert">> ELSE <<>>
DeleteDue == IF pendingDeleteIds # <<>> THEN <<"delete">> ELSE <<>>
SearchDue == IF pendingQueries > 0 THEN <<"search">> ELSE <<>>

Idle == mainPc = "loop" /\ todo = <<>>

Seen(p) == \/ pointIdToSlot[p] # NoSlot
           \/ \E i \in 1 .. Len(pendingInsertIds) : pendingInsertIds[i] = p

(* The workload inserts a pid that is absent: the next fresh one, or one   *)
(* that was deleted before.                                                *)
Insertable(p) ==
  /\ p \in Pids \ want
  /\ \A q \in Pids : q < p => Seen(q)
  /\ IdsUsedOnce => ~Seen(p)

EventInsert(p) ==
  /\ Idle /\ numInserts < MaxInserts /\ Insertable(p)
  /\ pendingInsertIds' = Append(pendingInsertIds, p)
  /\ todo' = SearchDue \o
             (IF Len(pendingInsertIds) + 1 >= InsertBatch THEN <<"insert">> ELSE <<>>)
  /\ numInserts' = numInserts + 1
  /\ want' = want \cup {p}
  /\ UNCHANGED <<idxVars, bufVars, delVars, mainPc, afterMerge, globalIndexLock, offset,
                 pendingDeleteIds, pendingQueries, mapVars, deferredRecall,
                 runtimeMedoid, numDeletes, numQueries, mergePc, snapVars>>

EventDelete(p) ==
  /\ Idle /\ numDeletes < MaxDeletes
  /\ IdsUsedOnce => Seen(p)
  /\ pendingDeleteIds' = Append(pendingDeleteIds, p)
  /\ todo' = InsertDue \o SearchDue \o
             (IF Len(pendingDeleteIds) + 1 >= DeleteBatch THEN <<"delete">> ELSE <<>>)
  /\ numDeletes' = numDeletes + 1
  /\ want' = want \ {p}
  /\ UNCHANGED <<idxVars, bufVars, delVars, mainPc, afterMerge, globalIndexLock, offset,
                 pendingInsertIds, pendingQueries, mapVars, deferredRecall,
                 runtimeMedoid, numInserts, numQueries, mergePc, snapVars>>

EventQuery ==
  /\ Idle /\ numQueries < MaxQueries
  /\ pendingQueries' = pendingQueries + 1
  /\ todo' = InsertDue \o DeleteDue \o
             (IF EagerMerge THEN <<"eager">> ELSE <<>>) \o
             (IF pendingQueries + 1 >= QueryBatch THEN <<"search">> ELSE <<>>)
  /\ numQueries' = numQueries + 1
  /\ UNCHANGED <<idxVars, bufVars, delVars, mainPc, afterMerge, globalIndexLock, offset,
                 pendingInsertIds, pendingDeleteIds, mapVars, deferredRecall,
                 runtimeMedoid, numInserts, numDeletes, want, mergePc, snapVars>>

(* The workload may end after any event: the final flushes and the join.   *)
EventsOver ==
  /\ Idle
  /\ todo' = InsertDue \o DeleteDue \o SearchDue \o <<"finish">>
  /\ UNCHANGED <<idxVars, bufVars, delVars, mainPc, afterMerge, globalIndexLock, offset,
                 pendVars, mapVars, deferredRecall, runtimeMedoid, loadVars, mergePc,
                 snapVars>>

NextTask(t) == mainPc = "loop" /\ todo # <<>> /\ Head(todo) = t

Finish ==
  /\ NextTask("finish") /\ mergePc["background"] \in {"none", "exited"}
  /\ mergePc' = [mergePc EXCEPT !["background"] = "none"]
  /\ mainPc' = "done" /\ todo' = <<>>
  /\ UNCHANGED <<idxVars, bufVars, delVars, afterMerge, globalIndexLock, offset, pendVars,
                 mapVars, deferredRecall, runtimeMedoid, loadVars, snapVars>>

-----------------------------------------------------------------------------
(* flushInsertBatch, under globalIndexLock throughout.                     *)

Remaining == Len(pendingInsertIds) - offset

MinOf(S) == CHOOSE x \in S : \A y \in S : x <= y

Room == MinOf({Remaining, InsertBatch, T - rwCount})
FirstSlot == rwBase + rwCount
ChunkSlots == FirstSlot .. FirstSlot + Room - 1
ChunkPid(s) == pendingInsertIds[offset + 1 + (s - FirstSlot)]

BeginInsert ==
  /\ NextTask("insert") /\ ~globalIndexLock
  /\ globalIndexLock' = TRUE /\ mainPc' = "insert"
  /\ UNCHANGED <<idxVars, bufVars, delVars, afterMerge, todo, offset, pendVars, mapVars,
                 deferredRecall, runtimeMedoid, loadVars, mergePc, snapVars>>

SlotMapAfterChunk_FirstOwnerStays ==   \* mutant
  [s \in Slots |-> IF s \in ChunkSlots /\ slotToPointId[s] = NoPid THEN ChunkPid(s)
                   ELSE slotToPointId[s]]
SlotMapAfterChunk ==
  [s \in Slots |-> IF s \in ChunkSlots THEN ChunkPid(s) ELSE slotToPointId[s]]

InsertStart_NeverElected == rwMedoid   \* mutant
InsertStart == IF rwMedoid = NoSlot THEN FirstSlot ELSE rwMedoid

(* Both maps and the RW medoid, before any vertex is written.  A slot past *)
(* the allocation is undefined behaviour: the run ends there.              *)
AssignSlots ==
  /\ mainPc = "insert" /\ Remaining > 0 /\ Room > 0
  /\ IF FirstSlot + Room > Capacity
     THEN /\ mainPc' = "overrun"
          /\ UNCHANGED <<mapVars, rwMedoid, runtimeMedoid>>
     ELSE /\ mainPc' = "kernel"
          /\ slotToPointId' = SlotMapAfterChunk
          /\ pointIdToSlot' =
               [p \in Pids |-> IF \E s \in ChunkSlots : ChunkPid(s) = p
                               THEN CHOOSE s \in ChunkSlots : ChunkPid(s) = p
                               ELSE pointIdToSlot[p]]
          /\ rwMedoid' = InsertStart
          /\ runtimeMedoid' = InsertStart
  /\ UNCHANGED <<ltiCount, numActiveTemps, rwBase, rwCount, tempMedoids, bufVars, delVars,
                 afterMerge, todo, globalIndexLock, offset, pendVars, deferredRecall,
                 loadVars, mergePc, snapVars>>

RwFull_OneEarly(count) == count >= T - 1   \* mutant
RwFull(count) == count >= T

(* insertBatchUnified writes the vertices and links them to each other;    *)
(* no other slot's vector changes.                                         *)
GraphAfterChunk ==
  [s \in Slots |-> IF s \in ChunkSlots THEN ChunkPid(s) ELSE graph[cur][s]]

(* The kernels, then rwCount: counted vertices are written before a merge  *)
(* that read the count copies them, since its cudaMemset waits for what    *)
(* opStream was given before.                                              *)
InsertChunk ==
  /\ mainPc = "kernel"
  /\ graph' = [graph EXCEPT ![cur] = GraphAfterChunk]
  /\ offset' = offset + Room
  /\ rwCount' = rwCount + Room
  /\ mainPc' = IF RwFull(rwCount + Room) THEN "seal" ELSE "insert"
  /\ UNCHANGED <<ltiCount, numActiveTemps, rwBase, rwMedoid, tempMedoids, cur, allocated,
                 delVars, afterMerge, todo, globalIndexLock, pendVars, mapVars,
                 deferredRecall, runtimeMedoid, loadVars, mergePc, snapVars>>

sealUnchanged == <<bufVars, delVars, todo, globalIndexLock, offset, pendVars, mapVars,
                   deferredRecall, runtimeMedoid, loadVars, mergePc, snapVars>>

MainStep(from, to) == mainPc = from /\ mainPc' = to

(* room == 0: the window was full already when the loop came round.        *)
WindowIsFull ==
  /\ Remaining > 0 /\ Room = 0
  /\ MainStep("insert", "seal")
  /\ UNCHANGED <<idxVars, afterMerge, sealUnchanged>>

(* A full layout refuses the seal; the caller does not look, and triggers. *)
SealRefused ==
  /\ LayoutFull
  /\ MainStep("seal", IF numActiveTemps >= M THEN "trigger" ELSE "insert")
  /\ afterMerge' = "insert"
  /\ UNCHANGED <<idxVars, sealUnchanged>>

(* The seal, with the lock held; but mergeNow reads without it.            *)
BeginSeal ==
  /\ ~LayoutFull /\ SealTemp
  /\ MainStep("seal", "sealBase")
  /\ UNCHANGED <<afterMerge, sealUnchanged>>

MoveBase ==
  /\ SealBase
  /\ MainStep("sealBase", "sealCount")
  /\ UNCHANGED <<afterMerge, sealUnchanged>>

ResetCount ==
  /\ SealCount
  /\ MainStep("sealCount", "sealMedoid")
  /\ UNCHANGED <<afterMerge, sealUnchanged>>

ResetMedoid ==
  /\ SealMedoid
  /\ MainStep("sealMedoid", IF numActiveTemps >= M THEN "trigger" ELSE "insert")
  /\ afterMerge' = "insert"
  /\ UNCHANGED sealUnchanged

EndInsert ==
  /\ mainPc = "insert" /\ Remaining <= 0
  /\ pendingInsertIds' = <<>> /\ offset' = 0
  /\ globalIndexLock' = FALSE /\ mainPc' = "loop" /\ todo' = Tail(todo)
  /\ UNCHANGED <<idxVars, bufVars, delVars, afterMerge, pendingDeleteIds, pendingQueries,
                 mapVars, deferredRecall, runtimeMedoid, loadVars, mergePc, snapVars>>

-----------------------------------------------------------------------------
(* flushDeleteBatch: translate, mark, then look at the merge thresholds.   *)

KnownDeletes == {i \in 1 .. Len(pendingDeleteIds) : pointIdToSlot[pendingDeleteIds[i]] # NoSlot}

MergeNeeded(count) ==
  \/ ltiCount + numActiveTemps * T + rwCount + count >= L + M * T + DeleteCap
  \/ numActiveTemps >= M
  \/ count >= DeleteCap

FlushDelete ==
  /\ NextTask("delete") /\ ~globalIndexLock
  /\ pendingDeleteIds' = <<>>
  /\ BatchMarkDeleted({pointIdToSlot[pendingDeleteIds[i]] : i \in KnownDeletes},
                      Cardinality(KnownDeletes))
  /\ IF KnownDeletes # {} /\ MergeNeeded(delCount')
     THEN /\ globalIndexLock' = TRUE /\ mainPc' = "trigger" /\ afterMerge' = "delete"
          /\ UNCHANGED todo
     ELSE /\ todo' = Tail(todo)
          /\ UNCHANGED <<globalIndexLock, mainPc, afterMerge>>
  /\ UNCHANGED <<idxVars, bufVars, offset, pendingInsertIds, pendingQueries, mapVars,
                 deferredRecall, runtimeMedoid, loadVars, mergePc, snapVars>>

(* launchSearchBatch; searchUnified leaves the LTI's medoid in the global. *)
LaunchSearch ==
  /\ NextTask("search") /\ ~globalIndexLock
  /\ deferredRecall' = deferredRecall \cup {<<s, graph[cur][s]>> : s \in Answer}
  /\ runtimeMedoid' = LtiMedoid
  /\ pendingQueries' = 0
  /\ todo' = Tail(todo)
  /\ UNCHANGED <<idxVars, bufVars, delVars, mainPc, afterMerge, globalIndexLock, offset,
                 pendingInsertIds, pendingDeleteIds, mapVars, loadVars, mergePc, snapVars>>

(* computeAllRecall, when the run is over, takes an answer's slot for the  *)
(* pid the map holds by then.                                              *)
RecallPid(slot) == slotToPointId[slot]

-----------------------------------------------------------------------------
(* triggerMergeAsync, called with the lock held.                           *)

Resume ==
  \/ /\ afterMerge = "insert"
     /\ mainPc' = "insert" /\ globalIndexLock' = TRUE
     /\ UNCHANGED todo
  \/ /\ afterMerge = "delete"
     /\ mainPc' = "loop" /\ globalIndexLock' = FALSE /\ todo' = Tail(todo)

Spawn == mergePc' = [mergePc EXCEPT !["background"] = "start"]

TriggerSkipped ==
  /\ mainPc = "trigger" /\ SkipMerge
  /\ Resume
  /\ UNCHANGED <<idxVars, bufVars, delVars, afterMerge, offset, pendVars, mapVars,
                 deferredRecall, runtimeMedoid, loadVars, mergePc, snapVars>>

Joinable_OnlyIfExited == mergePc["background"] = "exited"   \* mutant
Joinable == mergePc["background"] # "none"

TriggerSpawn ==
  /\ mainPc = "trigger" /\ ~SkipMerge /\ ~Joinable
  /\ Spawn /\ Resume
  /\ UNCHANGED <<idxVars, bufVars, delVars, afterMerge, offset, pendVars, mapVars,
                 deferredRecall, runtimeMedoid, loadVars, snapVars>>

LockDuringJoin_Kept == TRUE   \* mutant
LockDuringJoin == FALSE

(* A joinable thread: release the lock, so that its swap can go through,   *)
(* join it, lock again and start the next merge.                           *)
TriggerWait ==
  /\ mainPc = "trigger" /\ ~SkipMerge /\ Joinable
  /\ globalIndexLock' = LockDuringJoin /\ mainPc' = "join"
  /\ UNCHANGED <<idxVars, bufVars, delVars, afterMerge, todo, offset, pendVars, mapVars,
                 deferredRecall, runtimeMedoid, loadVars, mergePc, snapVars>>

TriggerJoined ==
  /\ mainPc = "join" /\ mergePc["background"] = "exited"
  /\ Spawn /\ Resume
  /\ UNCHANGED <<idxVars, bufVars, delVars, afterMerge, offset, pendVars, mapVars,
                 deferredRecall, runtimeMedoid, loadVars, snapVars>>

(* Eager mode: the main thread runs the merge itself, lock free, and does  *)
(* not look at the background one.                                         *)
BeginEagerMerge ==
  /\ NextTask("eager")
  /\ IF numActiveTemps > 0 \/ rwCount > 0
     THEN /\ mergePc' = [mergePc EXCEPT !["main"] = "start"]
          /\ mainPc' = "merge"
          /\ UNCHANGED todo
     ELSE /\ todo' = Tail(todo)
          /\ UNCHANGED <<mainPc, mergePc>>
  /\ UNCHANGED <<idxVars, bufVars, delVars, afterMerge, globalIndexLock, offset, pendVars,
                 mapVars, deferredRecall, runtimeMedoid, loadVars, snapVars>>

EndEagerMerge ==
  /\ mainPc = "merge" /\ mergePc["main"] = "exited"
  /\ mergePc' = [mergePc EXCEPT !["main"] = "none"]
  /\ mainPc' = "loop" /\ todo' = Tail(todo)
  /\ UNCHANGED <<idxVars, bufVars, delVars, afterMerge, globalIndexLock, offset, pendVars,
                 mapVars, deferredRecall, runtimeMedoid, loadVars, snapVars>>

-----------------------------------------------------------------------------
(* mergeNow.  Every read of the index up to the swap is made without the   *)
(* lock, one after the other.                                              *)

mainUnchanged == <<mainVars, pendVars, mapVars, deferredRecall, loadVars>>

Step(a, from, to) ==
  /\ mergePc[a] = from
  /\ mergePc' = [mergePc EXCEPT ![a] = to]

MidSeal == mainPc \in {"sealBase", "sealCount", "sealMedoid"}
NoteTorn == tornRead' = (tornRead \/ MidSeal)

(* The window is counted as a Temp already and not yet emptied.            *)
CountedTwice == mainPc \in {"sealBase", "sealCount"}

MergedSlots == numActiveTemps * T

SnapshotCounts(a) ==
  /\ Step(a, "start", "base")
  /\ newLtiCount' = [newLtiCount EXCEPT ![a] = ltiCount + MergedSlots]
  /\ NoteTorn
  /\ UNCHANGED <<idxVars, bufVars, delVars, mainUnchanged, runtimeMedoid, savedRwBase,
                 savedRwCount, savedRwMedoid, newGraph, oldGraph, tornCounts>>

SnapshotRwBase(a) ==
  /\ Step(a, "base", "count")
  /\ savedRwBase' = [savedRwBase EXCEPT ![a] = rwBase]
  /\ NoteTorn
  /\ UNCHANGED <<idxVars, bufVars, delVars, mainUnchanged, runtimeMedoid, newLtiCount,
                 savedRwCount, savedRwMedoid, newGraph, oldGraph, tornCounts>>

SnapshotRwCount(a) ==
  /\ Step(a, "count", "medoid")
  /\ savedRwCount' = [savedRwCount EXCEPT ![a] = rwCount]
  /\ NoteTorn
  /\ tornCounts' = tornCounts + (IF CountedTwice THEN 1 ELSE 0)
  /\ UNCHANGED <<idxVars, bufVars, delVars, mainUnchanged, runtimeMedoid, newLtiCount,
                 savedRwBase, savedRwMedoid, newGraph, oldGraph>>

(* The last saved field, and the zeroed buffer the merge builds in.        *)
SnapshotRwMedoid(a) ==
  /\ Step(a, "medoid", "phaseA")
  /\ savedRwMedoid' = [savedRwMedoid EXCEPT ![a] = rwMedoid]
  /\ NoteTorn
  /\ allocated # Buffers
  /\ LET b == FreeBuffer(allocated)
     IN /\ allocated' = allocated \cup {b}
        /\ graph' = [graph EXCEPT ![b] = Zeroed]
        /\ newGraph' = [newGraph EXCEPT ![a] = b]
  /\ UNCHANGED <<idxVars, cur, delVars, mainUnchanged, runtimeMedoid, newLtiCount,
                 savedRwBase, savedRwCount, oldGraph, tornCounts>>

PhaseAEnd_OneShort == ltiCount - 1   \* mutant
PhaseAEnd == rwBase

(* Phase A copies [0, rwBase) without the vertices whose bit is set.       *)
PhaseA(a) ==
  /\ Step(a, "phaseA", "gather")
  /\ graph' = [graph EXCEPT ![newGraph[a]] =
       [s \in Slots |-> IF s < PhaseAEnd /\ s \notin delBits THEN graph[cur][s]
                        ELSE graph[newGraph[a]][s]]]
  /\ UNCHANGED <<idxVars, cur, allocated, delVars, mainUnchanged, runtimeMedoid, snapVars>>

(* Phase B writes the live vertices of the sealed Temps again ...          *)
TempSlots == ltiCount .. ltiCount + numActiveTemps * T - 1

PhaseBGather(a) ==
  /\ Step(a, "gather", IF numActiveTemps > 0 THEN "link" ELSE "copy")
  /\ runtimeMedoid' = IF numActiveTemps > 0 THEN LtiMedoid ELSE runtimeMedoid
  /\ graph' = [graph EXCEPT ![newGraph[a]] =
       [s \in Slots |-> IF s \in TempSlots /\ (delCount > 0 => s \notin delBits)
                        THEN graph[cur][s] ELSE graph[newGraph[a]][s]]]
  /\ UNCHANGED <<idxVars, cur, allocated, delVars, mainUnchanged, snapVars>>

(* ... and searches the new graph for their neighbours from runtimeMedoid. *)
PhaseBLink(a) ==
  /\ Step(a, "link", "copy")
  /\ UNCHANGED <<idxVars, bufVars, delVars, mainUnchanged, runtimeMedoid, snapVars>>

SavedWindow_LastMissing(a) == savedRwBase[a] .. savedRwBase[a] + savedRwCount[a] - 2   \* mutant
SavedWindow(a) == savedRwBase[a] .. savedRwBase[a] + savedRwCount[a] - 1

CopyRW(a) ==
  /\ Step(a, "copy", "swap")
  /\ graph' = [graph EXCEPT ![newGraph[a]] =
       [s \in Slots |-> IF s \in SavedWindow(a) THEN graph[cur][s] ELSE graph[newGraph[a]][s]]]
  /\ UNCHANGED <<idxVars, cur, allocated, delVars, mainUnchanged, runtimeMedoid, snapVars>>

Swap(a) ==
  /\ ~globalIndexLock
  /\ Step(a, "swap", "clear")
  /\ oldGraph' = [oldGraph EXCEPT ![a] = cur]
  /\ cur' = newGraph[a]
  /\ ltiCount' = newLtiCount[a]
  /\ numActiveTemps' = 0
  /\ rwBase' = newLtiCount[a]
  /\ rwCount' = savedRwCount[a]
  /\ rwMedoid' = savedRwMedoid[a]
  /\ tempMedoids' = [i \in 0 .. M - 1 |-> NoSlot]
  /\ UNCHANGED <<graph, allocated, delVars, mainUnchanged, runtimeMedoid, newLtiCount,
                 savedRwBase, savedRwCount, savedRwMedoid, newGraph, tornRead, tornCounts>>

(* clearDeleteList, after the lock is released: the bits are zeroed by the *)
(* device, the count by the host, in either order.                         *)
ClearBits(a) ==
  /\ \/ Step(a, "clear", "clearCount")
     \/ Step(a, "clearBits", "free")
  /\ delBits' = {}
  /\ UNCHANGED <<idxVars, bufVars, delCount, mainUnchanged, runtimeMedoid, snapVars>>

ClearCount(a) ==
  /\ \/ Step(a, "clear", "clearBits")
     \/ Step(a, "clearCount", "free")
  /\ delCount' = 0
  /\ UNCHANGED <<idxVars, bufVars, delBits, mainUnchanged, runtimeMedoid, snapVars>>

BufferToFree_TheNewOne(a) == newGraph[a]   \* mutant
BufferToFree(a) == oldGraph[a]

FreeOld(a) ==
  /\ Step(a, "free", "exited")
  /\ allocated' = allocated \ {BufferToFree(a)}
  /\ graph' = [graph EXCEPT ![BufferToFree(a)] = Zeroed]
  /\ newLtiCount' = [newLtiCount EXCEPT ![a] = 0]
  /\ savedRwBase' = [savedRwBase EXCEPT ![a] = 0]
  /\ savedRwCount' = [savedRwCount EXCEPT ![a] = 0]
  /\ savedRwMedoid' = [savedRwMedoid EXCEPT ![a] = NoSlot]
  /\ UNCHANGED <<idxVars, cur, delVars, mainUnchanged, runtimeMedoid, newGraph, oldGraph, tornRead,
                 tornCounts>>

-----------------------------------------------------------------------------
Flush ==
  \/ BeginInsert \/ AssignSlots \/ InsertChunk \/ WindowIsFull
  \/ SealRefused \/ BeginSeal \/ MoveBase \/ ResetCount \/ ResetMedoid \/ EndInsert
  \/ FlushDelete \/ LaunchSearch

Trigger ==
  \/ TriggerSkipped \/ TriggerSpawn \/ TriggerWait \/ TriggerJoined
  \/ BeginEagerMerge \/ EndEagerMerge

MainNext ==
  \/ \E p \in Pids : EventInsert(p) \/ EventDelete(p)
  \/ EventQuery \/ EventsOver \/ Finish
  \/ Flush \/ Trigger

MergeNext(a) ==
  \/ SnapshotCounts(a) \/ SnapshotRwBase(a) \/ SnapshotRwCount(a) \/ SnapshotRwMedoid(a)
  \/ PhaseA(a) \/ PhaseBGather(a) \/ PhaseBLink(a) \/ CopyRW(a) \/ Swap(a)
  \/ ClearBits(a) \/ ClearCount(a) \/ FreeOld(a)

(* The executor stops after its workload, or where it leaves its arrays.   *)
Stopped == mainPc \in {"done", "overrun"} /\ UNCHANGED vars

Next == MainNext \/ (\E a \in Mergers : MergeNext(a)) \/ Stopped

(* Both threads are ordinary host threads: each is scheduled again while   *)
(* it can move.                                                            *)
Fairness == WF_vars(MainNext) /\ \A a \in Mergers : WF_vars(MergeNext(a))

Spec == Init /\ [][Next]_vars /\ Fairness

-----------------------------------------------------------------------------
(* Properties.                                                             *)

MergePcs == {"none", "start", "base", "count", "medoid", "phaseA", "gather", "link",
             "copy", "swap", "clear", "clearBits", "clearCount", "free", "exited"}
Running(a) == mergePc[a] \notin {"none", "exited"}
Building(a) == mergePc[a] \in {"phaseA", "gather", "link", "copy", "swap"}
Published(a) == mergePc[a] \in {"clear", "clearBits", "clearCount", "free"}

IndexTypeOK ==
  /\ ltiCount \in Nat /\ numActiveTemps \in Nat /\ rwBase \in Nat /\ rwCount \in Nat
  /\ rwMedoid \in Nat \cup {NoSlot}
  /\ tempMedoids \in [0 .. M - 1 -> Nat \cup {NoSlot}]
GraphTypeOK ==
  /\ cur \in Buffers /\ allocated \subseteq Buffers
  /\ graph \in [Buffers -> [Slots -> Pids \cup {NoPid}]]
MapTypeOK ==
  /\ pointIdToSlot \in [Pids -> Slots \cup {NoSlot}]
  /\ slotToPointId \in [Slots -> Pids \cup {NoPid}]
  /\ deferredRecall \subseteq Slots \X Pids
  /\ delBits \subseteq Slots /\ delCount \in Nat /\ runtimeMedoid \in Nat
Tasks == {"insert", "delete", "search", "eager", "finish"}
MainTypeOK ==
  /\ mainPc \in {"loop", "insert", "kernel", "seal", "sealBase",
                "sealCount", "sealMedoid", "trigger", "join", "merge", "done", "overrun"}
  /\ afterMerge \in {"insert", "delete"}
  /\ todo \in Seq(Tasks)
  /\ globalIndexLock \in BOOLEAN
  /\ pendingInsertIds \in Seq(Pids) /\ pendingDeleteIds \in Seq(Pids)
  /\ offset \in Nat /\ pendingQueries \in Nat
  /\ numInserts \in Nat /\ numDeletes \in Nat /\ numQueries \in Nat
  /\ want \subseteq Pids
MergeTypeOK ==
  /\ mergePc \in [Mergers -> MergePcs]
  /\ newLtiCount \in [Mergers -> Nat] /\ savedRwBase \in [Mergers -> Nat]
  /\ savedRwCount \in [Mergers -> Nat]
  /\ savedRwMedoid \in [Mergers -> Nat \cup {NoSlot}]
  /\ newGraph \in [Mergers -> Buffers] /\ oldGraph \in [Mergers -> Buffers]
  /\ tornRead \in BOOLEAN /\ tornCounts \in Nat

(* Every variable holds a value of its type, in every state: no slot, pid  *)
(* or buffer address outside its range is ever stored.                     *)
TypeOK == IndexTypeOK /\ GraphTypeOK /\ MapTypeOK /\ MainTypeOK /\ MergeTypeOK

(* fda_index.h:37: the RW window starts right after the sealed Temps and   *)
(* never holds more than T vertices -- whatever a merge that read the      *)
(* fields without the lock puts back.                                      *)
IndexLayout ==
  /\ (IF mainPc = "sealBase" THEN SealedRwBase ELSE rwBase) = ltiCount + numActiveTemps * T
  /\ numActiveTemps <= M
  /\ rwCount <= T
  /\ L <= ltiCount

(* The end of the slots handed out; the count of a window that was sealed  *)
(* just now is about to be reset.                                          *)
WindowEnd == rwBase + (IF mainPc = "sealCount" THEN 0 ELSE rwCount)

(* fda_index.h:88, the capacity contract: a slot is handed out only for an *)
(* insert, by inserts, seals and merges in any order, but for the T slots  *)
(* that each merge can lose by reading the count of a window that is being *)
(* sealed.  An allocation with room for these is not overrun.              *)
SlotsAccounted == L + numInserts + tornCounts * T
WithinCapacity ==
  /\ WindowEnd <= SlotsAccounted
  /\ mainPc = "overrun" => SlotsAccounted > Capacity

(* fda_index.h:86: the capacity is the maximum slot count the index can    *)
(* ever reach.                                                             *)
NoOverrun == mainPc # "overrun"

(* A slot that a search may return translates to the point whose vector    *)
(* was found there, although merges take slots back and inserts reuse      *)
(* them.  A merge that reads in the midst of a seal can copy a slot that   *)
(* is being reused, before its new vector is there.                        *)
AnswersTranslate == ~tornRead => \A s \in Answer : slotToPointId[s] = graph[cur][s]

(* The live buffer is never freed, and a merge builds in a buffer of its   *)
(* own; at most two exist.                                                 *)
LiveBufferKept ==
  /\ cur \in allocated
  /\ Cardinality(allocated) <= 2
  /\ \A a \in Mergers :
       /\ Building(a) => newGraph[a] \in allocated \ {cur}
       /\ Published(a) => oldGraph[a] \in allocated \ {cur}

(* fda_executor.h:136: only one merge at a time.                           *)
OneMergeAtATime == ~(Running("background") /\ Running("main"))

(* A thread object is assigned a new thread only when the previous one has *)
(* exited: assigning to a running std::thread terminates the program.      *)
SpawnAfterJoin ==
  [][mergePc'["background"] = "start" /\ mergePc["background"] # "start"
       => ~Running("background")]_vars

(* fda_index.h:18, the LTI is logically read-only: it never shrinks, and a *)
(* step may drop one of its vertices only if that vertex is tombstoned.    *)
LtiOnlyLosesTombstones ==
  [][/\ ltiCount' >= ltiCount
     /\ \A s \in Slots : s < ltiCount /\ s \notin delBits
          => graph'[cur'][s] = graph[cur][s]]_vars

(* A swap that finds the RW window as the merge had saved it changes no    *)
(* answer but for tombstoned vertices.                                     *)
UndisturbedSwapKeepsAnswers ==
  [][\A a \in Mergers :
       Swap(a) /\ newLtiCount[a] = rwBase /\ savedRwBase[a] = rwBase
               /\ savedRwCount[a] = rwCount
       => \A s \in Answer \ delBits : s \in Answer' /\ graph'[cur'][s] = graph[cur][s]]_vars

Flushed == /\ Idle
           /\ pendingInsertIds = <<>> /\ pendingDeleteIds = <<>>

(* Between events with nothing pending, a search sees every live point ... *)
NothingLost == Flushed => want \subseteq VisiblePids

(* ... and no deleted one.                                                 *)
NothingResurrected == Flushed => VisiblePids \subseteq want

(* Without merges the executor implements the store: every flush carries   *)
(* out requests and nothing else changes what a search can return.         *)
Store == INSTANCE VectorStore
  WITH Base <- 0 .. L - 1,
       due  <- {pendingInsertIds[i] : i \in offset + 1 .. Len(pendingInsertIds)},
       live <- VisiblePids
StoreSpec == Store!Spec

(* Slots are translated to pids when the run is over: each answer must     *)
(* still stand for the point it was given for.                             *)
AnswersTranslateAtTheEnd == \A r \in deferredRecall : RecallPid(r[1]) = r[2]

(* fda_executor.cu:361: RW operations continue undisturbed during a merge. *)
RwUndisturbed ==
  [][cur' # cur => RwWindow \subseteq (0 .. ltiCount' - 1) \cup RwWindow']_vars

(* fda_executor.cu:682: Phase B's greedy search starts at the LTI medoid,  *)
(* not at the RW one.                                                      *)
PhaseBStartsAtLti ==
  [][\A a \in Mergers : PhaseBLink(a) => runtimeMedoid = LtiMedoid]_vars

(* The workload is finite and no thread waits for ever: the run ends.      *)
Termination == <>(mainPc = "done")
=============================================================================
