-------------------------- MODULE FdaExecutorProofs --------------------------
(***************************************************************************)
(* What holds of FdaExecutor for every size of the layout, every batch     *)
(* size, every workload and every mode.                                    *)
(***************************************************************************)
EXTENDS FdaExecutor, FiniteSetTheorems, SequenceTheorems, TLAPS

(* A merge that has read its counts will put back a layout that is whole:  *)
(* an LTI that still covers the first one, and a window of at most T.      *)
Snapshotted == {"base", "count", "medoid", "phaseA", "gather", "link", "copy", "swap"}

SnapshotInRange ==
  \A a \in Mergers : /\ savedRwCount[a] <= T
                     /\ mergePc[a] \in Snapshotted => L <= newLtiCount[a]

OffsetInRange == offset <= Len(pendingInsertIds)
BusyWithATask == mainPc \notin {"loop", "done", "overrun"} => todo # <<>>

(* No swap falls between the writes of a seal, which is of a full window.  *)
SealPcs == {"seal", "sealBase", "sealCount", "sealMedoid"}
LockHeld == mainPc \in {"insert", "kernel", "trigger"} \cup SealPcs => globalIndexLock
SealSteps ==
  /\ mainPc \in {"seal", "sealBase", "sealCount"} => rwCount = T
  /\ mainPc = "sealMedoid" => rwCount = 0
  /\ mainPc = "sealBase" => numActiveTemps > 0

(* What IndexLayout needs to be inductive: the window grows by a chunk     *)
(* measured against it, and the merges put back counts that are in range,  *)
(* never between two writes of a seal.                                     *)
LayoutInv ==
  /\ TypeOK
  /\ OffsetInRange
  /\ BusyWithATask
  /\ IndexLayout
  /\ SnapshotInRange
  /\ LockHeld
  /\ SealSteps

(* The least of three integers, which flushInsertBatch calls room.         *)
LEMMA MinOfThree ==
  ASSUME NEW x \in Int, NEW y \in Int, NEW z \in Int
  PROVE  /\ MinOf({x, y, z}) \in {x, y, z}
         /\ MinOf({x, y, z}) <= x /\ MinOf({x, y, z}) <= y /\ MinOf({x, y, z}) <= z
<1> DEFINE S == {x, y, z}
<1>1. \E m \in S : \A w \in S : m <= w
  <2>1. CASE x <= y /\ x <= z  BY <2>1
  <2>2. CASE y <= x /\ y <= z  BY <2>2
  <2>3. CASE z <= x /\ z <= y  BY <2>3
  <2> QED BY <2>1, <2>2, <2>3
<1>2. MinOf(S) \in S /\ \A w \in S : MinOf(S) <= w
  BY <1>1 DEF MinOf
<1> QED BY <1>2

(* A chunk fits the window and the batch; it is empty only when the window *)
(* is full or nothing is left.                                             *)
LEMMA RoomBounds ==
  ASSUME LayoutInv
  PROVE  /\ Remaining \in Nat /\ Room \in Nat
         /\ Room <= Remaining /\ Room <= T - rwCount
         /\ Room = 0 /\ Remaining > 0 => rwCount = T
<1>1. Remaining \in Nat /\ T - rwCount \in Nat /\ InsertBatch \in Nat \ {0}
  <2>1. Len(pendingInsertIds) \in Nat /\ offset \in Nat /\ rwCount \in Nat
    BY LenProperties DEF LayoutInv, TypeOK, IndexTypeOK, MainTypeOK
  <2>2. offset <= Len(pendingInsertIds) /\ rwCount <= T
    BY DEF LayoutInv, OffsetInRange, IndexLayout
  <2>3. T \in Nat /\ InsertBatch \in Nat \ {0}
    BY LayoutAssumption, BatchAssumption DEF LayoutAssumption, BatchAssumption
  <2> QED BY <2>1, <2>2, <2>3 DEF Remaining
<1>2. /\ Room \in {Remaining, InsertBatch, T - rwCount}
      /\ Room <= Remaining /\ Room <= InsertBatch /\ Room <= T - rwCount
  <2> DEFINE x == Remaining  y == InsertBatch  z == T - rwCount
  <2>1. x \in Int /\ y \in Int /\ z \in Int
    BY <1>1
  <2> HIDE DEF x, y, z
  <2>2. /\ MinOf({x, y, z}) \in {x, y, z}
        /\ MinOf({x, y, z}) <= x /\ MinOf({x, y, z}) <= y /\ MinOf({x, y, z}) <= z
    BY <2>1, MinOfThree
  <2> QED BY <2>2 DEF Room, x, y, z
<1>3. T \in Nat /\ rwCount \in Nat
  BY LayoutAssumption DEF LayoutInv, TypeOK, IndexTypeOK, LayoutAssumption
<1> QED BY <1>1, <1>2, <1>3

LEMMA FreeBufferIsFree ==
  ASSUME NEW A \in SUBSET Buffers, A # Buffers
  PROVE  FreeBuffer(A) \in Buffers /\ FreeBuffer(A) \notin A
BY DEF FreeBuffer

LEMMA LtiFits == L <= Capacity
<1>1. (M + 1) * T \in Nat
  BY LayoutAssumption DEF LayoutAssumption
<1> QED BY <1>1, LayoutAssumption DEF LayoutAssumption

LEMMA LayoutInit == Init => LayoutInv
<1> SUFFICES ASSUME Init PROVE LayoutInv
  OBVIOUS
<1>1. IndexTypeOK
  BY LayoutAssumption DEF LayoutAssumption, Init, IndexInit, IndexTypeOK
<1>2. GraphTypeOK
  <2>1. cur \in Buffers
    BY BufferAssumption, FreeBufferIsFree DEF BufferAssumption, Init, IndexInit
  <2> QED BY <2>1, PidAssumption, LayoutAssumption
      DEF PidAssumption, LayoutAssumption, Init, IndexInit, GraphTypeOK, Slots, Zeroed
<1>3. MapTypeOK
  <2>1. 0 .. L - 1 \subseteq Slots
    BY LtiFits, LayoutAssumption DEF LayoutAssumption, Slots
  <2>2. pointIdToSlot \in [Pids -> Slots \cup {NoSlot}]
    BY <2>1 DEF Init, ExecutorInit
  <2>3. slotToPointId \in [Slots -> Pids \cup {NoPid}]
    BY LayoutAssumption, PidAssumption
    DEF LayoutAssumption, PidAssumption, Init, ExecutorInit, Slots
  <2>4. /\ deferredRecall \subseteq Slots \X Pids
        /\ delBits \subseteq Slots /\ delCount \in Nat /\ runtimeMedoid \in Nat
    BY LayoutAssumption DEF LayoutAssumption, Init, IndexInit, ExecutorInit
  <2> QED BY <2>2, <2>3, <2>4 DEF MapTypeOK
<1>4. MainTypeOK
  <2>1. todo \in Seq(Tasks) /\ pendingInsertIds \in Seq(Pids) /\ pendingDeleteIds \in Seq(Pids)
    BY EmptySeq DEF Init, ExecutorInit
  <2> QED BY <2>1, PidAssumption DEF PidAssumption, Init, ExecutorInit, MainTypeOK
<1>5. MergeTypeOK
  BY <1>2 DEF Init, ExecutorInit, MergeTypeOK, MergePcs, GraphTypeOK
<1>6. OffsetInRange /\ BusyWithATask
  BY DEF Init, ExecutorInit, OffsetInRange, BusyWithATask
<1>7. IndexLayout
  BY LayoutAssumption DEF LayoutAssumption, Init, IndexInit, ExecutorInit, IndexLayout
<1>8. SnapshotInRange
  BY LayoutAssumption DEF LayoutAssumption, Init, ExecutorInit, SnapshotInRange, Snapshotted
<1>9. LockHeld /\ SealSteps
  BY DEF Init, ExecutorInit, LockHeld, SealSteps, SealPcs
<1> QED BY <1>1, <1>2, <1>3, <1>4, <1>5, <1>6, <1>7, <1>8, <1>9 DEF LayoutInv, TypeOK

-----------------------------------------------------------------------------
(* Sequences of tasks.                                                     *)

LEMMA TailTodo ==
  ASSUME MainTypeOK, todo # <<>> PROVE Tail(todo) \in Seq(Tasks)
BY HeadTailProperties DEF MainTypeOK

LEMMA DueTasks ==
  ASSUME NEW S, {"insert", "delete", "search"} \subseteq S
  PROVE  InsertDue \in Seq(S) /\ DeleteDue \in Seq(S) /\ SearchDue \in Seq(S)
BY DEF InsertDue, DeleteDue, SearchDue

(* What an event adds to todo is made of the flushes it may ask for.       *)
LEMMA EventTasks ==
  ASSUME NEW S, {"insert", "delete", "search"} \subseteq S,
         NEW x \in Seq(S), NEW y \in Seq(S), NEW z \in Seq(S), NEW w \in Seq(S)
  PROVE  x \o y \in Seq(S) /\ x \o y \o z \in Seq(S) /\ x \o y \o z \o w \in Seq(S)
<1>1. x \o y \in Seq(S)  BY ConcatProperties
<1>2. (x \o y) \o z \in Seq(S)  BY <1>1, ConcatProperties
<1>3. ((x \o y) \o z) \o w \in Seq(S)  BY <1>2, ConcatProperties
<1> QED BY <1>1, <1>2, <1>3

(* The chunk's slots are inside the allocation once the guard has held,    *)
(* and each gets a pid of the batch.                                       *)
LEMMA ChunkFacts ==
  ASSUME LayoutInv
  PROVE  /\ FirstSlot \in Nat /\ Room \in Nat
         /\ \A s \in ChunkSlots : ChunkPid(s) \in Pids
         /\ FirstSlot + Room <= Capacity => ChunkSlots \subseteq Slots
<1>1. FirstSlot \in Nat /\ rwBase \in Nat /\ rwCount \in Nat /\ offset \in Nat
  BY DEF LayoutInv, TypeOK, IndexTypeOK, MainTypeOK, FirstSlot
<1>2. Room \in Nat /\ Remaining \in Nat /\ Room <= Remaining
  BY RoomBounds
<1>3. pendingInsertIds \in Seq(Pids) /\ Len(pendingInsertIds) \in Nat
  BY LenProperties DEF LayoutInv, TypeOK, MainTypeOK
<1>4. ASSUME NEW s \in ChunkSlots PROVE ChunkPid(s) \in Pids
  <2>1. offset + 1 + (s - FirstSlot) \in 1 .. Len(pendingInsertIds)
    BY <1>1, <1>2, <1>3 DEF ChunkSlots, Remaining
  <2> HIDE DEF FirstSlot
  <2> QED BY <2>1, <1>3, ElementOfSeq DEF ChunkPid
<1>5. FirstSlot + Room <= Capacity => ChunkSlots \subseteq Slots
  BY <1>1, <1>2, LayoutAssumption DEF LayoutAssumption, ChunkSlots, Slots
<1> QED BY <1>1, <1>2, <1>4, <1>5

-----------------------------------------------------------------------------
(* Each handler keeps LayoutInv.                                           *)

(* The layout is not touched, and no seal begins or goes on.               *)
LEMMA LayoutFrame ==
  ASSUME IndexLayout, SealSteps, UNCHANGED <<ltiCount, numActiveTemps, rwBase, rwCount>>,
         mainPc' = mainPc \/ (mainPc # "sealBase" /\ mainPc' \notin SealPcs)
  PROVE  IndexLayout' /\ SealSteps'
<1>1. IndexLayout'
  <2>1. (mainPc' = "sealBase") <=> (mainPc = "sealBase")
    BY DEF SealPcs
  <2> QED BY <2>1 DEF IndexLayout, SealedRwBase
<1>2. SealSteps'
  BY DEF SealSteps, SealPcs
<1> QED BY <1>1, <1>2

USE DEF LayoutInv, TypeOK, IndexTypeOK, GraphTypeOK, MapTypeOK, MainTypeOK, MergeTypeOK,
        OffsetInRange, BusyWithATask, SnapshotInRange, LockHeld, SealPcs,
        idxVars, bufVars, delVars, mapVars, pendVars, loadVars, snapVars

LEMMA EventsKeepLayout ==
  ASSUME LayoutInv,
         \/ \E p \in Pids : EventInsert(p) \/ EventDelete(p)
         \/ EventQuery \/ EventsOver \/ Finish
  PROVE  LayoutInv'
<1> DEFINE OneTask == {<<>>, <<"insert">>, <<"delete">>, <<"search">>, <<"eager">>, <<"finish">>}
<1>1. /\ InsertDue \in Seq(Tasks) /\ DeleteDue \in Seq(Tasks) /\ SearchDue \in Seq(Tasks)
      /\ OneTask \subseteq Seq(Tasks)
  <2>1. {"insert", "delete", "search"} \subseteq Tasks
    BY DEF Tasks
  <2>2. OneTask \subseteq Seq(Tasks)
    BY DEF Tasks
  <2> HIDE DEF OneTask, Tasks, LayoutInv
  <2> QED BY <2>1, <2>2, DueTasks
<1>2. ASSUME NEW p \in Pids, EventInsert(p) PROVE LayoutInv'
  <2>1. todo' \in Seq(Tasks)
    BY <1>1, <1>2, EventTasks DEF EventInsert, Tasks
  <2>2. /\ pendingInsertIds' \in Seq(Pids)
        /\ Len(pendingInsertIds') = Len(pendingInsertIds) + 1
    BY <1>2, AppendProperties DEF EventInsert
  <2>3. OffsetInRange'
    BY <1>2, <2>2, LenProperties DEF EventInsert
  <2> QED BY SMTT(40), <1>2, <2>1, <2>2, <2>3, LayoutFrame DEF EventInsert, Idle
<1>3. ASSUME NEW p \in Pids, EventDelete(p) PROVE LayoutInv'
  <2>1. todo' \in Seq(Tasks)
    BY <1>1, <1>3, EventTasks DEF EventDelete, Tasks
  <2>2. pendingDeleteIds' \in Seq(Pids)
    BY <1>3, AppendProperties DEF EventDelete
  <2> QED BY SMTT(40), <1>3, <2>1, <2>2, LayoutFrame DEF EventDelete, Idle
<1>4. CASE EventQuery
  <2>1. todo' \in Seq(Tasks)
    BY <1>1, <1>4, EventTasks DEF EventQuery, Tasks
  <2> QED BY SMTT(40), <1>4, <2>1, LayoutFrame DEF EventQuery, Idle
<1>5. CASE EventsOver
  <2>1. todo' \in Seq(Tasks)
    BY <1>1, <1>5, EventTasks DEF EventsOver, Tasks
  <2> QED BY SMTT(40), <1>5, <2>1, LayoutFrame DEF EventsOver, Idle
<1>6. CASE Finish
  BY SMTT(40), <1>6, LayoutFrame DEF Finish, Idle, NextTask, Mergers, MergePcs, Snapshotted
<1> QED BY <1>2, <1>3, <1>4, <1>5, <1>6

LEMMA InsertKeepsLayout ==
  ASSUME LayoutInv, BeginInsert \/ AssignSlots \/ InsertChunk \/ WindowIsFull \/ EndInsert
  PROVE  LayoutInv'
<1>1. CASE BeginInsert
  BY <1>1, LayoutFrame DEF BeginInsert, NextTask
<1>2. CASE AssignSlots
  <2>1. rwMedoid' \in Nat \cup {NoSlot} /\ runtimeMedoid' \in Nat
    BY <1>2, ChunkFacts, Zenon DEF AssignSlots, InsertStart
  <2>2. /\ pointIdToSlot' \in [Pids -> Slots \cup {NoSlot}]
        /\ slotToPointId' \in [Slots -> Pids \cup {NoPid}]
    <3>1. CASE FirstSlot + Room > Capacity
      BY <1>2, <3>1 DEF AssignSlots
    <3>2. CASE ~(FirstSlot + Room > Capacity)
      <4>1. ChunkSlots \subseteq Slots /\ \A s \in ChunkSlots : ChunkPid(s) \in Pids
        BY <3>2, ChunkFacts, LayoutAssumption DEF LayoutAssumption
      <4>2. slotToPointId' = SlotMapAfterChunk
            /\ pointIdToSlot' = [p \in Pids |-> IF \E s \in ChunkSlots : ChunkPid(s) = p
                                               THEN CHOOSE s \in ChunkSlots : ChunkPid(s) = p
                                               ELSE pointIdToSlot[p]]
        BY <1>2, <3>2 DEF AssignSlots
      <4> HIDE DEF ChunkSlots, ChunkPid
      <4>3. slotToPointId' \in [Slots -> Pids \cup {NoPid}]
        BY <4>1, <4>2 DEF SlotMapAfterChunk
      <4>4. ASSUME NEW p \in Pids, \E s \in ChunkSlots : ChunkPid(s) = p
            PROVE  (CHOOSE s \in ChunkSlots : ChunkPid(s) = p) \in Slots
        BY <4>1, <4>4
      <4> QED BY <4>2, <4>3, <4>4
    <3> QED BY <3>1, <3>2
  <2>3. IndexLayout' /\ SealSteps'
    BY <1>2, LayoutFrame DEF AssignSlots
  <2> QED BY <1>2, <2>1, <2>2, <2>3 DEF AssignSlots
<1>3. CASE InsertChunk
  <2>1. GraphTypeOK'
    <3>1. ASSUME NEW s \in Slots
          PROVE  (IF s \in ChunkSlots THEN ChunkPid(s) ELSE graph[cur][s]) \in Pids \cup {NoPid}
      BY SMTT(40), ChunkFacts
    <3>2. GraphAfterChunk \in [Slots -> Pids \cup {NoPid}]
      BY <3>1 DEF GraphAfterChunk
    <3>3. graph' = [graph EXCEPT ![cur] = GraphAfterChunk] /\ cur' = cur /\ allocated' = allocated
      BY <1>3 DEF InsertChunk
    <3> QED BY <3>2, <3>3
  <2>2. /\ Room \in Nat /\ rwCount + Room <= T /\ offset + Room <= Len(pendingInsertIds)
        /\ Remaining \in Nat
    BY SMTT(40), RoomBounds, LayoutAssumption, LenProperties DEF LayoutAssumption, Remaining, IndexLayout
  <2>3. rwCount' = rwCount + Room /\ rwCount' \in Nat
    BY <1>3, <2>2 DEF InsertChunk
  <2>4. IndexTypeOK' /\ IndexLayout' /\ LockHeld' /\ SealSteps'
    <3> DEFINE c == rwCount + Room
    <3>1. /\ rwCount' = c /\ c \in Nat /\ c <= T /\ T \in Nat
          /\ mainPc' = IF c >= T THEN "seal" ELSE "insert"
          /\ mainPc = "kernel" /\ UNCHANGED globalIndexLock
          /\ UNCHANGED <<ltiCount, numActiveTemps, rwBase, rwMedoid, tempMedoids>>
      BY <1>3, <2>2, LayoutAssumption DEF LayoutAssumption, InsertChunk, RwFull
    <3> HIDE DEF c
    <3> QED BY <3>1 DEF IndexLayout, SealSteps
  <2>5. MainTypeOK' /\ OffsetInRange' /\ BusyWithATask'
    BY <1>3, <2>2 DEF InsertChunk
  <2>6. MapTypeOK' /\ MergeTypeOK' /\ SnapshotInRange'
    BY <1>3 DEF InsertChunk
  <2> QED BY <2>1, <2>4, <2>5, <2>6
<1>4. CASE WindowIsFull
  <2>1. /\ mainPc = "insert" /\ mainPc' = "seal" /\ rwCount = T
        /\ UNCHANGED <<idxVars, afterMerge, sealUnchanged>>
    BY <1>4, RoomBounds DEF WindowIsFull, MainStep
  <2>2. IndexLayout' /\ SealSteps'
    BY <2>1 DEF IndexLayout, SealSteps
  <2> QED BY <2>1, <2>2 DEF sealUnchanged
<1>5. CASE EndInsert
  <2>1. todo' \in Seq(Tasks) /\ pendingInsertIds' = <<>> /\ offset' = 0
    BY <1>5, TailTodo DEF EndInsert
  <2>2. pendingInsertIds' \in Seq(Pids) /\ OffsetInRange'
    BY <2>1
  <2>3. /\ mainPc' = "loop" /\ globalIndexLock' = FALSE
        /\ UNCHANGED <<afterMerge, pendingDeleteIds, pendingQueries, loadVars>>
    BY <1>5 DEF EndInsert
  <2>4. MainTypeOK' /\ BusyWithATask'
    BY <2>1, <2>2, <2>3
  <2>5. IndexTypeOK' /\ GraphTypeOK' /\ MapTypeOK' /\ MergeTypeOK' /\ SnapshotInRange'
    BY <1>5 DEF EndInsert
  <2>6. IndexLayout' /\ SealSteps' /\ LockHeld'
    BY <1>5, LayoutFrame DEF EndInsert
  <2> QED BY <2>2, <2>4, <2>5, <2>6
<1> QED BY <1>1, <1>2, <1>3, <1>4, <1>5

LEMMA SealKeepsLayout ==
  ASSUME LayoutInv, SealRefused \/ BeginSeal \/ MoveBase \/ ResetCount \/ ResetMedoid
  PROVE  LayoutInv'
<1> USE DEF MainStep, sealUnchanged
<1>1. CASE SealRefused
  BY SMTT(40), <1>1, LayoutFrame DEF SealRefused
<1>2. CASE BeginSeal
  <2>1. /\ mainPc = "seal" /\ mainPc' = "sealBase" /\ numActiveTemps < M
        /\ numActiveTemps' = numActiveTemps + 1 /\ UNCHANGED <<ltiCount, rwBase, rwCount, rwMedoid>>
        /\ tempMedoids' = [tempMedoids EXCEPT ![numActiveTemps] = rwMedoid]
    BY <1>2, LayoutAssumption DEF LayoutAssumption, BeginSeal, SealTemp, LayoutFull
  <2>2. (numActiveTemps + 1) * T = numActiveTemps * T + T /\ T \in Nat /\ M \in Nat
    BY LayoutAssumption DEF LayoutAssumption
  <2>3. IndexTypeOK' /\ IndexLayout' /\ LockHeld' /\ SealSteps'
    BY <1>2, <2>1, <2>2 DEF BeginSeal, SealedRwBase, IndexLayout, SealSteps
  <2>4. MainTypeOK' /\ OffsetInRange' /\ BusyWithATask'
    BY <1>2 DEF BeginSeal
  <2> QED BY <1>2, <2>3, <2>4 DEF BeginSeal
<1>3. CASE MoveBase
  <2>1. rwBase' = rwBase + T /\ T \in Nat
    BY <1>3, LayoutAssumption DEF LayoutAssumption, MoveBase, SealBase, SealedRwBase
  <2>2. IndexTypeOK' /\ IndexLayout' /\ SealSteps'
    BY <1>3, <2>1 DEF MoveBase, SealBase, SealedRwBase, IndexLayout, SealSteps
  <2> QED BY SMTT(40), <1>3, <2>2 DEF MoveBase
<1>4. CASE ResetCount
  <2>1. IndexTypeOK' /\ IndexLayout' /\ SealSteps'
    BY <1>4, LayoutAssumption DEF LayoutAssumption, ResetCount, SealCount, IndexLayout, SealSteps
  <2> QED BY SMTT(40), <1>4, <2>1 DEF ResetCount
<1>5. CASE ResetMedoid
  <2>1. IndexTypeOK' /\ IndexLayout' /\ SealSteps'
    BY <1>5 DEF ResetMedoid, SealMedoid, IndexLayout, SealSteps
  <2> QED BY SMTT(40), <1>5, <2>1 DEF ResetMedoid
<1> QED BY <1>1, <1>2, <1>3, <1>4, <1>5

LEMMA FlushKeepsLayout ==
  ASSUME LayoutInv, FlushDelete \/ LaunchSearch
  PROVE  LayoutInv'
<1>1. CASE FlushDelete
  <2>1. delBits' \subseteq Slots
    <3>1. ASSUME NEW i \in KnownDeletes PROVE pointIdToSlot[pendingDeleteIds[i]] \in Slots
      BY <3>1, ElementOfSeq DEF KnownDeletes
    <3> QED BY <1>1, <3>1 DEF FlushDelete, BatchMarkDeleted
  <2>2. delCount' \in Nat
    <3>1. Len(pendingDeleteIds) \in Nat
      BY LenProperties
    <3>2. IsFiniteSet(1 .. Len(pendingDeleteIds))
      BY <3>1, FS_Interval
    <3>3. Cardinality(KnownDeletes) \in Nat
      BY <3>2, FS_Subset, FS_CardinalityType DEF KnownDeletes
    <3> QED BY <1>1, <3>3 DEF FlushDelete, BatchMarkDeleted
  <2>3. todo' \in Seq(Tasks) /\ pendingDeleteIds' \in Seq(Pids) /\ BusyWithATask'
    BY <1>1, TailTodo, EmptySeq DEF FlushDelete, NextTask
  <2> QED BY <1>1, <2>1, <2>2, <2>3, LayoutFrame DEF FlushDelete, NextTask
<1>2. CASE LaunchSearch
  <2>1. deferredRecall' \subseteq Slots \X Pids
    BY <1>2 DEF LaunchSearch, Answer
  <2>2. todo' \in Seq(Tasks) /\ BusyWithATask' /\ runtimeMedoid' \in Nat
    BY <1>2, TailTodo, LayoutAssumption DEF LaunchSearch, NextTask, LayoutAssumption
  <2> QED BY <1>2, <2>1, <2>2, LayoutFrame DEF LaunchSearch, NextTask
<1> QED BY <1>1, <1>2

LEMMA TriggerKeepsLayout ==
  ASSUME LayoutInv, Trigger
  PROVE  LayoutInv'
<1>1. ASSUME mainPc \in {"trigger", "join"}, Resume
      PROVE  /\ todo' \in Seq(Tasks) /\ BusyWithATask'
             /\ mainPc' \in {"insert", "loop"} /\ globalIndexLock' \in BOOLEAN
             /\ LockHeld'
  BY <1>1, TailTodo DEF Resume
<1>2. Spawn => mergePc' \in [Mergers -> MergePcs]
               /\ \A a \in Mergers : mergePc'[a] \in Snapshotted => mergePc'[a] = mergePc[a]
  BY DEF Spawn, MergePcs, Mergers, Snapshotted
<1>3. CASE TriggerSkipped
  BY <1>1, <1>3, LayoutFrame DEF TriggerSkipped
<1>4. CASE TriggerSpawn
  BY <1>1, <1>2, <1>4, LayoutFrame DEF TriggerSpawn
<1>5. CASE TriggerWait
  BY <1>5, LayoutFrame DEF TriggerWait, LockDuringJoin
<1>6. CASE TriggerJoined
  BY <1>1, <1>2, <1>6, LayoutFrame DEF TriggerJoined
<1>7. CASE BeginEagerMerge
  <2>1. mergePc' \in [Mergers -> MergePcs]
        /\ \A a \in Mergers : mergePc'[a] \in Snapshotted => mergePc'[a] = mergePc[a]
    BY SMTT(40), <1>7 DEF BeginEagerMerge, MergePcs, Mergers, Snapshotted
  <2>2. todo' \in Seq(Tasks) /\ BusyWithATask'
    BY <1>7, TailTodo DEF BeginEagerMerge, NextTask
  <2> QED BY <1>7, <2>1, <2>2, LayoutFrame DEF BeginEagerMerge, NextTask
<1>8. CASE EndEagerMerge
  <2>1. mergePc' \in [Mergers -> MergePcs]
        /\ \A a \in Mergers : mergePc'[a] \in Snapshotted => mergePc'[a] = mergePc[a]
    BY <1>8 DEF EndEagerMerge, MergePcs, Mergers, Snapshotted
  <2>2. todo' \in Seq(Tasks) /\ BusyWithATask'
    BY <1>8, TailTodo DEF EndEagerMerge
  <2> QED BY <1>8, <2>1, <2>2, LayoutFrame DEF EndEagerMerge
<1> QED BY <1>3, <1>4, <1>5, <1>6, <1>7, <1>8 DEF Trigger

(* A merge reads a count that is in range and publishes it: the layout it  *)
(* leaves has no Temps and the window at the end of the LTI.               *)
LEMMA MergeKeepsLayout ==
  ASSUME LayoutInv, NEW a \in Mergers, MergeNext(a)
  PROVE  LayoutInv'
<1> USE DEF mainUnchanged, mainVars, Step, NoteTorn
<1>1. CASE SnapshotCounts(a)
  <2>1. ltiCount + MergedSlots \in Nat /\ L <= ltiCount + MergedSlots
    <3>1. numActiveTemps * T \in Nat
      BY LayoutAssumption DEF LayoutAssumption
    <3>2. ltiCount \in Nat /\ L \in Nat /\ L <= ltiCount
      BY LayoutAssumption DEF LayoutAssumption, IndexLayout
    <3> DEFINE m == numActiveTemps * T
    <3> HIDE DEF m, LayoutInv
    <3> QED BY <3>1, <3>2 DEF MergedSlots, m
  <2>2. newLtiCount' \in [Mergers -> Nat] /\ mergePc' \in [Mergers -> MergePcs]
    BY <1>1, <2>1 DEF SnapshotCounts, MergePcs
  <2>3. SnapshotInRange'
    BY <1>1, <2>1 DEF SnapshotCounts, Snapshotted
  <2> QED BY <1>1, <2>2, <2>3, LayoutFrame DEF SnapshotCounts
<1>2. CASE SnapshotRwBase(a)
  BY <1>2, LayoutFrame DEF SnapshotRwBase, MergePcs, Snapshotted
<1>3. CASE SnapshotRwCount(a)
  <2>1. MergeTypeOK' /\ SnapshotInRange'
    BY <1>3 DEF SnapshotRwCount, MergePcs, Snapshotted, IndexLayout
  <2> QED BY <1>3, <2>1, LayoutFrame DEF SnapshotRwCount
<1>4. CASE SnapshotRwMedoid(a)
  <2>1. PICK b \in Buffers : /\ graph' = [graph EXCEPT ![b] = Zeroed]
                             /\ newGraph' = [newGraph EXCEPT ![a] = b]
                             /\ allocated' = allocated \cup {b}
    BY <1>4, FreeBufferIsFree DEF SnapshotRwMedoid
  <2>2. Zeroed \in [Slots -> Pids \cup {NoPid}]
    BY DEF Zeroed
  <2>3. GraphTypeOK' /\ newGraph' \in [Mergers -> Buffers]
    BY <1>4, <2>1, <2>2 DEF SnapshotRwMedoid
  <2>4. MergeTypeOK' /\ SnapshotInRange'
    BY <1>4, <2>3 DEF SnapshotRwMedoid, MergePcs, Snapshotted
  <2> QED BY <1>4, <2>3, <2>4, LayoutFrame DEF SnapshotRwMedoid
<1>5. CASE PhaseA(a)
  BY <1>5, LayoutFrame DEF PhaseA, MergePcs, Snapshotted
<1>6. CASE PhaseBGather(a)
  <2>1. runtimeMedoid' \in Nat
    BY <1>6, LayoutAssumption DEF PhaseBGather, LayoutAssumption
  <2>2. GraphTypeOK' /\ MergeTypeOK' /\ SnapshotInRange'
    BY <1>6 DEF PhaseBGather, MergePcs, Snapshotted
  <2> QED BY <1>6, <2>1, <2>2, LayoutFrame DEF PhaseBGather
<1>7. CASE PhaseBLink(a)
  BY <1>7, LayoutFrame DEF PhaseBLink, MergePcs, Snapshotted
<1>8. CASE CopyRW(a)
  BY <1>8, LayoutFrame DEF CopyRW, MergePcs, Snapshotted
<1>9. CASE Swap(a)
  <2>1. IndexTypeOK' /\ IndexLayout' /\ SealSteps'
    <3>1. mainPc \notin SealPcs /\ mainPc' = mainPc
      BY <1>9 DEF Swap
    <3> QED BY <1>9, <3>1, LayoutAssumption
        DEF Swap, LayoutAssumption, Snapshotted, IndexLayout, SealSteps
  <2> QED BY <1>9, <2>1 DEF Swap, MergePcs, Snapshotted
<1>10. CASE ClearBits(a)
  BY <1>10, LayoutFrame DEF ClearBits, MergePcs, Snapshotted
<1>11. CASE ClearCount(a)
  BY <1>11, LayoutFrame DEF ClearCount, MergePcs, Snapshotted
<1>12. CASE FreeOld(a)
  <2>1. graph' \in [Buffers -> [Slots -> Pids \cup {NoPid}]]
    BY <1>12 DEF FreeOld, Zeroed, BufferToFree
  <2>2. MergeTypeOK' /\ SnapshotInRange'
    BY <1>12, LayoutAssumption DEF FreeOld, MergePcs, Snapshotted, LayoutAssumption
  <2> QED BY <1>12, <2>1, <2>2, LayoutFrame DEF FreeOld
<1> QED BY <1>1, <1>2, <1>3, <1>4, <1>5, <1>6, <1>7, <1>8, <1>9, <1>10, <1>11, <1>12
    DEF MergeNext

LEMMA LayoutStep == LayoutInv /\ [Next]_vars => LayoutInv'
<1> SUFFICES ASSUME LayoutInv, [Next]_vars PROVE LayoutInv'
  OBVIOUS
<1>1. CASE UNCHANGED vars
  BY <1>1, LayoutFrame DEF vars, mainVars
<1>2. CASE MainNext
  BY <1>2, EventsKeepLayout, InsertKeepsLayout, SealKeepsLayout, FlushKeepsLayout, TriggerKeepsLayout, Zenon
  DEF MainNext, Flush
<1>3. ASSUME NEW a \in Mergers, MergeNext(a) PROVE LayoutInv'
  BY <1>3, MergeKeepsLayout
<1> QED BY <1>1, <1>2, <1>3, Zenon DEF Next, Stopped

(* Every variable of the executor and of the index keeps its type, in      *)
(* every mode and with two merges at once too.                             *)
THEOREM TypeCorrect == Spec => []TypeOK
<1>1. LayoutInv => TypeOK
  BY DEF LayoutInv
<1> QED BY <1>1, LayoutInit, LayoutStep, PTL DEF Spec

(* The RW window starts right after the sealed Temps and holds at most T   *)
(* vectors, although a merge reads the fields without the lock and puts    *)
(* them back later.                                                        *)
THEOREM LayoutHolds == Spec => []IndexLayout
<1>1. LayoutInv => IndexLayout
  BY DEF LayoutInv
<1> QED BY <1>1, LayoutInit, LayoutStep, PTL DEF Spec

HIDE DEF LayoutInv, TypeOK, IndexTypeOK, GraphTypeOK, MapTypeOK, MainTypeOK, MergeTypeOK,
         OffsetInRange, BusyWithATask, SnapshotInRange, LockHeld, SealPcs,
         idxVars, bufVars, delVars, mapVars, pendVars, loadVars, snapVars

-----------------------------------------------------------------------------
(* The header's capacity contract, when only the background thread merges. *)
(* Every slot handed out, and every insert still pending, is an insert of  *)
(* the workload, or one of the T that a merge lost when it read the count  *)
(* of a window being sealed.  A merge gives back a window end that was     *)
(* reached already but for these, because the window only moves up while   *)
(* a merge runs.                                                           *)

NoEagerTask == todo \in Seq(Tasks \ {"eager"}) /\ mergePc["main"] = "none"
InsertsAccounted == WindowEnd + Remaining <= L + numInserts /\ numInserts <= MaxInserts
CountRead == {"medoid", "phaseA", "gather", "link", "copy", "swap"}
WindowBounded == WindowEnd + Remaining <= SlotsAccounted
SnapshotBounded ==
  /\ mergePc["background"] \in Snapshotted =>
       newLtiCount["background"] <= rwBase + (IF mainPc = "sealBase" THEN T ELSE 0)
  /\ mergePc["background"] \in CountRead =>
       newLtiCount["background"] + savedRwCount["background"] + Remaining <= SlotsAccounted

CapacityInv ==
  /\ NoEagerTask /\ WindowBounded /\ SnapshotBounded
  /\ mainPc = "overrun" => SlotsAccounted > Capacity

LEMMA AccountedIsNat ==
  ASSUME LayoutInv
  PROVE  /\ SlotsAccounted \in Nat /\ numInserts \in Nat /\ L \in Nat /\ Capacity \in Nat
         /\ T \in Nat \ {0} /\ tornCounts \in Nat /\ tornCounts * T \in Nat
         /\ SlotsAccounted = L + numInserts + tornCounts * T
<1> DEFINE slack == tornCounts * T
<1>1. /\ slack \in Nat /\ numInserts \in Nat /\ L \in Nat /\ Capacity \in Nat
      /\ T \in Nat \ {0} /\ tornCounts \in Nat
  BY LayoutAssumption DEF LayoutAssumption, LayoutInv, TypeOK, MainTypeOK, MergeTypeOK
<1>2. SlotsAccounted = L + numInserts + slack
  BY DEF SlotsAccounted
<1> HIDE DEF slack
<1>3. SlotsAccounted \in Nat
  BY <1>1, <1>2
<1> QED BY <1>1, <1>2, <1>3 DEF slack

LEMMA InsertsInit == Init => WindowEnd = L /\ Remaining = 0 /\ numInserts = 0 /\ InsertsAccounted
BY LayoutAssumption, BatchAssumption DEF LayoutAssumption, BatchAssumption, Init, IndexInit,
   ExecutorInit, InsertsAccounted, WindowEnd, Remaining

LEMMA CapacityInit == Init => CapacityInv
<1> SUFFICES ASSUME Init PROVE CapacityInv
  OBVIOUS
<1>1. NoEagerTask
  BY EmptySeq DEF Init, ExecutorInit, NoEagerTask, Mergers
<1>2. WindowBounded
  BY InsertsInit, LayoutAssumption
  DEF LayoutAssumption, Init, ExecutorInit, WindowBounded, SlotsAccounted
<1>3. SnapshotBounded /\ mainPc # "overrun"
  BY DEF Init, ExecutorInit, SnapshotBounded, Snapshotted, CountRead, Mergers
<1> QED BY <1>1, <1>2, <1>3 DEF CapacityInv

(* No task but "eager" starts a merge in the main thread.                  *)
LEMMA NoEagerTaskKept ==
  ASSUME ~EagerMerge, LayoutInv, NoEagerTask, Next
  PROVE  NoEagerTask'
<1> DEFINE S == Tasks \ {"eager"}
<1>1. Tail(todo) \in Seq(S) \/ todo = <<>>
  BY HeadTailProperties DEF NoEagerTask
<1>2. todo # <<>> => Head(todo) # "eager"
  BY HeadTailProperties DEF NoEagerTask
<1>3. /\ InsertDue \in Seq(S) /\ DeleteDue \in Seq(S) /\ SearchDue \in Seq(S)
      /\ {<<>>, <<"insert">>, <<"delete">>, <<"search">>, <<"finish">>} \subseteq Seq(S)
  BY DueTasks DEF Tasks
<1>4. CASE MainNext
  <2>1. todo' \in Seq(S)
    <3>1. ASSUME NEW p \in Pids, EventInsert(p) PROVE todo' \in Seq(S)
      BY <1>3, <3>1, EventTasks DEF EventInsert, Tasks
    <3>2. ASSUME NEW p \in Pids, EventDelete(p) PROVE todo' \in Seq(S)
      BY <1>3, <3>2, EventTasks DEF EventDelete, Tasks
    <3>3. CASE EventQuery
      BY <1>3, <3>3, EventTasks DEF EventQuery, Tasks
    <3>4. CASE EventsOver
      BY <1>3, <3>4, EventTasks DEF EventsOver, Tasks
    <3>5. CASE Finish
      BY <1>3, <3>5 DEF Finish
    <3>6. CASE Flush
      <4>1. UNCHANGED todo \/ (todo # <<>> /\ todo' = Tail(todo))
        BY <3>6 DEF Flush, BeginInsert, AssignSlots, InsertChunk, WindowIsFull, EndInsert,
           SealRefused, BeginSeal, MoveBase, ResetCount, ResetMedoid, MainStep, sealUnchanged,
           FlushDelete, LaunchSearch, NextTask, LayoutInv, BusyWithATask
      <4> QED BY <4>1, <1>1 DEF NoEagerTask
    <3>7. CASE Trigger
      <4>1. UNCHANGED todo \/ (todo # <<>> /\ todo' = Tail(todo))
        BY <3>7 DEF Trigger, TriggerSkipped, TriggerSpawn, TriggerWait, TriggerJoined,
           BeginEagerMerge, EndEagerMerge, NextTask, Resume, LayoutInv, BusyWithATask
      <4> QED BY <4>1, <1>1 DEF NoEagerTask
    <3> QED BY <1>4, <3>1, <3>2, <3>3, <3>4, <3>5, <3>6, <3>7 DEF MainNext
  <2>2. mergePc'["main"] = "none"
    BY <1>2, <1>4 DEF MainNext, Flush, Trigger, NoEagerTask, EventInsert, EventDelete,
       EventQuery, EventsOver, Finish, BeginInsert, AssignSlots, InsertChunk, WindowIsFull,
       SealRefused, BeginSeal, MoveBase, ResetCount, ResetMedoid, sealUnchanged, EndInsert, FlushDelete, LaunchSearch, TriggerSkipped, TriggerSpawn, TriggerWait,
       TriggerJoined, BeginEagerMerge, EndEagerMerge, Spawn, NextTask, Mergers, LayoutInv,
       TypeOK, MergeTypeOK
  <2> QED BY <2>1, <2>2 DEF NoEagerTask
<1>5. ASSUME NEW a \in Mergers, MergeNext(a) PROVE NoEagerTask'
  <2>1. /\ UNCHANGED todo /\ mergePc[a] # "none"
        /\ \E pc : mergePc' = [mergePc EXCEPT ![a] = pc]
    BY <1>5 DEF MergeNext, SnapshotCounts, SnapshotRwBase, SnapshotRwCount, SnapshotRwMedoid,
       PhaseA, PhaseBGather, PhaseBLink, CopyRW, Swap, ClearBits, ClearCount, FreeOld, Step,
       mainUnchanged, mainVars
  <2>2. a # "main"
    BY <2>1 DEF NoEagerTask
  <2> QED BY <2>1, <2>2 DEF NoEagerTask, LayoutInv, TypeOK, MergeTypeOK
<1>6. CASE Stopped
  BY <1>6 DEF Stopped, vars, mainVars, NoEagerTask
<1> QED BY <1>4, <1>5, <1>6 DEF Next

(* What the main thread does to the window: a chunk makes it longer, and a *)
(* seal leaves its end where it is.                                        *)
LEMMA WindowMoves ==
  ASSUME LayoutInv, MainNext
  PROVE  /\ rwBase \in Nat /\ rwCount \in Nat /\ WindowEnd \in Nat /\ rwBase <= rwBase'
         /\ rwBase <= WindowEnd /\ T \in Nat \ {0} /\ rwCount <= T
         /\ IF InsertChunk THEN WindowEnd' = WindowEnd + Room ELSE WindowEnd' = WindowEnd
         /\ rwBase' = rwBase \/ rwBase' = rwBase + T
<1>1. /\ rwBase \in Nat /\ rwCount \in Nat /\ WindowEnd \in Nat /\ T \in Nat \ {0}
      /\ Room \in Nat /\ rwBase <= WindowEnd /\ rwCount <= T
  <2>1. rwBase \in Nat /\ rwCount \in Nat /\ T \in Nat \ {0} /\ Room \in Nat /\ rwCount <= T
    BY RoomBounds, LayoutAssumption
    DEF LayoutAssumption, LayoutInv, TypeOK, IndexTypeOK, IndexLayout
  <2> QED BY <2>1 DEF WindowEnd
<1>2. CASE InsertChunk
  <2>1. /\ rwBase' = rwBase /\ rwCount' = rwCount + Room
        /\ mainPc = "kernel" /\ mainPc' # "sealCount"
    BY <1>2 DEF InsertChunk
  <2> HIDE DEF Room
  <2> QED BY <1>1, <1>2, <2>1 DEF WindowEnd
<1>3. CASE MoveBase
  <2>1. /\ rwBase' = rwBase + T /\ rwCount' = rwCount /\ rwCount = T
        /\ mainPc = "sealBase" /\ mainPc' = "sealCount"
    BY <1>3 DEF MoveBase, SealBase, SealedRwBase, MainStep, LayoutInv, SealSteps
  <2>2. ~InsertChunk
    BY <2>1 DEF InsertChunk
  <2> QED BY <1>1, <2>1, <2>2 DEF WindowEnd
<1>4. CASE ResetCount
  <2>1. rwBase' = rwBase /\ rwCount' = 0 /\ mainPc = "sealCount" /\ mainPc' = "sealMedoid"
    BY <1>4 DEF ResetCount, SealCount, MainStep
  <2>2. ~InsertChunk
    BY <2>1 DEF InsertChunk
  <2> QED BY <1>1, <2>1, <2>2 DEF WindowEnd
<1>5. ASSUME ~InsertChunk, ~MoveBase, ~ResetCount
      PROVE  /\ UNCHANGED <<rwBase, rwCount>>
             /\ mainPc # "sealCount" /\ mainPc' # "sealCount"
  BY <1>5 DEF MainNext, Flush, EventInsert, EventDelete, EventQuery, EventsOver, Finish,
     BeginInsert, AssignSlots, WindowIsFull, SealRefused, BeginSeal, ResetMedoid, MainStep,
     SealTemp, SealMedoid, EndInsert, FlushDelete, LaunchSearch, Trigger, TriggerSkipped,
     TriggerSpawn, TriggerWait, TriggerJoined, BeginEagerMerge, EndEagerMerge, Resume,
     idxVars, Idle, NextTask
<1> QED BY <1>1, <1>2, <1>3, <1>4, <1>5 DEF WindowEnd

(* The window moves up by what is taken from the pending inserts; only the *)
(* event of an insert adds to these.                                       *)
LEMMA MainMovesWindowUp ==
  ASSUME LayoutInv, MainNext
  PROVE  \E taken \in Nat, more \in {0, 1} :
           /\ taken <= Remaining
           /\ WindowEnd' = WindowEnd + taken
           /\ Remaining' = (Remaining + more) - taken
           /\ numInserts' = numInserts + more
           /\ numInserts <= MaxInserts => numInserts + more <= MaxInserts
<1>1. /\ WindowEnd \in Nat /\ offset \in Nat /\ numInserts \in Nat
      /\ pendingInsertIds \in Seq(Pids) /\ Len(pendingInsertIds) \in Nat
      /\ Remaining \in Nat /\ Room \in Nat /\ Room <= Remaining /\ L \in Nat
      /\ MaxInserts \in Nat
  BY WindowMoves, RoomBounds, LenProperties, LayoutAssumption, BatchAssumption
  DEF LayoutAssumption, BatchAssumption, LayoutInv, TypeOK, MainTypeOK
<1>2. IF InsertChunk THEN WindowEnd' = WindowEnd + Room ELSE WindowEnd' = WindowEnd
  BY WindowMoves
<1> DEFINE Moved(taken, more) ==
             /\ taken <= Remaining
             /\ WindowEnd' = WindowEnd + taken
             /\ Remaining' = (Remaining + more) - taken
             /\ numInserts' = numInserts + more
             /\ numInserts <= MaxInserts => numInserts + more <= MaxInserts
<1>3. ASSUME UNCHANGED <<offset, pendingInsertIds, numInserts>>, ~InsertChunk
      PROVE  Moved(0, 0)
  <2>1. Remaining' = Remaining
    BY <1>3 DEF Remaining
  <2> QED BY <1>1, <1>2, <1>3, <2>1
<1>4. ASSUME NEW p \in Pids, EventInsert(p) PROVE Moved(0, 1)
  <2>1. Len(pendingInsertIds') = Len(pendingInsertIds) + 1
    BY <1>1, <1>4, AppendProperties DEF EventInsert
  <2>2. numInserts' = numInserts + 1 /\ numInserts < MaxInserts /\ offset' = offset
        /\ ~InsertChunk
    BY <1>4 DEF EventInsert, Idle, InsertChunk
  <2>3. Remaining' = Remaining + 1
    BY <1>1, <2>1, <2>2 DEF Remaining
  <2> QED BY <1>1, <1>2, <2>2, <2>3
<1>5. CASE InsertChunk
  <2>1. offset' = offset + Room /\ UNCHANGED <<pendingInsertIds, numInserts>>
    BY <1>5 DEF InsertChunk, pendVars, loadVars
  <2>2. Remaining' = Remaining - Room
    BY <1>1, <2>1 DEF Remaining
  <2>3. Moved(Room, 0)
    BY <1>1, <1>2, <1>5, <2>1, <2>2
  <2> QED BY <1>1, <2>3
<1>6. CASE EndInsert
  <2>1. /\ Remaining <= 0 /\ UNCHANGED numInserts /\ ~InsertChunk
        /\ Len(pendingInsertIds') = 0 /\ offset' = 0
    BY <1>6 DEF EndInsert, loadVars, InsertChunk
  <2>2. Remaining' = 0 /\ Remaining = 0
    BY <1>1, <2>1 DEF Remaining
  <2>3. Moved(0, 0)
    BY <1>1, <1>2, <2>1, <2>2
  <2> QED BY <2>3
<1>7. ASSUME \/ \E p \in Pids : EventDelete(p)
             \/ EventQuery \/ EventsOver \/ Finish \/ BeginInsert \/ AssignSlots \/ WindowIsFull
             \/ SealRefused \/ BeginSeal \/ MoveBase \/ ResetCount \/ ResetMedoid
             \/ FlushDelete \/ LaunchSearch \/ Trigger
      PROVE  UNCHANGED <<offset, pendingInsertIds, numInserts>>
  BY <1>7 DEF EventDelete, EventQuery, EventsOver, Finish, BeginInsert, AssignSlots,
     WindowIsFull, SealRefused, BeginSeal, MoveBase, ResetCount, ResetMedoid, sealUnchanged,
     FlushDelete, LaunchSearch, Trigger, TriggerSkipped, TriggerSpawn, TriggerWait,
     TriggerJoined, BeginEagerMerge, EndEagerMerge, idxVars, pendVars, loadVars
<1> HIDE DEF Moved
<1>8. \E taken \in Nat, more \in {0, 1} : Moved(taken, more)
  <2>1. CASE InsertChunk \/ EndInsert \/ \E p \in Pids : EventInsert(p)
    <3>1. CASE InsertChunk
      BY <1>5, <3>1 DEF Moved
    <3>2. CASE EndInsert
      BY <1>6, <3>2 DEF Moved
    <3>3. ASSUME NEW p \in Pids, EventInsert(p)
          PROVE  \E taken \in Nat, more \in {0, 1} : Moved(taken, more)
      BY <1>4, <3>3
    <3> QED BY <2>1, <3>1, <3>2, <3>3
  <2>2. CASE ~(InsertChunk \/ EndInsert \/ \E p \in Pids : EventInsert(p))
    <3>1. Moved(0, 0)
      BY <1>3, <1>7, <2>2 DEF MainNext, Flush
    <3> QED BY <3>1
  <2> QED BY <2>1, <2>2
<1> QED BY <1>8 DEF Moved

LEMMA MainKeepsInserts ==
  ASSUME LayoutInv, InsertsAccounted, MainNext
  PROVE  InsertsAccounted'
<1>1. PICK taken \in Nat, more \in {0, 1} :
         /\ taken <= Remaining
         /\ WindowEnd' = WindowEnd + taken
         /\ Remaining' = (Remaining + more) - taken
         /\ numInserts' = numInserts + more
         /\ numInserts <= MaxInserts => numInserts + more <= MaxInserts
  BY MainMovesWindowUp
<1>2. WindowEnd \in Nat /\ Remaining \in Nat /\ numInserts \in Nat /\ L \in Nat
  BY WindowMoves, RoomBounds, AccountedIsNat
<1> QED BY <1>1, <1>2 DEF InsertsAccounted

(* Once torn, always torn; and a merge that makes no torn read reads       *)
(* between seals.                                                          *)
LEMMA TornStays ==
  ASSUME LayoutInv, Next, ~tornRead'
  PROVE  /\ ~tornRead
         /\ \A a \in Mergers :
              \/ SnapshotCounts(a) \/ SnapshotRwBase(a) \/ SnapshotRwCount(a) \/ SnapshotRwMedoid(a)
              => ~MidSeal
<1>1. CASE MainNext
  <2>1. tornRead' = tornRead
    BY <1>1 DEF MainNext, Flush, Trigger, EventInsert, EventDelete, EventQuery, EventsOver,
       Finish, BeginInsert, AssignSlots, InsertChunk, WindowIsFull, SealRefused, BeginSeal,
       MoveBase, ResetCount, ResetMedoid, sealUnchanged, EndInsert, FlushDelete,
       LaunchSearch, TriggerSkipped, TriggerSpawn, TriggerWait, TriggerJoined, BeginEagerMerge,
       EndEagerMerge, snapVars
  <2> QED BY <2>1 DEF SnapshotCounts, SnapshotRwBase, SnapshotRwCount, SnapshotRwMedoid, NoteTorn
<1>2. ASSUME NEW a \in Mergers, MergeNext(a) PROVE tornRead' = tornRead \/ NoteTorn
  BY <1>2 DEF MergeNext, SnapshotCounts, SnapshotRwBase, SnapshotRwCount, SnapshotRwMedoid,
     PhaseA, PhaseBGather, PhaseBLink, CopyRW, Swap, ClearBits, ClearCount, FreeOld, snapVars
<1>3. CASE Stopped
  BY <1>3 DEF Stopped, vars, snapVars, SnapshotCounts, SnapshotRwBase, SnapshotRwCount,
     SnapshotRwMedoid, NoteTorn
<1>4. ~tornRead
  BY <1>1, <1>2, <1>3 DEF Next, NoteTorn, LayoutInv, TypeOK, MergeTypeOK, MainNext, Flush,
     Trigger, EventInsert, EventDelete, EventQuery, EventsOver,
     Finish, BeginInsert, AssignSlots, InsertChunk, WindowIsFull, SealRefused, BeginSeal,
     MoveBase, ResetCount, ResetMedoid, sealUnchanged, EndInsert, FlushDelete,
     LaunchSearch, TriggerSkipped, TriggerSpawn, TriggerWait, TriggerJoined, BeginEagerMerge,
     EndEagerMerge, snapVars, Stopped, vars
<1> QED BY <1>4 DEF SnapshotCounts, SnapshotRwBase, SnapshotRwCount, SnapshotRwMedoid, NoteTorn

(* A torn read of the count costs T slots; every other step of a merge     *)
(* leaves the window end, or puts back one that is accounted for.          *)
LEMMA BackgroundKeepsCapacity ==
  ASSUME LayoutInv, CapacityInv, MergeNext("background")
  PROVE  /\ WindowBounded' /\ SnapshotBounded'
         /\ SlotsAccounted' \in Nat /\ SlotsAccounted <= SlotsAccounted'
<1> DEFINE a == "background"
<1> USE LayoutAssumption DEF LayoutAssumption, Mergers, Step, mainUnchanged, mainVars, pendVars,
        loadVars, idxVars, snapVars, CapacityInv, WindowBounded, SnapshotBounded
<1>1. /\ rwBase \in Nat /\ rwCount \in Nat /\ numInserts \in Nat /\ Remaining \in Nat
      /\ newLtiCount[a] \in Nat /\ savedRwCount[a] \in Nat /\ WindowEnd \in Nat
      /\ mergePc \in [Mergers -> MergePcs] /\ SlotsAccounted \in Nat /\ tornCounts \in Nat
      /\ newLtiCount \in [Mergers -> Nat] /\ savedRwCount \in [Mergers -> Nat]
  BY RoomBounds, AccountedIsNat
  DEF LayoutInv, TypeOK, IndexTypeOK, MainTypeOK, MergeTypeOK, WindowEnd
<1>2. /\ UNCHANGED <<mainPc, numInserts, offset, pendingInsertIds>> /\ Remaining' = Remaining
  BY DEF MergeNext, SnapshotCounts, SnapshotRwBase, SnapshotRwCount, SnapshotRwMedoid,
     PhaseA, PhaseBGather, PhaseBLink, CopyRW, Swap, ClearBits, ClearCount, FreeOld, Remaining
<1>3. SlotsAccounted' = IF SnapshotRwCount(a) /\ CountedTwice
                        THEN SlotsAccounted + T ELSE SlotsAccounted
  <2>1. tornCounts' = IF SnapshotRwCount(a) /\ CountedTwice THEN tornCounts + 1 ELSE tornCounts
    <3>1. CASE SnapshotRwCount(a)
      <4>1. tornCounts' = tornCounts + (IF CountedTwice THEN 1 ELSE 0)
        BY <3>1 DEF SnapshotRwCount
      <4> QED BY <1>1, <3>1, <4>1
    <3>2. CASE ~SnapshotRwCount(a)
      <4>1. tornCounts' = tornCounts
        BY <3>2 DEF MergeNext, SnapshotCounts, SnapshotRwBase, SnapshotRwMedoid,
           PhaseA, PhaseBGather, PhaseBLink, CopyRW, Swap, ClearBits, ClearCount, FreeOld
      <4> QED BY <3>2, <4>1
    <3> QED BY <3>1, <3>2
  <2>2. (tornCounts + 1) * T = tornCounts * T + T
    BY <1>1
  <2>3. tornCounts' * T = IF SnapshotRwCount(a) /\ CountedTwice THEN tornCounts * T + T
                          ELSE tornCounts * T
    BY <2>1, <2>2
  <2> DEFINE x == tornCounts * T  y == tornCounts' * T
  <2>4. x \in Nat /\ L \in Nat /\ SlotsAccounted = L + numInserts + x
        /\ SlotsAccounted' = L + numInserts + y
        /\ y = IF SnapshotRwCount(a) /\ CountedTwice THEN x + T ELSE x
    BY <1>2, <2>3, AccountedIsNat DEF SlotsAccounted
  <2> HIDE DEF x, y
  <2> QED BY <1>1, <2>4
<1>4. ASSUME ~Swap(a) PROVE UNCHANGED <<rwBase, rwCount>> /\ WindowEnd' = WindowEnd
  BY <1>2, <1>4 DEF MergeNext, SnapshotCounts, SnapshotRwBase, SnapshotRwCount,
     SnapshotRwMedoid, PhaseA, PhaseBGather, PhaseBLink, CopyRW, ClearBits, ClearCount,
     FreeOld, WindowEnd
<1>5. CASE SnapshotCounts(a)
  <2>1. /\ newLtiCount'[a] = rwBase + (IF mainPc = "sealBase" THEN T ELSE 0)
        /\ mergePc'[a] = "base" /\ ~Swap(a) /\ ~SnapshotRwCount(a)
    BY <1>1, <1>5
    DEF SnapshotCounts, SnapshotRwCount, MergedSlots, Swap, LayoutInv, IndexLayout, SealedRwBase
  <2> HIDE DEF WindowEnd, Remaining
  <2> QED BY <1>1, <1>2, <1>3, <1>4, <2>1 DEF CountRead
<1>6. CASE SnapshotRwCount(a)
  <2>1. /\ savedRwCount'[a] = rwCount /\ mergePc'[a] = "medoid" /\ mergePc[a] = "count"
        /\ UNCHANGED newLtiCount /\ ~Swap(a)
    BY <1>1, <1>6 DEF SnapshotRwCount, Swap
  <2>2. newLtiCount[a] <= rwBase + (IF mainPc = "sealBase" THEN T ELSE 0)
    BY <2>1 DEF Snapshotted
  <2>3. newLtiCount[a] + rwCount <= WindowEnd + (IF CountedTwice THEN T ELSE 0)
    <3>1. CASE mainPc = "sealBase"
      BY <1>1, <2>2, <3>1 DEF WindowEnd, CountedTwice, LayoutInv, SealSteps
    <3>2. CASE mainPc = "sealCount"
      BY <1>1, <2>2, <3>2 DEF WindowEnd, CountedTwice, LayoutInv, SealSteps
    <3>3. CASE ~CountedTwice
      BY <1>1, <2>2, <3>3 DEF WindowEnd, CountedTwice
    <3> QED BY <3>1, <3>2, <3>3 DEF CountedTwice
  <2>4. WindowBounded'
    <3> HIDE DEF WindowEnd, Remaining, SlotsAccounted
    <3> QED BY <1>1, <1>2, <1>3, <1>4, <2>1
  <2>5. newLtiCount[a] + rwCount + Remaining <= SlotsAccounted'
    <3> HIDE DEF WindowEnd, Remaining, SlotsAccounted
    <3> QED BY <1>1, <1>3, <1>6, <2>3
  <2>6. SnapshotBounded'
    <3> HIDE DEF WindowEnd, Remaining, SlotsAccounted
    <3> QED BY <1>1, <1>2, <1>4, <2>1, <2>2, <2>5
  <2> HIDE DEF SlotsAccounted
  <2> QED BY <1>1, <1>3, <2>4, <2>6
<1>7. CASE Swap(a)
  <2>1. /\ rwBase' = newLtiCount[a] /\ rwCount' = savedRwCount[a]
        /\ mergePc[a] = "swap" /\ mergePc'[a] = "clear" /\ mainPc # "sealCount"
        /\ ~SnapshotRwCount(a)
    BY <1>1, <1>7 DEF Swap, SnapshotRwCount, LayoutInv, LockHeld, SealPcs
  <2>2. newLtiCount[a] + savedRwCount[a] + Remaining <= SlotsAccounted
    BY <2>1 DEF CountRead
  <2>3. mergePc'[a] \notin Snapshotted /\ mergePc'[a] \notin CountRead
    BY <2>1 DEF Snapshotted, CountRead
  <2>4. WindowEnd' = newLtiCount[a] + savedRwCount[a]
    BY <1>2, <2>1 DEF WindowEnd
  <2>5. WindowEnd' + Remaining' <= SlotsAccounted'
    <3> HIDE DEF Remaining, WindowEnd, SlotsAccounted
    <3> QED BY <1>1, <1>2, <1>3, <2>1, <2>2, <2>4
  <2> HIDE DEF SlotsAccounted
  <2> QED BY <1>1, <1>3, <2>1, <2>3, <2>5
<1>8. ASSUME \/ SnapshotRwBase(a) \/ SnapshotRwMedoid(a) \/ PhaseA(a) \/ PhaseBGather(a)
             \/ PhaseBLink(a) \/ CopyRW(a) \/ ClearBits(a) \/ ClearCount(a) \/ FreeOld(a)
      PROVE  /\ WindowBounded' /\ SnapshotBounded'
             /\ SlotsAccounted' \in Nat /\ SlotsAccounted <= SlotsAccounted'
  <2>1. /\ mergePc'[a] \in Snapshotted =>
             mergePc[a] \in Snapshotted /\ UNCHANGED newLtiCount
        /\ mergePc'[a] \in CountRead =>
             mergePc[a] \in CountRead /\ UNCHANGED <<newLtiCount, savedRwCount>>
        /\ ~Swap(a) /\ ~SnapshotRwCount(a)
    BY <1>1, <1>8 DEF SnapshotRwBase, SnapshotRwCount, SnapshotRwMedoid, PhaseA, PhaseBGather,
       PhaseBLink, CopyRW, Swap, ClearBits, ClearCount, FreeOld, Snapshotted, CountRead
  <2> HIDE DEF WindowEnd, Remaining, Snapshotted, CountRead, SlotsAccounted
  <2> QED BY <1>1, <1>2, <1>3, <1>4, <2>1
<1> QED BY <1>5, <1>6, <1>7, <1>8 DEF MergeNext

LEMMA CapacityStutter == CapacityInv /\ UNCHANGED vars => CapacityInv'
BY DEF vars, mainVars, idxVars, pendVars, loadVars, snapVars, CapacityInv, NoEagerTask,
   WindowBounded, SnapshotBounded, WindowEnd, Remaining, SlotsAccounted

(* What a step of the main thread leaves alone.                            *)
LEMMA MainKeepsSnapshot ==
  ASSUME LayoutInv, MainNext
  PROVE  /\ mergePc'["background"] \in Snapshotted => mergePc'["background"] = mergePc["background"]
         /\ UNCHANGED <<newLtiCount, savedRwCount, tornCounts>>
BY DEF MainNext, Flush, Trigger, EventInsert, EventDelete, EventQuery, EventsOver,
   Finish, BeginInsert, AssignSlots, InsertChunk, WindowIsFull, SealRefused, BeginSeal,
   MoveBase, ResetCount, ResetMedoid, sealUnchanged, EndInsert, FlushDelete,
   LaunchSearch, TriggerSkipped, TriggerSpawn, TriggerWait, TriggerJoined, BeginEagerMerge,
   EndEagerMerge, Spawn, Mergers, Snapshotted, snapVars, LayoutInv, TypeOK, MergeTypeOK

LEMMA MainKeepsBounds ==
  ASSUME LayoutInv, CapacityInv, MainNext
  PROVE  /\ WindowBounded' /\ SnapshotBounded'
         /\ SlotsAccounted' \in Nat /\ SlotsAccounted <= SlotsAccounted'
<1> DEFINE new == newLtiCount["background"]  saved == savedRwCount["background"]
<1>1. PICK taken \in Nat, more \in {0, 1} :
         /\ taken <= Remaining
         /\ WindowEnd' = WindowEnd + taken
         /\ Remaining' = (Remaining + more) - taken
         /\ numInserts' = numInserts + more
  BY MainMovesWindowUp
<1>2. new \in Nat /\ saved \in Nat
  BY DEF LayoutInv, TypeOK, MergeTypeOK, Mergers
<1>3. /\ WindowEnd \in Nat /\ Remaining \in Nat /\ numInserts \in Nat /\ rwBase \in Nat
      /\ T \in Nat /\ (rwBase' = rwBase \/ rwBase' = rwBase + T)
  BY WindowMoves, RoomBounds, AccountedIsNat
<1>4. SlotsAccounted \in Nat /\ SlotsAccounted' = SlotsAccounted + more
  <2> DEFINE x == tornCounts * T
  <2>1. x \in Nat /\ L \in Nat /\ SlotsAccounted = L + numInserts + x
        /\ SlotsAccounted' = L + numInserts' + x
    BY AccountedIsNat, MainKeepsSnapshot DEF SlotsAccounted
  <2> HIDE DEF x
  <2> QED BY <1>1, <1>3, <2>1
<1>5. mainPc = "sealBase" /\ mainPc' # "sealBase" => rwBase' = rwBase + T
  BY DEF MainNext, Flush, Trigger, EventInsert, EventDelete, EventQuery, EventsOver,
     Finish, BeginInsert, AssignSlots, InsertChunk, WindowIsFull, SealRefused, BeginSeal,
     MoveBase, SealBase, SealedRwBase, ResetCount, ResetMedoid, MainStep, EndInsert, FlushDelete,
     LaunchSearch, TriggerSkipped, TriggerSpawn, TriggerWait, TriggerJoined, BeginEagerMerge,
     EndEagerMerge, Idle, NextTask
<1>6. /\ mergePc'["background"] \in Snapshotted => mergePc["background"] \in Snapshotted
      /\ mergePc'["background"] \in CountRead => mergePc["background"] \in CountRead
      /\ newLtiCount' = newLtiCount /\ savedRwCount' = savedRwCount
  BY MainKeepsSnapshot DEF Snapshotted, CountRead
<1> USE DEF CapacityInv, WindowBounded, SnapshotBounded
<1>7. WindowBounded' /\ SlotsAccounted' \in Nat /\ SlotsAccounted <= SlotsAccounted'
  BY <1>1, <1>3, <1>4
<1>8. mergePc'["background"] \in CountRead => new + saved + Remaining' <= SlotsAccounted'
  BY <1>1, <1>2, <1>3, <1>4, <1>6
<1>9. mergePc'["background"] \in Snapshotted =>
        new <= rwBase' + (IF mainPc' = "sealBase" THEN T ELSE 0)
  BY <1>2, <1>3, <1>5, <1>6
<1> QED BY <1>6, <1>7, <1>8, <1>9

LEMMA CapacityStep ==
  ASSUME ~EagerMerge, LayoutInv, CapacityInv, Next
  PROVE  CapacityInv'
<1>0. SlotsAccounted \in Nat /\ Capacity \in Nat
  BY AccountedIsNat
<1>1. CASE MainNext
  <2>1. NoEagerTask'
    BY <1>1, NoEagerTaskKept DEF CapacityInv, Next
  <2>2. /\ WindowBounded' /\ SnapshotBounded'
        /\ SlotsAccounted' \in Nat /\ SlotsAccounted <= SlotsAccounted'
    BY <1>1, MainKeepsBounds
  <2>3. mainPc' = "overrun" => SlotsAccounted' > Capacity
    <3>1. CASE AssignSlots
      <4>1. mainPc' = "overrun" => FirstSlot + Room > Capacity
        BY <3>1, ChunkFacts DEF AssignSlots
      <4>2. /\ FirstSlot = WindowEnd /\ FirstSlot \in Nat /\ Room \in Nat /\ Remaining \in Nat
            /\ Room <= Remaining
        BY <1>1, <3>1, WindowMoves, RoomBounds DEF AssignSlots, FirstSlot, WindowEnd
      <4>3. FirstSlot + Remaining <= SlotsAccounted
        BY <4>2 DEF CapacityInv, WindowBounded
      <4> HIDE DEF FirstSlot, Room, Remaining, SlotsAccounted
      <4> QED BY <1>0, <2>2, <4>1, <4>2, <4>3
    <3>2. CASE ~AssignSlots
      <4>1. mainPc' # "overrun"
        BY <1>1, <3>2 DEF MainNext, Flush, Trigger, EventInsert, EventDelete,
         EventQuery, EventsOver, Finish, BeginInsert, InsertChunk, WindowIsFull, SealRefused,
         BeginSeal, MoveBase, ResetCount, ResetMedoid, MainStep, EndInsert, Idle, NextTask,
         FlushDelete, LaunchSearch, TriggerSkipped, TriggerSpawn, TriggerWait, TriggerJoined,
         BeginEagerMerge, EndEagerMerge, Resume
      <4> QED BY <4>1
    <3> QED BY <3>1, <3>2
  <2> QED BY <2>1, <2>2, <2>3 DEF CapacityInv
<1>2. ASSUME NEW a \in Mergers, MergeNext(a) PROVE CapacityInv'
  <2>1. NoEagerTask'
    BY <1>2, NoEagerTaskKept DEF CapacityInv, Next
  <2>2. mergePc[a] # "none" /\ UNCHANGED mainPc
    BY <1>2 DEF MergeNext, SnapshotCounts, SnapshotRwBase, SnapshotRwCount, SnapshotRwMedoid,
       PhaseA, PhaseBGather, PhaseBLink, CopyRW, Swap, ClearBits, ClearCount, FreeOld, Step,
       mainUnchanged, mainVars
  <2>3. a = "background"
    BY <2>2 DEF CapacityInv, NoEagerTask, Mergers
  <2>4. /\ WindowBounded' /\ SnapshotBounded'
        /\ SlotsAccounted' \in Nat /\ SlotsAccounted <= SlotsAccounted'
    BY <1>2, <2>3, BackgroundKeepsCapacity
  <2> HIDE DEF SlotsAccounted
  <2> QED BY <1>0, <2>1, <2>2, <2>4 DEF CapacityInv
<1>3. CASE Stopped
  BY <1>3, CapacityStutter DEF Stopped
<1> QED BY <1>1, <1>2, <1>3 DEF Next

(* No interleaving of inserts, seals and background merges hands out more  *)
(* slots than the inserts made and T for each merge that read the count of *)
(* a window being sealed, nor overruns an allocation that holds these.     *)
THEOREM CapacityHolds ==
  ASSUME ~EagerMerge
  PROVE  Spec => []WithinCapacity
<1>1. LayoutInv /\ CapacityInv => WithinCapacity
  <2> SUFFICES ASSUME LayoutInv, CapacityInv PROVE WithinCapacity
    OBVIOUS
  <2>1. WindowEnd \in Nat /\ Remaining \in Nat /\ SlotsAccounted \in Nat
    BY RoomBounds, AccountedIsNat DEF LayoutInv, TypeOK, IndexTypeOK, WindowEnd
  <2>2. WindowEnd + Remaining <= SlotsAccounted
    BY DEF CapacityInv, WindowBounded
  <2> HIDE DEF WindowEnd, Remaining, SlotsAccounted
  <2> QED BY <2>1, <2>2 DEF CapacityInv, WithinCapacity
<1>2. LayoutInv /\ CapacityInv /\ [Next]_vars => CapacityInv'
  BY CapacityStep, CapacityStutter
<1> QED BY <1>1, <1>2, LayoutInit, LayoutStep, CapacityInit, PTL DEF Spec

-----------------------------------------------------------------------------
(* Thread hand-over and the LTI.                                           *)

(* A background merge is started only where none runs: at once if there is *)
(* no thread, after the join if there is one.                              *)
THEOREM SpawnHolds == Spec => SpawnAfterJoin
<1> DEFINE Started == mergePc'["background"] = "start" /\ mergePc["background"] # "start"
<1>1. ASSUME LayoutInv, Next, Started PROVE ~Running("background")
  <2>1. mergePc \in [Mergers -> MergePcs]
    BY <1>1 DEF LayoutInv, TypeOK, MergeTypeOK
  <2>2. CASE MainNext
    BY <1>1, <2>1, <2>2 DEF MainNext, Flush, Trigger, EventInsert, EventDelete, EventQuery,
       EventsOver, Finish, BeginInsert, AssignSlots, InsertChunk, WindowIsFull, SealRefused, BeginSeal,
         MoveBase, ResetCount, ResetMedoid, sealUnchanged, MainStep, EndInsert,
       FlushDelete, LaunchSearch, TriggerSkipped, TriggerSpawn, TriggerWait, TriggerJoined,
       BeginEagerMerge, EndEagerMerge, Spawn, Joinable, Running, Mergers
  <2>3. ASSUME NEW a \in Mergers, MergeNext(a) PROVE FALSE
    BY <1>1, <2>1, <2>3 DEF MergeNext, SnapshotCounts, SnapshotRwBase, SnapshotRwCount,
       SnapshotRwMedoid, PhaseA, PhaseBGather, PhaseBLink, CopyRW, Swap, ClearBits,
       ClearCount, FreeOld, Step, Mergers
  <2>4. CASE Stopped
    BY <1>1, <2>4 DEF Stopped, vars
  <2> QED BY <1>1, <2>2, <2>3, <2>4 DEF Next
<1>2. LayoutInv /\ [Next]_vars => [Started => ~Running("background")]_vars
  BY <1>1
<1> QED BY <1>2, LayoutInit, LayoutStep, PTL DEF Spec, SpawnAfterJoin

-----------------------------------------------------------------------------
(* Buffers and the LTI, when only the background thread merges.  A merge   *)
(* builds beside the live buffer and frees the one it replaced; from Phase *)
(* A to the swap the copy agrees with the live LTI but for tombstones,     *)
(* which only grow meanwhile.                                              *)

bg == "background"
Consolidated == {"gather", "link", "copy", "swap"}

BuffersExact ==
  /\ Building(bg) => newGraph[bg] # cur /\ allocated = {cur, newGraph[bg]}
  /\ Published(bg) => oldGraph[bg] # cur /\ allocated = {cur, oldGraph[bg]}
  /\ ~Building(bg) /\ ~Published(bg) => allocated = {cur}
CopyAgrees ==
  /\ mergePc[bg] \in Snapshotted => ltiCount <= newLtiCount[bg]
  /\ mergePc[bg] \in Consolidated =>
       \A s \in Slots : s < ltiCount /\ s \notin delBits
         => graph[newGraph[bg]][s] = graph[cur][s]
BufferInv == NoEagerTask /\ BuffersExact /\ CopyAgrees

LtiKept ==
  /\ ltiCount' >= ltiCount
  /\ \A s \in Slots : s < ltiCount /\ s \notin delBits
       => graph'[cur'][s] = graph[cur][s]

LEMMA BufferInit == Init => BufferInv
<1> SUFFICES ASSUME Init PROVE BufferInv
  OBVIOUS
<1>1. NoEagerTask
  BY CapacityInit DEF CapacityInv
<1>2. mergePc[bg] = "none" /\ allocated = {cur}
  BY DEF Init, IndexInit, ExecutorInit, bg, Mergers
<1> QED BY <1>1, <1>2 DEF BufferInv, BuffersExact, CopyAgrees, Building, Published,
        Snapshotted, Consolidated

(* The main thread leaves the buffers, the LTI's count and what a merge    *)
(* keeps alone, and starts a background merge only where none runs.        *)
LEMMA MainFrame ==
  ASSUME LayoutInv, MainNext
  PROVE  /\ UNCHANGED <<cur, allocated, ltiCount, snapVars>>
         /\ delBits \subseteq delBits'
         /\ mergePc'[bg] = mergePc[bg]
            \/ (mergePc[bg] \in {"none", "exited"} /\ mergePc'[bg] \in {"none", "start"})
<1>1. mergePc \in [Mergers -> MergePcs]
  BY DEF LayoutInv, TypeOK, MergeTypeOK
<1>2. UNCHANGED <<cur, allocated, ltiCount, snapVars>>
  BY DEF MainNext, Flush, Trigger, EventInsert, EventDelete, EventQuery, EventsOver, Finish,
     BeginInsert, AssignSlots, InsertChunk, WindowIsFull, SealRefused, BeginSeal,
         MoveBase, ResetCount, ResetMedoid, sealUnchanged, MainStep, EndInsert, FlushDelete, LaunchSearch,
     TriggerSkipped, TriggerSpawn, TriggerWait, TriggerJoined, BeginEagerMerge,
     EndEagerMerge, SealTemp, SealBase, SealCount, SealMedoid, idxVars, bufVars, snapVars
<1>3. delBits \subseteq delBits'
  <2>1. FlushDelete => delBits \subseteq delBits'
    BY DEF FlushDelete, BatchMarkDeleted
  <2>2. ~FlushDelete => UNCHANGED delBits
    BY DEF MainNext, Flush, Trigger, EventInsert, EventDelete, EventQuery, EventsOver, Finish,
       BeginInsert, AssignSlots, InsertChunk, WindowIsFull, SealRefused, BeginSeal,
         MoveBase, ResetCount, ResetMedoid, sealUnchanged, MainStep, EndInsert, LaunchSearch,
       TriggerSkipped, TriggerSpawn, TriggerWait, TriggerJoined, BeginEagerMerge,
       EndEagerMerge, delVars
  <2> QED BY <2>1, <2>2
<1>4. mergePc'[bg] = mergePc[bg]
      \/ (mergePc[bg] \in {"none", "exited"} /\ mergePc'[bg] \in {"none", "start"})
  <2>1. CASE Finish
    BY <1>1, <2>1 DEF Finish, Mergers, bg
  <2>2. CASE TriggerSpawn \/ TriggerJoined
    BY <1>1, <2>2 DEF TriggerSpawn, TriggerJoined, Spawn, Joinable, Mergers, bg
  <2>3. CASE BeginEagerMerge \/ EndEagerMerge
    BY <1>1, <2>3 DEF BeginEagerMerge, EndEagerMerge, Mergers, bg
  <2>4. ASSUME ~Finish, ~TriggerSpawn, ~TriggerJoined, ~BeginEagerMerge, ~EndEagerMerge
        PROVE  UNCHANGED mergePc
    BY <2>4 DEF MainNext, Flush, Trigger, EventInsert, EventDelete, EventQuery, EventsOver,
       BeginInsert, AssignSlots, InsertChunk, WindowIsFull, SealRefused, BeginSeal,
         MoveBase, ResetCount, ResetMedoid, sealUnchanged, MainStep, EndInsert, FlushDelete,
       LaunchSearch, TriggerSkipped, TriggerWait
  <2> QED BY <2>1, <2>2, <2>3, <2>4
<1> QED BY <1>2, <1>3, <1>4

(* The window lies after the LTI, also where a seal is half made.          *)
LEMMA WindowAfterLti ==
  ASSUME LayoutInv
  PROVE  /\ rwBase \in Nat /\ rwCount \in Nat /\ WindowEnd \in Nat /\ ltiCount \in Nat
         /\ T \in Nat \ {0} /\ rwCount <= T /\ ltiCount <= rwBase /\ rwBase <= WindowEnd
         /\ MergedSlots \in Nat
<1>1. /\ rwBase \in Nat /\ rwCount \in Nat /\ ltiCount \in Nat /\ rwCount <= T
      /\ T \in Nat \ {0} /\ numActiveTemps \in Nat /\ numActiveTemps * T \in Nat
  BY LayoutAssumption DEF LayoutAssumption, LayoutInv, TypeOK, IndexTypeOK, IndexLayout
<1>2. WindowEnd \in Nat /\ rwBase <= WindowEnd
  BY <1>1 DEF WindowEnd
<1>3. ltiCount <= rwBase
  <2>1. CASE mainPc = "sealBase"
    <3>1. numActiveTemps > 0 /\ rwBase + T = ltiCount + numActiveTemps * T
      BY <2>1 DEF LayoutInv, SealSteps, IndexLayout, SealedRwBase
    <3> DEFINE k == numActiveTemps - 1  m == k * T
    <3>2. numActiveTemps = k + 1 /\ k \in Nat
      BY <1>1, <3>1
    <3> HIDE DEF k
    <3>3. numActiveTemps * T = m + T /\ m \in Nat
      BY <1>1, <3>2
    <3> HIDE DEF m
    <3> QED BY <1>1, <3>1, <3>3
  <2>2. CASE mainPc # "sealBase"
    <3>1. rwBase = ltiCount + numActiveTemps * T
      BY <2>2 DEF LayoutInv, IndexLayout
    <3> DEFINE m == numActiveTemps * T
    <3> HIDE DEF m
    <3> QED BY <1>1, <3>1 DEF m
  <2> QED BY <2>1, <2>2
<1> QED BY <1>1, <1>2, <1>3 DEF MergedSlots

(* The main thread writes past the LTI, adds tombstones, and starts a      *)
(* merge only where none runs.                                             *)
LEMMA MainKeepsBuffers ==
  ASSUME LayoutInv, BufferInv, MainNext
  PROVE  LtiKept /\ BuffersExact' /\ CopyAgrees'
<1>1. /\ UNCHANGED <<cur, allocated, ltiCount, newGraph, oldGraph, newLtiCount>>
      /\ delBits \subseteq delBits'
      /\ mergePc'[bg] = mergePc[bg]
         \/ (mergePc[bg] \in {"none", "exited"} /\ mergePc'[bg] \in {"none", "start"})
  BY MainFrame DEF snapVars
<1>2. ltiCount <= FirstSlot /\ ltiCount \in Nat /\ FirstSlot \in Nat
  BY WindowAfterLti DEF FirstSlot
<1>3. \A b \in Buffers : \A s \in Slots : s < ltiCount \/ b # cur => graph'[b][s] = graph[b][s]
  <2>1. CASE InsertChunk
    <3>1. graph' = [graph EXCEPT ![cur] = GraphAfterChunk]
      BY <2>1 DEF InsertChunk
    <3>2. \A s \in Slots : s < ltiCount => s \notin ChunkSlots
      BY <1>2, ChunkFacts DEF ChunkSlots, Slots
    <3>3. graph \in [Buffers -> [Slots -> Pids \cup {NoPid}]] /\ cur \in Buffers
      BY DEF LayoutInv, TypeOK, GraphTypeOK
    <3> QED BY <3>1, <3>2, <3>3 DEF GraphAfterChunk
  <2>2. CASE ~InsertChunk
    <3>1. UNCHANGED graph
      BY <2>2 DEF MainNext, Flush, Trigger, EventInsert, EventDelete, EventQuery, EventsOver,
         Finish, BeginInsert, AssignSlots, WindowIsFull, SealRefused, BeginSeal,
         MoveBase, ResetCount, ResetMedoid, sealUnchanged, MainStep, EndInsert, FlushDelete, LaunchSearch,
         TriggerSkipped, TriggerSpawn, TriggerWait, TriggerJoined, BeginEagerMerge,
         EndEagerMerge, bufVars
    <3> QED BY <3>1
  <2> QED BY <2>1, <2>2
<1>4. cur \in Buffers /\ newGraph[bg] \in Buffers
  BY DEF LayoutInv, TypeOK, GraphTypeOK, MergeTypeOK, Mergers, bg
<1>5. LtiKept
  BY <1>1, <1>2, <1>3, <1>4 DEF LtiKept
<1>6. BuffersExact'
  BY <1>1 DEF BufferInv, BuffersExact, Building, Published
<1>7. CopyAgrees'
  BY <1>1, <1>3, <1>4 DEF BufferInv, CopyAgrees, Snapshotted, Consolidated
<1> QED BY <1>5, <1>6, <1>7

LEMMA MergeKeepsBuffers ==
  ASSUME LayoutInv, BufferInv, MergeNext(bg)
  PROVE  LtiKept /\ BuffersExact' /\ CopyAgrees'
<1> USE DEF Step, idxVars, bufVars, delVars, snapVars, Building, Published, Snapshotted,
        Consolidated, LtiKept, BuffersExact, CopyAgrees
<1>1. /\ bg \in Mergers /\ mergePc \in [Mergers -> MergePcs]
      /\ newGraph \in [Mergers -> Buffers] /\ oldGraph \in [Mergers -> Buffers]
      /\ newLtiCount \in [Mergers -> Nat]
      /\ graph \in [Buffers -> [Slots -> Pids \cup {NoPid}]]
      /\ cur \in Buffers /\ allocated \subseteq Buffers
      /\ ltiCount \in Nat /\ rwBase \in Nat /\ ltiCount <= rwBase
  BY WindowAfterLti DEF LayoutInv, TypeOK, GraphTypeOK, MergeTypeOK, Mergers, bg
<1> USE DEF BufferInv
<1>2. CASE SnapshotCounts(bg)
  <2>1. newLtiCount'[bg] >= ltiCount /\ mergePc[bg] = "start" /\ mergePc'[bg] = "base"
    <3> HIDE DEF MergedSlots
    <3> QED BY <1>1, <1>2, WindowAfterLti DEF SnapshotCounts
  <2> QED BY <1>1, <1>2, <2>1 DEF SnapshotCounts
<1>3. CASE SnapshotRwBase(bg) \/ SnapshotRwCount(bg)
  BY <1>1, <1>3 DEF SnapshotRwBase, SnapshotRwCount
<1>4. CASE SnapshotRwMedoid(bg)
  <2>1. PICK b \in Buffers : /\ b \notin allocated
                             /\ graph' = [graph EXCEPT ![b] = Zeroed]
                             /\ newGraph' = [newGraph EXCEPT ![bg] = b]
                             /\ allocated' = allocated \cup {b}
    BY <1>1, <1>4, FreeBufferIsFree DEF SnapshotRwMedoid
  <2>2. /\ mergePc[bg] = "medoid" /\ mergePc'[bg] = "phaseA"
        /\ UNCHANGED <<cur, ltiCount, newLtiCount, delBits>>
    BY <1>1, <1>4 DEF SnapshotRwMedoid
  <2> QED BY <1>1, <2>1, <2>2
<1>5. CASE PhaseA(bg)
  <2>1. /\ mergePc[bg] = "phaseA" /\ mergePc'[bg] = "gather"
        /\ UNCHANGED <<cur, allocated, ltiCount, newLtiCount, delBits, newGraph, oldGraph>>
    BY <1>1, <1>5 DEF PhaseA
  <2>2. \A s \in Slots : s < ltiCount /\ s \notin delBits
          => graph'[newGraph[bg]][s] = graph[cur][s]
    BY <1>1, <1>5 DEF PhaseA, PhaseAEnd, Slots
  <2>3. graph'[cur] = graph[cur]
    BY <1>1, <1>5, <2>1 DEF PhaseA
  <2> QED BY <1>1, <2>1, <2>2, <2>3
<1>6. CASE PhaseBGather(bg) \/ CopyRW(bg)
  <2>1. /\ mergePc[bg] \in {"gather", "copy"} /\ mergePc'[bg] \in {"link", "copy", "swap"}
        /\ UNCHANGED <<cur, allocated, ltiCount, newLtiCount, delBits, newGraph, oldGraph>>
    BY <1>1, <1>6 DEF PhaseBGather, CopyRW
  <2>2. \A s \in Slots : graph'[newGraph[bg]][s] \in {graph[cur][s], graph[newGraph[bg]][s]}
    BY <1>1, <1>6 DEF PhaseBGather, CopyRW
  <2>3. graph'[cur] = graph[cur]
    BY <1>1, <1>6, <2>1 DEF PhaseBGather, CopyRW
  <2> QED BY <1>1, <2>1, <2>2, <2>3
<1>7. CASE PhaseBLink(bg)
  BY <1>1, <1>7 DEF PhaseBLink
<1>8. CASE Swap(bg)
  <2>1. /\ mergePc[bg] = "swap" /\ mergePc'[bg] = "clear"
        /\ cur' = newGraph[bg] /\ oldGraph'[bg] = cur /\ ltiCount' = newLtiCount[bg]
        /\ UNCHANGED <<graph, allocated, delBits>>
    BY <1>1, <1>8 DEF Swap
  <2> QED BY <1>1, <2>1
<1>9. CASE ClearBits(bg) \/ ClearCount(bg)
  <2>1. /\ Published(bg) /\ Published(bg)'
        /\ UNCHANGED <<cur, graph, allocated, ltiCount, newGraph, oldGraph>>
    BY <1>1, <1>9 DEF ClearBits, ClearCount
  <2> QED BY <1>1, <2>1
<1>10. CASE FreeOld(bg)
  <2>1. /\ mergePc[bg] = "free" /\ mergePc'[bg] = "exited"
        /\ allocated' = allocated \ {oldGraph[bg]}
        /\ graph' = [graph EXCEPT ![oldGraph[bg]] = Zeroed]
        /\ UNCHANGED <<cur, ltiCount>>
    BY <1>1, <1>10 DEF FreeOld, BufferToFree
  <2> QED BY <1>1, <2>1
<1> QED BY <1>2, <1>3, <1>4, <1>5, <1>6, <1>7, <1>8, <1>9, <1>10 DEF MergeNext

LEMMA BufferStutter == BufferInv /\ UNCHANGED vars => BufferInv'
BY DEF vars, idxVars, bufVars, delVars, mainVars, snapVars, BufferInv, NoEagerTask, BuffersExact,
   CopyAgrees, Building, Published

LEMMA BufferStep ==
  ASSUME ~EagerMerge, LayoutInv, BufferInv, Next
  PROVE  BufferInv' /\ (LtiKept \/ UNCHANGED vars)
<1>1. NoEagerTask'
  BY NoEagerTaskKept DEF BufferInv
<1>2. CASE MainNext
  BY <1>1, <1>2, MainKeepsBuffers DEF BufferInv
<1>3. ASSUME NEW a \in Mergers, MergeNext(a) PROVE BufferInv' /\ LtiKept
  <2>1. mergePc[a] # "none"
    BY <1>3 DEF MergeNext, SnapshotCounts, SnapshotRwBase, SnapshotRwCount, SnapshotRwMedoid,
       PhaseA, PhaseBGather, PhaseBLink, CopyRW, Swap, ClearBits, ClearCount, FreeOld, Step
  <2>2. a = bg
    BY <2>1 DEF BufferInv, NoEagerTask, Mergers, bg
  <2> QED BY <1>1, <1>3, <2>2, MergeKeepsBuffers DEF BufferInv
<1>4. CASE Stopped
  BY <1>1, <1>4, BufferStutter DEF Stopped
<1> QED BY <1>2, <1>3, <1>4 DEF Next

(* The live buffer is never freed and a merge never builds in it.          *)
THEOREM LiveBufferHolds == ASSUME ~EagerMerge PROVE Spec => []LiveBufferKept
<1>1. LayoutInv /\ BufferInv => LiveBufferKept
  <2> SUFFICES ASSUME LayoutInv, BufferInv PROVE LiveBufferKept
    OBVIOUS
  <2>1. mergePc["main"] = "none"
    BY DEF BufferInv, NoEagerTask
  <2>2. \E b \in Buffers : allocated = {cur, b}
    BY DEF LayoutInv, TypeOK, GraphTypeOK, MergeTypeOK, Mergers, bg, BufferInv, BuffersExact
  <2>3. Cardinality(allocated) <= 2
    <3>1. PICK b \in Buffers : allocated = {cur, b}
      BY <2>2
    <3>2. IsFiniteSet({cur}) /\ Cardinality({cur}) = 1
      BY FS_Singleton
    <3>3. Cardinality({cur} \cup {b}) <= 2
      BY <3>2, FS_AddElement
    <3> QED BY <3>1, <3>3
  <2> QED BY <2>1, <2>2, <2>3
      DEF LiveBufferKept, BufferInv, BuffersExact, Building, Published, Mergers, bg
<1>2. LayoutInv /\ BufferInv /\ [Next]_vars => (LayoutInv /\ BufferInv)'
  BY LayoutStep, BufferStep, BufferStutter
<1> QED BY <1>1, <1>2, LayoutInit, BufferInit, PTL DEF Spec

(* No step loses an LTI vertex that is not tombstoned: not an insert, not  *)
(* a merge made from a stale snapshot, not the swap.                       *)
THEOREM LtiHolds == ASSUME ~EagerMerge PROVE Spec => LtiOnlyLosesTombstones
<1>1. LayoutInv /\ BufferInv /\ [Next]_vars => (LayoutInv /\ BufferInv)' /\ [LtiKept]_vars
  BY LayoutStep, BufferStep, BufferStutter
<1> QED BY <1>1, LayoutInit, BufferInit, PTL DEF Spec, LtiOnlyLosesTombstones, LtiKept

-----------------------------------------------------------------------------
(* What the next swap will publish.  The window a merge saved is the       *)
(* present one, or shorter, or has been sealed since -- or, torn, it is    *)
(* the base of this window with the count of the one before.  A window so  *)
(* saved is never found again as it was saved: it fills up and is sealed,  *)
(* unless the layout is full, and then no insert goes on before the merge  *)
(* is joined.                                                              *)

BaseRead == CountRead \cup {"count"}
Sealing == mainPc = "sealBase" \/ (mainPc = "seal" /\ numActiveTemps < M)
JoinsNext == {"sealCount", "sealMedoid", "trigger", "join"}

CountBehind ==
  \/ savedRwCount[bg] <= rwCount /\ mainPc # "sealCount"
  \/ savedRwCount[bg] = T /\ (numActiveTemps < M \/ mainPc \in JoinsNext)
BaseBehind ==
  /\ mergePc[bg] \in BaseRead => savedRwBase[bg] = rwBase \/ savedRwBase[bg] + T <= rwBase
  /\ mergePc[bg] \in CountRead /\ savedRwBase[bg] = rwBase => CountBehind

(* What is published agrees with what is live now, but for tombstones --   *)
(* also of the window, if no insert has gone on since it was saved.        *)
TempsCopied ==
  mergePc[bg] \in Consolidated /\ newLtiCount[bg] <= savedRwBase[bg] =>
    \A s \in Slots : s < newLtiCount[bg] /\ s \notin delBits =>
      graph[newGraph[bg]][s] = graph[cur][s]
WindowCopied ==
  mergePc[bg] = "swap" /\ savedRwBase[bg] = rwBase /\ savedRwCount[bg] <= rwCount /\ ~Sealing =>
    \A s \in Slots \cap SavedWindow(bg) : graph[newGraph[bg]][s] = graph[cur][s]
MedoidSaved ==
  /\ Building(bg) /\ savedRwBase[bg] = rwBase /\ savedRwCount[bg] = rwCount
  /\ rwMedoid # NoSlot /\ mainPc # "kernel" /\ ~Sealing
  => savedRwMedoid[bg] # NoSlot

SkipsThem == SkipMerge => mergePc[bg] = "none"

CopyInv == SkipsThem /\ BaseBehind /\ TempsCopied /\ WindowCopied /\ MedoidSaved

LEMMA CopyInit == Init => CopyInv
<1>1. Init => mergePc[bg] = "none"
  BY DEF Init, ExecutorInit, bg, Mergers
<1> QED BY <1>1 DEF CopyInv, SkipsThem, BaseBehind, TempsCopied, WindowCopied, MedoidSaved,
        Building, BaseRead, CountRead, Consolidated

(* The types the proofs about answers need.                                *)
LEMMA AnswerTypes ==
  ASSUME LayoutInv
  PROVE  /\ rwBase \in Nat /\ rwCount \in Nat /\ WindowEnd \in Nat /\ ltiCount \in Nat
         /\ T \in Nat \ {0} /\ rwCount <= T /\ ltiCount <= rwBase
         /\ rwBase <= WindowEnd /\ (mainPc # "sealCount" => FirstSlot = WindowEnd)
         /\ numActiveTemps \in Nat /\ M \in Nat
         /\ bg \in Mergers /\ mergePc \in [Mergers -> MergePcs]
         /\ newLtiCount[bg] \in Nat /\ savedRwBase[bg] \in Nat /\ savedRwCount[bg] \in Nat
         /\ savedRwCount[bg] <= T
         /\ newGraph \in [Mergers -> Buffers] /\ newGraph[bg] \in Buffers /\ cur \in Buffers
         /\ graph \in [Buffers -> [Slots -> Pids \cup {NoPid}]]
<1>1. (mainPc # "sealCount" => FirstSlot = WindowEnd)
  BY DEF WindowEnd, FirstSlot
<1>2. bg \in Mergers
  BY DEF bg, Mergers
<1>3. M \in Nat
  BY LayoutAssumption DEF LayoutAssumption
<1> QED BY <1>1, <1>2, <1>3, WindowAfterLti
        DEF LayoutInv, TypeOK, IndexTypeOK, GraphTypeOK, MergeTypeOK, SnapshotInRange

(* How a step of the main thread can move the window.                      *)
WindowStays ==
  /\ UNCHANGED <<rwBase, rwCount, numActiveTemps>>
  /\ mainPc # "sealCount" /\ mainPc' # "sealCount" /\ ~Sealing
  /\ \/ mainPc # "kernel" /\ (UNCHANGED rwMedoid \/ rwMedoid' = NoSlot)
     \/ mainPc' = "kernel"
  /\ mainPc \in JoinsNext =>
       mainPc' \in JoinsNext \/ numActiveTemps < M \/ mergePc'[bg] \in {"none", "start"}
WindowGrows ==
  /\ UNCHANGED <<rwBase, numActiveTemps>> /\ rwCount' \in Nat /\ rwCount' > rwCount
  /\ rwCount' <= T /\ mainPc = "kernel" /\ mainPc' = (IF rwCount' >= T THEN "seal" ELSE "insert")
TempCounted ==
  /\ UNCHANGED <<rwBase, rwCount>> /\ rwCount = T /\ mainPc = "seal" /\ mainPc' = "sealBase"
  /\ numActiveTemps < M
CountReset ==
  /\ UNCHANGED <<rwBase, numActiveTemps>> /\ rwCount' = 0
  /\ mainPc = "sealCount" /\ mainPc' = "sealMedoid"
WindowMove == WindowStays \/ WindowGrows \/ TempCounted \/ rwBase' = rwBase + T \/ CountReset

(* A step of the main thread that leaves what is written alone, and moves  *)
(* the window so, leaves the copy of a merge as good as it was.            *)
LEMMA CopyStaysGood ==
  ASSUME LayoutInv, BufferInv, CopyInv, UNCHANGED <<cur, snapVars>>, delBits \subseteq delBits',
         mergePc'[bg] = mergePc[bg] \/ mergePc'[bg] \in {"none", "start"},
         \A b \in Buffers : \A s \in Slots : b # cur \/ s < WindowEnd => graph'[b][s] = graph[b][s],
         WindowMove
  PROVE  BaseBehind' /\ TempsCopied' /\ WindowCopied' /\ MedoidSaved'
<1> USE DEF CountRead, BaseRead, Consolidated, Building
<1> DEFINE nl == newLtiCount[bg]  sb == savedRwBase[bg]  sc == savedRwCount[bg]
<1>1. /\ newLtiCount'[bg] = nl /\ savedRwBase'[bg] = sb /\ savedRwCount'[bg] = sc
      /\ savedRwMedoid'[bg] = savedRwMedoid[bg] /\ newGraph'[bg] = newGraph[bg] /\ cur' = cur
  BY DEF snapVars
<1>2. nl \in Nat /\ sb \in Nat /\ sc \in Nat /\ sc <= T /\ T \in Nat \ {0}
      /\ rwBase \in Nat /\ rwCount \in Nat /\ rwCount <= T /\ WindowEnd \in Nat
      /\ rwBase <= WindowEnd /\ newGraph[bg] \in Buffers /\ cur \in Buffers
      /\ numActiveTemps \in Nat /\ M \in Nat
  BY AnswerTypes
<1>3. mergePc'[bg] \notin {"none", "start"} => mergePc'[bg] = mergePc[bg]
  OBVIOUS
<1>4. Building(bg) => newGraph[bg] # cur
  BY DEF BufferInv, BuffersExact
<1>5. /\ mergePc[bg] \in BaseRead => sb = rwBase \/ sb + T <= rwBase
      /\ mergePc[bg] \in CountRead /\ sb = rwBase => CountBehind
  BY DEF CopyInv, BaseBehind
<1> HIDE DEF nl, sb, sc
<1>6. CountBehind <=> \/ sc <= rwCount /\ mainPc # "sealCount"
                      \/ sc = T /\ (numActiveTemps < M \/ mainPc \in JoinsNext)
  BY DEF CountBehind, sc
<1>7. CountBehind' <=> \/ sc <= rwCount' /\ mainPc' # "sealCount"
                       \/ sc = T /\ (numActiveTemps' < M \/ mainPc' \in JoinsNext)
  BY <1>1 DEF CountBehind
<1>8. rwBase' = rwBase \/ rwBase' = rwBase + T
  BY DEF WindowMove, WindowStays, WindowGrows, TempCounted, CountReset
<1>9. ASSUME mergePc'[bg] \in BaseRead PROVE sb = rwBase' \/ sb + T <= rwBase'
  BY <1>2, <1>3, <1>5, <1>8, <1>9
<1>10. ASSUME mergePc'[bg] \in BaseRead, sb = rwBase' PROVE rwBase' = rwBase
  <2>1. sb = rwBase \/ sb + T <= rwBase
    BY <1>3, <1>5, <1>10
  <2>2. sb # rwBase + T
    BY <1>2, <2>1
  <2> QED BY <1>8, <1>10, <2>2
<1>11. ASSUME mergePc'[bg] \in CountRead, sb = rwBase' PROVE CountBehind'
  <2>1. mergePc[bg] \in CountRead /\ rwBase' = rwBase /\ sb = rwBase /\ CountBehind
    BY <1>3, <1>5, <1>10, <1>11
  <2>2. CASE WindowStays
    BY <1>2, <1>6, <1>7, <1>11, <2>1, <2>2 DEF WindowStays
  <2>3. CASE WindowGrows
    <3>1. /\ mainPc = "kernel" /\ rwCount' \in Nat /\ rwCount' > rwCount
          /\ numActiveTemps' = numActiveTemps /\ mainPc' # "sealCount"
      BY <2>3 DEF WindowGrows
    <3>2. sc <= rwCount => sc <= rwCount'
      BY <1>2, <3>1
    <3> QED BY <1>6, <1>7, <2>1, <3>1, <3>2 DEF JoinsNext
  <2>4. CASE TempCounted
    BY <1>2, <1>6, <1>7, <2>1, <2>4 DEF TempCounted
  <2>5. CASE CountReset
    BY <1>2, <1>6, <1>7, <2>1, <2>5 DEF CountReset, JoinsNext
  <2> QED BY <1>2, <2>1, <2>2, <2>3, <2>4, <2>5 DEF WindowMove
<1>12. BaseBehind'
  BY <1>1, <1>9, <1>11 DEF BaseBehind
<1>13. TempsCopied'
  <2> SUFFICES ASSUME mergePc'[bg] \in Consolidated, nl <= sb,
                      NEW s \in Slots, s < nl, s \notin delBits'
               PROVE  graph'[newGraph[bg]][s] = graph'[cur][s]
    BY <1>1 DEF TempsCopied
  <2>1. mergePc[bg] \in Consolidated /\ sb <= rwBase
    BY <1>2, <1>3, <1>5
  <2>2. s < WindowEnd /\ newGraph[bg] # cur
    BY <1>2, <1>4, <2>1 DEF Slots
  <2>3. graph[newGraph[bg]][s] = graph[cur][s]
    BY <2>1 DEF CopyInv, TempsCopied, nl, sb
  <2> QED BY <1>2, <2>2, <2>3
<1>14. WindowCopied'
  <2> SUFFICES ASSUME mergePc'[bg] = "swap", sb = rwBase', sc <= rwCount', ~Sealing',
                      NEW s \in Slots, s \in sb .. sb + sc - 1
               PROVE  graph'[newGraph[bg]][s] = graph'[cur][s]
    BY <1>1 DEF WindowCopied, SavedWindow
  <2>1. mergePc[bg] = "swap" /\ rwBase' = rwBase /\ sb = rwBase /\ CountBehind
    BY <1>3, <1>5, <1>10
  <2>2. sc <= rwCount /\ ~Sealing /\ mainPc # "sealCount"
    <3>1. CASE WindowStays
      BY <1>2, <2>1, <3>1 DEF WindowStays
    <3>2. CASE WindowGrows
      BY <1>2, <1>6, <2>1, <3>2 DEF WindowGrows, JoinsNext, Sealing
    <3>3. CASE TempCounted
      BY <3>3 DEF TempCounted, Sealing
    <3>4. CASE CountReset
      BY <1>2, <1>6, <2>1, <3>4 DEF CountReset, JoinsNext, Sealing
    <3> QED BY <1>2, <2>1, <3>1, <3>2, <3>3, <3>4 DEF WindowMove
  <2>3. s < WindowEnd /\ newGraph[bg] # cur
    BY <1>2, <1>4, <2>1, <2>2 DEF WindowEnd
  <2>4. graph[newGraph[bg]][s] = graph[cur][s]
    BY <2>1, <2>2 DEF CopyInv, WindowCopied, SavedWindow, sb, sc
  <2> QED BY <1>2, <2>3, <2>4
<1>15. MedoidSaved'
  <2> SUFFICES ASSUME Building(bg)', sb = rwBase', sc = rwCount', rwMedoid' # NoSlot,
                      mainPc' # "kernel", ~Sealing'
               PROVE  savedRwMedoid[bg] # NoSlot
    BY <1>1 DEF MedoidSaved
  <2>1. Building(bg) /\ rwBase' = rwBase /\ sb = rwBase /\ CountBehind
    BY <1>3, <1>5, <1>10
  <2>2. WindowStays
    <3>1. CASE WindowGrows
      BY <1>2, <1>6, <2>1, <3>1 DEF WindowGrows, JoinsNext, Sealing
    <3>2. CASE TempCounted
      BY <3>2 DEF TempCounted, Sealing
    <3>3. CASE CountReset
      BY <1>2, <1>6, <2>1, <3>3 DEF CountReset, JoinsNext, Sealing
    <3> QED BY <1>2, <2>1, <3>1, <3>2, <3>3 DEF WindowMove
  <2>3. UNCHANGED <<rwBase, rwCount, rwMedoid>> /\ mainPc # "kernel" /\ ~Sealing
    BY <2>2 DEF WindowStays
  <2> QED BY <2>1, <2>3 DEF CopyInv, MedoidSaved, sb, sc
<1> QED BY <1>12, <1>13, <1>14, <1>15

ChunkAssigned ==
  mainPc = "kernel" =>
    /\ Room > 0 /\ rwMedoid # NoSlot
    /\ \A s \in ChunkSlots : s \in Slots /\ slotToPointId[s] = ChunkPid(s)
WriteInv == ChunkAssigned /\ CopyInv

LEMMA ChunkInit == Init => WriteInv
BY CopyInit DEF Init, ExecutorInit, WriteInv, ChunkAssigned

LEMMA ChunkSlotsStay ==
  ASSUME UNCHANGED <<offset, pendingInsertIds, rwBase, rwCount>>
  PROVE  Room' = Room /\ ChunkSlots' = ChunkSlots /\ \A s \in ChunkSlots : ChunkPid(s)' = ChunkPid(s)
BY DEF Room, Remaining, ChunkSlots, FirstSlot, ChunkPid

(* A chunk's slots, after the window, get their points.                    *)
LEMMA AssignedChunk ==
  ASSUME LayoutInv, MainNext, mainPc' = "kernel"
  PROVE  /\ mainPc = "insert" /\ UNCHANGED <<graph, rwBase, rwCount, numActiveTemps>>
         /\ ChunkSlots' = ChunkSlots /\ ChunkAssigned'
         /\ \A s \in Slots \ ChunkSlots : slotToPointId'[s] = slotToPointId[s]
<1>1. AssignSlots
  BY DEF MainNext, Flush, Trigger, EventInsert, EventDelete, EventQuery, EventsOver,
     Finish, BeginInsert, InsertChunk, WindowIsFull, SealRefused, BeginSeal, MoveBase,
     ResetCount, ResetMedoid, MainStep, EndInsert, FlushDelete, LaunchSearch,
     TriggerSkipped, TriggerSpawn, TriggerWait, TriggerJoined, BeginEagerMerge, EndEagerMerge,
     Resume, Idle, NextTask
<1>2. /\ slotToPointId' = SlotMapAfterChunk /\ rwMedoid' = InsertStart
      /\ UNCHANGED <<graph, rwBase, rwCount, numActiveTemps, offset, pendingInsertIds>>
      /\ Room > 0 /\ ~(FirstSlot + Room > Capacity) /\ mainPc = "insert"
  BY <1>1 DEF AssignSlots, bufVars, pendVars
<1>3. FirstSlot \in Nat /\ Room \in Nat /\ ChunkSlots \subseteq Slots
  BY <1>2, ChunkFacts, LayoutAssumption DEF LayoutAssumption
<1>4. Room' = Room /\ ChunkSlots' = ChunkSlots /\ \A s \in ChunkSlots : ChunkPid(s)' = ChunkPid(s)
  BY <1>2, ChunkSlotsStay
<1>5. rwMedoid' # NoSlot
  BY <1>2, <1>3, SlotAssumption DEF SlotAssumption, InsertStart
<1> HIDE DEF ChunkSlots, Room
<1>6. \A s \in ChunkSlots : s \in Slots /\ slotToPointId'[s] = ChunkPid(s)
  BY <1>2, <1>3 DEF SlotMapAfterChunk
<1>7. \A s \in Slots \ ChunkSlots : slotToPointId'[s] = slotToPointId[s]
  BY <1>2 DEF SlotMapAfterChunk
<1> QED BY <1>2, <1>4, <1>5, <1>6, <1>7 DEF ChunkAssigned

(* The kernel writes the chunk at the end of the window.                   *)
LEMMA ChunkWritten ==
  ASSUME LayoutInv, ChunkAssigned, InsertChunk
  PROVE  /\ UNCHANGED slotToPointId /\ mainPc' # "kernel" /\ WindowGrows
         /\ \A s \in ChunkSlots : ~(s < WindowEnd)
         /\ \A b \in Buffers : \A s \in Slots :
              b # cur \/ s \notin ChunkSlots => graph'[b][s] = graph[b][s]
         /\ \A s \in Slots : s \in ChunkSlots => graph'[cur][s] = slotToPointId[s]
<1>1. /\ graph' = [graph EXCEPT ![cur] = GraphAfterChunk]
      /\ UNCHANGED <<slotToPointId, rwBase, numActiveTemps>> /\ mainPc = "kernel"
      /\ rwCount' = rwCount + Room
      /\ mainPc' = IF rwCount + Room >= T THEN "seal" ELSE "insert"
  BY DEF InsertChunk, mapVars, RwFull
<1>2. /\ FirstSlot \in Nat /\ Room \in Nat /\ WindowEnd = FirstSlot /\ Room > 0
      /\ Room <= T - rwCount /\ rwCount \in Nat /\ T \in Nat
      /\ graph \in [Buffers -> [Slots -> Pids \cup {NoPid}]] /\ cur \in Buffers
      /\ \A s \in ChunkSlots : slotToPointId[s] = ChunkPid(s)
  BY <1>1, ChunkFacts, RoomBounds, AnswerTypes DEF ChunkAssigned
<1>3. WindowGrows
  <2> HIDE DEF Room
  <2> QED BY <1>1, <1>2 DEF WindowGrows
<1>4. \A s \in ChunkSlots : ~(s < WindowEnd)
  BY <1>2 DEF ChunkSlots
<1> HIDE DEF ChunkSlots, Room
<1>5. \A b \in Buffers : \A s \in Slots :
        b # cur \/ s \notin ChunkSlots => graph'[b][s] = graph[b][s]
  BY <1>1, <1>2 DEF GraphAfterChunk
<1>6. \A s \in Slots : s \in ChunkSlots => graph'[cur][s] = slotToPointId[s]
  BY <1>1, <1>2 DEF GraphAfterChunk
<1> QED BY <1>1, <1>3, <1>4, <1>5, <1>6

(* The steps of the main thread that write nothing and give no slot.       *)
LEMMA QuietSteps ==
  ASSUME MainNext, ~InsertChunk, mainPc' # "kernel"
  PROVE  UNCHANGED <<graph, slotToPointId>> /\ mainPc # "kernel"
<1>1. CASE AssignSlots
  BY <1>1 DEF AssignSlots, mapVars, bufVars
<1>2. CASE ~AssignSlots
  <2>1. UNCHANGED <<graph, slotToPointId>>
    BY <1>2 DEF MainNext, Flush, Trigger, EventInsert, EventDelete, EventQuery, EventsOver,
       Finish, BeginInsert, WindowIsFull, SealRefused, BeginSeal, MoveBase, ResetCount,
       ResetMedoid, sealUnchanged, EndInsert, FlushDelete, LaunchSearch, TriggerSkipped,
       TriggerSpawn, TriggerWait, TriggerJoined, BeginEagerMerge, EndEagerMerge, bufVars, mapVars
  <2>2. mainPc # "kernel"
    BY <1>2 DEF MainNext, Flush, Trigger, EventInsert, EventDelete, EventQuery, EventsOver,
       Finish, BeginInsert, WindowIsFull, SealRefused, BeginSeal, MoveBase, ResetCount,
       ResetMedoid, MainStep, EndInsert, FlushDelete, LaunchSearch, TriggerSkipped,
       TriggerSpawn, TriggerWait, TriggerJoined, BeginEagerMerge, EndEagerMerge, Idle, NextTask
  <2> QED BY <2>1, <2>2
<1> QED BY <1>1, <1>2

LEMMA MainMovesWindow ==
  ASSUME LayoutInv, WriteInv, MainNext
  PROVE  WindowMove
<1>1. numActiveTemps \in Nat /\ M \in Nat
  BY AnswerTypes
<1> USE DEF WriteInv, CopyInv
<1>2. CASE InsertChunk
  BY <1>2, ChunkWritten DEF WindowMove
<1>3. CASE MoveBase
  BY <1>3 DEF MoveBase, SealBase, SealedRwBase, WindowMove
<1>4. CASE BeginSeal
  BY <1>1, <1>4 DEF BeginSeal, SealTemp, LayoutFull, MainStep, WindowMove, TempCounted,
     LayoutInv, SealSteps
<1>5. CASE ResetCount
  BY <1>5 DEF ResetCount, SealCount, MainStep, WindowMove, CountReset
<1>6. CASE mainPc' = "kernel"
  BY <1>6, AssignedChunk DEF WindowMove, WindowStays, Sealing, JoinsNext
<1>7. CASE ResetMedoid
  BY <1>1, <1>7 DEF ResetMedoid, SealMedoid, MainStep, WindowMove, WindowStays, Sealing, JoinsNext
<1>8. CASE SealRefused \/ WindowIsFull
  BY <1>1, <1>8 DEF SealRefused, WindowIsFull, LayoutFull, MainStep, WindowMove, WindowStays,
     Sealing, JoinsNext, idxVars
<1>9. CASE Trigger
  <2>1. UNCHANGED <<rwBase, rwCount, numActiveTemps, rwMedoid>>
        /\ mainPc \notin {"sealCount", "seal", "sealBase", "kernel"} /\ mainPc' # "sealCount"
    BY <1>9 DEF Trigger, TriggerSkipped, TriggerSpawn, TriggerWait, TriggerJoined,
       BeginEagerMerge, EndEagerMerge, Resume, NextTask, idxVars
  <2>2. mainPc \in JoinsNext => mainPc' \in JoinsNext \/ mergePc'[bg] \in {"none", "start"}
    BY <1>9 DEF Trigger, TriggerSkipped, TriggerSpawn, TriggerWait, TriggerJoined,
       BeginEagerMerge, EndEagerMerge, NextTask, JoinsNext, Spawn, SkipsThem, bg, Mergers,
       LayoutInv, TypeOK, MergeTypeOK
  <2> QED BY <2>1, <2>2 DEF WindowMove, WindowStays, Sealing
<1>10. ASSUME \/ \E p \in Pids : EventInsert(p) \/ EventDelete(p)
              \/ EventQuery \/ EventsOver \/ Finish \/ BeginInsert \/ EndInsert
              \/ FlushDelete \/ LaunchSearch
              \/ (AssignSlots /\ mainPc' # "kernel")
       PROVE  WindowMove
  BY <1>10 DEF EventInsert, EventDelete, EventQuery, EventsOver, Finish, BeginInsert, EndInsert,
     FlushDelete, LaunchSearch, AssignSlots, Idle, NextTask, idxVars, WindowMove, WindowStays,
     Sealing, JoinsNext
<1> QED BY <1>2, <1>3, <1>4, <1>5, <1>6, <1>7, <1>8, <1>9, <1>10 DEF MainNext, Flush

LEMMA MainKeepsCopy ==
  ASSUME LayoutInv, BufferInv, WriteInv, MainNext
  PROVE  WriteInv'
<1>1. /\ UNCHANGED <<cur, snapVars>> /\ delBits \subseteq delBits'
      /\ mergePc'[bg] = mergePc[bg] \/ mergePc'[bg] \in {"none", "start"}
  BY MainFrame
<1>2. \A b \in Buffers : \A s \in Slots : b # cur \/ s < WindowEnd => graph'[b][s] = graph[b][s]
  BY ChunkWritten, AssignedChunk, QuietSteps DEF WriteInv
<1>3. BaseBehind' /\ TempsCopied' /\ WindowCopied' /\ MedoidSaved'
  BY <1>1, <1>2, MainMovesWindow, CopyStaysGood DEF WriteInv
<1>4. SkipsThem'
  BY DEF WriteInv, CopyInv, SkipsThem, MainNext, Flush, Trigger, EventInsert, EventDelete,
     EventQuery, EventsOver, Finish, BeginInsert, AssignSlots, InsertChunk, WindowIsFull,
     SealRefused, BeginSeal, MoveBase, ResetCount, ResetMedoid, sealUnchanged, EndInsert,
     FlushDelete, LaunchSearch, TriggerSkipped, TriggerSpawn, TriggerWait, TriggerJoined,
     BeginEagerMerge, EndEagerMerge, bg, Mergers, LayoutInv, TypeOK, MergeTypeOK
<1>5. ChunkAssigned'
  BY AssignedChunk DEF ChunkAssigned
<1> QED BY <1>3, <1>4, <1>5 DEF WriteInv, CopyInv

(* Of the steps of a merge only the swap moves the window, and no insert   *)
(* and no seal is in its middle then.                                      *)
LEMMA MergeFrame ==
  ASSUME LayoutInv, ChunkAssigned, MergeNext(bg)
  PROVE  /\ UNCHANGED <<slotToPointId, mainPc>> /\ ChunkAssigned'
         /\ \/ Swap(bg) /\ mainPc # "kernel" /\ mainPc \notin SealPcs
            \/ UNCHANGED <<rwBase, rwCount, rwMedoid, numActiveTemps>>
<1> USE DEF mainUnchanged, mainVars, mapVars, pendVars, idxVars
<1>1. UNCHANGED <<slotToPointId, mainPc, offset, pendingInsertIds>>
  BY DEF MergeNext, SnapshotCounts, SnapshotRwBase, SnapshotRwCount, SnapshotRwMedoid,
     PhaseA, PhaseBGather, PhaseBLink, CopyRW, Swap, ClearBits, ClearCount, FreeOld
<1>2. CASE Swap(bg)
  <2>1. mainPc # "kernel" /\ mainPc \notin SealPcs
    BY <1>2 DEF Swap, LayoutInv, LockHeld
  <2> QED BY <1>1, <1>2, <2>1 DEF ChunkAssigned
<1>3. CASE ~Swap(bg)
  <2>1. UNCHANGED <<rwBase, rwCount, rwMedoid, numActiveTemps>>
    BY <1>3 DEF MergeNext, SnapshotCounts, SnapshotRwBase, SnapshotRwCount, SnapshotRwMedoid,
       PhaseA, PhaseBGather, PhaseBLink, CopyRW, ClearBits, ClearCount, FreeOld
  <2>2. Room' = Room /\ ChunkSlots' = ChunkSlots /\ \A s \in ChunkSlots : ChunkPid(s)' = ChunkPid(s)
    BY <1>1, <2>1, ChunkSlotsStay
  <2> HIDE DEF ChunkSlots, Room
  <2>3. ChunkAssigned'
    BY <1>1, <2>1, <2>2 DEF ChunkAssigned
  <2> QED BY <1>1, <2>1, <2>3
<1> QED BY <1>2, <1>3

LEMMA MergeKeepsCopy ==
  ASSUME LayoutInv, BufferInv, WriteInv, MergeNext(bg)
  PROVE  WriteInv'
<1> USE DEF Step, idxVars, bufVars, delVars, snapVars, Building, Published, CountRead,
        BaseRead, Consolidated
<1> DEFINE new == newGraph[bg]
<1>1. /\ rwBase \in Nat /\ rwCount \in Nat /\ T \in Nat \ {0} /\ rwCount <= T
      /\ bg \in Mergers /\ mergePc \in [Mergers -> MergePcs]
      /\ newLtiCount[bg] \in Nat /\ savedRwBase[bg] \in Nat /\ savedRwCount[bg] \in Nat
      /\ newGraph \in [Mergers -> Buffers] /\ new \in Buffers /\ cur \in Buffers
      /\ graph \in [Buffers -> [Slots -> Pids \cup {NoPid}]]
  BY AnswerTypes
<1>2. /\ newLtiCount \in [Mergers -> Nat] /\ savedRwBase \in [Mergers -> Nat]
      /\ savedRwCount \in [Mergers -> Nat]
      /\ savedRwMedoid \in [Mergers -> Nat \cup {NoSlot}] /\ oldGraph \in [Mergers -> Buffers]
  BY DEF LayoutInv, TypeOK, MergeTypeOK
<1>3. /\ UNCHANGED <<slotToPointId, mainPc>> /\ ChunkAssigned'
      /\ \/ Swap(bg)
         \/ UNCHANGED <<rwBase, rwCount, rwMedoid, numActiveTemps>>
  BY MergeFrame DEF WriteInv
<1>4. BaseBehind /\ TempsCopied /\ WindowCopied /\ MedoidSaved /\ SkipsThem
  BY DEF WriteInv, CopyInv
<1>5. Building(bg) => new # cur
  BY DEF BufferInv, BuffersExact
<1>6. SkipsThem'
  BY <1>1, <1>4 DEF SkipsThem, MergeNext, SnapshotCounts, SnapshotRwBase, SnapshotRwCount,
     SnapshotRwMedoid, PhaseA, PhaseBGather, PhaseBLink, CopyRW, Swap, ClearBits, ClearCount,
     FreeOld
<1> SUFFICES BaseBehind' /\ TempsCopied' /\ WindowCopied' /\ MedoidSaved'
  BY <1>3, <1>6 DEF WriteInv, CopyInv
<1>7. UNCHANGED <<rwBase, rwCount, numActiveTemps>> => UNCHANGED Sealing
  BY <1>3 DEF Sealing
<1>8. ASSUME UNCHANGED <<rwBase, rwCount, numActiveTemps, savedRwCount>>
      PROVE  CountBehind' <=> CountBehind
  BY <1>3, <1>8 DEF CountBehind
<1>9. CASE SnapshotCounts(bg) \/ SnapshotRwBase(bg) \/ SnapshotRwCount(bg)
  <2>1. ~Building(bg)' /\ UNCHANGED <<rwBase, rwCount, numActiveTemps>>
    BY <1>1, <1>9 DEF SnapshotCounts, SnapshotRwBase, SnapshotRwCount
  <2>2. BaseBehind'
    <3>1. CASE SnapshotCounts(bg)
      BY <1>1, <3>1 DEF SnapshotCounts, BaseBehind
    <3>2. CASE SnapshotRwBase(bg)
      BY <1>1, <1>2, <2>1, <3>2 DEF SnapshotRwBase, BaseBehind
    <3>3. CASE SnapshotRwCount(bg)
      <4>1. savedRwCount'[bg] = rwCount /\ UNCHANGED savedRwBase
            /\ mergePc[bg] = "count" /\ mergePc'[bg] = "medoid"
        BY <1>1, <1>2, <3>3 DEF SnapshotRwCount
      <4>2. CountBehind'
        BY <1>1, <1>3, <2>1, <4>1 DEF CountBehind, JoinsNext, LayoutInv, SealSteps
      <4> QED BY <1>4, <2>1, <4>1, <4>2 DEF BaseBehind
    <3> QED BY <1>9, <3>1, <3>2, <3>3
  <2> QED BY <2>1, <2>2 DEF TempsCopied, WindowCopied, MedoidSaved
<1>10. CASE SnapshotRwMedoid(bg)
  <2>1. /\ mergePc[bg] = "medoid" /\ mergePc'[bg] = "phaseA"
        /\ savedRwMedoid'[bg] = rwMedoid
        /\ UNCHANGED <<savedRwBase, savedRwCount, rwBase, rwCount, rwMedoid, numActiveTemps>>
    BY <1>1, <1>2, <1>10 DEF SnapshotRwMedoid
  <2> QED BY <1>4, <1>8, <2>1 DEF BaseBehind, MedoidSaved, TempsCopied, WindowCopied
<1>11. CASE PhaseA(bg) \/ PhaseBGather(bg) \/ PhaseBLink(bg) \/ CopyRW(bg)
  <2>1. /\ mergePc[bg] \in {"phaseA", "gather", "link", "copy"}
        /\ mergePc'[bg] \in {"gather", "link", "copy", "swap"}
        /\ UNCHANGED <<cur, snapVars, rwBase, rwCount, rwMedoid, numActiveTemps, delBits>>
        /\ mergePc'[bg] = "swap" <=> CopyRW(bg)
        /\ mergePc[bg] = "phaseA" <=> PhaseA(bg)
    BY <1>1, <1>11 DEF PhaseA, PhaseBGather, PhaseBLink, CopyRW
  <2>2. /\ new # cur /\ newGraph'[bg] = new
        /\ savedRwBase[bg] <= rwBase
    BY <1>1, <1>4, <1>5, <2>1 DEF BaseBehind
  <2>3. graph'[cur] = graph[cur]
    BY <1>1, <1>11, <2>2 DEF PhaseA, PhaseBGather, PhaseBLink, CopyRW
  <2>4. \A s \in Slots : graph'[new][s] \in {graph[new][s], graph[cur][s]}
    BY <1>1, <1>11 DEF PhaseA, PhaseBGather, PhaseBLink, CopyRW
  <2>5. TempsCopied'
    <3>1. ASSUME newLtiCount[bg] <= savedRwBase[bg], NEW s \in Slots, s < newLtiCount[bg],
                 s \notin delBits
          PROVE  graph'[new][s] = graph[cur][s]
      <4>1. CASE PhaseA(bg)
        <5>1. s < rwBase
          BY <1>1, <2>2, <3>1 DEF Slots
        <5> QED BY <1>1, <3>1, <4>1, <5>1 DEF PhaseA, PhaseAEnd
      <4>2. CASE ~PhaseA(bg)
        BY <1>4, <2>1, <2>4, <3>1, <4>2 DEF TempsCopied
      <4> QED BY <4>1, <4>2
    <3> QED BY <2>1, <2>2, <2>3, <3>1 DEF TempsCopied
  <2>6. WindowCopied'
    <3>1. CASE CopyRW(bg)
      <4>1. \A s \in Slots \cap SavedWindow(bg) : graph'[new][s] = graph[cur][s]
        BY <1>1, <3>1 DEF CopyRW
      <4>2. SavedWindow(bg)' = SavedWindow(bg)
        BY <2>1 DEF SavedWindow
      <4> QED BY <2>1, <2>2, <2>3, <4>1, <4>2 DEF WindowCopied
    <3>2. CASE ~CopyRW(bg)
      BY <2>1, <3>2 DEF WindowCopied
    <3> QED BY <3>1, <3>2
  <2>7. BaseBehind'
    BY <1>4, <1>8, <2>1 DEF BaseBehind
  <2>8. MedoidSaved'
    BY <1>3, <1>4, <1>7, <2>1 DEF MedoidSaved
  <2> QED BY <2>5, <2>6, <2>7, <2>8
<1>12. CASE Swap(bg) \/ ClearBits(bg) \/ ClearCount(bg) \/ FreeOld(bg)
  <2>1. mergePc'[bg] \in {"clear", "clearBits", "clearCount", "free", "exited"}
    BY <1>1, <1>12 DEF Swap, ClearBits, ClearCount, FreeOld
  <2> QED BY <2>1 DEF BaseBehind, TempsCopied, WindowCopied, MedoidSaved
<1> QED BY <1>9, <1>10, <1>11, <1>12 DEF MergeNext

(* Where only the background thread merges, it makes every step of a merge. *)
LEMMA OnlyBackground ==
  ASSUME NoEagerTask, NEW a \in Mergers, MergeNext(a)
  PROVE  a = bg
<1>1. mergePc[a] # "none"
  BY DEF MergeNext, SnapshotCounts, SnapshotRwBase, SnapshotRwCount, SnapshotRwMedoid,
     PhaseA, PhaseBGather, PhaseBLink, CopyRW, Swap, ClearBits, ClearCount, FreeOld, Step
<1> QED BY <1>1 DEF NoEagerTask, Mergers, bg

LEMMA CopyStutter == WriteInv /\ UNCHANGED vars => WriteInv'
<1> SUFFICES ASSUME WriteInv, UNCHANGED vars PROVE WriteInv'
  OBVIOUS
<1> USE DEF vars, idxVars, bufVars, delVars, mainVars, pendVars, mapVars, snapVars
<1>1. ChunkAssigned'
  <2>1. Room' = Room /\ ChunkSlots' = ChunkSlots /\ \A s \in ChunkSlots : ChunkPid(s)' = ChunkPid(s)
    BY ChunkSlotsStay
  <2> HIDE DEF ChunkSlots, Room
  <2> QED BY <2>1 DEF WriteInv, ChunkAssigned
<1>2. SkipsThem' /\ BaseBehind' /\ TempsCopied' /\ WindowCopied' /\ MedoidSaved'
  BY DEF WriteInv, CopyInv, SkipsThem, BaseBehind, CountBehind, TempsCopied, WindowCopied,
     MedoidSaved, SavedWindow, Sealing, Building
<1> QED BY <1>1, <1>2 DEF WriteInv, CopyInv

LEMMA CopyStep ==
  ASSUME LayoutInv, BufferInv, WriteInv, Next
  PROVE  WriteInv'
<1>1. CASE Stopped
  BY <1>1, CopyStutter DEF Stopped
<1> QED BY <1>1, MainKeepsCopy, MergeKeepsCopy, OnlyBackground DEF Next, BufferInv

-----------------------------------------------------------------------------
(* Answers, in a run where no merge reads the index in the midst of a      *)
(* seal.  What is written, in the live buffer or in the one a merge        *)
(* builds, belongs to the point its slot translates to: the chunk that     *)
(* gets new points lies at the end of the window, and a merge copies       *)
(* nothing from beyond it, though it reads the window's base and count at  *)
(* different times.                                                        *)

LiveTranslates ==
  \A s \in Slots : graph[cur][s] # NoPid /\ ~(mainPc = "kernel" /\ s \in ChunkSlots)
    => slotToPointId[s] = graph[cur][s]
CopyTranslates ==
  Building(bg) =>
    \A s \in Slots : graph[newGraph[bg]][s] # NoPid =>
      s < WindowEnd /\ slotToPointId[s] = graph[newGraph[bg]][s]
SavedBehind == mergePc[bg] \in CountRead => savedRwBase[bg] + savedRwCount[bg] <= WindowEnd
AnswerInv == LiveTranslates /\ CopyTranslates /\ SavedBehind

LEMMA AnswerInit == Init => AnswerInv
<1> SUFFICES ASSUME Init PROVE AnswerInv
  OBVIOUS
<1>1. LiveTranslates
  <2>1. cur \in Buffers
    BY LayoutInit DEF LayoutInv, TypeOK, GraphTypeOK
  <2> QED BY <2>1 DEF Init, IndexInit, ExecutorInit, LiveTranslates
<1>2. mergePc[bg] = "none"
  BY DEF Init, ExecutorInit, bg, Mergers
<1> QED BY <1>1, <1>2 DEF AnswerInv, CopyTranslates, SavedBehind, Building, CountRead

LEMMA MainKeepsAnswers ==
  ASSUME LayoutInv, BufferInv, WriteInv, AnswerInv, MainNext
  PROVE  AnswerInv'
<1>1. /\ UNCHANGED <<cur, snapVars>>
      /\ mergePc'[bg] = mergePc[bg] \/ mergePc'[bg] \in {"none", "start"}
  BY MainFrame
<1>2. cur \in Buffers /\ newGraph[bg] \in Buffers /\ newGraph'[bg] = newGraph[bg]
  BY <1>1, AnswerTypes DEF snapVars
<1>3. /\ Building(bg)' => Building(bg)
      /\ Building(bg) => newGraph[bg] # cur
  BY <1>1 DEF Building, BufferInv, BuffersExact
<1>4. WindowEnd \in Nat /\ WindowEnd' \in Nat /\ WindowEnd <= WindowEnd'
  <2>1. /\ WindowEnd \in Nat /\ Room \in Nat
        /\ WindowEnd' = WindowEnd \/ WindowEnd' = WindowEnd + Room
    BY WindowMoves, RoomBounds DEF LayoutInv
  <2> HIDE DEF WindowEnd, Room
  <2> QED BY <2>1
<1>5. SavedBehind'
  <2>1. /\ savedRwBase[bg] \in Nat /\ savedRwCount[bg] \in Nat
        /\ savedRwBase'[bg] = savedRwBase[bg] /\ savedRwCount'[bg] = savedRwCount[bg]
    BY <1>1, AnswerTypes DEF snapVars
  <2>2. mergePc'[bg] \in CountRead => savedRwBase[bg] + savedRwCount[bg] <= WindowEnd
    BY <1>1 DEF AnswerInv, SavedBehind, CountRead
  <2> HIDE DEF WindowEnd
  <2> QED BY <1>4, <2>1, <2>2 DEF SavedBehind
<1> HIDE DEF WindowEnd, ChunkSlots
<1>6. ASSUME ~Building(bg) \/ (/\ UNCHANGED <<slotToPointId>>
                               /\ \A s \in Slots : graph'[newGraph[bg]][s] = graph[newGraph[bg]][s])
      PROVE  CopyTranslates'
  <2> SUFFICES ASSUME Building(bg)', NEW s \in Slots, graph'[newGraph[bg]][s] # NoPid
               PROVE  s < WindowEnd' /\ slotToPointId'[s] = graph'[newGraph[bg]][s]
    BY <1>2 DEF CopyTranslates
  <2>1. s < WindowEnd /\ slotToPointId'[s] = graph'[newGraph[bg]][s]
    BY <1>3, <1>6 DEF AnswerInv, CopyTranslates
  <2> QED BY <1>4, <2>1 DEF Slots
<1>7. CASE InsertChunk
  <2>1. /\ UNCHANGED slotToPointId /\ mainPc' # "kernel" /\ mainPc = "kernel"
        /\ \A b \in Buffers : \A s \in Slots :
             b # cur \/ s \notin ChunkSlots => graph'[b][s] = graph[b][s]
        /\ \A s \in Slots : s \in ChunkSlots => graph'[cur][s] = slotToPointId[s]
    BY <1>7, ChunkWritten DEF WriteInv, InsertChunk
  <2>2. LiveTranslates'
    BY <1>1, <1>2, <2>1 DEF AnswerInv, LiveTranslates
  <2>3. CopyTranslates'
    BY <1>2, <1>3, <1>6, <2>1
  <2> QED BY <1>5, <2>2, <2>3 DEF AnswerInv
<1>8. CASE mainPc' = "kernel"
  <2>1. /\ UNCHANGED <<graph, rwBase, rwCount>> /\ ChunkSlots' = ChunkSlots /\ mainPc = "insert"
        /\ \A s \in Slots \ ChunkSlots : slotToPointId'[s] = slotToPointId[s]
    BY <1>8, AssignedChunk
  <2>2. LiveTranslates'
    BY <1>1, <1>8, <2>1 DEF AnswerInv, LiveTranslates
  <2>3. CopyTranslates'
    <3> SUFFICES ASSUME Building(bg)', NEW s \in Slots, graph[newGraph[bg]][s] # NoPid
                 PROVE  s < WindowEnd' /\ slotToPointId'[s] = graph[newGraph[bg]][s]
      BY <1>2, <2>1 DEF CopyTranslates
    <3>1. s < WindowEnd /\ slotToPointId[s] = graph[newGraph[bg]][s]
      BY <1>3 DEF AnswerInv, CopyTranslates
    <3>2. s \notin ChunkSlots
      BY <2>1, <3>1, AnswerTypes DEF ChunkSlots, Slots
    <3> QED BY <1>4, <2>1, <3>1, <3>2 DEF Slots
  <2> QED BY <1>5, <2>2, <2>3 DEF AnswerInv
<1>9. ASSUME ~InsertChunk, mainPc' # "kernel" PROVE AnswerInv'
  <2>1. UNCHANGED <<graph, slotToPointId>> /\ mainPc # "kernel"
    BY <1>9, QuietSteps
  <2>2. LiveTranslates'
    BY <1>1, <1>9, <2>1 DEF AnswerInv, LiveTranslates
  <2> QED BY <1>5, <1>6, <2>1, <2>2 DEF AnswerInv
<1> QED BY <1>7, <1>8, <1>9

(* Nothing a merge copies lies beyond the window's end, not even where a   *)
(* seal is half made.                                                      *)
LEMMA MergedBelowEnd ==
  ASSUME LayoutInv
  PROVE  ltiCount + MergedSlots <= WindowEnd
<1>1. /\ rwBase \in Nat /\ rwCount \in Nat /\ ltiCount \in Nat /\ T \in Nat \ {0}
      /\ MergedSlots \in Nat /\ WindowEnd \in Nat /\ rwBase <= WindowEnd
  BY WindowAfterLti
<1>2. CASE mainPc = "sealBase"
  <2>1. rwBase + T = ltiCount + MergedSlots /\ rwCount = T /\ WindowEnd = rwBase + rwCount
    BY <1>2 DEF LayoutInv, SealSteps, IndexLayout, SealedRwBase, MergedSlots, WindowEnd
  <2> HIDE DEF MergedSlots, WindowEnd
  <2> QED BY <1>1, <2>1
<1>3. CASE mainPc # "sealBase"
  <2>1. rwBase = ltiCount + MergedSlots
    BY <1>3 DEF LayoutInv, IndexLayout, MergedSlots
  <2> HIDE DEF MergedSlots, WindowEnd
  <2> QED BY <1>1, <2>1
<1> QED BY <1>2, <1>3

LEMMA MergeKeepsAnswers ==
  ASSUME LayoutInv, BufferInv, WriteInv, AnswerInv, MergeNext(bg), ~tornRead'
  PROVE  AnswerInv'
<1> USE DEF Step, idxVars, bufVars, delVars, snapVars, Building, Published, CountRead
<1> DEFINE new == newGraph[bg]
<1>1. /\ rwBase \in Nat /\ rwCount \in Nat /\ WindowEnd \in Nat /\ rwBase <= WindowEnd
      /\ T \in Nat \ {0} /\ rwCount <= T /\ (mainPc # "sealCount" => FirstSlot = WindowEnd)
      /\ bg \in Mergers /\ mergePc \in [Mergers -> MergePcs]
      /\ savedRwBase[bg] \in Nat /\ savedRwCount[bg] \in Nat
      /\ newGraph \in [Mergers -> Buffers] /\ new \in Buffers /\ cur \in Buffers
      /\ graph \in [Buffers -> [Slots -> Pids \cup {NoPid}]]
  BY AnswerTypes
<1>2. /\ newLtiCount \in [Mergers -> Nat] /\ savedRwBase \in [Mergers -> Nat]
      /\ savedRwCount \in [Mergers -> Nat] /\ oldGraph \in [Mergers -> Buffers]
  BY DEF LayoutInv, TypeOK, MergeTypeOK
<1>3. /\ UNCHANGED <<slotToPointId, mainPc>>
      /\ \/ Swap(bg) /\ mainPc # "kernel" /\ mainPc \notin SealPcs
         \/ UNCHANGED <<rwBase, rwCount, rwMedoid, numActiveTemps>>
  BY MergeFrame DEF WriteInv
<1>4. LiveTranslates /\ CopyTranslates /\ SavedBehind
  BY DEF AnswerInv
<1>5. /\ Building(bg) => new # cur
      /\ Published(bg) => oldGraph[bg] # cur
      /\ cur \in allocated
  BY DEF BufferInv, BuffersExact
<1>6. ASSUME ~Swap(bg) PROVE WindowEnd' = WindowEnd /\ UNCHANGED ChunkSlots
  <2>1. UNCHANGED <<rwBase, rwCount, mainPc, offset, pendingInsertIds>>
    BY <1>3, <1>6 DEF mainUnchanged, mainVars, pendVars, MergeNext, SnapshotCounts, SnapshotRwBase,
       SnapshotRwCount, SnapshotRwMedoid, PhaseA, PhaseBGather, PhaseBLink, CopyRW, ClearBits,
       ClearCount, FreeOld
  <2> QED BY <2>1, ChunkSlotsStay DEF WindowEnd
<1> HIDE DEF WindowEnd, ChunkSlots
<1>7. ASSUME UNCHANGED cur, graph'[cur] = graph[cur], ~Swap(bg) PROVE LiveTranslates'
  BY <1>3, <1>4, <1>6, <1>7 DEF LiveTranslates
<1>8. CASE SnapshotCounts(bg) \/ SnapshotRwBase(bg) \/ SnapshotRwCount(bg)
  <2>1. UNCHANGED <<cur, graph>> /\ ~Building(bg)' /\ ~Swap(bg)
    BY <1>1, <1>8 DEF SnapshotCounts, SnapshotRwBase, SnapshotRwCount, Swap
  <2>2. SavedBehind'
    <3>1. CASE SnapshotRwCount(bg)
      <4>1. /\ savedRwCount'[bg] = rwCount /\ UNCHANGED savedRwBase /\ mergePc[bg] = "count"
        BY <1>1, <1>2, <3>1 DEF SnapshotRwCount
      <4>2. ~MidSeal
        <5>1. Next /\ bg \in Mergers
          BY DEF Next, bg, Mergers
        <5> QED BY <3>1, <5>1, TornStays
      <4>3. WindowEnd = rwBase + rwCount
        BY <4>2 DEF WindowEnd, MidSeal
      <4>4. savedRwBase[bg] = rwBase \/ savedRwBase[bg] + T <= rwBase
        BY <4>1 DEF WriteInv, CopyInv, BaseBehind, BaseRead
      <4>5. savedRwBase[bg] + rwCount <= WindowEnd
        BY <1>1, <4>3, <4>4
      <4> QED BY <1>6, <2>1, <4>1, <4>5 DEF SavedBehind
    <3>2. CASE ~SnapshotRwCount(bg)
      <4>1. mergePc'[bg] \notin CountRead
        BY <1>1, <1>8, <3>2 DEF SnapshotCounts, SnapshotRwBase
      <4> QED BY <4>1 DEF SavedBehind
    <3> QED BY <3>1, <3>2
  <2> QED BY <1>7, <2>1, <2>2 DEF AnswerInv, CopyTranslates
<1>9. CASE SnapshotRwMedoid(bg)
  <2>1. /\ mergePc[bg] = "medoid" /\ ~Swap(bg)
        /\ UNCHANGED <<cur, savedRwBase, savedRwCount>>
    BY <1>1, <1>9 DEF SnapshotRwMedoid, Swap
  <2>2. PICK b \in Buffers : /\ b \notin allocated
                             /\ graph' = [graph EXCEPT ![b] = Zeroed]
                             /\ newGraph' = [newGraph EXCEPT ![bg] = b]
    <3>1. allocated # Buffers /\ allocated \in SUBSET Buffers
      BY <1>9 DEF SnapshotRwMedoid, LayoutInv, TypeOK, GraphTypeOK
    <3>2. FreeBuffer(allocated) \in Buffers /\ FreeBuffer(allocated) \notin allocated
      BY <3>1, FreeBufferIsFree
    <3> QED BY <1>9, <3>2 DEF SnapshotRwMedoid
  <2>3. graph'[cur] = graph[cur] /\ graph'[newGraph'[bg]] = Zeroed
    BY <1>1, <1>5, <2>2
  <2>4. LiveTranslates' /\ CopyTranslates'
    BY <1>7, <2>1, <2>3 DEF CopyTranslates, Zeroed
  <2>5. SavedBehind'
    BY <1>4, <1>6, <2>1 DEF SavedBehind
  <2> QED BY <2>4, <2>5 DEF AnswerInv
<1>10. CASE PhaseA(bg) \/ PhaseBGather(bg) \/ PhaseBLink(bg) \/ CopyRW(bg)
  <2>1. /\ mergePc[bg] \in {"phaseA", "gather", "link", "copy"} /\ ~Swap(bg)
        /\ UNCHANGED <<cur, snapVars>>
    BY <1>1, <1>10 DEF PhaseA, PhaseBGather, PhaseBLink, CopyRW, Swap
  <2>2. new # cur /\ newGraph'[bg] = new /\ savedRwBase[bg] + savedRwCount[bg] <= WindowEnd
    BY <1>4, <1>5, <2>1 DEF SavedBehind
  <2>3. graph'[cur] = graph[cur]
    BY <1>1, <1>10, <2>2 DEF PhaseA, PhaseBGather, PhaseBLink, CopyRW
  <2>4. \A s \in Slots : \/ graph'[new][s] = graph[new][s]
                         \/ graph'[new][s] = graph[cur][s] /\ s < WindowEnd
    <3>1. CASE PhaseA(bg)
      <4>1. \A s \in Slots : s < rwBase => s < WindowEnd
        BY <1>1 DEF Slots
      <4> QED BY <1>1, <3>1, <4>1 DEF PhaseA, PhaseAEnd
    <3>2. CASE PhaseBGather(bg)
      <4>1. \A s \in TempSlots : s < WindowEnd
        <5>1. ltiCount \in Nat /\ MergedSlots \in Nat /\ ltiCount + MergedSlots <= WindowEnd
          BY WindowAfterLti, MergedBelowEnd
        <5>2. TempSlots = ltiCount .. ltiCount + MergedSlots - 1
          BY DEF TempSlots, MergedSlots
        <5> HIDE DEF MergedSlots, TempSlots
        <5> QED BY <1>1, <5>1, <5>2
      <4> HIDE DEF TempSlots
      <4> QED BY <1>1, <3>2, <4>1 DEF PhaseBGather
    <3>3. CASE PhaseBLink(bg)
      BY <3>3 DEF PhaseBLink
    <3>4. CASE CopyRW(bg)
      <4>1. \A s \in SavedWindow(bg) : s < WindowEnd
        BY <1>1, <2>2 DEF SavedWindow
      <4> QED BY <1>1, <3>4, <4>1 DEF CopyRW
    <3> QED BY <1>10, <3>1, <3>2, <3>3, <3>4
  <2>5. \A s \in Slots : s < WindowEnd => ~(mainPc = "kernel" /\ s \in ChunkSlots)
    BY <1>1 DEF ChunkSlots, Slots
  <2>6. \A s \in Slots : graph'[new][s] # NoPid =>
          s < WindowEnd /\ slotToPointId[s] = graph'[new][s]
    BY <1>4, <2>1, <2>4, <2>5 DEF LiveTranslates, CopyTranslates
  <2>7. CopyTranslates' /\ SavedBehind'
    BY <1>3, <1>4, <1>6, <2>1, <2>2, <2>6 DEF CopyTranslates, SavedBehind
  <2> QED BY <1>7, <2>1, <2>3, <2>7 DEF AnswerInv
<1>11. CASE Swap(bg)
  <2>1. /\ mergePc[bg] = "swap" /\ mergePc'[bg] = "clear" /\ cur' = new /\ UNCHANGED graph
        /\ mainPc # "kernel"
    BY <1>1, <1>3, <1>11 DEF Swap, LayoutInv, LockHeld
  <2>2. LiveTranslates'
    BY <1>3, <1>4, <2>1 DEF LiveTranslates, CopyTranslates
  <2> QED BY <2>1, <2>2 DEF AnswerInv, CopyTranslates, SavedBehind
<1>12. CASE ClearBits(bg) \/ ClearCount(bg) \/ FreeOld(bg)
  <2>1. /\ Published(bg) /\ mergePc'[bg] \in {"clearBits", "clearCount", "free", "exited"}
        /\ UNCHANGED cur /\ ~Swap(bg)
    BY <1>1, <1>12 DEF ClearBits, ClearCount, FreeOld, Swap
  <2>2. graph'[cur] = graph[cur]
    BY <1>1, <1>2, <1>5, <1>12, <2>1 DEF ClearBits, ClearCount, FreeOld, BufferToFree
  <2> QED BY <1>7, <2>1, <2>2 DEF AnswerInv, CopyTranslates, SavedBehind
<1> QED BY <1>8, <1>9, <1>10, <1>11, <1>12 DEF MergeNext

LEMMA AnswerStutter == AnswerInv /\ UNCHANGED vars => AnswerInv'
<1> SUFFICES ASSUME AnswerInv, UNCHANGED vars PROVE AnswerInv'
  OBVIOUS
<1> USE DEF vars, idxVars, bufVars, delVars, mainVars, pendVars, mapVars, snapVars
<1>1. ChunkSlots' = ChunkSlots
  BY ChunkSlotsStay
<1> HIDE DEF ChunkSlots
<1> QED BY <1>1 DEF AnswerInv, LiveTranslates, CopyTranslates, SavedBehind, WindowEnd, Building

LEMMA AnswerStep ==
  ASSUME LayoutInv, BufferInv, WriteInv, AnswerInv, Next, ~tornRead'
  PROVE  AnswerInv'
<1>1. CASE Stopped
  BY <1>1, AnswerStutter DEF Stopped
<1> QED BY <1>1, MainKeepsAnswers, MergeKeepsAnswers, OnlyBackground DEF Next, BufferInv

(* What a merge must know of the executor, in one invariant.               *)
ExecInv == LayoutInv /\ BufferInv /\ WriteInv

LEMMA ExecInvStep == ASSUME ~EagerMerge PROVE ExecInv /\ [Next]_vars => ExecInv'
BY LayoutStep, BufferStep, BufferStutter, CopyStep, CopyStutter DEF ExecInv

LEMMA ExecInvInit == Init => ExecInv
BY LayoutInit, BufferInit, ChunkInit DEF ExecInv

(* Every searched slot lies in the LTI, a Temp or the window.              *)
LEMMA SearchedBelowEnd ==
  ASSUME LayoutInv, NEW s \in SearchedSlots
  PROVE  s < ltiCount + MergedSlots \/ (rwMedoid # NoSlot /\ s \in RwWindow)
<1>1. /\ ltiCount \in Nat /\ T \in Nat \ {0} /\ MergedSlots \in Nat
      /\ numActiveTemps \in Nat
  BY WindowAfterLti, AnswerTypes
<1>2. ASSUME NEW i \in 0 .. numActiveTemps - 1, s \in TempWindow(i) PROVE s < ltiCount + MergedSlots
  <2> DEFINE e == (i + 1) * T
  <2>1. e <= MergedSlots /\ e \in Nat
    BY <1>1 DEF MergedSlots
  <2>2. s \in ltiCount + i * T .. ltiCount + e - 1
    BY <1>2 DEF TempWindow
  <2>3. i * T \in Nat
    BY <1>1
  <2> DEFINE b == i * T
  <2> HIDE DEF e, b, MergedSlots
  <2>4. s \in ltiCount + b .. ltiCount + e - 1 /\ b \in Nat
    BY <2>2, <2>3 DEF b
  <2> QED BY <1>1, <2>1, <2>4
<1>3. CASE s \in 0 .. ltiCount - 1
  <2> HIDE DEF MergedSlots
  <2> QED BY <1>1, <1>3
<1>4. \/ s \in 0 .. ltiCount - 1
      \/ \E i \in 0 .. numActiveTemps - 1 : s \in TempWindow(i)
      \/ rwMedoid # NoSlot /\ s \in RwWindow
  <2> DEFINE temps == {j \in 0 .. numActiveTemps - 1 : tempMedoids[j] # NoSlot}
             B == UNION {TempWindow(i) : i \in temps}
             C == IF rwMedoid # NoSlot THEN RwWindow ELSE {}
  <2>1. s \in 0 .. ltiCount - 1 \/ s \in B \/ s \in C
    BY DEF SearchedSlots
  <2>2. s \in B => \E i \in 0 .. numActiveTemps - 1 : s \in TempWindow(i)
    OBVIOUS
  <2>3. s \in C => rwMedoid # NoSlot /\ s \in RwWindow
    OBVIOUS
  <2> HIDE DEF B, C
  <2> QED BY <2>1, <2>2, <2>3
<1> QED BY <1>2, <1>3, <1>4

(* A slot that a search returns translates to the point that was found     *)
(* there, where no merge reads the index in the midst of a seal: inserts   *)
(* take slots beyond the window, and a merge that has read the window's    *)
(* fields one by one gives no slot back that is still used.                *)
THEOREM TranslationHolds == ASSUME ~EagerMerge PROVE Spec => []AnswersTranslate
<1> DEFINE Inv == ExecInv /\ (~tornRead => AnswerInv)
<1>1. ASSUME Inv PROVE AnswersTranslate
  <2> SUFFICES ASSUME ~tornRead, NEW s \in Answer PROVE slotToPointId[s] = graph[cur][s]
    BY DEF AnswersTranslate
  <2>1. s \in SearchedSlots /\ s \in Slots /\ graph[cur][s] # NoPid
    BY DEF Answer
  <2>2. ~(mainPc = "kernel" /\ s \in ChunkSlots)
    <3> SUFFICES ASSUME mainPc = "kernel" PROVE s < FirstSlot
      BY <1>1, AnswerTypes, RoomBounds DEF ExecInv, ChunkSlots, FirstSlot, Slots
    <3>1. /\ FirstSlot = WindowEnd /\ ltiCount + MergedSlots <= WindowEnd
          /\ WindowEnd \in Nat /\ ltiCount \in Nat /\ MergedSlots \in Nat
          /\ rwBase \in Nat /\ rwCount \in Nat /\ s \in Nat
      BY <1>1, <2>1, AnswerTypes, MergedBelowEnd, WindowAfterLti DEF ExecInv, Slots
    <3>2. CASE s < ltiCount + MergedSlots
      <4> HIDE DEF MergedSlots, FirstSlot, WindowEnd
      <4> QED BY <3>1, <3>2
    <3>3. CASE s \in RwWindow
      BY <3>1, <3>3 DEF RwWindow, FirstSlot
    <3> QED BY <1>1, <2>1, <3>2, <3>3, SearchedBelowEnd DEF ExecInv
  <2> QED BY <1>1, <2>1, <2>2 DEF AnswerInv, LiveTranslates
<1>2. Inv /\ [Next]_vars => Inv'
  <2>1. ASSUME Inv, Next, ~tornRead' PROVE AnswerInv'
    BY <2>1, TornStays, AnswerStep DEF ExecInv
  <2>2. ASSUME Inv, UNCHANGED vars, ~tornRead' PROVE AnswerInv'
    BY <2>2, AnswerStutter DEF vars, snapVars
  <2> QED BY <2>1, <2>2, ExecInvStep
<1>3. Init => Inv
  BY ExecInvInit, AnswerInit
<1> QED BY <1>1, <1>2, <1>3, PTL DEF Spec

(* A swap that finds the window as the merge had saved it changes no       *)
(* answer, but for tombstones -- whatever the merge read of a seal.        *)
THEOREM SwapKeepsAnswers == ASSUME ~EagerMerge PROVE Spec => UndisturbedSwapKeepsAnswers
<1> DEFINE Kept ==
      \A a \in Mergers :
        Swap(a) /\ newLtiCount[a] = rwBase /\ savedRwBase[a] = rwBase
                /\ savedRwCount[a] = rwCount
        => \A s \in Answer \ delBits : s \in Answer' /\ graph'[cur'][s] = graph[cur][s]
<1>1. ASSUME ExecInv PROVE Kept
  <2> SUFFICES ASSUME NEW a \in Mergers, Swap(a), newLtiCount[a] = rwBase,
                      savedRwBase[a] = rwBase, savedRwCount[a] = rwCount,
                      NEW s \in Answer, s \notin delBits
               PROVE  s \in Answer' /\ graph'[cur'][s] = graph[cur][s]
    OBVIOUS
  <2>1. a = bg
    BY <1>1 DEF Swap, Step, ExecInv, BufferInv, NoEagerTask, Mergers, bg
  <2>2. /\ mergePc[bg] = "swap" /\ cur' = newGraph[bg] /\ ltiCount' = rwBase
        /\ rwBase' = rwBase /\ rwCount' = rwCount /\ rwMedoid' = savedRwMedoid[bg]
        /\ UNCHANGED <<graph, delBits>> /\ ~globalIndexLock
    BY <2>1 DEF Swap, Step, delVars
  <2>3. s \in SearchedSlots /\ s \in Slots /\ graph[cur][s] # NoPid /\ s \in Nat
    BY DEF Answer, Slots
  <2>4. rwBase \in Nat /\ rwCount \in Nat
    BY <1>1, AnswerTypes DEF ExecInv
  <2>5. CopyInv /\ ~Sealing /\ mainPc # "kernel" /\ mainPc # "sealBase"
    BY <1>1, <2>2 DEF ExecInv, WriteInv, LayoutInv, LockHeld, SealPcs, Sealing
  <2>6. CASE s < rwBase
    <3>1. graph[newGraph[bg]][s] = graph[cur][s]
      BY <2>1, <2>2, <2>3, <2>4, <2>5, <2>6 DEF CopyInv, TempsCopied, Consolidated
    <3>2. s \in SearchedSlots'
      BY <2>2, <2>3, <2>4, <2>6 DEF SearchedSlots
    <3> QED BY <2>2, <2>3, <3>1, <3>2 DEF Answer
  <2>7. CASE rwMedoid # NoSlot /\ s \in RwWindow
    <3>1. graph[newGraph[bg]][s] = graph[cur][s]
      BY <2>1, <2>2, <2>3, <2>4, <2>5, <2>7 DEF CopyInv, WindowCopied, SavedWindow, RwWindow
    <3>2. savedRwMedoid[bg] # NoSlot
      BY <2>1, <2>2, <2>5, <2>7 DEF CopyInv, MedoidSaved, Building
    <3>3. s \in RwWindow' /\ rwMedoid' # NoSlot
      BY <2>2, <2>7, <3>2 DEF RwWindow
    <3>4. s \in SearchedSlots'
      <4> DEFINE C == IF rwMedoid # NoSlot THEN RwWindow ELSE {}
      <4>1. s \in C'
        BY <3>3
      <4> HIDE DEF C
      <4>2. C' \subseteq SearchedSlots'
        BY DEF SearchedSlots, C, TempWindow
      <4> QED BY <4>1, <4>2
    <3> QED BY <2>2, <2>3, <3>1, <3>4 DEF Answer
  <2>8. ltiCount + MergedSlots = rwBase
    BY <1>1, <2>5 DEF ExecInv, LayoutInv, IndexLayout, MergedSlots
  <2> QED BY <1>1, <2>3, <2>6, <2>7, <2>8, SearchedBelowEnd DEF ExecInv
<1>2. ExecInv /\ [Next]_vars => ExecInv' /\ [Kept]_vars
  BY <1>1, ExecInvStep
<1> QED BY <1>2, ExecInvInit, PTL DEF Spec, UndisturbedSwapKeepsAnswers

-----------------------------------------------------------------------------
(* FDA_SKIP_MERGE, with ids used once: the slots below the end of the      *)
(* window, and those of a chunk under way, and the points that are known   *)
(* correspond one to one.                                                  *)

StoreMode == SkipMerge /\ ~EagerMerge /\ IdsUsedOnce

TakenEnd == IF mainPc = "kernel" THEN WindowEnd + Room ELSE WindowEnd
TakenUpTo == IF mainPc = "kernel" THEN offset + Room ELSE offset

NoMerge == ltiCount = L /\ \A a \in Mergers : mergePc[a] = "none"
Written == \A s \in Slots : s < WindowEnd => graph[cur][s] = slotToPointId[s]
MapsAgree ==
  /\ \A p \in Pids : pointIdToSlot[p] # NoSlot =>
       pointIdToSlot[p] < TakenEnd /\ slotToPointId[pointIdToSlot[p]] = p
  /\ \A s \in Slots : s < TakenEnd =>
       slotToPointId[s] \in Pids /\ pointIdToSlot[slotToPointId[s]] = s
NothingBeyond == \A s \in Slots : ~(s < WindowEnd) => graph[cur][s] = NoPid
MedoidsThere ==
  /\ rwCount > 0 => rwMedoid # NoSlot
  /\ \A i \in 0 .. numActiveTemps - 1 : tempMedoids[i] # NoSlot
  /\ \A s \in Slots : s < rwBase /\ ~(s < ltiCount) =>
       \E i \in 0 .. numActiveTemps - 1 : s \in TempWindow(i)
SlotsInv == NoMerge /\ Written /\ NothingBeyond /\ MapsAgree /\ MedoidsThere

(* What is asked for: a pending insert has no slot until its chunk is      *)
(* taken, and a point is wanted when it is known and not deleted.  A       *)
(* delete is never due while an insert it may be about is pending.         *)
PendingFresh ==
  /\ \A i \in 1 .. Len(pendingInsertIds) :
       pointIdToSlot[pendingInsertIds[i]] = NoSlot <=> i > TakenUpTo
  /\ \A i, j \in 1 .. Len(pendingInsertIds) : pendingInsertIds[i] = pendingInsertIds[j] => i = j
TombstonesKnown == (delCount = 0 => delBits = {}) /\ \A s \in delBits : s < WindowEnd
Unwanted(p) == \E i \in 1 .. Len(pendingDeleteIds) : pendingDeleteIds[i] = p
Wanted ==
  /\ \A p \in Pids : p \in want <=> Seen(p) /\ ~Unwanted(p) /\ pointIdToSlot[p] \notin delBits
  /\ \A p \in Pids : Unwanted(p) => Seen(p)
InsertFirst(tasks) ==
  \A i \in 1 .. Len(tasks) : tasks[i] = "delete" =>
    pendingInsertIds = <<>> \/ \E j \in 1 .. Len(tasks) : j < i /\ tasks[j] = "insert"
InsertsFirst ==
  /\ InsertFirst(todo)
  /\ mainPc = "trigger" /\ afterMerge = "delete" => pendingInsertIds = <<>>
RecallKept == \A r \in deferredRecall : r[1] < WindowEnd /\ slotToPointId[r[1]] = r[2]
RequestsInv == PendingFresh /\ TombstonesKnown /\ Wanted /\ InsertsFirst /\ RecallKept

SkipInv == SlotsInv /\ RequestsInv

LEMMA SkipTypes ==
  ASSUME LayoutInv
  PROVE  /\ pointIdToSlot \in [Pids -> Slots \cup {NoSlot}]
         /\ slotToPointId \in [Slots -> Pids \cup {NoPid}]
         /\ delBits \subseteq Slots /\ delCount \in Nat
         /\ pendingInsertIds \in Seq(Pids) /\ pendingDeleteIds \in Seq(Pids)
         /\ todo \in Seq(Tasks) /\ want \subseteq Pids
         /\ Len(pendingInsertIds) \in Nat /\ Len(pendingDeleteIds) \in Nat /\ Len(todo) \in Nat
         /\ offset \in Nat /\ numActiveTemps \in Nat /\ L \in Nat /\ Capacity \in Nat
         /\ tempMedoids \in [0 .. M - 1 -> Nat \cup {NoSlot}]
         /\ NoSlot \notin Slots /\ L <= Capacity
BY LenProperties, LtiFits, LayoutAssumption, SlotAssumption
DEF LayoutAssumption, SlotAssumption, LayoutInv, TypeOK, MapTypeOK, MainTypeOK, IndexTypeOK, Slots

LEMMA SkipInit == Init => SkipInv
<1> SUFFICES ASSUME Init PROVE SkipInv
  OBVIOUS
<1>1. LayoutInv
  BY LayoutInit
<1>2. /\ L \in Nat /\ cur \in Buffers /\ rwBase = L /\ rwCount = 0 /\ numActiveTemps = 0
      /\ ltiCount = L /\ \A a \in Mergers : mergePc[a] = "none"
      /\ mainPc = "loop" /\ pendingInsertIds = <<>> /\ pendingDeleteIds = <<>> /\ todo = <<>>
      /\ delBits = {} /\ deferredRecall = {} /\ want = 0 .. L - 1 /\ offset = 0
      /\ pointIdToSlot = [p \in Pids |-> IF p \in 0 .. L - 1 THEN p ELSE NoSlot]
      /\ slotToPointId = [s \in Slots |-> IF s < L THEN s ELSE NoPid]
      /\ \A s \in Slots : graph[cur][s] = IF s < L THEN s ELSE NoPid
  <2>1. L \in Nat /\ cur \in Buffers
    BY <1>1, LayoutAssumption DEF LayoutAssumption, LayoutInv, TypeOK, GraphTypeOK
  <2> QED BY <2>1 DEF Init, IndexInit, ExecutorInit
<1>3. WindowEnd = L /\ TakenEnd = L /\ TakenUpTo = 0
  BY <1>2 DEF WindowEnd, TakenEnd, TakenUpTo
<1>4. NoSlot \notin Slots /\ 0 .. L - 1 \subseteq Slots /\ 0 .. L - 1 \subseteq Pids
  BY <1>1, <1>2, SkipTypes, PidAssumption DEF PidAssumption, Slots
<1>5. \A s \in Slots : s < L => s \in 0 .. L - 1
  BY <1>2 DEF Slots
<1>6. MapsAgree /\ Written /\ NothingBeyond
  BY <1>2, <1>3, <1>4, <1>5 DEF MapsAgree, Written, NothingBeyond
<1>7. MedoidsThere /\ NoMerge
  BY <1>2, <1>4 DEF MedoidsThere, NoMerge
<1>8. Wanted
  BY <1>2, <1>4 DEF Wanted, Seen, Unwanted
<1>9. PendingFresh /\ TombstonesKnown /\ InsertsFirst /\ RecallKept
  BY <1>2 DEF PendingFresh, TombstonesKnown, InsertsFirst, InsertFirst, RecallKept
<1> QED BY <1>6, <1>7, <1>8, <1>9 DEF SkipInv, SlotsInv, RequestsInv

(* No merge ever starts, so only the main thread moves.                    *)
LEMMA OnlyMainMoves ==
  ASSUME StoreMode, ExecInv, SkipInv, Next
  PROVE  UNCHANGED vars \/ MainNext
<1>1. ASSUME NEW a \in Mergers, MergeNext(a) PROVE FALSE
  BY <1>1 DEF MergeNext, SnapshotCounts, SnapshotRwBase, SnapshotRwCount, SnapshotRwMedoid,
     PhaseA, PhaseBGather, PhaseBLink, CopyRW, Swap, ClearBits, ClearCount, FreeOld, Step,
     SkipInv, SlotsInv, NoMerge
<1> QED BY <1>1 DEF Next, Stopped

LEMMA MainSteps ==
  ASSUME StoreMode, ExecInv, SkipInv, MainNext
  PROVE  \/ \E p \in Pids : EventInsert(p) \/ EventDelete(p)
         \/ EventQuery \/ EventsOver \/ Finish
         \/ Flush \/ TriggerSkipped
<1>1. \A a \in Mergers : mergePc[a] = "none"
  BY DEF SkipInv, SlotsInv, NoMerge
<1>2. ~TriggerSpawn /\ ~TriggerWait /\ ~TriggerJoined /\ ~EndEagerMerge
  BY <1>1 DEF TriggerSpawn, TriggerWait, TriggerJoined, EndEagerMerge, StoreMode, Mergers
<1>3. ~BeginEagerMerge
  <2>1. todo \in Seq(Tasks \ {"eager"})
    BY DEF ExecInv, BufferInv, NoEagerTask
  <2>2. todo # <<>> => Head(todo) # "eager"
    BY <2>1, HeadTailProperties
  <2> QED BY <2>2 DEF BeginEagerMerge, NextTask
<1> QED BY <1>2, <1>3 DEF MainNext, Trigger

LEMMA NoMergeKept ==
  ASSUME StoreMode, ExecInv, SkipInv, MainNext
  PROVE  NoMerge'
<1>1. mergePc \in [Mergers -> MergePcs]
  BY DEF ExecInv, LayoutInv, TypeOK, MergeTypeOK
<1>2. ltiCount' = ltiCount
  BY MainFrame DEF ExecInv
<1>3. mergePc' = mergePc \/ Finish
  BY MainSteps DEF EventInsert, EventDelete, EventQuery, EventsOver, Flush, BeginInsert,
     AssignSlots, InsertChunk, WindowIsFull, SealRefused, BeginSeal,
         MoveBase, ResetCount, ResetMedoid, sealUnchanged, MainStep, EndInsert, FlushDelete, LaunchSearch, TriggerSkipped
<1>4. \A a \in Mergers : mergePc'[a] = "none"
  BY <1>1, <1>3 DEF Finish, SkipInv, SlotsInv, NoMerge
<1> QED BY <1>2, <1>4 DEF SkipInv, SlotsInv, NoMerge

(* The steps that neither hand out slots nor move the window.              *)
SealStep == BeginSeal \/ MoveBase \/ ResetCount \/ ResetMedoid
PassingStep == MainNext /\ ~InsertChunk /\ ~SealStep /\ mainPc' # "kernel"

LEMMA PassingFrame ==
  ASSUME StoreMode, ExecInv, SkipInv, PassingStep
  PROVE  /\ UNCHANGED <<idxVars, bufVars, mapVars>> /\ mainPc # "kernel"
         /\ TakenEnd' = WindowEnd /\ TakenEnd = WindowEnd /\ WindowEnd' = WindowEnd
         /\ TakenUpTo' = offset' /\ TakenUpTo = offset
<1>1. mainPc # "kernel" /\ mainPc' # "kernel"
  BY QuietSteps DEF PassingStep
<1>2. UNCHANGED <<idxVars, bufVars, mapVars>>
  BY MainSteps DEF PassingStep, EventInsert, EventDelete, EventQuery, EventsOver, Finish, Flush,
     BeginInsert, AssignSlots, WindowIsFull, SealRefused, SealStep, sealUnchanged, EndInsert,
     FlushDelete, LaunchSearch, TriggerSkipped, idxVars, bufVars, mapVars
<1>3. mainPc # "sealCount" /\ mainPc' # "sealCount"
  BY MainSteps DEF PassingStep, EventInsert, EventDelete, EventQuery, EventsOver, Finish, Flush,
     BeginInsert, AssignSlots, WindowIsFull, SealRefused, SealStep, MainStep, EndInsert,
     FlushDelete, LaunchSearch, TriggerSkipped, Resume, Idle, NextTask
<1> QED BY <1>1, <1>2, <1>3 DEF WindowEnd, TakenEnd, TakenUpTo, idxVars

LEMMA PassingKeepsSlots ==
  ASSUME StoreMode, ExecInv, SkipInv, PassingStep
  PROVE  SlotsInv'
<1> USE DEF idxVars, bufVars, mapVars
<1>1. NoMerge'
  BY NoMergeKept DEF PassingStep
<1>2. /\ UNCHANGED <<idxVars, bufVars, mapVars>>
      /\ TakenEnd' = TakenEnd /\ WindowEnd' = WindowEnd
  BY PassingFrame
<1>3. Written' /\ NothingBeyond' /\ MapsAgree'
  BY <1>2 DEF SkipInv, SlotsInv, Written, NothingBeyond, MapsAgree
<1>4. MedoidsThere'
  BY <1>2 DEF SkipInv, SlotsInv, MedoidsThere, TempWindow
<1> QED BY <1>1, <1>3, <1>4 DEF SlotsInv

(* Every event asks for a flush of the pending inserts, if there are any,  *)
(* before one of the deletes.                                              *)
LEMMA AfterInsertDue ==
  ASSUME NEW tasks \in Seq(Tasks)
  PROVE  InsertFirst(InsertDue \o tasks)
<1>1. CASE pendingInsertIds = <<>>
  BY <1>1 DEF InsertFirst
<1>2. CASE pendingInsertIds # <<>>
  <2>1. InsertDue = <<"insert">> /\ <<"insert">> \in Seq(Tasks)
    BY <1>2 DEF InsertDue, Tasks
  <2>2. /\ Len(tasks) \in Nat
        /\ \A i \in 1 .. 1 + Len(tasks) :
             (<<"insert">> \o tasks)[i] = IF i <= 1 THEN <<"insert">>[i] ELSE tasks[i - 1]
        /\ Len(<<"insert">> \o tasks) = 1 + Len(tasks)
    BY <2>1, ConcatProperties, LenProperties
  <2>3. (<<"insert">> \o tasks)[1] = "insert"
    BY <2>2
  <2> DEFINE u == <<"insert">> \o tasks
  <2>4. u[1] = "insert" /\ Len(u) \in Nat
    BY <2>2, <2>3
  <2> HIDE DEF u
  <2>5. \A i \in 1 .. Len(u) : u[i] = "delete" => \E j \in 1 .. Len(u) : j < i /\ u[j] = "insert"
    <3> SUFFICES ASSUME NEW i \in 1 .. Len(u), u[i] = "delete"
                 PROVE  1 \in 1 .. Len(u) /\ 1 < i /\ u[1] = "insert"
      OBVIOUS
    <3> QED BY <2>4
  <2>6. InsertDue \o tasks = u
    BY <2>1 DEF u
  <2> QED BY <2>5, <2>6 DEF InsertFirst
<1> QED BY <1>1, <1>2

LEMMA ThreeTasks ==
  ASSUME NEW x \in Seq(Tasks), NEW y \in Seq(Tasks), NEW z \in Seq(Tasks)
  PROVE  y \o z \in Seq(Tasks) /\ (x \o y) \o z = x \o (y \o z)
BY ConcatProperties, ConcatAssociative

(* An event adds requests, and asks for the flushes in order.              *)
LEMMA AskKeepsOrder ==
  ASSUME LayoutInv,
         \/ \E p \in Pids : EventInsert(p) \/ EventDelete(p)
         \/ EventQuery \/ EventsOver
  PROVE  InsertFirst(todo)'
<1> DEFINE S == {"insert", "search"}
<1>0. "insert" \in S /\ "search" \in S
  OBVIOUS
<1>1. CASE \E p \in Pids : EventInsert(p)
  <2>1. todo' \in Seq(S)
    <3>1. PICK y \in {<<>>, <<"insert">>} : todo' = SearchDue \o y
      BY <1>1 DEF EventInsert
    <3> HIDE DEF S
    <3>2. y \in Seq(S)
      <4>1. <<>> \in Seq(S) /\ <<"insert">> \in Seq(S)
        BY <1>0
      <4> QED BY <3>1, <4>1
    <3>3. SearchDue \in Seq(S)
      BY <1>0 DEF SearchDue
    <3> QED BY <3>1, <3>2, <3>3, ConcatProperties
  <2>2. \A i \in 1 .. Len(todo') : todo'[i] # "delete"
    BY <2>1, ElementOfSeq
  <2> QED BY <2>2 DEF InsertFirst
<1>2. ASSUME UNCHANGED pendingInsertIds, NEW x \in Seq(Tasks), todo' = InsertDue \o x
      PROVE  InsertFirst(todo)'
  <2>1. InsertFirst(InsertDue \o x)
    BY <1>2, AfterInsertDue
  <2> HIDE DEF InsertDue
  <2> QED BY <1>2, <2>1 DEF InsertFirst
<1>3. InsertDue \in Seq(Tasks) /\ DeleteDue \in Seq(Tasks) /\ SearchDue \in Seq(Tasks)
  BY DueTasks DEF Tasks
<1>4. /\ <<>> \in Seq(Tasks) /\ <<"delete">> \in Seq(Tasks) /\ <<"search">> \in Seq(Tasks)
      /\ <<"eager">> \in Seq(Tasks) /\ <<"finish">> \in Seq(Tasks)
  BY DEF Tasks
<1> HIDE DEF InsertDue
<1>5. CASE \E p \in Pids : EventDelete(p)
  <2>1. PICK y \in {<<>>, <<"delete">>} : todo' = InsertDue \o SearchDue \o y
    BY <1>5 DEF EventDelete
  <2>2. SearchDue \o y \in Seq(Tasks) /\ todo' = InsertDue \o (SearchDue \o y)
    <3>1. y \in Seq(Tasks)
      BY <1>4
    <3> QED BY <1>3, <2>1, <3>1, ThreeTasks
  <2>3. UNCHANGED pendingInsertIds
    BY <1>5 DEF EventDelete
  <2> QED BY <1>2, <2>2, <2>3
<1>6. CASE EventQuery
  <2>1. PICK e \in {<<>>, <<"eager">>}, y \in {<<>>, <<"search">>} :
          todo' = InsertDue \o DeleteDue \o e \o y
    BY <1>6 DEF EventQuery
  <2>2. e \in Seq(Tasks) /\ y \in Seq(Tasks)
    BY <1>4
  <2>3. DeleteDue \o e \o y \in Seq(Tasks)
    <3>1. DeleteDue \o e \in Seq(Tasks)
      BY <1>3, <2>2, ThreeTasks
    <3> QED BY <2>2, <3>1, ThreeTasks
  <2>4. InsertDue \o DeleteDue \o e \o y = InsertDue \o (DeleteDue \o e \o y)
    OBVIOUS
  <2>5. UNCHANGED pendingInsertIds
    BY <1>6 DEF EventQuery, pendVars
  <2> QED BY <1>2, <2>1, <2>3, <2>4, <2>5
<1>7. CASE EventsOver
  <2>1. todo' = InsertDue \o DeleteDue \o SearchDue \o <<"finish">> /\ UNCHANGED pendingInsertIds
    BY <1>7 DEF EventsOver, pendVars
  <2>2. DeleteDue \o SearchDue \o <<"finish">> \in Seq(Tasks)
    <3>1. DeleteDue \o SearchDue \in Seq(Tasks)
      BY <1>3, ThreeTasks
    <3> QED BY <1>4, <3>1, ThreeTasks
  <2>3. InsertDue \o DeleteDue \o SearchDue \o <<"finish">>
        = InsertDue \o (DeleteDue \o SearchDue \o <<"finish">>)
    BY <1>3, <1>4
  <2> QED BY <1>2, <2>1, <2>2, <2>3
<1> QED BY <1>1, <1>5, <1>6, <1>7

(* An insert of a fresh point: pending, without a slot, and wanted.        *)
LEMMA AskInsertKeepsRequests ==
  ASSUME StoreMode, ExecInv, SkipInv, NEW p \in Pids, EventInsert(p)
  PROVE  RequestsInv'
<1> USE DEF StoreMode, ExecInv, SkipInv, RequestsInv
<1> DEFINE n == Len(pendingInsertIds)
<1>1. /\ pendingInsertIds' = Append(pendingInsertIds, p) /\ want' = want \cup {p}
      /\ ~Seen(p) /\ mainPc' = "loop"
      /\ UNCHANGED <<idxVars, bufVars, delVars, mapVars, offset, pendingDeleteIds,
                     deferredRecall>>
  BY DEF EventInsert, Insertable, Idle
<1>2. /\ n \in Nat /\ Len(pendingInsertIds') = n + 1 /\ pendingInsertIds'[n + 1] = p
      /\ \A i \in 1 .. n : pendingInsertIds'[i] = pendingInsertIds[i]
  BY <1>1, SkipTypes
<1>3. TakenUpTo = offset /\ TakenUpTo' = offset /\ WindowEnd' = WindowEnd /\ offset <= n
      /\ offset \in Nat
  <2>1. PassingStep
    BY <1>1 DEF PassingStep, MainNext, EventInsert, InsertChunk, SealStep, BeginSeal, MoveBase,
       ResetCount, ResetMedoid, MainStep, Idle
  <2>2. offset <= n /\ offset \in Nat
    BY SkipTypes DEF LayoutInv, OffsetInRange
  <2> QED BY <1>1, <2>1, <2>2, PassingFrame
<1>4. pointIdToSlot[p] = NoSlot /\ \A i \in 1 .. n : pendingInsertIds[i] # p
  BY <1>1 DEF Seen
<1> HIDE DEF n
<1>5. PendingFresh'
  <2>1. \A i \in 1 .. n + 1 : i \in 1 .. n \/ i = n + 1
    BY <1>2
  <2>2. \A i \in 1 .. n + 1 : pointIdToSlot[pendingInsertIds'[i]] = NoSlot <=> i > offset
    BY <1>2, <1>3, <1>4, <2>1 DEF PendingFresh, n
  <2>3. \A i, j \in 1 .. n + 1 : pendingInsertIds'[i] = pendingInsertIds'[j] => i = j
    BY <1>2, <1>4, <2>1 DEF PendingFresh, n
  <2> QED BY <1>1, <1>2, <1>3, <2>2, <2>3 DEF PendingFresh, mapVars
<1>6. Wanted'
  <2>1. \A q \in Pids : Seen(q)' <=> Seen(q) \/ q = p
    <3> SUFFICES ASSUME NEW q \in Pids PROVE Seen(q)' <=> Seen(q) \/ q = p
      OBVIOUS
    <3>1. (\E i \in 1 .. n + 1 : pendingInsertIds'[i] = q)
          <=> (\E i \in 1 .. n : pendingInsertIds[i] = q) \/ q = p
      BY <1>2
    <3>2. Seen(q)' <=> pointIdToSlot[q] # NoSlot \/ \E i \in 1 .. n + 1 : pendingInsertIds'[i] = q
      BY <1>1, <1>2 DEF Seen, mapVars
    <3>3. Seen(q) <=> pointIdToSlot[q] # NoSlot \/ \E i \in 1 .. n : pendingInsertIds[i] = q
      BY DEF Seen, n
    <3> QED BY <3>1, <3>2, <3>3
  <2>2. \A q \in Pids : Unwanted(q)' <=> Unwanted(q)
    BY <1>1 DEF Unwanted
  <2>3. ~Unwanted(p) /\ pointIdToSlot[p] \notin delBits
    BY <1>1, <1>4, SkipTypes DEF Unwanted, Wanted
  <2>5. \A q \in Pids : q \in want' <=> Seen(q)' /\ ~Unwanted(q)' /\ pointIdToSlot'[q] \notin delBits'
    BY <1>1, <2>1, <2>2, <2>3 DEF Wanted, mapVars, delVars
  <2> QED BY <2>1, <2>2, <2>5 DEF Wanted
<1>7. InsertsFirst'
  BY <1>1, AskKeepsOrder DEF InsertsFirst
<1>8. TombstonesKnown' /\ RecallKept'
  BY <1>1, <1>3 DEF TombstonesKnown, RecallKept, mapVars, delVars
<1> QED BY <1>5, <1>6, <1>7, <1>8

(* A delete of a known point: the point is unwanted from then on.          *)
LEMMA AskDeleteKeepsRequests ==
  ASSUME StoreMode, ExecInv, SkipInv, NEW p \in Pids, EventDelete(p)
  PROVE  RequestsInv'
<1> USE DEF StoreMode, ExecInv, SkipInv, RequestsInv
<1> DEFINE n == Len(pendingDeleteIds)
<1>1. /\ pendingDeleteIds' = Append(pendingDeleteIds, p) /\ want' = want \ {p}
      /\ Seen(p) /\ mainPc' = "loop"
      /\ UNCHANGED <<idxVars, bufVars, delVars, mapVars, offset, pendingInsertIds,
                     deferredRecall>>
  BY DEF EventDelete, Idle
<1>2. /\ n \in Nat /\ Len(pendingDeleteIds') = n + 1 /\ pendingDeleteIds'[n + 1] = p
      /\ \A i \in 1 .. n : pendingDeleteIds'[i] = pendingDeleteIds[i] /\ pendingDeleteIds[i] \in Pids
  BY <1>1, SkipTypes, ElementOfSeq
<1>3. TakenUpTo = offset /\ TakenUpTo' = offset /\ WindowEnd' = WindowEnd
  <2>1. PassingStep
    BY <1>1 DEF PassingStep, MainNext, EventDelete, InsertChunk, SealStep, BeginSeal, MoveBase,
       ResetCount, ResetMedoid, MainStep, Idle
  <2> QED BY <1>1, <2>1, PassingFrame
<1>4. \A q \in Pids : Seen(q)' <=> Seen(q)
  BY <1>1 DEF Seen, mapVars
<1> HIDE DEF n
<1>5. Wanted'
  <2>1. \A q \in Pids : Unwanted(q)' <=> Unwanted(q) \/ q = p
    <3> SUFFICES ASSUME NEW q \in Pids PROVE Unwanted(q)' <=> Unwanted(q) \/ q = p
      OBVIOUS
    <3>1. (\E i \in 1 .. n + 1 : pendingDeleteIds'[i] = q)
          <=> (\E i \in 1 .. n : pendingDeleteIds[i] = q) \/ q = p
      BY <1>2
    <3> QED BY <1>2, <3>1 DEF Unwanted, n
  <2>2. \A q \in Pids : q \in want' <=> Seen(q)' /\ ~Unwanted(q)' /\ pointIdToSlot'[q] \notin delBits'
    BY <1>1, <1>4, <2>1 DEF Wanted, mapVars, delVars
  <2> QED BY <1>1, <1>4, <2>1, <2>2 DEF Wanted
<1>6. InsertsFirst'
  BY <1>1, AskKeepsOrder DEF InsertsFirst
<1>7. PendingFresh' /\ TombstonesKnown' /\ RecallKept'
  BY <1>1, <1>3 DEF PendingFresh, TombstonesKnown, RecallKept, mapVars, delVars
<1> QED BY <1>5, <1>6, <1>7

(* A step that leaves the requests alone but for the flushes still due.    *)
LEMMA OtherTasksKeepRequests ==
  ASSUME StoreMode, ExecInv, SkipInv, PassingStep,
         UNCHANGED <<delVars, pendingInsertIds, pendingDeleteIds, offset, deferredRecall, want>>,
         InsertsFirst'
  PROVE  RequestsInv'
<1> USE DEF SkipInv, RequestsInv
<1>1. UNCHANGED mapVars /\ TakenUpTo' = TakenUpTo /\ WindowEnd' = WindowEnd
  BY PassingFrame
<1>2. PendingFresh' /\ TombstonesKnown' /\ RecallKept'
  BY <1>1 DEF PendingFresh, TombstonesKnown, RecallKept, mapVars, delVars
<1>3. Wanted'
  BY <1>1 DEF Wanted, Seen, Unwanted, mapVars, delVars
<1> QED BY <1>2, <1>3

LEMMA QuietKeepsRequests ==
  ASSUME StoreMode, ExecInv, SkipInv, PassingStep,
         \/ EventQuery \/ EventsOver \/ Finish \/ BeginInsert \/ AssignSlots \/ WindowIsFull
         \/ SealRefused \/ TriggerSkipped
  PROVE  RequestsInv'
<1> USE DEF ExecInv, SkipInv, RequestsInv
<1>1. /\ UNCHANGED <<delVars, pendingInsertIds, pendingDeleteIds, offset, deferredRecall, want>>
  BY DEF EventQuery, EventsOver, Finish, BeginInsert, AssignSlots, WindowIsFull, SealRefused,
     sealUnchanged, TriggerSkipped, pendVars, loadVars
<1>2. CASE EventQuery \/ EventsOver
  <2>1. mainPc' = "loop"
    BY <1>2 DEF EventQuery, EventsOver, Idle
  <2> QED BY <1>1, <1>2, <2>1, AskKeepsOrder, OtherTasksKeepRequests DEF InsertsFirst
<1>3. CASE Finish \/ BeginInsert \/ AssignSlots \/ WindowIsFull \/ SealRefused
  <2>1. (todo' = todo \/ todo' = <<>>) /\ (mainPc' = "trigger" => afterMerge' = "insert")
    BY <1>3 DEF Finish, BeginInsert, AssignSlots, WindowIsFull, SealRefused, sealUnchanged, MainStep
  <2>2. InsertFirst(todo)'
    BY <1>1, <2>1 DEF InsertsFirst, InsertFirst
  <2> QED BY <1>1, <2>1, <2>2, OtherTasksKeepRequests DEF InsertsFirst
<1>4. CASE TriggerSkipped
  <2>1. mainPc = "trigger" /\ mainPc' # "trigger"
        /\ \/ todo' = todo
           \/ afterMerge = "delete"
    BY <1>4 DEF TriggerSkipped, Resume
  <2>2. InsertFirst(todo)'
    BY <1>1, <2>1 DEF InsertsFirst, InsertFirst
  <2> QED BY <1>1, <2>1, <2>2, OtherTasksKeepRequests DEF InsertsFirst
<1> QED BY <1>2, <1>3, <1>4

(* The end of an insert flush: every pending insert has its slot.          *)
LEMMA EndInsertKeepsRequests ==
  ASSUME StoreMode, ExecInv, SkipInv, EndInsert
  PROVE  RequestsInv'
<1> USE DEF ExecInv, SkipInv, RequestsInv
<1>1. /\ pendingInsertIds' = <<>> /\ offset' = 0 /\ mainPc = "insert" /\ mainPc' = "loop"
      /\ Remaining <= 0
      /\ UNCHANGED <<idxVars, delVars, mapVars, pendingDeleteIds, deferredRecall, want>>
  BY DEF EndInsert, loadVars
<1>2. TakenUpTo = offset /\ offset \in Nat /\ Len(pendingInsertIds) \in Nat
      /\ WindowEnd' = WindowEnd
  BY <1>1, SkipTypes DEF TakenUpTo, WindowEnd, idxVars
<1>3. \A i \in 1 .. Len(pendingInsertIds) : pointIdToSlot[pendingInsertIds[i]] # NoSlot
  BY <1>1, <1>2 DEF PendingFresh, Remaining
<1>4. \A p \in Pids : Seen(p)' <=> Seen(p)
  BY <1>1, <1>3 DEF Seen, mapVars
<1>5. Wanted'
  BY <1>1, <1>4 DEF Wanted, Unwanted, mapVars, delVars
<1>6. PendingFresh' /\ InsertsFirst'
  BY <1>1 DEF PendingFresh, InsertsFirst, InsertFirst
<1>7. TombstonesKnown' /\ RecallKept'
  BY <1>1, <1>2 DEF TombstonesKnown, RecallKept, mapVars, delVars
<1> QED BY <1>5, <1>6, <1>7

(* A search flush: what it returns is what the map says of the slot.       *)
LEMMA SearchKeepsRequests ==
  ASSUME StoreMode, ExecInv, SkipInv, LaunchSearch
  PROVE  RequestsInv'
<1> USE DEF ExecInv, SkipInv, RequestsInv
<1>1. /\ mainPc = "loop" /\ mainPc' = "loop" /\ todo # <<>> /\ todo[1] = "search"
      /\ todo' = Tail(todo)
      /\ deferredRecall' = deferredRecall \cup {<<s, graph[cur][s]>> : s \in Answer}
      /\ UNCHANGED <<idxVars, delVars, mapVars, pendingInsertIds, pendingDeleteIds, offset, want>>
  BY DEF LaunchSearch, NextTask, loadVars
<1>2. WindowEnd' = WindowEnd /\ TakenUpTo' = TakenUpTo
  BY <1>1 DEF WindowEnd, TakenUpTo, idxVars
<1>3. InsertFirst(Tail(todo))
  <2>1. /\ Len(todo) \in Nat \ {0} /\ Len(Tail(todo)) = Len(todo) - 1
        /\ \A i \in 1 .. Len(Tail(todo)) : Tail(todo)[i] = todo[i + 1]
    BY <1>1, SkipTypes, HeadTailProperties, EmptySeq
  <2> SUFFICES ASSUME NEW i \in 1 .. Len(Tail(todo)), Tail(todo)[i] = "delete",
                      pendingInsertIds # <<>>
               PROVE  \E j \in 1 .. Len(Tail(todo)) : j < i /\ Tail(todo)[j] = "insert"
    BY DEF InsertFirst
  <2>2. i + 1 \in 1 .. Len(todo) /\ todo[i + 1] = "delete"
    BY <2>1
  <2>3. PICK j \in 1 .. Len(todo) : j < i + 1 /\ todo[j] = "insert"
    BY <2>2 DEF InsertsFirst, InsertFirst
  <2>4. j # 1
    BY <1>1, <2>3
  <2>5. j - 1 \in 1 .. Len(Tail(todo)) /\ j - 1 < i /\ Tail(todo)[j - 1] = todo[(j - 1) + 1]
    BY <2>1, <2>3, <2>4
  <2>6. todo[(j - 1) + 1] = "insert"
    BY <2>3
  <2> QED BY <2>5, <2>6
<1>4. RecallKept'
  <2>1. ASSUME NEW s \in Answer PROVE s < WindowEnd /\ slotToPointId[s] = graph[cur][s]
    <3>1. s \in Slots /\ graph[cur][s] # NoPid
      BY DEF Answer
    <3>2. s < WindowEnd
      BY <3>1 DEF SlotsInv, NothingBeyond
    <3> QED BY <3>1, <3>2 DEF SlotsInv, Written
  <2>2. \A r \in deferredRecall' : r \in deferredRecall
                                   \/ \E s \in Answer : r[1] = s /\ r[2] = graph[cur][s]
    BY <1>1
  <2>3. \A r \in deferredRecall' : r[1] < WindowEnd /\ slotToPointId[r[1]] = r[2]
    BY <2>1, <2>2 DEF RecallKept
  <2> QED BY <1>1, <1>2, <2>3 DEF RecallKept, mapVars
<1>5. PendingFresh' /\ TombstonesKnown'
  BY <1>1, <1>2 DEF PendingFresh, TombstonesKnown, mapVars, delVars
<1>6. Wanted'
  BY <1>1 DEF Wanted, Seen, Unwanted, mapVars, delVars
<1>7. InsertsFirst'
  BY <1>1, <1>3 DEF InsertsFirst, InsertFirst
<1> QED BY <1>4, <1>5, <1>6, <1>7

(* A delete flush: no insert is pending, so every point that is unwanted   *)
(* has a slot, and no other point shares it.                               *)
DeletedSlots == {pointIdToSlot[pendingDeleteIds[i]] : i \in KnownDeletes}

LEMMA DeleteFlushFacts ==
  ASSUME StoreMode, ExecInv, SkipInv, FlushDelete
  PROVE  /\ pendingInsertIds = <<>>
         /\ \A p \in Pids : pointIdToSlot[p] \in DeletedSlots <=> Unwanted(p)
         /\ DeletedSlots \subseteq Slots
         /\ \A s \in DeletedSlots : s < WindowEnd /\ s < DeleteCap
         /\ DeletedSlots # {} => Cardinality(KnownDeletes) \in Nat \ {0}
         /\ Cardinality(KnownDeletes) \in Nat
<1> USE DEF ExecInv, SkipInv, RequestsInv, SlotsInv
<1>1. mainPc = "loop" /\ todo # <<>> /\ todo[1] = "delete"
  BY DEF FlushDelete, NextTask
<1>2. pendingInsertIds = <<>>
  <2>1. Len(todo) \in Nat \ {0}
    BY <1>1, SkipTypes, EmptySeq
  <2>2. InsertFirst(todo) /\ 1 \in 1 .. Len(todo)
    BY <2>1 DEF InsertsFirst
  <2>3. ~ \E j \in 1 .. Len(todo) : j < 1
    OBVIOUS
  <2> QED BY <1>1, <2>2, <2>3 DEF InsertFirst
<1>3. \A p \in Pids : Unwanted(p) => pointIdToSlot[p] # NoSlot
  <2>1. \A p \in Pids : Unwanted(p) => Seen(p)
    BY DEF Wanted
  <2> QED BY <1>2, <2>1 DEF Seen
<1>4. \A i \in 1 .. Len(pendingDeleteIds) : pendingDeleteIds[i] \in Pids
  BY SkipTypes, ElementOfSeq
<1>5. KnownDeletes = 1 .. Len(pendingDeleteIds)
  BY <1>3, <1>4 DEF KnownDeletes, Unwanted
<1>6. \A i \in KnownDeletes :
        /\ pointIdToSlot[pendingDeleteIds[i]] \in Slots
        /\ pointIdToSlot[pendingDeleteIds[i]] < WindowEnd
        /\ slotToPointId[pointIdToSlot[pendingDeleteIds[i]]] = pendingDeleteIds[i]
  <2>1. TakenEnd = WindowEnd
    BY <1>1 DEF TakenEnd
  <2> QED BY <1>4, <1>5, <2>1, SkipTypes DEF KnownDeletes, MapsAgree
<1>7. \A p \in Pids : pointIdToSlot[p] \in DeletedSlots <=> Unwanted(p)
  <2> SUFFICES ASSUME NEW p \in Pids PROVE pointIdToSlot[p] \in DeletedSlots <=> Unwanted(p)
    OBVIOUS
  <2>1. ASSUME pointIdToSlot[p] \in DeletedSlots PROVE Unwanted(p)
    <3>1. PICK i \in KnownDeletes : pointIdToSlot[p] = pointIdToSlot[pendingDeleteIds[i]]
      BY <2>1 DEF DeletedSlots
    <3>2. pointIdToSlot[p] # NoSlot
      BY <1>6, <3>1, SkipTypes
    <3>3. slotToPointId[pointIdToSlot[p]] = p
      BY <3>2 DEF MapsAgree
    <3>4. pendingDeleteIds[i] = p
      BY <1>6, <3>1, <3>3
    <3> QED BY <1>5, <3>4 DEF Unwanted
  <2>2. ASSUME Unwanted(p) PROVE pointIdToSlot[p] \in DeletedSlots
    BY <1>5, <2>2 DEF Unwanted, DeletedSlots
  <2> QED BY <2>1, <2>2
<1>8. Capacity <= DeleteCap /\ DeleteCap \in Nat /\ Capacity \in Nat
  BY LayoutAssumption DEF LayoutAssumption
<1>9. DeletedSlots \subseteq Slots /\ \A s \in DeletedSlots : s < WindowEnd /\ s < DeleteCap
  BY <1>6, <1>8 DEF DeletedSlots, Slots
<1>10. /\ Cardinality(KnownDeletes) = Len(pendingDeleteIds)
       /\ Len(pendingDeleteIds) \in Nat
  <2> DEFINE n == Len(pendingDeleteIds)
  <2>1. n \in Nat
    BY SkipTypes
  <2> HIDE DEF n
  <2>2. Cardinality(1 .. n) = n
    BY <2>1, FS_Interval
  <2> QED BY <1>5, <2>1, <2>2 DEF n
<1>11. DeletedSlots # {} => Len(pendingDeleteIds) # 0
  BY <1>5 DEF DeletedSlots
<1> QED BY <1>2, <1>7, <1>9, <1>10, <1>11

LEMMA DeleteFlushKeepsRequests ==
  ASSUME StoreMode, ExecInv, SkipInv, FlushDelete
  PROVE  RequestsInv'
<1> USE DEF ExecInv, SkipInv, RequestsInv, SlotsInv
<1>1. /\ pendingDeleteIds' = <<>>
      /\ delBits' = delBits \cup {s \in DeletedSlots : s < DeleteCap}
      /\ delCount' = delCount + Cardinality(KnownDeletes)
      /\ mainPc = "loop" /\ mainPc' \in {"loop", "trigger"}
      /\ UNCHANGED <<idxVars, mapVars, pendingInsertIds, offset, deferredRecall, want>>
  BY DEF FlushDelete, NextTask, BatchMarkDeleted, DeletedSlots, loadVars
<1>2. /\ pendingInsertIds = <<>>
      /\ \A p \in Pids : pointIdToSlot[p] \in DeletedSlots <=> Unwanted(p)
      /\ \A s \in DeletedSlots : s < WindowEnd /\ s < DeleteCap
      /\ DeletedSlots # {} => Cardinality(KnownDeletes) \in Nat \ {0}
      /\ Cardinality(KnownDeletes) \in Nat
  BY DeleteFlushFacts
<1> HIDE DEF DeletedSlots
<1>3. delBits' = delBits \cup DeletedSlots
  BY <1>1, <1>2
<1>4. WindowEnd' = WindowEnd /\ delCount \in Nat
  BY <1>1, SkipTypes DEF WindowEnd, idxVars
<1>5. TombstonesKnown'
  BY <1>1, <1>2, <1>3, <1>4 DEF TombstonesKnown
<1>6. Wanted'
  <2>1. \A p \in Pids : ~Unwanted(p)'
    BY <1>1 DEF Unwanted
  <2>2. \A p \in Pids : Seen(p)' <=> Seen(p)
    BY <1>1 DEF Seen, mapVars
  <2> QED BY <1>1, <1>2, <1>3, <2>1, <2>2 DEF Wanted, mapVars
<1>7. PendingFresh' /\ InsertsFirst'
  BY <1>1, <1>2 DEF PendingFresh, InsertsFirst, InsertFirst
<1>8. RecallKept'
  BY <1>1, <1>4 DEF RecallKept, mapVars
<1> QED BY <1>5, <1>6, <1>7, <1>8

LEMMA PassingKeepsRequests ==
  ASSUME StoreMode, ExecInv, SkipInv, PassingStep
  PROVE  RequestsInv'
<1>1. MainNext
  BY DEF PassingStep
<1> QED BY <1>1, MainSteps, AskInsertKeepsRequests, AskDeleteKeepsRequests, QuietKeepsRequests,
        EndInsertKeepsRequests, SearchKeepsRequests, DeleteFlushKeepsRequests
        DEF PassingStep, SealStep, Flush

(* The window's slots, sealed into a Temp, stay reachable at every write   *)
(* of the seal.                                                            *)
LEMMA SealKeepsMedoids ==
  ASSUME LayoutInv, MedoidsThere, ltiCount' = ltiCount, SealStep
  PROVE  MedoidsThere'
<1>1. /\ numActiveTemps \in Nat /\ M \in Nat /\ ltiCount \in Nat /\ T \in Nat \ {0}
      /\ rwBase \in Nat /\ tempMedoids \in [0 .. M - 1 -> Nat \cup {NoSlot}]
  BY AnswerTypes, SkipTypes
<1>2. \A i \in Nat : TempWindow(i)' = TempWindow(i)
  BY DEF TempWindow
<1>3. \A i \in 0 .. numActiveTemps - 1 : i \in Nat
  BY <1>1
<1>4. CASE BeginSeal
  <2>1. /\ tempMedoids' = [tempMedoids EXCEPT ![numActiveTemps] = rwMedoid]
        /\ numActiveTemps' = numActiveTemps + 1 /\ numActiveTemps < M
        /\ UNCHANGED <<rwBase, rwCount, rwMedoid>> /\ rwCount = T
    BY <1>1, <1>4 DEF BeginSeal, SealTemp, LayoutFull, MainStep, LayoutInv, SealSteps
  <2>2. rwMedoid # NoSlot
    BY <1>1, <2>1 DEF MedoidsThere
  <2>3. \A i \in 0 .. numActiveTemps' - 1 : i = numActiveTemps \/ i \in 0 .. numActiveTemps - 1
    BY <1>1, <2>1
  <2>4. \A i \in 0 .. numActiveTemps - 1 : i # numActiveTemps /\ i \in 0 .. M - 1
    BY <1>1, <2>1
  <2>5. numActiveTemps \in 0 .. M - 1
    BY <1>1, <2>1
  <2>6. \A i \in 0 .. numActiveTemps' - 1 : tempMedoids'[i] # NoSlot
    BY <1>1, <2>1, <2>2, <2>3, <2>4, <2>5 DEF MedoidsThere
  <2>7. 0 .. numActiveTemps - 1 \subseteq 0 .. numActiveTemps' - 1
    BY <1>1, <2>1
  <2> QED BY <1>2, <1>3, <2>1, <2>6, <2>7 DEF MedoidsThere
<1>5. CASE MoveBase
  <2>1. /\ UNCHANGED <<numActiveTemps, tempMedoids, rwCount, rwMedoid>> /\ rwBase' = rwBase + T
        /\ numActiveTemps > 0 /\ rwBase + T = ltiCount + numActiveTemps * T
    BY <1>5 DEF MoveBase, SealBase, SealedRwBase, MainStep, LayoutInv, SealSteps, IndexLayout
  <2> DEFINE k == numActiveTemps - 1  m == k * T
  <2>2. k \in 0 .. numActiveTemps - 1 /\ k \in Nat /\ numActiveTemps = k + 1
    BY <1>1, <2>1
  <2>3. TempWindow(k) = ltiCount + m .. ltiCount + (k + 1) * T - 1
    BY DEF TempWindow
  <2> HIDE DEF k
  <2>4. (k + 1) * T = m + T /\ m \in Nat
    BY <1>1, <2>2
  <2>5. rwBase + T = ltiCount + (m + T) /\ TempWindow(k) = ltiCount + m .. ltiCount + (m + T) - 1
    BY <2>1, <2>2, <2>3, <2>4
  <2> HIDE DEF m
  <2>6. rwBase = ltiCount + m
    BY <1>1, <2>4, <2>5
  <2>7. \A s \in Slots : ~(s < rwBase) /\ s < rwBase' => s \in TempWindow(k)
    BY <1>1, <2>1, <2>4, <2>5, <2>6 DEF Slots
  <2>8. \A s \in Slots : s < rwBase' /\ ~(s < ltiCount) =>
          \E i \in 0 .. numActiveTemps - 1 : s \in TempWindow(i)
    BY <2>2, <2>7 DEF MedoidsThere
  <2> QED BY <1>2, <1>3, <2>1, <2>8 DEF MedoidsThere
<1>6. CASE ResetCount
  <2>1. UNCHANGED <<numActiveTemps, tempMedoids, rwBase>> /\ rwCount' = 0
    BY <1>6 DEF ResetCount, SealCount
  <2> QED BY <1>2, <1>3, <2>1 DEF MedoidsThere
<1>7. CASE ResetMedoid
  <2>1. UNCHANGED <<numActiveTemps, tempMedoids, rwBase, rwCount>> /\ rwCount = 0
    BY <1>7 DEF ResetMedoid, SealMedoid, MainStep, LayoutInv, SealSteps
  <2> QED BY <1>2, <1>3, <2>1 DEF MedoidsThere
<1> QED BY <1>4, <1>5, <1>6, <1>7 DEF SealStep

(* The writes of a seal hand out nothing.                                  *)
LEMMA SealKeepsSkipInv ==
  ASSUME StoreMode, ExecInv, SkipInv, SealStep
  PROVE  SkipInv'
<1> USE DEF ExecInv, SkipInv, SlotsInv, RequestsInv
<1>1. /\ mainPc # "kernel" /\ mainPc' # "kernel"
      /\ mainPc' = "trigger" => afterMerge' = "insert"
      /\ UNCHANGED <<ltiCount, bufVars, delVars, mapVars, pendingInsertIds, pendingDeleteIds,
                     offset, todo, deferredRecall, want>>
  BY DEF SealStep, BeginSeal, MoveBase, ResetCount, ResetMedoid, SealTemp, SealBase, SealCount,
     SealMedoid, sealUnchanged, MainStep, pendVars, loadVars
<1>2. MainNext
  BY DEF SealStep, MainNext, Flush
<1>3. WindowEnd' = WindowEnd
  BY <1>1, <1>2, WindowMoves DEF InsertChunk
<1>4. TakenEnd = WindowEnd /\ TakenEnd' = WindowEnd /\ TakenUpTo = offset /\ TakenUpTo' = offset
  BY <1>1, <1>3 DEF TakenEnd, TakenUpTo
<1>5. NoMerge'
  BY <1>2, NoMergeKept
<1>6. MedoidsThere'
  BY <1>1, SealKeepsMedoids
<1>7. Written' /\ NothingBeyond' /\ MapsAgree'
  BY <1>1, <1>3, <1>4 DEF Written, NothingBeyond, MapsAgree, bufVars, mapVars
<1>8. PendingFresh' /\ TombstonesKnown' /\ RecallKept' /\ InsertsFirst'
  BY <1>1, <1>3, <1>4 DEF PendingFresh, TombstonesKnown, RecallKept, InsertsFirst, InsertFirst,
     mapVars, delVars
<1>9. Wanted'
  BY <1>1 DEF Wanted, Seen, Unwanted, mapVars, delVars
<1> QED BY <1>5, <1>6, <1>7, <1>8, <1>9

(* The kernel writes the chunk that was given its slots.                   *)
LEMMA ChunkKeepsSkipInv ==
  ASSUME StoreMode, ExecInv, SkipInv, InsertChunk
  PROVE  SkipInv'
<1> USE DEF ExecInv, WriteInv, SkipInv, SlotsInv, RequestsInv
<1>1. /\ mainPc = "kernel" /\ mainPc' \in {"insert", "seal"}
      /\ offset' = offset + Room /\ rwCount' = rwCount + Room
      /\ UNCHANGED <<numActiveTemps, tempMedoids, rwBase, rwMedoid>>
      /\ UNCHANGED <<ltiCount, cur, delVars, mapVars, pendingInsertIds, pendingDeleteIds,
                     todo, deferredRecall, want>>
  BY DEF InsertChunk, pendVars, loadVars
<1>2. /\ Room \in Nat /\ Room <= T - rwCount /\ T \in Nat \ {0} /\ rwBase \in Nat
      /\ rwCount \in Nat /\ offset \in Nat /\ WindowEnd \in Nat
  BY RoomBounds, AnswerTypes, SkipTypes
<1>3. Room > 0 /\ rwMedoid # NoSlot
  BY <1>1 DEF ChunkAssigned
<1>4. TakenEnd = WindowEnd + Room /\ TakenUpTo = offset + Room
  BY <1>1 DEF TakenEnd, TakenUpTo
<1> HIDE DEF Room
<1>5. WindowEnd' = WindowEnd + Room
  BY <1>1, <1>2 DEF WindowEnd
<1>6. TakenEnd' = TakenEnd /\ TakenUpTo' = TakenUpTo
  BY <1>1, <1>4, <1>5 DEF TakenEnd, TakenUpTo
<1>7. NoMerge'
  BY NoMergeKept DEF MainNext, Flush
<1>8. MedoidsThere'
  <2>1. \A i \in Nat : TempWindow(i)' = TempWindow(i)
    BY <1>1 DEF TempWindow
  <2>2. \A i \in 0 .. numActiveTemps - 1 : i \in Nat
    BY SkipTypes
  <2> QED BY <1>1, <1>3, <2>1, <2>2 DEF MedoidsThere
<1>9. Written' /\ NothingBeyond'
  <2>1. /\ \A s \in Slots : s \notin ChunkSlots => graph'[cur][s] = graph[cur][s]
        /\ \A s \in Slots : s \in ChunkSlots => graph'[cur][s] = slotToPointId[s]
    BY ChunkWritten, AnswerTypes
  <2>2. \A s \in Slots : s \in ChunkSlots <=> s < WindowEnd' /\ ~(s < WindowEnd)
    BY <1>1, <1>2, <1>5, AnswerTypes DEF ChunkSlots, Slots
  <2>3. \A s \in Slots : s < WindowEnd => s < WindowEnd'
    BY <1>2, <1>5 DEF Slots
  <2> QED BY <1>1, <2>1, <2>2, <2>3 DEF Written, NothingBeyond, mapVars
<1>10. MapsAgree' /\ PendingFresh'
  BY <1>1, <1>6 DEF MapsAgree, PendingFresh, mapVars
<1>11. TombstonesKnown' /\ RecallKept'
  <2>1. \A s \in Slots : s < WindowEnd => s < WindowEnd'
    BY <1>2, <1>5 DEF Slots
  <2>2. \A r \in deferredRecall : r[1] \in Slots
    BY DEF LayoutInv, TypeOK, MapTypeOK
  <2> QED BY <1>1, <2>1, <2>2, SkipTypes DEF TombstonesKnown, RecallKept, mapVars, delVars
<1>12. InsertsFirst'
  BY <1>1 DEF InsertsFirst, InsertFirst
<1>13. Wanted'
  BY <1>1 DEF Wanted, Seen, Unwanted, mapVars, delVars
<1> QED BY <1>7, <1>8, <1>9, <1>10, <1>11, <1>12, <1>13

(* A chunk: its points are those pending next, each with one slot, and had *)
(* none before.                                                            *)
LEMMA ChunkOneToOne ==
  ASSUME StoreMode, ExecInv, SkipInv
  PROVE  /\ \A s \in ChunkSlots : /\ offset + 1 + (s - FirstSlot) \in 1 .. Len(pendingInsertIds)
                                  /\ Seen(ChunkPid(s))
                                  /\ mainPc = "insert" => pointIdToSlot[ChunkPid(s)] = NoSlot
         /\ \A s, u \in ChunkSlots : ChunkPid(s) = ChunkPid(u) => s = u
         /\ \A i \in 1 .. Len(pendingInsertIds) :
              (\E s \in ChunkSlots : ChunkPid(s) = pendingInsertIds[i])
              <=> offset < i /\ i <= offset + Room
<1> USE DEF ExecInv, SkipInv, RequestsInv
<1> DEFINE n == Len(pendingInsertIds)
           At(s) == offset + 1 + (s - FirstSlot)
<1>1. /\ FirstSlot \in Nat /\ Room \in Nat /\ offset \in Nat /\ n \in Nat /\ offset + Room <= n
  <2>1. Room \in Nat /\ Remaining \in Nat /\ Room <= Remaining /\ offset \in Nat /\ n \in Nat
    BY RoomBounds, SkipTypes
  <2> HIDE DEF Room
  <2>2. offset + Room <= n
    BY <2>1 DEF Remaining
  <2> QED BY <2>1, <2>2, ChunkFacts
<1>2. mainPc = "insert" => TakenUpTo = offset
  BY DEF TakenUpTo
<1>3. \A s \in ChunkSlots : At(s) \in 1 .. n /\ At(s) > offset /\ s \in Int
  <2> HIDE DEF Room, FirstSlot
  <2> QED BY <1>1 DEF ChunkSlots
<1>4. \A s \in ChunkSlots : ChunkPid(s) = pendingInsertIds[At(s)]
  BY DEF ChunkPid
<1>5. \A s \in ChunkSlots : /\ Seen(ChunkPid(s))
                            /\ mainPc = "insert" => pointIdToSlot[ChunkPid(s)] = NoSlot
  BY <1>2, <1>3, <1>4 DEF PendingFresh, Seen
<1>6. \A s, u \in ChunkSlots : ChunkPid(s) = ChunkPid(u) => s = u
  <2> SUFFICES ASSUME NEW s \in ChunkSlots, NEW u \in ChunkSlots, ChunkPid(s) = ChunkPid(u)
               PROVE  s = u
    OBVIOUS
  <2>1. At(s) = At(u)
    BY <1>3, <1>4 DEF PendingFresh
  <2> HIDE DEF FirstSlot
  <2> QED BY <1>1, <1>3, <2>1
<1>7. ASSUME NEW i \in 1 .. n
      PROVE  (\E s \in ChunkSlots : ChunkPid(s) = pendingInsertIds[i])
             <=> offset < i /\ i <= offset + Room
  <2>1. ASSUME NEW s \in ChunkSlots, ChunkPid(s) = pendingInsertIds[i]
        PROVE  offset < i /\ i <= offset + Room
    <3>1. i = At(s)
      BY <1>3, <1>4, <2>1 DEF PendingFresh
    <3> HIDE DEF FirstSlot, Room
    <3> QED BY <1>1, <3>1 DEF ChunkSlots
  <2>2. ASSUME offset < i, i <= offset + Room
        PROVE  \E s \in ChunkSlots : ChunkPid(s) = pendingInsertIds[i]
    <3> DEFINE s == FirstSlot + (i - offset - 1)
    <3>1. s \in ChunkSlots /\ At(s) = i
      <4> HIDE DEF FirstSlot, Room
      <4> QED BY <1>1, <2>2 DEF ChunkSlots
    <3> QED BY <1>4, <3>1
  <2> QED BY <2>1, <2>2
<1> QED BY <1>3, <1>5, <1>6, <1>7

LEMMA AssignFacts ==
  ASSUME StoreMode, ExecInv, SkipInv, AssignSlots, mainPc' = "kernel"
  PROVE  /\ mainPc = "insert" /\ Room > 0 /\ ChunkSlots \subseteq Slots
         /\ \A s \in ChunkSlots : ~(s < WindowEnd) /\ s < WindowEnd + Room
         /\ \A s \in Slots : s < WindowEnd + Room /\ ~(s < WindowEnd) => s \in ChunkSlots
         /\ \A s \in Slots : slotToPointId'[s] = IF s \in ChunkSlots THEN ChunkPid(s)
                                                 ELSE slotToPointId[s]
         /\ \A s \in ChunkSlots : ChunkPid(s) \in Pids /\ pointIdToSlot'[ChunkPid(s)] = s
         /\ \A p \in Pids : (\A s \in ChunkSlots : ChunkPid(s) # p)
              => pointIdToSlot'[p] = pointIdToSlot[p]
         /\ TakenEnd = WindowEnd /\ TakenEnd' = WindowEnd + Room /\ WindowEnd' = WindowEnd
         /\ TakenUpTo = offset /\ TakenUpTo' = offset + Room
         /\ UNCHANGED <<ltiCount, numActiveTemps, rwBase, rwCount, tempMedoids, bufVars, delVars,
                        pendingInsertIds, pendingDeleteIds, offset, todo, deferredRecall, want>>
         /\ rwMedoid' # NoSlot
<1> USE DEF ExecInv
<1>1. /\ mainPc = "insert" /\ Room > 0 /\ ~(FirstSlot + Room > Capacity)
      /\ slotToPointId' = SlotMapAfterChunk
      /\ pointIdToSlot' =
           [p \in Pids |-> IF \E s \in ChunkSlots : ChunkPid(s) = p
                           THEN CHOOSE s \in ChunkSlots : ChunkPid(s) = p
                           ELSE pointIdToSlot[p]]
      /\ rwMedoid' = InsertStart
      /\ UNCHANGED <<ltiCount, numActiveTemps, rwBase, rwCount, tempMedoids, bufVars, delVars,
                     pendingInsertIds, pendingDeleteIds, offset, todo, deferredRecall, want>>
  BY DEF AssignSlots, pendVars, loadVars
<1>2. /\ FirstSlot \in Nat /\ Room \in Nat /\ ChunkSlots \subseteq Slots
      /\ WindowEnd = FirstSlot /\ \A s \in ChunkSlots : ChunkPid(s) \in Pids
  <2>1. FirstSlot \in Nat /\ Room \in Nat /\ Capacity \in Nat
    BY ChunkFacts, SkipTypes
  <2>2. FirstSlot + Room <= Capacity
    BY <1>1, <2>1
  <2>3. WindowEnd = FirstSlot
    BY <1>1, AnswerTypes
  <2> QED BY <2>1, <2>2, <2>3, ChunkFacts
<1>3. Room' = Room
  BY <1>1 DEF Room, Remaining
<1>4. rwMedoid' # NoSlot
  BY <1>1, <1>2, SkipTypes, SlotAssumption DEF SlotAssumption, InsertStart
<1> HIDE DEF Room
<1>5. /\ TakenEnd = WindowEnd /\ TakenEnd' = WindowEnd + Room /\ WindowEnd' = WindowEnd
      /\ TakenUpTo = offset /\ TakenUpTo' = offset + Room
  BY <1>1, <1>3 DEF TakenEnd, TakenUpTo, WindowEnd
<1>6. /\ \A s \in ChunkSlots : ~(s < WindowEnd) /\ s < WindowEnd + Room
      /\ \A s \in Slots : s < WindowEnd + Room /\ ~(s < WindowEnd) => s \in ChunkSlots
  BY <1>2 DEF ChunkSlots, Slots
<1>7. \A s \in Slots : slotToPointId'[s] = IF s \in ChunkSlots THEN ChunkPid(s)
                                           ELSE slotToPointId[s]
  BY <1>1 DEF SlotMapAfterChunk
<1>8. \A s, u \in ChunkSlots : ChunkPid(s) = ChunkPid(u) => s = u
  BY <1>1, ChunkOneToOne
<1> HIDE DEF ChunkSlots, ChunkPid
<1>9. \A s \in ChunkSlots : pointIdToSlot'[ChunkPid(s)] = s
  BY <1>1, <1>2, <1>8
<1>10. \A p \in Pids : (\A s \in ChunkSlots : ChunkPid(s) # p)
         => pointIdToSlot'[p] = pointIdToSlot[p]
  BY <1>1
<1> QED BY <1>1, <1>2, <1>4, <1>5, <1>6, <1>7, <1>9, <1>10

LEMMA AssignKeepsSkipInv ==
  ASSUME StoreMode, ExecInv, SkipInv, AssignSlots, mainPc' = "kernel"
  PROVE  SkipInv'
<1> USE DEF ExecInv, SkipInv, SlotsInv, RequestsInv
<1>1. /\ mainPc = "insert" /\ Room > 0 /\ ChunkSlots \subseteq Slots
      /\ \A s \in ChunkSlots : ~(s < WindowEnd) /\ s < WindowEnd + Room
      /\ \A s \in Slots : s < WindowEnd + Room /\ ~(s < WindowEnd) => s \in ChunkSlots
      /\ \A s \in Slots : slotToPointId'[s] = IF s \in ChunkSlots THEN ChunkPid(s)
                                              ELSE slotToPointId[s]
      /\ \A s \in ChunkSlots : ChunkPid(s) \in Pids /\ pointIdToSlot'[ChunkPid(s)] = s
      /\ \A p \in Pids : (\A s \in ChunkSlots : ChunkPid(s) # p)
           => pointIdToSlot'[p] = pointIdToSlot[p]
  BY AssignFacts
<1>2. /\ TakenEnd = WindowEnd /\ TakenEnd' = WindowEnd + Room /\ WindowEnd' = WindowEnd
      /\ TakenUpTo = offset /\ TakenUpTo' = offset + Room
      /\ UNCHANGED <<ltiCount, numActiveTemps, rwBase, rwCount, tempMedoids, bufVars, delVars,
                     pendingInsertIds, pendingDeleteIds, offset, todo, deferredRecall, want>>
      /\ rwMedoid' # NoSlot /\ mainPc' = "kernel"
  BY AssignFacts
<1>3. /\ \A s \in ChunkSlots : Seen(ChunkPid(s)) /\ pointIdToSlot[ChunkPid(s)] = NoSlot
      /\ \A i \in 1 .. Len(pendingInsertIds) :
           (\E s \in ChunkSlots : ChunkPid(s) = pendingInsertIds[i])
           <=> offset < i /\ i <= offset + Room
  BY <1>1, ChunkOneToOne
<1>4. /\ NoSlot \notin Slots /\ WindowEnd \in Nat /\ Room \in Nat /\ offset \in Nat
      /\ \A p \in Pids : pointIdToSlot[p] \in Slots \cup {NoSlot}
      /\ \A i \in 1 .. Len(pendingInsertIds) : pendingInsertIds[i] \in Pids
      /\ \A s \in Slots : s \in Int
  <2>1. NoSlot \notin Slots /\ offset \in Nat /\ \A p \in Pids : pointIdToSlot[p] \in Slots \cup {NoSlot}
    BY SkipTypes
  <2>2. WindowEnd \in Nat /\ Room \in Nat
    BY AnswerTypes, RoomBounds
  <2>3. \A i \in 1 .. Len(pendingInsertIds) : pendingInsertIds[i] \in Pids
    BY SkipTypes, ElementOfSeq
  <2>4. \A s \in Slots : s \in Int
    BY SkipTypes DEF Slots
  <2> HIDE DEF Room, WindowEnd
  <2> QED BY <2>1, <2>2, <2>3, <2>4
<1> HIDE DEF ChunkSlots, ChunkPid, Room
<1>5. MapsAgree'
  <2>1. ASSUME NEW p \in Pids, pointIdToSlot'[p] # NoSlot
        PROVE  pointIdToSlot'[p] < WindowEnd + Room /\ slotToPointId'[pointIdToSlot'[p]] = p
    <3>1. CASE \E s \in ChunkSlots : ChunkPid(s) = p
      BY <1>1, <3>1
    <3>2. CASE \A s \in ChunkSlots : ChunkPid(s) # p
      <4>1. pointIdToSlot'[p] = pointIdToSlot[p]
        BY <1>1, <3>2
      <4>2. /\ pointIdToSlot[p] \in Slots /\ pointIdToSlot[p] < WindowEnd
            /\ slotToPointId[pointIdToSlot[p]] = p
        BY <1>2, <1>4, <2>1, <4>1 DEF MapsAgree
      <4>3. pointIdToSlot[p] \notin ChunkSlots
        BY <1>1, <4>2
      <4> QED BY <1>1, <1>4, <4>1, <4>2, <4>3
    <3> QED BY <3>1, <3>2
  <2>2. ASSUME NEW s \in Slots, s < WindowEnd + Room
        PROVE  slotToPointId'[s] \in Pids /\ pointIdToSlot'[slotToPointId'[s]] = s
    <3>1. CASE s \in ChunkSlots
      BY <1>1, <3>1
    <3>2. CASE s \notin ChunkSlots
      <4>1. s < WindowEnd /\ slotToPointId'[s] = slotToPointId[s]
        BY <1>1, <2>2, <3>2
      <4>2. slotToPointId[s] \in Pids /\ pointIdToSlot[slotToPointId[s]] = s
        BY <1>2, <4>1 DEF MapsAgree
      <4>3. \A u \in ChunkSlots : ChunkPid(u) # slotToPointId[s]
        BY <1>3, <1>4, <4>2
      <4> QED BY <1>1, <4>1, <4>2, <4>3
    <3> QED BY <3>1, <3>2
  <2> QED BY <1>2, <2>1, <2>2 DEF MapsAgree
<1>6. NoMerge' /\ Written' /\ NothingBeyond' /\ MedoidsThere'
  <2>1. NoMerge'
    BY NoMergeKept DEF MainNext, Flush
  <2>2. \A s \in Slots : s < WindowEnd => slotToPointId'[s] = slotToPointId[s]
    BY <1>1
  <2>3. Written' /\ NothingBeyond'
    BY <1>2, <2>2 DEF Written, NothingBeyond, bufVars
  <2>4. MedoidsThere'
    BY <1>2 DEF MedoidsThere, TempWindow
  <2> QED BY <2>1, <2>3, <2>4
<1>7. PendingFresh'
  <2>1. ASSUME NEW i \in 1 .. Len(pendingInsertIds)
        PROVE  pointIdToSlot'[pendingInsertIds[i]] = NoSlot <=> i > offset + Room
    <3>1. CASE offset < i /\ i <= offset + Room
      <4>1. PICK s \in ChunkSlots : ChunkPid(s) = pendingInsertIds[i]
        BY <1>3, <3>1
      <4>2. pointIdToSlot'[pendingInsertIds[i]] = s /\ s # NoSlot
        BY <1>1, <1>4, <4>1
      <4> QED BY <1>4, <3>1, <4>2
    <3>2. CASE ~(offset < i /\ i <= offset + Room)
      <4>1. pointIdToSlot'[pendingInsertIds[i]] = pointIdToSlot[pendingInsertIds[i]]
        BY <1>1, <1>3, <1>4, <3>2
      <4>2. pointIdToSlot[pendingInsertIds[i]] = NoSlot <=> i > offset
        BY <1>2 DEF PendingFresh
      <4> QED BY <1>4, <3>2, <4>1, <4>2
    <3> QED BY <3>1, <3>2
  <2> QED BY <1>2, <2>1 DEF PendingFresh
<1>8. Wanted'
  <2>1. \A p \in Pids : Seen(p)' <=> Seen(p)
    <3> SUFFICES ASSUME NEW p \in Pids PROVE Seen(p)' <=> Seen(p)
      OBVIOUS
    <3>1. CASE \A s \in ChunkSlots : ChunkPid(s) # p
      BY <1>1, <1>2, <3>1 DEF Seen
    <3>2. CASE \E s \in ChunkSlots : ChunkPid(s) = p
      <4>1. PICK s \in ChunkSlots : ChunkPid(s) = p
        BY <3>2
      <4>2. pointIdToSlot'[p] = s /\ s # NoSlot /\ Seen(p)
        BY <1>1, <1>3, <1>4, <4>1
      <4> QED BY <4>2 DEF Seen
    <3> QED BY <3>1, <3>2
  <2>2. \A p \in Pids : pointIdToSlot'[p] \in delBits <=> pointIdToSlot[p] \in delBits
    <3> SUFFICES ASSUME NEW p \in Pids
                 PROVE  pointIdToSlot'[p] \in delBits <=> pointIdToSlot[p] \in delBits
      OBVIOUS
    <3>1. CASE \E s \in ChunkSlots : ChunkPid(s) = p
      <4>1. PICK s \in ChunkSlots : ChunkPid(s) = p
        BY <3>1
      <4>2. pointIdToSlot'[p] = s /\ ~(s < WindowEnd) /\ pointIdToSlot[p] = NoSlot
        BY <1>1, <1>3, <4>1
      <4> QED BY <1>4, <4>2, SkipTypes DEF TombstonesKnown
    <3> QED BY <1>1, <3>1
  <2>3. \A p \in Pids : Unwanted(p)' <=> Unwanted(p)
    BY <1>2 DEF Unwanted
  <2> QED BY <1>2, <2>1, <2>2, <2>3 DEF Wanted, delVars
<1>9. TombstonesKnown' /\ RecallKept' /\ InsertsFirst'
  <2>1. \A r \in deferredRecall : r[1] \in Slots
    BY DEF LayoutInv, TypeOK, MapTypeOK
  <2>2. RecallKept'
    BY <1>1, <1>2, <2>1 DEF RecallKept
  <2> QED BY <1>2, <2>2 DEF TombstonesKnown, InsertsFirst, InsertFirst, delVars
<1> QED BY <1>5, <1>6, <1>7, <1>8, <1>9

LEMMA SkipStutter == SkipInv /\ UNCHANGED vars => SkipInv'
<1> SUFFICES ASSUME SkipInv, UNCHANGED vars PROVE SkipInv'
  OBVIOUS
<1> USE DEF vars, idxVars, bufVars, delVars, mainVars, pendVars, mapVars, loadVars, snapVars
<1>1. WindowEnd' = WindowEnd /\ TakenEnd' = TakenEnd /\ TakenUpTo' = TakenUpTo
  BY DEF WindowEnd, TakenEnd, TakenUpTo, Room, Remaining
<1>2. SlotsInv'
  BY <1>1 DEF SkipInv, SlotsInv, NoMerge, Written, NothingBeyond, MapsAgree, MedoidsThere, TempWindow
<1>3. PendingFresh' /\ TombstonesKnown' /\ InsertsFirst' /\ RecallKept'
  BY <1>1 DEF SkipInv, RequestsInv, PendingFresh, TombstonesKnown, InsertsFirst, InsertFirst,
     RecallKept
<1>4. Wanted'
  BY DEF SkipInv, RequestsInv, Wanted, Seen, Unwanted
<1> QED BY <1>2, <1>3, <1>4 DEF SkipInv, RequestsInv

LEMMA SkipStep ==
  ASSUME StoreMode, ExecInv, SkipInv, Next
  PROVE  SkipInv'
<1>1. CASE UNCHANGED vars
  BY <1>1, SkipStutter
<1>2. CASE MainNext
  <2>1. CASE PassingStep
    BY <2>1, PassingKeepsSlots, PassingKeepsRequests DEF SkipInv
  <2>2. CASE InsertChunk
    BY <2>2, ChunkKeepsSkipInv
  <2>3. CASE SealStep
    BY <2>3, SealKeepsSkipInv
  <2>4. CASE mainPc' = "kernel" /\ ~InsertChunk /\ ~SealStep
    <3>1. AssignSlots
      BY <1>2, <2>4, MainSteps DEF EventInsert, EventDelete, EventQuery, EventsOver, Finish, Flush,
         BeginInsert, WindowIsFull, SealRefused, SealStep, MainStep, EndInsert, FlushDelete,
         LaunchSearch, TriggerSkipped, Resume, Idle, NextTask
    <3> QED BY <2>4, <3>1, AssignKeepsSkipInv
  <2> QED BY <1>2, <2>1, <2>2, <2>3, <2>4 DEF PassingStep
<1> QED BY <1>1, <1>2, OnlyMainMoves

(* Without merges a search sees exactly the points that have a slot below  *)
(* the end of the window and no tombstone.                                 *)
Shown(p) ==
  pointIdToSlot[p] # NoSlot /\ pointIdToSlot[p] < WindowEnd /\ pointIdToSlot[p] \notin delBits
VisibleExact == VisiblePids \subseteq Pids /\ \A p \in Pids : p \in VisiblePids <=> Shown(p)

LEMMA VisibleIsShown ==
  ASSUME ExecInv, SkipInv
  PROVE  VisibleExact
<1> USE DEF ExecInv, SkipInv, SlotsInv, RequestsInv
<1>1. /\ WindowEnd \in Nat /\ Room \in Nat /\ rwBase \in Nat /\ rwCount \in Nat /\ L \in Nat
      /\ ltiCount = L /\ \A s \in Slots : s \in Nat
  <2>1. WindowEnd \in Nat /\ Room \in Nat /\ rwBase \in Nat /\ rwCount \in Nat
    BY AnswerTypes, RoomBounds
  <2> HIDE DEF Room, WindowEnd
  <2> QED BY <2>1, SkipTypes DEF NoMerge, Slots
<1>2. \A s \in Slots : s < WindowEnd => s < TakenEnd
  <2> HIDE DEF Room
  <2> QED BY <1>1 DEF TakenEnd
<1>3. \A s \in Slots : (delCount > 0 => s \notin delBits) <=> s \notin delBits
  BY SkipTypes DEF TombstonesKnown
<1>4. ASSUME NEW v \in VisiblePids PROVE v \in Pids /\ Shown(v)
  <2>1. PICK s \in Answer : v = graph[cur][s]
    BY <1>4 DEF VisiblePids
  <2>2. s \in Slots /\ graph[cur][s] # NoPid /\ s \notin delBits
    BY <1>3 DEF Answer
  <2>3. s < WindowEnd
    BY <2>2 DEF NothingBeyond
  <2>4. v \in Pids /\ pointIdToSlot[v] = s /\ s # NoSlot
    BY <1>2, <2>1, <2>2, <2>3, SkipTypes DEF Written, MapsAgree
  <2> QED BY <2>2, <2>3, <2>4 DEF Shown
<1>5. ASSUME NEW p \in Pids, Shown(p) PROVE p \in VisiblePids
  <2> DEFINE s == pointIdToSlot[p]
  <2>1. s \in Slots /\ s < WindowEnd /\ s \notin delBits
    BY <1>5, SkipTypes DEF Shown
  <2>2. slotToPointId[s] = p /\ graph[cur][s] = p /\ p # NoPid
    BY <1>5, <2>1, PidAssumption DEF PidAssumption, Shown, MapsAgree, Written
  <2> HIDE DEF s
  <2>3. s \in SearchedSlots
    <3>1. CASE s < L
      BY <1>1, <2>1, <3>1 DEF SearchedSlots
    <3>2. CASE ~(s < L) /\ s < rwBase
      <4>1. PICK i \in 0 .. numActiveTemps - 1 : s \in TempWindow(i)
        BY <1>1, <2>1, <3>2 DEF MedoidsThere
      <4>2. tempMedoids[i] # NoSlot
        BY <4>1 DEF MedoidsThere
      <4> QED BY <4>1, <4>2 DEF SearchedSlots
    <3>3. CASE ~(s < rwBase)
      <4>1. s \in RwWindow /\ rwCount > 0
        BY <1>1, <2>1, <3>3 DEF RwWindow, WindowEnd
      <4>2. rwMedoid # NoSlot
        BY <4>1 DEF MedoidsThere
      <4> QED BY <4>1, <4>2 DEF SearchedSlots
    <3> QED BY <3>1, <3>2, <3>3
  <2>4. s \in Answer
    BY <1>3, <2>1, <2>2, <2>3 DEF Answer
  <2> QED BY <2>2, <2>4 DEF VisiblePids
<1> QED BY <1>4, <1>5 DEF VisibleExact

LEMMA StoreInit == ExecInv /\ VisibleExact /\ Init => Store!Init
<1> SUFFICES ASSUME ExecInv, VisibleExact, Init PROVE Store!Init
  OBVIOUS
<1>1. /\ L \in Nat /\ rwBase = L /\ rwCount = 0 /\ offset = 0 /\ pendingInsertIds = <<>>
      /\ want = 0 .. L - 1 /\ delBits = {}
      /\ pointIdToSlot = [p \in Pids |-> IF p \in 0 .. L - 1 THEN p ELSE NoSlot]
  BY SkipTypes DEF ExecInv, Init, IndexInit, ExecutorInit
<1>2. 0 .. L - 1 \subseteq Pids /\ WindowEnd = L /\ NoSlot \notin Slots /\ 0 .. L - 1 \subseteq Slots
  BY <1>1, SkipTypes, PidAssumption DEF PidAssumption, ExecInv, WindowEnd, Slots
<1>3. \A p \in Pids : Shown(p) <=> p \in 0 .. L - 1
  BY <1>1, <1>2 DEF Shown
<1>4. VisiblePids = 0 .. L - 1
  BY <1>2, <1>3 DEF VisibleExact
<1>5. {pendingInsertIds[i] : i \in offset + 1 .. Len(pendingInsertIds)} = {}
  BY <1>1
<1> QED BY <1>1, <1>4, <1>5 DEF Store!Init

Due == {pendingInsertIds[i] : i \in offset + 1 .. Len(pendingInsertIds)}

LEMMA AsksAreRequests ==
  ASSUME StoreMode, ExecInv, NEW p \in Pids, EventInsert(p) \/ EventDelete(p)
  PROVE  Store!AskInsert(p) \/ Store!AskDelete(p)
<1> DEFINE n == Len(pendingInsertIds)
<1>1. VisiblePids' = VisiblePids
  BY DEF EventInsert, EventDelete, idxVars, bufVars, delVars, VisiblePids, Answer, SearchedSlots,
     TempWindow, RwWindow
<1>2. CASE EventInsert(p)
  <2>1. /\ want' = want \cup {p} /\ offset' = offset /\ n \in Nat /\ offset \in Nat /\ offset <= n
        /\ Len(pendingInsertIds') = n + 1 /\ pendingInsertIds'[n + 1] = p
        /\ \A i \in 1 .. n : pendingInsertIds'[i] = pendingInsertIds[i]
    BY <1>2, SkipTypes DEF ExecInv, EventInsert, LayoutInv, OffsetInRange
  <2> HIDE DEF n
  <2>2. offset + 1 .. n + 1 = (offset + 1 .. n) \cup {n + 1} /\ offset + 1 .. n \subseteq 1 .. n
    BY <2>1
  <2>3. Due' = {pendingInsertIds'[i] : i \in offset + 1 .. n + 1}
    BY <2>1 DEF Due
  <2>4. Due = {pendingInsertIds[i] : i \in offset + 1 .. n}
    BY DEF Due, n
  <2>5. Due' = Due \cup {p}
    BY <2>1, <2>2, <2>3, <2>4
  <2> QED BY <1>1, <2>1, <2>5 DEF Store!AskInsert, Due
<1>3. CASE EventDelete(p)
  BY <1>1, <1>3 DEF EventDelete, Store!AskDelete
<1> QED BY <1>2, <1>3

LEMMA FlushesAreBatches ==
  ASSUME StoreMode, ExecInv, SkipInv, VisibleExact, VisibleExact', MainNext,
         ~ \E p \in Pids : EventInsert(p) \/ EventDelete(p)
  PROVE  [Store!ApplyInserts \/ Store!ApplyDeletes]_<<want, Due, VisiblePids>>
<1> USE DEF ExecInv, SkipInv, SlotsInv, RequestsInv
<1>1. CASE FlushDelete
  <2> DEFINE P == {p \in VisiblePids : Unwanted(p)}
  <2>1. P \subseteq VisiblePids \ want
    BY DEF VisibleExact, Wanted
  <2>2. /\ UNCHANGED <<want, Due, WindowEnd, pointIdToSlot>>
        /\ delBits' = delBits \cup {s \in DeletedSlots : s < DeleteCap}
    BY <1>1 DEF FlushDelete, NextTask, BatchMarkDeleted, DeletedSlots, loadVars, idxVars, mapVars,
       Due, WindowEnd
  <2>3. \A p \in Pids : pointIdToSlot[p] \in DeletedSlots <=> Unwanted(p)
    BY <1>1, DeleteFlushFacts
  <2>4. \A s \in DeletedSlots : s < DeleteCap
    BY <1>1, DeleteFlushFacts
  <2> HIDE DEF DeletedSlots, WindowEnd
  <2>5. \A p \in Pids : Shown(p)' <=> Shown(p) /\ ~Unwanted(p)
    BY <2>2, <2>3, <2>4 DEF Shown
  <2>6. VisiblePids' = VisiblePids \ P
    BY <2>5 DEF VisibleExact
  <2> HIDE DEF P
  <2> QED BY <2>1, <2>2, <2>6 DEF Store!ApplyDeletes, Due
<1>2. CASE InsertChunk
  <2> DEFINE P == {p \in Pids : \E s \in ChunkSlots : ChunkPid(s) = p}
             n == Len(pendingInsertIds)
  <2>1. /\ mainPc = "kernel" /\ offset' = offset + Room
        /\ UNCHANGED <<want, pointIdToSlot, slotToPointId, delBits, pendingInsertIds>>
        /\ rwCount' = rwCount + Room /\ rwBase' = rwBase /\ mainPc' # "sealCount"
    BY <1>2 DEF InsertChunk, pendVars, loadVars, mapVars, delVars
  <2>2. /\ Room \in Nat /\ Room <= T - rwCount /\ Room <= Remaining /\ T \in Nat /\ rwBase \in Nat
        /\ rwCount \in Nat /\ offset \in Nat /\ WindowEnd \in Nat /\ FirstSlot = WindowEnd
        /\ n \in Nat
    BY <2>1, RoomBounds, AnswerTypes, SkipTypes
  <2>3. \A s \in ChunkSlots : s \in Slots /\ slotToPointId[s] = ChunkPid(s) /\ ChunkPid(s) \in Pids
    BY <2>1, ChunkFacts DEF WriteInv, ChunkAssigned
  <2>4. TakenEnd = WindowEnd + Room
    BY <2>1 DEF TakenEnd
  <2>5. /\ \A i \in 1 .. n : (\E s \in ChunkSlots : ChunkPid(s) = pendingInsertIds[i])
                             <=> offset < i /\ i <= offset + Room
        /\ \A s \in ChunkSlots : offset + 1 + (s - FirstSlot) \in 1 .. n
    BY ChunkOneToOne
  <2>6. \A s \in Slots : s \in ChunkSlots <=> ~(s < WindowEnd) /\ s < WindowEnd + Room
    <3> HIDE DEF Room, WindowEnd, FirstSlot
    <3> QED BY <2>2 DEF ChunkSlots, Slots
  <2>7. WindowEnd' = WindowEnd + Room
    <3> HIDE DEF Room
    <3> QED BY <2>1, <2>2 DEF WindowEnd
  <2>8. offset + Room <= n
    <3> HIDE DEF Room
    <3> QED BY <2>2 DEF Remaining
  <2>9. \A p \in Pids : pointIdToSlot[p] # NoSlot =>
          (p \in P <=> ~(pointIdToSlot[p] < WindowEnd))
    <3> SUFFICES ASSUME NEW p \in Pids, pointIdToSlot[p] # NoSlot
                 PROVE  p \in P <=> ~(pointIdToSlot[p] < WindowEnd)
      OBVIOUS
    <3>1. /\ pointIdToSlot[p] \in Slots /\ pointIdToSlot[p] < WindowEnd + Room
          /\ slotToPointId[pointIdToSlot[p]] = p
      BY <2>4, SkipTypes DEF MapsAgree
    <3>2. \A s \in ChunkSlots : pointIdToSlot[ChunkPid(s)] = s
      BY <2>3, <2>4, <2>6 DEF MapsAgree
    <3> HIDE DEF ChunkSlots, ChunkPid, Room, WindowEnd
    <3> QED BY <2>3, <2>6, <3>1, <3>2
  <2>10. \A p \in P : pointIdToSlot[p] # NoSlot /\ pointIdToSlot[p] < WindowEnd + Room
                      /\ pointIdToSlot[p] \notin delBits
    <3> SUFFICES ASSUME NEW s \in ChunkSlots
                 PROVE  /\ pointIdToSlot[ChunkPid(s)] = s /\ s # NoSlot /\ s < WindowEnd + Room
                        /\ s \notin delBits
      OBVIOUS
    <3>1. s \in Slots /\ ~(s < WindowEnd) /\ s < WindowEnd + Room
      BY <2>3, <2>6
    <3>2. pointIdToSlot[ChunkPid(s)] = s
      BY <2>3, <2>4, <3>1 DEF MapsAgree
    <3> QED BY <3>1, <3>2, SkipTypes DEF TombstonesKnown
  <2>11. P \subseteq Due /\ Due' = Due \ P
    <3>1. \A i \in 1 .. n : pendingInsertIds[i] \in P <=> offset < i /\ i <= offset + Room
      BY <2>5, SkipTypes, ElementOfSeq
    <3>2. \A p \in P : \E i \in 1 .. n : p = pendingInsertIds[i]
      BY <2>5 DEF ChunkPid
    <3>3. Due = {pendingInsertIds[i] : i \in offset + 1 .. n}
          /\ Due' = {pendingInsertIds[i] : i \in offset + Room + 1 .. n}
      BY <2>1 DEF Due
    <3>4. /\ \A i \in offset + 1 .. n : i \in 1 .. n /\ offset < i
          /\ \A i \in offset + Room + 1 .. n : i \in 1 .. n /\ offset < i /\ ~(i <= offset + Room)
          /\ \A i \in 1 .. n : offset < i => i \in offset + 1 .. n
          /\ \A i \in 1 .. n : ~(i <= offset + Room) => i \in offset + Room + 1 .. n
          /\ \A i \in offset + Room + 1 .. n : i \in offset + 1 .. n
      <4> HIDE DEF Room, n
      <4> QED BY <2>2
    <3> HIDE DEF P, n, Room
    <3>5. P \subseteq Due
      BY <3>1, <3>2, <3>3, <3>4
    <3>6. Due' = Due \ P
      BY <3>1, <3>3, <3>4
    <3> QED BY <3>5, <3>6
  <2> HIDE DEF P, Room, WindowEnd
  <2>12. \A p \in Pids : Shown(p)' <=> Shown(p) \/ p \in P
    <3> SUFFICES ASSUME NEW p \in Pids PROVE Shown(p)' <=> Shown(p) \/ p \in P
      OBVIOUS
    <3>1. Shown(p)' <=> /\ pointIdToSlot[p] # NoSlot /\ pointIdToSlot[p] < WindowEnd + Room
                        /\ pointIdToSlot[p] \notin delBits
      BY <2>1, <2>7 DEF Shown
    <3>2. pointIdToSlot[p] # NoSlot => pointIdToSlot[p] \in Nat
      BY SkipTypes DEF Slots
    <3> QED BY <2>2, <2>9, <2>10, <3>1, <3>2 DEF Shown
  <2>13. VisiblePids' = VisiblePids \cup P
    BY <2>12 DEF VisibleExact, P
  <2> QED BY <2>1, <2>11, <2>13 DEF Store!ApplyInserts, Due
<1>3. CASE ~FlushDelete /\ ~InsertChunk
  <2>1. UNCHANGED <<want, delBits>>
    BY <1>3, MainSteps DEF EventQuery, EventsOver, Finish, Flush, BeginInsert, AssignSlots,
       WindowIsFull, SealRefused, BeginSeal,
         MoveBase, ResetCount, ResetMedoid, sealUnchanged, MainStep, EndInsert, LaunchSearch, TriggerSkipped, loadVars, delVars
  <2>2. Due' = Due
    <3>1. CASE EndInsert
      <4>1. /\ pendingInsertIds' = <<>> /\ offset' = 0 /\ offset \in Nat
            /\ Len(pendingInsertIds) \in Nat /\ Len(pendingInsertIds) <= offset
        BY <3>1, SkipTypes DEF EndInsert, Remaining
      <4> QED BY <4>1 DEF Due
    <3>2. CASE ~EndInsert
      <4>1. UNCHANGED <<pendingInsertIds, offset>>
        BY <1>3, <3>2, MainSteps DEF EventQuery, EventsOver, Finish, Flush, BeginInsert,
           AssignSlots, WindowIsFull, SealRefused, BeginSeal,
         MoveBase, ResetCount, ResetMedoid, sealUnchanged, MainStep, LaunchSearch, TriggerSkipped, pendVars
      <4> QED BY <4>1 DEF Due
    <3> QED BY <3>1, <3>2
  <2>3. \A p \in Pids : Shown(p)' <=> Shown(p)
    <3>1. CASE PassingStep
      <4>1. UNCHANGED mapVars /\ WindowEnd' = WindowEnd
        BY <3>1, PassingFrame
      <4> HIDE DEF WindowEnd
      <4> QED BY <2>1, <4>1 DEF Shown, mapVars
    <3>2. CASE SealStep
      <4>1. UNCHANGED mapVars
        BY <3>2 DEF SealStep, BeginSeal, MoveBase, ResetCount, ResetMedoid, sealUnchanged
      <4>2. WindowEnd' = WindowEnd
        BY <1>3, WindowMoves
      <4> HIDE DEF WindowEnd
      <4> QED BY <2>1, <4>1, <4>2 DEF Shown, mapVars
    <3>3. CASE mainPc' = "kernel" /\ ~SealStep
      <4>1. AssignSlots
        BY <1>3, <3>3, MainSteps DEF EventQuery, EventsOver, Finish, Flush,
           BeginInsert, WindowIsFull, SealRefused, SealStep, MainStep, EndInsert, LaunchSearch,
           TriggerSkipped, Resume, Idle, NextTask
      <4>2. /\ \A s \in ChunkSlots : /\ ~(s < WindowEnd) /\ pointIdToSlot'[ChunkPid(s)] = s
                                     /\ ChunkPid(s) \in Pids
            /\ \A p \in Pids : (\A s \in ChunkSlots : ChunkPid(s) # p)
                 => pointIdToSlot'[p] = pointIdToSlot[p]
            /\ mainPc = "insert" /\ WindowEnd' = WindowEnd
        BY <3>3, <4>1, AssignFacts
      <4>3. \A s \in ChunkSlots : pointIdToSlot[ChunkPid(s)] = NoSlot
        BY <4>2, ChunkOneToOne
      <4> HIDE DEF WindowEnd, ChunkSlots, ChunkPid
      <4> QED BY <2>1, <4>2, <4>3 DEF Shown
    <3> QED BY <1>3, <3>1, <3>2, <3>3 DEF PassingStep
  <2>4. VisiblePids' = VisiblePids
    BY <2>3 DEF VisibleExact
  <2> QED BY <2>1, <2>2, <2>4
<1> QED BY <1>1, <1>2, <1>3

LEMMA SkipAlways ==
  ASSUME StoreMode PROVE Spec => [](ExecInv /\ SkipInv /\ VisibleExact)
<1>1. ~EagerMerge
  BY DEF StoreMode
<1>2. ExecInv /\ SkipInv /\ [Next]_vars => ExecInv' /\ SkipInv'
  BY <1>1, ExecInvStep, SkipStep, SkipStutter
<1>3. ExecInv /\ SkipInv => VisibleExact
  BY VisibleIsShown
<1> QED BY <1>2, <1>3, ExecInvInit, SkipInit, PTL DEF Spec

(* Without merges, and with ids used once, a search made when nothing is   *)
(* pending sees every live point: a delete flush never meets an insert     *)
(* that is still pending, no slot changes hands, and no sealed Temp or     *)
(* window is without its entry point.                                      *)
THEOREM LostNever == ASSUME StoreMode PROVE Spec => []NothingLost
<1>1. ASSUME ExecInv, SkipInv, VisibleExact PROVE NothingLost
  <2> SUFFICES ASSUME Flushed, NEW p \in want PROVE p \in VisiblePids
    BY DEF NothingLost
  <2>1. mainPc = "loop" /\ pendingInsertIds = <<>> /\ p \in Pids
    BY <1>1, SkipTypes DEF Flushed, Idle, ExecInv
  <2>2. Seen(p) /\ pointIdToSlot[p] \notin delBits
    BY <1>1, <2>1 DEF SkipInv, RequestsInv, Wanted
  <2>3. pointIdToSlot[p] # NoSlot
    BY <2>1, <2>2 DEF Seen
  <2>4. pointIdToSlot[p] < WindowEnd
    BY <1>1, <2>1, <2>3 DEF SkipInv, SlotsInv, MapsAgree, TakenEnd
  <2> QED BY <1>1, <2>1, <2>2, <2>3, <2>4 DEF VisibleExact, Shown
<1> QED BY <1>1, SkipAlways, PTL

(* Nor does it see a deleted point: every delete that was asked for found  *)
(* its point's slot in the map.                                            *)
THEOREM ResurrectedNever == ASSUME StoreMode PROVE Spec => []NothingResurrected
<1>1. ASSUME ExecInv, SkipInv, VisibleExact PROVE NothingResurrected
  <2> SUFFICES ASSUME Flushed, NEW p \in VisiblePids PROVE p \in want
    BY DEF NothingResurrected
  <2>1. pendingDeleteIds = <<>> /\ p \in Pids /\ Shown(p)
    BY <1>1 DEF Flushed, VisibleExact
  <2> QED BY <1>1, <2>1 DEF SkipInv, RequestsInv, Wanted, Shown, Seen, Unwanted
<1> QED BY <1>1, SkipAlways, PTL

(* A slot in an answer still belongs to the same point when the run ends.  *)
THEOREM RecallHolds == ASSUME StoreMode PROVE Spec => []AnswersTranslateAtTheEnd
<1>1. ASSUME SkipInv PROVE AnswersTranslateAtTheEnd
  BY <1>1 DEF SkipInv, RequestsInv, RecallKept, AnswersTranslateAtTheEnd, RecallPid
<1> QED BY <1>1, SkipAlways, PTL

(* The executor implements the store: an event asks, an insert flush makes *)
(* a chunk of the requested points visible, a delete flush hides points    *)
(* that are unwanted, and no other step changes what a search sees.        *)
THEOREM ExecutorIsAStore == ASSUME StoreMode PROVE Spec => StoreSpec
<1>1. ExecInv /\ VisibleExact /\ Init => Store!Init
  BY StoreInit
<1>2. ASSUME ExecInv, SkipInv, VisibleExact, VisibleExact', [Next]_vars
      PROVE  [Store!Next]_<<want, Due, VisiblePids>>
  <2>1. CASE UNCHANGED vars
    BY <2>1 DEF vars, idxVars, bufVars, delVars, mainVars, pendVars, loadVars, Due, VisiblePids,
       Answer, SearchedSlots, TempWindow, RwWindow
  <2>2. CASE MainNext
    <3>1. CASE \E p \in Pids : EventInsert(p) \/ EventDelete(p)
      BY <1>2, <3>1, AsksAreRequests DEF Store!Next
    <3>2. CASE ~ \E p \in Pids : EventInsert(p) \/ EventDelete(p)
      BY <1>2, <2>2, <3>2, FlushesAreBatches DEF Store!Next
    <3> QED BY <3>1, <3>2
  <2> QED BY <1>2, <2>1, <2>2, OnlyMainMoves
<1>3. ExecInv /\ SkipInv /\ VisibleExact /\ VisibleExact' /\ [Next]_vars
      => [Store!Next]_<<want, {pendingInsertIds[i] : i \in offset + 1 .. Len(pendingInsertIds)},
                        VisiblePids>>
  BY <1>2 DEF Due
<1> QED BY <1>1, <1>3, SkipAlways, PTL DEF Spec, StoreSpec, Store!Spec
-----------------------------------------------------------------------------
(* Merges in the main thread only.  When the workload stays below every    *)
(* threshold that starts the background thread, a merge runs between a     *)
(* query event's insert flush and its search, and finds at the swap the    *)
(* index it took its counts from.                                          *)

(* numActiveTemps >= maxTemps, the size of the index and the delete list:  *)
(* none of the three conditions of triggerMergeAsync is ever met.  A       *)
(* delete is flushed by the event that asks for it, so that an insert of   *)
(* the same id comes after it.                                             *)
NothingTriggered == MaxInserts < M * T /\ MaxDeletes < DeleteCap /\ DeleteBatch = 1

mt == "main"
HasCounts == {"base", "count", "medoid", "phaseA", "gather", "link", "copy", "swap"}
HasBase   == HasCounts \ {"base"}
HasCount  == HasBase \ {"count"}
HasMedoid == HasCount \ {"medoid"}

OneThread ==
  /\ mergePc[bg] = "none"
  /\ mainPc \notin {"trigger", "join"}
  /\ mainPc # "merge" => mergePc[mt] = "none"
DeletesAccounted == delCount + Len(pendingDeleteIds) <= numDeletes /\ numDeletes <= MaxDeletes

(* What the merge saved is what the index still says.                      *)
SnapshotExact ==
  /\ mergePc[mt] \in HasCounts => newLtiCount[mt] = rwBase
  /\ mergePc[mt] \in HasBase => savedRwBase[mt] = rwBase
  /\ mergePc[mt] \in HasCount => savedRwCount[mt] = rwCount
  /\ mergePc[mt] \in HasMedoid => savedRwMedoid[mt] = rwMedoid
BuffersApart ==
  /\ cur \in allocated
  /\ Building(mt) => newGraph[mt] \in allocated \ {cur}
  /\ Published(mt) => oldGraph[mt] # cur

(* From Phase A on the copy has the live vertices of the LTI and of the    *)
(* Temps, and at the swap those of the window too.                         *)
LiveCopied ==
  /\ mergePc[mt] \in Consolidated =>
       \A s \in Slots : s < rwBase /\ s \notin delBits => graph[newGraph[mt]][s] = graph[cur][s]
  /\ mergePc[mt] = "swap" =>
       \A s \in Slots : s < WindowEnd /\ s \notin delBits
         => graph[newGraph[mt]][s] = graph[cur][s]
EagerMergeInv == OneThread /\ SnapshotExact /\ BuffersApart /\ LiveCopied

(* A slot that was handed out stays its point's: no two points share one,  *)
(* and a tombstone is never on a slot that is still to be handed out.      *)
Owned ==
  \A p \in Pids : pointIdToSlot[p] # NoSlot =>
    pointIdToSlot[p] < TakenEnd /\ slotToPointId[pointIdToSlot[p]] = p
ChunkOwned == mainPc = "kernel" => \A s \in ChunkSlots : pointIdToSlot[ChunkPid(s)] \in ChunkSlots
TombstonesTaken == \A s \in delBits : s < WindowEnd

(* A pending delete is flushed before the next event, and no event asks    *)
(* for its point again before that.                                        *)
CurrentTask ==
  /\ mainPc \in {"insert", "kernel"} \cup SealPcs => todo # <<>> /\ todo[1] = "insert"
  /\ mainPc = "merge" => todo # <<>> /\ todo[1] = "eager"
DeletesDue ==
  mainPc # "done" /\ pendingDeleteIds # <<>> => \E j \in 1 .. Len(todo) : todo[j] = "delete"
UnwantedGone == \A i \in 1 .. Len(pendingDeleteIds) : pendingDeleteIds[i] \notin want
TasksInv == CurrentTask /\ DeletesDue /\ UnwantedGone

(* Every live point is in its slot, without a tombstone, or pending.       *)
Held(p) ==
  /\ pointIdToSlot[p] # NoSlot
  /\ pointIdToSlot[p] < WindowEnd
  /\ pointIdToSlot[p] \notin delBits
  /\ graph[cur][pointIdToSlot[p]] = p
Coming(p) == \E i \in offset + 1 .. Len(pendingInsertIds) : pendingInsertIds[i] = p
AllHeld == \A p \in want : Held(p) \/ Coming(p)
PointsInv == Owned /\ ChunkOwned /\ TombstonesTaken /\ AllHeld

CountsInv == InsertsAccounted /\ DeletesAccounted
ChunkInv == ChunkAssigned /\ MedoidsThere
EagerInv == CountsInv /\ ChunkInv /\ EagerMergeInv /\ TasksInv /\ PointsInv

LEMMA EagerInit == Init => EagerInv
<1> SUFFICES ASSUME Init PROVE EagerInv
  OBVIOUS
<1>1. LayoutInv
  BY LayoutInit
<1>2. /\ L \in Nat /\ cur \in Buffers /\ cur \in allocated /\ rwBase = L /\ rwCount = 0
      /\ numActiveTemps = 0 /\ ltiCount = L /\ mergePc[bg] = "none" /\ mergePc[mt] = "none"
      /\ mainPc = "loop" /\ pendingInsertIds = <<>> /\ pendingDeleteIds = <<>> /\ todo = <<>>
      /\ delBits = {} /\ delCount = 0 /\ numDeletes = 0 /\ want = 0 .. L - 1 /\ offset = 0
      /\ pointIdToSlot = [p \in Pids |-> IF p \in 0 .. L - 1 THEN p ELSE NoSlot]
      /\ slotToPointId = [s \in Slots |-> IF s < L THEN s ELSE NoPid]
      /\ \A s \in Slots : s < L => graph[cur][s] = s
  <2>1. L \in Nat /\ cur \in Buffers
    BY <1>1, LayoutAssumption DEF LayoutAssumption, LayoutInv, TypeOK, GraphTypeOK
  <2> QED BY <2>1 DEF Init, IndexInit, ExecutorInit, bg, mt, Mergers
<1>3. WindowEnd = L /\ TakenEnd = L
  BY <1>2 DEF WindowEnd, TakenEnd
<1>4. NoSlot \notin Slots /\ 0 .. L - 1 \subseteq Slots /\ 0 .. L - 1 \subseteq Pids
  BY <1>1, <1>2, SkipTypes, PidAssumption DEF PidAssumption, Slots
<1>5. CountsInv
  <2>1. InsertsAccounted
    BY InsertsInit
  <2>2. DeletesAccounted
    BY <1>2, BatchAssumption DEF BatchAssumption, DeletesAccounted
  <2> QED BY <2>1, <2>2 DEF CountsInv
<1>6. ChunkInv
  <2>1. MedoidsThere
    BY <1>2, <1>4 DEF MedoidsThere
  <2> QED BY <1>2, <2>1 DEF ChunkInv, ChunkAssigned
<1>7. EagerMergeInv
  BY <1>2 DEF EagerMergeInv, OneThread, SnapshotExact, BuffersApart, LiveCopied, HasCounts,
     HasBase, HasCount, HasMedoid, Consolidated, Building, Published
<1>8. TasksInv
  BY <1>2 DEF TasksInv, CurrentTask, SealPcs, DeletesDue, UnwantedGone
<1>9. PointsInv
  <2>1. Owned
    BY <1>2, <1>3, <1>4 DEF Owned
  <2>2. AllHeld
    <3> SUFFICES ASSUME NEW p \in want PROVE Held(p)
      BY DEF AllHeld
    <3>1. p \in 0 .. L - 1 /\ p \in Pids /\ p \in Slots /\ pointIdToSlot[p] = p
      BY <1>2, <1>4
    <3> QED BY <1>2, <1>3, <1>4, <3>1 DEF Held
  <2> QED BY <1>2, <2>1, <2>2 DEF PointsInv, ChunkOwned, TombstonesTaken
<1> QED BY <1>5, <1>6, <1>7, <1>8, <1>9 DEF EagerInv

(* The layout never fills up: there is a Temp to spare, and the index is   *)
(* smaller than the size at which a merge is due.                          *)
LEMMA LayoutNeverFull ==
  ASSUME NothingTriggered, NEW lti \in Nat, NEW n \in Nat, NEW count \in Nat, NEW total \in Nat,
         L <= lti, lti + n * T + count <= L + total, total <= MaxInserts
  PROVE  n < M /\ lti + n * T + count < L + M * T
<1>1. /\ L \in Nat /\ T \in Nat \ {0} /\ M \in Nat /\ MaxInserts \in Nat
      /\ M * T \in Nat /\ n * T \in Nat
  BY LayoutAssumption, BatchAssumption DEF LayoutAssumption, BatchAssumption
<1>2. lti + n * T + count < L + M * T
  <2> DEFINE x == n * T  y == M * T
  <2>1. x \in Nat /\ y \in Nat /\ MaxInserts < y /\ lti + x + count <= L + total
    BY <1>1 DEF NothingTriggered
  <2> HIDE DEF x, y
  <2>2. lti + x + count < L + y
    BY <1>1, <2>1
  <2> QED BY <2>2 DEF x, y
<1>3. n < M
  <2> SUFFICES ASSUME ~(n < M) PROVE FALSE
    OBVIOUS
  <2> DEFINE k == n - M
  <2>1. k \in Nat /\ n = M + k
    BY <1>1
  <2> HIDE DEF k
  <2>2. (M + k) * T = M * T + k * T /\ k * T \in Nat
    BY <1>1, <2>1
  <2> DEFINE x == n * T  y == M * T  z == k * T
  <2>3. x = y + z /\ z \in Nat /\ x \in Nat /\ y \in Nat /\ lti + x + count < L + y
    BY <1>1, <1>2, <2>1, <2>2
  <2> HIDE DEF x, y, z
  <2> QED BY <1>1, <2>3
<1> QED BY <1>2, <1>3


(* The main thread never gets to triggerMergeAsync.                        *)
LEMMA MainStepsEager ==
  ASSUME EagerInv, MainNext
  PROVE  \/ \E p \in Pids : EventInsert(p) \/ EventDelete(p)
         \/ EventQuery \/ EventsOver \/ Finish
         \/ Flush \/ BeginEagerMerge \/ EndEagerMerge
BY DEF EagerInv, EagerMergeInv, OneThread, MainNext, Trigger, TriggerSkipped, TriggerSpawn,
   TriggerWait, TriggerJoined

LEMMA KnownAreAtMost ==
  ASSUME LayoutInv
  PROVE  Cardinality(KnownDeletes) \in Nat /\ Cardinality(KnownDeletes) <= Len(pendingDeleteIds)
<1> DEFINE n == Len(pendingDeleteIds)
<1>1. n \in Nat
  BY SkipTypes
<1>2. KnownDeletes \subseteq 1 .. n
  BY DEF KnownDeletes
<1> HIDE DEF n
<1>3. IsFiniteSet(1 .. n) /\ Cardinality(1 .. n) = n
  BY <1>1, FS_Interval
<1> QED BY <1>2, <1>3, FS_Subset, FS_CardinalityType DEF n

(* Sums of naturals, of whatever state.                                    *)
LEMMA SumsBelow ==
  ASSUME NEW a \in Nat, NEW b \in Nat, NEW c \in Nat, NEW d \in Nat, a < b, c < d
  PROVE  ~(a + c >= b + d)
OBVIOUS

LEMMA LessIsLess ==
  ASSUME NEW a \in Nat, NEW b \in Nat, NEW c \in Nat, NEW d \in Nat
  PROVE  /\ c <= b /\ a + b <= d => a + c <= d
         /\ a + b + c <= d => a + b <= d
         /\ b = 0 => (a + b <= d <=> a <= d)
OBVIOUS

LEMMA MainKeepsDeletes ==
  ASSUME LayoutInv, DeletesAccounted, MainNext
  PROVE  DeletesAccounted'
<1>1. /\ delCount \in Nat /\ Len(pendingDeleteIds) \in Nat /\ numDeletes \in Nat
      /\ pendingDeleteIds \in Seq(Pids) /\ MaxDeletes \in Nat
  BY SkipTypes, BatchAssumption DEF BatchAssumption, LayoutInv, TypeOK, MainTypeOK
<1> USE DEF DeletesAccounted
<1>2. ASSUME NEW p \in Pids, EventDelete(p) PROVE DeletesAccounted'
  <2>1. Len(pendingDeleteIds') = Len(pendingDeleteIds) + 1
    BY <1>1, <1>2, AppendProperties DEF EventDelete
  <2>2. numDeletes' = numDeletes + 1 /\ numDeletes < MaxDeletes /\ UNCHANGED delCount
    BY <1>2 DEF EventDelete, delVars
  <2> QED BY <1>1, <2>1, <2>2
<1>3. CASE FlushDelete
  <2>1. /\ delCount' = delCount + Cardinality(KnownDeletes) /\ Len(pendingDeleteIds') = 0
        /\ UNCHANGED numDeletes
    BY <1>3 DEF FlushDelete, BatchMarkDeleted, loadVars
  <2> DEFINE c == Cardinality(KnownDeletes)  n == Len(pendingDeleteIds)
  <2>2. /\ c \in Nat /\ c <= n /\ n \in Nat /\ delCount + n <= numDeletes
        /\ numDeletes <= MaxDeletes /\ delCount' = delCount + c
    BY <1>1, <2>1, KnownAreAtMost
  <2> HIDE DEF c, n
  <2>3. delCount + c <= numDeletes
    BY <1>1, <2>2, LessIsLess
  <2>4. delCount' \in Nat /\ Len(pendingDeleteIds') \in Nat /\ delCount' <= numDeletes
    BY <1>1, <2>1, <2>2, <2>3
  <2>5. delCount' + Len(pendingDeleteIds') <= numDeletes
    BY <1>1, <2>1, <2>4, LessIsLess
  <2> QED BY <2>1, <2>2, <2>5
<1>4. ASSUME ~FlushDelete, \A p \in Pids : ~EventDelete(p) PROVE DeletesAccounted'
  <2>1. UNCHANGED <<delCount, pendingDeleteIds, numDeletes>>
    BY <1>4 DEF MainNext, Flush, Trigger, EventInsert, EventQuery, EventsOver, Finish, BeginInsert,
       AssignSlots, InsertChunk, WindowIsFull, SealRefused, BeginSeal, MoveBase, ResetCount,
       ResetMedoid, sealUnchanged, EndInsert, LaunchSearch, TriggerSkipped, TriggerSpawn,
       TriggerWait, TriggerJoined, BeginEagerMerge, EndEagerMerge, delVars, pendVars, loadVars
  <2> QED BY <2>1
<1> QED BY <1>2, <1>3, <1>4

LEMMA MainKeepsCounts ==
  ASSUME LayoutInv, EagerInv, MainNext
  PROVE  CountsInv'
BY MainKeepsInserts, MainKeepsDeletes DEF EagerInv, CountsInv

LEMMA MainTriggersNothing ==
  ASSUME NothingTriggered, LayoutInv, EagerInv, MainNext, LayoutInv', CountsInv'
  PROVE  mainPc' \notin {"trigger", "join"}
<1>0. /\ L \in Nat /\ M \in Nat /\ T \in Nat /\ DeleteCap \in Nat /\ MaxDeletes \in Nat
  BY LayoutAssumption, BatchAssumption DEF LayoutAssumption, BatchAssumption
<1>1. ASSUME mainPc \notin {"sealBase", "sealCount"}
      PROVE  numActiveTemps < M /\ ltiCount + numActiveTemps * T + rwCount < L + M * T
  <2>1. /\ ltiCount \in Nat /\ numActiveTemps \in Nat /\ rwCount \in Nat /\ rwBase \in Nat
        /\ numInserts \in Nat /\ L <= ltiCount /\ rwBase = ltiCount + numActiveTemps * T
    BY <1>1 DEF LayoutInv, TypeOK, IndexTypeOK, MainTypeOK, IndexLayout
  <2>2. rwBase + rwCount + Remaining <= L + numInserts /\ numInserts <= MaxInserts
    BY <1>1 DEF EagerInv, CountsInv, InsertsAccounted, WindowEnd
  <2>3. Remaining \in Nat
    BY RoomBounds
  <2>4. ltiCount + numActiveTemps * T + rwCount <= L + numInserts
    <3> DEFINE x == ltiCount + numActiveTemps * T  r == Remaining
    <3>1. x \in Nat /\ r \in Nat /\ x + rwCount + r <= L + numInserts
      BY <2>1, <2>2, <2>3
    <3> HIDE DEF x, r
    <3>2. x + rwCount <= L + numInserts
      BY <1>0, <2>1, <3>1
    <3> QED BY <3>2 DEF x
  <2> QED BY <2>1, <2>2, <2>4, LayoutNeverFull
<1>3. numActiveTemps \in Nat /\ ltiCount \in Nat /\ rwCount \in Nat
  BY AnswerTypes
<1>2. CASE FlushDelete
  <2> SUFFICES ~MergeNeeded(delCount')
    BY <1>2 DEF FlushDelete, NextTask
  <2>1. delCount' \in Nat /\ delCount' < DeleteCap
    <3>1. delCount' + Len(pendingDeleteIds') <= numDeletes' /\ numDeletes' <= MaxDeletes
      BY DEF CountsInv, DeletesAccounted
    <3>2. delCount' \in Nat /\ numDeletes' \in Nat
      BY DEF LayoutInv, TypeOK, MapTypeOK, MainTypeOK
    <3>3. Len(pendingDeleteIds') = 0
      BY <1>2 DEF FlushDelete
    <3>4. delCount' <= numDeletes'
      <4>1. Len(pendingDeleteIds') \in Nat
        BY <3>3
      <4> QED BY <3>1, <3>2, <3>3, <4>1, LessIsLess, Zenon
    <3>5. MaxDeletes < DeleteCap
      BY DEF NothingTriggered
    <3> QED BY <1>0, <3>1, <3>2, <3>4, <3>5
  <2>6. numActiveTemps < M /\ ltiCount + numActiveTemps * T + rwCount < L + M * T
    BY <1>1, <1>2 DEF FlushDelete, NextTask
  <2> DEFINE x == ltiCount + numActiveTemps * T + rwCount  y == L + M * T
  <2>7. x \in Nat /\ y \in Nat /\ x < y
    BY <1>0, <1>3, <2>6
  <2>8. MergeNeeded(delCount') => \/ x + delCount' >= y + DeleteCap
                                 \/ numActiveTemps >= M \/ delCount' >= DeleteCap
    BY DEF MergeNeeded
  <2> HIDE DEF x, y
  <2>9. ~(x + delCount' >= y + DeleteCap)
    BY <1>0, <2>1, <2>7, SumsBelow
  <2>10. ~(numActiveTemps >= M) /\ ~(delCount' >= DeleteCap)
    BY <1>0, <1>3, <2>1, <2>6
  <2> QED BY <2>8, <2>9, <2>10
<1>4. CASE SealRefused \/ ResetMedoid
  <2>1. numActiveTemps < M
    BY <1>1, <1>4 DEF SealRefused, ResetMedoid, MainStep
  <2>2. mainPc' = IF numActiveTemps >= M THEN "trigger" ELSE "insert"
    BY <1>4 DEF SealRefused, ResetMedoid, MainStep
  <2> QED BY <1>0, <1>3, <2>1, <2>2
<1>5. CASE ~SealRefused /\ ~ResetMedoid /\ ~FlushDelete
  BY <1>5, MainStepsEager DEF EagerInv, EagerMergeInv, OneThread, Flush, EventInsert, EventDelete,
     EventQuery, EventsOver, Finish, BeginInsert, AssignSlots, InsertChunk, WindowIsFull, BeginSeal,
     MoveBase, ResetCount, MainStep, EndInsert, LaunchSearch, BeginEagerMerge, EndEagerMerge
<1> QED BY <1>2, <1>4, <1>5

(* Between merges the main thread keeps what a merge relies on.            *)
LEMMA MainKeepsEagerMerge ==
  ASSUME NothingTriggered, LayoutInv, EagerInv, MainNext, LayoutInv', CountsInv'
  PROVE  EagerMergeInv'
<1> USE DEF EagerInv, EagerMergeInv
<1>1. mainPc' \notin {"trigger", "join"}
  BY MainTriggersNothing
<1>2. mergePc \in [Mergers -> MergePcs] /\ bg \in Mergers /\ mt \in Mergers /\ bg # mt
  BY DEF LayoutInv, TypeOK, MergeTypeOK, bg, mt, Mergers
<1>3. CASE BeginEagerMerge \/ EndEagerMerge \/ Finish
  <2>1. /\ mergePc'[bg] = "none" /\ mergePc'[mt] \in {"none", "start"}
        /\ mainPc' # "merge" => mergePc'[mt] = "none"
    <3>1. CASE Finish
      BY <1>2, <3>1 DEF Finish, NextTask, OneThread, bg
    <3>2. CASE BeginEagerMerge
      BY <1>2, <3>2 DEF BeginEagerMerge, NextTask, OneThread, mt
    <3>3. CASE EndEagerMerge
      BY <1>2, <3>3 DEF EndEagerMerge, OneThread, mt
    <3> QED BY <1>3, <3>1, <3>2, <3>3
  <2>2. UNCHANGED <<cur, allocated>>
    BY MainFrame
  <2> QED BY <1>1, <2>1, <2>2 DEF OneThread, SnapshotExact, BuffersApart, LiveCopied, HasCounts,
          HasBase, HasCount, HasMedoid, Consolidated, Building, Published
<1>4. CASE ~(BeginEagerMerge \/ EndEagerMerge \/ Finish)
  <2>1. UNCHANGED mergePc /\ mainPc # "merge" /\ mainPc' # "merge"
    BY <1>4, MainStepsEager DEF Flush, EventInsert, EventDelete, EventQuery, EventsOver,
       BeginInsert, AssignSlots, InsertChunk, WindowIsFull, SealRefused, BeginSeal,
         MoveBase, ResetCount, ResetMedoid, sealUnchanged, MainStep, EndInsert, FlushDelete, LaunchSearch,
       Idle, NextTask
  <2>2. UNCHANGED <<cur, allocated>>
    BY MainFrame
  <2> QED BY <1>1, <2>1, <2>2 DEF OneThread, SnapshotExact, BuffersApart, LiveCopied, HasCounts,
          HasBase, HasCount, HasMedoid, Consolidated, Building, Published
<1> QED BY <1>3, <1>4

(* An insert's chunk and the entry points.                                 *)
LEMMA MainKeepsChunk ==
  ASSUME LayoutInv, EagerInv, MainNext
  PROVE  ChunkInv'
<1> USE DEF EagerInv, ChunkInv
<1>1. ltiCount' = ltiCount /\ rwCount \in Nat /\ Room \in Nat /\ T \in Nat \ {0}
  BY MainFrame, AnswerTypes, RoomBounds
<1>2. ChunkAssigned'
  BY AssignedChunk DEF ChunkAssigned
<1>3. \A i \in Nat : UNCHANGED rwBase => TempWindow(i)' = TempWindow(i)
  BY <1>1 DEF TempWindow
<1>4. \A i \in 0 .. numActiveTemps - 1 : i \in Nat
  BY SkipTypes
<1>5. CASE InsertChunk
  <2>1. rwMedoid # NoSlot /\ UNCHANGED <<numActiveTemps, tempMedoids, rwBase, rwMedoid>>
    BY <1>5 DEF ChunkAssigned, InsertChunk
  <2>2. MedoidsThere => MedoidsThere'
    BY <1>1, <1>3, <1>4, <2>1 DEF MedoidsThere
  <2> QED BY <1>2, <2>2
<1>6. CASE SealStep
  BY <1>1, <1>2, <1>6, SealKeepsMedoids
<1>7. CASE mainPc' = "kernel"
  <2>1. UNCHANGED <<rwBase, rwCount>>
    BY <1>7, AssignedChunk
  <2>2. AssignSlots
    BY <1>7, MainStepsEager DEF Flush, EventInsert, EventDelete, EventQuery, EventsOver, Finish,
       BeginInsert, InsertChunk, WindowIsFull, SealRefused, BeginSeal, MoveBase, ResetCount,
       ResetMedoid, MainStep, EndInsert, FlushDelete, LaunchSearch, Idle, NextTask,
       BeginEagerMerge, EndEagerMerge
  <2>3. UNCHANGED <<numActiveTemps, tempMedoids, ltiCount>> /\ rwMedoid' # NoSlot
    BY <1>2, <1>7, <2>1, <2>2 DEF AssignSlots, ChunkAssigned
  <2> QED BY <1>1, <1>2, <1>3, <1>4, <2>1, <2>3 DEF MedoidsThere
<1>8. CASE ~InsertChunk /\ ~SealStep /\ mainPc' # "kernel"
  <2>1. UNCHANGED <<rwBase, rwCount, rwMedoid, numActiveTemps, tempMedoids>>
    BY <1>8, MainStepsEager DEF Flush, EventInsert, EventDelete, EventQuery, EventsOver, Finish,
       BeginInsert, AssignSlots, WindowIsFull, SealRefused, SealStep, EndInsert, FlushDelete,
       LaunchSearch, BeginEagerMerge, EndEagerMerge, idxVars
  <2> QED BY <1>1, <1>2, <1>3, <1>4, <2>1 DEF MedoidsThere
<1> QED BY <1>5, <1>6, <1>7, <1>8

(* Another task of todo is done: a delete flush that is due stays due.     *)
LEMMA TailKeepsDelete ==
  ASSUME NEW tasks \in Seq(Tasks), tasks # <<>>, tasks[1] # "delete",
         NEW j \in 1 .. Len(tasks), tasks[j] = "delete"
  PROVE  \E k \in 1 .. Len(Tail(tasks)) : Tail(tasks)[k] = "delete"
<1>1. /\ Len(tasks) \in Nat \ {0} /\ Len(Tail(tasks)) = Len(tasks) - 1
      /\ \A i \in 1 .. Len(Tail(tasks)) : Tail(tasks)[i] = tasks[i + 1]
  BY HeadTailProperties, EmptySeq
<1>2. j # 1
  OBVIOUS
<1>3. j - 1 \in 1 .. Len(Tail(tasks)) /\ (j - 1) + 1 = j
  BY <1>1, <1>2
<1> QED BY <1>1, <1>3

(* A delete event's own flush is the last task it adds.                    *)
LEMMA EndsInDelete ==
  ASSUME NEW x \in Seq(Tasks)
  PROVE  \E j \in 1 .. Len(x \o <<"delete">>) : (x \o <<"delete">>)[j] = "delete"
<1>1. <<"delete">> \in Seq(Tasks) /\ Len(<<"delete">>) = 1
  BY DEF Tasks
<1>2. /\ Len(x) \in Nat /\ Len(x \o <<"delete">>) = Len(x) + 1
      /\ (x \o <<"delete">>)[Len(x) + 1] = <<"delete">>[1]
  BY <1>1, ConcatProperties, LenProperties
<1> QED BY <1>2

(* Where the maps, the window and the vertices stay, so do the points.     *)
LEMMA SlotsUntouched ==
  ASSUME PointsInv, mainPc # "kernel", mainPc' # "kernel",
         UNCHANGED <<graph, cur, delBits, mapVars>>, WindowEnd' = WindowEnd
  PROVE  Owned' /\ ChunkOwned' /\ TombstonesTaken' /\ \A p \in Pids : Held(p) => Held(p)'
<1>1. TakenEnd = WindowEnd /\ TakenEnd' = WindowEnd'
  BY DEF TakenEnd
<1> QED BY <1>1 DEF PointsInv, Owned, ChunkOwned, TombstonesTaken, Held, mapVars

LEMMA EventsKeepPoints ==
  ASSUME NothingTriggered, LayoutInv, EagerInv,
         \/ \E p \in Pids : EventInsert(p) \/ EventDelete(p)
         \/ EventQuery \/ EventsOver \/ Finish
  PROVE  TasksInv' /\ PointsInv'
<1> USE DEF EagerInv, TasksInv
<1>1. /\ UNCHANGED <<rwBase, rwCount, graph, cur, delBits, mapVars, offset>>
      /\ mainPc = "loop" /\ mainPc' \in {"loop", "done"}
  BY DEF EventInsert, EventDelete, EventQuery, EventsOver, Finish, Idle, NextTask, idxVars,
     bufVars, delVars
<1>2. WindowEnd' = WindowEnd
  BY <1>1 DEF WindowEnd
<1>3. Owned' /\ ChunkOwned' /\ TombstonesTaken' /\ \A p \in Pids : Held(p) => Held(p)'
  BY <1>1, <1>2, SlotsUntouched
<1>4. CurrentTask'
  BY <1>1 DEF CurrentTask, SealPcs
<1>5. todo = <<>> => pendingDeleteIds = <<>>
  BY <1>1 DEF DeletesDue
<1>6. want \subseteq Pids
  BY SkipTypes
<1>7. ASSUME NEW p \in Pids, EventInsert(p) PROVE TasksInv' /\ PointsInv'
  <2>1. /\ pendingInsertIds' = Append(pendingInsertIds, p) /\ want' = want \cup {p}
        /\ pendingDeleteIds = <<>> /\ pendingDeleteIds' = <<>>
    BY <1>5, <1>7 DEF EventInsert, Idle
  <2> DEFINE n == Len(pendingInsertIds)
  <2>2. /\ n \in Nat /\ offset \in Nat /\ offset <= n
        /\ Len(pendingInsertIds') = n + 1 /\ pendingInsertIds'[n + 1] = p
        /\ \A i \in 1 .. n : pendingInsertIds'[i] = pendingInsertIds[i]
    BY <2>1, SkipTypes DEF LayoutInv, OffsetInRange
  <2> HIDE DEF n
  <2>3. \A q \in Pids : Coming(q) \/ q = p => Coming(q)'
    <3> SUFFICES ASSUME NEW q \in Pids, Coming(q) \/ q = p
                 PROVE  \E i \in offset + 1 .. n + 1 : pendingInsertIds'[i] = q
      BY <1>1, <2>2 DEF Coming
    <3>1. CASE q = p
      BY <2>2, <3>1
    <3>2. CASE Coming(q)
      <4>1. PICK i \in offset + 1 .. n : pendingInsertIds[i] = q
        BY <3>2 DEF Coming, n
      <4>2. i \in 1 .. n /\ i \in offset + 1 .. n + 1
        BY <2>2
      <4> QED BY <2>2, <4>1, <4>2
    <3> QED BY <3>1, <3>2
  <2>4. AllHeld'
    BY <1>3, <1>6, <2>1, <2>3 DEF PointsInv, AllHeld
  <2> QED BY <1>3, <1>4, <2>1, <2>4 DEF DeletesDue, UnwantedGone, PointsInv
<1>8. ASSUME NEW p \in Pids, EventDelete(p) PROVE TasksInv' /\ PointsInv'
  <2>1. /\ pendingDeleteIds = <<>> /\ pendingDeleteIds' = <<p>> /\ want' = want \ {p}
        /\ UNCHANGED pendingInsertIds
    BY <1>5, <1>8 DEF EventDelete, Idle
  <2>2. UnwantedGone'
    BY <2>1 DEF UnwantedGone
  <2>3. DeletesDue'
    <3>1. todo' = InsertDue \o SearchDue \o <<"delete">>
      <4>1. 0 + 1 >= DeleteBatch
        BY DEF NothingTriggered
      <4> QED BY <1>8, <2>1, <4>1 DEF EventDelete
    <3>2. InsertDue \o SearchDue \in Seq(Tasks)
      <4>1. InsertDue \in Seq(Tasks) /\ SearchDue \in Seq(Tasks)
        BY DueTasks DEF Tasks
      <4> QED BY <4>1, ConcatProperties
    <3> DEFINE x == InsertDue \o SearchDue
    <3> HIDE DEF x
    <3>3. \E j \in 1 .. Len(x \o <<"delete">>) : (x \o <<"delete">>)[j] = "delete"
      BY <3>2, EndsInDelete DEF x
    <3>4. todo' = x \o <<"delete">>
      BY <3>1 DEF x
    <3> QED BY <3>3, <3>4 DEF DeletesDue
  <2>4. AllHeld'
    BY <1>1, <1>3, <1>6, <2>1 DEF PointsInv, AllHeld, Coming
  <2> QED BY <1>3, <1>4, <2>2, <2>3, <2>4 DEF PointsInv
<1>9. CASE EventQuery \/ EventsOver \/ Finish
  <2>1. /\ UNCHANGED <<pendingInsertIds, pendingDeleteIds, want>>
        /\ mainPc' = "done" \/ pendingDeleteIds = <<>>
    BY <1>5, <1>9 DEF EventQuery, EventsOver, Finish, Idle, pendVars, loadVars
  <2>2. DeletesDue' /\ UnwantedGone'
    BY <2>1 DEF DeletesDue, UnwantedGone
  <2>3. AllHeld'
    BY <1>1, <1>3, <1>6, <2>1 DEF PointsInv, AllHeld, Coming
  <2> QED BY <1>3, <1>4, <2>2, <2>3 DEF PointsInv
<1> QED BY <1>7, <1>8, <1>9

(* The steps that only pass from one task to the next.                     *)
LEMMA TasksKeepPoints ==
  ASSUME LayoutInv, EagerInv,
         \/ BeginInsert \/ WindowIsFull \/ SealRefused \/ SealStep \/ EndInsert \/ LaunchSearch
         \/ BeginEagerMerge \/ EndEagerMerge \/ (AssignSlots /\ mainPc' # "kernel"),
         mainPc' \notin {"trigger", "join"}
  PROVE  TasksInv' /\ PointsInv'
<1> USE DEF EagerInv, TasksInv
<1>1. /\ UNCHANGED <<graph, cur, delBits, mapVars, pendingDeleteIds, want>>
      /\ mainPc # "kernel" /\ mainPc' # "kernel"
  BY DEF BeginInsert, WindowIsFull, SealRefused, SealStep, BeginSeal, MoveBase, ResetCount,
     ResetMedoid, sealUnchanged, MainStep, EndInsert, LaunchSearch, BeginEagerMerge, EndEagerMerge,
     AssignSlots, NextTask, bufVars, delVars, pendVars, loadVars
<1>2. WindowEnd' = WindowEnd
  <2>1. MainNext
    BY DEF SealStep, MainNext, Flush, Trigger
  <2> QED BY <1>1, <2>1, WindowMoves DEF InsertChunk
<1>3. Owned' /\ ChunkOwned' /\ TombstonesTaken' /\ \A p \in Pids : Held(p) => Held(p)'
  BY <1>1, <1>2, SlotsUntouched
<1>4. UnwantedGone' /\ want \subseteq Pids
  BY <1>1, SkipTypes DEF UnwantedGone
<1>5. \/ UNCHANGED todo
      \/ todo # <<>> /\ todo[1] # "delete" /\ todo' = Tail(todo)
  BY DEF BeginInsert, WindowIsFull, SealRefused, SealStep, BeginSeal, MoveBase, ResetCount,
     ResetMedoid, sealUnchanged, MainStep, EndInsert, LaunchSearch, BeginEagerMerge, EndEagerMerge,
     AssignSlots, NextTask, CurrentTask
<1>6. DeletesDue'
  <2>1. mainPc # "done"
    BY DEF BeginInsert, WindowIsFull, SealRefused, SealStep, BeginSeal, MoveBase, ResetCount,
       ResetMedoid, MainStep, EndInsert, LaunchSearch, BeginEagerMerge, EndEagerMerge,
       AssignSlots, NextTask
  <2>2. CASE UNCHANGED todo
    BY <1>1, <2>1, <2>2 DEF DeletesDue
  <2>3. CASE todo # <<>> /\ todo[1] # "delete" /\ todo' = Tail(todo)
    BY <1>1, <2>1, <2>3, SkipTypes, TailKeepsDelete DEF DeletesDue
  <2> QED BY <1>5, <2>2, <2>3
<1>7. CurrentTask'
  BY DEF CurrentTask, SealPcs, BeginInsert, WindowIsFull, SealRefused, SealStep, BeginSeal,
     MoveBase, ResetCount, ResetMedoid, sealUnchanged, MainStep, EndInsert, LaunchSearch, BeginEagerMerge,
     EndEagerMerge, AssignSlots, NextTask
<1>8. AllHeld'
  <2>1. CASE EndInsert
    <3>1. offset \in Nat /\ Len(pendingInsertIds) \in Nat /\ Len(pendingInsertIds) <= offset
      BY <2>1, SkipTypes DEF EndInsert, Remaining
    <3>2. \A p \in want : ~Coming(p)
      BY <3>1 DEF Coming
    <3> QED BY <1>1, <1>3, <1>4, <3>2 DEF PointsInv, AllHeld
  <2>2. CASE ~EndInsert
    <3>1. UNCHANGED <<offset, pendingInsertIds>>
      BY <2>2 DEF BeginInsert, WindowIsFull, SealRefused, SealStep, BeginSeal, MoveBase,
         ResetCount, ResetMedoid, sealUnchanged, LaunchSearch, BeginEagerMerge, EndEagerMerge,
         AssignSlots, pendVars
    <3> QED BY <1>1, <1>3, <1>4, <3>1 DEF PointsInv, AllHeld, Coming
  <2> QED BY <2>1, <2>2
<1> QED BY <1>3, <1>4, <1>6, <1>7, <1>8 DEF PointsInv


(* A chunk's points are pending inserts, and its slots are above all that  *)
(* were handed out before.                                                 *)
LEMMA ChunkIsComing ==
  ASSUME LayoutInv, mainPc \in {"insert", "kernel"}
  PROVE  /\ \A s \in ChunkSlots : Coming(ChunkPid(s)) /\ ChunkPid(s) \in Pids
         /\ \A s \in ChunkSlots : ~(s < WindowEnd) /\ s < WindowEnd + Room
         /\ \A s \in Slots : s < WindowEnd + Room /\ ~(s < WindowEnd) => s \in ChunkSlots
         /\ \A i \in offset + 1 .. Len(pendingInsertIds) : i <= offset + Room =>
              \E s \in ChunkSlots : ChunkPid(s) = pendingInsertIds[i]
<1> DEFINE n == Len(pendingInsertIds)
<1>1. /\ FirstSlot \in Nat /\ Room \in Nat /\ offset \in Nat /\ n \in Nat /\ offset + Room <= n
      /\ FirstSlot = WindowEnd
  <2>1. Room \in Nat /\ Remaining \in Nat /\ Room <= Remaining /\ offset \in Nat /\ n \in Nat
    BY RoomBounds, SkipTypes
  <2> HIDE DEF Room
  <2>2. offset + Room <= n
    BY <2>1 DEF Remaining
  <2> QED BY <2>1, <2>2, ChunkFacts, AnswerTypes
<1>2. \A s \in ChunkSlots : ChunkPid(s) \in Pids
  BY ChunkFacts
<1> HIDE DEF Room, FirstSlot, WindowEnd, n
<1>3. \A s \in ChunkSlots : /\ offset + 1 + (s - FirstSlot) \in offset + 1 .. n
                            /\ ~(s < WindowEnd) /\ s < WindowEnd + Room
  BY <1>1 DEF ChunkSlots
<1>4. \A s \in ChunkSlots : Coming(ChunkPid(s))
  BY <1>3 DEF Coming, ChunkPid, n
<1>5. \A s \in Slots : s < WindowEnd + Room /\ ~(s < WindowEnd) => s \in ChunkSlots
  BY <1>1 DEF ChunkSlots, Slots
<1>6. ASSUME NEW i \in offset + 1 .. n, i <= offset + Room
      PROVE  \E s \in ChunkSlots : ChunkPid(s) = pendingInsertIds[i]
  <2> DEFINE s == FirstSlot + (i - offset - 1)
  <2>1. s \in ChunkSlots /\ offset + 1 + (s - FirstSlot) = i
    BY <1>1, <1>6 DEF ChunkSlots
  <2> QED BY <2>1 DEF ChunkPid
<1> QED BY <1>2, <1>3, <1>4, <1>5, <1>6 DEF n

LEMMA AssignKeepsPoints ==
  ASSUME LayoutInv, EagerInv, AssignSlots, mainPc' = "kernel"
  PROVE  TasksInv' /\ PointsInv'
<1> USE DEF EagerInv, TasksInv, PointsInv
<1>1. /\ mainPc = "insert" /\ ~(FirstSlot + Room > Capacity)
      /\ slotToPointId' = SlotMapAfterChunk
      /\ pointIdToSlot' =
           [p \in Pids |-> IF \E s \in ChunkSlots : ChunkPid(s) = p
                           THEN CHOOSE s \in ChunkSlots : ChunkPid(s) = p
                           ELSE pointIdToSlot[p]]
      /\ UNCHANGED <<rwBase, rwCount, graph, cur, delBits, pendingInsertIds, pendingDeleteIds,
                     offset, todo, want>>
  BY DEF AssignSlots, pendVars, loadVars, bufVars, delVars
<1>2. /\ FirstSlot \in Nat /\ Room \in Nat /\ ChunkSlots \subseteq Slots /\ WindowEnd \in Nat
      /\ NoSlot \notin Slots /\ want \subseteq Pids
      /\ pointIdToSlot \in [Pids -> Slots \cup {NoSlot}]
  <2>1. FirstSlot \in Nat /\ Room \in Nat /\ WindowEnd \in Nat /\ Capacity \in Nat
    BY ChunkFacts, AnswerTypes, SkipTypes
  <2>2. FirstSlot + Room <= Capacity
    BY <1>1, <2>1
  <2> QED BY <2>1, <2>2, ChunkFacts, SkipTypes
<1>3. /\ \A s \in ChunkSlots : Coming(ChunkPid(s)) /\ ChunkPid(s) \in Pids
      /\ \A s \in ChunkSlots : ~(s < WindowEnd) /\ s < WindowEnd + Room
  BY <1>1, ChunkIsComing
<1>4. Room' = Room /\ ChunkSlots' = ChunkSlots /\ \A s \in ChunkSlots : ChunkPid(s)' = ChunkPid(s)
  BY <1>1 DEF Room, Remaining, ChunkSlots, FirstSlot, ChunkPid
<1> HIDE DEF Room, ChunkSlots, ChunkPid
<1>5. /\ TakenEnd = WindowEnd /\ TakenEnd' = WindowEnd + Room /\ WindowEnd' = WindowEnd
  BY <1>1, <1>4 DEF TakenEnd, WindowEnd
<1>6. ASSUME NEW p \in Pids, NEW s \in ChunkSlots, ChunkPid(s) = p
      PROVE  pointIdToSlot'[p] \in ChunkSlots /\ ChunkPid(pointIdToSlot'[p]) = p
  BY <1>1, <1>6
<1>7. ASSUME NEW p \in Pids, \A s \in ChunkSlots : ChunkPid(s) # p
      PROVE  pointIdToSlot'[p] = pointIdToSlot[p]
  BY <1>1, <1>7
<1>8. \A s \in Slots : slotToPointId'[s] = IF s \in ChunkSlots THEN ChunkPid(s)
                                           ELSE slotToPointId[s]
  BY <1>1 DEF SlotMapAfterChunk
<1>9. Owned'
  <2> SUFFICES ASSUME NEW p \in Pids, pointIdToSlot'[p] # NoSlot
               PROVE  pointIdToSlot'[p] < WindowEnd + Room /\ slotToPointId'[pointIdToSlot'[p]] = p
    BY <1>5 DEF Owned
  <2>1. CASE \E s \in ChunkSlots : ChunkPid(s) = p
    <3>1. pointIdToSlot'[p] \in ChunkSlots /\ ChunkPid(pointIdToSlot'[p]) = p
      BY <1>6, <2>1
    <3> QED BY <1>2, <1>3, <1>8, <3>1
  <2>2. CASE \A s \in ChunkSlots : ChunkPid(s) # p
    <3>1. pointIdToSlot'[p] = pointIdToSlot[p]
      BY <1>7, <2>2
    <3>2. /\ pointIdToSlot[p] \in Slots /\ pointIdToSlot[p] < WindowEnd
          /\ slotToPointId[pointIdToSlot[p]] = p
      BY <1>2, <1>5, <3>1 DEF Owned
    <3>3. pointIdToSlot[p] \notin ChunkSlots
      BY <1>3, <3>2
    <3>4. \A s \in Slots : s < WindowEnd => s < WindowEnd + Room
      BY <1>2 DEF Slots
    <3> QED BY <1>8, <3>1, <3>2, <3>3, <3>4
  <2> QED BY <2>1, <2>2
<1>10. ChunkOwned'
  BY <1>3, <1>4, <1>6 DEF ChunkOwned
<1>11. TombstonesTaken' /\ UnwantedGone' /\ DeletesDue' /\ CurrentTask'
  BY <1>1, <1>5 DEF TombstonesTaken, UnwantedGone, DeletesDue, CurrentTask, SealPcs
<1>12. AllHeld'
  <2> SUFFICES ASSUME NEW p \in want, ~Coming(p) PROVE Held(p)'
    BY <1>1 DEF AllHeld, Coming
  <2>1. Held(p) /\ p \in Pids
    BY <1>2 DEF AllHeld
  <2>2. pointIdToSlot'[p] = pointIdToSlot[p]
    BY <1>3, <1>7, <2>1
  <2> QED BY <1>1, <1>5, <2>1, <2>2 DEF Held
<1> QED BY <1>9, <1>10, <1>11, <1>12

(* The kernel writes every point of the chunk to the slot the map has for  *)
(* it.                                                                     *)
LEMMA ChunkKeepsPoints ==
  ASSUME LayoutInv, EagerInv, InsertChunk, mainPc' \notin {"trigger", "join"}
  PROVE  TasksInv' /\ PointsInv'
<1> USE DEF EagerInv, TasksInv, PointsInv, ChunkInv
<1>1. /\ mainPc = "kernel" /\ mainPc' \in {"insert", "seal"} /\ offset' = offset + Room
      /\ rwBase' = rwBase /\ rwCount' = rwCount + Room
      /\ UNCHANGED <<cur, delBits, mapVars, pendingInsertIds, pendingDeleteIds, todo, want>>
  BY DEF InsertChunk, pendVars, loadVars, delVars
<1>2. /\ Room \in Nat /\ Room <= T - rwCount /\ T \in Nat \ {0} /\ rwBase \in Nat
      /\ rwCount \in Nat /\ offset \in Nat /\ WindowEnd \in Nat /\ want \subseteq Pids
      /\ pointIdToSlot \in [Pids -> Slots \cup {NoSlot}] /\ Len(pendingInsertIds) \in Nat
  BY RoomBounds, AnswerTypes, SkipTypes
<1>3. /\ \A s \in ChunkSlots : ~(s < WindowEnd) /\ s < WindowEnd + Room
      /\ \A i \in offset + 1 .. Len(pendingInsertIds) : i <= offset + Room =>
           \E s \in ChunkSlots : ChunkPid(s) = pendingInsertIds[i]
      /\ \A s \in ChunkSlots : s \in Slots
      /\ \A s \in ChunkSlots : pointIdToSlot[ChunkPid(s)] \in ChunkSlots
  BY <1>1, ChunkIsComing DEF ChunkAssigned, ChunkOwned
<1>4. /\ \A s \in Slots : s < WindowEnd => graph'[cur][s] = graph[cur][s]
      /\ \A s \in Slots : s \in ChunkSlots => graph'[cur][s] = slotToPointId[s]
  BY <1>3, ChunkWritten, AnswerTypes
<1>5. TakenEnd = WindowEnd + Room
  BY <1>1 DEF TakenEnd
<1> HIDE DEF Room, ChunkSlots, ChunkPid
<1>6. WindowEnd' = WindowEnd + Room /\ TakenEnd' = WindowEnd'
  BY <1>1, <1>2 DEF WindowEnd, TakenEnd
<1>7. Owned' /\ ChunkOwned'
  BY <1>1, <1>5, <1>6 DEF Owned, ChunkOwned, mapVars
<1>8. \A s \in Slots : s < WindowEnd => s < WindowEnd'
  BY <1>2, <1>6 DEF Slots
<1>9. TombstonesTaken' /\ UnwantedGone' /\ DeletesDue' /\ CurrentTask'
  BY <1>1, <1>8, SkipTypes DEF TombstonesTaken, UnwantedGone, DeletesDue, CurrentTask, SealPcs
<1>10. AllHeld'
  <2> SUFFICES ASSUME NEW p \in want, ~Coming(p)' PROVE Held(p)'
    BY <1>1 DEF AllHeld
  <2>1. p \in Pids /\ pointIdToSlot' = pointIdToSlot /\ slotToPointId' = slotToPointId
    BY <1>1, <1>2 DEF mapVars
  <2>2. CASE \E s \in ChunkSlots : ChunkPid(s) = p
    <3>1. pointIdToSlot[p] \in ChunkSlots
      BY <1>3, <2>2
    <3>2. /\ pointIdToSlot[p] \in Slots /\ ~(pointIdToSlot[p] < WindowEnd)
          /\ pointIdToSlot[p] < WindowEnd' /\ pointIdToSlot[p] # NoSlot
      BY <1>3, <1>6, <3>1, SkipTypes
    <3>3. slotToPointId[pointIdToSlot[p]] = p
      BY <2>1, <3>2 DEF Owned
    <3>4. pointIdToSlot[p] \notin delBits
      BY <3>2 DEF TombstonesTaken
    <3> QED BY <1>1, <1>4, <2>1, <3>1, <3>2, <3>3, <3>4 DEF Held
  <2>3. CASE \A s \in ChunkSlots : ChunkPid(s) # p
    <3>1. ~Coming(p)
      <4> SUFFICES ASSUME NEW i \in offset + 1 .. Len(pendingInsertIds), pendingInsertIds[i] = p
                   PROVE  FALSE
        BY DEF Coming
      <4>1. ~(i <= offset + Room)
        BY <1>3, <2>3
      <4>2. i \in offset + Room + 1 .. Len(pendingInsertIds)
        BY <1>2, <4>1
      <4> QED BY <1>1, <4>2 DEF Coming
    <3>2. Held(p)
      BY <3>1 DEF AllHeld
    <3>3. pointIdToSlot[p] \in Slots
      BY <1>2, <2>1, <3>2 DEF Held
    <3> QED BY <1>1, <1>4, <1>8, <2>1, <3>2, <3>3 DEF Held
  <2> QED BY <2>2, <2>3
<1> QED BY <1>7, <1>9, <1>10

(* A delete flush sets the bits of points that are no longer wanted, and   *)
(* no other point is in their slots.                                       *)
LEMMA DeleteKeepsPoints ==
  ASSUME LayoutInv, EagerInv, FlushDelete, mainPc' \notin {"trigger", "join"}
  PROVE  TasksInv' /\ PointsInv'
<1> USE DEF EagerInv, TasksInv, PointsInv
<1>1. /\ mainPc = "loop" /\ mainPc' = "loop" /\ pendingDeleteIds' = <<>>
      /\ delBits' = delBits \cup {s \in DeletedSlots : s < DeleteCap}
      /\ UNCHANGED <<rwBase, rwCount, graph, cur, mapVars, pendingInsertIds, offset, want>>
  BY DEF FlushDelete, NextTask, BatchMarkDeleted, DeletedSlots, idxVars, bufVars, loadVars
<1>2. WindowEnd' = WindowEnd /\ TakenEnd = WindowEnd /\ TakenEnd' = WindowEnd'
  BY <1>1 DEF WindowEnd, TakenEnd
<1>3. ASSUME NEW s \in DeletedSlots
      PROVE  s # NoSlot /\ s < WindowEnd /\ slotToPointId[s] \notin want
  <2>1. PICK i \in KnownDeletes : s = pointIdToSlot[pendingDeleteIds[i]]
    BY DEF DeletedSlots
  <2>2. /\ i \in 1 .. Len(pendingDeleteIds) /\ pendingDeleteIds[i] \in Pids /\ s # NoSlot
    BY <2>1, SkipTypes, ElementOfSeq DEF KnownDeletes
  <2>3. s < WindowEnd /\ slotToPointId[s] = pendingDeleteIds[i]
    BY <1>2, <2>1, <2>2 DEF Owned
  <2> QED BY <2>2, <2>3 DEF UnwantedGone
<1>4. AllHeld'
  <2> SUFFICES ASSUME NEW p \in want, Held(p) PROVE Held(p)'
    BY <1>1 DEF AllHeld, Coming
  <2>1. slotToPointId[pointIdToSlot[p]] = p
    BY SkipTypes DEF Owned, Held
  <2>2. pointIdToSlot[p] \notin DeletedSlots
    BY <1>3, <2>1
  <2> QED BY <1>1, <1>2, <2>2 DEF Held, mapVars
<1>5. TombstonesTaken' /\ Owned' /\ ChunkOwned'
  BY <1>1, <1>2, <1>3 DEF TombstonesTaken, Owned, ChunkOwned, mapVars
<1>6. UnwantedGone' /\ DeletesDue' /\ CurrentTask'
  BY <1>1 DEF UnwantedGone, DeletesDue, CurrentTask, SealPcs
<1> QED BY <1>4, <1>5, <1>6


(* What a merge in the main thread leaves alone: everything but the LTI's  *)
(* count and the Temps, which it folds into the LTI, and tombstones.       *)
LEMMA EagerMergeFrame ==
  ASSUME LayoutInv, EagerMergeInv, MergeNext(mt)
  PROVE  /\ mainPc = "merge"
         /\ UNCHANGED <<rwBase, rwCount, rwMedoid, mainPc, todo, offset, numInserts, numDeletes,
                        want, pendingInsertIds, pendingDeleteIds, mapVars>>
         /\ \/ UNCHANGED <<ltiCount, numActiveTemps, tempMedoids>>
            \/ numActiveTemps' = 0 /\ ltiCount' = rwBase
         /\ delBits' \subseteq delBits
         /\ delCount' \in {delCount, 0}
         /\ mergePc'[bg] = mergePc[bg]
<1>1. mergePc \in [Mergers -> MergePcs] /\ bg \in Mergers /\ mt \in Mergers /\ bg # mt
  BY DEF LayoutInv, TypeOK, MergeTypeOK, bg, mt, Mergers
<1>2. mergePc[mt] # "none" /\ mergePc'[bg] = mergePc[bg]
  BY <1>1 DEF MergeNext, SnapshotCounts, SnapshotRwBase, SnapshotRwCount, SnapshotRwMedoid,
     PhaseA, PhaseBGather, PhaseBLink, CopyRW, Swap, ClearBits, ClearCount, FreeOld, Step
<1>3. mainPc = "merge"
  BY <1>2 DEF EagerMergeInv, OneThread
<1>4. UNCHANGED <<mainPc, todo, offset, numInserts, numDeletes, want, pendingInsertIds,
                  pendingDeleteIds, mapVars>>
  BY DEF MergeNext, SnapshotCounts, SnapshotRwBase, SnapshotRwCount, SnapshotRwMedoid,
     PhaseA, PhaseBGather, PhaseBLink, CopyRW, Swap, ClearBits, ClearCount, FreeOld,
     mainUnchanged, mainVars, pendVars, mapVars, loadVars
<1>5. delBits' \subseteq delBits /\ delCount' \in {delCount, 0}
  BY DEF MergeNext, SnapshotCounts, SnapshotRwBase, SnapshotRwCount, SnapshotRwMedoid,
     PhaseA, PhaseBGather, PhaseBLink, CopyRW, Swap, ClearBits, ClearCount, FreeOld, delVars
<1>6. CASE Swap(mt)
  <2>1. mergePc[mt] = "swap"
    BY <1>6 DEF Swap, Step
  <2>2. newLtiCount[mt] = rwBase /\ savedRwCount[mt] = rwCount /\ savedRwMedoid[mt] = rwMedoid
    BY <2>1 DEF EagerMergeInv, SnapshotExact, HasCounts, HasBase, HasCount, HasMedoid
  <2>3. /\ UNCHANGED <<rwBase, rwCount, rwMedoid>>
        /\ numActiveTemps' = 0 /\ ltiCount' = rwBase
    BY <1>6, <2>2 DEF Swap
  <2> QED BY <1>2, <1>3, <1>4, <1>5, <2>3
<1>7. CASE ~Swap(mt)
  <2>1. UNCHANGED <<rwBase, rwCount, rwMedoid, ltiCount, numActiveTemps, tempMedoids>>
    BY <1>7 DEF MergeNext, SnapshotCounts, SnapshotRwBase, SnapshotRwCount, SnapshotRwMedoid,
       PhaseA, PhaseBGather, PhaseBLink, CopyRW, ClearBits, ClearCount, FreeOld, idxVars
  <2> QED BY <1>2, <1>3, <1>4, <1>5, <2>1
<1> QED BY <1>6, <1>7

(* The merge copies every live vertex before its buffer becomes the live   *)
(* one, and frees only the buffer that it replaced.                        *)
LEMMA EagerMergeKeepsCopy ==
  ASSUME LayoutInv, EagerMergeInv, MergeNext(mt)
  PROVE  /\ EagerMergeInv'
         /\ \A s \in Slots : s < WindowEnd /\ s \notin delBits => graph'[cur'][s] = graph[cur][s]
<1> USE DEF EagerMergeInv, Step, snapVars
<1> DEFINE Kept == \A s \in Slots :
                     s < WindowEnd /\ s \notin delBits => graph'[cur'][s] = graph[cur][s]
<1>1. /\ mergePc \in [Mergers -> MergePcs] /\ mt \in Mergers
      /\ newGraph \in [Mergers -> Buffers] /\ oldGraph \in [Mergers -> Buffers]
      /\ newLtiCount \in [Mergers -> Nat] /\ savedRwBase \in [Mergers -> Nat]
      /\ savedRwCount \in [Mergers -> Nat] /\ savedRwMedoid \in [Mergers -> Nat \cup {NoSlot}]
      /\ cur \in Buffers /\ graph \in [Buffers -> [Slots -> Pids \cup {NoPid}]]
      /\ allocated \subseteq Buffers
  BY DEF LayoutInv, TypeOK, MergeTypeOK, GraphTypeOK, mt, Mergers
<1>2. /\ OneThread'
      /\ UNCHANGED <<rwBase, rwCount, rwMedoid>> /\ delBits' \subseteq delBits
  <2>1. OneThread'
    BY EagerMergeFrame DEF OneThread
  <2> QED BY <2>1, EagerMergeFrame
<1>3. WindowEnd' = WindowEnd /\ WindowEnd = rwBase + rwCount /\ rwBase = ltiCount + numActiveTemps * T
  BY <1>2, EagerMergeFrame DEF WindowEnd, LayoutInv, IndexLayout
<1>4. CASE SnapshotCounts(mt)
  <2>1. /\ mergePc'[mt] = "base" /\ newLtiCount'[mt] = rwBase /\ UNCHANGED <<cur, graph, allocated>>
    BY <1>1, <1>3, <1>4 DEF SnapshotCounts, MergedSlots, bufVars
  <2> QED BY <1>2, <2>1 DEF SnapshotExact, BuffersApart, LiveCopied, HasCounts, HasBase, HasCount,
          HasMedoid, Consolidated, Building, Published
<1>5. CASE SnapshotRwBase(mt)
  <2>1. /\ mergePc[mt] = "base" /\ mergePc'[mt] = "count" /\ savedRwBase'[mt] = rwBase
        /\ UNCHANGED <<cur, graph, allocated, newLtiCount>>
    BY <1>1, <1>5 DEF SnapshotRwBase, bufVars
  <2> QED BY <1>2, <2>1 DEF SnapshotExact, BuffersApart, LiveCopied, HasCounts, HasBase, HasCount,
          HasMedoid, Consolidated, Building, Published
<1>6. CASE SnapshotRwCount(mt)
  <2>1. /\ mergePc[mt] = "count" /\ mergePc'[mt] = "medoid" /\ savedRwCount'[mt] = rwCount
        /\ UNCHANGED <<cur, graph, allocated, newLtiCount, savedRwBase>>
    BY <1>1, <1>6 DEF SnapshotRwCount, bufVars
  <2> QED BY <1>2, <2>1 DEF SnapshotExact, BuffersApart, LiveCopied, HasCounts, HasBase, HasCount,
          HasMedoid, Consolidated, Building, Published
<1>7. CASE SnapshotRwMedoid(mt)
  <2> DEFINE b == FreeBuffer(allocated)
  <2>1. b \in Buffers /\ b \notin allocated
    BY <1>1, <1>7, FreeBufferIsFree DEF SnapshotRwMedoid
  <2> HIDE DEF b
  <2>2. /\ mergePc[mt] = "medoid" /\ mergePc'[mt] = "phaseA" /\ savedRwMedoid'[mt] = rwMedoid
        /\ UNCHANGED <<cur, newLtiCount, savedRwBase, savedRwCount>>
        /\ allocated' = allocated \cup {b} /\ newGraph'[mt] = b
        /\ graph' = [graph EXCEPT ![b] = Zeroed]
    BY <1>1, <1>7 DEF SnapshotRwMedoid, b
  <2>3. b # cur
    BY <2>1 DEF BuffersApart
  <2>4. Kept
    BY <1>1, <2>1, <2>2, <2>3
  <2> QED BY <1>2, <2>1, <2>2, <2>3, <2>4 DEF SnapshotExact, BuffersApart, LiveCopied, HasCounts,
          HasBase, HasCount, HasMedoid, Consolidated, Building, Published
<1>8. ASSUME mergePc[mt] \in {"phaseA", "gather", "link", "copy"},
             mergePc'[mt] \in {"gather", "link", "copy", "swap"},
             UNCHANGED <<cur, allocated, delBits, snapVars>>,
             \A b \in Buffers : b # newGraph[mt] => graph'[b] = graph[b],
             \A s \in Slots : s < rwBase /\ s \notin delBits
               => graph'[newGraph[mt]][s] = graph[cur][s],
             mergePc'[mt] = "swap" =>
               \A s \in Slots : s < WindowEnd /\ s \notin delBits
                 => graph'[newGraph[mt]][s] = graph[cur][s]
      PROVE  EagerMergeInv' /\ Kept
  <2>1. newGraph[mt] # cur /\ newGraph[mt] \in allocated
    BY <1>8 DEF BuffersApart, Building
  <2>2. graph'[cur] = graph[cur]
    BY <1>1, <1>8, <2>1
  <2>3. SnapshotExact'
    BY <1>2, <1>8 DEF SnapshotExact, HasCounts, HasBase, HasCount, HasMedoid
  <2>4. BuffersApart'
    BY <1>8, <2>1 DEF BuffersApart, Building, Published
  <2>5. LiveCopied'
    BY <1>2, <1>3, <1>8, <2>2 DEF LiveCopied
  <2> QED BY <1>2, <1>8, <2>2, <2>3, <2>4, <2>5
<1>9. CASE PhaseA(mt)
  <2>1. /\ mergePc[mt] = "phaseA" /\ mergePc'[mt] = "gather"
        /\ UNCHANGED <<cur, allocated, delBits, snapVars>>
        /\ graph' = [graph EXCEPT ![newGraph[mt]] =
             [s \in Slots |-> IF s < rwBase /\ s \notin delBits THEN graph[cur][s]
                              ELSE graph[newGraph[mt]][s]]]
    BY <1>1, <1>9 DEF PhaseA, PhaseAEnd, delVars
  <2>2. /\ \A b \in Buffers : b # newGraph[mt] => graph'[b] = graph[b]
        /\ \A s \in Slots : s < rwBase /\ s \notin delBits
             => graph'[newGraph[mt]][s] = graph[cur][s]
    BY <1>1, <2>1
  <2> QED BY <1>8, <2>1, <2>2
<1>10. CASE PhaseBGather(mt)
  <2>1. /\ mergePc[mt] = "gather" /\ mergePc'[mt] \in {"link", "copy"}
        /\ UNCHANGED <<cur, allocated, delBits, snapVars>>
        /\ graph' = [graph EXCEPT ![newGraph[mt]] =
             [s \in Slots |-> IF s \in TempSlots /\ (delCount > 0 => s \notin delBits)
                              THEN graph[cur][s] ELSE graph[newGraph[mt]][s]]]
    BY <1>1, <1>10 DEF PhaseBGather, delVars
  <2>2. \A s \in Slots : s < rwBase /\ s \notin delBits => graph[newGraph[mt]][s] = graph[cur][s]
    BY <2>1 DEF LiveCopied, Consolidated
  <2>3. /\ \A b \in Buffers : b # newGraph[mt] => graph'[b] = graph[b]
        /\ \A s \in Slots : s < rwBase /\ s \notin delBits
             => graph'[newGraph[mt]][s] = graph[cur][s]
    BY <1>1, <2>1, <2>2
  <2> QED BY <1>8, <2>1, <2>3
<1>11. CASE PhaseBLink(mt)
  <2>1. /\ mergePc[mt] = "link" /\ mergePc'[mt] = "copy"
        /\ UNCHANGED <<cur, graph, allocated, delBits, snapVars>>
    BY <1>1, <1>11 DEF PhaseBLink, bufVars, delVars
  <2>2. \A s \in Slots : s < rwBase /\ s \notin delBits => graph[newGraph[mt]][s] = graph[cur][s]
    BY <2>1 DEF LiveCopied, Consolidated
  <2> QED BY <1>8, <2>1, <2>2
<1>12. CASE CopyRW(mt)
  <2>1. /\ mergePc[mt] = "copy" /\ mergePc'[mt] = "swap"
        /\ UNCHANGED <<cur, allocated, delBits, snapVars>>
        /\ graph' = [graph EXCEPT ![newGraph[mt]] =
             [s \in Slots |-> IF s \in SavedWindow(mt) THEN graph[cur][s]
                              ELSE graph[newGraph[mt]][s]]]
    BY <1>1, <1>12 DEF CopyRW, delVars
  <2>2. \A s \in Slots : s < rwBase /\ s \notin delBits => graph[newGraph[mt]][s] = graph[cur][s]
    BY <2>1 DEF LiveCopied, Consolidated
  <2>3. savedRwBase[mt] = rwBase /\ savedRwCount[mt] = rwCount
    BY <2>1 DEF SnapshotExact, HasBase, HasCount, HasCounts
  <2>4. \A s \in Slots : s < WindowEnd /\ ~(s < rwBase) => s \in SavedWindow(mt)
    <3>1. rwBase \in Nat /\ rwCount \in Nat
      BY AnswerTypes
    <3> QED BY <1>3, <2>3, <3>1 DEF SavedWindow, Slots
  <2>5. /\ \A b \in Buffers : b # newGraph[mt] => graph'[b] = graph[b]
        /\ \A s \in Slots : s < rwBase /\ s \notin delBits
             => graph'[newGraph[mt]][s] = graph[cur][s]
        /\ \A s \in Slots : s < WindowEnd /\ s \notin delBits
             => graph'[newGraph[mt]][s] = graph[cur][s]
    BY <1>1, <2>1, <2>2, <2>4
  <2> QED BY <1>8, <2>1, <2>5
<1>13. CASE Swap(mt)
  <2>1. /\ mergePc[mt] = "swap" /\ mergePc'[mt] = "clear" /\ cur' = newGraph[mt]
        /\ oldGraph'[mt] = cur /\ UNCHANGED <<graph, allocated>>
    BY <1>1, <1>13 DEF Swap
  <2>2. newGraph[mt] \in allocated \ {cur}
    BY <2>1 DEF BuffersApart, Building
  <2>3. Kept
    BY <2>1 DEF LiveCopied
  <2> QED BY <1>2, <2>1, <2>2, <2>3 DEF SnapshotExact, BuffersApart, LiveCopied, HasCounts,
          HasBase, HasCount, HasMedoid, Consolidated, Building, Published
<1>14. CASE ClearBits(mt) \/ ClearCount(mt)
  <2>1. /\ mergePc[mt] \in {"clear", "clearBits", "clearCount"}
        /\ mergePc'[mt] \in {"clearBits", "clearCount", "free"}
        /\ UNCHANGED <<cur, graph, allocated, snapVars>>
    BY <1>1, <1>14 DEF ClearBits, ClearCount, bufVars
  <2> QED BY <1>2, <2>1 DEF SnapshotExact, BuffersApart, LiveCopied, HasCounts, HasBase, HasCount,
          HasMedoid, Consolidated, Building, Published
<1>15. CASE FreeOld(mt)
  <2>1. /\ mergePc[mt] = "free" /\ mergePc'[mt] = "exited" /\ cur' = cur
        /\ allocated' = allocated \ {oldGraph[mt]}
        /\ graph' = [graph EXCEPT ![oldGraph[mt]] = Zeroed]
    BY <1>1, <1>15 DEF FreeOld, BufferToFree
  <2>2. oldGraph[mt] # cur
    BY <2>1 DEF BuffersApart, Published
  <2>3. Kept
    BY <1>1, <2>1, <2>2
  <2> QED BY <1>2, <2>1, <2>2, <2>3 DEF SnapshotExact, BuffersApart, LiveCopied, HasCounts,
          HasBase, HasCount, HasMedoid, Consolidated, Building, Published
<1> QED BY <1>4, <1>5, <1>6, <1>7, <1>9, <1>10, <1>11, <1>12, <1>13, <1>14, <1>15 DEF MergeNext


LEMMA EagerMergeKeepsAll ==
  ASSUME LayoutInv, EagerInv, MergeNext(mt)
  PROVE  EagerInv'
<1> USE DEF EagerInv
<1>1. /\ mainPc = "merge"
      /\ UNCHANGED <<rwBase, rwCount, rwMedoid, mainPc, todo, offset, numInserts, numDeletes,
                     want, pendingInsertIds, pendingDeleteIds, mapVars>>
      /\ \/ UNCHANGED <<ltiCount, numActiveTemps, tempMedoids>>
         \/ numActiveTemps' = 0 /\ ltiCount' = rwBase
      /\ delBits' \subseteq delBits
      /\ delCount' \in {delCount, 0}
  BY EagerMergeFrame
<1>2. /\ EagerMergeInv'
      /\ \A s \in Slots : s < WindowEnd /\ s \notin delBits => graph'[cur'][s] = graph[cur][s]
  BY EagerMergeKeepsCopy
<1>3. WindowEnd' = WindowEnd /\ TakenEnd = WindowEnd /\ TakenEnd' = WindowEnd
  BY <1>1 DEF WindowEnd, TakenEnd
<1>4. CountsInv'
  <2>1. InsertsAccounted'
    BY <1>1 DEF CountsInv, InsertsAccounted, WindowEnd, Remaining
  <2>2. DeletesAccounted'
    <3>1. CASE delCount' = delCount
      BY <1>1, <3>1 DEF CountsInv, DeletesAccounted
    <3>2. CASE delCount' = 0
      <4> DEFINE n == Len(pendingDeleteIds)
      <4>1. n \in Nat /\ delCount \in Nat /\ delCount + n <= numDeletes /\ numDeletes \in Nat
        BY SkipTypes DEF CountsInv, DeletesAccounted, LayoutInv, TypeOK, MainTypeOK
      <4> HIDE DEF n
      <4>2. 0 + n <= numDeletes
        BY <4>1
      <4> QED BY <1>1, <3>2, <4>2 DEF CountsInv, DeletesAccounted, n
    <3> QED BY <1>1, <3>1, <3>2
  <2> QED BY <2>1, <2>2 DEF CountsInv
<1>5. ChunkInv'
  <2>1. MedoidsThere'
    <3>1. CASE UNCHANGED <<ltiCount, numActiveTemps, tempMedoids>>
      BY <1>1, <3>1 DEF ChunkInv, MedoidsThere, TempWindow
    <3>2. CASE numActiveTemps' = 0 /\ ltiCount' = rwBase
      BY <1>1, <3>2 DEF ChunkInv, MedoidsThere
    <3> QED BY <1>1, <3>1, <3>2
  <2> QED BY <1>1, <2>1 DEF ChunkInv, ChunkAssigned
<1>6. TasksInv'
  BY <1>1 DEF TasksInv, CurrentTask, DeletesDue, UnwantedGone
<1>7. Owned' /\ ChunkOwned' /\ TombstonesTaken'
  BY <1>1, <1>3 DEF PointsInv, Owned, ChunkOwned, TombstonesTaken, mapVars
<1>8. AllHeld'
  <2> SUFFICES ASSUME NEW p \in want, Held(p) PROVE Held(p)'
    BY <1>1 DEF PointsInv, AllHeld, Coming
  <2>1. pointIdToSlot[p] \in Slots
    BY SkipTypes DEF Held
  <2> QED BY <1>1, <1>2, <1>3, <2>1 DEF Held, mapVars
<1> QED BY <1>2, <1>4, <1>5, <1>6, <1>7, <1>8 DEF PointsInv

LEMMA EagerStutter == EagerInv /\ UNCHANGED vars => EagerInv'
<1> SUFFICES ASSUME EagerInv, UNCHANGED vars PROVE EagerInv'
  OBVIOUS
<1> USE DEF EagerInv, vars, idxVars, bufVars, delVars, mainVars, pendVars, mapVars, loadVars,
        snapVars
<1>1. /\ WindowEnd' = WindowEnd /\ TakenEnd' = TakenEnd /\ Remaining' = Remaining
      /\ Room' = Room /\ ChunkSlots' = ChunkSlots /\ \A s \in ChunkSlots : ChunkPid(s)' = ChunkPid(s)
  BY DEF WindowEnd, TakenEnd, Room, Remaining, ChunkSlots, FirstSlot, ChunkPid
<1> HIDE DEF Room, ChunkSlots, ChunkPid
<1>2. CountsInv'
  BY <1>1 DEF CountsInv, InsertsAccounted, DeletesAccounted
<1>3. ChunkInv'
  <2>1. MedoidsThere'
    BY DEF ChunkInv, MedoidsThere, TempWindow
  <2>2. ChunkAssigned'
    BY <1>1 DEF ChunkInv, ChunkAssigned
  <2> QED BY <2>1, <2>2 DEF ChunkInv
<1>4. EagerMergeInv'
  BY <1>1 DEF EagerMergeInv, OneThread, SnapshotExact, BuffersApart, LiveCopied, Building, Published
<1>5. TasksInv'
  BY DEF TasksInv, CurrentTask, DeletesDue, UnwantedGone
<1>6. PointsInv'
  <2>1. ChunkOwned'
    BY <1>1 DEF PointsInv, ChunkOwned
  <2>2. Owned' /\ TombstonesTaken'
    BY <1>1 DEF PointsInv, Owned, TombstonesTaken
  <2>3. AllHeld'
    BY <1>1 DEF PointsInv, AllHeld, Held, Coming
  <2> QED BY <2>1, <2>2, <2>3 DEF PointsInv
<1> QED BY <1>2, <1>3, <1>4, <1>5, <1>6

LEMMA EagerStep ==
  ASSUME NothingTriggered, LayoutInv, EagerInv, LayoutInv', [Next]_vars
  PROVE  EagerInv'
<1>1. CASE UNCHANGED vars
  BY <1>1, EagerStutter
<1>2. CASE MainNext
  <2>1. CountsInv' /\ ChunkInv'
    BY <1>2, MainKeepsCounts, MainKeepsChunk
  <2>2. EagerMergeInv' /\ mainPc' \notin {"trigger", "join"}
    BY <1>2, <2>1, MainKeepsEagerMerge, MainTriggersNothing
  <2>3. TasksInv' /\ PointsInv'
    <3>1. CASE mainPc' = "kernel" /\ AssignSlots
      BY <3>1, AssignKeepsPoints
    <3>2. CASE ~(mainPc' = "kernel" /\ AssignSlots)
      BY <1>2, <2>2, <3>2, MainStepsEager, EventsKeepPoints, TasksKeepPoints, ChunkKeepsPoints,
         DeleteKeepsPoints DEF Flush, SealStep
    <3> QED BY <3>1, <3>2
  <2> QED BY <2>1, <2>2, <2>3 DEF EagerInv
<1>3. ASSUME NEW a \in Mergers, MergeNext(a) PROVE EagerInv'
  <2>1. mergePc[a] # "none"
    BY <1>3 DEF MergeNext, SnapshotCounts, SnapshotRwBase, SnapshotRwCount, SnapshotRwMedoid,
       PhaseA, PhaseBGather, PhaseBLink, CopyRW, Swap, ClearBits, ClearCount, FreeOld, Step
  <2>2. a = mt
    BY <2>1 DEF EagerInv, EagerMergeInv, OneThread, Mergers, mt, bg
  <2> QED BY <1>3, <2>2, EagerMergeKeepsAll
<1> QED BY <1>1, <1>2, <1>3 DEF Next, Stopped

LEMMA EagerAlways == ASSUME NothingTriggered PROVE Spec => [](LayoutInv /\ EagerInv)
<1>1. LayoutInv /\ EagerInv /\ [Next]_vars => LayoutInv' /\ EagerInv'
  BY LayoutStep, EagerStep
<1> QED BY <1>1, LayoutInit, EagerInit, PTL DEF Spec

(* A point in its slot is one that a search reaches: in the LTI, in a Temp *)
(* with an entry point, or in the window, which has one when it is not     *)
(* empty.                                                                  *)
LEMMA HeldIsVisible ==
  ASSUME LayoutInv, MedoidsThere, NEW p \in Pids, Held(p)
  PROVE  p \in VisiblePids
<1> DEFINE s == pointIdToSlot[p]
<1>1. s \in Slots /\ s < WindowEnd /\ s \notin delBits /\ graph[cur][s] = p /\ p # NoPid
  BY SkipTypes, PidAssumption DEF PidAssumption, Held
<1>2. rwBase \in Nat /\ rwCount \in Nat /\ ltiCount \in Nat /\ s \in Nat
  BY <1>1, AnswerTypes DEF Slots
<1> HIDE DEF s
<1>3. s \in SearchedSlots
  <2>1. CASE s < ltiCount
    BY <1>2, <2>1 DEF SearchedSlots
  <2>2. CASE ~(s < ltiCount) /\ s < rwBase
    <3>1. PICK i \in 0 .. numActiveTemps - 1 : s \in TempWindow(i)
      BY <1>1, <2>2 DEF MedoidsThere
    <3>2. tempMedoids[i] # NoSlot
      BY <3>1 DEF MedoidsThere
    <3> QED BY <3>1, <3>2 DEF SearchedSlots
  <2>3. CASE ~(s < rwBase)
    <3>1. s \in RwWindow /\ rwCount > 0
      BY <1>1, <1>2, <2>3 DEF RwWindow, WindowEnd
    <3>2. rwMedoid # NoSlot
      BY <3>1 DEF MedoidsThere
    <3> QED BY <3>1, <3>2 DEF SearchedSlots
  <2> QED BY <2>1, <2>2, <2>3
<1>4. s \in Answer
  BY <1>1, <1>3 DEF Answer
<1> QED BY <1>1, <1>4 DEF VisiblePids

(* When only the main thread merges, a search made when nothing is pending *)
(* sees every live point, whatever merges came before and whether or not   *)
(* an id was deleted and inserted again: the merge copies every vertex     *)
(* without a tombstone, and the swap puts back the window it finds.        *)
THEOREM EagerLosesNothing == ASSUME NothingTriggered PROVE Spec => []NothingLost
<1>1. ASSUME LayoutInv, EagerInv PROVE NothingLost
  <2> SUFFICES ASSUME Flushed, NEW p \in want PROVE p \in VisiblePids
    BY DEF NothingLost
  <2>1. p \in Pids /\ offset \in Nat
    BY <1>1, SkipTypes
  <2>2. ~Coming(p)
    BY <2>1 DEF Flushed, Coming
  <2>3. Held(p)
    BY <1>1, <2>2 DEF EagerInv, PointsInv, AllHeld
  <2> QED BY <1>1, <2>1, <2>3, HeldIsVisible DEF EagerInv, ChunkInv
<1>2. LayoutInv /\ EagerInv => NothingLost
  BY <1>1
<1> QED BY <1>2, EagerAlways, PTL

(* Nor does the swap of such a merge take anything from the window.        *)
THEOREM EagerLeavesWindow == ASSUME NothingTriggered PROVE Spec => RwUndisturbed
<1> DEFINE Undisturbed == cur' # cur => RwWindow \subseteq (0 .. ltiCount' - 1) \cup RwWindow'
<1>1. ASSUME LayoutInv, EagerInv, Next PROVE Undisturbed
  <2>1. CASE MainNext
    BY <1>1, <2>1, MainFrame
  <2>2. ASSUME NEW a \in Mergers, MergeNext(a) PROVE Undisturbed
    <3>1. mergePc[a] # "none"
      BY <2>2 DEF MergeNext, SnapshotCounts, SnapshotRwBase, SnapshotRwCount, SnapshotRwMedoid,
         PhaseA, PhaseBGather, PhaseBLink, CopyRW, Swap, ClearBits, ClearCount, FreeOld, Step
    <3>2. a = mt
      BY <1>1, <3>1 DEF EagerInv, EagerMergeInv, OneThread, Mergers, mt, bg
    <3>3. UNCHANGED <<rwBase, rwCount>>
      BY <1>1, <2>2, <3>2, EagerMergeFrame DEF EagerInv
    <3> QED BY <3>3 DEF RwWindow
  <2>3. CASE Stopped
    BY <2>3 DEF Stopped, vars, bufVars
  <2> QED BY <1>1, <2>1, <2>2, <2>3 DEF Next
<1>2. LayoutInv /\ EagerInv /\ [Next]_vars => [Undisturbed]_vars
  BY <1>1
<1> QED BY <1>2, EagerAlways, PTL DEF Spec, RwUndisturbed

-----------------------------------------------------------------------------
(* The driver's own sizing: without a window size on the command line it   *)
(* takes T so that the whole workload fits M windows (fda_main.cu:273),    *)
(* and allocates L + (M + 1) * T slots.  The layout then fills up with the *)
(* last insert, no seal comes after that, and so no merge finds one half   *)
(* made.                                                                   *)

DriverSized == MaxInserts <= M * T /\ MaxDeletes < DeleteCap

AllInserted ==
  /\ numInserts >= MaxInserts /\ Remaining = 0
  /\ mainPc \notin {"kernel"} \cup SealPcs
MergesLast == mergePc[bg] # "none" \/ mainPc \in {"trigger", "join"} => AllInserted
DriverInv ==
  /\ CapacityInv /\ InsertsAccounted /\ DeletesAccounted /\ MergesLast
  /\ ~tornRead /\ tornCounts = 0

(* A full layout holds the whole workload.                                 *)
LEMMA FullHoldsAll ==
  ASSUME DriverSized, NEW lti \in Nat, NEW n \in Nat, NEW count \in Nat, NEW rest \in Nat,
         NEW total \in Nat,
         L <= lti, lti + n * T + count + rest <= L + total, total <= MaxInserts
  PROVE  /\ lti + n * T + count <= L + M * T
         /\ n >= M => rest = 0 /\ total >= MaxInserts
<1>1. /\ L \in Nat /\ T \in Nat \ {0} /\ M \in Nat /\ MaxInserts \in Nat
      /\ M * T \in Nat /\ n * T \in Nat
  BY LayoutAssumption, BatchAssumption DEF LayoutAssumption, BatchAssumption
<1> DEFINE x == n * T  y == M * T
<1>2. x \in Nat /\ y \in Nat /\ MaxInserts <= y /\ lti + x + count + rest <= L + total
  BY <1>1 DEF DriverSized
<1>3. ASSUME n >= M PROVE x >= y
  <2> DEFINE k == n - M
  <2>1. k \in Nat /\ n = M + k
    BY <1>1, <1>3
  <2> HIDE DEF k
  <2>2. (M + k) * T = M * T + k * T /\ k * T \in Nat
    BY <1>1, <2>1
  <2> DEFINE z == k * T
  <2>3. x = y + z /\ z \in Nat
    BY <2>1, <2>2
  <2> HIDE DEF x, y, z
  <2> QED BY <1>2, <2>3
<1> HIDE DEF x, y
<1>4. lti + x + count <= L + y
  BY <1>1, <1>2
<1>5. ASSUME x >= y PROVE rest = 0 /\ total >= MaxInserts
  BY <1>1, <1>2, <1>5
<1> QED BY <1>3, <1>4, <1>5 DEF x, y

LEMMA SumsNotAbove ==
  ASSUME NEW a \in Nat, NEW b \in Nat, NEW c \in Nat, NEW d \in Nat, a <= b, c < d
  PROVE  ~(a + c >= b + d)
OBVIOUS

LEMMA RoomForAll ==
  ASSUME DriverSized, LayoutInv, DriverInv
  PROVE  NoOverrun
<1> DEFINE y == M * T  z == (M + 1) * T
<1>1. /\ L \in Nat /\ T \in Nat /\ Capacity \in Nat /\ MaxInserts \in Nat /\ y \in Nat
      /\ z = y + T /\ Capacity >= L + z /\ MaxInserts <= y
  BY LayoutAssumption, BatchAssumption DEF LayoutAssumption, BatchAssumption, DriverSized
<1>2. SlotsAccounted = L + numInserts /\ numInserts \in Nat /\ numInserts <= MaxInserts
  BY AccountedIsNat DEF DriverInv, InsertsAccounted
<1> HIDE DEF y, z, SlotsAccounted
<1>3. ~(SlotsAccounted > Capacity)
  BY <1>1, <1>2
<1> QED BY <1>3 DEF DriverInv, CapacityInv, NoOverrun

(* What the layout says of the workload outside a seal.                    *)
LEMMA WorkloadFits ==
  ASSUME LayoutInv, DriverSized, InsertsAccounted, mainPc \notin {"sealBase", "sealCount"}
  PROVE  /\ ltiCount + numActiveTemps * T + rwCount <= L + M * T
         /\ numActiveTemps >= M => Remaining = 0 /\ numInserts >= MaxInserts
<1>1. /\ ltiCount \in Nat /\ numActiveTemps \in Nat /\ rwCount \in Nat /\ rwBase \in Nat
      /\ numInserts \in Nat /\ L <= ltiCount /\ rwBase = ltiCount + numActiveTemps * T
  BY DEF LayoutInv, TypeOK, IndexTypeOK, MainTypeOK, IndexLayout
<1>2. rwBase + rwCount + Remaining <= L + numInserts /\ numInserts <= MaxInserts
  BY DEF InsertsAccounted, WindowEnd
<1>3. Remaining \in Nat
  BY RoomBounds
<1> HIDE DEF Remaining
<1> QED BY <1>1, <1>2, <1>3, FullHoldsAll

(* A merge is triggered by a full layout only.                             *)
LEMMA TriggeredWhenFull ==
  ASSUME LayoutInv, LayoutInv', DriverSized, InsertsAccounted, DeletesAccounted',
         FlushDelete, mainPc' = "trigger"
  PROVE  numActiveTemps >= M
<1>1. mainPc = "loop" /\ MergeNeeded(delCount')
  BY DEF FlushDelete, NextTask
<1>2. delCount' \in Nat /\ delCount' < DeleteCap
  <2>1. delCount' + Len(pendingDeleteIds') <= numDeletes' /\ numDeletes' <= MaxDeletes
    BY DEF DeletesAccounted
  <2>2. delCount' \in Nat /\ numDeletes' \in Nat /\ DeleteCap \in Nat /\ MaxDeletes \in Nat
    BY LayoutAssumption, BatchAssumption
    DEF LayoutAssumption, BatchAssumption, LayoutInv, TypeOK, MapTypeOK, MainTypeOK
  <2>3. Len(pendingDeleteIds') = 0
    BY DEF FlushDelete
  <2>4. delCount' <= numDeletes'
    <3>1. Len(pendingDeleteIds') \in Nat
      BY <2>3
    <3> QED BY <2>1, <2>2, <2>3, <3>1, LessIsLess, Zenon
  <2> QED BY <2>1, <2>2, <2>4 DEF DriverSized
<1> DEFINE x == ltiCount + numActiveTemps * T + rwCount  y == L + M * T
<1>3. x \in Nat /\ y \in Nat /\ x <= y /\ DeleteCap \in Nat
  <2>1. x <= y
    BY <1>1, WorkloadFits
  <2>2. /\ ltiCount \in Nat /\ numActiveTemps \in Nat /\ rwCount \in Nat /\ L \in Nat
        /\ T \in Nat /\ M \in Nat /\ DeleteCap \in Nat
    BY AnswerTypes, LayoutAssumption DEF LayoutAssumption
  <2> QED BY <2>1, <2>2
<1>4. \/ x + delCount' >= y + DeleteCap
      \/ numActiveTemps >= M \/ delCount' >= DeleteCap
  BY <1>1 DEF MergeNeeded
<1> HIDE DEF x, y
<1>5. ~(x + delCount' >= y + DeleteCap)
  BY <1>2, <1>3, SumsNotAbove
<1>6. ~(delCount' >= DeleteCap)
  BY <1>2, <1>3
<1> QED BY <1>4, <1>5, <1>6

(* Once all is inserted the main thread has nothing left to insert.        *)
LEMMA InsertedStays ==
  ASSUME LayoutInv, AllInserted, MainNext
  PROVE  AllInserted'
<1>1. numInserts \in Nat /\ MaxInserts \in Nat /\ Remaining = 0
  BY BatchAssumption DEF BatchAssumption, LayoutInv, TypeOK, MainTypeOK, AllInserted
<1>2. /\ ~AssignSlots /\ ~InsertChunk /\ ~WindowIsFull /\ ~SealRefused /\ ~BeginSeal
      /\ ~MoveBase /\ ~ResetCount /\ ~ResetMedoid /\ \A p \in Pids : ~EventInsert(p)
  <2> HIDE DEF Remaining
  <2> QED BY <1>1 DEF AllInserted, SealPcs, AssignSlots, InsertChunk, WindowIsFull, SealRefused,
             BeginSeal, MoveBase, ResetCount, ResetMedoid, MainStep, EventInsert
<1>3. numInserts' = numInserts /\ mainPc' \notin {"kernel"} \cup SealPcs
  BY <1>2 DEF MainNext, Flush, Trigger, EventDelete, EventQuery, EventsOver, Finish, BeginInsert,
     EndInsert, FlushDelete, LaunchSearch, TriggerSkipped, TriggerSpawn, TriggerWait,
     TriggerJoined, BeginEagerMerge, EndEagerMerge, Resume, loadVars, SealPcs, AllInserted
<1>4. Remaining' = 0
  <2>1. CASE EndInsert
    BY <2>1 DEF EndInsert, Remaining
  <2>2. CASE ~EndInsert
    <3>1. UNCHANGED <<pendingInsertIds, offset>>
      BY <1>2, <2>2 DEF MainNext, Flush, Trigger, EventDelete, EventQuery, EventsOver, Finish,
         BeginInsert, FlushDelete, LaunchSearch, TriggerSkipped, TriggerSpawn, TriggerWait,
         TriggerJoined, BeginEagerMerge, EndEagerMerge, pendVars
    <3> QED BY <1>1, <3>1 DEF Remaining
  <2> QED BY <2>1, <2>2
<1> QED BY <1>3, <1>4 DEF AllInserted

LEMMA MainKeepsMergesLast ==
  ASSUME LayoutInv, LayoutInv', DriverSized, InsertsAccounted, DeletesAccounted', MergesLast, MainNext
  PROVE  MergesLast'
<1>1. CASE mergePc[bg] # "none" \/ mainPc \in {"trigger", "join"}
  BY <1>1, InsertedStays DEF MergesLast
<1>2. CASE ~(mergePc[bg] # "none" \/ mainPc \in {"trigger", "join"})
  <2>1. mergePc'[bg] = "none" /\ mainPc' # "join"
    BY <1>2, AnswerTypes DEF MainNext, Flush, Trigger, EventInsert, EventDelete, EventQuery,
       EventsOver, Finish, BeginInsert, AssignSlots, InsertChunk, WindowIsFull, SealRefused,
       BeginSeal, MoveBase, ResetCount, ResetMedoid, sealUnchanged, MainStep, EndInsert,
       FlushDelete, LaunchSearch, TriggerSkipped, TriggerSpawn, TriggerWait, TriggerJoined,
       BeginEagerMerge, EndEagerMerge, Idle, NextTask, Resume, bg, Mergers
  <2>2. ASSUME mainPc' = "trigger" PROVE AllInserted'
    <3>1. SealRefused \/ ResetMedoid \/ FlushDelete
      BY <1>2, <2>2 DEF MainNext, Flush, Trigger, EventInsert, EventDelete, EventQuery,
         EventsOver, Finish, BeginInsert, AssignSlots, InsertChunk, WindowIsFull,
         BeginSeal, MoveBase, ResetCount, MainStep, EndInsert, LaunchSearch, TriggerSkipped,
         TriggerSpawn, TriggerWait, TriggerJoined, BeginEagerMerge, EndEagerMerge, Idle, NextTask
    <3>2. InsertsAccounted
      OBVIOUS
    <3>3. /\ numActiveTemps >= M /\ mainPc \notin {"sealBase", "sealCount"}
          /\ UNCHANGED <<numInserts, pendingInsertIds, offset>>
      <4>1. CASE FlushDelete
        BY <2>2, <3>2, <4>1, TriggeredWhenFull DEF FlushDelete, NextTask, loadVars
      <4>2. CASE SealRefused \/ ResetMedoid
        BY <2>2, <4>2 DEF SealRefused, ResetMedoid, MainStep, sealUnchanged, loadVars, pendVars
      <4> QED BY <3>1, <4>1, <4>2
    <3>4. Remaining = 0 /\ numInserts >= MaxInserts
      BY <3>2, <3>3, WorkloadFits
    <3> QED BY <2>2, <3>3, <3>4 DEF AllInserted, Remaining, SealPcs
  <2> QED BY <2>1, <2>2 DEF MergesLast
<1> QED BY <1>1, <1>2

LEMMA DriverStep ==
  ASSUME ~EagerMerge, DriverSized, LayoutInv, LayoutInv', DriverInv, Next
  PROVE  DriverInv'
<1> USE DEF DriverInv
<1>1. CASE MainNext
  <2>1. UNCHANGED <<tornRead, tornCounts>>
    BY <1>1 DEF MainNext, Flush, Trigger, EventInsert, EventDelete, EventQuery, EventsOver,
       Finish, BeginInsert, AssignSlots, InsertChunk, WindowIsFull, SealRefused, BeginSeal,
       MoveBase, ResetCount, ResetMedoid, sealUnchanged, EndInsert, FlushDelete,
       LaunchSearch, TriggerSkipped, TriggerSpawn, TriggerWait, TriggerJoined, BeginEagerMerge,
       EndEagerMerge, snapVars
  <2>2. DeletesAccounted'
    BY <1>1, MainKeepsDeletes
  <2>3. MergesLast'
    BY <1>1, <2>2, MainKeepsMergesLast
  <2>4. InsertsAccounted'
    BY <1>1, MainKeepsInserts
  <2> QED BY <2>1, <2>2, <2>3, <2>4, CapacityStep
<1>2. ASSUME NEW a \in Mergers, MergeNext(a) PROVE DriverInv'
  <2>1. a = bg /\ mergePc[bg] # "none"
    <3>1. a = bg
      BY <1>2, OnlyBackground DEF CapacityInv
    <3> QED BY <1>2, <3>1 DEF MergeNext, SnapshotCounts, SnapshotRwBase, SnapshotRwCount,
               SnapshotRwMedoid, PhaseA, PhaseBGather, PhaseBLink, CopyRW, Swap, ClearBits,
               ClearCount, FreeOld, Step
  <2>2. AllInserted
    BY <2>1 DEF MergesLast
  <2>3. ~MidSeal
    BY <2>2 DEF AllInserted, MidSeal, SealPcs
  <2>4. /\ ~tornRead' /\ tornCounts' = 0 /\ UNCHANGED <<mainVars, pendVars, loadVars>>
        /\ delCount' \in {delCount, 0}
    <3>1. tornRead' = tornRead
      <4>1. tornRead' = tornRead \/ NoteTorn
        BY <1>2 DEF MergeNext, SnapshotCounts, SnapshotRwBase, SnapshotRwCount,
       SnapshotRwMedoid, PhaseA, PhaseBGather, PhaseBLink, CopyRW, Swap, ClearBits, ClearCount,
       FreeOld, snapVars
      <4> QED BY <2>3, <4>1 DEF NoteTorn, LayoutInv, TypeOK, MergeTypeOK
    <3>4. tornCounts' = 0
      <4>1. ~CountedTwice
        BY <2>3 DEF CountedTwice, MidSeal
      <4> QED BY <1>2, <4>1 DEF MergeNext, SnapshotCounts, SnapshotRwBase, SnapshotRwCount,
       SnapshotRwMedoid, PhaseA, PhaseBGather, PhaseBLink, CopyRW, Swap, ClearBits, ClearCount,
       FreeOld, snapVars
    <3>2. UNCHANGED <<mainVars, pendVars, loadVars>>
      BY <1>2 DEF MergeNext, SnapshotCounts, SnapshotRwBase, SnapshotRwCount,
       SnapshotRwMedoid, PhaseA, PhaseBGather, PhaseBLink, CopyRW, Swap, ClearBits, ClearCount,
       FreeOld, mainUnchanged
    <3>3. delCount' \in {delCount, 0}
      BY <1>2 DEF MergeNext, SnapshotCounts, SnapshotRwBase, SnapshotRwCount,
       SnapshotRwMedoid, PhaseA, PhaseBGather, PhaseBLink, CopyRW, Swap, ClearBits, ClearCount,
       FreeOld, delVars
    <3> QED BY <3>1, <3>2, <3>3, <3>4
  <2>5. AllInserted'
    BY <2>2, <2>4 DEF AllInserted, Remaining, mainVars, pendVars, loadVars
  <2>6. DeletesAccounted'
    <3> DEFINE n == Len(pendingDeleteIds)
    <3>1. /\ UNCHANGED <<numDeletes, pendingDeleteIds>> /\ delCount \in Nat /\ n \in Nat
          /\ numDeletes \in Nat
      BY <2>4, SkipTypes DEF pendVars, loadVars, LayoutInv, TypeOK, MainTypeOK
    <3>2. delCount + n <= numDeletes /\ numDeletes <= MaxDeletes
      BY DEF DeletesAccounted
    <3> HIDE DEF n
    <3>3. 0 + n <= numDeletes
      BY <3>1, <3>2
    <3> QED BY <2>4, <3>1, <3>2, <3>3 DEF DeletesAccounted, n
  <2>7. CapacityInv'
    BY CapacityStep
  <2>8. InsertsAccounted'
    <3>1. SlotsAccounted' = SlotsAccounted /\ SlotsAccounted = L + numInserts
      BY <2>4, AccountedIsNat DEF SlotsAccounted, loadVars
    <3> QED BY <2>4, <2>7, <3>1 DEF CapacityInv, WindowBounded, InsertsAccounted, loadVars
  <2> QED BY <2>4, <2>5, <2>6, <2>7, <2>8 DEF MergesLast
<1>3. CASE Stopped
  <2>1. UNCHANGED vars
    BY <1>3 DEF Stopped
  <2> QED BY <2>1, CapacityStutter DEF vars, mainVars, delVars, pendVars, loadVars, snapVars,
             idxVars, InsertsAccounted, WindowEnd, DeletesAccounted, MergesLast, AllInserted, Remaining
<1> QED BY <1>1, <1>2, <1>3 DEF Next

(* With the driver's own sizing the allocation of the driver, L + (M+1)*T, *)
(* is enough: no insert is handed a slot past its end.  The merge starts   *)
(* when the last insert is in and so never reads in the midst of a seal.   *)
THEOREM DriverSizingHolds ==
  ASSUME ~EagerMerge, DriverSized
  PROVE  Spec => [](NoOverrun /\ ~tornRead)
<1>1. LayoutInv /\ DriverInv /\ [Next]_vars => LayoutInv' /\ DriverInv'
  <2>1. ASSUME DriverInv, UNCHANGED vars PROVE DriverInv'
    BY <2>1, CapacityStutter DEF DriverInv, vars, mainVars, delVars, pendVars, loadVars, snapVars,
       idxVars, InsertsAccounted, WindowEnd, DeletesAccounted, MergesLast, AllInserted, Remaining
  <2> QED BY <2>1, LayoutStep, DriverStep
<1>2. Init => DriverInv
  BY CapacityInit, InsertsInit, BatchAssumption DEF BatchAssumption, Init, IndexInit, ExecutorInit, DriverInv,
     DeletesAccounted, MergesLast, Mergers, bg
<1>3. LayoutInv /\ DriverInv => NoOverrun /\ ~tornRead
  BY RoomForAll DEF DriverInv
<1> QED BY <1>1, <1>2, <1>3, LayoutInit, PTL DEF Spec
=============================================================================
