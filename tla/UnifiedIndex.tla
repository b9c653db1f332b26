---------------------------- MODULE UnifiedIndex ----------------------------
(***************************************************************************)
(* The unified multi-index allocation of the out-of-place FreshDiskANN     *)
(* (src/fda/src/fda_index.{h,cu}) and its delete list.                     *)
(*                                                                         *)
(* One device allocation holds, in slot order, the long-term index (LTI),  *)
(* up to M sealed temporary indexes of T slots each, and the read-write    *)
(* window (RW) that takes the inserts:                                     *)
(*                                                                         *)
(*    0 .. ltiCount-1 | Temp 0 | ... | Temp n-1 | RW: rwBase .. rwBase+T-1 *)
(*                                                                         *)
(* A slot's vector is abstracted to the point id it belongs to; its        *)
(* adjacency list is not part of this module.                              *)
(***************************************************************************)
EXTENDS Integers, FiniteSets

CONSTANTS
  L,          \* vertices of the index the run starts from
  T,          \* tempCapacity: slots of the RW window and of a Temp
  M,          \* maxTemps: sealed Temps the layout has room for
  Capacity,   \* slots of the allocation
  DeleteCap,  \* deleteListCapacity: bits of the delete list
  LtiMedoid,  \* entry point of the LTI
  Pids,       \* the workload's point ids; 0 .. L-1 are loaded at the start
  NoPid,      \* the content of a zeroed slot
  NoSlot,     \* UINT_MAX where a slot is expected
  Buffers     \* addresses the device allocator can return

Slots == 0 .. Capacity - 1

ASSUME LayoutAssumption ==
  /\ L \in Nat \ {0} /\ T \in Nat \ {0} /\ M \in Nat \ {0}
  /\ Capacity \in Nat /\ Capacity >= L + (M + 1) * T
  /\ DeleteCap \in Nat /\ DeleteCap >= Capacity
  /\ LtiMedoid \in 0 .. L - 1
ASSUME PidAssumption == 0 .. L - 1 \subseteq Pids /\ NoPid \notin Pids
ASSUME SlotAssumption == NoSlot \notin Int
ASSUME BufferAssumption == Buffers # {}

VARIABLES
  ltiCount, numActiveTemps, rwBase, rwCount,
  rwMedoid,      \* first slot written to the RW window, or NoSlot
  tempMedoids,   \* Temp i's entry point, or NoSlot
  cur,           \* idx.d_graph: the buffer that is live
  graph,         \* content of every buffer: the pid stored in each slot
  allocated,     \* buffers that are allocated
  delBits,       \* slots whose bit is set in the delete list
  delCount       \* its host-side count

idxVars == <<ltiCount, numActiveTemps, rwBase, rwCount, rwMedoid, tempMedoids>>
bufVars == <<cur, graph, allocated>>
delVars == <<delBits, delCount>>

(* cudaMalloc; which free address it returns makes no difference.          *)
FreeBuffer(taken) == CHOOSE b \in Buffers : b \notin taken

Zeroed == [s \in Slots |-> NoPid]

IndexInit ==
  /\ ltiCount = L /\ numActiveTemps = 0 /\ rwBase = L /\ rwCount = 0
  /\ rwMedoid = NoSlot
  /\ tempMedoids = [i \in 0 .. M - 1 |-> NoSlot]
  /\ cur = FreeBuffer({})
  /\ allocated = {cur}
  /\ graph = [b \in Buffers |-> IF b = cur
                                THEN [s \in Slots |-> IF s < L THEN s ELSE NoPid]
                                ELSE Zeroed]
  /\ delBits = {} /\ delCount = 0

LayoutFull_OneEarly == numActiveTemps >= M - 1   \* mutant
LayoutFull == numActiveTemps >= M

SealedRwBase_Unmoved == rwBase   \* mutant
SealedRwBase == rwBase + T

(* sealCurrentRW writes the fields one after the other, in the order of the *)
(* source.  A Temp's entry point is only read under the lock, so it is     *)
(* written together with the count of Temps.                               *)
SealTemp ==
  /\ tempMedoids' = [tempMedoids EXCEPT ![numActiveTemps] = rwMedoid]
  /\ numActiveTemps' = numActiveTemps + 1
  /\ UNCHANGED <<ltiCount, rwBase, rwCount, rwMedoid>>

SealBase ==
  /\ rwBase' = SealedRwBase
  /\ UNCHANGED <<ltiCount, numActiveTemps, rwCount, rwMedoid, tempMedoids>>

SealCount ==
  /\ rwCount' = 0
  /\ UNCHANGED <<ltiCount, numActiveTemps, rwBase, rwMedoid, tempMedoids>>

SealMedoid ==
  /\ rwMedoid' = NoSlot
  /\ UNCHANGED <<ltiCount, numActiveTemps, rwBase, rwCount, tempMedoids>>

(* The kernel drops ids past the bit vector; the host count takes all of   *)
(* them, repeated ones included.                                           *)
BatchMarkDeleted(slots, n) ==
  /\ delBits' = delBits \cup {s \in slots : s < DeleteCap}
  /\ delCount' = delCount + n

TempWindow_LastMissing(i) == ltiCount + i * T .. ltiCount + (i + 1) * T - 2   \* mutant
TempWindow(i) == ltiCount + i * T .. ltiCount + (i + 1) * T - 1
RwWindow == rwBase .. rwBase + rwCount - 1

(* The slots searchUnified can return: the LTI, each Temp and the RW       *)
(* window that have an entry point, less the tombstones -- which are       *)
(* consulted only while the host count is positive.                        *)
SearchedSlots ==
  (0 .. ltiCount - 1)
  \cup (UNION {TempWindow(i) : i \in {j \in 0 .. numActiveTemps - 1 : tempMedoids[j] # NoSlot}})
  \cup (IF rwMedoid # NoSlot THEN RwWindow ELSE {})

Answer_FirstTombstoneMissed ==   \* mutant
  {s \in SearchedSlots \cap Slots :
     graph[cur][s] # NoPid /\ (delCount > 1 => s \notin delBits)}
Answer ==
  {s \in SearchedSlots \cap Slots :
     /\ graph[cur][s] # NoPid
     /\ delCount > 0 => s \notin delBits}

VisiblePids == {graph[cur][s] : s \in Answer}
=============================================================================
