------------------------------ MODULE NodeLocks ------------------------------
(***************************************************************************)
(* The per-vertex binary locks of src/fda/src/fda_locks.cuh.  A lock is a  *)
(* byte, but the device compares and swaps 32-bit words: taking or         *)
(* releasing one lock rewrites the bytes of its neighbours, and must fail  *)
(* and start over when one of them changed since the word was read.        *)
(***************************************************************************)
EXTENDS Naturals

CONSTANTS
  Vertices,       \* vertices with a lock byte
  Blocks,         \* thread blocks; thread 0 of a block handles its locks
  BytesPerWord    \* lock bytes in one atomically swapped word

ASSUME VertexAssumption == Vertices \subseteq Nat
ASSUME WordAssumption == BytesPerWord \in Nat \ {0}

VARIABLES
  d_locks,   \* the byte of every vertex
  lockPc,    \* where each block is in acquireNodeLock or releaseNodeLock
  lockOf,    \* the vertex it locks
  old        \* the word it compares with: the bytes it expects to find

lockVars == <<d_locks, lockPc, lockOf, old>>

Unlocked == 0
Locked == 1

WordOf(v) == v \div BytesPerWord
BytesWith(v) == {u \in Vertices : WordOf(u) = WordOf(v)}
Word(v) == [u \in BytesWith(v) |-> d_locks[u]]

(* Between two compare-and-swap loops a block expects nothing.             *)
NoWord == <<>>

LockInit ==
  /\ d_locks = [v \in Vertices |-> Unlocked]
  /\ lockPc = [b \in Blocks |-> "idle"]
  /\ lockOf \in [Blocks -> Vertices]
  /\ old = [b \in Blocks |-> NoWord]

LockStep(b, from, to) ==
  /\ lockPc[b] = from
  /\ lockPc' = [lockPc EXCEPT ![b] = to]

(* The call of acquireNodeLock on v.                                       *)
Acquire(b, v) ==
  /\ LockStep(b, "idle", "load")
  /\ lockOf' = [lockOf EXCEPT ![b] = v]
  /\ UNCHANGED <<d_locks, old>>

(* A block spins as long as the word it loads shows the lock taken.        *)
LoadToTake(b) ==
  /\ d_locks[lockOf[b]] = Unlocked
  /\ LockStep(b, "load", "take")
  /\ old' = [old EXCEPT ![b] = Word(lockOf[b])]
  /\ UNCHANGED <<d_locks, lockOf>>

NothingChanged_InMyByte(b) == d_locks[lockOf[b]] = old[b][lockOf[b]]   \* mutant
NothingChanged(b) == Word(lockOf[b]) = old[b]

(* The word as read, but for the block's own byte.                         *)
Store(b, byte) ==
  d_locks' = [v \in Vertices |-> IF v = lockOf[b] THEN byte
                                 ELSE IF v \in BytesWith(lockOf[b]) THEN old[b][v]
                                 ELSE d_locks[v]]

SwapToTake(b) ==
  /\ LockStep(b, "take", "held")
  /\ NothingChanged(b)
  /\ Store(b, Locked)
  /\ old' = [old EXCEPT ![b] = NoWord]
  /\ UNCHANGED lockOf

(* A failed swap returns the word it found; with the lock taken meanwhile  *)
(* the block spins again.                                                  *)
FailToTake(b) ==
  /\ LockStep(b, "take", IF d_locks[lockOf[b]] = Unlocked THEN "take" ELSE "load")
  /\ ~NothingChanged(b)
  /\ old' = [old EXCEPT ![b] = Word(lockOf[b])]
  /\ UNCHANGED <<d_locks, lockOf>>

(* The call of releaseNodeLock.                                            *)
Release(b) ==
  /\ LockStep(b, "held", "unload")
  /\ UNCHANGED <<d_locks, lockOf, old>>

LoadToClear(b) ==
  /\ LockStep(b, "unload", "clear")
  /\ old' = [old EXCEPT ![b] = Word(lockOf[b])]
  /\ UNCHANGED <<d_locks, lockOf>>

SwapToClear(b) ==
  /\ LockStep(b, "clear", "idle")
  /\ NothingChanged(b)
  /\ Store(b, Unlocked)
  /\ old' = [old EXCEPT ![b] = NoWord]
  /\ UNCHANGED lockOf

AfterFailedClear_GiveUp == "idle"   \* mutant
AfterFailedClear == "clear"

FailToClear(b) ==
  /\ LockStep(b, "clear", AfterFailedClear)
  /\ ~NothingChanged(b)
  /\ old' = [old EXCEPT ![b] = Word(lockOf[b])]
  /\ UNCHANGED <<d_locks, lockOf>>

(* The steps inside acquireNodeLock and releaseNodeLock.                   *)
LockNext(b) ==
  \/ LoadToTake(b) \/ SwapToTake(b) \/ FailToTake(b)
  \/ LoadToClear(b) \/ SwapToClear(b) \/ FailToClear(b)

(* Any client that locks one vertex at a time.                             *)
LockClient ==
  \E b \in Blocks :
    LockNext(b) \/ Release(b) \/ \E v \in Vertices : Acquire(b, v)

LockSpec == LockInit /\ [][LockClient]_lockVars

-----------------------------------------------------------------------------
(* Properties.                                                             *)

LockPcs == {"idle", "load", "take", "held", "unload", "clear"}
Holds(b) == lockPc[b] \in {"held", "unload", "clear"}

(* Every variable has its type: a word is expected with the bytes of the   *)
(* vertices that share it.                                                 *)
LockTypeOK ==
  /\ d_locks \in [Vertices -> {Unlocked, Locked}]
  /\ lockPc \in [Blocks -> LockPcs]
  /\ lockOf \in [Blocks -> Vertices]
  /\ DOMAIN old = Blocks
  /\ \A b \in Blocks : lockPc[b] \in {"take", "clear"} =>
       old[b] \in [BytesWith(lockOf[b]) -> {Unlocked, Locked}]

(* fda_locks.cuh:9-12: a lock has one holder, whatever the swaps of the    *)
(* other bytes of its word do.                                             *)
MutualExclusion ==
  \A b, c \in Blocks : Holds(b) /\ Holds(c) /\ lockOf[b] = lockOf[c] => b = c

(* A byte is set exactly while a block holds its lock: no swap loses a     *)
(* release or brings a lock back.                                          *)
BytesTellHolders ==
  \A v \in Vertices : d_locks[v] = Locked <=> \E b \in Blocks : Holds(b) /\ lockOf[b] = v
=============================================================================
