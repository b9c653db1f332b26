------------------------- MODULE ReverseEdgesProofs -------------------------
(***************************************************************************)
(* Theorems about NodeLocks and ReverseEdges, for any number of blocks and *)
(* vertices and any number of lock bytes in a word.                        *)
(***************************************************************************)
EXTENDS ReverseEdges, RobustPruneProofs

-----------------------------------------------------------------------------
(* The locks.  A swap that succeeds finds every byte of the word as it was *)
(* read, so it changes the block's own byte only.                          *)

(* What a block about to take a lock has read: the lock is free.           *)
ReadAsFree == \A b \in Blocks : lockPc[b] = "take" => old[b][lockOf[b]] = Unlocked

LockInv == LockTypeOK /\ ReadAsFree /\ MutualExclusion /\ BytesTellHolders

LEMMA LockInitially == LockInit => LockInv
BY DEF LockInit, LockInv, LockTypeOK, ReadAsFree, MutualExclusion, BytesTellHolders, Holds,
   LockPcs, Unlocked, Locked

LEMMA OwnByte ==
  ASSUME LockTypeOK, NEW b \in Blocks, NEW byte \in {Unlocked, Locked},
         NothingChanged(b), Store(b, byte)
  PROVE  d_locks' = [d_locks EXCEPT ![lockOf[b]] = byte]
<1>1. lockOf[b] \in Vertices /\ d_locks \in [Vertices -> {Unlocked, Locked}]
  BY DEF LockTypeOK
<1>2. \A v \in BytesWith(lockOf[b]) : old[b][v] = d_locks[v]
  BY DEF NothingChanged, Word
<1> QED BY <1>1, <1>2 DEF Store

(* Taking a lock that is free, clearing one that is held, and every step   *)
(* that changes neither a byte nor who holds what.                         *)
LEMMA TakeKeepsLocks ==
  ASSUME LockInv, NEW b \in Blocks, SwapToTake(b)
  PROVE  LockInv'
<1>1. /\ lockOf[b] \in Vertices /\ old[b][lockOf[b]] = d_locks[lockOf[b]]
      /\ d_locks[lockOf[b]] = Unlocked
  BY DEF LockInv, LockTypeOK, ReadAsFree, SwapToTake, LockStep, NothingChanged, Word, BytesWith
<1>2. d_locks' = [d_locks EXCEPT ![lockOf[b]] = Locked]
  BY OwnByte DEF SwapToTake, LockInv
<1>3. /\ lockPc[b] = "take" /\ lockPc' = [lockPc EXCEPT ![b] = "held"]
      /\ lockOf' = lockOf /\ old' = [old EXCEPT ![b] = NoWord]
  BY DEF SwapToTake, LockStep
<1>4. \A c \in Blocks : ~(Holds(c) /\ lockOf[c] = lockOf[b])
  BY <1>1 DEF LockInv, BytesTellHolders, Unlocked, Locked
<1>5. \A c \in Blocks : Holds(c)' <=> c = b \/ Holds(c)
  BY <1>3 DEF Holds, LockInv, LockTypeOK
<1>6. LockTypeOK' /\ ReadAsFree'
  <2>1. /\ d_locks' \in [Vertices -> {Unlocked, Locked}] /\ lockPc' \in [Blocks -> LockPcs]
        /\ lockOf' \in [Blocks -> Vertices] /\ DOMAIN old' = Blocks
    BY <1>1, <1>2, <1>3 DEF LockInv, LockTypeOK, LockPcs
  <2>2. \A c \in Blocks : lockPc'[c] \in {"take", "clear"} =>
          lockPc[c] = lockPc'[c] /\ old'[c] = old[c] /\ lockOf'[c] = lockOf[c]
    BY <1>3 DEF LockInv, LockTypeOK
  <2> QED BY <2>1, <2>2 DEF LockInv, LockTypeOK, ReadAsFree, BytesWith, WordOf
<1>7. MutualExclusion'
  BY <1>3, <1>4, <1>5 DEF LockInv, MutualExclusion
<1>8. BytesTellHolders'
  BY <1>1, <1>2, <1>3, <1>5 DEF LockInv, LockTypeOK, BytesTellHolders, Unlocked, Locked
<1> QED BY <1>6, <1>7, <1>8 DEF LockInv

LEMMA ClearKeepsLocks ==
  ASSUME LockInv, NEW b \in Blocks, SwapToClear(b)
  PROVE  LockInv'
<1>1. lockOf[b] \in Vertices /\ Holds(b)
  BY DEF LockInv, LockTypeOK, SwapToClear, LockStep, Holds
<1>2. d_locks' = [d_locks EXCEPT ![lockOf[b]] = Unlocked]
  BY OwnByte DEF SwapToClear, LockInv
<1>3. /\ lockPc' = [lockPc EXCEPT ![b] = "idle"]
      /\ lockOf' = lockOf /\ old' = [old EXCEPT ![b] = NoWord]
  BY DEF SwapToClear, LockStep
<1>4. \A c \in Blocks : Holds(c)' <=> c # b /\ Holds(c)
  BY <1>3 DEF Holds, LockInv, LockTypeOK
<1>5. LockTypeOK' /\ ReadAsFree'
  <2>1. /\ d_locks' \in [Vertices -> {Unlocked, Locked}] /\ lockPc' \in [Blocks -> LockPcs]
        /\ lockOf' \in [Blocks -> Vertices] /\ DOMAIN old' = Blocks
    BY <1>1, <1>2, <1>3 DEF LockInv, LockTypeOK, LockPcs
  <2>2. \A c \in Blocks : lockPc'[c] \in {"take", "clear"} =>
          lockPc[c] = lockPc'[c] /\ old'[c] = old[c] /\ lockOf'[c] = lockOf[c]
    BY <1>3 DEF LockInv, LockTypeOK
  <2> QED BY <2>1, <2>2 DEF LockInv, LockTypeOK, ReadAsFree, BytesWith, WordOf
<1>6. MutualExclusion'
  BY <1>3, <1>4 DEF LockInv, MutualExclusion
<1>7. BytesTellHolders'
  BY <1>1, <1>2, <1>3, <1>4
  DEF LockInv, LockTypeOK, MutualExclusion, BytesTellHolders, Unlocked, Locked
<1> QED BY <1>5, <1>6, <1>7 DEF LockInv

LEMMA HoldersKept ==
  ASSUME LockInv, LockTypeOK', ReadAsFree', UNCHANGED d_locks,
         \A b \in Blocks : /\ Holds(b)' <=> Holds(b)
                           /\ Holds(b) => lockOf'[b] = lockOf[b]
  PROVE  LockInv'
<1>1. MutualExclusion'
  BY DEF LockInv, MutualExclusion
<1>2. BytesTellHolders'
  BY DEF LockInv, BytesTellHolders
<1> QED BY <1>1, <1>2 DEF LockInv

LEMMA WordType ==
  ASSUME LockTypeOK, NEW b \in Blocks
  PROVE  /\ lockOf[b] \in BytesWith(lockOf[b])
         /\ Word(lockOf[b]) \in [BytesWith(lockOf[b]) -> {Unlocked, Locked}]
         /\ Word(lockOf[b])[lockOf[b]] = d_locks[lockOf[b]]
BY DEF LockTypeOK, BytesWith, Word

LEMMA LoadKeepsLocks ==
  ASSUME LockInv, NEW b \in Blocks,
         LoadToTake(b) \/ FailToTake(b) \/ LoadToClear(b) \/ FailToClear(b)
  PROVE  LockInv'
<1>1. /\ lockPc \in [Blocks -> LockPcs] /\ lockOf \in [Blocks -> Vertices]
      /\ UNCHANGED <<d_locks, lockOf>>
      /\ old' = [old EXCEPT ![b] = Word(lockOf[b])]
  BY DEF LockInv, LockTypeOK, LoadToTake, FailToTake, LoadToClear, FailToClear
<1>2. \/ /\ lockPc[b] \in {"load", "take"} /\ lockPc' = [lockPc EXCEPT ![b] = "take"]
         /\ d_locks[lockOf[b]] = Unlocked
      \/ lockPc[b] = "take" /\ lockPc' = [lockPc EXCEPT ![b] = "load"]
      \/ lockPc[b] \in {"unload", "clear"} /\ lockPc' = [lockPc EXCEPT ![b] = "clear"]
  BY DEF LoadToTake, FailToTake, LoadToClear, FailToClear, LockStep, AfterFailedClear
<1>3. \A c \in Blocks : Holds(c)' <=> Holds(c)
  BY <1>1, <1>2 DEF Holds
<1>4. \A v \in Vertices : BytesWith(v)' = BytesWith(v)
  BY DEF BytesWith
<1>5. LockTypeOK' /\ ReadAsFree'
  <2>1. lockPc' \in [Blocks -> LockPcs] /\ DOMAIN old' = Blocks
    BY <1>1, <1>2 DEF LockPcs, LockInv, LockTypeOK
  <2>2. \A c \in Blocks : lockPc'[c] \in {"take", "clear"} =>
          \/ c = b /\ old'[c] = Word(lockOf[c])
          \/ lockPc[c] = lockPc'[c] /\ old'[c] = old[c]
    BY <1>1, <1>2 DEF LockInv, LockTypeOK
  <2>3. \A c \in Blocks : lockPc'[c] \in {"take", "clear"} =>
          old'[c] \in [BytesWith(lockOf[c]) -> {Unlocked, Locked}]
    BY <2>2, WordType DEF LockInv, LockTypeOK
  <2>4. LockTypeOK'
    BY <1>1, <2>1, <2>3 DEF LockInv, LockTypeOK, BytesWith, WordOf
  <2>5. ReadAsFree'
    BY <1>1, <1>2, <2>2, WordType DEF LockInv, ReadAsFree
  <2> QED BY <2>4, <2>5
<1> QED BY <1>1, <1>3, <1>5, HoldersKept

LEMMA CallKeepsLocks ==
  ASSUME LockInv, NEW b \in Blocks, Release(b) \/ \E v \in Vertices : Acquire(b, v)
  PROVE  LockInv'
<1>1. /\ lockPc \in [Blocks -> LockPcs] /\ lockOf \in [Blocks -> Vertices]
      /\ UNCHANGED <<d_locks, old>>
  BY DEF LockInv, LockTypeOK, Release, Acquire
<1>2. \/ lockPc[b] = "held" /\ lockPc' = [lockPc EXCEPT ![b] = "unload"] /\ UNCHANGED lockOf
      \/ /\ lockPc[b] = "idle" /\ lockPc' = [lockPc EXCEPT ![b] = "load"]
         /\ \E v \in Vertices : lockOf' = [lockOf EXCEPT ![b] = v]
  BY DEF Release, Acquire, LockStep
<1>3. \A c \in Blocks : /\ Holds(c)' <=> Holds(c)
                        /\ Holds(c) => lockOf'[c] = lockOf[c]
  BY <1>1, <1>2 DEF Holds
<1>4. LockTypeOK' /\ ReadAsFree'
  BY <1>1, <1>2 DEF LockInv, LockTypeOK, ReadAsFree, LockPcs
<1> QED BY <1>1, <1>3, <1>4, HoldersKept

LEMMA LockStutter == LockInv /\ UNCHANGED lockVars => LockInv'
<1> SUFFICES ASSUME LockInv, UNCHANGED lockVars PROVE LockInv'
  OBVIOUS
<1>1. UNCHANGED <<d_locks, lockPc, lockOf, old>>
  BY DEF lockVars
<1>2. LockTypeOK'
  BY <1>1 DEF LockInv, LockTypeOK, BytesWith, WordOf
<1>3. ReadAsFree'
  BY <1>1 DEF LockInv, ReadAsFree
<1>4. \A b \in Blocks : Holds(b)' <=> Holds(b)
  BY <1>1 DEF Holds
<1> QED BY <1>1, <1>2, <1>3, <1>4, HoldersKept

LEMMA ClientKeepsLocks == LockInv /\ [LockClient]_lockVars => LockInv'
<1> SUFFICES ASSUME LockInv, [LockClient]_lockVars PROVE LockInv'
  OBVIOUS
<1>1. ASSUME NEW b \in Blocks, LockNext(b) PROVE LockInv'
  BY <1>1, TakeKeepsLocks, ClearKeepsLocks, LoadKeepsLocks DEF LockNext
<1> QED BY <1>1, CallKeepsLocks, LockStutter DEF LockClient

-----------------------------------------------------------------------------
(* The kernel is a client of the locks.                                    *)

LEMMA KernelUsesLocks == [Next]_vars => [LockClient]_lockVars
<1> SUFFICES ASSUME [Next]_vars PROVE [LockClient]_lockVars
  OBVIOUS
<1>1. ASSUME NEW b \in Blocks, BlockNext(b) PROVE [LockClient]_lockVars
  <2>1. target(b) \in Vertices
    BY BlockAssumption DEF BlockAssumption, target
  <2>2. \/ UNCHANGED lockVars
        \/ LockNext(b) \/ Release(b) \/ Acquire(b, target(b))
    BY <1>1 DEF BlockNext, Begin, Look, AlreadyLinked, AppendSource, CountSource, Gather,
       Prune, Shrink, WriteEntry, Finish
  <2> QED BY <2>1, <2>2 DEF LockClient
<1> QED BY <1>1 DEF Next, KernelOver, vars

(* However the blocks interleave, a vertex's lock has one holder ...       *)
THEOREM LocksExclude == Spec => []MutualExclusion
<1>1. Init => LockInv
  BY LockInitially DEF Init
<1>2. LockInv /\ [Next]_vars => LockInv'
  BY ClientKeepsLocks, KernelUsesLocks
<1>3. LockInv => MutualExclusion
  BY DEF LockInv
<1> QED BY <1>1, <1>2, <1>3, PTL DEF Spec

(* ... and its byte is set exactly while it has one: no compare-and-swap   *)
(* of a word loses what happened to the other bytes.                       *)
THEOREM BytesFollowHolders == Spec => []BytesTellHolders
<1>1. Init => LockInv
  BY LockInitially DEF Init
<1>2. LockInv /\ [Next]_vars => LockInv'
  BY ClientKeepsLocks, KernelUsesLocks
<1>3. LockInv => BytesTellHolders
  BY DEF LockInv
<1> QED BY <1>1, <1>2, <1>3, PTL DEF Spec

-----------------------------------------------------------------------------
(* The lists.                                                              *)

KernelTypeOK ==
  /\ deg \in [Vertices -> 0 .. R]
  /\ nbr \in [Vertices -> [1 .. R -> Vertices \cup {NoVertex}]]
  /\ pc \in [Blocks -> KernelPcs]
  /\ currDeg \in [Blocks -> 0 .. R]
  /\ cands \in [Blocks -> Seq(Vertices \cup {NoVertex})]
  /\ kept \in [Blocks -> Seq(Vertices \cup {NoVertex})]
  /\ unwritten \in [Blocks -> SUBSET (1 .. R)]
  /\ apart \in [Blocks -> BOOLEAN]

(* The first n entries of a list name other vertices, ... each once, ...   *)
(* and not this one.                                                       *)
NamesOthers(v, list, n) == \A i \in 1 .. n : list[i] \in Vertices \ {v}
NamesOnce(list, n) == \A i, j \in 1 .. n : list[i] = list[j] => i = j
Missing(u, list, n) == \A i \in 1 .. n : list[i] # u

(* Between look and end a block has the lock of its target.                *)
UnderLock == {"append", "count", "gather", "prune", "shrink", "rewrite"}

BlockTellsLock(b, place, lock, of) ==
  /\ of = target(b)
  /\ place = "begin" => lock = "idle"
  /\ place = "look" => lock \in {"load", "take", "held"}
  /\ place \in UnderLock => lock = "held"
  /\ place = "end" => lock \in {"idle", "unload", "clear"}

PlaceTellsLock == \A b \in Blocks : BlockTellsLock(b, pc[b], lockPc[b], lockOf[b])

(* What a block that has come to a place has left in the length and the    *)
(* entries of its target's list, and keeps for itself, whatever other      *)
(* blocks write late.                                                      *)
MidwayAt(b, place, len, list, read, all, chosen, left, off) ==
  /\ place \in UnderLock \cup {"look"} => source(b) # target(b)
  /\ place \in {"append", "count"} => read = len /\ len < R
  /\ place = "count" => list[len + 1] \in Vertices \ {target(b)}
  /\ place \in {"gather", "prune", "shrink"} => len = R
  /\ place \in {"prune", "shrink", "rewrite"} =>
       all \in Seq(Vertices \ {target(b)}) /\ Len(all) = R + 1
  /\ place = "rewrite" => len = Len(chosen)
  /\ chosen \in Seq(Vertices \ {target(b)}) /\ Len(chosen) \in 0 .. R
  /\ left \subseteq 1 .. Len(chosen)
  /\ left # {} \/ off => place \in {"shrink", "rewrite", "end"}
  /\ left # {} /\ place = "end" => off

Midway(b) == MidwayAt(b, pc[b], deg[target(b)], nbr[target(b)], currDeg[b], cands[b],
                      kept[b], unwritten[b], apart[b])

(* A full list and the source.                                             *)
Overflow(b, all, before) ==
  /\ before \in [1 .. R -> Vertices \cup {NoVertex}] /\ all = Append(before, source(b))
  /\ NamesOthers(target(b), before, R) /\ NamesOnce(before, R) /\ Missing(source(b), before, R)

(* ... and where no block came apart.                                      *)
CleanAt(b, place, len, list, all, chosen, left) ==
  /\ place \in {"append", "count"} => Missing(source(b), list, len)
  /\ place = "count" => list[len + 1] = source(b)
  /\ place = "gather" => Missing(source(b), list, R)
  /\ place \in {"prune", "shrink"} => Overflow(b, all, list)
  /\ place = "rewrite" =>
       /\ \E before \in [1 .. R -> Vertices \cup {NoVertex}] : Overflow(b, all, before)
       /\ \A k \in (1 .. Len(chosen)) \ left : list[k] = chosen[k]
  /\ place \in {"shrink", "rewrite"} => chosen = Pruned(target(b), all)
  /\ place = "shrink" => left = 1 .. Len(chosen)
  /\ place = "end" => left = {}

Clean(b) == CleanAt(b, pc[b], deg[target(b)], nbr[target(b)], cands[b], kept[b], unwritten[b])

AtRewrite(v) == \E b \in Blocks : target(b) = v /\ pc[b] = "rewrite"

ListsNamed == \A v \in Vertices : NamesOthers(v, nbr[v], deg[v])
ListsOnce == \A v \in Vertices : ~CameApart(v) /\ ~AtRewrite(v) => NamesOnce(nbr[v], deg[v])

KernelInv ==
  /\ LockInv /\ KernelTypeOK
  /\ PlaceTellsLock
  /\ ListsNamed /\ ListsOnce
  /\ \A b \in Blocks : Midway(b)
  /\ \A b \in Blocks : ~CameApart(target(b)) => Clean(b)

LEMMA BlockType ==
  ASSUME NEW b \in Blocks
  PROVE  target(b) \in Vertices /\ source(b) \in Vertices /\ b = <<target(b), source(b)>>
BY BlockAssumption DEF BlockAssumption, target, source

LEMMA NoPlaceYet ==
  ASSUME NEW b \in Blocks, NEW place \in {"begin", "end"}, NEW len, NEW list, NEW read, NEW all
  PROVE  /\ MidwayAt(b, place, len, list, read, all, <<>>, {}, FALSE)
         /\ CleanAt(b, place, len, list, all, <<>>, {})
<1>1. <<>> \in Seq(Vertices \ {target(b)}) /\ Len(<<>>) = 0 /\ 0 \in 0 .. R
  BY EmptySeq, RoomType
<1> QED BY <1>1 DEF MidwayAt, CleanAt, UnderLock

LEMMA KernelInitially == Init => KernelInv
<1> SUFFICES ASSUME Init PROVE KernelInv
  OBVIOUS
<1>1. PICK adj \in Forward :
        /\ lockOf = [b \in Blocks |-> target(b)] /\ LockInit
        /\ deg = [v \in Vertices |-> Len(adj[v])]
        /\ nbr = [v \in Vertices |->
                    [i \in 1 .. R |-> IF i <= Len(adj[v]) THEN adj[v][i] ELSE NoVertex]]
        /\ pc = [b \in Blocks |-> IF b \in Collected(adj) THEN "begin" ELSE "end"]
        /\ currDeg = [b \in Blocks |-> 0]
        /\ cands = [b \in Blocks |-> <<>>]
        /\ kept = [b \in Blocks |-> <<>>]
        /\ unwritten = [b \in Blocks |-> {}]
        /\ apart = [b \in Blocks |-> FALSE]
  BY DEF Init
<1>2. ASSUME NEW v \in Vertices
      PROVE  /\ Len(adj[v]) \in 0 .. R /\ DOMAIN adj[v] = 1 .. Len(adj[v])
             /\ \A i \in 1 .. Len(adj[v]) : adj[v][i] \in Vertices \ {v}
             /\ \A i, j \in 1 .. Len(adj[v]) : adj[v][i] = adj[v][j] => i = j
  <2>1. adj[v] \in Seq(Vertices) /\ Len(adj[v]) <= R
    BY ForwardAssumption DEF ForwardAssumption
  <2>2. ToSet(adj[v]) \subseteq Vertices \ {v} /\ IsInjective(adj[v])
    BY ForwardAssumption DEF ForwardAssumption
  <2>3. Len(adj[v]) \in Nat /\ DOMAIN adj[v] = 1 .. Len(adj[v])
    BY <2>1, LenProperties
  <2> QED BY <2>1, <2>2, <2>3, RoomType DEF ToSet, IsInjective
<1>3. KernelTypeOK
  <2>1. deg \in [Vertices -> 0 .. R]
    BY <1>1, <1>2
  <2>2. nbr \in [Vertices -> [1 .. R -> Vertices \cup {NoVertex}]]
    <3>1. ASSUME NEW v \in Vertices
          PROVE  [i \in 1 .. R |-> IF i <= Len(adj[v]) THEN adj[v][i] ELSE NoVertex]
                   \in [1 .. R -> Vertices \cup {NoVertex}]
      BY <1>2
    <3> QED BY <1>1, <3>1
  <2>3. pc \in [Blocks -> KernelPcs] /\ currDeg \in [Blocks -> 0 .. R]
    BY <1>1, RoomType DEF KernelPcs
  <2>4. /\ cands \in [Blocks -> Seq(Vertices \cup {NoVertex})]
        /\ kept \in [Blocks -> Seq(Vertices \cup {NoVertex})]
    <3>1. <<>> \in Seq(Vertices \cup {NoVertex})
      BY EmptySeq
    <3> QED BY <1>1, <3>1
  <2>5. unwritten \in [Blocks -> SUBSET (1 .. R)] /\ apart \in [Blocks -> BOOLEAN]
    BY <1>1
  <2> QED BY <2>1, <2>2, <2>3, <2>4, <2>5 DEF KernelTypeOK
<1>4. PlaceTellsLock
  BY <1>1 DEF PlaceTellsLock, BlockTellsLock, LockInit, UnderLock
<1>5. ListsNamed /\ ListsOnce
  <2>1. ASSUME NEW v \in Vertices PROVE NamesOthers(v, nbr[v], deg[v]) /\ NamesOnce(nbr[v], deg[v])
    <3>1. deg[v] = Len(adj[v]) /\ \A i \in 1 .. Len(adj[v]) : nbr[v][i] = adj[v][i]
      BY <1>1, <1>2, RoomType
    <3> QED BY <1>2, <3>1 DEF NamesOthers, NamesOnce
  <2> QED BY <2>1 DEF ListsNamed, ListsOnce
<1>6. ASSUME NEW b \in Blocks PROVE Midway(b) /\ Clean(b)
  <2>1. /\ pc[b] \in {"begin", "end"}
        /\ kept[b] = <<>> /\ unwritten[b] = {} /\ apart[b] = FALSE
    BY <1>1
  <2> QED BY <2>1, NoPlaceYet DEF Midway, Clean
<1> QED BY <1>1, <1>3, <1>4, <1>5, <1>6, LockInitially DEF KernelInv

(* Two blocks do not work on a list at once.                               *)
LEMMA AloneUnderLock ==
  ASSUME KernelInv, NEW b \in Blocks, NEW c \in Blocks,
         lockPc[b] = "held", pc[c] \in UnderLock, target(c) = target(b)
  PROVE  c = b
BY DEF KernelInv, LockInv, MutualExclusion, PlaceTellsLock, BlockTellsLock, Holds

(* What a step of b does to the lists: nothing, something to its target's  *)
(* under the lock, or a late write.                                        *)
WritesUnderLock(b) ==
  /\ lockPc[b] = "held"
  /\ \A v \in Vertices \ {target(b)} : deg'[v] = deg[v] /\ nbr'[v] = nbr[v]

WritesLate(b) ==
  /\ apart[b] /\ deg' = deg
  /\ \A v \in Vertices \ {target(b)} : nbr'[v] = nbr[v]
  /\ \A i \in 1 .. R : \/ nbr'[target(b)][i] = nbr[target(b)][i]
                       \/ nbr'[target(b)][i] \in Vertices \ {target(b)}

(* ... and it leaves the rest of every other block alone.                  *)
OthersStay(b) ==
  \A c \in Blocks \ {b} :
    /\ pc'[c] = pc[c] /\ currDeg'[c] = currDeg[c] /\ cands'[c] = cands[c]
    /\ kept'[c] = kept[c] /\ unwritten'[c] = unwritten[c] /\ apart'[c] = apart[c]
    /\ lockPc'[c] = lockPc[c] /\ lockOf'[c] = lockOf[c]

LEMMA OthersMidway ==
  ASSUME KernelInv, NEW b \in Blocks, OthersStay(b), NEW c \in Blocks \ {b},
         UNCHANGED <<deg, nbr>> \/ WritesUnderLock(b) \/ WritesLate(b)
  PROVE  Midway(c)'
<1>1. /\ Midway(c) /\ target(c) \in Vertices /\ deg[target(c)] \in 0 .. R
      /\ R \in Nat
  BY BlockType, RoomType DEF KernelInv, KernelTypeOK
<1>2. Midway(c)' <=> MidwayAt(c, pc[c], deg'[target(c)], nbr'[target(c)], currDeg[c], cands[c],
                              kept[c], unwritten[c], apart[c])
  BY DEF Midway, OthersStay
<1>3. CASE deg'[target(c)] = deg[target(c)] /\ nbr'[target(c)] = nbr[target(c)]
  BY <1>1, <1>2, <1>3 DEF Midway
<1>4. CASE WritesUnderLock(b) /\ target(c) = target(b)
  <2>1. pc[c] \notin UnderLock
    BY <1>4, AloneUnderLock DEF WritesUnderLock
  <2> QED BY <1>1, <1>2, <2>1 DEF Midway, MidwayAt, UnderLock
<1>5. CASE WritesLate(b) /\ target(c) = target(b)
  <2>1. PICK len \in 0 .. R : len = deg[target(c)]
    BY <1>1
  <2>2. deg'[target(c)] = len
    BY <1>5, <2>1 DEF WritesLate
  <2>3. ASSUME pc[c] = "count" PROVE nbr'[target(c)][len + 1] \in Vertices \ {target(c)}
    <3>1. len < R /\ nbr[target(c)][len + 1] \in Vertices \ {target(c)}
      BY <1>1, <2>1, <2>3 DEF Midway, MidwayAt
    <3>2. len + 1 \in 1 .. R
      BY <2>1, <3>1, RoomType
    <3> QED BY <1>5, <3>1, <3>2 DEF WritesLate
  <2> QED BY <1>1, <1>2, <2>1, <2>2, <2>3 DEF Midway, MidwayAt
<1> QED BY <1>1, <1>3, <1>4, <1>5 DEF WritesUnderLock, WritesLate

LEMMA OthersClean ==
  ASSUME KernelInv, NEW b \in Blocks, OthersStay(b), NEW c \in Blocks \ {b},
         UNCHANGED <<deg, nbr>> \/ WritesUnderLock(b) \/ WritesLate(b),
         ~CameApart(target(c))
  PROVE  Clean(c)'
<1>1. Clean(c) /\ target(c) \in Vertices
  BY BlockType DEF KernelInv
<1>2. Clean(c)' <=> CleanAt(c, pc[c], deg'[target(c)], nbr'[target(c)], cands[c],
                            kept[c], unwritten[c])
  BY DEF Clean, OthersStay
<1>3. CASE deg'[target(c)] = deg[target(c)] /\ nbr'[target(c)] = nbr[target(c)]
  BY <1>1, <1>2, <1>3 DEF Clean
<1>4. CASE WritesUnderLock(b) /\ target(c) = target(b)
  <2>1. pc[c] \notin UnderLock
    BY <1>4, AloneUnderLock DEF WritesUnderLock
  <2> QED BY <1>1, <1>2, <2>1 DEF Clean, CleanAt, UnderLock
<1>5. CASE WritesLate(b) /\ target(c) = target(b)
  BY <1>5 DEF WritesLate, CameApart
<1> QED BY <1>1, <1>3, <1>4, <1>5 DEF WritesUnderLock, WritesLate

LEMMA SameRewrites ==
  ASSUME KernelTypeOK, NEW b \in Blocks, OthersStay(b),
         NEW v, v # target(b) \/ (pc'[b] = "rewrite" <=> pc[b] = "rewrite")
  PROVE  AtRewrite(v)' <=> AtRewrite(v)
BY DEF AtRewrite, OthersStay

LEMMA SameApart ==
  ASSUME NEW b \in Blocks, OthersStay(b),
         NEW v, v # target(b) \/ apart'[b] = apart[b]
  PROVE  CameApart(v)' <=> CameApart(v)
BY DEF CameApart, OthersStay

(* What is left to show of a step of one block.                            *)
LEMMA BlockStep ==
  ASSUME KernelInv, NEW b \in Blocks, LockInv', KernelTypeOK', OthersStay(b),
         apart[b] => apart'[b],
         UNCHANGED <<deg, nbr>> \/ WritesUnderLock(b) \/ WritesLate(b),
         BlockTellsLock(b, pc'[b], lockPc'[b], lockOf'[b]),
         MidwayAt(b, pc'[b], deg'[target(b)], nbr'[target(b)], currDeg'[b], cands'[b],
                  kept'[b], unwritten'[b], apart'[b]),
         ~CameApart(target(b)) /\ ~apart'[b] =>
           CleanAt(b, pc'[b], deg'[target(b)], nbr'[target(b)], cands'[b], kept'[b], unwritten'[b]),
         NamesOthers(target(b), nbr'[target(b)], deg'[target(b)]),
         \/ UNCHANGED <<deg, nbr>> /\ (pc'[b] = "rewrite" <=> pc[b] = "rewrite")
         \/ ~CameApart(target(b)) /\ ~AtRewrite(target(b))' =>
              NamesOnce(nbr'[target(b)], deg'[target(b)])
  PROVE  KernelInv'
<1>1. PlaceTellsLock'
  <2>1. \A c \in Blocks : BlockTellsLock(c, pc[c], lockPc[c], lockOf[c])
    BY DEF KernelInv, PlaceTellsLock
  <2>2. \A c \in Blocks : BlockTellsLock(c, pc'[c], lockPc'[c], lockOf'[c])
    BY <2>1 DEF OthersStay
  <2> QED BY <2>2 DEF PlaceTellsLock
<1>2. \A v \in Vertices \ {target(b)} : deg'[v] = deg[v] /\ nbr'[v] = nbr[v]
  BY DEF WritesUnderLock, WritesLate
<1>3. ListsNamed'
  BY <1>2 DEF KernelInv, ListsNamed
<1>4. \A v : CameApart(v) => CameApart(v)'
  BY DEF CameApart, OthersStay
<1>5. ListsOnce'
  <2> SUFFICES ASSUME NEW v \in Vertices, ~CameApart(v)', ~AtRewrite(v)'
               PROVE  NamesOnce(nbr'[v], deg'[v])
    BY DEF ListsOnce
  <2>1. ~CameApart(v) /\ (~AtRewrite(v) => NamesOnce(nbr[v], deg[v]))
    BY <1>4 DEF KernelInv, ListsOnce
  <2>2. KernelTypeOK
    BY DEF KernelInv
  <2>3. CASE v # target(b)
    BY <1>2, <2>1, <2>2, <2>3, SameRewrites
  <2>4. CASE v = target(b)
    <3>1. CASE UNCHANGED <<deg, nbr>> /\ (pc'[b] = "rewrite" <=> pc[b] = "rewrite")
      BY <2>1, <2>2, <2>4, <3>1, SameRewrites
    <3> QED BY <2>1, <2>4, <3>1
  <2> QED BY <2>3, <2>4
<1>6. \A c \in Blocks : Midway(c)'
  <2>1. Midway(b)'
    BY DEF Midway
  <2> QED BY <2>1, OthersMidway
<1>7. \A c \in Blocks : ~CameApart(target(c))' => Clean(c)'
  <2>1. ~CameApart(target(b))' => Clean(b)'
    BY <1>4 DEF Clean, CameApart
  <2> QED BY <1>4, <2>1, OthersClean
<1> QED BY <1>1, <1>3, <1>5, <1>6, <1>7 DEF KernelInv

LEMMA LockStepsKeepLists ==
  ASSUME KernelInv, LockInv', NEW b \in Blocks, LockNext(b), UNCHANGED kernelVars
  PROVE  KernelInv'
<1>1. UNCHANGED <<deg, nbr, pc, currDeg, cands, kept, unwritten, apart>>
  BY DEF kernelVars, pruneVars
<1>2. /\ lockOf' = lockOf
      /\ \E to : /\ lockPc' = [lockPc EXCEPT ![b] = to]
                 /\ \/ lockPc[b] \in {"load", "take"} /\ to \in {"load", "take", "held"}
                    \/ lockPc[b] \in {"unload", "clear"} /\ to \in {"clear", "idle"}
  BY DEF LockNext, LoadToTake, SwapToTake, FailToTake, LoadToClear, SwapToClear, FailToClear,
     LockStep, AfterFailedClear
<1>3. BlockTellsLock(b, pc[b], lockPc[b], lockOf[b]) /\ pc[b] \in KernelPcs
  BY DEF KernelInv, KernelTypeOK, PlaceTellsLock
<1>4. lockPc \in [Blocks -> LockPcs]
  BY DEF KernelInv, LockInv, LockTypeOK
<1>5. BlockTellsLock(b, pc'[b], lockPc'[b], lockOf'[b])
  BY <1>1, <1>2, <1>3, <1>4 DEF BlockTellsLock, KernelPcs, UnderLock
<1>6. KernelTypeOK'
  BY <1>1 DEF KernelInv, KernelTypeOK
<1>7. OthersStay(b)
  BY <1>1, <1>2, <1>4 DEF OthersStay
<1>8. /\ Midway(b) /\ (~CameApart(target(b)) => Clean(b))
      /\ NamesOthers(target(b), nbr[target(b)], deg[target(b)])
  BY BlockType DEF KernelInv, ListsNamed
<1> QED BY <1>1, <1>5, <1>6, <1>7, <1>8, BlockStep DEF Midway, Clean

(* The source comes after the others in a list with room.                  *)
LEMMA SourceIsNew ==
  ASSUME NEW b \in Blocks, NEW list, NEW n \in Nat,
         NamesOnce(list, n), Missing(source(b), list, n), list[n + 1] = source(b)
  PROVE  NamesOnce(list, n + 1)
<1>1. \A i \in 1 .. n + 1 : i \in 1 .. n \/ i = n + 1
  OBVIOUS
<1> QED BY <1>1 DEF NamesOnce, Missing

LEMMA AlreadyMeans ==
  ASSUME KernelInv, NEW b \in Blocks
  PROVE  ~Already(b) <=> Missing(source(b), nbr[target(b)], deg[target(b)])
<1>1. target(b) \in Vertices /\ deg[target(b)] \in 0 .. R
  BY BlockType DEF KernelInv, KernelTypeOK
<1> QED BY <1>1 DEF Already, List, ToSet, Missing

LEMMA BeginKeepsLists ==
  ASSUME KernelInv, LockInv', NEW b \in Blocks, Begin(b)
  PROVE  KernelInv'
<1>1. /\ UNCHANGED <<deg, nbr, currDeg, cands, kept, unwritten, apart>> /\ pc[b] = "begin"
      /\ \/ /\ target(b) = source(b) /\ pc' = [pc EXCEPT ![b] = "end"]
            /\ lockPc' = lockPc /\ lockOf' = lockOf
         \/ /\ target(b) # source(b) /\ pc' = [pc EXCEPT ![b] = "look"]
            /\ lockPc' = [lockPc EXCEPT ![b] = "load"] /\ lockOf' = [lockOf EXCEPT ![b] = target(b)]
  BY DEF Begin, Goto, Acquire, LockStep, lockVars, pruneVars
<1>2. /\ pc \in [Blocks -> KernelPcs] /\ lockPc \in [Blocks -> LockPcs]
      /\ lockOf \in [Blocks -> Vertices] /\ target(b) \in Vertices
  BY BlockType DEF KernelInv, KernelTypeOK, LockInv, LockTypeOK
<1>3. lockOf[b] = target(b) /\ lockPc[b] = "idle"
  BY <1>1 DEF KernelInv, PlaceTellsLock, BlockTellsLock
<1>4. KernelTypeOK'
  BY <1>1 DEF KernelInv, KernelTypeOK, KernelPcs
<1>5. BlockTellsLock(b, pc'[b], lockPc'[b], lockOf'[b])
  BY <1>1, <1>2, <1>3 DEF BlockTellsLock, UnderLock
<1>6. OthersStay(b)
  BY <1>1, <1>2 DEF OthersStay
<1>7. /\ Midway(b) /\ NamesOthers(target(b), nbr[target(b)], deg[target(b)])
  BY BlockType DEF KernelInv, ListsNamed
<1>8. pc'[b] \in {"look", "end"} /\ (pc'[b] = "look" => source(b) # target(b))
  BY <1>1, <1>2
<1>9. unwritten[b] = {} /\ ~apart[b]
  BY <1>1, <1>7 DEF Midway, MidwayAt
<1>10. MidwayAt(b, pc'[b], deg[target(b)], nbr[target(b)], currDeg[b], cands[b],
                kept[b], unwritten[b], apart[b])
  BY <1>7, <1>8, <1>9 DEF Midway, MidwayAt, UnderLock
<1>11. CleanAt(b, pc'[b], deg[target(b)], nbr[target(b)], cands[b], kept[b], unwritten[b])
  BY <1>8, <1>9 DEF CleanAt
<1>12. pc'[b] # "rewrite" /\ pc[b] # "rewrite"
  BY <1>1, <1>8
<1> QED BY <1>1, <1>4, <1>5, <1>6, <1>7, <1>10, <1>11, <1>12, BlockStep

LEMMA LookKeepsLists ==
  ASSUME KernelInv, LockInv', NEW b \in Blocks, Look(b) \/ AlreadyLinked(b)
  PROVE  KernelInv'
<1>1. /\ UNCHANGED <<deg, nbr, cands, lockOf, kept, unwritten, apart>>
      /\ pc[b] = "look" /\ lockPc[b] = "held"
      /\ \/ /\ ~Already(b)
            /\ pc' = [pc EXCEPT ![b] = IF HasRoom(deg[target(b)]) THEN "append" ELSE "gather"]
            /\ currDeg' = [currDeg EXCEPT ![b] = deg[target(b)]] /\ lockPc' = lockPc
         \/ /\ pc' = [pc EXCEPT ![b] = "end"] /\ lockPc' = [lockPc EXCEPT ![b] = "unload"]
            /\ currDeg' = currDeg
  BY DEF Look, AlreadyLinked, Goto, Release, LockStep, lockVars, pruneVars
<1>2. /\ pc \in [Blocks -> KernelPcs] /\ lockPc \in [Blocks -> LockPcs]
      /\ currDeg \in [Blocks -> 0 .. R] /\ deg \in [Vertices -> 0 .. R]
      /\ target(b) \in Vertices /\ deg[target(b)] \in 0 .. R
  BY BlockType DEF KernelInv, KernelTypeOK, LockInv, LockTypeOK
<1>3. KernelTypeOK'
  BY <1>1, <1>2 DEF KernelInv, KernelTypeOK, KernelPcs
<1>4. BlockTellsLock(b, pc'[b], lockPc'[b], lockOf'[b])
  BY <1>1, <1>2 DEF BlockTellsLock, UnderLock, KernelInv, PlaceTellsLock
<1>5. OthersStay(b)
  BY <1>1, <1>2 DEF OthersStay
<1>6. Midway(b) /\ NamesOthers(target(b), nbr[target(b)], deg[target(b)])
  BY BlockType DEF KernelInv, ListsNamed
<1>7. source(b) # target(b) /\ unwritten[b] = {} /\ ~apart[b]
  BY <1>1, <1>6 DEF Midway, MidwayAt
<1>8. ~Already(b) => Missing(source(b), nbr[target(b)], deg[target(b)])
  BY AlreadyMeans
<1>9. ~HasRoom(deg[target(b)]) => deg[target(b)] = R
  BY <1>2, RoomType DEF HasRoom
<1>10. MidwayAt(b, pc'[b], deg[target(b)], nbr[target(b)], currDeg'[b], cands[b],
                kept[b], unwritten[b], apart[b])
  BY <1>1, <1>2, <1>6, <1>7, <1>9 DEF Midway, MidwayAt, UnderLock, HasRoom
<1>11. CleanAt(b, pc'[b], deg[target(b)], nbr[target(b)], cands[b], kept[b], unwritten[b])
  BY <1>1, <1>2, <1>7, <1>8, <1>9 DEF CleanAt
<1>12. pc'[b] # "rewrite" /\ pc[b] # "rewrite"
  BY <1>1, <1>2
<1> QED BY <1>1, <1>3, <1>4, <1>5, <1>6, <1>10, <1>11, <1>12, BlockStep

LEMMA AppendKeepsLists ==
  ASSUME KernelInv, LockInv', NEW b \in Blocks, AppendSource(b)
  PROVE  KernelInv'
<1>1. /\ UNCHANGED <<deg, currDeg, cands, lockPc, lockOf, kept, unwritten, apart>>
      /\ pc[b] = "append" /\ pc' = [pc EXCEPT ![b] = "count"]
      /\ nbr' = [nbr EXCEPT ![target(b)][currDeg[b] + 1] = source(b)]
  BY DEF AppendSource, Goto, lockVars, pruneVars
<1>2. /\ pc \in [Blocks -> KernelPcs] /\ deg \in [Vertices -> 0 .. R]
      /\ nbr \in [Vertices -> [1 .. R -> Vertices \cup {NoVertex}]]
      /\ target(b) \in Vertices /\ source(b) \in Vertices /\ deg[target(b)] \in 0 .. R
  BY BlockType DEF KernelInv, KernelTypeOK
<1>3. /\ Midway(b) /\ (~CameApart(target(b)) => Clean(b))
      /\ NamesOthers(target(b), nbr[target(b)], deg[target(b)])
  BY <1>2 DEF KernelInv, ListsNamed
<1>4. PICK len \in 0 .. R : len = deg[target(b)] /\ currDeg[b] = len /\ len < R
  BY <1>1, <1>2, <1>3 DEF Midway, MidwayAt
<1>5. PICK list \in [1 .. R -> Vertices \cup {NoVertex}] : list = nbr[target(b)]
  BY <1>2
<1>6. len + 1 \in 1 .. R
  BY <1>4, RoomType
<1>7. PICK more \in [1 .. R -> Vertices \cup {NoVertex}] :
        more = [list EXCEPT ![len + 1] = source(b)]
  BY <1>2, <1>5, <1>6
<1>8. nbr' = [nbr EXCEPT ![target(b)] = more]
  BY <1>1, <1>2, <1>4, <1>5, <1>7
<1>9. /\ nbr'[target(b)] = more /\ deg'[target(b)] = len /\ currDeg'[b] = len
      /\ pc'[b] = "count"
  BY <1>1, <1>2, <1>4, <1>8
<1>10. more[len + 1] = source(b) /\ \A i \in 1 .. len : more[i] = list[i]
  BY <1>4, <1>6, <1>7
<1>11. KernelTypeOK'
  BY <1>1, <1>2, <1>8 DEF KernelInv, KernelTypeOK, KernelPcs
<1>12. BlockTellsLock(b, pc'[b], lockPc'[b], lockOf'[b]) /\ lockPc[b] = "held"
  BY <1>1, <1>2 DEF BlockTellsLock, UnderLock, KernelInv, PlaceTellsLock
<1>13. MidwayAt(b, "count", len, more, len, cands[b], kept[b], unwritten[b], apart[b])
  BY <1>1, <1>2, <1>3, <1>4, <1>10 DEF Midway, MidwayAt, UnderLock
<1>14. ~CameApart(target(b)) => CleanAt(b, "count", len, more, cands[b], kept[b], unwritten[b])
  BY <1>1, <1>3, <1>4, <1>5, <1>10 DEF Clean, CleanAt, Missing
<1>15. NamesOthers(target(b), more, len)
  BY <1>3, <1>4, <1>5, <1>10 DEF NamesOthers
<1>16. ~CameApart(target(b)) /\ ~AtRewrite(target(b))' => NamesOnce(more, len)
  <2>1. AtRewrite(target(b)) => AtRewrite(target(b))'
    BY <1>1, <1>2 DEF AtRewrite
  <2> QED BY <1>2, <1>4, <1>5, <1>10, <2>1 DEF KernelInv, ListsOnce, NamesOnce
<1>17. OthersStay(b) /\ WritesUnderLock(b)
  BY <1>1, <1>2, <1>8, <1>12 DEF OthersStay, WritesUnderLock
<1> QED BY <1>1, <1>9, <1>11, <1>12, <1>13, <1>14, <1>15, <1>16, <1>17, BlockStep

LEMMA CountKeepsLists ==
  ASSUME KernelInv, LockInv', NEW b \in Blocks, CountSource(b)
  PROVE  KernelInv'
<1>1. /\ UNCHANGED <<nbr, currDeg, cands, lockOf, kept, unwritten, apart>> /\ pc[b] = "count"
      /\ pc' = [pc EXCEPT ![b] = "end"] /\ lockPc[b] = "held"
      /\ lockPc' = [lockPc EXCEPT ![b] = "unload"]
      /\ deg' = [deg EXCEPT ![target(b)] = currDeg[b] + 1]
  BY DEF CountSource, Goto, Release, LockStep, pruneVars
<1>2. /\ pc \in [Blocks -> KernelPcs] /\ lockPc \in [Blocks -> LockPcs]
      /\ deg \in [Vertices -> 0 .. R]
      /\ target(b) \in Vertices /\ deg[target(b)] \in 0 .. R
  BY BlockType DEF KernelInv, KernelTypeOK, LockInv, LockTypeOK
<1>3. /\ Midway(b) /\ (~CameApart(target(b)) => Clean(b))
      /\ NamesOthers(target(b), nbr[target(b)], deg[target(b)])
  BY <1>2 DEF KernelInv, ListsNamed
<1>4. PICK len \in 0 .. R : len = deg[target(b)] /\ currDeg[b] = len /\ len < R
  BY <1>1, <1>2, <1>3 DEF Midway, MidwayAt
<1>5. len + 1 \in 0 .. R /\ len \in Nat
  BY <1>4, RoomType
<1>6. deg' = [deg EXCEPT ![target(b)] = len + 1]
  BY <1>1, <1>4
<1>7. KernelTypeOK'
  BY <1>1, <1>2, <1>5, <1>6 DEF KernelInv, KernelTypeOK, KernelPcs
<1>8. BlockTellsLock(b, pc'[b], lockPc'[b], lockOf'[b])
  BY <1>1, <1>2 DEF BlockTellsLock, UnderLock, KernelInv, PlaceTellsLock
<1>9. unwritten[b] = {} /\ ~apart[b]
  BY <1>1, <1>3 DEF Midway, MidwayAt
<1>10. MidwayAt(b, "end", deg'[target(b)], nbr[target(b)], currDeg[b], cands[b],
                kept[b], unwritten[b], apart[b])
  BY <1>3, <1>9 DEF Midway, MidwayAt, UnderLock
<1>11. CleanAt(b, "end", deg'[target(b)], nbr[target(b)], cands[b], kept[b], unwritten[b])
  BY <1>9 DEF CleanAt
<1>12. nbr[target(b)][len + 1] \in Vertices \ {target(b)}
  BY <1>1, <1>3, <1>4 DEF Midway, MidwayAt
<1>13. NamesOthers(target(b), nbr[target(b)], len + 1)
  <2>1. \A i \in 1 .. len + 1 : i \in 1 .. len \/ i = len + 1
    BY <1>5
  <2> QED BY <1>3, <1>4, <1>12, <2>1 DEF NamesOthers
<1>14. ~CameApart(target(b)) => NamesOnce(nbr[target(b)], len + 1)
  <2> SUFFICES ASSUME ~CameApart(target(b)) PROVE NamesOnce(nbr[target(b)], len + 1)
    OBVIOUS
  <2>1. ~AtRewrite(target(b))
    BY <1>1, AloneUnderLock DEF AtRewrite, UnderLock
  <2>2. NamesOnce(nbr[target(b)], len)
    BY <1>2, <1>4, <2>1 DEF KernelInv, ListsOnce
  <2>3. /\ Missing(source(b), nbr[target(b)], len)
        /\ nbr[target(b)][len + 1] = source(b)
    BY <1>1, <1>3, <1>4 DEF Clean, CleanAt
  <2> QED BY <1>5, <2>2, <2>3, SourceIsNew
<1>15. OthersStay(b) /\ WritesUnderLock(b)
  BY <1>1, <1>2 DEF OthersStay, WritesUnderLock
<1>16. deg'[target(b)] = len + 1 /\ pc'[b] = "end"
  BY <1>1, <1>2, <1>6
<1> QED BY <1>1, <1>7, <1>8, <1>10, <1>11, <1>13, <1>14, <1>15, <1>16, BlockStep

LEMMA SeqOfMore ==
  ASSUME NEW S, NEW T, S \subseteq T, NEW list \in Seq(S)
  PROVE  list \in Seq(T)
<1>1. Len(list) \in Nat /\ list \in [1 .. Len(list) -> T]
  BY LenProperties
<1> QED BY <1>1, SeqDef

LEMMA GatherKeepsLists ==
  ASSUME KernelInv, LockInv', NEW b \in Blocks, Gather(b)
  PROVE  KernelInv'
<1>1. /\ UNCHANGED <<deg, nbr, currDeg, lockPc, lockOf, kept, unwritten, apart>>
      /\ pc[b] = "gather" /\ pc' = [pc EXCEPT ![b] = "prune"]
      /\ cands' = [cands EXCEPT ![b] = Append([i \in 1 .. R |-> nbr[target(b)][i]], source(b))]
  BY DEF Gather, Goto, lockVars, pruneVars
<1>2. /\ pc \in [Blocks -> KernelPcs]
      /\ nbr \in [Vertices -> [1 .. R -> Vertices \cup {NoVertex}]]
      /\ cands \in [Blocks -> Seq(Vertices \cup {NoVertex})]
      /\ target(b) \in Vertices /\ source(b) \in Vertices /\ R \in Nat
  BY BlockType, RoomType DEF KernelInv, KernelTypeOK
<1>3. PICK list \in [1 .. R -> Vertices \cup {NoVertex}] : list = nbr[target(b)]
  BY <1>2
<1>4. /\ Midway(b) /\ (~CameApart(target(b)) => Clean(b))
      /\ NamesOthers(target(b), list, deg[target(b)])
  BY <1>2, <1>3 DEF KernelInv, ListsNamed
<1>5. deg[target(b)] = R /\ source(b) # target(b) /\ unwritten[b] = {} /\ ~apart[b]
  BY <1>1, <1>4 DEF Midway, MidwayAt, UnderLock
<1>6. PICK all : all = Append(list, source(b))
  OBVIOUS
<1>7. list = [i \in 1 .. R |-> nbr[target(b)][i]]
  BY <1>3
<1>8. cands' = [cands EXCEPT ![b] = all]
  BY <1>1, <1>6, <1>7
<1>9. all \in Seq(Vertices \ {target(b)}) /\ Len(all) = R + 1
  <2>1. PICK Others : Others = Vertices \ {target(b)}
    OBVIOUS
  <2>2. list \in Seq(Others) /\ Len(list) = R
    <3>1. list \in [1 .. R -> Others]
      BY <1>3, <1>4, <1>5, <2>1 DEF NamesOthers
    <3> QED BY <1>2, <3>1, SeqDef, LenProperties
  <2>3. source(b) \in Others
    BY <1>2, <1>5, <2>1
  <2>4. all \in Seq(Others) /\ Len(all) = R + 1
    BY <1>6, <2>2, <2>3, AppendProperties
  <2> QED BY <2>1, <2>4
<1>10. all \in Seq(Vertices \cup {NoVertex})
  BY <1>9, SeqOfMore, Vertices \ {target(b)} \subseteq Vertices \cup {NoVertex}
<1>11. KernelTypeOK'
  BY <1>1, <1>2, <1>8, <1>10 DEF KernelInv, KernelTypeOK, KernelPcs
<1>12. BlockTellsLock(b, pc'[b], lockPc'[b], lockOf'[b])
  BY <1>1, <1>2 DEF BlockTellsLock, UnderLock, KernelInv, PlaceTellsLock
<1>13. OthersStay(b) /\ pc'[b] = "prune" /\ cands'[b] = all
  BY <1>1, <1>2, <1>8 DEF OthersStay
<1>14. MidwayAt(b, "prune", deg[target(b)], nbr[target(b)], currDeg[b], all,
                kept[b], unwritten[b], apart[b])
  BY <1>4, <1>5, <1>9 DEF Midway, MidwayAt, UnderLock
<1>15. ~CameApart(target(b)) =>
         CleanAt(b, "prune", deg[target(b)], nbr[target(b)], all, kept[b], unwritten[b])
  <2> SUFFICES ASSUME ~CameApart(target(b)) PROVE Overflow(b, all, list)
    BY <1>3 DEF CleanAt
  <2>1. Missing(source(b), list, R)
    BY <1>1, <1>3, <1>4 DEF Clean, CleanAt
  <2>2. NamesOnce(list, R)
    <3>1. ~AtRewrite(target(b))
      BY <1>1, AloneUnderLock
      DEF AtRewrite, UnderLock, KernelInv, PlaceTellsLock, BlockTellsLock
    <3> QED BY <1>2, <1>3, <1>5, <3>1 DEF KernelInv, ListsOnce
  <2> QED BY <1>3, <1>4, <1>5, <1>6, <2>1, <2>2 DEF Overflow
<1> QED BY <1>1, <1>3, <1>4, <1>11, <1>12, <1>13, <1>14, <1>15, BlockStep

(* What warps that stay together keep of an overflow fits the list and     *)
(* names other vertices, each once.                                        *)
LEMMA SurvivorsSound ==
  ASSUME NEW b \in Blocks, source(b) # target(b),
         NEW all \in Seq(Vertices \ {target(b)})
  PROVE  LET list == Pruned(target(b), all)
         IN  /\ list \in Seq(Vertices \ {target(b)}) /\ Len(list) \in 0 .. R
             /\ NamesOnce(list, Len(list))
<1>1. PICK Others : Others = Vertices \ {target(b)}
  OBVIOUS
<1>2. target(b) \in Vertices /\ all \in Seq(Others) /\ R \in Nat
  BY <1>1, BlockType, RoomType
<1>3. Measured(target(b), all)
  BY <1>1, <1>2, DistAssumption, ElementOfSeq, LenProperties DEF DistAssumption, Measured
<1>4. \A c \in Others : Dist(c, c) = 0
  BY <1>1, DistAssumption DEF DistAssumption
<1>5. Pruned(target(b), all) \in Seq(Others) /\ Len(Pruned(target(b), all)) <= R
  BY <1>2, <1>3, PrunedIsAlphaRNG
<1>6. IsInjective(Pruned(target(b), all))
  BY <1>2, <1>3, <1>4, PrunedNamesOnce
<1> QED BY <1>1, <1>2, <1>5, <1>6, LenProperties DEF IsInjective, NamesOnce

(* Whatever the warps do, what they keep is among the candidates.          *)
LEMMA SelectionsFit ==
  ASSUME KernelInv, NEW b \in Blocks, pc[b] = "prune", NEW drift, NEW list \in Selections(b, drift)
  PROVE  list \in Seq(Vertices \ {target(b)}) /\ Len(list) \in 0 .. R
<1>1. /\ source(b) # target(b) /\ cands[b] \in Seq(Vertices \ {target(b)})
      /\ R \in Nat
  BY RoomType DEF KernelInv, Midway, MidwayAt, UnderLock
<1>2. CASE drift
  <2>1. list \in SeqOf(ToSet(cands[b]), R)
    BY <1>2 DEF Selections
  <2>2. PICK m \in 0 .. R : list \in [1 .. m -> ToSet(cands[b])]
    BY <1>1, <2>1 DEF SeqOf
  <2>3. ToSet(cands[b]) \subseteq Vertices \ {target(b)}
    BY <1>1, ElementOfSeq, LenProperties DEF ToSet
  <2>4. m \in Nat /\ list \in [1 .. m -> Vertices \ {target(b)}]
    BY <1>1, <2>2, <2>3
  <2> QED BY <2>4, SeqDef, LenProperties
<1>3. CASE ~drift
  <2>1. list = Pruned(target(b), cands[b])
    BY <1>3 DEF Selections, Survivors
  <2> QED BY <1>1, <2>1, SurvivorsSound
<1> QED BY <1>2, <1>3

LEMMA PruneKeepsLists ==
  ASSUME KernelInv, LockInv', NEW b \in Blocks, Prune(b)
  PROVE  KernelInv'
<1>1. /\ UNCHANGED <<deg, nbr, currDeg, cands, lockPc, lockOf>>
      /\ pc[b] = "prune" /\ pc' = [pc EXCEPT ![b] = "shrink"]
  BY DEF Prune, Goto, lockVars
<1>2. PICK drift \in BOOLEAN :
        /\ apart' = [apart EXCEPT ![b] = drift]
        /\ \E list \in Selections(b, drift) :
             /\ kept' = [kept EXCEPT ![b] = list]
             /\ \E passed \in SUBSET PassedOver(list, drift) :
                  unwritten' = [unwritten EXCEPT ![b] = 1 .. Len(list) \ passed]
  BY DEF Prune
<1>3. PICK list \in Selections(b, drift) :
        /\ kept' = [kept EXCEPT ![b] = list]
        /\ \E passed \in SUBSET PassedOver(list, drift) :
             unwritten' = [unwritten EXCEPT ![b] = 1 .. Len(list) \ passed]
  BY <1>2
<1>4. PICK passed \in SUBSET PassedOver(list, drift) :
         unwritten' = [unwritten EXCEPT ![b] = 1 .. Len(list) \ passed]
  BY <1>3
<1>5. /\ pc \in [Blocks -> KernelPcs] /\ kept \in [Blocks -> Seq(Vertices \cup {NoVertex})]
      /\ unwritten \in [Blocks -> SUBSET (1 .. R)] /\ apart \in [Blocks -> BOOLEAN]
      /\ target(b) \in Vertices /\ R \in Nat
  BY BlockType, RoomType DEF KernelInv, KernelTypeOK
<1>6. /\ Midway(b) /\ (~CameApart(target(b)) => Clean(b))
      /\ NamesOthers(target(b), nbr[target(b)], deg[target(b)])
  BY <1>5 DEF KernelInv, ListsNamed
<1>7. list \in Seq(Vertices \ {target(b)}) /\ Len(list) \in 0 .. R
  BY <1>1, <1>3, SelectionsFit
<1>8. list \in Seq(Vertices \cup {NoVertex}) /\ 1 .. Len(list) \ passed \in SUBSET (1 .. R)
  <2>1. list \in Seq(Vertices \cup {NoVertex})
    BY <1>7, SeqOfMore, Vertices \ {target(b)} \subseteq Vertices \cup {NoVertex}
  <2>2. \A i \in 1 .. Len(list) : i \in 1 .. R
    BY <1>5, <1>7
  <2> QED BY <2>1, <2>2
<1>9. KernelTypeOK'
  BY <1>1, <1>2, <1>3, <1>4, <1>5, <1>8 DEF KernelInv, KernelTypeOK, KernelPcs
<1>10. BlockTellsLock(b, pc'[b], lockPc'[b], lockOf'[b])
  BY <1>1, <1>5 DEF BlockTellsLock, UnderLock, KernelInv, PlaceTellsLock
<1>11. /\ OthersStay(b) /\ pc'[b] = "shrink" /\ kept'[b] = list
      /\ unwritten'[b] = 1 .. Len(list) \ passed /\ apart'[b] = drift
  BY <1>1, <1>2, <1>3, <1>4, <1>5 DEF OthersStay
<1>12. MidwayAt(b, "shrink", deg[target(b)], nbr[target(b)], currDeg[b], cands[b],
                list, 1 .. Len(list) \ passed, drift)
  BY <1>1, <1>6, <1>7 DEF Midway, MidwayAt, UnderLock
<1>13. ~CameApart(target(b)) /\ ~drift =>
         CleanAt(b, "shrink", deg[target(b)], nbr[target(b)], cands[b], list, 1 .. Len(list) \ passed)
  <2> SUFFICES ASSUME ~CameApart(target(b)), ~drift
               PROVE  CleanAt(b, "shrink", deg[target(b)], nbr[target(b)], cands[b], list,
                              1 .. Len(list) \ passed)
    OBVIOUS
  <2>1. list = Pruned(target(b), cands[b]) /\ passed = {}
    BY <1>3, <1>4 DEF Selections, Survivors, PassedOver
  <2>2. Overflow(b, cands[b], nbr[target(b)])
    BY <1>1, <1>6 DEF Clean, CleanAt
  <2>3. 1 .. Len(list) \ passed = 1 .. Len(list)
    BY <2>1
  <2> QED BY <2>1, <2>2, <2>3 DEF CleanAt
<1>14. apart[b] => apart'[b]
  BY <1>1, <1>6 DEF Midway, MidwayAt
<1> QED BY <1>1, <1>6, <1>9, <1>10, <1>11, <1>12, <1>13, <1>14, BlockStep

LEMMA ShrinkKeepsLists ==
  ASSUME KernelInv, LockInv', NEW b \in Blocks, Shrink(b)
  PROVE  KernelInv'
<1>1. /\ UNCHANGED <<nbr, currDeg, cands, lockPc, lockOf, kept, unwritten, apart>>
      /\ pc[b] = "shrink" /\ pc' = [pc EXCEPT ![b] = "rewrite"]
      /\ deg' = [deg EXCEPT ![target(b)] = Len(kept[b])]
  BY DEF Shrink, Goto, lockVars, pruneVars
<1>2. /\ pc \in [Blocks -> KernelPcs] /\ deg \in [Vertices -> 0 .. R]
      /\ nbr \in [Vertices -> [1 .. R -> Vertices \cup {NoVertex}]]
      /\ target(b) \in Vertices
  BY BlockType DEF KernelInv, KernelTypeOK
<1>3. /\ Midway(b) /\ (~CameApart(target(b)) => Clean(b))
      /\ NamesOthers(target(b), nbr[target(b)], deg[target(b)])
  BY <1>2 DEF KernelInv, ListsNamed
<1>4. PICK n \in 0 .. R : n = Len(kept[b])
  BY <1>3 DEF Midway, MidwayAt
<1>5. deg' = [deg EXCEPT ![target(b)] = n] /\ deg[target(b)] = R
  BY <1>1, <1>3, <1>4 DEF Midway, MidwayAt
<1>6. KernelTypeOK'
  BY <1>1, <1>2, <1>5 DEF KernelInv, KernelTypeOK, KernelPcs
<1>7. BlockTellsLock(b, pc'[b], lockPc'[b], lockOf'[b]) /\ lockPc[b] = "held"
  BY <1>1, <1>2 DEF BlockTellsLock, UnderLock, KernelInv, PlaceTellsLock
<1>8. OthersStay(b) /\ WritesUnderLock(b) /\ pc'[b] = "rewrite" /\ deg'[target(b)] = n
  BY <1>1, <1>2, <1>5, <1>7 DEF OthersStay, WritesUnderLock
<1>9. MidwayAt(b, "rewrite", n, nbr[target(b)], currDeg[b], cands[b],
               kept[b], unwritten[b], apart[b])
  BY <1>1, <1>3, <1>4 DEF Midway, MidwayAt, UnderLock
<1>10. ~CameApart(target(b)) =>
         CleanAt(b, "rewrite", n, nbr[target(b)], cands[b], kept[b], unwritten[b])
  <2> SUFFICES ASSUME ~CameApart(target(b))
               PROVE  CleanAt(b, "rewrite", n, nbr[target(b)], cands[b], kept[b], unwritten[b])
    OBVIOUS
  <2>1. /\ Overflow(b, cands[b], nbr[target(b)]) /\ kept[b] = Pruned(target(b), cands[b])
        /\ unwritten[b] = 1 .. Len(kept[b])
    BY <1>1, <1>3 DEF Clean, CleanAt
  <2> QED BY <1>2, <2>1 DEF CleanAt
<1>11. NamesOthers(target(b), nbr[target(b)], n)
  <2>1. \A i \in 1 .. n : i \in 1 .. R
    BY RoomType
  <2> QED BY <1>3, <1>5, <2>1 DEF NamesOthers
<1>12. AtRewrite(target(b))'
  BY <1>8 DEF AtRewrite
<1> QED BY <1>1, <1>6, <1>7, <1>8, <1>9, <1>10, <1>11, <1>12, BlockStep

LEMMA WriteEntryKeepsLists ==
  ASSUME KernelInv, LockInv', NEW b \in Blocks, NEW k \in 1 .. R, WriteEntry(b, k)
  PROVE  KernelInv'
<1>1. /\ UNCHANGED <<deg, pc, currDeg, cands, lockPc, lockOf, kept, apart>>
      /\ pc[b] = "rewrite" \/ (apart[b] /\ pc[b] \in {"shrink", "end"})
      /\ k \in unwritten[b] /\ unwritten' = [unwritten EXCEPT ![b] = unwritten[b] \ {k}]
      /\ nbr' = [nbr EXCEPT ![target(b)][k] = kept[b][k]]
  BY DEF WriteEntry, MayWrite, lockVars
<1>2. /\ pc \in [Blocks -> KernelPcs] /\ deg \in [Vertices -> 0 .. R]
      /\ nbr \in [Vertices -> [1 .. R -> Vertices \cup {NoVertex}]]
      /\ unwritten \in [Blocks -> SUBSET (1 .. R)] /\ target(b) \in Vertices
  BY BlockType DEF KernelInv, KernelTypeOK
<1>3. /\ Midway(b) /\ (~CameApart(target(b)) => Clean(b))
      /\ NamesOthers(target(b), nbr[target(b)], deg[target(b)])
  BY <1>2 DEF KernelInv, ListsNamed
<1>4. kept[b][k] \in Vertices \ {target(b)}
  <2>1. kept[b] \in Seq(Vertices \ {target(b)}) /\ k \in 1 .. Len(kept[b])
    BY <1>1, <1>3 DEF Midway, MidwayAt
  <2> QED BY <2>1, ElementOfSeq
<1>5. PICK list \in [1 .. R -> Vertices \cup {NoVertex}] : list = nbr[target(b)]
  BY <1>2
<1>6. PICK more \in [1 .. R -> Vertices \cup {NoVertex}] : more = [list EXCEPT ![k] = kept[b][k]]
  BY <1>4, <1>5
<1>7. nbr' = [nbr EXCEPT ![target(b)] = more] /\ nbr'[target(b)] = more
  BY <1>1, <1>2, <1>5, <1>6
<1>8. more[k] = kept[b][k] /\ \A i \in (1 .. R) \ {k} : more[i] = list[i]
  BY <1>6
<1>9. KernelTypeOK'
  <2>1. unwritten' \in [Blocks -> SUBSET (1 .. R)]
    BY <1>1, <1>2
  <2>2. nbr' \in [Vertices -> [1 .. R -> Vertices \cup {NoVertex}]]
    BY <1>2, <1>7
  <2> QED BY <1>1, <2>1, <2>2 DEF KernelInv, KernelTypeOK
<1>10. BlockTellsLock(b, pc'[b], lockPc'[b], lockOf'[b])
  BY <1>1 DEF KernelInv, PlaceTellsLock
<1>11. OthersStay(b) /\ unwritten'[b] = unwritten[b] \ {k}
  BY <1>1, <1>2 DEF OthersStay
<1>12. WritesUnderLock(b) \/ WritesLate(b)
  <2>1. \A v \in Vertices \ {target(b)} : nbr'[v] = nbr[v]
    BY <1>2, <1>7
  <2>2. CASE pc[b] = "rewrite"
    <3>1. lockPc[b] = "held"
      BY <2>2 DEF KernelInv, PlaceTellsLock, BlockTellsLock, UnderLock
    <3> QED BY <1>1, <2>1, <3>1 DEF WritesUnderLock
  <2>3. CASE apart[b]
    <3>1. \A i \in 1 .. R : \/ nbr'[target(b)][i] = nbr[target(b)][i]
                            \/ nbr'[target(b)][i] \in Vertices \ {target(b)}
      BY <1>4, <1>5, <1>7, <1>8
    <3> QED BY <1>1, <2>1, <2>3, <3>1 DEF WritesLate
  <2> QED BY <1>1, <2>2, <2>3
<1>13. MidwayAt(b, pc[b], deg[target(b)], more, currDeg[b], cands[b],
                kept[b], unwritten[b] \ {k}, apart[b])
  BY <1>1, <1>3 DEF Midway, MidwayAt
<1>14. ~CameApart(target(b)) =>
         /\ pc[b] = "rewrite"
         /\ CleanAt(b, pc[b], deg[target(b)], more, cands[b], kept[b], unwritten[b] \ {k})
  <2> SUFFICES ASSUME ~CameApart(target(b))
               PROVE  /\ pc[b] = "rewrite"
                      /\ CleanAt(b, pc[b], deg[target(b)], more, cands[b], kept[b],
                                 unwritten[b] \ {k})
    OBVIOUS
  <2>1. pc[b] = "rewrite"
    BY <1>1 DEF CameApart
  <2>2. PICK left : left = unwritten[b]
    OBVIOUS
  <2>3. \A i \in (1 .. Len(kept[b])) \ left : list[i] = kept[b][i]
    BY <1>3, <1>5, <2>1, <2>2 DEF Clean, CleanAt
  <2>4. \A i \in 1 .. Len(kept[b]) : i \in 1 .. R
    BY <1>3, RoomType DEF Midway, MidwayAt
  <2>5. \A i \in (1 .. Len(kept[b])) \ (left \ {k}) : more[i] = kept[b][i]
    BY <1>8, <2>3, <2>4
  <2> QED BY <1>3, <2>1, <2>2, <2>5 DEF Clean, CleanAt
<1>15. NamesOthers(target(b), more, deg[target(b)])
  <2>1. \A i \in 1 .. deg[target(b)] : i \in 1 .. R
    BY <1>2, RoomType
  <2> QED BY <1>3, <1>4, <1>5, <1>8, <2>1 DEF NamesOthers
<1>16. ~CameApart(target(b)) => AtRewrite(target(b))'
  BY <1>1, <1>14 DEF AtRewrite
<1> QED BY <1>1, <1>7, <1>9, <1>10, <1>11, <1>12, <1>13, <1>14, <1>15, <1>16, BlockStep

LEMMA FinishKeepsLists ==
  ASSUME KernelInv, LockInv', NEW b \in Blocks, Finish(b)
  PROVE  KernelInv'
<1>1. /\ UNCHANGED <<deg, nbr, currDeg, cands, lockOf, kept, unwritten, apart>>
      /\ pc[b] = "rewrite" /\ pc' = [pc EXCEPT ![b] = "end"] /\ lockPc[b] = "held"
      /\ lockPc' = [lockPc EXCEPT ![b] = "unload"]
      /\ unwritten[b] = {} \/ apart[b]
  BY DEF Finish, Goto, Release, LockStep, pruneVars, LeftToLaggards
<1>2. /\ pc \in [Blocks -> KernelPcs] /\ lockPc \in [Blocks -> LockPcs]
      /\ target(b) \in Vertices
  BY BlockType DEF KernelInv, KernelTypeOK, LockInv, LockTypeOK
<1>3. /\ Midway(b) /\ (~CameApart(target(b)) => Clean(b))
      /\ NamesOthers(target(b), nbr[target(b)], deg[target(b)])
  BY <1>2 DEF KernelInv, ListsNamed
<1>4. KernelTypeOK'
  BY <1>1, <1>2 DEF KernelInv, KernelTypeOK, KernelPcs
<1>5. BlockTellsLock(b, pc'[b], lockPc'[b], lockOf'[b])
  BY <1>1, <1>2 DEF BlockTellsLock, UnderLock, KernelInv, PlaceTellsLock
<1>6. OthersStay(b) /\ WritesUnderLock(b) /\ pc'[b] = "end"
  BY <1>1, <1>2 DEF OthersStay, WritesUnderLock
<1>7. MidwayAt(b, "end", deg[target(b)], nbr[target(b)], currDeg[b], cands[b],
               kept[b], unwritten[b], apart[b])
  BY <1>1, <1>3 DEF Midway, MidwayAt, UnderLock
<1>8. ~CameApart(target(b)) => unwritten[b] = {}
  BY <1>1 DEF CameApart
<1>9. ~CameApart(target(b)) =>
        CleanAt(b, "end", deg[target(b)], nbr[target(b)], cands[b], kept[b], unwritten[b])
  BY <1>8 DEF CleanAt
<1>10. ~CameApart(target(b)) => NamesOnce(nbr[target(b)], deg[target(b)])
  <2> SUFFICES ASSUME ~CameApart(target(b)) PROVE NamesOnce(nbr[target(b)], deg[target(b)])
    OBVIOUS
  <2>1. /\ kept[b] = Pruned(target(b), cands[b])
        /\ \A k \in 1 .. Len(kept[b]) : nbr[target(b)][k] = kept[b][k]
    BY <1>1, <1>3, <1>8 DEF Clean, CleanAt
  <2>2. /\ source(b) # target(b) /\ cands[b] \in Seq(Vertices \ {target(b)})
        /\ deg[target(b)] = Len(kept[b])
    BY <1>1, <1>3 DEF Midway, MidwayAt, UnderLock
  <2>3. NamesOnce(kept[b], Len(kept[b]))
    BY <2>1, <2>2, SurvivorsSound
  <2> QED BY <2>1, <2>2, <2>3 DEF NamesOnce
<1> QED BY <1>1, <1>3, <1>4, <1>5, <1>6, <1>7, <1>9, <1>10, BlockStep

LEMMA KernelStep == KernelInv /\ [Next]_vars => KernelInv'
<1> SUFFICES ASSUME KernelInv, [Next]_vars PROVE KernelInv'
  OBVIOUS
<1>1. LockInv'
  BY ClientKeepsLocks, KernelUsesLocks DEF KernelInv
<1>2. ASSUME UNCHANGED vars PROVE KernelInv'
  <2>1. UNCHANGED <<deg, nbr, pc, currDeg, cands, kept, unwritten, apart, lockPc, lockOf>>
    BY <1>2 DEF vars, kernelVars, lockVars, pruneVars
  <2>2. KernelTypeOK'
    BY <2>1 DEF KernelInv, KernelTypeOK
  <2>3. PlaceTellsLock' /\ ListsNamed' /\ ListsOnce'
    BY <2>1 DEF KernelInv, PlaceTellsLock, ListsNamed, ListsOnce, CameApart, AtRewrite
  <2>4. \A b \in Blocks : Midway(b)'
    BY <2>1 DEF KernelInv, Midway
  <2>5. \A b \in Blocks : ~CameApart(target(b))' => Clean(b)'
    BY <2>1 DEF KernelInv, Clean, CameApart
  <2> QED BY <1>1, <2>2, <2>3, <2>4, <2>5 DEF KernelInv
<1>3. ASSUME NEW b \in Blocks, BlockNext(b) PROVE KernelInv'
  <2>1. CASE LockNext(b) /\ UNCHANGED kernelVars
    BY <1>1, <2>1, LockStepsKeepLists
  <2>2. CASE Begin(b) \/ Look(b) \/ AlreadyLinked(b)
    BY <1>1, <2>2, BeginKeepsLists, LookKeepsLists
  <2>3. CASE AppendSource(b) \/ CountSource(b)
    BY <1>1, <2>3, AppendKeepsLists, CountKeepsLists
  <2>4. CASE Gather(b) \/ Prune(b) \/ Shrink(b) \/ Finish(b)
    BY <1>1, <2>4, GatherKeepsLists, PruneKeepsLists, ShrinkKeepsLists, FinishKeepsLists
  <2>5. CASE \E k \in 1 .. R : WriteEntry(b, k)
    BY <1>1, <2>5, WriteEntryKeepsLists
  <2> QED BY <1>3, <2>1, <2>2, <2>3, <2>4, <2>5 DEF BlockNext
<1> QED BY <1>2, <1>3 DEF Next, KernelOver

LEMMA KernelInvariant == Spec => []KernelInv
<1>1. Init => KernelInv
  BY KernelInitially
<1> QED BY <1>1, KernelStep, PTL DEF Spec

(* Every variable of the locks and the kernel has its type, whatever the   *)
(* warps do: no length passes R and no entry is written past it            *)
(* (fda_insert.cu:259-388).                                                *)
THEOREM KernelTyped == Spec => []TypeOK
<1>1. KernelInv => TypeOK
  BY DEF KernelInv, KernelTypeOK, LockInv, TypeOK
<1> QED BY <1>1, KernelInvariant, PTL

(* A list names other vertices only, even while warps that came apart      *)
(* write it late; where none did, a list whose lock is free names each     *)
(* once, although its length and its entries are written apart             *)
(* (fda_insert.cu:354-387).                                                *)
THEOREM FreeListsSound == Spec => []ListsSound
<1>1. KernelInv => ListsSound
  <2> SUFFICES ASSUME KernelInv, NEW v \in Vertices
               PROVE  /\ ToSet(List(v)) \subseteq Vertices \ {v}
                      /\ d_locks[v] = Unlocked /\ ~CameApart(v) => IsInjective(List(v))
    BY DEF ListsSound
  <2>1. NamesOthers(v, nbr[v], deg[v])
    BY DEF KernelInv, ListsNamed
  <2>2. ASSUME d_locks[v] = Unlocked, ~CameApart(v) PROVE NamesOnce(nbr[v], deg[v])
    <3>1. ~AtRewrite(v)
      <4>1. ASSUME NEW b \in Blocks, target(b) = v, pc[b] = "rewrite" PROVE FALSE
        <5>1. lockOf[b] = v /\ lockPc[b] = "held"
          BY <4>1 DEF KernelInv, PlaceTellsLock, BlockTellsLock, UnderLock
        <5> QED BY <2>2, <5>1 DEF KernelInv, LockInv, BytesTellHolders, Holds, Locked, Unlocked
      <4> QED BY <4>1 DEF AtRewrite
    <3> QED BY <2>2, <3>1 DEF KernelInv, ListsOnce
  <2> QED BY <2>1, <2>2 DEF NamesOthers, NamesOnce, List, ToSet, IsInjective
<1> QED BY <1>1, KernelInvariant, PTL

-----------------------------------------------------------------------------
(* The kernel implements BackEdges.                                        *)

LEMMA SamePruned == \A anchor, cs : Links!Pruned(anchor, cs) = Pruned(anchor, cs)
BY DEF Links!Pruned, Pruned, Links!ByDistance, ByDistance, Links!Place, Place, Links!Precedes,
       Precedes, Links!Select, Select, Links!Covers, Covers, Links!Dist, Dist,
       Links!Cardinality, Cardinality

(* A list as the blocks that are through left it: what there is, or what   *)
(* there was before the block that is rewriting it.                        *)
ListOf(len, list) == [i \in 1 .. len |-> list[i]]

CommittedIs ==
  \A v \in Vertices :
    /\ ~AtRewrite(v) => Committed(v) = ListOf(deg[v], nbr[v])
    /\ \A b \in Blocks : target(b) = v /\ pc[b] = "rewrite" => Committed(v) = Front(cands[b])

LEMMA CommittedFromLists == KernelInv => CommittedIs
<1> SUFFICES ASSUME KernelInv, NEW v \in Vertices
             PROVE  /\ ~AtRewrite(v) => Committed(v) = ListOf(deg[v], nbr[v])
                    /\ \A b \in Blocks : target(b) = v /\ pc[b] = "rewrite"
                                           => Committed(v) = Front(cands[b])
  BY DEF CommittedIs
<1>1. ~AtRewrite(v) => Committed(v) = ListOf(deg[v], nbr[v])
  BY DEF AtRewrite, Committed, List, ListOf
<1>2. ASSUME NEW b \in Blocks, target(b) = v, pc[b] = "rewrite"
      PROVE  Committed(v) = Front(cands[b])
  <2>1. \A c \in Blocks : target(c) = v /\ pc[c] = "rewrite" => c = b
    BY <1>2, AloneUnderLock DEF KernelInv, PlaceTellsLock, BlockTellsLock, UnderLock
  <2>2. b = CHOOSE c \in Blocks : target(c) = v /\ pc[c] = "rewrite"
    BY <1>2, <2>1
  <2> QED BY <1>2, <2>2 DEF Committed
<1> QED BY <1>1, <1>2

Together == {v \in Vertices : ~CameApart(v)}
Graph == [v \in Together |-> Committed(v)]
ToDo == {b \in Blocks : pc[b] # "end"}

(* The abstract step for a pair whose target had this list.                *)
Linking(b, list) ==
  IF source(b) = target(b) \/ source(b) \in ToSet(list)
  THEN list
  ELSE IF Len(list) < R THEN Append(list, source(b))
       ELSE Pruned(target(b), Append(list, source(b)))

(* The last step of a block links its pair, every other links none.        *)
LEMMA EndLinks ==
  ASSUME KernelTypeOK, NEW b \in Blocks, OthersStay(b), apart'[b] = apart[b],
         pc[b] # "end", pc' = [pc EXCEPT ![b] = "end"],
         \A v \in Together \ {target(b)} : Committed(v)' = Committed(v),
         target(b) \in Together => Committed(target(b))' = Linking(b, Committed(target(b)))
  PROVE  Links!Next
<1>1. target(b) \in Vertices /\ b = <<target(b), source(b)>> /\ pc \in [Blocks -> KernelPcs]
  BY BlockType DEF KernelTypeOK
<1>2. Together' = Together
  BY SameApart DEF Together
<1>3. PICK before : before = Graph
  OBVIOUS
<1>4. DOMAIN before = Together /\ \A v \in Together : before[v] = Committed(v)
  BY <1>3 DEF Graph
<1>5. Graph' = [v \in DOMAIN before |->
                  IF v = target(b) THEN Links!Linked(target(b), source(b)) ELSE before[v]]
  <2>1. target(b) \in Together => Links!Linked(target(b), source(b)) = Linking(b, before[target(b)])
    <3>1. \A S : Links!ToSet(S) = ToSet(S)
      BY DEF Links!ToSet, ToSet
    <3> QED BY <1>3, <3>1, SamePruned DEF Links!Linked, Linking, Graph, Together
  <2>2. Graph' = [v \in Together |-> Committed(v)']
    BY <1>2 DEF Graph
  <2> QED BY <1>4, <2>1, <2>2
<1>6. {c \in Blocks : pc'[c] # "end"} = {c \in Blocks : pc[c] # "end"} \ {<<target(b), source(b)>>}
  BY <1>1
<1>7. Links!Link(target(b), source(b))
  BY <1>1, <1>3, <1>5, <1>6 DEF Links!Link, Graph, Together
<1>8. b[1] = target(b) /\ b[2] = source(b)
  BY DEF target, source
<1> QED BY <1>1, <1>7, <1>8 DEF Links!Next

LEMMA NothingLinked ==
  ASSUME NEW b \in Blocks, OthersStay(b), apart'[b] = apart[b],
         pc'[b] = "end" <=> pc[b] = "end",
         \A v \in Together : Committed(v)' = Committed(v)
  PROVE  UNCHANGED <<Graph, ToDo>>
<1>1. Together' = Together
  BY SameApart DEF Together
<1>2. \A c \in Blocks : pc'[c] = "end" <=> pc[c] = "end"
  BY DEF OthersStay
<1> QED BY <1>1, <1>2 DEF Graph, ToDo

(* The list of a vertex no block has touched, or not yet.                  *)
LEMMA OthersCommitted ==
  ASSUME KernelTypeOK, CommittedIs, CommittedIs', NEW b \in Blocks, OthersStay(b),
         NEW v \in Vertices, deg'[v] = deg[v], nbr'[v] = nbr[v],
         v # target(b) \/ (pc[b] # "rewrite" /\ pc'[b] # "rewrite")
  PROVE  Committed(v)' = Committed(v)
<1>1. AtRewrite(v)' <=> AtRewrite(v)
  BY SameRewrites
<1>2. CASE ~AtRewrite(v)
  BY <1>1, <1>2 DEF CommittedIs
<1>3. CASE AtRewrite(v)
  <2>1. PICK c \in Blocks : target(c) = v /\ pc[c] = "rewrite"
    BY <1>3 DEF AtRewrite
  <2>2. c # b
    BY <2>1
  <2>3. pc'[c] = "rewrite" /\ cands'[c] = cands[c]
    BY <2>1, <2>2 DEF OthersStay
  <2>4. Committed(v) = Front(cands[c]) /\ Committed(v)' = Front(cands'[c])
    BY <2>1, <2>3 DEF CommittedIs
  <2> QED BY <2>3, <2>4
<1> QED BY <1>2, <1>3

(* A block that holds the lock is the only one that may be rewriting.      *)
LEMMA NoOtherRewrites ==
  ASSUME KernelInv, NEW b \in Blocks, lockPc[b] = "held", pc[b] # "rewrite"
  PROVE  ~AtRewrite(target(b))
BY AloneUnderLock DEF AtRewrite, UnderLock

(* A step of the kernel leaves the rest of every other block alone.        *)
LEMMA StepsStay ==
  ASSUME KernelInv, NEW b \in Blocks,
         \/ Begin(b) \/ Look(b) \/ AlreadyLinked(b) \/ AppendSource(b) \/ CountSource(b)
         \/ Gather(b) \/ Prune(b) \/ Shrink(b) \/ Finish(b)
         \/ \E k \in 1 .. R : WriteEntry(b, k)
  PROVE  OthersStay(b)
<1>1. /\ DOMAIN pc = Blocks /\ DOMAIN currDeg = Blocks /\ DOMAIN cands = Blocks
      /\ DOMAIN kept = Blocks /\ DOMAIN unwritten = Blocks /\ DOMAIN apart = Blocks
      /\ DOMAIN lockPc = Blocks /\ DOMAIN lockOf = Blocks
  BY DEF KernelInv, KernelTypeOK, LockInv, LockTypeOK
<1>2. CASE Begin(b)
  BY <1>1, <1>2 DEF Begin, Goto, Acquire, LockStep, lockVars, pruneVars, OthersStay
<1>3. CASE Look(b) \/ AlreadyLinked(b)
  BY <1>1, <1>3 DEF Look, AlreadyLinked, Goto, Release, LockStep, lockVars, pruneVars, OthersStay
<1>4. CASE AppendSource(b) \/ CountSource(b)
  BY <1>1, <1>4
  DEF AppendSource, CountSource, Goto, Release, LockStep, lockVars, pruneVars, OthersStay
<1>5. CASE Gather(b)
  BY <1>1, <1>5 DEF Gather, Goto, lockVars, pruneVars, OthersStay
<1>6. CASE Prune(b)
  BY <1>1, <1>6 DEF Prune, Goto, lockVars, OthersStay
<1>7. CASE Shrink(b) \/ Finish(b)
  BY <1>1, <1>7 DEF Shrink, Finish, Goto, Release, LockStep, lockVars, pruneVars, OthersStay
<1>8. CASE \E k \in 1 .. R : WriteEntry(b, k)
  BY <1>1, <1>8 DEF WriteEntry, lockVars, OthersStay
<1> QED BY <1>2, <1>3, <1>4, <1>5, <1>6, <1>7, <1>8

LEMMA StepsThatOnlyMove ==
  ASSUME KernelInv, CommittedIs, CommittedIs', NEW b \in Blocks,
         \/ Begin(b) /\ target(b) # source(b)
         \/ Look(b) \/ Gather(b)
  PROVE  UNCHANGED <<Graph, ToDo>>
<1>1. /\ UNCHANGED <<deg, nbr, apart, kept, unwritten>>
      /\ \E to \in {"look", "append", "gather", "prune"} : pc' = [pc EXCEPT ![b] = to]
      /\ pc[b] \in {"begin", "look", "gather"}
  BY DEF Begin, Look, Gather, Goto, pruneVars
<1>2. KernelTypeOK /\ pc \in [Blocks -> KernelPcs]
  BY DEF KernelInv, KernelTypeOK
<1>3. OthersStay(b)
  BY StepsStay
<1>4. pc'[b] # "rewrite" /\ pc'[b] # "end" /\ pc[b] # "rewrite" /\ pc[b] # "end"
  BY <1>1, <1>2
<1>5. \A v \in Vertices : Committed(v)' = Committed(v)
  BY <1>1, <1>2, <1>3, <1>4, OthersCommitted
<1> QED BY <1>1, <1>3, <1>4, <1>5, NothingLinked DEF Together

LEMMA StepsThatFindTheLink ==
  ASSUME KernelInv, CommittedIs, CommittedIs', NEW b \in Blocks,
         \/ Begin(b) /\ target(b) = source(b)
         \/ AlreadyLinked(b)
  PROVE  Links!Next
<1>1. /\ UNCHANGED <<deg, nbr, apart>> /\ pc' = [pc EXCEPT ![b] = "end"]
      /\ pc[b] \in {"begin", "look"}
  BY DEF Begin, AlreadyLinked, Goto, pruneVars
<1>2. KernelTypeOK /\ pc \in [Blocks -> KernelPcs]
  BY DEF KernelInv, KernelTypeOK
<1>3. OthersStay(b)
  BY StepsStay
<1>4. pc'[b] # "rewrite" /\ pc[b] # "rewrite" /\ pc[b] # "end"
  BY <1>1, <1>2
<1>5. \A v \in Vertices : Committed(v)' = Committed(v)
  BY <1>1, <1>2, <1>3, <1>4, OthersCommitted
<1>6. source(b) = target(b) \/ source(b) \in ToSet(Committed(target(b)))
  <2>1. CASE AlreadyLinked(b)
    <3>1. ~AtRewrite(target(b))
      BY <1>1, <2>1, NoOtherRewrites DEF AlreadyLinked
    <3> QED BY <2>1, <3>1, BlockType DEF AlreadyLinked, Already, CommittedIs, ListOf, List
  <2> QED BY <2>1
<1>7. Committed(target(b))' = Linking(b, Committed(target(b)))
  BY <1>5, <1>6, BlockType DEF Linking
<1> QED BY <1>1, <1>2, <1>3, <1>4, <1>5, <1>7, EndLinks DEF Together

LEMMA AppendLinksNothing ==
  ASSUME KernelInv, CommittedIs, CommittedIs', NEW b \in Blocks, AppendSource(b)
  PROVE  UNCHANGED <<Graph, ToDo>>
<1>1. /\ UNCHANGED <<deg, apart>> /\ pc[b] = "append" /\ pc' = [pc EXCEPT ![b] = "count"]
      /\ nbr' = [nbr EXCEPT ![target(b)][currDeg[b] + 1] = source(b)]
  BY DEF AppendSource, Goto, pruneVars
<1>2. /\ KernelTypeOK /\ pc \in [Blocks -> KernelPcs] /\ deg \in [Vertices -> 0 .. R]
      /\ nbr \in [Vertices -> [1 .. R -> Vertices \cup {NoVertex}]]
      /\ target(b) \in Vertices /\ lockPc[b] = "held"
  BY <1>1, BlockType DEF KernelInv, KernelTypeOK, PlaceTellsLock, BlockTellsLock, UnderLock
<1>3. PICK len \in 0 .. R : len = deg[target(b)]
  BY <1>2
<1>4. currDeg[b] = len
  BY <1>1, <1>3 DEF KernelInv, Midway, MidwayAt
<1>5. nbr' = [nbr EXCEPT ![target(b)][len + 1] = source(b)]
  BY <1>1, <1>4
<1>6. \A i \in 1 .. len : nbr'[target(b)][i] = nbr[target(b)][i]
  BY <1>2, <1>3, <1>5
<1>7. OthersStay(b) /\ pc'[b] = "count"
  BY <1>1, <1>2, StepsStay
<1>8. ~AtRewrite(target(b)) /\ ~AtRewrite(target(b))'
  <2>1. ~AtRewrite(target(b))
    BY <1>1, <1>2, NoOtherRewrites
  <2>2. pc[b] # "rewrite" /\ pc'[b] # "rewrite"
    BY <1>1, <1>7
  <2> QED BY <1>2, <1>7, <2>1, <2>2, SameRewrites
<1>9. Committed(target(b)) = ListOf(len, nbr[target(b)])
  BY <1>2, <1>3, <1>8 DEF CommittedIs
<1>10. Committed(target(b))' = ListOf(len, nbr'[target(b)])
  BY <1>1, <1>2, <1>3, <1>8 DEF CommittedIs
<1>11. Committed(target(b))' = Committed(target(b))
  BY <1>6, <1>9, <1>10 DEF ListOf
<1>12. \A v \in Vertices \ {target(b)} : Committed(v)' = Committed(v)
  <2>1. \A v \in Vertices \ {target(b)} : deg'[v] = deg[v] /\ nbr'[v] = nbr[v]
    BY <1>1, <1>2, <1>5
  <2> QED BY <1>2, <1>7, <2>1, OthersCommitted
<1> QED BY <1>1, <1>7, <1>11, <1>12, NothingLinked DEF Together

LEMMA CountLinks ==
  ASSUME KernelInv, CommittedIs, CommittedIs', NEW b \in Blocks, CountSource(b)
  PROVE  Links!Next
<1>1. /\ UNCHANGED <<nbr, apart>> /\ pc[b] = "count" /\ pc' = [pc EXCEPT ![b] = "end"]
      /\ deg' = [deg EXCEPT ![target(b)] = currDeg[b] + 1]
  BY DEF CountSource, Goto, pruneVars
<1>2. /\ KernelTypeOK /\ pc \in [Blocks -> KernelPcs] /\ deg \in [Vertices -> 0 .. R]
      /\ nbr \in [Vertices -> [1 .. R -> Vertices \cup {NoVertex}]]
      /\ target(b) \in Vertices /\ source(b) \in Vertices /\ lockPc[b] = "held"
  BY <1>1, BlockType DEF KernelInv, KernelTypeOK, PlaceTellsLock, BlockTellsLock, UnderLock
<1>3. PICK len \in 0 .. R : len = deg[target(b)]
  BY <1>2
<1>4. PICK list \in [1 .. R -> Vertices \cup {NoVertex}] : list = nbr[target(b)]
  BY <1>2
<1>5. source(b) # target(b) /\ currDeg[b] = len /\ len < R
  BY <1>1, <1>3 DEF KernelInv, Midway, MidwayAt, UnderLock
<1>6. OthersStay(b) /\ pc'[b] = "end"
  BY <1>1, <1>2, StepsStay
<1>7. ~AtRewrite(target(b)) /\ ~AtRewrite(target(b))'
  <2>1. ~AtRewrite(target(b))
    BY <1>1, <1>2, NoOtherRewrites
  <2>2. pc[b] # "rewrite" /\ pc'[b] # "rewrite"
    BY <1>1, <1>6
  <2> QED BY <1>2, <1>6, <2>1, <2>2, SameRewrites
<1>8. Committed(target(b)) = [i \in 1 .. len |-> list[i]]
  BY <1>2, <1>3, <1>4, <1>7 DEF CommittedIs, ListOf
<1>9. Committed(target(b))' = [i \in 1 .. len + 1 |-> list[i]]
  BY <1>1, <1>2, <1>4, <1>5, <1>7 DEF CommittedIs, ListOf
<1>10. PICK short \in Seq(Vertices \cup {NoVertex}) :
        short = [i \in 1 .. len |-> list[i]] /\ Len(short) = len
  <2>1. PICK short \in [1 .. len -> Vertices \cup {NoVertex}] : short = [i \in 1 .. len |-> list[i]]
    <3>1. \A i \in 1 .. len : i \in 1 .. R
      BY RoomType
    <3> QED BY <3>1
  <2>2. len \in Nat
    BY RoomType
  <2>3. short \in Seq(Vertices \cup {NoVertex})
    BY <2>1, <2>2, SeqDef
  <2> QED BY <2>1, <2>2, <2>3, LenProperties
<1>11. ASSUME target(b) \in Together
       PROVE  Committed(target(b))' = Linking(b, Committed(target(b)))
  <2>1. Missing(source(b), list, len) /\ list[len + 1] = source(b)
    BY <1>1, <1>3, <1>4, <1>11 DEF KernelInv, Clean, CleanAt, Together
  <2>2. source(b) \notin ToSet(short)
    BY <1>10, <2>1 DEF ToSet, Missing
  <2>3. [i \in 1 .. len + 1 |-> list[i]] = Append(short, source(b))
    <3>1. PICK more : more = [i \in 1 .. len + 1 |-> list[i]]
      OBVIOUS
    <3>2. more \in [1 .. len + 1 -> Vertices \cup {NoVertex}]
      BY <1>5, <3>1, RoomType
    <3>3. more \in Seq(Vertices \cup {NoVertex}) /\ Len(more) = len + 1
      BY <3>2, LenProperties
    <3>4. /\ Append(short, source(b)) \in Seq(Vertices \cup {NoVertex})
          /\ Len(Append(short, source(b))) = len + 1
          /\ \A i \in 1 .. len : Append(short, source(b))[i] = short[i]
          /\ Append(short, source(b))[len + 1] = source(b)
      BY <1>2, <1>10, AppendProperties
    <3>5. \A i \in 1 .. len + 1 : more[i] = Append(short, source(b))[i]
      BY <1>10, <2>1, <3>1, <3>4
    <3> QED BY <3>1, <3>3, <3>4, <3>5, SeqEqual
  <2> QED BY <1>5, <1>8, <1>9, <1>10, <2>2, <2>3 DEF Linking
<1>12. \A v \in Vertices \ {target(b)} : Committed(v)' = Committed(v)
  <2>1. \A v \in Vertices \ {target(b)} : deg'[v] = deg[v] /\ nbr'[v] = nbr[v]
    BY <1>1, <1>2
  <2> QED BY <1>2, <1>6, <2>1, OthersCommitted
<1> QED BY <1>1, <1>2, <1>6, <1>11, <1>12, EndLinks DEF Together

(* A full list as a sequence.                                              *)
LEMMA FullList ==
  ASSUME NEW list \in [1 .. R -> Vertices \cup {NoVertex}], NEW u \in Vertices
  PROVE  /\ list \in Seq(Vertices \cup {NoVertex}) /\ Len(list) = R /\ ListOf(R, list) = list
         /\ Front(Append(list, u)) = list
         /\ Missing(u, list, R) => u \notin ToSet(list)
<1>1. R \in Nat
  BY RoomType
<1>2. list \in Seq(Vertices \cup {NoVertex}) /\ Len(list) = R
  BY <1>1, SeqDef, LenProperties
<1>3. ListOf(R, list) = list
  BY DEF ListOf
<1>4. Front(Append(list, u)) = list
  BY <1>2, FrontOfAppend
<1>5. Missing(u, list, R) => u \notin ToSet(list)
  BY DEF Missing, ToSet
<1> QED BY <1>2, <1>3, <1>4, <1>5

(* Warps that come apart break the promise for their target; others link   *)
(* nothing yet.                                                            *)
LEMMA PruneComesApart ==
  ASSUME KernelInv, CommittedIs, CommittedIs', NEW b \in Blocks, Prune(b)
  PROVE  Links!Next \/ UNCHANGED <<Graph, ToDo>>
<1>1. UNCHANGED <<deg, nbr>> /\ pc[b] = "prune" /\ pc' = [pc EXCEPT ![b] = "shrink"]
  BY DEF Prune, Goto
<1>2. PICK drift \in BOOLEAN : apart' = [apart EXCEPT ![b] = drift]
  BY DEF Prune
<1>3. /\ KernelTypeOK /\ pc \in [Blocks -> KernelPcs] /\ apart \in [Blocks -> BOOLEAN]
      /\ nbr \in [Vertices -> [1 .. R -> Vertices \cup {NoVertex}]]
      /\ target(b) \in Vertices /\ source(b) \in Vertices /\ b = <<target(b), source(b)>>
  BY BlockType DEF KernelInv, KernelTypeOK
<1>4. OthersStay(b) /\ pc'[b] = "shrink" /\ apart'[b] = drift
  BY <1>1, <1>2, <1>3, StepsStay
<1>5. source(b) # target(b) /\ deg[target(b)] = R /\ ~apart[b]
  BY <1>1 DEF KernelInv, Midway, MidwayAt, UnderLock
<1>6. \A v \in Vertices : Committed(v)' = Committed(v)
  <2>1. pc[b] # "rewrite" /\ pc'[b] # "rewrite"
    BY <1>1, <1>4
  <2> QED BY <1>1, <1>3, <1>4, <2>1, OthersCommitted
<1>7. ToDo' = ToDo
  BY <1>1, <1>3 DEF ToDo
<1>8. CASE ~drift
  <2>1. apart'[b] = apart[b]
    BY <1>4, <1>5, <1>8, <1>3
  <2>2. pc'[b] # "end" /\ pc[b] # "end"
    BY <1>1, <1>4
  <2> QED BY <1>4, <1>6, <2>1, <2>2, NothingLinked DEF Together
<1>9. CASE drift
  <2>1. \A v : CameApart(v)' <=> CameApart(v) \/ v = target(b)
    BY <1>4, <1>5, <1>9 DEF CameApart, OthersStay
  <2>2. Together' = Together \ {target(b)}
    BY <2>1 DEF Together
  <2>3. Graph' = [v \in Together \ {target(b)} |-> Graph[v]]
    BY <1>6, <2>2 DEF Graph, Together
  <2>4. ASSUME target(b) \in Together
        PROVE  Len(Graph[target(b)]) = R /\ source(b) \notin ToSet(Graph[target(b)])
    <3>1. Missing(source(b), nbr[target(b)], R)
      BY <1>1, <2>4 DEF KernelInv, Clean, CleanAt, Overflow, Together
    <3>2. ~AtRewrite(target(b))
      BY <1>1, AloneUnderLock
      DEF AtRewrite, UnderLock, KernelInv, PlaceTellsLock, BlockTellsLock
    <3>3. Committed(target(b)) = ListOf(R, nbr[target(b)])
      BY <1>3, <1>5, <3>2 DEF CommittedIs
    <3>4. nbr[target(b)] \in [1 .. R -> Vertices \cup {NoVertex}]
      BY <1>3
    <3>5. Committed(target(b)) = nbr[target(b)]
      BY <1>3, <3>3, <3>4, FullList
    <3> QED BY <1>3, <2>4, <3>1, <3>4, <3>5, FullList DEF Graph
  <2>5. <<target(b), source(b)>> \in ToDo
    BY <1>1, <1>3 DEF ToDo
  <2>6. DOMAIN Graph = Together
    BY DEF Graph
  <2>7. Links!ComeApart(target(b), source(b))
    <3>1. \A S : Links!ToSet(S) = ToSet(S)
      BY DEF Links!ToSet, ToSet
    <3> QED BY <1>5, <1>7, <2>3, <2>4, <2>5, <2>6, <3>1
            DEF Links!ComeApart, Graph, Together, ToDo
  <2>8. b[1] = target(b) /\ b[2] = source(b)
    BY DEF target, source
  <2> QED BY <1>3, <2>5, <2>7, <2>8 DEF Links!Next, ToDo
<1> QED BY <1>8, <1>9

LEMMA ShrinkLinksNothing ==
  ASSUME KernelInv, CommittedIs, CommittedIs', NEW b \in Blocks, Shrink(b)
  PROVE  UNCHANGED <<Graph, ToDo>>
<1>1. /\ UNCHANGED <<nbr, cands, apart>> /\ pc[b] = "shrink" /\ pc' = [pc EXCEPT ![b] = "rewrite"]
      /\ deg' = [deg EXCEPT ![target(b)] = Len(kept[b])]
  BY DEF Shrink, Goto, pruneVars
<1>2. /\ KernelTypeOK /\ pc \in [Blocks -> KernelPcs] /\ deg \in [Vertices -> 0 .. R]
      /\ nbr \in [Vertices -> [1 .. R -> Vertices \cup {NoVertex}]]
      /\ target(b) \in Vertices /\ source(b) \in Vertices /\ lockPc[b] = "held"
  BY <1>1, BlockType DEF KernelInv, KernelTypeOK, PlaceTellsLock, BlockTellsLock, UnderLock
<1>3. OthersStay(b) /\ pc'[b] = "rewrite"
  BY <1>1, <1>2, StepsStay
<1>4. ASSUME target(b) \in Together PROVE Committed(target(b))' = Committed(target(b))
  <2>1. deg[target(b)] = R
    BY <1>1 DEF KernelInv, Midway, MidwayAt
  <2>2. cands[b] = Append(nbr[target(b)], source(b))
    BY <1>1, <1>4 DEF KernelInv, Clean, CleanAt, Overflow, Together
  <2>3. ~AtRewrite(target(b))
    BY <1>1, <1>2, NoOtherRewrites
  <2>4. Committed(target(b)) = ListOf(R, nbr[target(b)])
    BY <1>2, <2>1, <2>3 DEF CommittedIs
  <2>5. Committed(target(b))' = Front(cands[b])
    BY <1>1, <1>2, <1>3 DEF CommittedIs
  <2>6. nbr[target(b)] \in [1 .. R -> Vertices \cup {NoVertex}]
    BY <1>2
  <2> QED BY <1>2, <2>2, <2>4, <2>5, <2>6, FullList
<1>5. \A v \in Vertices \ {target(b)} : Committed(v)' = Committed(v)
  <2>1. \A v \in Vertices \ {target(b)} : deg'[v] = deg[v] /\ nbr'[v] = nbr[v]
    BY <1>1, <1>2
  <2> QED BY <1>2, <1>3, <2>1, OthersCommitted
<1> QED BY <1>1, <1>3, <1>4, <1>5, NothingLinked DEF Together

LEMMA WriteEntryLinksNothing ==
  ASSUME KernelInv, CommittedIs, CommittedIs', NEW b \in Blocks, NEW k \in 1 .. R, WriteEntry(b, k)
  PROVE  UNCHANGED <<Graph, ToDo>>
<1>1. /\ UNCHANGED <<deg, pc, cands, apart>>
      /\ pc[b] = "rewrite" \/ apart[b]
      /\ nbr' = [nbr EXCEPT ![target(b)][k] = kept[b][k]]
  BY DEF WriteEntry, MayWrite
<1>2. /\ KernelTypeOK /\ nbr \in [Vertices -> [1 .. R -> Vertices \cup {NoVertex}]]
      /\ target(b) \in Vertices
  BY BlockType DEF KernelInv, KernelTypeOK
<1>3. OthersStay(b)
  BY StepsStay
<1>4. ASSUME target(b) \in Together PROVE Committed(target(b))' = Committed(target(b))
  <2>1. pc[b] = "rewrite"
    BY <1>1, <1>4 DEF Together, CameApart
  <2>2. Committed(target(b)) = Front(cands[b])
    BY <1>2, <2>1 DEF CommittedIs
  <2>3. Committed(target(b))' = Front(cands'[b])
    BY <1>1, <1>2, <2>1 DEF CommittedIs
  <2> QED BY <1>1, <2>2, <2>3
<1>5. \A v \in Vertices \ {target(b)} : Committed(v)' = Committed(v)
  <2>1. \A v \in Vertices \ {target(b)} : deg'[v] = deg[v] /\ nbr'[v] = nbr[v]
    BY <1>1, <1>2
  <2> QED BY <1>2, <1>3, <2>1, OthersCommitted
<1> QED BY <1>1, <1>3, <1>4, <1>5, NothingLinked DEF Together

LEMMA FinishLinks ==
  ASSUME KernelInv, CommittedIs, CommittedIs', NEW b \in Blocks, Finish(b)
  PROVE  Links!Next
<1>1. /\ UNCHANGED <<deg, nbr, apart>> /\ pc[b] = "rewrite" /\ pc' = [pc EXCEPT ![b] = "end"]
      /\ unwritten[b] = {} \/ apart[b]
  BY DEF Finish, Goto, pruneVars, LeftToLaggards
<1>2. /\ KernelTypeOK /\ pc \in [Blocks -> KernelPcs]
      /\ target(b) \in Vertices /\ source(b) \in Vertices
  BY BlockType DEF KernelInv, KernelTypeOK
<1>3. OthersStay(b) /\ pc'[b] = "end"
  BY <1>1, <1>2, StepsStay
<1>4. ASSUME target(b) \in Together
      PROVE  Committed(target(b))' = Linking(b, Committed(target(b)))
  <2>1. unwritten[b] = {}
    BY <1>1, <1>4 DEF Together, CameApart
  <2>2. PICK before \in [1 .. R -> Vertices \cup {NoVertex}] : Overflow(b, cands[b], before)
    BY <1>1, <1>4 DEF KernelInv, Clean, CleanAt, Together
  <2>3. /\ kept[b] = Pruned(target(b), cands[b])
        /\ \A k \in 1 .. Len(kept[b]) : nbr[target(b)][k] = kept[b][k]
    BY <1>1, <1>4, <2>1 DEF KernelInv, Clean, CleanAt, Together
  <2>4. /\ deg[target(b)] = Len(kept[b]) /\ source(b) # target(b)
        /\ kept[b] \in Seq(Vertices \ {target(b)})
    BY <1>1 DEF KernelInv, Midway, MidwayAt, UnderLock
  <2>5. Committed(target(b)) = before
    <3>1. Committed(target(b)) = Front(cands[b])
      BY <1>1, <1>2 DEF CommittedIs
    <3> QED BY <1>2, <2>2, <3>1, FullList DEF Overflow
  <2>6. ~AtRewrite(target(b))'
    <3>1. \A c \in Blocks \ {b} : target(c) = target(b) => pc[c] # "rewrite"
      BY <1>1, AloneUnderLock DEF KernelInv, PlaceTellsLock, BlockTellsLock, UnderLock
    <3> QED BY <1>3, <3>1 DEF AtRewrite, OthersStay
  <2>7. Committed(target(b))' = kept[b]
    <3>1. Committed(target(b))' = ListOf(Len(kept[b]), nbr[target(b)])
      BY <1>1, <1>2, <2>4, <2>6 DEF CommittedIs
    <3>2. kept[b] = [i \in 1 .. Len(kept[b]) |-> kept[b][i]]
      BY <2>4, LenProperties
    <3> QED BY <2>3, <3>1, <3>2 DEF ListOf
  <2>8. source(b) \notin ToSet(before) /\ ~(Len(before) < R) /\ cands[b] = Append(before, source(b))
    BY <1>2, <2>2, FullList, RoomType DEF Overflow
  <2> QED BY <2>3, <2>4, <2>5, <2>7, <2>8 DEF Linking
<1>5. \A v \in Vertices \ {target(b)} : Committed(v)' = Committed(v)
  BY <1>1, <1>2, <1>3, OthersCommitted
<1> QED BY <1>1, <1>2, <1>3, <1>4, <1>5, EndLinks DEF Together

LEMMA KernelStartsLinks == Init => Links!Init
<1> SUFFICES ASSUME Init PROVE Links!Init
  OBVIOUS
<1>1. PICK adj \in Forward :
        /\ deg = [v \in Vertices |-> Len(adj[v])]
        /\ nbr = [v \in Vertices |->
                    [i \in 1 .. R |-> IF i <= Len(adj[v]) THEN adj[v][i] ELSE NoVertex]]
        /\ pc = [b \in Blocks |-> IF b \in Collected(adj) THEN "begin" ELSE "end"]
        /\ apart = [b \in Blocks |-> FALSE]
  BY DEF Init
<1>2. ASSUME NEW v \in Vertices PROVE Committed(v) = adj[v]
  <2>1. PICK list \in Seq(Vertices) : list = adj[v]
    BY ForwardAssumption DEF ForwardAssumption
  <2>2. /\ Len(list) \in Nat /\ Len(list) <= R
        /\ list = [i \in 1 .. Len(list) |-> list[i]]
    BY <2>1, ForwardAssumption, LenProperties DEF ForwardAssumption
  <2>3. \A i \in 1 .. Len(list) : i \in 1 .. R /\ i <= Len(list)
    BY <2>2, RoomType
  <2>4. deg[v] = Len(list) /\ \A i \in 1 .. Len(list) : nbr[v][i] = list[i]
    BY <1>1, <2>1, <2>3
  <2>5. ~\E b \in Blocks : target(b) = v /\ pc[b] = "rewrite"
    BY <1>1
  <2>6. Committed(v) = [i \in 1 .. Len(list) |-> nbr[v][i]]
    BY <2>4, <2>5 DEF Committed, List
  <2> QED BY <2>1, <2>2, <2>4, <2>6
<1>3. {v \in Vertices : ~CameApart(v)} = Vertices
  BY <1>1 DEF CameApart
<1>4. [v \in {u \in Vertices : ~CameApart(u)} |-> Committed(v)] = adj
  BY <1>2, <1>3, ForwardAssumption DEF ForwardAssumption
<1>5. {b \in Blocks : pc[b] # "end"} = Collected(adj)
  BY <1>1 DEF Collected
<1>6. PICK start : start = [adj |-> adj, pairs |-> Collected(adj)]
  OBVIOUS
<1>7. start \in {[adj |-> a, pairs |-> Collected(a)] : a \in Forward}
  BY <1>6
<1> QED BY <1>4, <1>5, <1>6, <1>7 DEF Links!Init

LEMMA KernelStepLinks ==
  KernelInv /\ CommittedIs /\ CommittedIs' /\ [Next]_vars
    => [Links!Next]_<<[v \in {u \in Vertices : ~CameApart(u)} |-> Committed(v)],
                      {b \in Blocks : pc[b] # "end"}>>
<1> SUFFICES ASSUME KernelInv, CommittedIs, CommittedIs', [Next]_vars
             PROVE  Links!Next \/ UNCHANGED <<Graph, ToDo>>
  BY DEF Graph, Together, ToDo
<1>1. ASSUME UNCHANGED kernelVars PROVE UNCHANGED <<Graph, ToDo>>
  <2>1. UNCHANGED <<deg, nbr, pc, cands, apart>>
    BY <1>1 DEF kernelVars, pruneVars
  <2> QED BY <2>1 DEF Graph, ToDo, Together, CameApart, Committed, List
<1>2. ASSUME NEW b \in Blocks, BlockNext(b)
      PROVE  Links!Next \/ UNCHANGED <<Graph, ToDo>>
  <2>1. CASE Begin(b) \/ Look(b) \/ AlreadyLinked(b) \/ Gather(b)
    BY <2>1, StepsThatOnlyMove, StepsThatFindTheLink
  <2>2. CASE AppendSource(b) \/ CountSource(b)
    BY <2>2, AppendLinksNothing, CountLinks
  <2>3. CASE Prune(b) \/ Shrink(b) \/ Finish(b)
    BY <2>3, PruneComesApart, ShrinkLinksNothing, FinishLinks
  <2>4. CASE \E k \in 1 .. R : WriteEntry(b, k)
    BY <2>4, WriteEntryLinksNothing
  <2> QED BY <1>1, <1>2, <2>1, <2>2, <2>3, <2>4 DEF BlockNext
<1>3. UNCHANGED vars => UNCHANGED kernelVars
  BY DEF vars
<1>4. (\E b \in Blocks : BlockNext(b)) \/ UNCHANGED vars
  BY DEF Next, KernelOver
<1>5. CASE UNCHANGED vars
  BY <1>1, <1>3, <1>5
<1>6. CASE \E b \in Blocks : BlockNext(b)
  BY <1>2, <1>6
<1> QED BY <1>4, <1>5, <1>6

(* However the blocks interleave, the kernel links one collected pair      *)
(* after another, each as if it ran alone, in every list that no block     *)
(* came apart at: it implements BackEdges                                  *)
(* (appendReverseEdgesRoutedKernel, fda_insert.cu:259-388).                *)
THEOREM KernelLinksOneByOne == Spec => LinksOneByOne
<1>1. Init => Links!Init
  BY KernelStartsLinks
<1>2. KernelInv => CommittedIs
  BY CommittedFromLists
<1>3. KernelInv /\ CommittedIs /\ CommittedIs' /\ [Next]_vars
        => [Links!Next]_<<[v \in {u \in Vertices : ~CameApart(u)} |-> Committed(v)],
                          {b \in Blocks : pc[b] # "end"}>>
  BY KernelStepLinks
<1> QED BY <1>1, <1>2, <1>3, KernelInvariant, PTL DEF Spec, LinksOneByOne, Links!Spec
=============================================================================
