---------------------------- MODULE AppendScratch ----------------------------
(***************************************************************************)
(* The per-vertex append scratch and the dirty list of src/fda2, which the *)
(* threads of an insert or a delete kernel fill without locks: a run of    *)
(* additions reserves its places with one atomicAdd, what does not fit is  *)
(* given back with an atomicSub, and the first thread to set a vertex's    *)
(* mark enters it into the list of vertices to prune.                      *)
(***************************************************************************)
EXTENDS Integers, Sequences, FiniteSets

CONSTANTS
  Slots,      \* vertices of the graph
  Threads,    \* threads of a kernel
  P,          \* P_EXTRA, the places of a vertex's scratch
  Stale       \* what a place holds that was not written since the last prune

ASSUME ScratchAssumption ==
  /\ IsFiniteSet(Slots) /\ IsFiniteSet(Threads)
  /\ P \in Nat
  /\ Stale \notin Slots

VARIABLES
  addScratch, addScratchCount,   \* d_addScratch, d_addScratchCount
  dirtyMark,                     \* d_dirtyMark, as a set of vertices
  dirtyList,                     \* the first *d_dirtyCount entries of d_dirtyList
  work,                          \* what each thread has yet to append
  appendPc, base                 \* its place in appendAdditions, and its base

scratchVars == <<addScratch, addScratchCount, dirtyMark, dirtyList, work, appendPc, base>>

(* appendReverseCandsKernel and appendAddition append one vertex at a      *)
(* time, appendAdditions a run; an empty run marks its vertex only.        *)
Request == [at : Slots, adds : Seq(Slots)]

At(t) == Head(work[t]).at
Adds(t) == Head(work[t]).adds

(* dirtyCap is the number of slots.                                        *)
DirtyCap == Cardinality(Slots)

Empty == [i \in 0 .. P - 1 |-> Stale]

ScratchInit ==
  /\ addScratch = [v \in Slots |-> Empty]
  /\ addScratchCount = [v \in Slots |-> 0]
  /\ dirtyMark = {} /\ dirtyList = <<>>
  /\ work = [t \in Threads |-> <<>>]
  /\ appendPc = [t \in Threads |-> "next"]
  /\ base = [t \in Threads |-> 0]

Goto(t, from, to) ==
  /\ appendPc[t] = from
  /\ appendPc' = [appendPc EXCEPT ![t] = to]

Reserve(t) ==
  /\ appendPc[t] = "next" /\ work[t] # <<>> /\ Adds(t) # <<>>
  /\ Goto(t, "next", "fill")
  /\ base' = [base EXCEPT ![t] = addScratchCount[At(t)]]
  /\ addScratchCount' = [addScratchCount EXCEPT ![At(t)] = @ + Len(Adds(t))]
  /\ UNCHANGED <<addScratch, dirtyMark, dirtyList, work>>

(* The places of the run that exist, and the number of those that do not.  *)
Granted(t) == {i \in 0 .. P - 1 : base[t] <= i /\ i < base[t] + Len(Adds(t))}
Overflow_TheWholeRun(t) ==   \* mutant
  IF base[t] + Len(Adds(t)) <= P THEN 0 ELSE Len(Adds(t))
Overflow(t) ==
  IF base[t] + Len(Adds(t)) <= P THEN 0
  ELSE IF base[t] <= P THEN base[t] + Len(Adds(t)) - P
  ELSE Len(Adds(t))

(* Nobody else writes these places, or reads them before the kernel ends.  *)
Fill(t) ==
  /\ Goto(t, "fill", "mark")
  /\ addScratch' = [addScratch EXCEPT ![At(t)] =
       [i \in 0 .. P - 1 |-> IF i \in Granted(t) THEN Adds(t)[i - base[t] + 1] ELSE @[i]]]
  /\ addScratchCount' = [addScratchCount EXCEPT ![At(t)] = @ - Overflow(t)]
  /\ base' = [base EXCEPT ![t] = 0]
  /\ UNCHANGED <<dirtyMark, dirtyList, work>>

Done(t) == work' = [work EXCEPT ![t] = Tail(@)]

(* atomicCAS_u8, whose loop NodeLocks takes apart.                         *)
IsFirst_Always(v) == TRUE   \* mutant
IsFirst(v) == v \notin dirtyMark

ReadyToMark(t) ==
  \/ appendPc[t] = "mark"
  \/ appendPc[t] = "next" /\ work[t] # <<>> /\ Adds(t) = <<>>

(* The thread that sets the mark takes a place in the list and writes it;  *)
(* an entry past dirtyCap is given back.  Nobody reads the list before the *)
(* kernel ends, so the entry can come with the mark.                       *)
Enlist(t) ==
  /\ ReadyToMark(t) /\ IsFirst(At(t))
  /\ dirtyMark' = dirtyMark \cup {At(t)}
  /\ dirtyList' = IF Len(dirtyList) < DirtyCap THEN Append(dirtyList, At(t)) ELSE dirtyList
  /\ appendPc' = [appendPc EXCEPT ![t] = "next"]
  /\ Done(t)
  /\ UNCHANGED <<addScratch, addScratchCount, base>>

AlreadyMarked(t) ==
  /\ ReadyToMark(t) /\ ~IsFirst(At(t))
  /\ appendPc' = [appendPc EXCEPT ![t] = "next"]
  /\ Done(t)
  /\ UNCHANGED <<addScratch, addScratchCount, dirtyMark, dirtyList, base>>

AppendStep(t) == Reserve(t) \/ Fill(t) \/ Enlist(t) \/ AlreadyMarked(t)

Returned(t) == work[t] = <<>> /\ appendPc[t] = "next"
AllReturned == \A t \in Threads : Returned(t)

Launch(requests) ==
  /\ AllReturned
  /\ work' = requests
  /\ UNCHANGED <<addScratch, addScratchCount, dirtyMark, dirtyList, appendPc, base>>

(* A prune kernel resets the count and the mark of every vertex listed;    *)
(* the list is emptied before the next kernel that appends.                *)
Drain ==
  /\ AllReturned
  /\ LET dirty == {dirtyList[i] : i \in DOMAIN dirtyList}
     IN  /\ addScratchCount' = [v \in Slots |-> IF v \in dirty THEN 0 ELSE addScratchCount[v]]
         /\ addScratch' = [v \in Slots |-> IF v \in dirty THEN Empty ELSE addScratch[v]]
         /\ dirtyMark' = dirtyMark \ dirty
  /\ dirtyList' = <<>>
  /\ UNCHANGED <<work, appendPc, base>>

(* Any kernels that append, one after another, and any prune after them.   *)
ScratchClient ==
  \/ \E t \in Threads : AppendStep(t)
  \/ AllReturned /\ work' \in [Threads -> Seq(Request)] /\ Launch(work')
  \/ Drain

ScratchSpec == ScratchInit /\ [][ScratchClient]_scratchVars

-----------------------------------------------------------------------------
(* Properties.                                                             *)

(* Every variable has its type.                                            *)
ScratchTypeOK ==
  /\ addScratch \in [Slots -> [0 .. P - 1 -> Slots \cup {Stale}]]
  /\ addScratchCount \in [Slots -> Nat]
  /\ dirtyMark \subseteq Slots
  /\ dirtyList \in Seq(Slots)
  /\ work \in [Threads -> Seq(Request)]
  /\ appendPc \in [Threads -> {"next", "fill", "mark"}]
  /\ base \in [Threads -> Nat]
  /\ \A t \in Threads : appendPc[t] # "next" => work[t] # <<>>

Filling(v) == {t \in Threads : appendPc[t] = "fill" /\ At(t) = v}

(* However reservations that fit, that fit in part and that find the       *)
(* scratch full follow on one another and on what is given back, two runs  *)
(* never share a place, and when nobody fills the count is that of the     *)
(* places written: none is left out below it, and nothing lies past it.    *)
PlacesWritten ==
  \A v \in Slots :
    /\ \A t, u \in Filling(v) : t # u => Granted(t) \cap Granted(u) = {}
    /\ Filling(v) = {} =>
         {i \in 0 .. P - 1 : addScratch[v][i] # Stale} = 0 .. addScratchCount[v] - 1

(* fda2_delete.cu:117-120, fda2_insert.cu:157-158: a vertex is listed once *)
(* and always fits.  When the threads have returned every vertex with      *)
(* additions or a mark is listed, so the prune after them leaves no count  *)
(* behind for the next operation (fda2_delete.cu:392).                     *)
ListedOnce ==
  /\ \A i, j \in DOMAIN dirtyList : dirtyList[i] = dirtyList[j] => i = j
  /\ AllReturned =>
       \A v \in Slots : v \in dirtyMark \/ addScratchCount[v] > 0 =>
         \E i \in DOMAIN dirtyList : dirtyList[i] = v
=============================================================================
