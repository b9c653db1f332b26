------------------------------ MODULE AlphaRng ------------------------------
(***************************************************************************)
(* One block of mergePhaseAOutOfPlaceKernel (src/fda/src/fda_merge.cu) from *)
(* the sorted candidates to the new list: blockAlphaRNG and l2DistBlock of  *)
(* fda_robust_prune.cuh, warp by warp.  The warps share a few variables and *)
(* meet at __syncthreads; warp 0 (its thread 0) does all that is not a      *)
(* partial distance.  The kernels of fda_insert.cu hold the same loop.      *)
(***************************************************************************)
EXTENDS RobustPrune

CONSTANTS
  Vertices,
  NumWarps,   \* warps of a block
  part,       \* squared distance over the dimensions a warp sums up
  Inputs      \* vertices with the surviving neighbours, in any order

Warps == 0 .. NumWarps - 1

(* What thread 0 makes of the partial distances.                           *)
Total(accum) ==
  LET total[n \in 0 .. NumWarps] == IF n = 0 THEN 0 ELSE total[n - 1] + accum[n - 1]
  IN  total[NumWarps]

ASSUME WarpAssumption == NumWarps \in Nat \ {0}
ASSUME PartAssumption ==
  \A u, x \in Vertices :
    /\ \A w \in Warps : part[w][u, x] \in Nat
    /\ Dist(u, x) = Total([w \in Warps |-> part[w][u, x]])
(* Without a surviving neighbour the new list is empty and nothing runs.   *)
ASSUME InputAssumption ==
  \A in \in Inputs : /\ in \in [v : Vertices, cands : Seq(Vertices)]
                     /\ IsInjective(in.cands) /\ Len(in.cands) > 0

VARIABLES
  v, cands,             \* the vertex and its candidates, nearest first
  nSel, selected,       \* the survivors so far
  cCurr, reject,        \* the candidate under test and the verdict
  smemAccum,            \* a partial distance of every warp
  newDeg, newNbr,       \* the list in the new graph
  pc, i, j, c, currNSel,\* of every warp: place, loop counters, registers
  apart                 \* history: a barrier released warps at different places

shared == <<nSel, selected, cCurr, reject, smemAccum, newDeg, newNbr>>
local == <<i, j, c, currNSel>>
vars == <<v, cands, shared, pc, local, apart>>

FirstCandidate_Second == 2   \* mutant
FirstCandidate == 1

Init ==
  /\ \E in \in Inputs :
       /\ v = in.v /\ cands = ByDistance(in.v, in.cands)
       /\ smemAccum = [w \in Warps |-> IF w = 0 THEN Dist(in.v, Last(in.cands))
                                      ELSE part[w][in.v, Last(in.cands)]]
  /\ nSel = 0 /\ selected = [k \in 1 .. R |-> v]
  /\ cCurr = v /\ reject = FALSE
  /\ newDeg = 0 /\ newNbr = [k \in 1 .. R |-> v]
  /\ pc = [w \in Warps |-> "zeroed"]
  /\ i = [w \in Warps |-> FirstCandidate] /\ j = [w \in Warps |-> 1]
  /\ c = [w \in Warps |-> v] /\ currNSel = [w \in Warps |-> 0]
  /\ apart = FALSE

Goto(w, from, to) ==
  /\ pc[w] = from
  /\ pc' = [pc EXCEPT ![w] = to]
  /\ UNCHANGED <<v, cands, apart>>

(* Where a warp waits, and what follows.                                   *)
After == [zeroed   |-> "loop",  set    |-> "candidate",
          stored   |-> "sum",   summed |-> "judge", judged |-> "inner",
          rejected |-> "choose", chosen |-> "loop", counted |-> "write"]

(* A barrier opens when every warp that has not exited is at one, whichever *)
(* one: the hardware counts arrivals.                                      *)
Waiting == {w \in Warps : pc[w] \in DOMAIN After}

Syncthreads ==
  /\ Waiting # {} /\ \A w \in Warps \ Waiting : pc[w] = "exit"
  /\ pc' = [w \in Warps |-> IF w \in Waiting THEN After[pc[w]] ELSE pc[w]]
  /\ apart' = (apart \/ \E w, x \in Warps : <<pc[w], i[w], j[w]>> # <<pc[x], i[x], j[x]>>)
  /\ UNCHANGED <<v, cands, shared, local>>

HasRoom_AtTheLimit == nSel <= R   \* mutant
HasRoom == nSel < R

Loop(w) ==
  /\ Goto(w, "loop", IF i[w] <= Len(cands) /\ HasRoom THEN "propose" ELSE "return")
  /\ UNCHANGED <<shared, local>>

AfterPropose_NoBarrier == "candidate"   \* mutant
AfterPropose == "set"

Propose(w) ==
  /\ Goto(w, "propose", IF w = 0 THEN "clear" ELSE AfterPropose)
  /\ cCurr' = IF w = 0 THEN cands[i[w]] ELSE cCurr
  /\ UNCHANGED <<nSel, selected, reject, smemAccum, newDeg, newNbr, local>>

ClearReject(w) ==
  /\ Goto(w, "clear", AfterPropose)
  /\ reject' = FALSE
  /\ UNCHANGED <<nSel, selected, cCurr, smemAccum, newDeg, newNbr, local>>

ReadCandidate(w) ==
  /\ Goto(w, "candidate", "count")
  /\ c' = [c EXCEPT ![w] = cCurr]
  /\ UNCHANGED <<shared, i, j, currNSel>>

ReadCount(w) ==
  /\ Goto(w, "count", "inner")
  /\ currNSel' = [currNSel EXCEPT ![w] = nSel]
  /\ j' = [j EXCEPT ![w] = 1]
  /\ UNCHANGED <<shared, i, c>>

InnerOver(w) ==
  /\ j[w] > currNSel[w]
  /\ Goto(w, "inner", "choose")
  /\ UNCHANGED <<shared, local>>

InnerRejected(w) ==
  /\ j[w] <= currNSel[w] /\ reject
  /\ Goto(w, "inner", "rejected")
  /\ UNCHANGED <<shared, local>>

AfterStore_NoBarrier == "sum"   \* mutant
AfterStore == "stored"

(* l2DistBlock (its distances before the sort leave smemAccum as in Init): *)
(* every warp stores the sum over its dimensions, ...                      *)
StorePartial(w) ==
  /\ j[w] <= currNSel[w] /\ ~reject
  /\ Goto(w, "inner", AfterStore)
  /\ smemAccum' = [smemAccum EXCEPT ![w] = part[w][selected[j[w]], c[w]]]
  /\ UNCHANGED <<nSel, selected, cCurr, reject, newDeg, newNbr, local>>

(* ... and warp 0 adds them up.                                            *)
SumUp(w) ==
  /\ Goto(w, "sum", "summed")
  /\ smemAccum' = IF w = 0
                  THEN [smemAccum EXCEPT ![0] = Total(smemAccum)] ELSE smemAccum
  /\ UNCHANGED <<nSel, selected, cCurr, reject, newDeg, newNbr, local>>

Judge(w) ==
  /\ Goto(w, "judge", "judged")
  /\ reject' = (reject \/ (w = 0 /\ AlphaNum * smemAccum[0] <= AlphaDen * Dist(v, c[w])))
  /\ j' = [j EXCEPT ![w] = @ + 1]
  /\ UNCHANGED <<nSel, selected, cCurr, smemAccum, newDeg, newNbr, i, c, currNSel>>

Choose(w) ==
  /\ Goto(w, "choose", "chosen")
  /\ IF w = 0 /\ ~reject
     THEN /\ selected' = [selected EXCEPT ![nSel + 1] = c[w]]
          /\ nSel' = nSel + 1
     ELSE UNCHANGED <<selected, nSel>>
  /\ i' = [i EXCEPT ![w] = @ + 1]
  /\ UNCHANGED <<cCurr, reject, smemAccum, newDeg, newNbr, j, c, currNSel>>

WriteDegree(w) ==
  /\ Goto(w, "return", "counted")
  /\ newDeg' = IF w = 0 THEN nSel ELSE newDeg
  /\ UNCHANGED <<nSel, selected, cCurr, reject, smemAccum, newNbr, local>>

(* The entries are dealt out among the warps.                              *)
WriteList(w) ==
  /\ Goto(w, "write", "exit")
  /\ newNbr' = [k \in 1 .. R |-> IF k <= nSel /\ (k - 1) % NumWarps = w
                                 THEN selected[k] ELSE newNbr[k]]
  /\ UNCHANGED <<nSel, selected, cCurr, reject, smemAccum, newDeg, local>>

WarpNext(w) ==
  \/ Loop(w) \/ Propose(w) \/ ClearReject(w) \/ ReadCandidate(w) \/ ReadCount(w)
  \/ InnerOver(w) \/ InnerRejected(w) \/ StorePartial(w) \/ SumUp(w) \/ Judge(w)
  \/ Choose(w) \/ WriteDegree(w) \/ WriteList(w)

Exited == \A w \in Warps : pc[w] = "exit"
BlockOver == Exited /\ UNCHANGED vars

Next == (\E w \in Warps : WarpNext(w)) \/ Syncthreads \/ BlockOver

Spec == Init /\ [][Next]_vars

-----------------------------------------------------------------------------
(* Properties.                                                             *)

NewList == SubSeq(newNbr, 1, newDeg)

(* Every variable has its type; the survivors fit the list.                *)
TypeOK ==
  /\ nSel \in 0 .. R /\ newDeg \in 0 .. R
  /\ {selected, newNbr} \subseteq [1 .. R -> ToSet(cands) \cup {v}]
  /\ cCurr \in ToSet(cands) \cup {v} /\ reject \in BOOLEAN /\ apart \in BOOLEAN
  /\ smemAccum \in [Warps -> Nat]
  /\ {i, j} \subseteq [Warps -> Nat \ {0}] /\ currNSel \in [Warps -> 0 .. R]
  /\ c \in [Warps -> ToSet(cands) \cup {v}]

(* Even when the warps drift apart, a list that is written holds distinct  *)
(* candidates, nearest first, and the nearest of all is kept.              *)
ListInOrder ==
  Exited =>
    /\ newDeg > 0 /\ newNbr[1] = cands[1]
    /\ \A k, l \in 1 .. newDeg : k < l =>
         \E m, n \in DOMAIN cands : /\ m < n
                                    /\ newNbr[k] = cands[m] /\ newNbr[l] = cands[n]

(* fda_robust_prune.cuh:77: the survivors of the alpha-RNG are selected.   *)
SurvivorsSelected == Exited => NewList = Pruned(v, cands)

(* They are, as long as the warps stay together ...                        *)
SelectedIfTogether == Exited /\ ~apart => NewList = Pruned(v, cands)

(* ... and the only place where the warps can come apart is the first      *)
(* candidate, whose count of survivors one warp may read after warp 0 has  *)
(* selected it already.                                                    *)
ApartAtTheFirstOnly ==
  [][~apart /\ apart' => \E w \in Warps : i[w] = FirstCandidate]_vars
=============================================================================
