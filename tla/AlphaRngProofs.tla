---------------------------- MODULE AlphaRngProofs ----------------------------
(***************************************************************************)
(* Theorems about a block that prunes one list, for any number of warps,   *)
(* candidates and places, any distances and any alpha.                     *)
(***************************************************************************)
EXTENDS AlphaRng, RobustPruneProofs

-----------------------------------------------------------------------------
(* The types hold however the warps drift apart: warp 0 alone moves the    *)
(* candidate, the verdict and the survivors.                               *)

BlockPcs == {"zeroed", "loop", "propose", "clear", "set", "candidate", "count", "inner", "stored",
             "sum", "summed", "judge", "judged", "rejected", "choose", "chosen", "return", "counted",
             "write", "exit"}

(* With a candidate under test there is room for one more survivor.        *)
Finishing == {"zeroed", "loop", "chosen", "return", "counted", "write", "exit"}

TypeInv ==
  /\ v \in Vertices /\ cands \in Seq(Vertices) /\ Len(cands) > 0
  /\ pc \in [Warps -> BlockPcs]
  /\ TypeOK
  /\ pc[0] \notin Finishing => nSel < R
  /\ pc[0] = "propose" => i[0] <= Len(cands)

LEMMA WarpType == NumWarps \in Nat /\ NumWarps > 0 /\ 0 \in Warps
BY WarpAssumption DEF WarpAssumption, Warps

LEMMA TotalType ==
  ASSUME NEW f \in [Warps -> Nat]
  PROVE  Total(f) \in Nat
<1> DEFINE N == NumWarps
           step == [n \in 1 .. N |-> [s \in Nat |-> s + f[n - 1]]]
           Is(h) == h = [n \in 0 .. N |-> IF n = 0 THEN 0 ELSE h[n - 1] + f[n - 1]]
<1>1. N \in Nat /\ \A n \in 1 .. N : f[n - 1] \in Nat
  BY WarpType DEF Warps
<1>2. step \in [1 .. N -> [Nat -> Nat]]
  BY <1>1
<1>3. PICK g \in [0 .. N -> Nat] : g[0] = 0 /\ \A n \in 1 .. N : g[n] = step[n][g[n - 1]]
  <2> HIDE DEF step, N
  <2>1. \E g : StepsFrom(0, step, g, N, Nat)
    BY <1>1, <1>2, StepByStep
  <2> QED BY <2>1 DEF StepsFrom
<1>4. \A n \in 1 .. N : g[n] = g[n - 1] + f[n - 1]
  <2> SUFFICES ASSUME NEW n \in 1 .. N PROVE g[n] = g[n - 1] + f[n - 1]
    OBVIOUS
  <2>1. g[n - 1] \in Nat
    BY <1>1, <1>3
  <2> QED BY <1>3, <2>1
<1>5. Is(g)
  BY <1>1, <1>3, <1>4
<1> DEFINE total == CHOOSE h : Is(h)
<1>6. Is(total)
  BY <1>5
<1>7. Total(f) = total[N]
  BY DEF Total
<1> HIDE DEF total, step
<1> DEFINE Good == {n \in 0 .. N : total[n] \in Nat}
<1>8. 0 \in Good
  BY <1>1, <1>6
<1>9. ASSUME NEW n \in 0 .. N - 1, n \in Good PROVE n + 1 \in Good
  <2>1. n + 1 \in 1 .. N /\ n + 1 - 1 = n /\ f[n] \in Nat /\ total[n] \in Nat
    BY <1>1, <1>9 DEF Warps
  <2>2. total[n + 1] = total[n] + f[n]
    BY <1>1, <1>6, <2>1
  <2> QED BY <2>1, <2>2
<1> HIDE DEF Good, N
<1>10. 0 .. N \subseteq Good
  BY <1>1, <1>8, <1>9, UpTo
<1> QED BY <1>1, <1>7, <1>10 DEF Good

LEMMA DistanceTypes ==
  /\ \A u, x \in Vertices :
       Dist(u, x) \in Nat /\ Dist(u, x) = Total([w \in Warps |-> part[w][u, x]])
  /\ \A u, x \in Vertices : \A w \in Warps : part[w][u, x] \in Nat
<1> SUFFICES ASSUME NEW u \in Vertices, NEW x \in Vertices
             PROVE  /\ Dist(u, x) \in Nat /\ Dist(u, x) = Total([w \in Warps |-> part[w][u, x]])
                    /\ \A w \in Warps : part[w][u, x] \in Nat
  OBVIOUS
<1>1. /\ \A w \in Warps : part[w][u, x] \in Nat
      /\ Dist(u, x) = Total([w \in Warps |-> part[w][u, x]])
  BY PartAssumption DEF PartAssumption
<1> QED BY <1>1, TotalType

LEMMA TypesInitially == Init => TypeInv
<1> SUFFICES ASSUME Init PROVE TypeInv
  OBVIOUS
<1>1. PICK in \in Inputs :
        /\ v = in.v /\ cands = ByDistance(in.v, in.cands)
        /\ smemAccum = [w \in Warps |-> IF w = 0 THEN Dist(in.v, Last(in.cands))
                                        ELSE part[w][in.v, Last(in.cands)]]
  BY DEF Init
<1>2. in.v \in Vertices /\ in.cands \in Seq(Vertices) /\ Len(in.cands) > 0
  BY InputAssumption DEF InputAssumption
<1>3. Last(in.cands) \in Vertices
  BY <1>2, ElementOfSeq, LenProperties DEF Last
<1>4. cands \in Seq(Vertices) /\ Len(cands) > 0
  <2>1. Measured(in.v, in.cands)
    <3>1. \A k \in DOMAIN in.cands : in.cands[k] \in Vertices
      BY <1>2, ElementOfSeq, LenProperties
    <3> QED BY <1>2, <3>1, DistanceTypes DEF Measured
  <2> QED BY <1>1, <1>2, <2>1, SortedList
<1>5. smemAccum \in [Warps -> Nat]
  BY <1>1, <1>2, <1>3, DistanceTypes
<1>6. R \in Nat /\ R > 0
  BY RoomType
<1>7. /\ selected = [k \in 1 .. R |-> v] /\ newNbr = [k \in 1 .. R |-> v]
      /\ nSel = 0 /\ newDeg = 0 /\ cCurr = v /\ reject = FALSE /\ apart = FALSE
      /\ pc = [w \in Warps |-> "zeroed"] /\ c = [w \in Warps |-> v]
      /\ i = [w \in Warps |-> 1] /\ j = [w \in Warps |-> 1] /\ currNSel = [w \in Warps |-> 0]
  BY DEF Init, FirstCandidate
<1>8. TypeOK
  <2>1. 0 \in 0 .. R /\ 1 \in Nat \ {0} /\ v \in ToSet(cands) \cup {v}
    BY <1>6
  <2> QED BY <1>5, <1>7, <2>1 DEF TypeOK
<1> QED BY <1>1, <1>2, <1>4, <1>7, <1>8, WarpType DEF TypeInv, BlockPcs, Finishing

(* A warp that leaves a place for another.                                 *)
LEMMA Moves ==
  ASSUME TypeInv, NEW w \in Warps, NEW from, NEW to \in BlockPcs, Goto(w, from, to)
  PROVE  /\ pc' \in [Warps -> BlockPcs] /\ pc[w] = from /\ pc'[w] = to
         /\ \A x \in Warps : x # w => pc'[x] = pc[x]
         /\ v' = v /\ cands' = cands /\ apart' = apart
BY DEF Goto, TypeInv

(* A barrier that opens.                                                   *)
LEMMA Opens ==
  ASSUME pc \in [Warps -> BlockPcs], Syncthreads
  PROVE  /\ pc' \in [Warps -> BlockPcs]
         /\ \A w \in Warps :
              \/ pc[w] = "exit" /\ pc'[w] = "exit"
              \/ pc[w] = "zeroed" /\ pc'[w] = "loop"
              \/ pc[w] = "set" /\ pc'[w] = "candidate"
              \/ pc[w] = "stored" /\ pc'[w] = "sum"
              \/ pc[w] = "summed" /\ pc'[w] = "judge"
              \/ pc[w] = "judged" /\ pc'[w] = "inner"
              \/ pc[w] = "rejected" /\ pc'[w] = "choose"
              \/ pc[w] = "chosen" /\ pc'[w] = "loop"
              \/ pc[w] = "counted" /\ pc'[w] = "write"
<1> DEFINE Step(p, q) ==
      \/ p = "exit" /\ q = "exit"
      \/ p = "zeroed" /\ q = "loop"
      \/ p = "set" /\ q = "candidate"
      \/ p = "stored" /\ q = "sum"
      \/ p = "summed" /\ q = "judge"
      \/ p = "judged" /\ q = "inner"
      \/ p = "rejected" /\ q = "choose"
      \/ p = "chosen" /\ q = "loop"
      \/ p = "counted" /\ q = "write"
<1>1. \A p \in DOMAIN After : Step(p, After[p])
  BY DEF After
<1>2. ASSUME NEW w \in Warps PROVE Step(pc[w], pc'[w]) /\ pc'[w] \in BlockPcs
  <2>1. CASE w \in Waiting
    <3>1. pc[w] \in DOMAIN After /\ pc'[w] = After[pc[w]]
      BY <2>1 DEF Waiting, Syncthreads
    <3> QED BY <1>1, <3>1 DEF BlockPcs
  <2>2. CASE w \notin Waiting
    <3>1. pc[w] = "exit" /\ pc'[w] = pc[w]
      BY <2>2 DEF Syncthreads
    <3> QED BY <3>1 DEF BlockPcs
  <2> QED BY <2>1, <2>2
<1>3. pc' \in [Warps -> BlockPcs]
  BY <1>2 DEF Syncthreads
<1> QED BY <1>2, <1>3

LEMMA TypesKept ==
  ASSUME TypeInv, [Next]_vars
  PROVE  TypeInv'
<1> USE WarpType, RoomType
<1> DEFINE Known == ToSet(cands) \cup {v}
<1>1. /\ v \in Vertices /\ cands \in Seq(Vertices) /\ Len(cands) \in Nat /\ Len(cands) > 0
      /\ Known \subseteq Vertices
      /\ pc \in [Warps -> BlockPcs]
      /\ \A k \in 1 .. Len(cands) : cands[k] \in ToSet(cands)
  BY EntriesOf DEF TypeInv
<1>2. /\ nSel \in 0 .. R /\ newDeg \in 0 .. R
      /\ selected \in [1 .. R -> Known] /\ newNbr \in [1 .. R -> Known]
      /\ cCurr \in Known /\ reject \in BOOLEAN /\ apart \in BOOLEAN
      /\ smemAccum \in [Warps -> Nat]
      /\ i \in [Warps -> Nat \ {0}] /\ j \in [Warps -> Nat \ {0}] /\ currNSel \in [Warps -> 0 .. R]
      /\ c \in [Warps -> Known]
      /\ pc[0] \notin Finishing => nSel < R
      /\ pc[0] = "propose" => i[0] <= Len(cands)
  BY DEF TypeInv, TypeOK
<1>3. ASSUME v' = v, cands' = cands, pc' \in [Warps -> BlockPcs],
             nSel' \in 0 .. R, newDeg' \in 0 .. R,
             selected' \in [1 .. R -> Known], newNbr' \in [1 .. R -> Known],
             cCurr' \in Known, reject' \in BOOLEAN, apart' \in BOOLEAN,
             smemAccum' \in [Warps -> Nat],
             i' \in [Warps -> Nat \ {0}], j' \in [Warps -> Nat \ {0}],
             currNSel' \in [Warps -> 0 .. R], c' \in [Warps -> Known],
             pc'[0] \notin Finishing => nSel' < R,
             pc'[0] = "propose" => i'[0] <= Len(cands)
      PROVE  TypeInv'
  BY <1>1, <1>3 DEF TypeInv, TypeOK
<1> HIDE DEF Known
<1>4. ASSUME NEW w \in Warps, WarpNext(w) PROVE TypeInv'
  <2> USE <1>1, <1>2
  <2> DEFINE Moved == /\ pc' \in [Warps -> BlockPcs]
                      /\ \A x \in Warps : x # w => pc'[x] = pc[x]
                      /\ v' = v /\ cands' = cands /\ apart' = apart
  <2>1. CASE Loop(w)
    <3>1. /\ Moved /\ pc[w] = "loop"
          /\ pc'[w] = IF i[w] <= Len(cands) /\ nSel < R THEN "propose" ELSE "return"
      BY <2>1, Moves DEF Loop, BlockPcs, HasRoom
    <3>2. UNCHANGED <<shared, local>>
      BY <2>1 DEF Loop
    <3> QED BY <1>3, <3>1, <3>2 DEF shared, local, Finishing
  <2>2. CASE Propose(w)
    <3>1. Moved /\ pc[w] = "propose" /\ pc'[w] \in {"clear", "set"}
      BY <2>2, Moves DEF Propose, BlockPcs, AfterPropose
    <3>2. cCurr' \in Known
      <4>1. w = 0 => cands[i[w]] \in Known
        BY <3>1 DEF Known
      <4> QED BY <2>2, <4>1 DEF Propose
    <3> QED BY <1>3, <2>2, <3>1, <3>2 DEF Propose, local, Finishing
  <2>3. CASE ClearReject(w)
    <3>1. Moved /\ pc[w] = "clear" /\ pc'[w] = "set"
      BY <2>3, Moves DEF ClearReject, BlockPcs, AfterPropose
    <3> QED BY <1>3, <2>3, <3>1 DEF ClearReject, local, Finishing
  <2>4. CASE ReadCandidate(w)
    <3>1. Moved /\ pc[w] = "candidate" /\ pc'[w] = "count"
      BY <2>4, Moves DEF ReadCandidate, BlockPcs
    <3> QED BY <1>3, <2>4, <3>1 DEF ReadCandidate, shared, Finishing
  <2>5. CASE ReadCount(w)
    <3>1. Moved /\ pc[w] = "count" /\ pc'[w] = "inner"
      BY <2>5, Moves DEF ReadCount, BlockPcs
    <3>2. /\ j' \in [Warps -> Nat \ {0}] /\ currNSel' \in [Warps -> 0 .. R]
          /\ UNCHANGED <<shared, i, c>>
      BY <2>5 DEF ReadCount
    <3> QED BY <1>3, <3>1, <3>2 DEF shared, Finishing
  <2>6. CASE InnerOver(w)
    <3>1. Moved /\ pc[w] = "inner" /\ pc'[w] = "choose"
      BY <2>6, Moves DEF InnerOver, BlockPcs
    <3> QED BY <1>3, <2>6, <3>1 DEF InnerOver, shared, local, Finishing
  <2>7. CASE InnerRejected(w)
    <3>1. Moved /\ pc[w] = "inner" /\ pc'[w] = "rejected"
      BY <2>7, Moves DEF InnerRejected, BlockPcs
    <3> QED BY <1>3, <2>7, <3>1 DEF InnerRejected, shared, local, Finishing
  <2>8. CASE StorePartial(w)
    <3>1. Moved /\ pc[w] = "inner" /\ pc'[w] = "stored"
      BY <2>8, Moves DEF StorePartial, BlockPcs, AfterStore
    <3>2. selected[j[w]] \in Vertices /\ c[w] \in Vertices
      <4>1. j[w] \in Nat \ {0} /\ currNSel[w] \in 0 .. R /\ j[w] <= currNSel[w]
        BY <2>8 DEF StorePartial
      <4>2. j[w] \in 1 .. R /\ c[w] \in Known
        BY <4>1
      <4> QED BY <4>2
    <3>3. smemAccum' \in [Warps -> Nat]
      BY <2>8, <3>2, DistanceTypes DEF StorePartial
    <3> QED BY <1>3, <2>8, <3>1, <3>3 DEF StorePartial, local, Finishing
  <2>9. CASE SumUp(w)
    <3>1. Moved /\ pc[w] = "sum" /\ pc'[w] = "summed"
      BY <2>9, Moves DEF SumUp, BlockPcs
    <3>2. smemAccum' \in [Warps -> Nat]
      BY <2>9, TotalType DEF SumUp
    <3> QED BY <1>3, <2>9, <3>1, <3>2 DEF SumUp, local, Finishing
  <2>10. CASE Judge(w)
    <3>1. Moved /\ pc[w] = "judge" /\ pc'[w] = "judged"
      BY <2>10, Moves DEF Judge, BlockPcs
    <3>2. /\ reject' \in BOOLEAN
          /\ UNCHANGED <<nSel, selected, cCurr, smemAccum, newDeg, newNbr, i, c, currNSel>>
      BY <2>10 DEF Judge
    <3>3. j' \in [Warps -> Nat \ {0}]
      BY <2>10 DEF Judge
    <3> QED BY <1>3, <3>1, <3>2, <3>3 DEF Finishing
  <2>11. CASE Choose(w)
    <3>1. Moved /\ pc[w] = "choose" /\ pc'[w] = "chosen"
      BY <2>11, Moves DEF Choose, BlockPcs
    <3>2. nSel' \in 0 .. R /\ selected' \in [1 .. R -> Known]
      BY <2>11, <3>1 DEF Choose, Finishing
    <3>3. w # 0 => nSel' = nSel
      BY <2>11 DEF Choose
    <3>4. i' \in [Warps -> Nat \ {0}]
      BY <2>11 DEF Choose
    <3>5. UNCHANGED <<cCurr, reject, smemAccum, newDeg, newNbr, j, c, currNSel>>
      BY <2>11 DEF Choose
    <3>6. /\ pc'[0] \notin Finishing => nSel' < R
          /\ pc'[0] # "propose" \/ (pc[0] = "propose" /\ i'[0] = i[0])
      <4>1. CASE w = 0
        BY <3>1, <4>1 DEF Finishing
      <4>2. CASE w # 0
        BY <2>11, <3>1, <3>3, <4>2 DEF Choose
      <4> QED BY <4>1, <4>2
    <3> QED BY <1>3, <3>1, <3>2, <3>4, <3>5, <3>6
  <2>12. CASE WriteDegree(w)
    <3>1. Moved /\ pc[w] = "return" /\ pc'[w] = "counted"
      BY <2>12, Moves DEF WriteDegree, BlockPcs
    <3> QED BY <1>3, <2>12, <3>1 DEF WriteDegree, local, Finishing
  <2>13. CASE WriteList(w)
    <3>1. Moved /\ pc[w] = "write" /\ pc'[w] = "exit"
      BY <2>13, Moves DEF WriteList, BlockPcs
    <3>2. newNbr' \in [1 .. R -> Known]
      BY <2>13 DEF WriteList
    <3> QED BY <1>3, <2>13, <3>1, <3>2 DEF WriteList, local, Finishing
  <2> QED BY <1>4, <2>1, <2>2, <2>3, <2>4, <2>5, <2>6, <2>7, <2>8, <2>9, <2>10, <2>11, <2>12, <2>13
          DEF WarpNext
<1>5. ASSUME Syncthreads PROVE TypeInv'
  <2>1. UNCHANGED <<v, cands, shared, local>> /\ apart' \in BOOLEAN
    BY <1>2, <1>5 DEF Syncthreads
  <2>2. /\ pc' \in [Warps -> BlockPcs]
        /\ pc'[0] # "propose" /\ (pc'[0] \notin Finishing => pc[0] \notin Finishing)
    BY <1>1, <1>5, Opens DEF Finishing
  <2> QED BY <1>2, <1>3, <2>1, <2>2 DEF shared, local
<1>6. CASE UNCHANGED vars
  BY <1>1, <1>2, <1>3, <1>6 DEF vars, shared, local
<1> QED BY <1>4, <1>5, <1>6 DEF Next, BlockOver

-----------------------------------------------------------------------------
(* As long as every barrier has released all warps from one place, they    *)
(* are all between the same two barriers, with the same loop counters.     *)

(* The survivors among the first n candidates.                             *)
IsSelection(f) ==
  /\ f \in [0 .. Len(cands) -> Seq(Vertices)]
  /\ f[0] = <<>>
  /\ \A n \in 1 .. Len(cands) : f[n] = Select(v, f[n - 1], cands[n])

Holds(count, list, sel) == count = Len(sel) /\ \A k \in 1 .. count : list[k] = sel[k]
Holding(f, n) == Holds(nSel, selected, f[n])
CoveredBefore(f, n, m) == \E l \in 1 .. m - 1 : Covers(v, f[n - 1][l], cands[n])

AtStart(f) ==
  /\ \A w \in Warps : i[w] = 1 /\ j[w] = 1 /\ pc[w] = "zeroed"
  /\ Holding(f, 0)

AtLoop(f, n, m) ==
  /\ n <= Len(cands) + 1 /\ (n > 1 => nSel > 0) /\ Holding(f, n - 1)
  /\ \A w \in Warps :
       /\ i[w] = n /\ j[w] = m
       /\ pc[w] \in {"loop"} \cup (IF n <= Len(cands) /\ nSel < R
                                   THEN {"propose", "clear", "set"} ELSE {"return", "counted"})
  /\ pc[0] \in {"clear", "set"} => cCurr = cands[n]
  /\ pc[0] = "set" => ~reject
  /\ pc[0] = "counted" => newDeg = nSel

(* The first candidate is selected without a test.                         *)
AtFirst(f) ==
  /\ ~reject /\ cCurr = cands[1]
  /\ Holding(f, IF pc[0] = "chosen" THEN 1 ELSE 0)
  /\ \A w \in Warps :
       /\ i[w] = IF pc[w] = "chosen" THEN 2 ELSE 1
       /\ pc[w] \in {"candidate", "count", "inner", "stored", "choose", "chosen"}
       /\ pc[w] # "candidate" => c[w] = cands[1]
       /\ pc[w] \notin {"candidate", "count"} => j[w] = 1
  /\ pc[0] # "stored" /\ (pc[0] = "inner" => currNSel[0] = 0)

AtTest(f, n) ==
  /\ n <= Len(cands) /\ nSel > 0 /\ nSel < R /\ Holding(f, n - 1)

AtRead(f, n) ==
  /\ AtTest(f, n) /\ ~reject /\ cCurr = cands[n]
  /\ \A w \in Warps :
       /\ i[w] = n
       /\ pc[w] \in {"candidate", "count", "inner", "stored"}
       /\ pc[w] # "candidate" => c[w] = cands[n]
       /\ pc[w] \in {"inner", "stored"} => j[w] = 1 /\ currNSel[w] = nSel
       /\ pc[w] = "stored" => smemAccum[w] = part[w][selected[1], cands[n]]

AtSum(f, n, m) ==
  /\ AtTest(f, n) /\ m <= nSel /\ ~reject /\ ~CoveredBefore(f, n, m)
  /\ \A w \in Warps :
       /\ i[w] = n /\ j[w] = m /\ c[w] = cands[n] /\ currNSel[w] = nSel
       /\ pc[w] \in {"sum", "summed"}
  /\ IF pc[0] = "sum" THEN \A w \in Warps : smemAccum[w] = part[w][selected[m], cands[n]]
     ELSE smemAccum[0] = Dist(selected[m], cands[n])

AtJudge(f, n, m) ==
  /\ AtTest(f, n) /\ m <= nSel /\ smemAccum[0] = Dist(selected[m], cands[n])
  /\ \A w \in Warps :
       /\ i[w] = n /\ c[w] = cands[n] /\ currNSel[w] = nSel
       /\ pc[w] \in {"judge", "judged"}
       /\ j[w] = IF pc[w] = "judged" THEN m + 1 ELSE m
  /\ reject = CoveredBefore(f, n, IF pc[0] = "judged" THEN m + 1 ELSE m)
  /\ pc[0] = "judge" => ~reject

AtTurn(f, n, m) ==
  LET found == Len(f[n - 1])
  IN  /\ n <= Len(cands) /\ found > 0 /\ found < R
      /\ m <= found + 1 /\ reject = CoveredBefore(f, n, m)
      /\ Holding(f, IF pc[0] = "chosen" THEN n ELSE n - 1)
      /\ \A w \in Warps :
           /\ i[w] = IF pc[w] = "chosen" THEN n + 1 ELSE n
           /\ j[w] = m /\ c[w] = cands[n] /\ currNSel[w] = found
           /\ pc[w] \in {"inner"} \cup (IF found < m THEN {"choose", "chosen"}
                                        ELSE IF reject THEN {"rejected"} ELSE {"stored"})
           /\ pc[w] = "stored" => smemAccum[w] = part[w][selected[m], cands[n]]

AtRejected(f, n, m) ==
  /\ AtTest(f, n) /\ reject /\ m <= nSel /\ CoveredBefore(f, n, m)
  /\ \A w \in Warps :
       /\ i[w] = IF pc[w] = "chosen" THEN n + 1 ELSE n
       /\ j[w] = m /\ pc[w] \in {"choose", "chosen"}

AtWrite(f) ==
  /\ newDeg = nSel /\ Holding(f, Len(cands))
  /\ \A w \in Warps :
       /\ pc[w] \in {"write", "exit"}
       /\ pc[w] = "exit" =>
            \A k \in 1 .. nSel : (k - 1) % NumWarps = w => newNbr[k] = selected[k]

AtOnePlace(f, n, m) ==
  \/ AtStart(f) \/ AtLoop(f, n, m) \/ AtFirst(f)
  \/ AtRead(f, n) \/ AtSum(f, n, m) \/ AtJudge(f, n, m) \/ AtTurn(f, n, m) \/ AtRejected(f, n, m)
  \/ AtWrite(f)

InStep(f) == \E n, m \in Nat \ {0} : AtOnePlace(f, n, m)
Together == ~apart => \A f : IsSelection(f) => InStep(f)

-----------------------------------------------------------------------------
(* The selection.                                                          *)

LEMMA SelectionIs ==
  ASSUME TypeInv, NEW f, IsSelection(f)
  PROVE  /\ Len(cands) \in Nat \ {0} /\ \A n \in 1 .. Len(cands) : cands[n] \in Vertices
         /\ \A n \in 0 .. Len(cands) :
              f[n] \in Seq(Vertices) /\ Len(f[n]) \in Nat /\ DOMAIN f[n] = 1 .. Len(f[n])
         /\ \A n \in 0 .. Len(cands) : \A k \in 1 .. Len(f[n]) : f[n][k] \in Vertices
<1>1. cands \in Seq(Vertices) /\ Len(cands) > 0
  BY DEF TypeInv
<1>2. Len(cands) \in Nat \ {0} /\ \A n \in 1 .. Len(cands) : cands[n] \in Vertices
  BY <1>1, EntriesOf
<1>3. ASSUME NEW n \in 0 .. Len(cands)
      PROVE  /\ f[n] \in Seq(Vertices) /\ Len(f[n]) \in Nat /\ DOMAIN f[n] = 1 .. Len(f[n])
             /\ \A k \in 1 .. Len(f[n]) : f[n][k] \in Vertices
  <2>1. f[n] \in Seq(Vertices)
    BY DEF IsSelection
  <2> QED BY <2>1, EntriesOf
<1> QED BY <1>2, <1>3

(* A candidate that a survivor covers leaves them as they are; one that    *)
(* none covers becomes the next, if there is room.                         *)
LEMMA NextSelected ==
  ASSUME TypeInv, NEW f, IsSelection(f), NEW n \in 1 .. Len(cands), Len(f[n - 1]) < R
  PROVE  /\ CoveredBefore(f, n, Len(f[n - 1]) + 1) => f[n] = f[n - 1]
         /\ ~CoveredBefore(f, n, Len(f[n - 1]) + 1) =>
              /\ Len(f[n]) = Len(f[n - 1]) + 1
              /\ \A k \in 1 .. Len(f[n - 1]) : f[n][k] = f[n - 1][k]
              /\ f[n][Len(f[n - 1]) + 1] = cands[n]
<1>1. n - 1 \in 0 .. Len(cands) /\ cands[n] \in Vertices
  BY SelectionIs
<1>2. PICK sel \in Seq(Vertices) : sel = f[n - 1] /\ Len(sel) \in Nat /\ DOMAIN sel = 1 .. Len(sel)
  BY <1>1, SelectionIs
<1>3. f[n] = Select(v, sel, cands[n])
  BY <1>2 DEF IsSelection
<1>4. CoveredBefore(f, n, Len(sel) + 1) <=> \E l \in DOMAIN sel : Covers(v, sel[l], cands[n])
  BY <1>2 DEF CoveredBefore
<1>5. CASE CoveredBefore(f, n, Len(sel) + 1)
  BY <1>2, <1>3, <1>4, <1>5 DEF Select
<1>6. CASE ~CoveredBefore(f, n, Len(sel) + 1)
  <2>1. f[n] = Append(sel, cands[n])
    BY <1>2, <1>3, <1>4, <1>6 DEF Select
  <2> QED BY <1>1, <1>2, <1>6, <2>1, AppendProperties
<1> QED BY <1>2, <1>5, <1>6

(* Without room nothing is added any more.                                 *)
LEMMA FullStays ==
  ASSUME TypeInv, NEW f, IsSelection(f), NEW n \in 0 .. Len(cands), Len(f[n]) = R
  PROVE  f[Len(cands)] = f[n]
<1>1. Len(cands) \in Nat
  BY SelectionIs
<1> DEFINE Good == {k \in 0 .. Len(cands) : n <= k => f[k] = f[n]}
<1>2. 0 \in Good
  BY <1>1
<1>3. ASSUME NEW k \in 0 .. Len(cands) - 1, k \in Good PROVE k + 1 \in Good
  <2>1. CASE n <= k
    <3>1. f[k] = f[n] /\ k + 1 \in 1 .. Len(cands) /\ k + 1 - 1 = k
      BY <1>1, <1>3, <2>1
    <3>2. f[k + 1] = Select(v, f[n], cands[k + 1])
      BY <3>1 DEF IsSelection
    <3>3. f[k + 1] = f[n]
      BY <3>2, RoomType DEF Select
    <3> QED BY <3>1, <3>3
  <2>2. CASE ~(n <= k)
    <3>1. k + 1 \in 0 .. Len(cands) /\ (n <= k + 1 => k + 1 = n)
      BY <1>1, <2>2
    <3> QED BY <3>1
  <2> QED BY <2>1, <2>2
<1> HIDE DEF Good
<1>4. 0 .. Len(cands) \subseteq Good
  BY <1>1, <1>2, <1>3, UpTo
<1>5. Len(cands) \in Good /\ n <= Len(cands)
  BY <1>1, <1>4
<1> QED BY <1>5 DEF Good

(* Sorted candidates are in place.                                         *)
LEMMA SortedStays ==
  ASSUME NEW anchor, NEW S, NEW list \in Seq(S), Measured(anchor, list),
         \A p, q \in DOMAIN list : p < q => Dist(anchor, list[p]) <= Dist(anchor, list[q])
  PROVE  ByDistance(anchor, list) = list
<1>1. Len(list) \in Nat /\ DOMAIN list = 1 .. Len(list)
  BY LenProperties
<1>2. ASSUME NEW p \in DOMAIN list PROVE Place(anchor, list, p) = p
  <2>1. {q \in DOMAIN list : Precedes(anchor, list, q, p)} = 1 .. p - 1
    <3>1. ASSUME NEW q \in DOMAIN list PROVE Precedes(anchor, list, q, p) <=> q < p
      <4>1. Dist(anchor, list[p]) \in Nat /\ Dist(anchor, list[q]) \in Nat
        BY DEF Measured
      <4>2. /\ q < p => Dist(anchor, list[q]) <= Dist(anchor, list[p])
            /\ p < q => Dist(anchor, list[p]) <= Dist(anchor, list[q])
        OBVIOUS
      <4> QED BY <1>1, <4>1, <4>2 DEF Precedes
    <3> QED BY <1>1, <3>1
  <2>2. Cardinality(1 .. p - 1) = p - 1
    BY <1>1, FS_Interval
  <2>3. Place(anchor, list, p) = 1 + Cardinality(1 .. p - 1)
    BY <2>1 DEF Place
  <2> QED BY <1>1, <2>2, <2>3
<1>3. ASSUME NEW p \in DOMAIN list
      PROVE  (CHOOSE q \in DOMAIN list : Place(anchor, list, q) = p) = p
  BY <1>2
<1>4. list = [p \in DOMAIN list |-> list[p]]
  BY <1>1
<1> QED BY <1>3, <1>4 DEF ByDistance

Ascends == \A p, q \in DOMAIN cands : p < q => Dist(v, cands[p]) <= Dist(v, cands[q])

LEMMA SelectionExists ==
  ASSUME TypeInv, Ascends
  PROVE  \E f : IsSelection(f) /\ Pruned(v, cands) = f[Len(cands)]
<1>1. v \in Vertices /\ cands \in Seq(Vertices)
  BY DEF TypeInv
<1>2. \A k \in DOMAIN cands : cands[k] \in Vertices
  BY <1>1, EntriesOf
<1>3. Measured(v, cands)
  BY <1>1, <1>2, DistanceTypes DEF Measured
<1>4. cands = ByDistance(v, cands)
  BY <1>1, <1>3, SortedStays DEF Ascends
<1>5. \E f \in [0 .. Len(cands) -> Seq(Vertices)] :
        /\ f[0] = <<>>
        /\ \A n \in 1 .. Len(cands) : f[n] = Select(v, f[n - 1], cands[n])
        /\ Pruned(v, cands) = f[Len(cands)]
  BY <1>1, <1>4, PrunedStepByStep
<1> QED BY <1>5 DEF IsSelection

-----------------------------------------------------------------------------
(* Steps, place by place.                                                  *)

LEMMA WarpSteps ==
  ASSUME NEW w \in Warps, WarpNext(w)
  PROVE  \/ pc[w] = "loop" /\ Loop(w)
         \/ pc[w] = "propose" /\ Propose(w)
         \/ pc[w] = "clear" /\ ClearReject(w)
         \/ pc[w] = "candidate" /\ ReadCandidate(w)
         \/ pc[w] = "count" /\ ReadCount(w)
         \/ pc[w] = "inner" /\ (InnerOver(w) \/ InnerRejected(w) \/ StorePartial(w))
         \/ pc[w] = "sum" /\ SumUp(w)
         \/ pc[w] = "judge" /\ Judge(w)
         \/ pc[w] = "choose" /\ Choose(w)
         \/ pc[w] = "return" /\ WriteDegree(w)
         \/ pc[w] = "write" /\ WriteList(w)
<1>1. /\ Loop(w) => pc[w] = "loop"
      /\ Propose(w) => pc[w] = "propose"
      /\ ClearReject(w) => pc[w] = "clear"
      /\ ReadCandidate(w) => pc[w] = "candidate"
  BY DEF Loop, Propose, ClearReject, ReadCandidate, Goto
<1>2. /\ ReadCount(w) => pc[w] = "count"
      /\ InnerOver(w) \/ InnerRejected(w) \/ StorePartial(w) => pc[w] = "inner"
  BY DEF ReadCount, InnerOver, InnerRejected, StorePartial, Goto
<1>3. SumUp(w) => pc[w] = "sum"
  BY DEF SumUp, Goto
<1>4. Judge(w) => pc[w] = "judge"
  BY DEF Judge, Goto
<1>5. Choose(w) => pc[w] = "choose"
  BY DEF Choose, Goto
<1>6. WriteDegree(w) => pc[w] = "return"
  BY DEF WriteDegree, Goto
<1>7. WriteList(w) => pc[w] = "write"
  BY DEF WriteList, Goto
<1> QED BY <1>1, <1>2, <1>3, <1>4, <1>5, <1>6, <1>7 DEF WarpNext

LEMMA Types ==
  ASSUME TypeInv
  PROVE  /\ nSel \in Nat /\ nSel <= R /\ R \in Nat /\ R > 0 /\ Len(cands) \in Nat /\ Len(cands) > 0
         /\ pc \in [Warps -> BlockPcs] /\ 0 \in Warps /\ NumWarps \in Nat
         /\ i \in [Warps -> Nat \ {0}] /\ j \in [Warps -> Nat \ {0}]
         /\ currNSel \in [Warps -> 0 .. R] /\ DOMAIN c = Warps
         /\ smemAccum \in [Warps -> Nat] /\ reject \in BOOLEAN /\ apart \in BOOLEAN
         /\ DOMAIN selected = 1 .. R /\ DOMAIN newNbr = 1 .. R
BY RoomType, WarpType, LenProperties DEF TypeInv, TypeOK

LEMMA SelectedVertices ==
  ASSUME TypeInv, NEW k \in 1 .. nSel
  PROVE  selected[k] \in Vertices
<1>1. v \in Vertices /\ ToSet(cands) \subseteq Vertices
  BY EntriesOf DEF TypeInv
<1>2. k \in 1 .. R /\ selected \in [1 .. R -> ToSet(cands) \cup {v}]
  BY Types DEF TypeInv, TypeOK
<1> QED BY <1>1, <1>2

LEMMA LoopStep ==
  ASSUME TypeInv, NEW f, NEW n \in Nat \ {0}, NEW m \in Nat \ {0}, AtLoop(f, n, m),
         NEW w \in Warps, WarpNext(w)
  PROVE  AtLoop(f, n, m)'
<1> USE Types
<1> DEFINE Places == {"loop"} \cup (IF n <= Len(cands) /\ nSel < R
                                   THEN {"propose", "clear", "set"} ELSE {"return", "counted"})
<1>1. /\ n <= Len(cands) + 1 /\ (n > 1 => nSel > 0) /\ Holding(f, n - 1)
      /\ \A x \in Warps : i[x] = n /\ j[x] = m /\ pc[x] \in Places
      /\ pc[0] \in {"clear", "set"} => cCurr = cands[n]
      /\ pc[0] = "set" => ~reject
      /\ pc[0] = "counted" => newDeg = nSel
  BY DEF AtLoop
<1>2. ASSUME UNCHANGED <<v, cands, nSel, selected, i, j>>,
             \A x \in Warps : pc'[x] \in Places,
             pc'[0] \in {"clear", "set"} => cCurr' = cands[n],
             pc'[0] = "set" => ~reject',
             pc'[0] = "counted" => newDeg' = nSel
      PROVE  AtLoop(f, n, m)'
  BY <1>1, <1>2 DEF AtLoop, Holding
<1> HIDE DEF Places
<1> DEFINE Moved(to) == /\ pc'[w] = to /\ \A x \in Warps : x # w => pc'[x] = pc[x]
                        /\ v' = v /\ cands' = cands
<1>3. pc[w] \in {"loop", "propose", "clear", "set", "return", "counted"}
  BY <1>1 DEF Places
<1>4. CASE pc[w] = "loop" /\ Loop(w)
  <2>1. /\ Moved(IF i[w] <= Len(cands) /\ nSel < R THEN "propose" ELSE "return")
        /\ UNCHANGED <<shared, local>>
    BY <1>4, Moves DEF Loop, HasRoom, BlockPcs
  <2>2. pc'[w] \in Places /\ pc'[w] \in {"propose", "return"}
    BY <1>1, <2>1 DEF Places
  <2> QED BY <1>1, <1>2, <2>1, <2>2 DEF shared, local
<1>5. CASE pc[w] = "propose" /\ Propose(w)
  <2>1. Moved(IF w = 0 THEN "clear" ELSE "set")
    BY <1>5, Moves DEF Propose, AfterPropose, BlockPcs
  <2>2. pc'[w] \in Places
    BY <1>1, <1>5, <2>1 DEF Places
  <2>3. UNCHANGED <<nSel, selected, reject, newDeg, i, j>> /\ cCurr' = IF w = 0 THEN cands[n] ELSE cCurr
    BY <1>1, <1>5 DEF Propose, local
  <2> QED BY <1>1, <1>2, <2>1, <2>2, <2>3
<1>6. CASE pc[w] = "clear" /\ ClearReject(w)
  <2>1. Moved("set")
    BY <1>6, Moves DEF ClearReject, AfterPropose, BlockPcs
  <2>2. pc'[w] \in Places
    BY <1>1, <1>6, <2>1 DEF Places
  <2>3. UNCHANGED <<nSel, selected, cCurr, newDeg, i, j>> /\ reject' = FALSE
    BY <1>6 DEF ClearReject, local
  <2> QED BY <1>1, <1>2, <1>6, <2>1, <2>2, <2>3
<1>7. CASE pc[w] = "return" /\ WriteDegree(w)
  <2>1. Moved("counted")
    BY <1>7, Moves DEF WriteDegree, BlockPcs
  <2>2. pc'[w] \in Places
    BY <1>1, <1>7, <2>1 DEF Places
  <2>3. UNCHANGED <<nSel, selected, cCurr, reject, i, j>> /\ newDeg' = IF w = 0 THEN nSel ELSE newDeg
    BY <1>7 DEF WriteDegree, local
  <2> QED BY <1>1, <1>2, <1>7, <2>1, <2>2, <2>3
<1> QED BY <1>3, <1>4, <1>5, <1>6, <1>7, WarpSteps

LEMMA FirstStep ==
  ASSUME TypeInv, NEW f, IsSelection(f), AtFirst(f), NEW w \in Warps, WarpNext(w)
  PROVE  AtFirst(f)'
<1> USE Types
<1> DEFINE Places == {"candidate", "count", "inner", "stored", "choose", "chosen"}
<1>1. /\ ~reject /\ cCurr = cands[1]
      /\ Holding(f, IF pc[0] = "chosen" THEN 1 ELSE 0)
      /\ \A x \in Warps :
           /\ i[x] = IF pc[x] = "chosen" THEN 2 ELSE 1
           /\ pc[x] \in Places
           /\ pc[x] # "candidate" => c[x] = cands[1]
           /\ pc[x] \notin {"candidate", "count"} => j[x] = 1
      /\ pc[0] # "stored" /\ (pc[0] = "inner" => currNSel[0] = 0)
  BY DEF AtFirst
<1>2. Len(f[0]) = 0
  BY DEF IsSelection
<1>3. pc[0] # "chosen" => nSel = 0
  BY <1>1, <1>2 DEF Holding, Holds
<1> DEFINE Moved(to) == /\ pc'[w] = to /\ \A x \in Warps : x # w => pc'[x] = pc[x]
                        /\ v' = v /\ cands' = cands
<1>4. ASSUME UNCHANGED <<v, cands, reject, cCurr>>,
             Holds(nSel', selected', f[IF pc'[0] = "chosen" THEN 1 ELSE 0]),
             \A x \in Warps : x # w => pc'[x] = pc[x] /\ i'[x] = i[x] /\ c'[x] = c[x] /\ j'[x] = j[x],
             currNSel'[0] = IF w = 0 THEN currNSel'[0] ELSE currNSel[0],
             i'[w] = IF pc'[w] = "chosen" THEN 2 ELSE 1, pc'[w] \in Places,
             pc'[w] # "candidate" => c'[w] = cands[1],
             pc'[w] \notin {"candidate", "count"} => j'[w] = 1,
             w = 0 => pc'[0] # "stored" /\ (pc'[0] = "inner" => currNSel'[0] = 0)
      PROVE  AtFirst(f)'
  <2>1. \A x \in Warps :
           /\ i'[x] = IF pc'[x] = "chosen" THEN 2 ELSE 1
           /\ pc'[x] \in Places
           /\ pc'[x] # "candidate" => c'[x] = cands[1]
           /\ pc'[x] \notin {"candidate", "count"} => j'[x] = 1
    BY <1>1, <1>4
  <2>2. pc'[0] # "stored" /\ (pc'[0] = "inner" => currNSel'[0] = 0)
    BY <1>1, <1>4
  <2> QED BY <1>1, <1>4, <2>1, <2>2 DEF AtFirst, Holding
<1>5. ASSUME UNCHANGED <<v, cands, nSel, selected>>, pc'[0] = pc[0] \/ (pc[0] # "chosen" /\ pc'[0] # "chosen")
      PROVE  Holds(nSel', selected', f[IF pc'[0] = "chosen" THEN 1 ELSE 0])
  BY <1>1, <1>5 DEF Holding, Holds
<1> HIDE DEF Places
<1>6. pc[w] \in {"candidate", "count", "inner", "choose"}
  BY <1>1, WarpSteps DEF Places
<1>7. CASE pc[w] = "candidate" /\ ReadCandidate(w)
  <2>1. Moved("count")
    BY <1>7, Moves DEF ReadCandidate, BlockPcs
  <2>2. UNCHANGED <<nSel, selected, reject, cCurr, i, j, currNSel>> /\ c' = [c EXCEPT ![w] = cCurr]
    BY <1>7 DEF ReadCandidate, shared
  <2>3. Holds(nSel', selected', f[IF pc'[0] = "chosen" THEN 1 ELSE 0])
    BY <1>5, <1>7, <2>1, <2>2
  <2> QED BY <1>1, <1>4, <1>7, <2>1, <2>2, <2>3 DEF Places
<1>8. CASE pc[w] = "count" /\ ReadCount(w)
  <2>1. Moved("inner")
    BY <1>8, Moves DEF ReadCount, BlockPcs
  <2>2. /\ UNCHANGED <<nSel, selected, reject, cCurr, i, c>>
        /\ currNSel' = [currNSel EXCEPT ![w] = nSel] /\ j' = [j EXCEPT ![w] = 1]
    BY <1>8 DEF ReadCount, shared
  <2>3. Holds(nSel', selected', f[IF pc'[0] = "chosen" THEN 1 ELSE 0])
    BY <1>5, <1>8, <2>1, <2>2
  <2> QED BY <1>1, <1>3, <1>4, <1>8, <2>1, <2>2, <2>3 DEF Places
<1>9. CASE pc[w] = "inner" /\ (InnerOver(w) \/ InnerRejected(w) \/ StorePartial(w))
  <2>1. UNCHANGED <<nSel, selected, reject, cCurr, i, j, c, currNSel>>
    BY <1>9 DEF InnerOver, InnerRejected, StorePartial, shared, local
  <2>2. Moved("choose") \/ (Moved("stored") /\ w # 0)
    <3>1. ~InnerRejected(w)
      BY <1>1 DEF InnerRejected
    <3>2. InnerOver(w) => Moved("choose")
      BY Moves DEF InnerOver, BlockPcs
    <3>3. StorePartial(w) => Moved("stored")
      BY Moves DEF StorePartial, AfterStore, BlockPcs
    <3>4. StorePartial(w) => w # 0
      <4>1. j[w] = 1
        BY <1>1, <1>9
      <4>2. StorePartial(w) => j[w] <= currNSel[w]
        BY DEF StorePartial
      <4>3. w = 0 => currNSel[w] = 0
        BY <1>1, <1>9
      <4> QED BY <4>1, <4>2, <4>3
    <3> QED BY <1>9, <3>1, <3>2, <3>3, <3>4
  <2>3. Holds(nSel', selected', f[IF pc'[0] = "chosen" THEN 1 ELSE 0])
    BY <1>5, <1>9, <2>1, <2>2
  <2> QED BY <1>1, <1>4, <1>9, <2>1, <2>2, <2>3 DEF Places
<1>10. CASE pc[w] = "choose" /\ Choose(w)
  <2>1. Moved("chosen")
    BY <1>10, Moves DEF Choose, BlockPcs
  <2>2. UNCHANGED <<reject, cCurr, j, c, currNSel>> /\ i' = [i EXCEPT ![w] = @ + 1]
    BY <1>10 DEF Choose
  <2>3. Holds(nSel', selected', f[IF pc'[0] = "chosen" THEN 1 ELSE 0])
    <3>1. CASE w = 0
      <4>1. nSel = 0 /\ nSel' = 1 /\ selected' = [selected EXCEPT ![1] = cands[1]]
        BY <1>1, <1>3, <1>10, <3>1 DEF Choose
      <4>2. ~CoveredBefore(f, 1, 1)
        BY DEF CoveredBefore
      <4>3. Len(f[1]) = 1 /\ f[1][1] = cands[1]
        <5>1. 1 \in 1 .. Len(cands) /\ 1 - 1 = 0 /\ Len(f[1 - 1]) < R /\ Len(f[1 - 1]) + 1 = 1
          BY <1>2
        <5>2. PICK n \in 1 .. Len(cands) : n = 1
          BY <5>1
        <5>3. Len(f[n - 1]) < R /\ ~CoveredBefore(f, n, Len(f[n - 1]) + 1)
          BY <4>2, <5>1, <5>2
        <5>4. Len(f[n]) = Len(f[n - 1]) + 1 /\ f[n][Len(f[n - 1]) + 1] = cands[n]
          BY <5>3, NextSelected
        <5> QED BY <5>1, <5>2, <5>4
      <4>4. selected'[1] = cands[1]
        BY <4>1
      <4> QED BY <2>1, <3>1, <4>1, <4>3, <4>4 DEF Holds
    <3>2. CASE w # 0
      BY <1>5, <1>10, <2>1, <3>2 DEF Choose
    <3> QED BY <3>1, <3>2
  <2> QED BY <1>1, <1>4, <1>10, <2>1, <2>2, <2>3 DEF Places
<1> QED BY <1>6, <1>7, <1>8, <1>9, <1>10, WarpSteps

LEMMA ReadStep ==
  ASSUME TypeInv, NEW f, NEW n \in Nat \ {0}, AtRead(f, n), NEW w \in Warps, WarpNext(w)
  PROVE  AtRead(f, n)'
<1> USE Types
<1> DEFINE Ready(x, p, cx, jx, kx, ax) ==
      /\ p \in {"candidate", "count", "inner", "stored"}
      /\ p # "candidate" => cx = cands[n]
      /\ p \in {"inner", "stored"} => jx = 1 /\ kx = nSel
      /\ p = "stored" => ax = part[x][selected[1], cands[n]]
<1>1. /\ n <= Len(cands) /\ nSel > 0 /\ nSel < R /\ Holding(f, n - 1)
      /\ ~reject /\ cCurr = cands[n]
      /\ \A x \in Warps : i[x] = n /\ Ready(x, pc[x], c[x], j[x], currNSel[x], smemAccum[x])
  BY DEF AtRead, AtTest
<1> DEFINE Moved(to) == /\ pc'[w] = to /\ \A x \in Warps : x # w => pc'[x] = pc[x]
                        /\ v' = v /\ cands' = cands
<1>2. ASSUME UNCHANGED <<v, cands, nSel, selected, reject, cCurr, i>>,
             \A x \in Warps : x # w =>
               /\ pc'[x] = pc[x] /\ c'[x] = c[x] /\ j'[x] = j[x] /\ currNSel'[x] = currNSel[x]
               /\ smemAccum'[x] = smemAccum[x],
             Ready(w, pc'[w], c'[w], j'[w], currNSel'[w], smemAccum'[w])
      PROVE  AtRead(f, n)'
  <2>1. \A x \in Warps : Ready(x, pc'[x], c'[x], j'[x], currNSel'[x], smemAccum'[x])
    BY <1>1, <1>2
  <2> QED BY <1>1, <1>2, <2>1 DEF AtRead, AtTest, Holding
<1>3. Ready(w, pc[w], c[w], j[w], currNSel[w], smemAccum[w]) /\ i[w] = n
  BY <1>1
<1> HIDE DEF Ready
<1>4. pc[w] \in {"candidate", "count", "inner"}
  BY <1>3, WarpSteps DEF Ready
<1>5. CASE pc[w] = "candidate" /\ ReadCandidate(w)
  <2>1. Moved("count")
    BY <1>5, Moves DEF ReadCandidate, BlockPcs
  <2>2. /\ UNCHANGED <<nSel, selected, reject, cCurr, i, j, currNSel, smemAccum>>
        /\ c' = [c EXCEPT ![w] = cCurr]
    BY <1>5 DEF ReadCandidate, shared
  <2>3. Ready(w, pc'[w], c'[w], j'[w], currNSel'[w], smemAccum'[w])
    BY <1>1, <2>1, <2>2 DEF Ready
  <2> QED BY <1>2, <2>1, <2>2, <2>3
<1>6. CASE pc[w] = "count" /\ ReadCount(w)
  <2>1. Moved("inner")
    BY <1>6, Moves DEF ReadCount, BlockPcs
  <2>2. /\ UNCHANGED <<nSel, selected, reject, cCurr, i, c, smemAccum>>
        /\ currNSel' = [currNSel EXCEPT ![w] = nSel] /\ j' = [j EXCEPT ![w] = 1]
    BY <1>6 DEF ReadCount, shared
  <2>3. Ready(w, pc'[w], c'[w], j'[w], currNSel'[w], smemAccum'[w])
    BY <1>3, <1>6, <2>1, <2>2 DEF Ready
  <2> QED BY <1>2, <2>1, <2>2, <2>3
<1>7. CASE pc[w] = "inner" /\ (InnerOver(w) \/ InnerRejected(w) \/ StorePartial(w))
  <2>1. j[w] = 1 /\ currNSel[w] = nSel /\ c[w] = cands[n]
    BY <1>3, <1>7 DEF Ready
  <2>2. ~InnerOver(w) /\ ~InnerRejected(w)
    BY <1>1, <2>1 DEF InnerOver, InnerRejected
  <2>3. StorePartial(w)
    BY <1>7, <2>2
  <2>4. Moved("stored")
    BY <2>3, Moves DEF StorePartial, AfterStore, BlockPcs
  <2>5. /\ UNCHANGED <<nSel, selected, reject, cCurr, i, j, c, currNSel>>
        /\ smemAccum' = [smemAccum EXCEPT ![w] = part[w][selected[1], cands[n]]]
    BY <2>1, <2>3 DEF StorePartial, local
  <2>6. Ready(w, pc'[w], c'[w], j'[w], currNSel'[w], smemAccum'[w])
    BY <2>1, <2>4, <2>5 DEF Ready
  <2> QED BY <1>2, <2>4, <2>5, <2>6
<1> QED BY <1>4, <1>5, <1>6, <1>7, WarpSteps

LEMMA SumStep ==
  ASSUME TypeInv, NEW f, IsSelection(f), NEW n \in Nat \ {0}, NEW m \in Nat \ {0}, AtSum(f, n, m),
         NEW w \in Warps, WarpNext(w)
  PROVE  AtSum(f, n, m)'
<1> USE Types
<1>1. /\ n <= Len(cands) /\ nSel > 0 /\ nSel < R /\ Holding(f, n - 1)
      /\ m <= nSel /\ ~reject /\ ~CoveredBefore(f, n, m)
      /\ \A x \in Warps : /\ i[x] = n /\ j[x] = m /\ c[x] = cands[n] /\ currNSel[x] = nSel
                          /\ pc[x] \in {"sum", "summed"}
      /\ pc[0] = "sum" => \A x \in Warps : smemAccum[x] = part[x][selected[m], cands[n]]
      /\ pc[0] # "sum" => smemAccum[0] = Dist(selected[m], cands[n])
  BY DEF AtSum, AtTest
<1>2. pc[w] = "sum" /\ SumUp(w)
  BY <1>1, WarpSteps
<1>3. /\ pc'[w] = "summed" /\ \A x \in Warps : x # w => pc'[x] = pc[x]
      /\ v' = v /\ cands' = cands
  BY <1>2, Moves DEF SumUp, BlockPcs
<1>4. /\ UNCHANGED <<nSel, selected, reject, i, j, c, currNSel>>
      /\ smemAccum' = IF w = 0 THEN [smemAccum EXCEPT ![0] = Total(smemAccum)] ELSE smemAccum
  BY <1>2 DEF SumUp, local
<1>5. w = 0 => Total(smemAccum) = Dist(selected[m], cands[n])
  <2> SUFFICES ASSUME w = 0 PROVE Total(smemAccum) = Dist(selected[m], cands[n])
    OBVIOUS
  <2>1. selected[m] \in Vertices /\ cands[n] \in Vertices
    <3>1. m <= nSel /\ n <= Len(cands)
      BY <1>1
    <3>2. nSel \in Nat /\ Len(cands) \in Nat
      OBVIOUS
    <3>3. m \in 1 .. nSel /\ n \in 1 .. Len(cands)
      BY ONLY <3>1, <3>2, m \in Nat \ {0}, n \in Nat \ {0}
    <3> QED BY <3>3, SelectedVertices, SelectionIs
  <2>2. smemAccum = [x \in Warps |-> part[x][selected[m], cands[n]]]
    BY <1>1, <1>2
  <2> QED BY <2>1, <2>2, DistanceTypes
<1>6. IF pc'[0] = "sum" THEN \A x \in Warps : smemAccum'[x] = part[x][selected[m], cands[n]]
      ELSE smemAccum'[0] = Dist(selected[m], cands[n])
  BY <1>1, <1>2, <1>3, <1>4, <1>5
<1>7. CoveredBefore(f, n, m)' = CoveredBefore(f, n, m)
  BY <1>3 DEF CoveredBefore
<1> QED BY <1>1, <1>3, <1>4, <1>6, <1>7 DEF AtSum, AtTest, Holding

LEMMA JudgeStep ==
  ASSUME TypeInv, NEW f, IsSelection(f), NEW n \in Nat \ {0}, NEW m \in Nat \ {0}, AtJudge(f, n, m),
         NEW w \in Warps, WarpNext(w)
  PROVE  AtJudge(f, n, m)'
<1> USE Types
<1>1. /\ n <= Len(cands) /\ nSel > 0 /\ nSel < R /\ Holding(f, n - 1)
      /\ m <= nSel /\ smemAccum[0] = Dist(selected[m], cands[n])
      /\ \A x \in Warps : /\ i[x] = n /\ c[x] = cands[n] /\ currNSel[x] = nSel
                          /\ pc[x] \in {"judge", "judged"}
                          /\ j[x] = IF pc[x] = "judged" THEN m + 1 ELSE m
      /\ reject = CoveredBefore(f, n, IF pc[0] = "judged" THEN m + 1 ELSE m)
      /\ pc[0] = "judge" => ~reject
  BY DEF AtJudge, AtTest
<1>2. pc[w] = "judge" /\ Judge(w)
  BY <1>1, WarpSteps
<1>3. /\ pc'[w] = "judged" /\ \A x \in Warps : x # w => pc'[x] = pc[x]
      /\ v' = v /\ cands' = cands
  BY <1>2, Moves DEF Judge, BlockPcs
<1>4. /\ UNCHANGED <<nSel, selected, smemAccum, i, c, currNSel>>
      /\ j' = [j EXCEPT ![w] = @ + 1]
      /\ reject' = (reject \/ (w = 0 /\ AlphaNum * smemAccum[0] <= AlphaDen * Dist(v, cands[n])))
  BY <1>1, <1>2 DEF Judge
<1>5. CoveredBefore(f, n, m + 1) <=> CoveredBefore(f, n, m) \/ Covers(v, selected[m], cands[n])
  <2>1. selected[m] = f[n - 1][m]
    BY <1>1 DEF Holding, Holds
  <2>2. 1 .. (m + 1) - 1 = (1 .. m - 1) \cup {m}
    OBVIOUS
  <2> QED BY <2>1, <2>2 DEF CoveredBefore
<1>6. Covers(v, selected[m], cands[n]) <=> AlphaNum * smemAccum[0] <= AlphaDen * Dist(v, cands[n])
  BY <1>1 DEF Covers
<1>7. /\ reject' = CoveredBefore(f, n, IF pc'[0] = "judged" THEN m + 1 ELSE m)
      /\ pc'[0] = "judge" => ~reject'
  <2> DEFINE Verdict == AlphaNum * smemAccum[0] <= AlphaDen * Dist(v, cands[n])
  <2>1. reject' = (reject \/ (w = 0 /\ Verdict))
    BY <1>4
  <2>2. CoveredBefore(f, n, m + 1) <=> CoveredBefore(f, n, m) \/ Verdict
    BY <1>5, <1>6
  <2> HIDE DEF Verdict
  <2>3. CASE w = 0
    <3>1. pc[0] = "judge" /\ pc'[0] = "judged" /\ ~reject /\ ~CoveredBefore(f, n, m)
      BY <1>1, <1>2, <1>3, <2>3
    <3>2. reject' <=> Verdict
      BY <2>1, <2>3, <3>1
    <3>3. CoveredBefore(f, n, m + 1) \in BOOLEAN /\ reject' \in BOOLEAN
      BY <2>1 DEF CoveredBefore
    <3> QED BY <2>2, <3>1, <3>2, <3>3
  <2>4. CASE w # 0
    <3>1. reject' = reject
      BY <2>1, <2>4
    <3> QED BY <1>1, <1>3, <2>4, <3>1
  <2> QED BY <2>3, <2>4
<1>8. (pc'[0] = "judge" => ~reject')
      /\ reject' = \E l \in 1 .. (IF pc'[0] = "judged" THEN m + 1 ELSE m) - 1 :
                    Covers(v', f[n - 1][l], cands'[n])
  BY <1>3, <1>7 DEF CoveredBefore
<1>9. /\ n <= Len(cands') /\ nSel' > 0 /\ nSel' < R /\ Holds(nSel', selected', f[n - 1])
      /\ m <= nSel' /\ smemAccum'[0] = Dist(selected'[m], cands'[n])
      /\ \A x \in Warps : /\ i'[x] = n /\ c'[x] = cands'[n] /\ currNSel'[x] = nSel'
                          /\ pc'[x] \in {"judge", "judged"}
  BY <1>1, <1>3, <1>4 DEF Holding
<1>10. \A x \in Warps : j'[x] = IF pc'[x] = "judged" THEN m + 1 ELSE m
  <2> TAKE x \in Warps
  <2>1. CASE x = w
    BY <1>1, <1>2, <1>3, <1>4, <2>1
  <2>2. CASE x # w
    BY <1>1, <1>3, <1>4, <2>2
  <2> QED BY <2>1, <2>2
<1> QED BY <1>8, <1>9, <1>10 DEF AtJudge, AtTest, Holding, CoveredBefore

LEMMA TurnStep ==
  ASSUME TypeInv, NEW f, IsSelection(f), NEW n \in Nat \ {0}, NEW m \in Nat \ {0}, AtTurn(f, n, m),
         NEW w \in Warps, WarpNext(w)
  PROVE  AtTurn(f, n, m)'
<1> USE Types
<1> DEFINE found == Len(f[n - 1])
           covered == \E l \in 1 .. m - 1 : Covers(v, f[n - 1][l], cands[n])
           Places == {"inner"} \cup (IF found < m THEN {"choose", "chosen"}
                                     ELSE IF reject THEN {"rejected"} ELSE {"stored"})
<1>1. /\ n <= Len(cands) /\ found > 0 /\ found < R /\ m <= found + 1 /\ reject = covered
      /\ Holds(nSel, selected, f[IF pc[0] = "chosen" THEN n ELSE n - 1])
      /\ \A x \in Warps :
           /\ i[x] = IF pc[x] = "chosen" THEN n + 1 ELSE n
           /\ j[x] = m /\ c[x] = cands[n] /\ currNSel[x] = found
           /\ pc[x] \in Places
           /\ pc[x] = "stored" => smemAccum[x] = part[x][selected[m], cands[n]]
  BY DEF AtTurn, Holding, CoveredBefore
<1>2. found \in Nat /\ n \in 1 .. Len(cands) /\ n - 1 \in 0 .. Len(cands) /\ found + 1 \in 1 .. R
  <2>1. n <= Len(cands) /\ Len(cands) \in Nat /\ R \in Nat /\ found < R
    BY <1>1
  <2>2. n \in 1 .. Len(cands) /\ n - 1 \in 0 .. Len(cands)
    BY ONLY <2>1, n \in Nat \ {0}
  <2>3. found \in Nat
    BY <2>2, SelectionIs
  <2> QED BY ONLY <2>1, <2>2, <2>3
<1>3. ASSUME UNCHANGED <<v, cands, reject, j, c, currNSel>>,
             Holds(nSel', selected', f[IF pc'[0] = "chosen" THEN n ELSE n - 1]),
             \A x \in Warps : x # w => pc'[x] = pc[x] /\ i'[x] = i[x],
             i'[w] = IF pc'[w] = "chosen" THEN n + 1 ELSE n,
             pc'[w] \in Places,
             \A x \in Warps : pc'[x] = "stored" => smemAccum'[x] = part[x][selected'[m], cands[n]]
      PROVE  AtTurn(f, n, m)'
  <2> HIDE DEF Places
  <2>1. \A x \in Warps :
           /\ i'[x] = IF pc'[x] = "chosen" THEN n + 1 ELSE n
           /\ j'[x] = m /\ c'[x] = cands[n] /\ currNSel'[x] = found
           /\ pc'[x] \in Places
    BY <1>1, <1>3
  <2> QED BY <1>1, <1>3, <2>1 DEF AtTurn, Holding, CoveredBefore, Places
<1> DEFINE Moved(to) == /\ pc'[w] = to /\ \A x \in Warps : x # w => pc'[x] = pc[x]
                        /\ v' = v /\ cands' = cands
<1> HIDE DEF found, covered
<1>4. pc[w] \in {"inner", "choose"}
  BY <1>1, WarpSteps
<1>5. CASE pc[w] = "inner" /\ (InnerOver(w) \/ InnerRejected(w) \/ StorePartial(w))
  <2>1. /\ Holds(nSel, selected, f[IF pc'[0] = "chosen" THEN n ELSE n - 1])
        /\ i[w] = n /\ j[w] = m /\ c[w] = cands[n] /\ currNSel[w] = found
        \/ pc'[w] = "chosen" \/ (w # 0 /\ pc'[0] # pc[0])
    BY <1>1, <1>5
  <2>2. CASE InnerOver(w)
    <3>1. Moved("choose") /\ found < m /\ UNCHANGED <<shared, local>>
      BY <1>1, <1>5, <2>2, Moves DEF InnerOver, BlockPcs
    <3> QED BY <1>1, <1>3, <1>5, <2>1, <3>1 DEF shared, local
  <2>3. CASE InnerRejected(w)
    <3>0. m <= found
      BY <2>1, <1>5, <1>1, <2>3 DEF InnerRejected
    <3>1. Moved("rejected") /\ ~(found < m) /\ reject /\ UNCHANGED <<shared, local>>
      BY <1>2, <2>3, <3>0, Moves DEF InnerRejected, BlockPcs
    <3> QED BY <1>1, <1>3, <1>5, <2>1, <3>1 DEF shared, local
  <2>4. CASE StorePartial(w)
    <3>0. m <= found
      BY <2>1, <1>5, <1>1, <2>4 DEF StorePartial
    <3>1. Moved("stored") /\ ~(found < m) /\ ~reject
      <4>1. Moved("stored") /\ ~reject
        BY <2>4, Moves DEF StorePartial, AfterStore, BlockPcs
      <4> QED BY <1>2, <3>0, <4>1
    <3>2. /\ UNCHANGED <<nSel, selected, reject, i, j, c, currNSel>>
          /\ smemAccum' = [smemAccum EXCEPT ![w] = part[w][selected[m], cands[n]]]
      BY <1>1, <2>4 DEF StorePartial, local
    <3>3. \A x \in Warps : pc'[x] = "stored" => smemAccum'[x] = part[x][selected'[m], cands[n]]
      BY <1>1, <3>1, <3>2
    <3> QED BY <1>1, <1>3, <1>5, <2>1, <3>1, <3>2, <3>3
  <2> QED BY <1>5, <2>2, <2>3, <2>4
<1>6. CASE pc[w] = "choose" /\ Choose(w)
  <2>1. Moved("chosen")
    BY <1>6, Moves DEF Choose, BlockPcs
  <2>2. UNCHANGED <<reject, smemAccum, j, c, currNSel>> /\ i' = [i EXCEPT ![w] = @ + 1]
    BY <1>6 DEF Choose
  <2>3. found < m /\ m = found + 1
    <3>1. found < m /\ m <= found + 1
      BY <1>1, <1>6
    <3> QED BY ONLY <3>1, <1>2, m \in Nat
  <2>4. \A x \in Warps : pc'[x] # "stored"
    BY <1>1, <2>1, <2>3
  <2>5. Holds(nSel', selected', f[IF pc'[0] = "chosen" THEN n ELSE n - 1])
    <3>1. CASE w = 0
      <4>1. Holds(nSel, selected, f[n - 1]) /\ c[0] = cands[n]
        BY <1>1, <1>6, <3>1
      <4>2. nSel = found /\ \A k \in 1 .. found : selected[k] = f[n - 1][k]
        BY <4>1 DEF Holds, found
      <4>3. reject = CoveredBefore(f, n, Len(f[n - 1]) + 1)
        BY <1>1, <2>3 DEF covered, found, CoveredBefore
      <4>4. Len(f[n - 1]) < R
        BY <1>1 DEF found
      <4>5. CASE reject
        <5>1. UNCHANGED <<nSel, selected>>
          BY <1>6, <4>5 DEF Choose
        <5>2. f[n] = f[n - 1]
          BY <1>2, <4>3, <4>4, <4>5, NextSelected
        <5> QED BY <2>1, <3>1, <4>1, <5>1, <5>2
      <4>6. CASE ~reject
        <5>1. nSel' = found + 1 /\ selected' = [selected EXCEPT ![found + 1] = cands[n]]
          BY <1>6, <3>1, <4>1, <4>2, <4>6 DEF Choose
        <5>2. /\ Len(f[n]) = found + 1 /\ f[n][found + 1] = cands[n]
              /\ \A k \in 1 .. found : f[n][k] = f[n - 1][k]
          BY <1>2, <4>3, <4>4, <4>6, NextSelected DEF found
        <5>3. \A k \in 1 .. found + 1 : k = found + 1 \/ k \in 1 .. found
          BY <1>2
        <5>4. \A k \in 1 .. found + 1 : selected'[k] = f[n][k]
          <6>1. \A k \in 1 .. found : selected'[k] = selected[k]
            BY <1>2, <5>1
          <6>2. selected'[found + 1] = cands[n]
            BY <1>2, <5>1
          <6> QED BY <4>2, <5>2, <5>3, <6>1, <6>2
        <5> QED BY <2>1, <3>1, <5>1, <5>2, <5>4 DEF Holds
      <4> QED BY <4>5, <4>6
    <3>2. CASE w # 0
      BY <1>1, <1>6, <2>1, <3>2 DEF Choose
    <3> QED BY <3>1, <3>2
  <2>6. i'[w] = IF pc'[w] = "chosen" THEN n + 1 ELSE n
    BY <1>1, <1>6, <2>1, <2>2
  <2> QED BY <1>3, <2>1, <2>2, <2>3, <2>4, <2>5, <2>6
<1> QED BY <1>4, <1>5, <1>6, WarpSteps

LEMMA RejectedStep ==
  ASSUME TypeInv, NEW f, NEW n \in Nat \ {0}, NEW m \in Nat \ {0}, AtRejected(f, n, m),
         NEW w \in Warps, WarpNext(w)
  PROVE  AtRejected(f, n, m)'
<1> USE Types
<1>1. /\ n <= Len(cands) /\ nSel > 0 /\ nSel < R /\ Holding(f, n - 1)
      /\ reject /\ m <= nSel /\ CoveredBefore(f, n, m)
      /\ \A x \in Warps : /\ i[x] = IF pc[x] = "chosen" THEN n + 1 ELSE n
                          /\ j[x] = m /\ pc[x] \in {"choose", "chosen"}
  BY DEF AtRejected, AtTest
<1>2. pc[w] = "choose" /\ Choose(w)
  BY <1>1, WarpSteps
<1>3. /\ pc'[w] = "chosen" /\ \A x \in Warps : x # w => pc'[x] = pc[x]
      /\ v' = v /\ cands' = cands
  BY <1>2, Moves DEF Choose, BlockPcs
<1>4. UNCHANGED <<nSel, selected, reject, j>> /\ i' = [i EXCEPT ![w] = @ + 1]
  BY <1>1, <1>2 DEF Choose
<1>5. \A x \in Warps : i'[x] = IF pc'[x] = "chosen" THEN n + 1 ELSE n
  BY <1>1, <1>2, <1>3, <1>4
<1>6. CoveredBefore(f, n, m)'
  BY <1>1, <1>3 DEF CoveredBefore
<1>7. Holding(f, n - 1)'
  BY <1>1, <1>4 DEF Holding
<1> QED BY <1>1, <1>3, <1>4, <1>5, <1>6, <1>7 DEF AtRejected, AtTest

LEMMA WriteStep ==
  ASSUME TypeInv, NEW f, AtWrite(f), NEW w \in Warps, WarpNext(w)
  PROVE  AtWrite(f)'
<1> USE Types
<1>1. /\ newDeg = nSel /\ Holding(f, Len(cands))
      /\ \A x \in Warps :
           /\ pc[x] \in {"write", "exit"}
           /\ pc[x] = "exit" =>
                \A k \in 1 .. nSel : (k - 1) % NumWarps = x => newNbr[k] = selected[k]
  BY DEF AtWrite
<1>2. pc[w] = "write" /\ WriteList(w)
  BY <1>1, WarpSteps
<1>3. /\ pc'[w] = "exit" /\ \A x \in Warps : x # w => pc'[x] = pc[x]
      /\ v' = v /\ cands' = cands
  BY <1>2, Moves DEF WriteList, BlockPcs
<1>4. UNCHANGED <<nSel, selected, newDeg>>
  BY <1>2 DEF WriteList
<1>5. \A k \in 1 .. nSel : newNbr'[k] = IF (k - 1) % NumWarps = w THEN selected[k] ELSE newNbr[k]
  BY <1>2 DEF WriteList
<1>6. ASSUME NEW x \in Warps, pc'[x] = "exit", NEW k \in 1 .. nSel, (k - 1) % NumWarps = x
      PROVE  newNbr'[k] = selected[k]
  BY <1>1, <1>3, <1>5, <1>6
<1>7. Holding(f, Len(cands))'
  BY <1>1, <1>3, <1>4 DEF Holding
<1>8. \A x \in Warps : pc'[x] \in {"write", "exit"}
  BY <1>1, <1>3
<1> QED BY <1>1, <1>3, <1>4, <1>6, <1>7, <1>8 DEF AtWrite

-----------------------------------------------------------------------------
(* Barriers that find all warps at one place.                              *)

LEMMA Released ==
  ASSUME TypeInv, Syncthreads, ~apart'
  PROVE  /\ ~apart
         /\ \A w \in Warps : pc[w] = pc[0] /\ i[w] = i[0] /\ j[w] = j[0]
         /\ UNCHANGED <<v, cands, nSel, selected, cCurr, reject, smemAccum, newDeg, newNbr,
                        i, j, c, currNSel>>
         /\ \/ pc[0] = "zeroed" /\ \A w \in Warps : pc'[w] = "loop"
            \/ pc[0] = "set" /\ \A w \in Warps : pc'[w] = "candidate"
            \/ pc[0] = "stored" /\ \A w \in Warps : pc'[w] = "sum"
            \/ pc[0] = "summed" /\ \A w \in Warps : pc'[w] = "judge"
            \/ pc[0] = "judged" /\ \A w \in Warps : pc'[w] = "inner"
            \/ pc[0] = "rejected" /\ \A w \in Warps : pc'[w] = "choose"
            \/ pc[0] = "chosen" /\ \A w \in Warps : pc'[w] = "loop"
            \/ pc[0] = "counted" /\ \A w \in Warps : pc'[w] = "write"
<1> USE Types
<1>1. ~apart /\ \A w \in Warps : <<pc[w], i[w], j[w]>> = <<pc[0], i[0], j[0]>>
  BY DEF Syncthreads
<1>2. \A w \in Warps : pc[w] = pc[0] /\ i[w] = i[0] /\ j[w] = j[0]
  BY <1>1
<1>3. pc[0] \in DOMAIN After
  <2>1. PICK w \in Waiting : TRUE
    BY DEF Syncthreads
  <2> QED BY <1>2, <2>1 DEF Waiting
<1>4. pc[0] # "exit"
  BY <1>3 DEF After
<1>5. \A w \in Warps : pc[w] # "exit"
  BY <1>2, <1>4
<1>6. pc \in [Warps -> BlockPcs]
  OBVIOUS
<1>7. \A w \in Warps :
        \/ pc[w] = "zeroed" /\ pc'[w] = "loop"
        \/ pc[w] = "set" /\ pc'[w] = "candidate"
        \/ pc[w] = "stored" /\ pc'[w] = "sum"
        \/ pc[w] = "summed" /\ pc'[w] = "judge"
        \/ pc[w] = "judged" /\ pc'[w] = "inner"
        \/ pc[w] = "rejected" /\ pc'[w] = "choose"
        \/ pc[w] = "chosen" /\ pc'[w] = "loop"
        \/ pc[w] = "counted" /\ pc'[w] = "write"
  BY <1>5, <1>6, Opens
<1>8. UNCHANGED <<v, cands, shared, local>>
  BY DEF Syncthreads
<1> QED BY <1>1, <1>2, <1>7, <1>8 DEF shared, local

LEMMA StartReleased ==
  ASSUME TypeInv, NEW f, AtStart(f), Syncthreads, ~apart'
  PROVE  AtLoop(f, 1, 1)'
<1> USE Types, Released
<1>1. /\ \A w \in Warps : i'[w] = 1 /\ j'[w] = 1 /\ pc'[w] = "loop"
      /\ Holds(nSel', selected', f[0])
  BY DEF AtStart, Holding
<1>2. 1 <= Len(cands') + 1
  OBVIOUS
<1> QED BY <1>1, <1>2 DEF AtLoop, Holding

LEMMA LoopReleased ==
  ASSUME TypeInv, NEW f, IsSelection(f), NEW n \in Nat \ {0}, NEW m \in Nat \ {0}, AtLoop(f, n, m),
         Syncthreads, ~apart'
  PROVE  AtFirst(f)' \/ AtRead(f, n)' \/ AtWrite(f)'
<1> USE Types, Released
<1>1. /\ n <= Len(cands) + 1 /\ (n > 1 => nSel > 0) /\ Holds(nSel, selected, f[n - 1])
      /\ \A w \in Warps :
           i[w] = n /\ pc[w] \in {"loop"} \cup (IF n <= Len(cands) /\ nSel < R
                                   THEN {"propose", "clear", "set"} ELSE {"return", "counted"})
      /\ pc[0] = "set" => cCurr = cands[n] /\ ~reject
      /\ pc[0] = "counted" => newDeg = nSel
  BY DEF AtLoop, Holding
<1>2. CASE pc[0] = "set"
  <2>1. n <= Len(cands) /\ nSel < R
    BY <1>1, <1>2
  <2>2. \A w \in Warps : pc'[w] = "candidate" /\ i'[w] = n
    BY <1>1, <1>2
  <2>3. CASE n = 1
    <3>1. Holds(nSel', selected', f[0])
      BY <1>1, <2>3
    <3> QED BY <1>1, <1>2, <2>2, <2>3, <3>1 DEF AtFirst, Holding
  <2>4. CASE n > 1
    BY <1>1, <1>2, <2>1, <2>2, <2>4 DEF AtRead, AtTest, Holding
  <2> QED BY <2>3, <2>4
<1>3. CASE pc[0] = "counted"
  <2>1. \A w \in Warps : pc'[w] = "write"
    BY <1>3
  <2>2. n - 1 \in 0 .. Len(cands)
    BY <1>1
  <2>3. ~(n <= Len(cands) /\ nSel < R)
    BY <1>1, <1>3
  <2>4. f[n - 1] = f[Len(cands)]
    <3>1. CASE n <= Len(cands)
      <4>1. nSel = R /\ nSel = Len(f[n - 1])
        BY <1>1, <2>3, <3>1 DEF Holds
      <4> QED BY <2>2, <4>1, FullStays
    <3>2. CASE ~(n <= Len(cands))
      <4>1. n - 1 = Len(cands)
        BY <1>1, <3>2
      <4> QED BY <4>1
    <3> QED BY <3>1, <3>2
  <2>5. Holds(nSel', selected', f[Len(cands')]) /\ newDeg' = nSel'
    BY <1>1, <1>3, <2>4
  <2> QED BY <2>1, <2>5 DEF AtWrite, Holding
<1>4. pc[0] \in {"loop", "propose", "clear", "set", "return", "counted"}
  BY <1>1
<1> QED BY <1>2, <1>3, <1>4

LEMMA FirstReleased ==
  ASSUME TypeInv, NEW f, IsSelection(f), AtFirst(f), Syncthreads, ~apart'
  PROVE  AtLoop(f, 2, 1)'
<1> USE Types, Released
<1>1. pc[0] = "chosen"
  BY DEF AtFirst
<1>2. Holds(nSel, selected, f[1]) /\ \A w \in Warps : i[w] = 2 /\ j[w] = 1
  BY <1>1 DEF AtFirst, Holding
<1>3. Len(f[1]) = 1
  <2>1. Len(f[0]) = 0
    BY DEF IsSelection
  <2>2. PICK n \in 1 .. Len(cands) : n = 1
    OBVIOUS
  <2>3. Len(f[n - 1]) < R /\ ~CoveredBefore(f, n, Len(f[n - 1]) + 1) /\ Len(f[n - 1]) + 1 = 1
    BY <2>1, <2>2 DEF CoveredBefore
  <2> QED BY <2>2, <2>3, NextSelected
<1>4. nSel' > 0 /\ 2 <= Len(cands') + 1
  BY <1>2, <1>3 DEF Holds
<1>5. \A w \in Warps : pc'[w] = "loop" /\ i'[w] = 2 /\ j'[w] = 1
  BY <1>1, <1>2
<1>6. Holds(nSel', selected', f[2 - 1])
  BY <1>2
<1> QED BY <1>4, <1>5, <1>6 DEF AtLoop, Holding

LEMMA ReadReleased ==
  ASSUME TypeInv, NEW f, NEW n \in Nat \ {0}, AtRead(f, n), Syncthreads, ~apart'
  PROVE  AtSum(f, n, 1)'
<1> USE Types, Released
<1>1. pc[0] = "stored"
  BY DEF AtRead
<1>2. /\ n <= Len(cands') /\ nSel' > 0 /\ nSel' < R /\ Holds(nSel', selected', f[n - 1]) /\ ~reject'
      /\ \A w \in Warps :
           i'[w] = n /\ j'[w] = 1 /\ c'[w] = cands'[n] /\ currNSel'[w] = nSel' /\ pc'[w] = "sum"
  <2>1. /\ n <= Len(cands) /\ nSel > 0 /\ nSel < R /\ Holds(nSel, selected, f[n - 1]) /\ ~reject
    BY DEF AtRead, AtTest, Holding
  <2>2. \A w \in Warps : i[w] = n /\ j[w] = 1 /\ c[w] = cands[n] /\ currNSel[w] = nSel
    BY <1>1 DEF AtRead
  <2>3. \A w \in Warps : pc'[w] = "sum"
    BY <1>1
  <2> QED BY <2>1, <2>2, <2>3
<1>3. \A w \in Warps : smemAccum'[w] = part[w][selected'[1], cands'[n]]
  <2>1. \A w \in Warps : smemAccum[w] = part[w][selected[1], cands[n]]
    BY <1>1 DEF AtRead
  <2> QED BY <2>1
<1>4. 1 .. 1 - 1 = {}
  OBVIOUS
<1>5. 1 <= nSel'
  BY <1>2
<1> QED BY <1>2, <1>3, <1>4, <1>5 DEF AtSum, AtTest, Holding, CoveredBefore

LEMMA SumReleased ==
  ASSUME TypeInv, NEW f, NEW n \in Nat \ {0}, NEW m \in Nat \ {0}, AtSum(f, n, m),
         Syncthreads, ~apart'
  PROVE  AtJudge(f, n, m)'
<1> USE Types, Released
<1>1. pc[0] = "summed"
  BY DEF AtSum
<1>2. /\ n <= Len(cands') /\ nSel' > 0 /\ nSel' < R /\ Holds(nSel', selected', f[n - 1]) /\ ~reject'
      /\ m <= nSel' /\ smemAccum'[0] = Dist(selected'[m], cands'[n])
      /\ \A w \in Warps :
           i'[w] = n /\ j'[w] = m /\ c'[w] = cands'[n] /\ currNSel'[w] = nSel' /\ pc'[w] = "judge"
  BY <1>1 DEF AtSum, AtTest, Holding
<1>3. reject' = \E l \in 1 .. m - 1 : Covers(v', f[n - 1][l], cands'[n])
  BY DEF AtSum, CoveredBefore
<1> QED BY <1>2, <1>3 DEF AtJudge, AtTest, Holding, CoveredBefore

LEMMA JudgeReleased ==
  ASSUME TypeInv, NEW f, NEW n \in Nat \ {0}, NEW m \in Nat \ {0}, AtJudge(f, n, m),
         Syncthreads, ~apart'
  PROVE  AtTurn(f, n, m + 1)'
<1> USE Types, Released
<1>1. pc[0] = "judged"
  BY DEF AtJudge
<1>2. /\ n <= Len(cands') /\ nSel' > 0 /\ nSel' < R /\ Holds(nSel', selected', f[n - 1])
      /\ m <= nSel'
      /\ \A w \in Warps :
           i'[w] = n /\ j'[w] = m + 1 /\ c'[w] = cands'[n] /\ currNSel'[w] = nSel' /\ pc'[w] = "inner"
  BY <1>1 DEF AtJudge, AtTest, Holding
<1>3. reject' = \E l \in 1 .. (m + 1) - 1 : Covers(v', f[n - 1][l], cands'[n])
  BY <1>1 DEF AtJudge, CoveredBefore
<1>4. nSel' = Len(f[n - 1]) /\ m + 1 <= Len(f[n - 1]) + 1
  BY <1>2 DEF Holds
<1> QED BY <1>2, <1>3, <1>4 DEF AtTurn, Holding, CoveredBefore

LEMMA TurnReleased ==
  ASSUME TypeInv, NEW f, IsSelection(f), NEW n \in Nat \ {0}, NEW m \in Nat \ {0}, AtTurn(f, n, m),
         Syncthreads, ~apart'
  PROVE  AtSum(f, n, m)' \/ AtRejected(f, n, m)' \/ AtLoop(f, n + 1, m)'
<1> USE Types, Released
<1> DEFINE found == Len(f[n - 1])
<1>1. /\ n <= Len(cands) /\ found > 0 /\ found < R /\ m <= found + 1
      /\ reject = CoveredBefore(f, n, m)
      /\ Holds(nSel, selected, f[IF pc[0] = "chosen" THEN n ELSE n - 1])
      /\ \A w \in Warps :
           /\ i[w] = IF pc[w] = "chosen" THEN n + 1 ELSE n
           /\ j[w] = m /\ c[w] = cands[n] /\ currNSel[w] = found
           /\ pc[w] \in {"inner"} \cup (IF found < m THEN {"choose", "chosen"}
                                        ELSE IF reject THEN {"rejected"} ELSE {"stored"})
           /\ pc[w] = "stored" => smemAccum[w] = part[w][selected[m], cands[n]]
  BY DEF AtTurn, Holding
<1>2. n \in 1 .. Len(cands) /\ n - 1 \in 0 .. Len(cands)
  <2>1. n <= Len(cands) /\ Len(cands) \in Nat
    BY <1>1
  <2> QED BY ONLY <2>1, n \in Nat \ {0}
<1>3. found \in Nat
  BY <1>2, SelectionIs
<1> HIDE DEF found
<1>4. reject' = reject /\ (reject <=> \E l \in 1 .. m - 1 : Covers(v', f[n - 1][l], cands'[n]))
  BY <1>1 DEF CoveredBefore
<1>5. CASE pc[0] \in {"stored", "rejected"}
  <2>1. ~(found < m) /\ (pc[0] = "rejected" <=> reject)
    BY <1>1, <1>5
  <2>2. m <= found
    BY <1>3, <2>1
  <2>3. Holds(nSel', selected', f[n - 1]) /\ nSel' = found
    BY <1>1, <1>5 DEF Holds, found
  <2>4. /\ n <= Len(cands') /\ nSel' > 0 /\ nSel' < R /\ m <= nSel'
        /\ \A w \in Warps : i'[w] = n /\ j'[w] = m /\ c'[w] = cands'[n] /\ currNSel'[w] = nSel'
    BY <1>1, <1>5, <2>2, <2>3
  <2>5. CASE pc[0] = "stored"
    <3>1. \A w \in Warps : pc'[w] = "sum"
      BY <2>5
    <3>2. \A w \in Warps : smemAccum[w] = part[w][selected[m], cands[n]]
      BY <1>1, <2>5
    <3>3. \A w \in Warps : smemAccum'[w] = part[w][selected'[m], cands'[n]]
      BY <3>2
    <3> QED BY <1>4, <2>1, <2>3, <2>4, <2>5, <3>1, <3>3 DEF AtSum, AtTest, Holding, CoveredBefore
  <2>6. CASE pc[0] = "rejected"
    <3>1. \A w \in Warps : pc'[w] = "choose"
      BY <2>6
    <3> QED BY <1>4, <2>1, <2>3, <2>4, <2>6, <3>1 DEF AtRejected, AtTest, Holding, CoveredBefore
  <2> QED BY <1>5, <2>5, <2>6
<1>6. CASE pc[0] = "chosen"
  <2>1. m = found + 1
    <3>1. found < m /\ m <= found + 1
      BY <1>1, <1>6
    <3> QED BY ONLY <3>1, <1>3, m \in Nat
  <2>2. Len(f[n]) > 0
    <3>1. Len(f[n]) = found \/ Len(f[n]) = found + 1
      BY <1>1, <1>2, NextSelected DEF found
    <3>2. found \in Nat /\ found > 0
      BY <1>1, <1>3
    <3> QED BY ONLY <3>1, <3>2
  <2>3. Holds(nSel', selected', f[n]) /\ nSel' > 0
    BY <1>1, <1>6, <2>2 DEF Holds
  <2>4. \A w \in Warps : i'[w] = n + 1 /\ j'[w] = m /\ pc'[w] = "loop"
    BY <1>1, <1>6
  <2>5. n + 1 <= Len(cands') + 1 /\ n + 1 - 1 = n
    BY <1>2
  <2> QED BY <2>3, <2>4, <2>5 DEF AtLoop, Holding
<1>7. pc[0] \in {"inner", "choose", "chosen", "rejected", "stored"}
  BY <1>1
<1> QED BY <1>5, <1>6, <1>7

LEMMA RejectedReleased ==
  ASSUME TypeInv, NEW f, IsSelection(f), NEW n \in Nat \ {0}, NEW m \in Nat \ {0},
         AtRejected(f, n, m), Syncthreads, ~apart'
  PROVE  AtLoop(f, n + 1, m)'
<1> USE Types, Released
<1>1. pc[0] = "chosen"
  BY DEF AtRejected
<1>2. /\ n <= Len(cands) /\ nSel > 0 /\ nSel < R /\ Holds(nSel, selected, f[n - 1])
      /\ m <= nSel /\ CoveredBefore(f, n, m)
      /\ \A w \in Warps : i[w] = n + 1 /\ j[w] = m
  BY <1>1 DEF AtRejected, AtTest, Holding
<1>3. n \in 1 .. Len(cands)
  <2>1. n <= Len(cands) /\ Len(cands) \in Nat
    BY <1>2
  <2> QED BY ONLY <2>1, n \in Nat \ {0}
<1>4. nSel = Len(f[n - 1])
  BY <1>2 DEF Holds
<1>5. CoveredBefore(f, n, Len(f[n - 1]) + 1)
  <2>1. 1 .. m - 1 \subseteq 1 .. (nSel + 1) - 1
    BY <1>2
  <2> QED BY <1>2, <1>4, <2>1 DEF CoveredBefore
<1>6. f[n] = f[n - 1]
  BY <1>2, <1>3, <1>4, <1>5, NextSelected
<1>7. \A w \in Warps : i'[w] = n + 1 /\ j'[w] = m /\ pc'[w] = "loop"
  BY <1>1, <1>2
<1>8. n + 1 <= Len(cands') + 1 /\ n + 1 - 1 = n
  BY <1>2
<1> QED BY <1>2, <1>6, <1>7, <1>8 DEF AtLoop, Holding

-----------------------------------------------------------------------------
(* Every step.                                                             *)

LEMMA WarpKeeps ==
  ASSUME TypeInv, NEW w \in Warps, WarpNext(w)
  PROVE  v' = v /\ cands' = cands /\ apart' = apart
BY DEF WarpNext, Loop, Propose, ClearReject, ReadCandidate, ReadCount, InnerOver, InnerRejected,
       StorePartial, SumUp, Judge, Choose, WriteDegree, WriteList, Goto

LEMMA WarpStays ==
  ASSUME TypeInv, NEW f, IsSelection(f), NEW n \in Nat \ {0}, NEW m \in Nat \ {0},
         AtOnePlace(f, n, m), NEW w \in Warps, WarpNext(w)
  PROVE  AtOnePlace(f, n, m)'
<1>1. ~AtStart(f)
  BY WarpSteps DEF AtStart
<1>2. AtLoop(f, n, m) => AtLoop(f, n, m)'
  BY LoopStep
<1>3. AtFirst(f) => AtFirst(f)'
  BY FirstStep
<1>4. AtRead(f, n) => AtRead(f, n)'
  BY ReadStep
<1>5. AtSum(f, n, m) => AtSum(f, n, m)'
  BY SumStep
<1>6. AtJudge(f, n, m) => AtJudge(f, n, m)'
  BY JudgeStep
<1>7. AtTurn(f, n, m) => AtTurn(f, n, m)'
  BY TurnStep
<1>8. AtRejected(f, n, m) => AtRejected(f, n, m)'
  BY RejectedStep
<1>9. AtWrite(f) => AtWrite(f)'
  BY WriteStep
<1> QED BY <1>1, <1>2, <1>3, <1>4, <1>5, <1>6, <1>7, <1>8, <1>9 DEF AtOnePlace

LEMMA BarrierStays ==
  ASSUME TypeInv, NEW f, IsSelection(f), NEW n \in Nat \ {0}, NEW m \in Nat \ {0},
         AtOnePlace(f, n, m), Syncthreads, ~apart'
  PROVE  \E k, l \in Nat \ {0} : AtOnePlace(f, k, l)'
<1>0. {1, 2, n, m, n + 1, m + 1} \subseteq Nat \ {0}
  OBVIOUS
<1>1. CASE AtStart(f)
  BY <1>0, <1>1, StartReleased DEF AtOnePlace
<1>2. CASE AtLoop(f, n, m)
  BY <1>0, <1>2, LoopReleased DEF AtOnePlace
<1>3. CASE AtFirst(f)
  BY <1>0, <1>3, FirstReleased DEF AtOnePlace
<1>4. CASE AtRead(f, n)
  BY <1>0, <1>4, ReadReleased DEF AtOnePlace
<1>5. CASE AtSum(f, n, m)
  BY <1>0, <1>5, SumReleased DEF AtOnePlace
<1>6. CASE AtJudge(f, n, m)
  BY <1>0, <1>6, JudgeReleased DEF AtOnePlace
<1>7. CASE AtTurn(f, n, m)
  BY <1>0, <1>7, TurnReleased DEF AtOnePlace
<1>8. CASE AtRejected(f, n, m)
  BY <1>0, <1>8, RejectedReleased DEF AtOnePlace
<1>9. CASE AtWrite(f)
  BY <1>9, Released, Types DEF AtWrite
<1> QED BY <1>1, <1>2, <1>3, <1>4, <1>5, <1>6, <1>7, <1>8, <1>9 DEF AtOnePlace

Inv == TypeInv /\ Ascends /\ Together

LEMMA InvInitially == Init => Inv
<1> SUFFICES ASSUME Init PROVE Inv
  OBVIOUS
<1>1. TypeInv
  BY TypesInitially
<1>2. Ascends
  <2>1. PICK in \in Inputs : v = in.v /\ cands = ByDistance(in.v, in.cands)
    BY DEF Init
  <2>2. in.v \in Vertices /\ in.cands \in Seq(Vertices)
    BY InputAssumption DEF InputAssumption
  <2>3. Measured(in.v, in.cands)
    <3>1. \A k \in DOMAIN in.cands : in.cands[k] \in Vertices
      BY <2>2, EntriesOf
    <3> QED BY <2>2, <3>1, DistanceTypes DEF Measured
  <2> QED BY <2>1, <2>2, <2>3, SortedList DEF Ascends
<1>3. ASSUME NEW f, IsSelection(f) PROVE InStep(f)
  <2>1. Len(f[0]) = 0
    BY <1>3 DEF IsSelection
  <2>2. AtStart(f)
    <3>1. nSel = 0 /\ pc = [w \in Warps |-> "zeroed"] /\ i = [w \in Warps |-> 1] /\ j = [w \in Warps |-> 1]
      BY DEF Init, FirstCandidate
    <3> QED BY <2>1, <3>1 DEF AtStart, Holding, Holds
  <2> QED BY <2>2 DEF InStep, AtOnePlace
<1> QED BY <1>1, <1>2, <1>3 DEF Inv, Together

LEMMA InvKept ==
  ASSUME Inv, [Next]_vars
  PROVE  Inv'
<1> USE DEF Inv
<1>1. TypeInv'
  BY TypesKept
<1>2. CASE UNCHANGED vars
  <2>1. Ascends'
    BY <1>2 DEF Ascends, vars
  <2>2. Together'
    <3>1. ASSUME ~apart', NEW f, IsSelection(f)' PROVE InStep(f)'
      <4>1. ~apart /\ IsSelection(f)
        BY <1>2, <3>1 DEF vars, IsSelection
      <4>2. PICK n, m \in Nat \ {0} : AtOnePlace(f, n, m)
        BY <4>1 DEF Together, InStep
      <4>3. /\ UNCHANGED <<v, cands, nSel, selected, cCurr, reject, smemAccum, newDeg, newNbr>>
            /\ UNCHANGED <<pc, i, j, c, currNSel, apart>>
        BY <1>2 DEF vars, shared, local
      <4>4. AtOnePlace(f, n, m)'
        <5>1. AtStart(f)' = AtStart(f) /\ AtLoop(f, n, m)' = AtLoop(f, n, m) /\ AtFirst(f)' = AtFirst(f)
          BY <4>3 DEF AtStart, AtLoop, AtFirst, Holding
        <5>2. AtRead(f, n)' = AtRead(f, n) /\ AtSum(f, n, m)' = AtSum(f, n, m)
          BY <4>3 DEF AtRead, AtSum, AtTest, Holding, CoveredBefore
        <5>3. AtJudge(f, n, m)' = AtJudge(f, n, m) /\ AtTurn(f, n, m)' = AtTurn(f, n, m)
          BY <4>3 DEF AtJudge, AtTurn, AtTest, Holding, CoveredBefore
        <5>4. AtRejected(f, n, m)' = AtRejected(f, n, m) /\ AtWrite(f)' = AtWrite(f)
          BY <4>3 DEF AtRejected, AtWrite, AtTest, Holding, CoveredBefore
        <5> QED BY <4>2, <5>1, <5>2, <5>3, <5>4 DEF AtOnePlace
      <4> QED BY <4>4 DEF InStep
    <3> QED BY <3>1 DEF Together
  <2> QED BY <1>1, <2>1, <2>2
<1>3. CASE \E w \in Warps : WarpNext(w)
  <2>1. PICK w \in Warps : WarpNext(w)
    BY <1>3
  <2>2. v' = v /\ cands' = cands /\ apart' = apart
    BY <2>1, WarpKeeps
  <2>3. Ascends'
    BY <2>2 DEF Ascends
  <2>4. ASSUME ~apart', NEW f, IsSelection(f)' PROVE InStep(f)'
    <3>1. ~apart /\ IsSelection(f)
      BY <2>2, <2>4 DEF IsSelection
    <3>2. PICK n, m \in Nat \ {0} : AtOnePlace(f, n, m)
      BY <3>1 DEF Together, InStep
    <3>3. AtOnePlace(f, n, m)'
      BY <2>1, <3>1, <3>2, WarpStays
    <3> QED BY <3>3 DEF InStep
  <2> QED BY <1>1, <2>3, <2>4 DEF Together
<1>4. CASE Syncthreads
  <2>1. v' = v /\ cands' = cands /\ (~apart' => ~apart)
    BY <1>4 DEF Syncthreads
  <2>2. Ascends'
    BY <2>1 DEF Ascends
  <2>3. ASSUME ~apart', NEW f, IsSelection(f)' PROVE InStep(f)'
    <3>1. ~apart /\ IsSelection(f)
      BY <2>1, <2>3 DEF IsSelection
    <3>2. PICK n, m \in Nat \ {0} : AtOnePlace(f, n, m)
      BY <3>1 DEF Together, InStep
    <3>3. \E k, l \in Nat \ {0} : AtOnePlace(f, k, l)'
      BY <1>4, <2>3, <3>1, <3>2, BarrierStays
    <3> QED BY <3>3 DEF InStep
  <2> QED BY <1>1, <2>2, <2>3 DEF Together
<1> QED BY <1>2, <1>3, <1>4 DEF Next, BlockOver

LEMMA InvAlways == Spec => []Inv
BY InvInitially, InvKept, PTL DEF Spec

-----------------------------------------------------------------------------
(* The theorems.                                                           *)

(* Whatever the warps do between the barriers, together or not, the        *)
(* registers, the shared variables and the new list keep their types, and  *)
(* no more than R candidates are ever selected or written.                 *)
THEOREM BlockTyped == Spec => []TypeOK
<1>1. Inv => TypeOK
  BY DEF Inv, TypeInv
<1> QED BY <1>1, InvAlways, PTL

(* The new list is the alpha-RNG of the candidates unless a barrier has    *)
(* released warps at different places (blockAlphaRNG,                      *)
(* fda_robust_prune.cuh).                                                  *)
THEOREM TogetherIsAlphaRNG == Spec => []SelectedIfTogether
<1>1. ASSUME Inv PROVE SelectedIfTogether
  <2> SUFFICES ASSUME Exited, ~apart PROVE NewList = Pruned(v, cands)
    BY DEF SelectedIfTogether
  <2> USE <1>1 DEF Inv
  <2>1. PICK f : IsSelection(f) /\ Pruned(v, cands) = f[Len(cands)]
    BY SelectionExists
  <2>2. PICK n, m \in Nat \ {0} : AtOnePlace(f, n, m)
    BY <2>1 DEF Together, InStep
  <2>3. 0 \in Warps /\ pc[0] = "exit"
    BY WarpType DEF Exited
  <2>4. AtWrite(f)
    <3>1. ~AtStart(f) /\ ~AtLoop(f, n, m) /\ ~AtFirst(f) /\ ~AtRead(f, n)
      BY <2>3 DEF AtStart, AtLoop, AtFirst, AtRead
    <3>2. ~AtSum(f, n, m) /\ ~AtJudge(f, n, m) /\ ~AtTurn(f, n, m) /\ ~AtRejected(f, n, m)
      BY <2>3 DEF AtSum, AtJudge, AtTurn, AtRejected
    <3> QED BY <2>2, <3>1, <3>2 DEF AtOnePlace
  <2> DEFINE sel == f[Len(cands)]
  <2>5. newDeg = nSel /\ nSel = Len(sel) /\ \A k \in 1 .. nSel : selected[k] = sel[k]
    BY <2>4 DEF AtWrite, Holding, Holds
  <2>6. Len(cands) \in 0 .. Len(cands)
    BY Types
  <2>7. sel \in Seq(Vertices) /\ Len(sel) \in Nat /\ \A k \in 1 .. Len(sel) : sel[k] \in Vertices
    BY <2>1, <2>6, SelectionIs
  <2> HIDE DEF sel
  <2>8. ASSUME NEW k \in 1 .. Len(sel) PROVE newNbr[k] = sel[k]
    <3>1. (k - 1) % NumWarps \in Warps
      BY WarpType DEF Warps
    <3>2. pc[(k - 1) % NumWarps] = "exit" /\ k \in 1 .. nSel
      BY <2>5, <3>1 DEF Exited
    <3>3. newNbr[k] = selected[k]
      BY <2>4, <3>1, <3>2 DEF AtWrite
    <3> QED BY <2>5, <3>2, <3>3
  <2>9. /\ NewList \in Seq(Vertices) /\ Len(NewList) = Len(sel)
        /\ \A k \in 1 .. Len(sel) : NewList[k] = newNbr[k]
    <3>1. PICK L \in Nat : L = Len(sel)
      BY <2>7
    <3>2. NewList = SubSeq(newNbr, 1, L)
      BY <2>5, <3>1 DEF NewList
    <3>3. \A k \in 1 .. L : newNbr[k] \in Vertices
      BY <2>7, <2>8, <3>1
    <3> QED BY <3>1, <3>2, <3>3, SubSeqProperties
  <2>10. NewList = sel
    BY <2>7, <2>8, <2>9, SeqEqual
  <2> QED BY <2>1, <2>10 DEF sel
<1> QED BY <1>1, InvAlways, PTL

(* The warps can be released from different places for the first time only *)
(* while one of them is still at the first candidate.                      *)
THEOREM DriftStartsAtTheFirst == Spec => ApartAtTheFirstOnly
<1>1. ASSUME Inv, Syncthreads, ~apart, apart' PROVE \E w \in Warps : i[w] = FirstCandidate
  <2> USE <1>1 DEF Inv
  <2> SUFFICES ASSUME \A w \in Warps : i[w] # 1 PROVE FALSE
    BY DEF FirstCandidate
  <2>1. PICK f : IsSelection(f)
    BY SelectionExists
  <2>2. PICK n, m \in Nat \ {0} : AtOnePlace(f, n, m)
    BY <2>1 DEF Together, InStep
  <2>3. PICK w \in Warps, x \in Warps : <<pc[w], i[w], j[w]>> # <<pc[x], i[x], j[x]>>
    BY DEF Syncthreads
  <2>4. pc[w] # pc[x] \/ i[w] # i[x] \/ j[w] # j[x]
    BY <2>3
  <2>5. /\ \A y \in Warps : pc[y] \in {"zeroed", "set", "stored", "summed", "judged", "rejected",
                                       "chosen", "counted", "exit"}
        /\ \E y \in Warps : pc[y] # "exit"
    BY DEF Syncthreads, Waiting, After
  <2>6. ~AtStart(f)
    BY DEF AtStart
  <2>7. ~AtLoop(f, n, m)
    BY <2>4, <2>5 DEF AtLoop
  <2>8. ~AtFirst(f)
    BY <2>4, <2>5 DEF AtFirst
  <2>9. ~AtRead(f, n)
    BY <2>4, <2>5 DEF AtRead
  <2>10. ~AtSum(f, n, m)
    BY <2>4, <2>5 DEF AtSum
  <2>11. ~AtJudge(f, n, m)
    BY <2>4, <2>5 DEF AtJudge
  <2>12. ~AtTurn(f, n, m)
    BY <2>4, <2>5 DEF AtTurn
  <2>13. ~AtRejected(f, n, m)
    BY <2>4, <2>5 DEF AtRejected
  <2>14. ~AtWrite(f)
    BY <2>5 DEF AtWrite
  <2> QED BY <2>2, <2>6, <2>7, <2>8, <2>9, <2>10, <2>11, <2>12, <2>13, <2>14 DEF AtOnePlace
<1>2. Inv /\ [Next]_vars => [~apart /\ apart' => \E w \in Warps : i[w] = FirstCandidate]_vars
  <2> SUFFICES ASSUME Inv, Next, ~apart, apart' PROVE \E w \in Warps : i[w] = FirstCandidate
    OBVIOUS
  <2>1. Syncthreads
    <3>1. ~(\E w \in Warps : WarpNext(w))
      BY WarpKeeps DEF Inv
    <3>2. ~BlockOver
      BY DEF BlockOver, vars
    <3> QED BY <3>1, <3>2 DEF Next
  <2> QED BY <1>1, <2>1
<1> QED BY <1>2, InvAlways, PTL DEF Spec, ApartAtTheFirstOnly

-----------------------------------------------------------------------------
(* When the warps drift apart, no other one gets ahead of warp 0.  What     *)
(* another one does, relative to warp 0, is a matter of these two alone: no *)
(* warp but 0 moves the verdict or the survivors, and a barrier opens for   *)
(* both or for none.  The inductive invariant lists, for the barrier warp 0 *)
(* has left, the barriers the other one can have left, and how many tests   *)
(* and candidates it can be behind.                                         *)

Turning == {"loop", "propose", "clear", "set"}
Reading == {"candidate", "count", "inner", "stored"}
Ending == {"return", "counted", "write", "exit"}

(* Warp 0 has selected the last survivor.                                   *)
Over == pc[0] \in Ending \/ (pc[0] = "loop" /\ ~(i[0] <= Len(cands) /\ nSel < R))

(* The candidate a warp is at, and how many tests are left after the one    *)
(* under way.                                                               *)
Turned(w) == IF pc[w] = "chosen" THEN i[w] - 1 ELSE i[w]
TestsLeft(w) == IF pc[w] = "judged" THEN currNSel[w] - j[w] + 1 ELSE currNSel[w] - j[w]

(* Warp 0 before the first test of a candidate, ...                         *)
FirstTest ==
  /\ pc[0] \in Reading /\ nSel > 0 /\ ~reject
  /\ pc[0] \in {"inner", "stored"} => j[0] = 1

(* ... and after a test.                                                    *)
Deciding ==
  /\ pc[0] \in {"inner", "stored", "rejected", "choose", "chosen"}
  /\ nSel > 0 /\ currNSel[0] > 0 /\ currNSel[0] <= nSel /\ j[0] <= currNSel[0] + 1
  /\ pc[0] \in {"stored", "rejected"} => j[0] <= currNSel[0]
  /\ pc[0] \in {"choose", "chosen"} => j[0] > currNSel[0]
  /\ pc[0] = "rejected" => reject

(* Warp 0 and another warp between the same two barriers: ...               *)
Starting(w) == pc[0] = "zeroed" /\ pc[w] = "zeroed" /\ i[0] = 1 /\ i[w] = 1

Turn(w) == pc[0] \in Turning /\ pc[w] \in {"loop", "propose", "set"} /\ i[w] <= i[0]

FirstSelected(w) ==
  /\ pc[0] \in {"candidate", "count", "inner", "choose", "chosen"}
  /\ pc[w] \in {"candidate", "count", "inner", "stored", "choose", "chosen"}
  /\ ~reject /\ Turned(0) = 1 /\ Turned(w) <= 1
  /\ nSel = IF pc[0] = "chosen" THEN 1 ELSE 0
  /\ pc[w] \in {"inner", "stored"} => j[w] = 1 /\ currNSel[w] <= nSel
  /\ pc[w] = "stored" => currNSel[w] = 1

Read(w) ==
  /\ FirstTest /\ pc[w] \in Reading /\ i[w] <= i[0]
  /\ pc[w] \in {"inner", "stored"} => j[w] = 1 /\ currNSel[w] = nSel

Tested(w) ==
  /\ \/ pc[0] \in {"sum", "summed"} /\ pc[w] \in {"sum", "summed"}
     \/ pc[0] \in {"judge", "judged"} /\ pc[w] \in {"judge", "judged"}
  /\ i[w] <= i[0] /\ currNSel[w] <= nSel /\ TestsLeft(w) >= TestsLeft(0)

Decided(w) ==
  /\ Deciding /\ pc[w] \in {"inner", "stored", "rejected", "choose", "chosen"}
  /\ Turned(w) <= Turned(0) /\ currNSel[w] <= currNSel[0] /\ TestsLeft(w) >= TestsLeft(0)
  /\ pc[w] = "stored" => ~reject
  /\ pc[w] = "rejected" => reject
  /\ pc[w] \in {"choose", "chosen"} => j[w] > currNSel[w]

(* ... or the other one behind, at a candidate before that of warp 0 or     *)
(* with as many tests left.                                                 *)
Behind(w) ==
  /\ Turned(w) <= Turned(0) /\ TestsLeft(w) <= TestsLeft(0)
  /\ Turned(w) < Turned(0) \/ TestsLeft(w) >= TestsLeft(0)

StillTesting(w) ==
  /\ nSel > 0 /\ i[w] < i[0] /\ TestsLeft(w) < nSel
  /\ \/ pc[0] \in Turning /\ pc[w] \in {"sum", "summed"}
     \/ FirstTest /\ pc[w] \in {"judge", "judged"}

DecidesLate(w) ==
  /\ pc[0] \in {"sum", "summed"} /\ pc[w] \in {"inner", "stored", "choose", "chosen"}
  /\ Behind(w) /\ (pc[w] \in {"choose", "chosen"} => j[w] > currNSel[w])

SumsLate(w) == pc[0] \in {"judge", "judged"} /\ pc[w] \in {"sum", "summed"} /\ Behind(w)

JudgesLate(w) ==
  /\ Deciding /\ pc[w] \in {"judge", "judged"}
  /\ Turned(w) <= Turned(0) /\ TestsLeft(w) <= TestsLeft(0) + 1
  /\ Turned(w) < Turned(0) \/ TestsLeft(w) >= TestsLeft(0) + 1

DropsLate(w) ==
  /\ pc[0] \in {"choose", "chosen"} /\ reject /\ nSel > 0
  /\ pc[w] \in {"inner", "rejected", "choose", "chosen"} /\ Turned(w) <= Turned(0)

ChoosesLate(w) ==
  /\ pc[0] \in Turning /\ nSel > 0
  /\ pc[w] \in {"inner", "choose", "chosen"} /\ Turned(w) < i[0]
  /\ pc[w] = "inner" => j[w] > currNSel[w]

TurnsLater(w) == pc[0] \in {"judge", "judged"} /\ pc[w] \in {"loop", "propose", "set"} /\ i[w] <= i[0]

ReadsLater(w) ==
  /\ Deciding /\ pc[w] \in {"candidate", "count", "inner", "stored", "rejected"}
  /\ Turned(w) <= Turned(0)
  /\ pc[w] \in {"inner", "stored", "rejected"} =>
       j[w] = 1 /\ currNSel[w] <= nSel /\ currNSel[w] >= currNSel[0]
  /\ pc[w] = "stored" => ~reject
  /\ pc[w] = "rejected" => reject

TurnsLate(w) == FirstTest /\ pc[w] \in {"loop", "propose", "set"} /\ i[w] <= i[0]

ReadsLate(w) ==
  /\ pc[0] \in {"sum", "summed"} /\ j[0] = 1 /\ pc[w] \in Reading /\ i[w] <= i[0]
  /\ pc[w] \in {"inner", "stored"} => j[w] = 1 /\ currNSel[w] = currNSel[0]

Beside(w) ==
  \/ Over
  \/ Starting(w) \/ Turn(w) \/ FirstSelected(w) \/ Read(w) \/ Tested(w) \/ Decided(w)
  \/ StillTesting(w) \/ DecidesLate(w) \/ SumsLate(w) \/ JudgesLate(w) \/ DropsLate(w)
  \/ ChoosesLate(w) \/ TurnsLater(w) \/ ReadsLater(w) \/ TurnsLate(w) \/ ReadsLate(w)

(* The counters of warp 0, which alone says what is selected.               *)
Testing == {"inner", "stored", "sum", "summed", "judge", "judged", "rejected", "choose"}
Counters ==
  /\ pc[0] \in Testing \cup {"propose", "clear", "set", "candidate", "count"} => i[0] <= Len(cands)
  /\ pc[0] \in Testing => currNSel[0] = nSel
  /\ pc[0] \in {"set", "candidate", "count", "stored", "sum", "summed", "judge"} => ~reject
  /\ pc[0] = "rejected" => reject /\ nSel > 0
  /\ pc[0] \in {"stored", "sum", "summed", "judge"} => j[0] <= nSel
  /\ pc[0] = "judged" => 1 < j[0] /\ j[0] <= nSel + 1
  /\ pc[0] \in {"inner", "choose"} /\ nSel = 0 => ~reject
  /\ i[0] = 1 => nSel = 0
  /\ i[0] > 1 => nSel > 0
  /\ pc[0] = "zeroed" => i[0] = 1
  /\ pc[0] \in Ending => i[0] > 1

(* What it has selected: candidates before its own, in their order.         *)
InOrder(count, list, before) ==
  /\ count > 0 => list[1] = cands[1]
  /\ \A k \in 1 .. count : \E m \in 1 .. Len(cands) : m < before /\ list[k] = cands[m]
  /\ \A k, l \in 1 .. count : k < l =>
       \E m, n \in 1 .. Len(cands) : m < n /\ list[k] = cands[m] /\ list[l] = cands[n]

Chosen ==
  /\ pc[0] \in {"clear", "set", "candidate"} => cCurr = cands[i[0]]
  /\ pc[0] \in Testing \cup {"count"} => c[0] = cands[i[0]]
  /\ pc[0] \in {"counted", "write", "exit"} => newDeg = nSel
  /\ InOrder(nSel, selected, i[0])

(* No list is written before the last survivor is selected, and what a warp *)
(* has written are the survivors dealt out to it.                           *)
ListedBy(w) == \A k \in 1 .. nSel : (k - 1) % NumWarps = w => newNbr[k] = selected[k]
Written == \A w \in Warps : (pc[w] \in Ending => Over) /\ (pc[w] = "exit" => ListedBy(w))

(* Thread 0 alone clears the verdict.                                       *)
NeverAhead == \A w \in Warps \ {0} : pc[w] # "clear" /\ Beside(w)

DriftInv == TypeInv /\ Counters /\ Chosen /\ Written /\ NeverAhead

-----------------------------------------------------------------------------
(* What a step of one warp does to its own counters.                        *)

Still(w) == i'[w] = i[w] /\ j'[w] = j[w] /\ currNSel'[w] = currNSel[w]

(* A warp other than 0.                                                     *)
Went(w) ==
  \/ pc[w] = "loop" /\ pc'[w] = "propose" /\ i[w] <= Len(cands) /\ nSel < R /\ Still(w)
  \/ pc[w] = "loop" /\ pc'[w] = "return" /\ ~(i[w] <= Len(cands) /\ nSel < R) /\ Still(w)
  \/ pc[w] = "propose" /\ pc'[w] = "set" /\ Still(w)
  \/ pc[w] = "candidate" /\ pc'[w] = "count" /\ Still(w)
  \/ pc[w] = "count" /\ pc'[w] = "inner" /\ i'[w] = i[w] /\ j'[w] = 1 /\ currNSel'[w] = nSel
  \/ pc[w] = "inner" /\ pc'[w] = "choose" /\ j[w] > currNSel[w] /\ Still(w)
  \/ pc[w] = "inner" /\ pc'[w] = "rejected" /\ j[w] <= currNSel[w] /\ reject /\ Still(w)
  \/ pc[w] = "inner" /\ pc'[w] = "stored" /\ j[w] <= currNSel[w] /\ ~reject /\ Still(w)
  \/ pc[w] = "sum" /\ pc'[w] = "summed" /\ Still(w)
  \/ /\ pc[w] = "judge" /\ pc'[w] = "judged"
     /\ i'[w] = i[w] /\ j'[w] = j[w] + 1 /\ currNSel'[w] = currNSel[w]
  \/ /\ pc[w] = "choose" /\ pc'[w] = "chosen"
     /\ i'[w] = i[w] + 1 /\ j'[w] = j[w] /\ currNSel'[w] = currNSel[w]
  \/ pc[w] = "return" /\ pc'[w] = "counted" /\ Still(w)
  \/ pc[w] = "write" /\ pc'[w] = "exit" /\ Still(w)

(* Warp 0 moves the verdict and the survivors besides.                      *)
Led ==
  \/ /\ pc[0] = "loop" /\ pc'[0] = "propose" /\ i[0] <= Len(cands) /\ nSel < R
     /\ Still(0) /\ reject' = reject /\ nSel' = nSel
  \/ /\ pc[0] = "loop" /\ pc'[0] = "return" /\ ~(i[0] <= Len(cands) /\ nSel < R)
     /\ Still(0) /\ reject' = reject /\ nSel' = nSel
  \/ pc[0] = "propose" /\ pc'[0] = "clear" /\ Still(0) /\ reject' = reject /\ nSel' = nSel
  \/ pc[0] = "clear" /\ pc'[0] = "set" /\ Still(0) /\ reject' = FALSE /\ nSel' = nSel
  \/ pc[0] = "candidate" /\ pc'[0] = "count" /\ Still(0) /\ reject' = reject /\ nSel' = nSel
  \/ /\ pc[0] = "count" /\ pc'[0] = "inner" /\ i'[0] = i[0] /\ j'[0] = 1 /\ currNSel'[0] = nSel
     /\ reject' = reject /\ nSel' = nSel
  \/ /\ pc[0] = "inner" /\ pc'[0] = "choose" /\ j[0] > currNSel[0]
     /\ Still(0) /\ reject' = reject /\ nSel' = nSel
  \/ /\ pc[0] = "inner" /\ pc'[0] = "rejected" /\ j[0] <= currNSel[0] /\ reject
     /\ Still(0) /\ reject' = reject /\ nSel' = nSel
  \/ /\ pc[0] = "inner" /\ pc'[0] = "stored" /\ j[0] <= currNSel[0] /\ ~reject
     /\ Still(0) /\ reject' = reject /\ nSel' = nSel
  \/ pc[0] = "sum" /\ pc'[0] = "summed" /\ Still(0) /\ reject' = reject /\ nSel' = nSel
  \/ /\ pc[0] = "judge" /\ pc'[0] = "judged" /\ i'[0] = i[0] /\ j'[0] = j[0] + 1
     /\ currNSel'[0] = currNSel[0] /\ nSel' = nSel
  \/ /\ pc[0] = "choose" /\ pc'[0] = "chosen" /\ i'[0] = i[0] + 1 /\ j'[0] = j[0]
     /\ currNSel'[0] = currNSel[0] /\ reject' = reject
     /\ nSel' = IF reject THEN nSel ELSE nSel + 1
  \/ pc[0] = "return" /\ pc'[0] = "counted" /\ Still(0) /\ reject' = reject /\ nSel' = nSel
  \/ pc[0] = "write" /\ pc'[0] = "exit" /\ Still(0) /\ reject' = reject /\ nSel' = nSel

(* A barrier.                                                               *)
Let(w) ==
  /\ Still(w)
  /\ \/ pc[w] = "exit" /\ pc'[w] = "exit"
     \/ pc[w] = "zeroed" /\ pc'[w] = "loop"
     \/ pc[w] = "set" /\ pc'[w] = "candidate"
     \/ pc[w] = "stored" /\ pc'[w] = "sum"
     \/ pc[w] = "summed" /\ pc'[w] = "judge"
     \/ pc[w] = "judged" /\ pc'[w] = "inner"
     \/ pc[w] = "rejected" /\ pc'[w] = "choose"
     \/ pc[w] = "chosen" /\ pc'[w] = "loop"
     \/ pc[w] = "counted" /\ pc'[w] = "write"

(* The numbers of warp 0 and another one.                                   *)
Numbers(w) ==
  /\ i[w] \in Nat \ {0} /\ j[w] \in Nat \ {0} /\ currNSel[w] \in Nat
  /\ i[0] \in Nat \ {0} /\ j[0] \in Nat \ {0} /\ currNSel[0] \in Nat
  /\ nSel \in Nat /\ Len(cands) \in Nat /\ R \in Nat /\ R > 0 /\ reject \in BOOLEAN
  /\ pc[0] \notin Finishing => nSel < R

-----------------------------------------------------------------------------
(* No warp gets ahead: one kind of distance after another.                  *)

LEMMA SumsUp ==
  ASSUME NEW w, Numbers(w), Went(w), pc[w] \in {"sum", "judge"}
  PROVE  /\ (pc[w] = "sum" /\ pc'[w] = "summed") \/ (pc[w] = "judge" /\ pc'[w] = "judged")
         /\ i'[w] = i[w] /\ currNSel'[w] = currNSel[w]
         /\ Turned(w)' = Turned(w) /\ TestsLeft(w)' = TestsLeft(w)
<1>1. CASE pc[w] = "sum"
  <2>1. pc'[w] = "summed" /\ Still(w)
    BY <1>1 DEF Went
  <2> QED BY <1>1, <2>1 DEF Turned, TestsLeft, Still
<1>2. CASE pc[w] = "judge"
  <2>1. /\ pc'[w] = "judged" /\ i'[w] = i[w] /\ j'[w] = j[w] + 1 /\ currNSel'[w] = currNSel[w]
    BY <1>2 DEF Went
  <2>2. currNSel[w] - (j[w] + 1) + 1 = currNSel[w] - j[w]
    BY DEF Numbers
  <2> QED BY <1>2, <2>1, <2>2 DEF Turned, TestsLeft
<1> QED BY <1>1, <1>2

LEMMA LeaderSumsUp ==
  ASSUME Numbers(0), Led, pc[0] \in {"sum", "judge"}
  PROVE  /\ (pc[0] = "sum" /\ pc'[0] = "summed") \/ (pc[0] = "judge" /\ pc'[0] = "judged")
         /\ i'[0] = i[0] /\ currNSel'[0] = currNSel[0] /\ nSel' = nSel
         /\ Turned(0)' = Turned(0) /\ TestsLeft(0)' = TestsLeft(0)
<1>1. CASE pc[0] = "sum"
  <2>1. pc'[0] = "summed" /\ Still(0) /\ nSel' = nSel
    BY <1>1 DEF Led
  <2> QED BY <1>1, <2>1 DEF Turned, TestsLeft, Still
<1>2. CASE pc[0] = "judge"
  <2>1. /\ pc'[0] = "judged" /\ i'[0] = i[0] /\ j'[0] = j[0] + 1 /\ currNSel'[0] = currNSel[0]
        /\ nSel' = nSel
    BY <1>2 DEF Led
  <2>2. currNSel[0] - (j[0] + 1) + 1 = currNSel[0] - j[0]
    BY DEF Numbers
  <2> QED BY <1>2, <2>1, <2>2 DEF Turned, TestsLeft
<1> QED BY <1>1, <1>2

LEMMA LeaderDecides ==
  ASSUME Numbers(0), Counters, Deciding, Led
  PROVE  /\ Deciding' /\ reject' = reject /\ currNSel'[0] = currNSel[0] /\ nSel' >= nSel
         /\ Turned(0)' = Turned(0) /\ TestsLeft(0)' = TestsLeft(0)
<1>1. CASE pc[0] = "inner"
  <2>1. /\ pc'[0] \in {"choose", "rejected", "stored"} /\ Still(0) /\ reject' = reject /\ nSel' = nSel
        /\ pc'[0] = "choose" => j[0] > currNSel[0]
        /\ pc'[0] = "rejected" => j[0] <= currNSel[0] /\ reject
        /\ pc'[0] = "stored" => j[0] <= currNSel[0]
    BY <1>1 DEF Led
  <2>2. Deciding'
    BY <1>1, <2>1 DEF Deciding, Still
  <2> QED BY <1>1, <2>1, <2>2 DEF Turned, TestsLeft, Still, Numbers
<1>2. CASE pc[0] = "choose"
  <2>1. /\ pc'[0] = "chosen" /\ i'[0] = i[0] + 1 /\ j'[0] = j[0] /\ currNSel'[0] = currNSel[0]
        /\ reject' = reject /\ nSel' >= nSel /\ nSel' \in Nat
    BY <1>2 DEF Led, Numbers
  <2>2. Deciding'
    BY <1>2, <2>1 DEF Deciding, Numbers
  <2> QED BY <1>2, <2>1, <2>2 DEF Turned, TestsLeft, Numbers
<1> QED BY <1>1, <1>2 DEF Deciding, Led

LEMMA LetTests ==
  ASSUME NEW w, Numbers(w), Let(w)
  PROVE  /\ Turned(w)' = i[w] /\ (pc[w] # "chosen" => Turned(w) = i[w])
         /\ pc[w] = "chosen" => i[w] = Turned(w) + 1
         /\ pc[w] # "judged" => TestsLeft(w)' = TestsLeft(w)
         /\ pc[w] = "judged" => TestsLeft(w)' = TestsLeft(w) - 1
         /\ TestsLeft(w) \in Int /\ Turned(w) \in Int
<1>1. pc'[w] # "chosen" /\ pc'[w] # "judged" /\ i'[w] = i[w]
  BY DEF Let, Still
<1>2. /\ Turned(w)' = i[w] /\ (pc[w] # "chosen" => Turned(w) = i[w]) /\ Turned(w) \in Int
      /\ pc[w] = "chosen" => i[w] = Turned(w) + 1
  BY <1>1 DEF Turned, Numbers
<1>3. TestsLeft(w)' = currNSel[w] - j[w]
  BY <1>1 DEF TestsLeft, Let, Still
<1>4. CASE pc[w] = "judged"
  BY <1>2, <1>3, <1>4 DEF TestsLeft, Numbers
<1>5. CASE pc[w] # "judged"
  BY <1>2, <1>3, <1>5 DEF TestsLeft, Numbers
<1> QED BY <1>2, <1>4, <1>5

LEMMA OtherKeepsBehind ==
  ASSUME NEW w, Numbers(w), Beside(w), Counters, Went(w), pc'[0] = pc[0], Still(0),
         UNCHANGED <<cands, nSel, reject>>
  PROVE  Beside(w)'
<1>1. Over => Over'
  BY DEF Over, Ending, Still
<1>2. Starting(w) => FALSE
  BY DEF Starting, Went, Still, Numbers, Counters, Testing
<1>3. Turn(w) => Turn(w)' \/ Over'
  BY DEF Turn, Turning, Over, Went, Still, Numbers, Counters, Testing, Ending, Finishing
<1>4. FirstSelected(w) => FirstSelected(w)'
  BY DEF FirstSelected, Turned, Went, Still, Numbers, Counters, Testing
<1>5. Read(w) => Read(w)'
  BY DEF Read, FirstTest, Reading, Went, Still, Numbers, Counters, Testing
<1>6. Tested(w) => Tested(w)'
  <2>1. Turned(0)' = Turned(0) /\ TestsLeft(0)' = TestsLeft(0)
    BY DEF Turned, TestsLeft, Still
  <2>2. Tested(w) => pc[w] \in {"sum", "judge"}
    BY DEF Tested, Went
  <2> QED BY <2>1, <2>2, SumsUp DEF Tested, Still
<1>7. Decided(w) => Decided(w)'
  BY DEF Decided, Deciding, Turned, TestsLeft, Went, Still, Numbers, Counters, Testing
<1>8. StillTesting(w) => StillTesting(w)'
  BY DEF StillTesting, Turning, FirstTest, Reading, TestsLeft, Went, Still, Numbers, Counters,
         Testing
<1>9. DecidesLate(w) => DecidesLate(w)'
  <2>1. Turned(0)' = Turned(0) /\ TestsLeft(0)' = TestsLeft(0)
    BY DEF Turned, TestsLeft, Still
  <2>2. ASSUME DecidesLate(w)
        PROVE  /\ pc'[w] \in {"inner", "stored", "choose", "chosen"}
               /\ pc'[w] \in {"choose", "chosen"} => j[w] > currNSel[w]
               /\ j'[w] = j[w] /\ currNSel'[w] = currNSel[w]
               /\ i'[w] = IF pc'[w] = "chosen" THEN i[w] + 1 ELSE i[w]
    BY <2>2 DEF DecidesLate, Went, Still, Numbers, Counters
  <2>3. ASSUME DecidesLate(w)
        PROVE  Turned(w)' = Turned(w) /\ TestsLeft(w)' = TestsLeft(w)
    <3>1. TestsLeft(w)' = TestsLeft(w)
      BY <2>2, <2>3 DEF DecidesLate, TestsLeft
    <3>2. CASE pc'[w] = "chosen"
      <4>1. pc[w] = "choose" /\ i'[w] = i[w] + 1
        BY <2>3, <3>2 DEF DecidesLate, Went
      <4> QED BY <3>1, <3>2, <4>1 DEF Turned, Numbers
    <3>3. CASE pc'[w] # "chosen"
      <4>1. pc[w] # "chosen" /\ i'[w] = i[w]
        BY <2>3, <3>3 DEF DecidesLate, Went, Still
      <4> QED BY <3>1, <3>3, <4>1 DEF Turned
    <3> QED BY <3>2, <3>3
  <2> QED BY <2>1, <2>2, <2>3 DEF DecidesLate, Behind
<1>10. SumsLate(w) => SumsLate(w)'
  <2>1. Turned(0)' = Turned(0) /\ TestsLeft(0)' = TestsLeft(0)
    BY DEF Turned, TestsLeft, Still
  <2>2. SumsLate(w) => pc[w] = "sum"
    BY DEF SumsLate, Went
  <2> QED BY <2>1, <2>2, SumsUp DEF SumsLate, Behind
<1>11. JudgesLate(w) => JudgesLate(w)'
  <2>1. Turned(0)' = Turned(0) /\ TestsLeft(0)' = TestsLeft(0)
    BY DEF Turned, TestsLeft, Still
  <2>2. JudgesLate(w) => pc[w] = "judge"
    BY DEF JudgesLate, Went
  <2> QED BY <2>1, <2>2, SumsUp DEF JudgesLate, Deciding, Still
<1>12. DropsLate(w) => DropsLate(w)'
  BY DEF DropsLate, Turned, Went, Still, Numbers, Counters, Testing
<1>13. ChoosesLate(w) => ChoosesLate(w)'
  BY DEF ChoosesLate, Turning, Turned, Went, Still, Numbers, Counters, Testing
<1>14. TurnsLater(w) => TurnsLater(w)' \/ Over'
  BY DEF TurnsLater, Over, Went, Still, Numbers, Counters, Testing, Ending, Finishing
<1>15. ReadsLater(w) => ReadsLater(w)'
  BY DEF ReadsLater, Deciding, Turned, Went, Still, Numbers, Counters, Testing
<1>16. TurnsLate(w) => TurnsLate(w)' \/ Over'
  BY DEF TurnsLate, FirstTest, Reading, Over, Went, Still, Numbers, Counters, Testing, Ending,
         Finishing
<1>17. ReadsLate(w) => ReadsLate(w)' \/ DecidesLate(w)'
  BY DEF ReadsLate, Reading, DecidesLate, Behind, Turned, TestsLeft, Went, Still, Numbers,
         Counters, Testing
<1> QED BY <1>1, <1>2, <1>3, <1>4, <1>5, <1>6, <1>7, <1>8, <1>9, <1>10, <1>11, <1>12, <1>13,
           <1>14, <1>15, <1>16, <1>17 DEF Beside

LEMMA LeaderKeepsBehind ==
  ASSUME NEW w, Numbers(w), Beside(w), Counters, Led, pc'[w] = pc[w], Still(w), UNCHANGED cands
  PROVE  Beside(w)'
<1>0. Numbers(0)
  BY DEF Numbers
<1>1. Over => Over'
  BY DEF Over, Ending, Led, Still
<1>2. Starting(w) => FALSE
  BY DEF Starting, Led, Still, Numbers, Counters, Testing
<1>3. Turn(w) => Turn(w)' \/ Over'
  BY DEF Turn, Turning, Over, Led, Still, Numbers, Counters, Testing, Ending, Finishing
<1>4. FirstSelected(w) => FirstSelected(w)'
  BY DEF FirstSelected, Turned, Led, Still, Numbers, Counters, Testing
<1>5. Read(w) => Read(w)'
  BY DEF Read, FirstTest, Reading, Led, Still, Numbers, Counters, Testing
<1>6. Tested(w) => Tested(w)'
  <2>1. Turned(w)' = Turned(w) /\ TestsLeft(w)' = TestsLeft(w)
    BY DEF Turned, TestsLeft, Still
  <2>2. Tested(w) => pc[0] \in {"sum", "judge"} /\ Numbers(0)
    BY DEF Tested, Led, Numbers
  <2> QED BY <2>1, <2>2, LeaderSumsUp DEF Tested, Still
<1>7. Decided(w) => Decided(w)'
  <2>1. Turned(w)' = Turned(w) /\ TestsLeft(w)' = TestsLeft(w)
    BY DEF Turned, TestsLeft, Still
  <2> QED BY <1>0, <2>1, LeaderDecides DEF Decided, Still
<1>8. StillTesting(w) => StillTesting(w)' \/ Over'
  BY DEF StillTesting, Turning, FirstTest, Reading, TestsLeft, Over, Led, Still, Numbers,
         Counters, Testing, Ending, Finishing
<1>9. DecidesLate(w) => DecidesLate(w)'
  <2>1. Turned(w)' = Turned(w) /\ TestsLeft(w)' = TestsLeft(w)
    BY DEF Turned, TestsLeft, Still
  <2>2. DecidesLate(w) => pc[0] = "sum" /\ Numbers(0)
    BY DEF DecidesLate, Led, Numbers
  <2> QED BY <2>1, <2>2, LeaderSumsUp DEF DecidesLate, Behind, Still
<1>10. SumsLate(w) => SumsLate(w)'
  <2>1. Turned(w)' = Turned(w) /\ TestsLeft(w)' = TestsLeft(w)
    BY DEF Turned, TestsLeft, Still
  <2>2. SumsLate(w) => pc[0] = "judge" /\ Numbers(0)
    BY DEF SumsLate, Led, Numbers
  <2> QED BY <2>1, <2>2, LeaderSumsUp DEF SumsLate, Behind
<1>11. JudgesLate(w) => JudgesLate(w)'
  <2>1. Turned(w)' = Turned(w) /\ TestsLeft(w)' = TestsLeft(w)
    BY DEF Turned, TestsLeft, Still
  <2> QED BY <1>0, <2>1, LeaderDecides DEF JudgesLate
<1>12. DropsLate(w) => DropsLate(w)'
  <2>1. Turned(w)' = Turned(w)
    BY DEF Turned, Still
  <2>2. ASSUME DropsLate(w)
        PROVE  /\ pc'[0] \in {"choose", "chosen"} /\ reject' /\ nSel' > 0
               /\ Turned(0)' = Turned(0)
    <3>1. pc[0] = "choose" /\ pc'[0] = "chosen" /\ i'[0] = i[0] + 1 /\ reject' = reject /\ nSel' = nSel
      BY <2>2 DEF DropsLate, Led
    <3>2. Turned(0)' = Turned(0)
      BY <3>1 DEF Turned, Numbers
    <3> QED BY <2>2, <3>1, <3>2 DEF DropsLate
  <2> QED BY <2>1, <2>2 DEF DropsLate
<1>13. ChoosesLate(w) => ChoosesLate(w)' \/ Over'
  BY DEF ChoosesLate, Turning, Turned, Over, Led, Still, Numbers, Counters, Testing, Ending,
         Finishing
<1>14. TurnsLater(w) => TurnsLater(w)'
  BY DEF TurnsLater, Led, Still, Numbers, Counters, Testing
<1>15. ReadsLater(w) => ReadsLater(w)'
  BY DEF ReadsLater, Deciding, Turned, Led, Still, Numbers, Counters, Testing
<1>16. TurnsLate(w) => TurnsLate(w)'
  BY DEF TurnsLate, FirstTest, Reading, Led, Still, Numbers, Counters, Testing
<1>17. ReadsLate(w) => ReadsLate(w)'
  BY DEF ReadsLate, Reading, Led, Still, Numbers, Counters, Testing
<1> QED BY <1>1, <1>2, <1>3, <1>4, <1>5, <1>6, <1>7, <1>8, <1>9, <1>10, <1>11, <1>12, <1>13,
           <1>14, <1>15, <1>16, <1>17 DEF Beside

LEMMA BarrierKeepsBehind ==
  ASSUME NEW w, Numbers(w), Beside(w), Counters, Let(0), Let(w), UNCHANGED <<cands, nSel, reject>>
  PROVE  Beside(w)'
<1>1. Over => Over'
  BY DEF Over, Ending, Let
<1>2. Starting(w) => Turn(w)'
  BY DEF Starting, Turn, Turning, Let, Still, Numbers, Counters, Testing
<1>3. Turn(w) => FirstSelected(w)' \/ Read(w)'
  BY DEF Turn, Turning, FirstSelected, Turned, Read, FirstTest, Reading, Let, Still, Numbers,
         Counters, Testing
<1>4. FirstSelected(w) => StillTesting(w)' \/ Turn(w)'
  BY DEF FirstSelected, Turned, StillTesting, Turning, FirstTest, Reading, TestsLeft, Turn, Let,
         Still, Numbers, Counters, Testing
<1>5. Read(w) => Tested(w)'
  <2> SUFFICES ASSUME Read(w) PROVE Tested(w)'
    OBVIOUS
  <2>1. /\ pc[0] = "stored" /\ pc'[0] = "sum" /\ pc[w] = "stored" /\ pc'[w] = "sum"
        /\ i'[w] <= i'[0] /\ currNSel'[w] = nSel'
    BY DEF Read, FirstTest, Reading, Let, Still
  <2>2. j'[0] = 1 /\ j'[w] = 1 /\ currNSel'[0] = nSel
    BY <2>1 DEF Read, FirstTest, Counters, Testing, Let, Still
  <2>3. TestsLeft(w)' >= TestsLeft(0)'
    BY <2>1, <2>2 DEF TestsLeft, Numbers
  <2> QED BY <2>1, <2>3 DEF Tested, Numbers
<1>6. Tested(w) => Tested(w)' \/ Decided(w)' \/ FirstSelected(w)'
  <2> SUFFICES ASSUME Tested(w) PROVE Tested(w)' \/ Decided(w)'
    OBVIOUS
  <2>1. CASE pc[0] = "summed"
    <3>1. pc[w] = "summed" /\ pc'[w] = "judge" /\ pc'[0] = "judge"
      BY <2>1 DEF Tested, Let
    <3>2. TestsLeft(w)' = TestsLeft(w) /\ TestsLeft(0)' = TestsLeft(0)
      BY <2>1, <3>1 DEF TestsLeft, Let, Still, Numbers
    <3> QED BY <3>1, <3>2 DEF Tested, Let, Still
  <2>2. CASE pc[0] = "judged"
    <3>1. pc[w] = "judged" /\ pc'[w] = "inner" /\ pc'[0] = "inner"
      BY <2>2 DEF Tested, Let
    <3>2. TestsLeft(w)' >= TestsLeft(0)'
      BY <2>2, <3>1 DEF Tested, TestsLeft, Let, Still, Numbers
    <3>3. Turned(w)' <= Turned(0)'
      BY <3>1 DEF Tested, Turned, Let, Still, Numbers
    <3>4. Deciding' /\ currNSel'[w] <= currNSel'[0]
      BY <2>2, <3>1 DEF Tested, Deciding, Let, Still, Numbers, Counters, Testing
    <3> QED BY <3>1, <3>2, <3>3, <3>4 DEF Decided
  <2> QED BY <2>1, <2>2 DEF Tested, Let
<1>7. Decided(w) => StillTesting(w)' \/ Turn(w)' \/ ChoosesLate(w)' \/ DropsLate(w)' \/ Tested(w)'
  <2> SUFFICES ASSUME Decided(w)
               PROVE  StillTesting(w)' \/ Turn(w)' \/ ChoosesLate(w)' \/ DropsLate(w)' \/ Tested(w)'
    OBVIOUS
  <2>1. CASE pc[0] = "stored"
    <3>1. pc[w] = "stored" /\ pc'[w] = "sum" /\ pc'[0] = "sum"
      BY <2>1 DEF Decided, Deciding, Counters, Let, TestsLeft, Numbers
    <3>2. TestsLeft(w)' >= TestsLeft(0)'
      BY <2>1, <3>1 DEF Decided, TestsLeft, Let, Still, Numbers
    <3>3. i'[w] <= i'[0] /\ currNSel'[w] <= nSel'
      BY <2>1, <3>1 DEF Decided, Deciding, Turned, Let, Still, Numbers
    <3> QED BY <3>1, <3>2, <3>3 DEF Tested
  <2>2. CASE pc[0] = "rejected"
    <3>1. pc[w] = "rejected" /\ pc'[w] = "choose" /\ pc'[0] = "choose"
      BY <2>2 DEF Decided, Deciding, Let, TestsLeft, Numbers
    <3>2. Turned(w)' <= Turned(0)'
      BY <2>2, <3>1 DEF Decided, Turned, Let, Still, Numbers
    <3> QED BY <2>2, <3>1, <3>2 DEF DropsLate, Decided, Deciding
  <2>3. CASE pc[0] = "chosen"
    <3>1. pc'[0] = "loop" /\ nSel' > 0
      BY <2>3 DEF Let, Decided, Deciding
    <3>2. CASE pc[w] = "stored"
      <4>1. pc'[w] = "sum" /\ i'[w] < i'[0]
        BY <2>3, <3>2 DEF Decided, Turned, Let, Still, Numbers
      <4>2. TestsLeft(w)' < nSel'
        BY <3>2, <4>1 DEF Decided, Deciding, TestsLeft, Let, Still, Numbers
      <4> QED BY <3>1, <4>1, <4>2 DEF StillTesting, Turning
    <3>3. CASE pc[w] = "rejected"
      <4>1. pc'[w] = "choose" /\ Turned(w)' < i'[0]
        BY <2>3, <3>3 DEF Decided, Turned, Let, Still, Numbers
      <4> QED BY <3>1, <4>1 DEF ChoosesLate, Turning
    <3>4. CASE pc[w] = "chosen"
      <4>1. pc'[w] = "loop" /\ i'[w] <= i'[0]
        BY <2>3, <3>4 DEF Decided, Turned, Let, Still, Numbers
      <4> QED BY <3>1, <4>1 DEF Turn, Turning
    <3> QED BY <3>2, <3>3, <3>4 DEF Decided, Let
  <2> QED BY <2>1, <2>2, <2>3 DEF Decided, Deciding, Let
<1>8. StillTesting(w) => StillTesting(w)' \/ DecidesLate(w)'
  <2> SUFFICES ASSUME StillTesting(w) PROVE StillTesting(w)' \/ DecidesLate(w)'
    OBVIOUS
  <2>1. CASE pc[0] = "set"
    <3>1. pc[w] = "summed" /\ pc'[w] = "judge" /\ pc'[0] = "candidate"
      BY <2>1 DEF StillTesting, FirstTest, Reading, Let
    <3>2. TestsLeft(w)' = TestsLeft(w)
      BY <3>1 DEF TestsLeft, Let, Still
    <3>3. FirstTest'
      BY <2>1, <3>1 DEF FirstTest, Reading, StillTesting, Counters
    <3> QED BY <3>1, <3>2, <3>3 DEF StillTesting, Let, Still
  <2>2. CASE pc[0] = "stored"
    <3>1. pc[w] = "judged" /\ pc'[w] = "inner" /\ pc'[0] = "sum"
      BY <2>2 DEF StillTesting, Turning, Let
    <3>2. Turned(w)' < Turned(0)'
      BY <3>1 DEF StillTesting, Turned, Let, Still, Numbers
    <3>3. TestsLeft(w)' <= TestsLeft(0)'
      BY <2>2, <3>1 DEF StillTesting, FirstTest, TestsLeft, Let, Still, Numbers, Counters, Testing
    <3>4. Turned(w)' \in Int /\ Turned(0)' \in Int
      BY <3>1 DEF Turned, Let, Still, Numbers
    <3> QED BY <3>1, <3>2, <3>3, <3>4 DEF DecidesLate, Behind
  <2> QED BY <2>1, <2>2 DEF StillTesting, FirstTest, Turning, Reading, Let
<1>9. DecidesLate(w) => TurnsLater(w)' \/ SumsLate(w)'
  <2> SUFFICES ASSUME DecidesLate(w) PROVE TurnsLater(w)' \/ SumsLate(w)'
    OBVIOUS
  <2>1. /\ pc[0] = "summed" /\ pc'[0] = "judge" /\ i'[0] = i[0] /\ i'[w] = i[w]
        /\ (pc[w] = "stored" /\ pc'[w] = "sum") \/ (pc[w] = "chosen" /\ pc'[w] = "loop")
    BY DEF DecidesLate, Let, Still
  <2>2. /\ Turned(0)' = Turned(0) /\ Turned(0) = i[0]
        /\ TestsLeft(0)' = TestsLeft(0) /\ TestsLeft(w)' = TestsLeft(w)
    BY <2>1, LetTests DEF Numbers
  <2>3. CASE pc[w] = "stored"
    <3>1. Turned(w)' = Turned(w)
      BY <2>3, LetTests
    <3>2. Behind(w)'
      BY <2>2, <3>1 DEF DecidesLate, Behind
    <3> QED BY <2>1, <2>3, <3>2 DEF SumsLate
  <2>4. CASE pc[w] = "chosen"
    <3>1. TestsLeft(w) < 0
      BY <2>4 DEF DecidesLate, TestsLeft, Numbers
    <3>2. TestsLeft(0) >= 0
      BY <2>1 DEF Counters, Testing, TestsLeft, Numbers
    <3>3. TestsLeft(w) \in Int /\ TestsLeft(0) \in Int /\ Turned(w) \in Int /\ i[w] = Turned(w) + 1
      BY <2>4, LetTests DEF Numbers
    <3>4. Turned(w) < Turned(0)
      BY <3>1, <3>2, <3>3 DEF DecidesLate, Behind
    <3>5. i[w] <= i[0]
      BY <2>2, <3>3, <3>4 DEF Numbers
    <3> QED BY <2>1, <2>4, <3>5 DEF TurnsLater
  <2> QED BY <2>1, <2>3, <2>4
<1>10. SumsLate(w) => JudgesLate(w)'
  <2> SUFFICES ASSUME SumsLate(w) PROVE JudgesLate(w)'
    OBVIOUS
  <2>1. pc[0] = "judged" /\ pc'[0] = "inner" /\ pc[w] = "summed" /\ pc'[w] = "judge"
    BY DEF SumsLate, Let
  <2>2. /\ Turned(0)' = Turned(0) /\ Turned(w)' = Turned(w)
        /\ TestsLeft(0)' = TestsLeft(0) - 1 /\ TestsLeft(w)' = TestsLeft(w)
        /\ TestsLeft(0) \in Int /\ TestsLeft(w) \in Int /\ Turned(0) \in Int /\ Turned(w) \in Int
    BY <2>1, LetTests DEF Numbers
  <2>3. Deciding'
    BY <2>1 DEF Deciding, Counters, Testing, Let, Still, Numbers
  <2>4. /\ Turned(w)' <= Turned(0)' /\ TestsLeft(w)' <= TestsLeft(0)' + 1
        /\ Turned(w)' < Turned(0)' \/ TestsLeft(w)' >= TestsLeft(0)' + 1
    BY <2>2 DEF SumsLate, Behind
  <2> QED BY <2>1, <2>3, <2>4 DEF JudgesLate
<1>11. JudgesLate(w) => DecidesLate(w)' \/ DropsLate(w)' \/ ChoosesLate(w)'
  <2> SUFFICES ASSUME JudgesLate(w)
               PROVE  DecidesLate(w)' \/ DropsLate(w)' \/ ChoosesLate(w)'
    OBVIOUS
  <2>1. pc[w] = "judged" /\ pc'[w] = "inner" /\ Turned(w)' = i[w] /\ i[w] <= Turned(0)
    BY DEF JudgesLate, Let, Still, Turned
  <2>2. CASE pc[0] = "stored"
    <3>1. pc'[0] = "sum" /\ Turned(0)' = i[0] /\ Turned(0) = i[0] /\ Turned(w) = i[w]
      BY <2>1, <2>2 DEF Let, Still, Turned
    <3>2. TestsLeft(0)' = TestsLeft(0) /\ TestsLeft(w)' = TestsLeft(w) - 1
      BY <2>1, <2>2 DEF TestsLeft, Let, Still, Numbers
    <3>3. TestsLeft(0) \in Int /\ TestsLeft(w) \in Int
      BY DEF TestsLeft, Numbers
    <3>4. Behind(w)'
      BY <2>1, <3>1, <3>2, <3>3 DEF JudgesLate, Behind, Numbers
    <3> QED BY <2>1, <3>1, <3>4 DEF DecidesLate
  <2>3. CASE pc[0] = "rejected"
    <3>1. pc'[0] = "choose" /\ Turned(0)' = Turned(0)
      BY <2>3 DEF Let, Still, Turned
    <3> QED BY <2>1, <2>3, <3>1 DEF DropsLate, JudgesLate, Deciding
  <2>4. CASE pc[0] = "chosen"
    <3>1. pc'[0] = "loop" /\ i'[0] = i[0] /\ Turned(0) = i[0] - 1
      BY <2>4 DEF Let, Still, Turned
    <3>2. j'[w] > currNSel'[w]
      BY <2>1, <2>4 DEF JudgesLate, Deciding, TestsLeft, Let, Still, Numbers
    <3>3. Turned(w)' < i'[0]
      BY <2>1, <3>1 DEF Numbers
    <3> QED BY <2>1, <3>1, <3>2, <3>3 DEF ChoosesLate, Turning, JudgesLate, Deciding
  <2> QED BY <2>2, <2>3, <2>4 DEF JudgesLate, Deciding, Let
<1>12. DropsLate(w) => ChoosesLate(w)' \/ Turn(w)'
  BY DEF DropsLate, Turned, ChoosesLate, Turning, Turn, Let, Still, Numbers, Counters, Testing
<1>13. ChoosesLate(w) => TurnsLate(w)'
  BY DEF ChoosesLate, Turning, Turned, TurnsLate, FirstTest, Reading, Let, Still, Numbers,
         Counters, Testing
<1>14. TurnsLater(w) => ReadsLater(w)' \/ FirstSelected(w)'
  BY DEF TurnsLater, ReadsLater, Deciding, Turned, FirstSelected, Let, Still, Numbers, Counters,
         Testing
<1>15. ReadsLater(w) => DropsLate(w)' \/ ChoosesLate(w)' \/ StillTesting(w)' \/ Tested(w)'
  <2> SUFFICES ASSUME ReadsLater(w)
               PROVE  DropsLate(w)' \/ ChoosesLate(w)' \/ StillTesting(w)' \/ Tested(w)'
    OBVIOUS
  <2>1. pc[w] \in {"stored", "rejected"} /\ j'[w] = 1 /\ i'[w] = i[w] /\ i[w] <= Turned(0)
    BY DEF ReadsLater, Let, Still, Turned
  <2>2. CASE pc[0] = "stored"
    <3>1. pc[w] = "stored" /\ pc'[w] = "sum" /\ pc'[0] = "sum" /\ i'[0] = i[0] /\ i[w] <= i[0]
      BY <2>1, <2>2 DEF ReadsLater, Counters, Let, Still, Turned
    <3>2. currNSel'[w] <= nSel'
      BY <2>1 DEF ReadsLater, Let, Still
    <3>3. TestsLeft(w)' >= TestsLeft(0)'
      BY <2>1, <3>1 DEF ReadsLater, TestsLeft, Let, Still, Numbers
    <3> QED BY <2>1, <3>1, <3>2, <3>3 DEF Tested
  <2>3. CASE pc[0] = "rejected"
    <3>1. pc[w] = "rejected" /\ pc'[w] = "choose" /\ pc'[0] = "choose" /\ reject /\ nSel > 0
      BY <2>1, <2>3 DEF ReadsLater, Deciding, Let
    <3>2. Turned(w)' = i[w] /\ Turned(0)' = Turned(0)
      BY <2>1, <2>3, <3>1 DEF Turned, Let, Still
    <3> QED BY <2>1, <3>1, <3>2 DEF DropsLate
  <2>4. CASE pc[0] = "chosen"
    <3>1. pc'[0] = "loop" /\ nSel > 0 /\ i'[0] = i[0] /\ i[w] < i[0]
      BY <2>1, <2>4 DEF ReadsLater, Deciding, Let, Still, Turned, Numbers
    <3>2. CASE pc[w] = "stored"
      <4>1. pc'[w] = "sum"
        BY <3>2 DEF Let
      <4>2. TestsLeft(w)' < nSel'
        BY <2>1, <3>2, <4>1 DEF ReadsLater, TestsLeft, Let, Still, Numbers
      <4> QED BY <2>1, <3>1, <4>1, <4>2 DEF StillTesting, Turning
    <3>3. CASE pc[w] = "rejected"
      <4>1. pc'[w] = "choose" /\ Turned(w)' = i[w]
        BY <2>1, <3>3 DEF Let, Turned
      <4> QED BY <3>1, <4>1 DEF ChoosesLate, Turning
    <3> QED BY <2>1, <3>2, <3>3
  <2> QED BY <2>2, <2>3, <2>4 DEF ReadsLater, Deciding, Let
<1>16. TurnsLate(w) => ReadsLate(w)'
  BY DEF TurnsLate, FirstTest, Reading, ReadsLate, Let, Still, Numbers, Counters, Testing
<1>17. ReadsLate(w) => SumsLate(w)'
  BY DEF ReadsLate, Reading, SumsLate, Behind, Turned, TestsLeft, Let, Still, Numbers, Counters,
         Testing
<1> QED BY <1>1, <1>2, <1>3, <1>4, <1>5, <1>6, <1>7, <1>8, <1>9, <1>10, <1>11, <1>12, <1>13,
           <1>14, <1>15, <1>16, <1>17 DEF Beside

-----------------------------------------------------------------------------
(* The steps are those.                                                     *)

LEMMA NumbersOf ==
  ASSUME TypeInv, NEW w \in Warps
  PROVE  Numbers(w)
<1>1. pc[0] \notin Finishing => nSel < R
  BY DEF TypeInv
<1> QED BY <1>1, Types DEF Numbers

LEMMA OthersWait ==
  ASSUME TypeInv, NEW w \in Warps, WarpNext(w), NEW x \in Warps, x # w
  PROVE  pc'[x] = pc[x] /\ Still(x) /\ c'[x] = c[x]
<1> USE Types
<1>1. pc'[x] = pc[x]
  BY DEF WarpNext, Loop, Propose, ClearReject, ReadCandidate, ReadCount, InnerOver, InnerRejected,
         StorePartial, SumUp, Judge, Choose, WriteDegree, WriteList, Goto
<1>2. Still(x) /\ c'[x] = c[x]
  BY DEF WarpNext, Loop, Propose, ClearReject, ReadCandidate, ReadCount, InnerOver, InnerRejected,
         StorePartial, SumUp, Judge, Choose, WriteDegree, WriteList, Still, local
<1> QED BY <1>1, <1>2

LEMMA Goes ==
  ASSUME TypeInv, NEW w \in Warps, NEW from, NEW to, Goto(w, from, to)
  PROVE  pc[w] = from /\ pc'[w] = to /\ v' = v /\ cands' = cands
BY Types DEF Goto

LEMMA OtherMoves ==
  ASSUME TypeInv, NEW w \in Warps, w # 0, pc[w] # "clear", WarpNext(w)
  PROVE  /\ Went(w)
         /\ UNCHANGED <<v, cands, nSel, selected, cCurr, reject, newDeg>>
         /\ (newNbr' = newNbr \/ (pc[w] = "write" /\ WriteList(w)))
<1> USE Types
<1>1. UNCHANGED <<v, cands, nSel, selected, cCurr, reject, newDeg>>
  <2>1. v' = v /\ cands' = cands
    BY WarpKeeps
  <2>2. CASE Judge(w)
    <3>1. reject' = reject
      BY <2>2 DEF Judge
    <3> QED BY <2>1, <2>2, <3>1 DEF Judge
  <2>3. CASE Choose(w)
    <3>1. nSel' = nSel /\ selected' = selected
      BY <2>3 DEF Choose
    <3> QED BY <2>1, <2>3, <3>1 DEF Choose
  <2>4. CASE Propose(w) \/ WriteDegree(w)
    BY <2>1, <2>4 DEF Propose, WriteDegree
  <2>5. CASE \/ Loop(w) \/ ReadCandidate(w) \/ ReadCount(w) \/ InnerOver(w) \/ InnerRejected(w)
             \/ StorePartial(w) \/ SumUp(w) \/ WriteList(w)
    BY <2>1, <2>5 DEF Loop, ReadCandidate, ReadCount, InnerOver, InnerRejected, StorePartial,
           SumUp, WriteList, shared
  <2>6. ~ClearReject(w)
    BY DEF ClearReject, Goto
  <2> QED BY <2>2, <2>3, <2>4, <2>5, <2>6 DEF WarpNext
<1>2. CASE pc[w] = "loop" /\ Loop(w)
  BY <1>1, <1>2, Goes DEF Loop, HasRoom, Went, Still, shared, local
<1>3. CASE pc[w] = "propose" /\ Propose(w)
  BY <1>1, <1>3, Goes DEF Propose, AfterPropose, Went, Still, local
<1>4. CASE pc[w] = "candidate" /\ ReadCandidate(w)
  BY <1>1, <1>4, Goes DEF ReadCandidate, Went, Still, shared
<1>5. CASE pc[w] = "count" /\ ReadCount(w)
  BY <1>1, <1>5, Goes DEF ReadCount, Went, Still, shared
<1>6. CASE pc[w] = "inner" /\ (InnerOver(w) \/ InnerRejected(w) \/ StorePartial(w))
  BY <1>1, <1>6, Goes DEF InnerOver, InnerRejected, StorePartial, AfterStore, Went, Still, shared, local
<1>7. CASE pc[w] = "sum" /\ SumUp(w)
  BY <1>1, <1>7, Goes DEF SumUp, Went, Still, local
<1>8. CASE pc[w] = "judge" /\ Judge(w)
  BY <1>1, <1>8, Goes DEF Judge, Went
<1>9. CASE pc[w] = "choose" /\ Choose(w)
  BY <1>1, <1>9, Goes DEF Choose, Went
<1>10. CASE pc[w] = "return" /\ WriteDegree(w)
  BY <1>1, <1>10, Goes DEF WriteDegree, Went, Still, local
<1>11. CASE pc[w] = "write" /\ WriteList(w)
  BY <1>1, <1>11, Goes DEF WriteList, Went, Still, local
<1> QED BY <1>2, <1>3, <1>4, <1>5, <1>6, <1>7, <1>8, <1>9, <1>10, <1>11, WarpSteps

LEMMA LeaderMoves ==
  ASSUME TypeInv, WarpNext(0)
  PROVE  Led
<1> USE Types
<1>1. CASE pc[0] = "loop" /\ Loop(0)
  BY <1>1, Goes DEF Loop, HasRoom, Led, Still, shared, local
<1>2. CASE pc[0] = "propose" /\ Propose(0)
  BY <1>2, Goes DEF Propose, Led, Still, local
<1>3. CASE pc[0] = "clear" /\ ClearReject(0)
  BY <1>3, Goes DEF ClearReject, AfterPropose, Led, Still, local
<1>4. CASE pc[0] = "candidate" /\ ReadCandidate(0)
  BY <1>4, Goes DEF ReadCandidate, Led, Still, shared
<1>5. CASE pc[0] = "count" /\ ReadCount(0)
  BY <1>5, Goes DEF ReadCount, Led, Still, shared
<1>6. CASE pc[0] = "inner" /\ (InnerOver(0) \/ InnerRejected(0) \/ StorePartial(0))
  BY <1>6, Goes DEF InnerOver, InnerRejected, StorePartial, AfterStore, Led, Still, shared, local
<1>7. CASE pc[0] = "sum" /\ SumUp(0)
  BY <1>7, Goes DEF SumUp, Led, Still, local
<1>8. CASE pc[0] = "judge" /\ Judge(0)
  BY <1>8, Goes DEF Judge, Led
<1>9. CASE pc[0] = "choose" /\ Choose(0)
  BY <1>9, Goes DEF Choose, Led
<1>10. CASE pc[0] = "return" /\ WriteDegree(0)
  BY <1>10, Goes DEF WriteDegree, Led, Still, local
<1>11. CASE pc[0] = "write" /\ WriteList(0)
  BY <1>11, Goes DEF WriteList, Led, Still, local
<1> QED BY <1>1, <1>2, <1>3, <1>4, <1>5, <1>6, <1>7, <1>8, <1>9, <1>10, <1>11, WarpSteps

LEMMA AllLet ==
  ASSUME TypeInv, Syncthreads
  PROVE  /\ \A w \in Warps : Let(w)
         /\ UNCHANGED <<v, cands, nSel, selected, cCurr, reject, newDeg, newNbr, c>>
<1>1. UNCHANGED <<v, cands, shared, local>>
  BY DEF Syncthreads
<1>2. pc \in [Warps -> BlockPcs]
  BY Types
<1> QED BY <1>1, <1>2, Opens DEF Let, Still, shared, local

-----------------------------------------------------------------------------
(* What warp 0 keeps of its counters and of the survivors.                  *)

LEMMA LeaderCounts ==
  ASSUME Numbers(0), Len(cands) > 0, Counters, Led, UNCHANGED cands
  PROVE  Counters'
BY DEF Numbers, Counters, Led, Still, Testing, Finishing, Ending

LEMMA BarrierCounts ==
  ASSUME Numbers(0), Counters, Let(0), UNCHANGED <<cands, nSel, reject>>
  PROVE  Counters'
BY DEF Numbers, Counters, Let, Still, Testing, Ending

LEMMA OtherCounts ==
  ASSUME Counters, pc'[0] = pc[0], Still(0), UNCHANGED <<cands, nSel, reject>>
  PROVE  Counters'
BY DEF Counters, Still, Testing, Ending

LEMMA NextInOrder ==
  ASSUME TypeInv, Counters, Chosen, pc[0] = "choose", ~reject
  PROVE  InOrder(nSel + 1, [selected EXCEPT ![nSel + 1] = c[0]], i[0] + 1)
<1> DEFINE list == [selected EXCEPT ![nSel + 1] = c[0]]
           n == nSel + 1
           b == i[0]
<1>1. /\ nSel \in Nat /\ b \in 1 .. Len(cands) /\ Len(cands) \in Nat /\ n \in 1 .. R
      /\ DOMAIN selected = 1 .. R
  <2>1. nSel < R
    BY DEF TypeInv, Finishing
  <2>2. b <= Len(cands)
    BY DEF Counters, Testing
  <2> QED BY <2>1, <2>2, Types
<1>2. list[n] = cands[b] /\ \A k \in 1 .. nSel : list[k] = selected[k]
  <2>1. c[0] = cands[b]
    BY DEF Chosen, Testing
  <2> QED BY <1>1, <2>1
<1>3. /\ nSel > 0 => selected[1] = cands[1]
      /\ \A k \in 1 .. nSel : \E m \in 1 .. Len(cands) : m < b /\ selected[k] = cands[m]
      /\ \A k, l \in 1 .. nSel : k < l =>
           \E m, p \in 1 .. Len(cands) : m < p /\ selected[k] = cands[m] /\ selected[l] = cands[p]
  BY DEF Chosen, InOrder
<1>4. nSel = 0 => b = 1
  BY <1>1 DEF Counters
<1> HIDE DEF list, b
<1>5. list[1] = cands[1]
  BY <1>1, <1>2, <1>3, <1>4
<1>6. ASSUME NEW k \in 1 .. n PROVE \E m \in 1 .. Len(cands) : m < b + 1 /\ list[k] = cands[m]
  <2>1. CASE k = n
    BY <1>1, <1>2, <2>1
  <2>2. CASE k # n
    <3>1. k \in 1 .. nSel
      BY <1>1, <2>2
    <3>2. PICK m \in 1 .. Len(cands) : m < b /\ selected[k] = cands[m]
      BY <1>3, <3>1
    <3>3. list[k] = cands[m] /\ m < b + 1
      BY <1>1, <1>2, <3>1, <3>2
    <3> QED BY <3>3
  <2> QED BY <2>1, <2>2
<1>7. ASSUME NEW k \in 1 .. n, NEW l \in 1 .. n, k < l
      PROVE  \E m, p \in 1 .. Len(cands) : m < p /\ list[k] = cands[m] /\ list[l] = cands[p]
  <2>1. k \in 1 .. nSel
    BY <1>1, <1>7
  <2>2. CASE l = n
    <3>1. PICK m \in 1 .. Len(cands) : m < b /\ selected[k] = cands[m]
      BY <1>3, <2>1
    <3>2. list[k] = cands[m] /\ list[l] = cands[b]
      BY <1>2, <2>1, <2>2, <3>1
    <3> QED BY <1>1, <3>1, <3>2
  <2>3. CASE l # n
    <3>1. l \in 1 .. nSel
      BY <1>1, <2>3
    <3>2. PICK m \in 1 .. Len(cands), p \in 1 .. Len(cands) :
            m < p /\ selected[k] = cands[m] /\ selected[l] = cands[p]
      BY <1>3, <1>7, <2>1, <3>1
    <3>3. list[k] = cands[m] /\ list[l] = cands[p]
      BY <1>2, <2>1, <3>1, <3>2
    <3> QED BY <3>2, <3>3
  <2> QED BY <2>2, <2>3
<1>8. InOrder(n, list, b + 1)
  <2> HIDE DEF n
  <2> QED BY <1>5, <1>6, <1>7 DEF InOrder
<1> QED BY <1>8 DEF list, b

LEMMA LaterInOrder ==
  ASSUME TypeInv, Chosen
  PROVE  InOrder(nSel, selected, i[0] + 1)
<1>1. /\ nSel > 0 => selected[1] = cands[1]
      /\ \A k \in 1 .. nSel : \E m \in 1 .. Len(cands) : m < i[0] /\ selected[k] = cands[m]
      /\ \A k, l \in 1 .. nSel : k < l =>
           \E m, p \in 1 .. Len(cands) : m < p /\ selected[k] = cands[m] /\ selected[l] = cands[p]
  BY DEF Chosen, InOrder
<1>2. i[0] \in Nat /\ Len(cands) \in Nat
  BY Types
<1>3. ASSUME NEW k \in 1 .. nSel PROVE \E m \in 1 .. Len(cands) : m < i[0] + 1 /\ selected[k] = cands[m]
  <2>1. PICK m \in 1 .. Len(cands) : m < i[0] /\ selected[k] = cands[m]
    BY <1>1
  <2> QED BY <1>2, <2>1
<1> QED BY <1>1, <1>3 DEF InOrder

(* The parts of Chosen one by one.                                          *)
LEMMA ChosenFrom ==
  ASSUME cands' = cands,
         pc'[0] \in {"clear", "set", "candidate"} => cCurr' = cands[i'[0]],
         pc'[0] \in Testing \cup {"count"} => c'[0] = cands[i'[0]],
         pc'[0] \in {"counted", "write", "exit"} => newDeg' = nSel',
         InOrder(nSel', selected', i'[0])
  PROVE  Chosen'
BY DEF Chosen, InOrder, Testing

LEMMA LeaderChooses ==
  ASSUME TypeInv, Counters, Chosen, WarpNext(0)
  PROVE  Chosen'
<1> USE Types, Goes, ChosenFrom
<1>1. /\ pc[0] \in {"clear", "set", "candidate"} => cCurr = cands[i[0]]
      /\ pc[0] \in Testing \cup {"count"} => c[0] = cands[i[0]]
      /\ pc[0] \in {"counted", "write", "exit"} => newDeg = nSel
      /\ InOrder(nSel, selected, i[0])
  BY DEF Chosen
<1>2. CASE pc[0] = "loop" /\ Loop(0)
  BY <1>1, <1>2 DEF Loop, HasRoom, Testing, shared, local
<1>3. CASE pc[0] = "propose" /\ Propose(0)
  BY <1>1, <1>3 DEF Propose, Testing, local
<1>4. CASE pc[0] = "clear" /\ ClearReject(0)
  BY <1>1, <1>4 DEF ClearReject, AfterPropose, Testing, local
<1>5. CASE pc[0] = "candidate" /\ ReadCandidate(0)
  BY <1>1, <1>5 DEF ReadCandidate, Testing, shared
<1>6. CASE pc[0] = "count" /\ ReadCount(0)
  BY <1>1, <1>6 DEF ReadCount, Testing, shared
<1>7. CASE pc[0] = "inner" /\ (InnerOver(0) \/ InnerRejected(0) \/ StorePartial(0))
  <2>1. /\ pc'[0] \in {"choose", "rejected", "stored"} /\ cands' = cands
        /\ nSel' = nSel /\ selected' = selected /\ c' = c /\ i' = i
    BY <1>7 DEF InnerOver, InnerRejected, StorePartial, AfterStore, shared, local
  <2> QED BY <1>1, <1>7, <2>1 DEF Testing
<1>8. CASE pc[0] = "sum" /\ SumUp(0)
  BY <1>1, <1>8 DEF SumUp, Testing, local
<1>9. CASE pc[0] = "judge" /\ Judge(0)
  BY <1>1, <1>9 DEF Judge, Testing
<1>10. CASE pc[0] = "choose" /\ Choose(0)
  <2>1. pc'[0] = "chosen" /\ cands' = cands /\ i'[0] = i[0] + 1
    BY <1>10 DEF Choose
  <2>2. InOrder(nSel', selected', i'[0])
    <3>1. CASE reject
      <4>1. nSel' = nSel /\ selected' = selected
        BY <1>10, <3>1 DEF Choose
      <4> QED BY <2>1, <4>1, LaterInOrder
    <3>2. CASE ~reject
      <4>1. nSel' = nSel + 1 /\ selected' = [selected EXCEPT ![nSel + 1] = c[0]]
        BY <1>10, <3>2 DEF Choose
      <4> QED BY <1>10, <2>1, <3>2, <4>1, NextInOrder
    <3> QED BY <3>1, <3>2
  <2> QED BY <2>1, <2>2 DEF Testing
<1>11. CASE pc[0] = "return" /\ WriteDegree(0)
  BY <1>1, <1>11 DEF WriteDegree, Testing, local
<1>12. CASE pc[0] = "write" /\ WriteList(0)
  BY <1>1, <1>12 DEF WriteList, Testing, local
<1> QED BY <1>2, <1>3, <1>4, <1>5, <1>6, <1>7, <1>8, <1>9, <1>10, <1>11, <1>12, WarpSteps

LEMMA BarrierChooses ==
  ASSUME Chosen, Counters, Let(0), UNCHANGED <<cands, nSel, selected, cCurr, newDeg, c>>
  PROVE  Chosen'
<1>1. /\ pc[0] \in {"clear", "set", "candidate"} => cCurr = cands[i[0]]
      /\ pc[0] \in Testing \cup {"count"} => c[0] = cands[i[0]]
      /\ pc[0] \in {"counted", "write", "exit"} => newDeg = nSel
      /\ InOrder(nSel, selected, i[0])
  BY DEF Chosen
<1> QED BY <1>1, ChosenFrom DEF Let, Still, Testing

LEMMA OtherChooses ==
  ASSUME Chosen, pc'[0] = pc[0], Still(0), c'[0] = c[0],
         UNCHANGED <<cands, nSel, selected, cCurr, newDeg>>
  PROVE  Chosen'
<1>1. /\ pc[0] \in {"clear", "set", "candidate"} => cCurr = cands[i[0]]
      /\ pc[0] \in Testing \cup {"count"} => c[0] = cands[i[0]]
      /\ pc[0] \in {"counted", "write", "exit"} => newDeg = nSel
      /\ InOrder(nSel, selected, i[0])
  BY DEF Chosen
<1> QED BY <1>1, ChosenFrom DEF Still, Testing

LEMMA BesideStays ==
  ASSUME NEW x, Beside(x), pc'[0] = pc[0], Still(0), pc'[x] = pc[x], Still(x),
         UNCHANGED <<cands, nSel, reject>>
  PROVE  Beside(x)'
<1>1. Over' = Over /\ Deciding' = Deciding /\ FirstTest' = FirstTest
  BY DEF Over, Deciding, FirstTest, Still
<1>2. /\ Turned(x)' = Turned(x) /\ TestsLeft(x)' = TestsLeft(x)
      /\ Turned(0)' = Turned(0) /\ TestsLeft(0)' = TestsLeft(0)
  BY DEF Turned, TestsLeft, Still
<1>3. Starting(x)' = Starting(x) /\ Turn(x)' = Turn(x) /\ FirstSelected(x)' = FirstSelected(x)
  BY <1>2 DEF Starting, Turn, FirstSelected, Still
<1>4. Read(x)' = Read(x) /\ Tested(x)' = Tested(x) /\ Decided(x)' = Decided(x)
  BY <1>1, <1>2 DEF Read, Tested, Decided, Still
<1>5. StillTesting(x)' = StillTesting(x) /\ Behind(x)' = Behind(x)
  BY <1>1, <1>2 DEF StillTesting, Behind, Still
<1>6. DecidesLate(x)' = DecidesLate(x) /\ SumsLate(x)' = SumsLate(x) /\ JudgesLate(x)' = JudgesLate(x)
  BY <1>1, <1>2, <1>5 DEF DecidesLate, SumsLate, JudgesLate, Still
<1>7. DropsLate(x)' = DropsLate(x) /\ ChoosesLate(x)' = ChoosesLate(x) /\ TurnsLater(x)' = TurnsLater(x)
  BY <1>2 DEF DropsLate, ChoosesLate, TurnsLater, Still
<1>8. ReadsLater(x)' = ReadsLater(x) /\ TurnsLate(x)' = TurnsLate(x) /\ ReadsLate(x)' = ReadsLate(x)
  BY <1>1, <1>2 DEF ReadsLater, TurnsLate, ReadsLate, Still
<1> QED BY <1>1, <1>3, <1>4, <1>5, <1>6, <1>7, <1>8 DEF Beside

-----------------------------------------------------------------------------
(* What has been written stays what is selected.                            *)

LEMMA ListIsWritten ==
  ASSUME TypeInv, NEW w \in Warps, WriteList(w), NEW x \in Warps, x = w \/ ListedBy(x)
  PROVE  ListedBy(x)'
<1>1. /\ nSel' = nSel /\ selected' = selected
      /\ newNbr' = [k \in 1 .. R |-> IF k <= nSel /\ (k - 1) % NumWarps = w
                                     THEN selected[k] ELSE newNbr[k]]
  BY DEF WriteList
<1>2. SUFFICES ASSUME NEW k \in 1 .. nSel, (k - 1) % NumWarps = x PROVE newNbr'[k] = selected[k]
  BY <1>1 DEF ListedBy
<1>3. k \in 1 .. R /\ k <= nSel
  BY Types
<1>4. newNbr'[k] = IF (k - 1) % NumWarps = w THEN selected[k] ELSE newNbr[k]
  BY <1>1, <1>3
<1>5. CASE x = w
  BY <1>2, <1>4, <1>5
<1>6. CASE x # w
  <2>1. newNbr[k] = selected[k]
    BY <1>2, <1>6 DEF ListedBy
  <2> QED BY <1>4, <2>1
<1> QED BY <1>5, <1>6

LEMMA ReturnsAfterZero ==
  ASSUME NEW w, Numbers(w), Counters, Beside(w), Went(w), pc[w] = "loop" \/ pc[w] = "return",
         pc[w] = "return" => Over, pc'[w] \in Ending
  PROVE  Over
<1>1. CASE pc[w] = "return"
  BY <1>1
<1>2. CASE pc[w] = "loop"
  <2>1. ~(i[w] <= Len(cands) /\ nSel < R)
    BY <1>2 DEF Went, Ending
  <2>2. ~Starting(w) /\ ~FirstSelected(w) /\ ~Read(w) /\ ~Tested(w) /\ ~Decided(w) /\ ~StillTesting(w)
    BY <1>2 DEF Starting, FirstSelected, Read, Reading, Tested, Decided, StillTesting
  <2>3. ~DecidesLate(w) /\ ~SumsLate(w) /\ ~JudgesLate(w) /\ ~DropsLate(w) /\ ~ChoosesLate(w)
    BY <1>2 DEF DecidesLate, SumsLate, JudgesLate, DropsLate, ChoosesLate
  <2>4. ~ReadsLater(w) /\ ~ReadsLate(w)
    BY <1>2 DEF ReadsLater, ReadsLate, Reading
  <2>5. CASE Turn(w)
    BY <2>1, <2>5 DEF Turn, Turning, Over, Numbers, Counters, Finishing
  <2>6. CASE TurnsLater(w)
    BY <2>1, <2>6 DEF TurnsLater, Numbers, Counters, Testing, Finishing
  <2>7. CASE TurnsLate(w)
    BY <2>1, <2>7 DEF TurnsLate, FirstTest, Reading, Numbers, Counters, Testing, Finishing
  <2> QED BY <2>2, <2>3, <2>4, <2>5, <2>6, <2>7 DEF Beside
<1> QED BY <1>1, <1>2

LEMMA OtherWrites ==
  ASSUME DriftInv, NEW w \in Warps, w # 0, WarpNext(w)
  PROVE  Written'
<1> USE DEF DriftInv
<1>1. /\ pc[w] # "clear" /\ Beside(w) /\ Numbers(w)
      /\ Went(w) /\ UNCHANGED <<v, cands, nSel, selected, cCurr, reject, newDeg>>
      /\ (newNbr' = newNbr \/ (pc[w] = "write" /\ WriteList(w)))
  <2>1. pc[w] # "clear" /\ Beside(w)
    BY DEF NeverAhead
  <2> QED BY <2>1, OtherMoves, NumbersOf
<1>2. 0 \in Warps /\ pc'[0] = pc[0] /\ Still(0)
  BY Types, OthersWait
<1>3. Over' = Over
  BY <1>1, <1>2 DEF Over, Still
<1>4. SUFFICES ASSUME NEW x \in Warps
              PROVE  (pc'[x] \in Ending => Over) /\ (pc'[x] = "exit" => ListedBy(x)')
  BY <1>3 DEF Written, ListedBy
<1>5. /\ pc[x] \in Ending => Over
      /\ pc[x] = "exit" => ListedBy(x)
  BY DEF Written, ListedBy
<1>6. pc'[x] \in Ending => Over
  <2>1. CASE x = w
    <3>1. pc'[w] \in Ending => pc[w] \in {"loop", "return", "write"}
      BY <1>1 DEF Went, Ending
    <3> QED BY <1>1, <1>5, <2>1, <3>1, ReturnsAfterZero DEF Ending
  <2>2. CASE x # w
    BY <1>5, <2>2, OthersWait
  <2> QED BY <2>1, <2>2
<1>7. ASSUME pc'[x] = "exit" PROVE ListedBy(x)'
  <2>1. CASE pc[w] = "write" /\ WriteList(w)
    <3>1. x = w \/ ListedBy(x)
      BY <1>5, <1>7, OthersWait
    <3> QED BY <2>1, <3>1, ListIsWritten
  <2>2. CASE newNbr' = newNbr /\ ~(pc[w] = "write" /\ WriteList(w))
    <3>1. pc[x] = "exit"
      <4>1. CASE x = w
        <5>1. pc[w] = "write"
          BY <1>1, <1>7, <4>1 DEF Went
        <5>2. WriteList(w)
          BY <5>1, WarpSteps
        <5> QED BY <2>2, <5>1, <5>2
      <4>2. CASE x # w
        BY <1>7, <4>2, OthersWait
      <4> QED BY <4>1, <4>2
    <3> QED BY <1>1, <1>5, <2>2, <3>1 DEF ListedBy
  <2> QED BY <1>1, <2>1, <2>2
<1> QED BY <1>6, <1>7

LEMMA LeaderWrites ==
  ASSUME DriftInv, WarpNext(0)
  PROVE  Written'
<1> USE DEF DriftInv
<1>1. 0 \in Warps /\ Led /\ cands' = cands
  BY Types, LeaderMoves, WarpKeeps
<1>2. Over => Over' /\ nSel' = nSel
  BY <1>1 DEF Over, Ending, Led, Still
<1>3. SUFFICES ASSUME NEW x \in Warps
              PROVE  (pc'[x] \in Ending => Over') /\ (pc'[x] = "exit" => ListedBy(x)')
  BY DEF Written, ListedBy
<1>4. /\ pc[x] \in Ending => Over
      /\ pc[x] = "exit" => ListedBy(x)
  BY DEF Written, ListedBy
<1>5. pc'[x] \in Ending => Over'
  <2>1. CASE x = 0
    BY <2>1 DEF Over
  <2>2. CASE x # 0
    BY <1>1, <1>2, <1>4, <2>2, OthersWait
  <2> QED BY <2>1, <2>2
<1>6. ASSUME pc'[x] = "exit" PROVE ListedBy(x)'
  <2>1. CASE pc[0] = "write"
    <3>1. WriteList(0)
      BY <1>1, <2>1, WarpSteps
    <3>2. x = 0 \/ ListedBy(x)
      BY <1>1, <1>4, <1>6, OthersWait
    <3> QED BY <1>1, <3>1, <3>2, ListIsWritten
  <2>2. CASE pc[0] # "write"
    <3>1. pc[x] = "exit"
      <4>1. x # 0
        BY <1>1, <1>6, <2>2 DEF Led
      <4> QED BY <1>1, <1>6, <4>1, OthersWait
    <3>2. Over
      BY <1>4, <3>1 DEF Ending
    <3>3. pc[0] = "loop" \/ pc[0] = "return"
      <4>1. pc[0] # "exit" /\ pc[0] # "counted"
        BY <1>1 DEF Led
      <4> QED BY <2>2, <3>2, <4>1 DEF Over, Ending
    <3>4. (pc[0] = "loop" /\ Loop(0)) \/ (pc[0] = "return" /\ WriteDegree(0))
      BY <1>1, <3>3, WarpSteps
    <3>5. nSel' = nSel /\ selected' = selected /\ newNbr' = newNbr
      BY <3>4 DEF Loop, WriteDegree, shared
    <3> QED BY <1>4, <3>1, <3>5 DEF ListedBy
  <2> QED BY <2>1, <2>2
<1> QED BY <1>5, <1>6

LEMMA BarrierWrites ==
  ASSUME DriftInv, Syncthreads
  PROVE  Written'
<1> USE DEF DriftInv
<1>1. /\ 0 \in Warps /\ \A w \in Warps : Let(w)
      /\ UNCHANGED <<v, cands, nSel, selected, cCurr, reject, newDeg, newNbr, c>>
  BY Types, AllLet
<1>2. Over => Over'
  BY <1>1 DEF Over, Ending, Let
<1>3. SUFFICES ASSUME NEW x \in Warps
              PROVE  (pc'[x] \in Ending => Over') /\ (pc'[x] = "exit" => ListedBy(x)')
  BY DEF Written, ListedBy
<1>4. /\ pc[x] \in Ending => Over
      /\ pc[x] = "exit" => ListedBy(x)
  BY DEF Written, ListedBy
<1>5. (pc'[x] \in Ending => pc[x] \in Ending) /\ (pc'[x] = "exit" => pc[x] = "exit")
  BY <1>1 DEF Let, Ending
<1>6. ListedBy(x) => ListedBy(x)'
  BY <1>1 DEF ListedBy
<1> QED BY <1>2, <1>4, <1>5, <1>6

LEMMA DriftInitially == Init => DriftInv
<1> SUFFICES ASSUME Init PROVE DriftInv
  OBVIOUS
<1>1. TypeInv
  BY TypesInitially
<1>2. /\ nSel = 0 /\ 0 \in Warps
      /\ \A w \in Warps : pc[w] = "zeroed" /\ i[w] = 1
  BY WarpType DEF Init, FirstCandidate
<1>3. Counters
  BY <1>2 DEF Counters, Testing, Ending
<1>4. Chosen
  BY <1>2 DEF Chosen, Testing, InOrder
<1>5. Written
  BY <1>2 DEF Written, Ending
<1>6. NeverAhead
  BY <1>2 DEF NeverAhead, Beside, Starting
<1> QED BY <1>1, <1>3, <1>4, <1>5, <1>6 DEF DriftInv

LEMMA DriftKept ==
  ASSUME DriftInv, [Next]_vars
  PROVE  DriftInv'
<1> USE DEF DriftInv
<1>1. TypeInv'
  BY TypesKept
<1>2. 0 \in Warps
  BY Types
<1>3. ASSUME NEW w \in Warps, WarpNext(w), w # 0 PROVE DriftInv'
  <2>1. /\ pc[w] # "clear" /\ Beside(w)
    BY <1>3 DEF NeverAhead
  <2>2. /\ Went(w) /\ UNCHANGED <<v, cands, nSel, selected, cCurr, reject, newDeg>>
        /\ pc'[0] = pc[0] /\ Still(0) /\ c'[0] = c[0]
    BY <1>2, <1>3, <2>1, OtherMoves, OthersWait
  <2>3. Counters' /\ Chosen' /\ Written'
    BY <1>3, <2>2, OtherCounts, OtherChooses, OtherWrites
  <2>4. ASSUME NEW x \in Warps \ {0} PROVE pc'[x] # "clear" /\ Beside(x)'
    <3>1. pc[x] # "clear" /\ Beside(x) /\ Numbers(x)
      BY NumbersOf DEF NeverAhead
    <3>2. CASE x = w
      <4>1. Beside(x)'
        BY <2>2, <3>1, <3>2, OtherKeepsBehind
      <4>2. pc'[x] # "clear"
        BY <2>2, <3>2 DEF Went
      <4> QED BY <4>1, <4>2
    <3>3. CASE x # w
      <4>1. pc'[x] = pc[x] /\ Still(x)
        BY <1>3, <3>3, OthersWait
      <4> QED BY <2>2, <3>1, <4>1, BesideStays
    <3> QED BY <3>2, <3>3
  <2> QED BY <1>1, <2>3, <2>4 DEF NeverAhead
<1>4. ASSUME WarpNext(0) PROVE DriftInv'
  <2>1. Led /\ cands' = cands /\ Numbers(0) /\ Len(cands) > 0
    BY <1>2, <1>4, LeaderMoves, WarpKeeps, NumbersOf, Types
  <2>2. Counters' /\ Chosen' /\ Written'
    BY <1>4, <2>1, LeaderCounts, LeaderChooses, LeaderWrites
  <2>3. ASSUME NEW x \in Warps \ {0} PROVE pc'[x] # "clear" /\ Beside(x)'
    <3>1. pc[x] # "clear" /\ Beside(x) /\ Numbers(x)
      BY NumbersOf DEF NeverAhead
    <3>2. pc'[x] = pc[x] /\ Still(x)
      BY <1>2, <1>4, OthersWait
    <3> QED BY <2>1, <3>1, <3>2, LeaderKeepsBehind
  <2> QED BY <1>1, <2>2, <2>3 DEF NeverAhead
<1>5. ASSUME Syncthreads PROVE DriftInv'
  <2>1. /\ \A w \in Warps : Let(w)
        /\ UNCHANGED <<v, cands, nSel, selected, cCurr, reject, newDeg, newNbr, c>>
    BY <1>5, AllLet
  <2>2. Counters' /\ Chosen' /\ Written'
    BY <1>2, <1>5, <2>1, NumbersOf, BarrierCounts, BarrierChooses, BarrierWrites
  <2>3. ASSUME NEW x \in Warps \ {0} PROVE pc'[x] # "clear" /\ Beside(x)'
    <3>1. pc[x] # "clear" /\ Beside(x) /\ Numbers(x)
      BY NumbersOf DEF NeverAhead
    <3>2. Beside(x)'
      BY <1>2, <2>1, <3>1, BarrierKeepsBehind
    <3>3. pc'[x] # "clear"
      BY <2>1 DEF Let
    <3> QED BY <3>2, <3>3
  <2> QED BY <1>1, <2>2, <2>3 DEF NeverAhead
<1>6. CASE UNCHANGED vars
  <2>1. UNCHANGED <<v, cands, nSel, selected, cCurr, reject, newDeg, newNbr, pc, i, j, c, currNSel>>
    BY <1>6 DEF vars, shared, local
  <2>2. Counters' /\ Chosen' /\ Written'
    <3>1. Counters'
      BY <2>1, OtherCounts DEF Still
    <3>2. Chosen'
      BY <2>1, OtherChooses DEF Still
    <3>3. Written'
      BY <2>1 DEF Written, ListedBy, Over
    <3> QED BY <3>1, <3>2, <3>3
  <2>3. ASSUME NEW x \in Warps \ {0} PROVE pc'[x] # "clear" /\ Beside(x)'
    BY <2>1, BesideStays DEF NeverAhead, Still
  <2> QED BY <1>1, <2>2, <2>3 DEF NeverAhead
<1> QED BY <1>3, <1>4, <1>5, <1>6 DEF Next, BlockOver

LEMMA DriftAlways == Spec => []DriftInv
BY DriftInitially, DriftKept, PTL DEF Spec

(* However the barriers release the warps - together or, after the first    *)
(* candidate, apart for good (blockAlphaRNG, fda_robust_prune.cuh) - the    *)
(* list that is written is not empty, starts with the nearest candidate and *)
(* holds distinct candidates, nearest first: a list that is not the         *)
(* alpha-RNG of the candidates has only too many or too few of them.        *)
THEOREM DriftKeepsOrder == Spec => []ListInOrder
<1>1. ASSUME DriftInv PROVE ListInOrder
  <2> USE <1>1 DEF DriftInv
  <2> SUFFICES ASSUME Exited
               PROVE  /\ newDeg > 0 /\ newNbr[1] = cands[1]
                      /\ \A k, l \in 1 .. newDeg : k < l =>
                           \E m, n \in DOMAIN cands : /\ m < n
                                                      /\ newNbr[k] = cands[m] /\ newNbr[l] = cands[n]
    BY DEF ListInOrder
  <2>1. /\ 0 \in Warps /\ pc[0] = "exit" /\ nSel \in Nat /\ R > 0 /\ DOMAIN cands = 1 .. Len(cands)
        /\ Len(cands) > 0 /\ i[0] \in Nat \ {0}
    BY Types, LenProperties DEF Exited, TypeInv
  <2>2. newDeg = nSel /\ InOrder(nSel, selected, i[0])
    BY <2>1 DEF Chosen
  <2>3. nSel > 0
    BY <2>1 DEF Counters, Ending
  <2>4. ASSUME NEW k \in 1 .. nSel PROVE newNbr[k] = selected[k]
    <3>1. (k - 1) % NumWarps \in Warps
      BY <2>1, WarpType DEF Warps
    <3>2. pc[(k - 1) % NumWarps] = "exit"
      BY <3>1 DEF Exited
    <3> QED BY <3>1, <3>2 DEF Written, ListedBy
  <2>5. newNbr[1] = cands[1]
    BY <2>1, <2>2, <2>3, <2>4 DEF InOrder
  <2>6. ASSUME NEW k \in 1 .. nSel, NEW l \in 1 .. nSel, k < l
        PROVE  \E m, n \in DOMAIN cands : m < n /\ newNbr[k] = cands[m] /\ newNbr[l] = cands[n]
    <3>1. PICK m \in 1 .. Len(cands), n \in 1 .. Len(cands) :
            m < n /\ selected[k] = cands[m] /\ selected[l] = cands[n]
      BY <2>2, <2>6 DEF InOrder
    <3> QED BY <2>1, <2>4, <3>1
  <2> QED BY <2>2, <2>3, <2>5, <2>6
<1> QED BY <1>1, DriftAlways, PTL
=============================================================================
