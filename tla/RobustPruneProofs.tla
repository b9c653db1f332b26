-------------------------- MODULE RobustPruneProofs --------------------------
(***************************************************************************)
(* What the alpha-RNG of RobustPrune returns, for candidates of any kind   *)
(* and number, any R and any alpha.                                        *)
(***************************************************************************)
EXTENDS RobustPrune, ListLemmas

-----------------------------------------------------------------------------
(* The alpha-RNG.                                                          *)

LEMMA RoomType == R \in Nat /\ R > 0
BY PruneAssumption DEF PruneAssumption

LEMMA RoomOrNone ==
  ASSUME NEW len \in Nat
  PROVE  /\ len < R => len # R /\ len + 1 <= R
         /\ len <= R => len < R \/ len = R
BY RoomType

LEMMA SelectType ==
  ASSUME NEW anchor, NEW S, NEW selected \in Seq(S), NEW c \in S
  PROVE  Select(anchor, selected, c) \in Seq(S)
BY AppendProperties DEF Select

(* The candidates are taken one after another.                             *)
LEMMA PrunedStepByStep ==
  ASSUME NEW anchor, NEW S, NEW cands, NEW near \in Seq(S), near = ByDistance(anchor, cands)
  PROVE  \E f \in [0 .. Len(near) -> Seq(S)] :
           /\ f[0] = <<>>
           /\ \A n \in 1 .. Len(near) : f[n] = Select(anchor, f[n - 1], near[n])
           /\ Pruned(anchor, cands) = f[Len(near)]
<1> DEFINE N == Len(near)
           step == [n \in 1 .. N |-> [s \in Seq(S) |-> Select(anchor, s, near[n])]]
           Is(h) == h = [n \in 0 .. N |-> IF n = 0 THEN <<>>
                                          ELSE Select(anchor, h[n - 1], near[n])]
<1>1. N \in Nat /\ \A n \in 1 .. N : near[n] \in S
  BY LenProperties, ElementOfSeq
<1>2. step \in [1 .. N -> [Seq(S) -> Seq(S)]]
  <2> QED BY <1>1, SelectType
<1>3. PICK f \in [0 .. N -> Seq(S)] : f[0] = <<>> /\ \A n \in 1 .. N : f[n] = step[n][f[n - 1]]
  <2> PICK T : T = Seq(S)
    OBVIOUS
  <2> PICK base \in T : base = <<>>
    BY EmptySeq
  <2> HIDE DEF step, N
  <2>1. step \in [1 .. N -> [T -> T]] /\ N \in Nat
    BY <1>1, <1>2
  <2>2. \E f : StepsFrom(base, step, f, N, T)
    BY <2>1, StepByStep
  <2> QED BY <2>2 DEF StepsFrom
<1>4. \A n \in 1 .. N : f[n] = Select(anchor, f[n - 1], near[n])
  <2> SUFFICES ASSUME NEW n \in 1 .. N PROVE f[n] = Select(anchor, f[n - 1], near[n])
    OBVIOUS
  <2>1. n - 1 \in 0 .. N
    BY <1>1
  <2>2. f[n - 1] \in Seq(S)
    BY <1>3, <2>1, Zenon
  <2> QED BY <1>3, <2>2
<1>5. Is(f)
  <2> QED BY <1>1, <1>3, <1>4
<1> DEFINE g == CHOOSE h : Is(h)
<1>6. Is(g)
  BY <1>5
<1>7. Pruned(anchor, cands) = g[N]
  BY DEF Pruned
<1>8. ASSUME NEW h, Is(h) PROVE 0 .. N \subseteq {n \in 0 .. N : h[n] = f[n]}
  <2> DEFINE Good == {n \in 0 .. N : h[n] = f[n]}
  <2>1. 0 \in Good
    BY <1>1, <1>3, <1>8
  <2>2. ASSUME NEW n \in 0 .. N - 1, n \in Good PROVE n + 1 \in Good
    <3>1. h[n] = f[n] /\ n + 1 \in 1 .. N /\ n + 1 - 1 = n
      BY <1>1, <2>2
    <3>2. h[n + 1] = Select(anchor, h[n], near[n + 1])
      BY <1>1, <1>8, <3>1
    <3>3. f[n + 1] = Select(anchor, f[n], near[n + 1])
      BY <1>4, <3>1
    <3> QED BY <1>1, <3>1, <3>2, <3>3
  <2> HIDE DEF Good, N
  <2>3. 0 .. N \subseteq Good
    BY <1>1, <2>1, <2>2, UpTo
  <2> QED BY <2>3 DEF Good
<1>9. g[N] = f[N]
  <2> HIDE DEF g, N, Is
  <2>1. N \in {n \in 0 .. N : g[n] = f[n]}
    BY <1>1, <1>6, <1>8
  <2> QED BY <2>1
<1> QED BY <1>3, <1>4, <1>7, <1>9

(* What the selection has made of the first n candidates.                  *)
SelectedOf(anchor, near, n, sel) ==
  /\ Len(sel) <= R
  /\ \A a \in DOMAIN sel : \E m \in 1 .. n : sel[a] = near[m]
  /\ \A a, b \in DOMAIN sel : a < b => /\ Dist(anchor, sel[a]) <= Dist(anchor, sel[b])
                                       /\ ~Covers(anchor, sel[a], sel[b])
  /\ \A m \in 1 .. n : \/ Len(sel) = R
                       \/ near[m] \in ToSet(sel)
                       \/ \E a \in DOMAIN sel : Covers(anchor, sel[a], near[m])

LEMMA SelectOneMore ==
  ASSUME NEW anchor, NEW S, NEW near \in Seq(S), NEW n \in 0 .. Len(near) - 1,
         \A p, q \in DOMAIN near : p < q => Dist(anchor, near[p]) <= Dist(anchor, near[q]),
         NEW sel \in Seq(S), SelectedOf(anchor, near, n, sel)
  PROVE  SelectedOf(anchor, near, n + 1, Select(anchor, sel, near[n + 1]))
<1>1. /\ Len(near) \in Nat /\ DOMAIN near = 1 .. Len(near) /\ near[n + 1] \in S
      /\ n + 1 \in DOMAIN near /\ n \in Nat
  BY LenProperties, ElementOfSeq
<1>2. Len(sel) \in Nat /\ DOMAIN sel = 1 .. Len(sel)
  BY LenProperties
<1>3. CASE Len(sel) < R /\ \A i \in DOMAIN sel : ~Covers(anchor, sel[i], near[n + 1])
  <2> DEFINE c == near[n + 1]
  <2>1. PICK longer : longer = Append(sel, c)
    OBVIOUS
  <2>2. /\ longer \in Seq(S) /\ Len(longer) = Len(sel) + 1
        /\ DOMAIN longer = 1 .. Len(sel) + 1
        /\ \A a \in DOMAIN sel : longer[a] = sel[a]
        /\ longer[Len(sel) + 1] = c
    BY <1>1, <1>2, <2>1, AppendProperties, LenProperties
  <2>3. Select(anchor, sel, c) = longer
    BY <1>3, <2>1 DEF Select
  <2>4. Len(longer) <= R
    BY <1>2, <1>3, <2>2, RoomType
  <2>5. \A a \in DOMAIN longer : \E m \in 1 .. n + 1 : longer[a] = near[m]
    <3> SUFFICES ASSUME NEW a \in DOMAIN longer
                 PROVE  \E m \in 1 .. n + 1 : longer[a] = near[m]
      OBVIOUS
    <3>1. CASE a \in DOMAIN sel
      <4>1. PICK m \in 1 .. n : sel[a] = near[m]
        BY <3>1 DEF SelectedOf
      <4> QED BY <1>1, <2>2, <3>1, <4>1
    <3>2. CASE a = Len(sel) + 1
      BY <1>1, <2>2, <3>2
    <3> QED BY <1>2, <2>2, <3>1, <3>2
  <2>6. ASSUME NEW a \in DOMAIN longer, NEW b \in DOMAIN longer, a < b
        PROVE  /\ Dist(anchor, longer[a]) <= Dist(anchor, longer[b])
               /\ ~Covers(anchor, longer[a], longer[b])
    <3>1. a \in DOMAIN sel /\ longer[a] = sel[a]
      BY <1>2, <2>2, <2>6
    <3>2. CASE b \in DOMAIN sel
      BY <2>2, <2>6, <3>1, <3>2 DEF SelectedOf
    <3>3. CASE b = Len(sel) + 1
      <4>1. longer[b] = c
        BY <2>2, <3>3
      <4>2. ~Covers(anchor, sel[a], c)
        BY <1>3, <3>1
      <4>3. PICK m \in 1 .. n : sel[a] = near[m]
        BY <3>1 DEF SelectedOf
      <4>4. Dist(anchor, near[m]) <= Dist(anchor, c)
        BY <1>1, <4>3
      <4> QED BY <3>1, <4>1, <4>2, <4>3, <4>4
    <3> QED BY <1>2, <2>2, <3>2, <3>3
  <2>7. ASSUME NEW m \in 1 .. n + 1
        PROVE  \/ Len(longer) = R
               \/ near[m] \in ToSet(longer)
               \/ \E a \in DOMAIN longer : Covers(anchor, longer[a], near[m])
    <3>1. CASE m = n + 1
      <4>1. near[m] = longer[Len(sel) + 1] /\ Len(sel) + 1 \in DOMAIN longer
        BY <1>2, <2>2, <3>1
      <4> HIDE DEF c
      <4> QED BY <4>1 DEF ToSet
    <3>2. CASE m \in 1 .. n
      <4>1. \/ near[m] \in ToSet(sel)
            \/ \E a \in DOMAIN sel : Covers(anchor, sel[a], near[m])
        <5>1. Len(sel) # R
          BY <1>2, <1>3, RoomOrNone, Zenon
        <5> QED BY <3>2, <5>1 DEF SelectedOf
      <4>2. ToSet(sel) \subseteq ToSet(longer) /\ DOMAIN sel \subseteq DOMAIN longer
        BY <1>2, <2>2 DEF ToSet
      <4> QED BY <2>2, <4>1, <4>2
    <3> QED BY <1>1, <3>1, <3>2
  <2> QED BY <2>3, <2>4, <2>5, <2>6, <2>7 DEF SelectedOf
<1>4. CASE ~(Len(sel) < R /\ \A i \in DOMAIN sel : ~Covers(anchor, sel[i], near[n + 1]))
  <2>1. Select(anchor, sel, near[n + 1]) = sel
    BY <1>4 DEF Select
  <2>2. Len(sel) <= R
    BY DEF SelectedOf
  <2>3. Len(sel) = R \/ \E a \in DOMAIN sel : Covers(anchor, sel[a], near[n + 1])
    <3>1. Len(sel) < R \/ Len(sel) = R
      BY <1>2, <2>2, RoomOrNone, Zenon
    <3> QED BY <1>4, <3>1
  <2>4. 1 .. n + 1 = (1 .. n) \cup {n + 1}
    BY <1>1
  <2>5. \A m \in 1 .. n + 1 : \/ Len(sel) = R
                             \/ near[m] \in ToSet(sel)
                             \/ \E a \in DOMAIN sel : Covers(anchor, sel[a], near[m])
    BY <2>3, <2>4 DEF SelectedOf
  <2>6. \A a \in DOMAIN sel : \E m \in 1 .. n + 1 : sel[a] = near[m]
    BY <2>4 DEF SelectedOf
  <2> QED BY <2>1, <2>2, <2>5, <2>6 DEF SelectedOf
<1> QED BY <1>3, <1>4

(* The alpha-RNG over all candidates: at most R of them survive, nearest   *)
(* first, none covered by a nearer survivor; and one that does not survive *)
(* is covered, unless there was no room (fda_robust_prune.cuh, and the     *)
(* same loop in the kernels of fda2).                                      *)
THEOREM PrunedIsAlphaRNG ==
  ASSUME NEW anchor, NEW S, NEW cands \in Seq(S), Measured(anchor, cands)
  PROVE  LET kept == Pruned(anchor, cands)
         IN  /\ kept \in Seq(S) /\ Len(kept) <= R /\ ToSet(kept) \subseteq ToSet(cands)
             /\ \A a, b \in DOMAIN kept : a < b => /\ Dist(anchor, kept[a]) <= Dist(anchor, kept[b])
                                                   /\ ~Covers(anchor, kept[a], kept[b])
             /\ \A c \in ToSet(cands) \ ToSet(kept) :
                  Len(kept) = R \/ \E a \in DOMAIN kept : Covers(anchor, kept[a], c)
<1> DEFINE kept == Pruned(anchor, cands)
<1>1. PICK near : near = ByDistance(anchor, cands)
  OBVIOUS
<1>2. /\ near \in Seq(S) /\ ToSet(near) = ToSet(cands)
      /\ \A p, q \in DOMAIN near : p < q => Dist(anchor, near[p]) <= Dist(anchor, near[q])
  BY <1>1, SortedList
<1>3. PICK N \in Nat : N = Len(near) /\ DOMAIN near = 1 .. N
  BY <1>2, LenProperties
<1>4. PICK f \in [0 .. N -> Seq(S)] :
        /\ f[0] = <<>>
        /\ \A n \in 1 .. N : f[n] = Select(anchor, f[n - 1], near[n])
        /\ kept = f[N]
  <2>1. \E f \in [0 .. Len(near) -> Seq(S)] :
           /\ f[0] = <<>>
           /\ \A n \in 1 .. Len(near) : f[n] = Select(anchor, f[n - 1], near[n])
           /\ kept = f[Len(near)]
    BY <1>1, <1>2, PrunedStepByStep
  <2> QED BY <1>3, <2>1
<1> DEFINE Good == {n \in 0 .. N : SelectedOf(anchor, near, n, f[n])}
<1>5. 0 \in Good
  BY <1>4, RoomType DEF SelectedOf
<1>6. ASSUME NEW n \in 0 .. N - 1, n \in Good PROVE n + 1 \in Good
  <2>1. f[n] \in Seq(S) /\ SelectedOf(anchor, near, n, f[n])
    BY <1>6
  <2>2. f[n + 1] = Select(anchor, f[n], near[n + 1])
    BY <1>4
  <2>3. SelectedOf(anchor, near, n + 1, f[n + 1])
    BY <1>2, <1>3, <2>1, <2>2, SelectOneMore
  <2> QED BY <2>3
<1>7. SelectedOf(anchor, near, N, kept) /\ kept \in Seq(S)
  <2> HIDE DEF Good
  <2>1. 0 .. N \subseteq Good
    BY <1>5, <1>6, UpTo
  <2>2. N \in Good
    BY <2>1
  <2> QED BY <1>4, <2>2 DEF Good
<1> HIDE DEF kept
<1>8. ToSet(kept) \subseteq ToSet(cands)
  <2>1. ToSet(kept) \subseteq ToSet(near)
    BY <1>3, <1>7 DEF SelectedOf, ToSet
  <2> QED BY <1>2, <2>1
<1>9. \A c \in ToSet(cands) \ ToSet(kept) :
        Len(kept) = R \/ \E a \in DOMAIN kept : Covers(anchor, kept[a], c)
  <2>1. \A c \in ToSet(near) : \E m \in 1 .. N : c = near[m]
    BY <1>3 DEF ToSet
  <2> SUFFICES ASSUME NEW c \in ToSet(cands), c \notin ToSet(kept)
               PROVE  Len(kept) = R \/ \E a \in DOMAIN kept : Covers(anchor, kept[a], c)
    OBVIOUS
  <2>2. PICK m \in 1 .. N : c = near[m]
    BY <1>2, <2>1
  <2> QED BY <1>7, <2>2 DEF SelectedOf
<1> QED BY <1>7, <1>8, <1>9 DEF SelectedOf, kept

(* No survivor is named twice, even if a candidate was: it covers itself.  *)
LEMMA PrunedNamesOnce ==
  ASSUME NEW anchor, NEW S, NEW cands \in Seq(S), Measured(anchor, cands),
         \A c \in S : Dist(c, c) = 0
  PROVE  IsInjective(Pruned(anchor, cands))
<1>1. PICK kept : kept = Pruned(anchor, cands)
  OBVIOUS
<1>2. /\ kept \in Seq(S) /\ ToSet(kept) \subseteq ToSet(cands)
      /\ \A a, b \in DOMAIN kept : a < b => ~Covers(anchor, kept[a], kept[b])
  BY <1>1, PrunedIsAlphaRNG
<1>3. ASSUME NEW c \in ToSet(cands) PROVE Covers(anchor, c, c)
  <2>1. PICK i \in DOMAIN cands : c = cands[i]
    BY <1>3 DEF ToSet
  <2>2. Dist(anchor, c) \in Nat /\ Dist(c, c) = 0
    BY <2>1, LenProperties DEF Measured
  <2>3. AlphaNum \in Nat /\ AlphaDen \in Nat
    BY PruneAssumption DEF PruneAssumption
  <2>4. AlphaNum * Dist(c, c) = 0 /\ AlphaDen * Dist(anchor, c) >= 0
    BY <2>2, <2>3
  <2> QED BY <2>4 DEF Covers
<1>4. DOMAIN kept = 1 .. Len(kept) /\ Len(kept) \in Nat
  BY <1>2, LenProperties
<1>5. ASSUME NEW a \in DOMAIN kept, NEW b \in DOMAIN kept, kept[a] = kept[b] PROVE a = b
  <2>1. ~(a < b) /\ ~(b < a)
    BY <1>2, <1>3, <1>5 DEF ToSet
  <2> QED BY <1>4, <2>1
<1> QED BY <1>1, <1>5 DEF IsInjective
=============================================================================
