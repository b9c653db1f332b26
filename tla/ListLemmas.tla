------------------------------ MODULE ListLemmas ------------------------------
(***************************************************************************)
(* Facts about numbers, finite sets and sequences that several proofs rest *)
(* on: induction over an interval, with a set in place of a predicate; the *)
(* existence of a function defined step by step; places that are counted;  *)
(* and what the sort by distance returns.                                  *)
(***************************************************************************)
EXTENDS Integers, SequencesExt, Distances, TLAPS, WellFoundedInduction, SequenceTheorems,
        FiniteSetTheorems

-----------------------------------------------------------------------------
(* Induction.                                                              *)

LEMMA SmallestOf ==
  ASSUME NEW S \in SUBSET Nat, S # {}
  PROVE  \E s \in S : \A u \in S : s <= u
<1> DEFINE Less == {ss \in Nat \X Nat : ss[1] < ss[2]}
<1>1. OpToRel(<, Nat) = Less
  BY Zenon DEF OpToRel
<1>2. IsWellFoundedOn(Less, Nat)
  BY <1>1, NatLessThanWellFounded, Zenon
<1> HIDE DEF Less
<1>3. PICK s \in S : \A u \in S : <<u, s>> \notin Less
  BY <1>2, WFMin
<1>4. ASSUME NEW u \in S PROVE s <= u
  <2>1. <<u, s>> \notin Less /\ u \in Nat /\ s \in Nat
    BY <1>3
  <2>2. u < s => <<u, s>> \in Less
    BY <2>1 DEF Less
  <2> QED BY <2>1, <2>2
<1> QED BY <1>4

(* A set with 0 that is closed under successor up to N has all up to N.    *)
LEMMA UpTo ==
  ASSUME NEW N \in Nat, NEW Good,
         0 \in Good, \A n \in 0 .. N - 1 : n \in Good => n + 1 \in Good
  PROVE  0 .. N \subseteq Good
<1> DEFINE Bad == (0 .. N) \ Good
<1> SUFFICES ASSUME Bad # {} PROVE FALSE
  OBVIOUS
<1>1. PICK b \in Bad : \A u \in Bad : b <= u
  <2>1. Bad \in SUBSET Nat
    OBVIOUS
  <2> HIDE DEF Bad
  <2> QED BY <2>1, SmallestOf
<1>2. b # 0 /\ b \in 0 .. N
  OBVIOUS
<1>3. b - 1 \in 0 .. N - 1 /\ b - 1 \notin Bad
  BY <1>1, <1>2
<1>4. b - 1 \in Good
  BY <1>3
<1>5. b - 1 + 1 \in Good
  BY <1>3, <1>4
<1>6. b - 1 + 1 = b
  BY <1>2
<1> QED BY <1>5, <1>6

(* f is computed step by step from base, within S.                         *)
StepsFrom(base, step, f, N, S) ==
  /\ f \in [0 .. N -> S]
  /\ f[0] = base
  /\ \A n \in 1 .. N : f[n] = step[n][f[n - 1]]

LEMMA StepByStep ==
  ASSUME NEW N \in Nat, NEW S, NEW base \in S, NEW step \in [1 .. N -> [S -> S]]
  PROVE  \E f : StepsFrom(base, step, f, N, S)
<1> DEFINE Upto(k, f) == f[0] = base /\ \A n \in 1 .. k : f[n] = step[n][f[n - 1]]
           Good == {k \in 0 .. N : \E f \in [0 .. k -> S] : Upto(k, f)}
<1>1. 0 \in Good
  <2> DEFINE f == [n \in 0 .. 0 |-> base]
  <2>1. f \in [0 .. 0 -> S] /\ f[0] = base
    OBVIOUS
  <2>2. \A n \in 1 .. 0 : f[n] = step[n][f[n - 1]]
    OBVIOUS
  <2> HIDE DEF f
  <2> QED BY <2>1, <2>2
<1>2. ASSUME NEW k \in 0 .. N - 1, k \in Good PROVE k + 1 \in Good
  <2>1. PICK f \in [0 .. k -> S] : Upto(k, f)
    BY <1>2
  <2> DEFINE g == [n \in 0 .. k + 1 |-> IF n <= k THEN f[n] ELSE step[k + 1][f[k]]]
  <2>2. step[k + 1][f[k]] \in S
    BY <2>1
  <2>3. g \in [0 .. k + 1 -> S]
    BY <2>1, <2>2
  <2>4. g[0] = base
    BY <2>1
  <2>5. ASSUME NEW n \in 1 .. k + 1 PROVE g[n] = step[n][g[n - 1]]
    <3>1. n - 1 \in 0 .. k /\ g[n - 1] = f[n - 1]
      OBVIOUS
    <3>2. CASE n <= k
      BY <2>1, <3>1, <3>2
    <3>3. CASE n = k + 1
      <4>1. g[n] = step[k + 1][f[k]] /\ n - 1 = k
        BY <3>3
      <4> QED BY <3>1, <3>3, <4>1
    <3> QED BY <3>2, <3>3
  <2> HIDE DEF g
  <2>6. k + 1 \in 0 .. N
    OBVIOUS
  <2> QED BY <2>3, <2>4, <2>5, <2>6
<1>3. N \in Good
  <2> HIDE DEF Good
  <2>1. 0 .. N \subseteq Good
    BY <1>1, <1>2, UpTo
  <2> QED BY <2>1
<1> QED BY <1>3 DEF StepsFrom

-----------------------------------------------------------------------------
(* Places.                                                                 *)

(* As many places as there are items, and no place taken twice: every      *)
(* place is taken.                                                         *)
LEMMA EveryPlaceTaken ==
  ASSUME NEW S, NEW n \in Nat, IsFiniteSet(S), Cardinality(S) = n,
         NEW f \in [S -> 1 .. n],
         \A a, b \in S : f[a] = f[b] => a = b
  PROVE  \A p \in 1 .. n : \E a \in S : f[a] = p
<1> SUFFICES ASSUME NEW p \in 1 .. n, \A a \in S : f[a] # p PROVE FALSE
  OBVIOUS
<1> DEFINE Rest == (1 .. n) \ {p}
<1>1. IsFiniteSet(1 .. n) /\ Cardinality(1 .. n) = n
  BY FS_Interval
<1>2. IsFiniteSet(Rest) /\ Cardinality(Rest) = n - 1
  BY <1>1, FS_RemoveElement
<1>3. f \in [S -> Rest]
  OBVIOUS
<1>4. \E x, y \in S : x # y /\ f[x] = f[y]
  BY <1>2, <1>3, FS_PigeonHole
<1> QED BY <1>4

LEMMA EveryPlaceUpTo ==
  ASSUME NEW n \in Nat, NEW f \in [1 .. n -> 1 .. n], \A a, b \in 1 .. n : f[a] = f[b] => a = b
  PROVE  \A p \in 1 .. n : \E a \in 1 .. n : f[a] = p
<1>1. IsFiniteSet(1 .. n) /\ Cardinality(1 .. n) = n
  BY FS_Interval
<1> QED BY <1>1, EveryPlaceTaken

-----------------------------------------------------------------------------
(* Sequences.                                                              *)

LEMMA FrontOfAppend ==
  ASSUME NEW S, NEW list \in Seq(S), NEW x \in S
  PROVE  Front(Append(list, x)) = list
<1>1. PICK longer \in Seq(S) : longer = Append(list, x)
  BY AppendProperties
<1>2. /\ Len(list) \in Nat /\ DOMAIN list = 1 .. Len(list) /\ Len(longer) = Len(list) + 1
      /\ list = [i \in 1 .. Len(list) |-> list[i]]
      /\ \A i \in 1 .. Len(list) : longer[i] = list[i]
  BY <1>1, AppendProperties, LenProperties
<1>3. SubSeq(longer, 1, Len(list)) = list
  <2> DEFINE front == SubSeq(longer, 1, Len(list))
  <2>1. \A i \in 1 .. Len(list) : longer[i] \in S
    BY <1>1, <1>2, ElementOfSeq
  <2>2. /\ front \in Seq(S) /\ Len(front) = Len(list)
        /\ \A i \in 1 .. Len(list) : front[i] = longer[i]
    BY <1>2, <2>1, SubSeqProperties
  <2> HIDE DEF front
  <2>3. \A i \in 1 .. Len(list) : front[i] = list[i]
    BY <1>2, <2>2
  <2> QED BY <2>2, <2>3, SeqEqual
<1> QED BY <1>1, <1>2, <1>3 DEF Front

LEMMA OneMore ==
  ASSUME NEW S, NEW list \in Seq(S), NEW x \in S
  PROVE  /\ Append(list, x) \in Seq(S) /\ Len(Append(list, x)) = Len(list) + 1
         /\ ToSet(Append(list, x)) = ToSet(list) \cup {x}
         /\ IsInjective(list) /\ x \notin ToSet(list) => IsInjective(Append(list, x))
<1>1. PICK longer \in Seq(S) : longer = Append(list, x)
  BY AppendProperties
<1>2. /\ Len(list) \in Nat /\ DOMAIN list = 1 .. Len(list) /\ Len(longer) = Len(list) + 1
      /\ DOMAIN longer = 1 .. Len(list) + 1
      /\ \A i \in 1 .. Len(list) : longer[i] = list[i]
      /\ longer[Len(list) + 1] = x
  BY <1>1, AppendProperties, LenProperties
<1>3. ToSet(longer) = ToSet(list) \cup {x}
  BY <1>2 DEF ToSet
<1>4. ASSUME IsInjective(list), x \notin ToSet(list) PROVE IsInjective(longer)
  <2> SUFFICES ASSUME NEW i \in DOMAIN longer, NEW j \in DOMAIN longer, longer[i] = longer[j], i < j
               PROVE  FALSE
    BY <1>2 DEF IsInjective
  <2>1. i \in 1 .. Len(list) /\ longer[i] = list[i] /\ list[i] \in ToSet(list)
    BY <1>2 DEF ToSet
  <2>2. j = Len(list) + 1 => longer[j] = x
    BY <1>2
  <2>3. j \in 1 .. Len(list) => longer[j] = list[j]
    BY <1>2
  <2> QED BY <1>2, <1>4, <2>1, <2>2, <2>3 DEF IsInjective
<1> QED BY <1>1, <1>2, <1>3, <1>4

LEMMA EntriesOf ==
  ASSUME NEW S, NEW list \in Seq(S)
  PROVE  /\ Len(list) \in Nat /\ DOMAIN list = 1 .. Len(list)
         /\ ToSet(list) = {list[m] : m \in 1 .. Len(list)} /\ ToSet(list) \subseteq S
         /\ \A n \in 1 .. Len(list) :
              list[n] \in S /\ {list[m] : m \in 1 .. n} = {list[m] : m \in 1 .. n - 1} \cup {list[n]}
         /\ {list[m] : m \in 1 .. 0} = {}
<1>1. Len(list) \in Nat /\ DOMAIN list = 1 .. Len(list) /\ \A n \in 1 .. Len(list) : list[n] \in S
  BY LenProperties, ElementOfSeq
<1>2. ASSUME NEW n \in 1 .. Len(list)
      PROVE  {list[m] : m \in 1 .. n} = {list[m] : m \in 1 .. n - 1} \cup {list[n]}
  BY <1>1
<1> QED BY <1>1, <1>2 DEF ToSet

-----------------------------------------------------------------------------
(* The sort.                                                               *)

(* Squared distances are natural numbers.                                  *)
Measured(anchor, cands) == \A i \in DOMAIN cands : Dist(anchor, cands[i]) \in Nat

LEMMA PrecedesOrders ==
  ASSUME NEW anchor, NEW S, NEW cands \in Seq(S), Measured(anchor, cands)
  PROVE  /\ \A i, j, k \in DOMAIN cands :
              Precedes(anchor, cands, i, j) /\ Precedes(anchor, cands, j, k)
                => Precedes(anchor, cands, i, k)
         /\ \A i \in DOMAIN cands : ~Precedes(anchor, cands, i, i)
         /\ \A i, j \in DOMAIN cands :
              i # j => Precedes(anchor, cands, i, j) \/ Precedes(anchor, cands, j, i)
<1>1. DOMAIN cands = 1 .. Len(cands) /\ Len(cands) \in Nat
  BY LenProperties
<1>2. PICK d \in [DOMAIN cands -> Nat] : \A i \in DOMAIN cands : d[i] = Dist(anchor, cands[i])
  <2> DEFINE d == [i \in DOMAIN cands |-> Dist(anchor, cands[i])]
  <2>1. d \in [DOMAIN cands -> Nat]
    BY DEF Measured
  <2> QED BY <2>1
<1>3. \A i, j \in DOMAIN cands :
        Precedes(anchor, cands, i, j) <=> (d[i] < d[j] \/ (d[i] = d[j] /\ i < j))
  BY <1>2 DEF Precedes
<1> QED BY <1>1, <1>3

(* Sorting moves every candidate to one place, in order.                   *)
LEMMA SortPermutes ==
  ASSUME NEW anchor, NEW S, NEW cands \in Seq(S), Measured(anchor, cands)
  PROVE  \E from \in [DOMAIN cands -> DOMAIN cands] :
           /\ ByDistance(anchor, cands) = [p \in DOMAIN cands |-> cands[from[p]]]
           /\ \A i \in DOMAIN cands : \E p \in DOMAIN cands : from[p] = i
           /\ \A p, q \in DOMAIN cands : p < q => Precedes(anchor, cands, from[p], from[q])
<1> DEFINE n == Len(cands)
           Ahead(i) == {j \in DOMAIN cands : Precedes(anchor, cands, j, i)}
           place == [i \in DOMAIN cands |-> Place(anchor, cands, i)]
<1>1. n \in Nat /\ DOMAIN cands = 1 .. n
  BY LenProperties
<1>2. IsFiniteSet(DOMAIN cands) /\ Cardinality(DOMAIN cands) = n
  BY <1>1, FS_Interval
<1>3. ASSUME NEW i \in DOMAIN cands
      PROVE  /\ IsFiniteSet(Ahead(i)) /\ Cardinality(Ahead(i)) \in Nat
             /\ Cardinality(Ahead(i)) <= n - 1
             /\ place[i] = 1 + Cardinality(Ahead(i))
  <2> DEFINE Rest == DOMAIN cands \ {i}
  <2>1. IsFiniteSet(Rest) /\ Cardinality(Rest) = n - 1
    BY <1>2, FS_RemoveElement
  <2>2. Ahead(i) \subseteq Rest
    BY PrecedesOrders
  <2>3. IsFiniteSet(Ahead(i)) /\ Cardinality(Ahead(i)) <= n - 1
    <3> HIDE DEF Rest, n, Ahead
    <3> QED BY <2>1, <2>2, FS_Subset
  <2> QED BY <2>3, FS_CardinalityType DEF Place
<1>4. place \in [DOMAIN cands -> 1 .. n]
  <2>1. \A i \in DOMAIN cands : place[i] \in 1 .. n
    <3> HIDE DEF Ahead, place, n
    <3> QED BY <1>1, <1>3
  <2> QED BY <2>1
<1>5. ASSUME NEW i \in DOMAIN cands, NEW j \in DOMAIN cands, Precedes(anchor, cands, i, j)
      PROVE  place[i] < place[j]
  <2>1. IsFiniteSet(Ahead(i) \cup {i}) /\ Cardinality(Ahead(i) \cup {i}) = Cardinality(Ahead(i)) + 1
    <3>1. i \notin Ahead(i)
      BY PrecedesOrders
    <3> HIDE DEF Ahead
    <3> QED BY <1>3, <3>1, FS_AddElement
  <2>2. Ahead(i) \cup {i} \subseteq Ahead(j)
    BY <1>5, PrecedesOrders
  <2>3. Cardinality(Ahead(i) \cup {i}) <= Cardinality(Ahead(j))
    <3> HIDE DEF Ahead
    <3> QED BY <1>3, <2>2, FS_Subset
  <2> HIDE DEF Ahead, place
  <2> QED BY <1>3, <2>1, <2>3
<1>6. \A i, j \in DOMAIN cands : place[i] = place[j] => i = j
  <2> SUFFICES ASSUME NEW i \in DOMAIN cands, NEW j \in DOMAIN cands, place[i] = place[j], i # j
               PROVE  FALSE
    BY Zenon
  <2>1. Precedes(anchor, cands, i, j) \/ Precedes(anchor, cands, j, i)
    BY PrecedesOrders
  <2>2. place[i] \in Nat /\ place[j] \in Nat
    BY <1>1, <1>4
  <2> HIDE DEF place
  <2> QED BY <1>5, <2>1, <2>2
<1>7. \A p \in DOMAIN cands : \E i \in DOMAIN cands : place[i] = p
  <2> HIDE DEF place, n
  <2>1. PICK D : D = DOMAIN cands
    OBVIOUS
  <2>2. n \in Nat /\ IsFiniteSet(D) /\ Cardinality(D) = n /\ place \in [D -> 1 .. n]
    BY <1>1, <1>2, <1>4, <2>1
  <2>3. \A i, j \in D : place[i] = place[j] => i = j
    BY <1>6, <2>1
  <2>4. \A p \in 1 .. n : \E i \in D : place[i] = p
    BY <2>2, <2>3, EveryPlaceTaken
  <2> QED BY <1>1, <2>1, <2>4
<1> DEFINE from == [p \in DOMAIN cands |->
                      CHOOSE i \in DOMAIN cands : Place(anchor, cands, i) = p]
<1>8. \A p \in DOMAIN cands : from[p] \in DOMAIN cands /\ place[from[p]] = p
  BY <1>7
<1>9. from \in [DOMAIN cands -> DOMAIN cands]
  BY <1>8
<1>10. ByDistance(anchor, cands) = [p \in DOMAIN cands |-> cands[from[p]]]
  BY DEF ByDistance
<1> HIDE DEF from, place, n
<1>11. \A i \in DOMAIN cands : \E p \in DOMAIN cands : from[p] = i
  BY <1>1, <1>4, <1>6, <1>8
<1>12. ASSUME NEW p \in DOMAIN cands, NEW q \in DOMAIN cands, p < q
       PROVE  Precedes(anchor, cands, from[p], from[q])
  <2>1. ~Precedes(anchor, cands, from[q], from[p]) /\ from[p] # from[q]
    BY <1>1, <1>5, <1>8, <1>12
  <2> QED BY <1>8, <2>1, PrecedesOrders
<1> QED BY <1>9, <1>10, <1>11, <1>12

LEMMA SortedList ==
  ASSUME NEW anchor, NEW S, NEW cands \in Seq(S), Measured(anchor, cands)
  PROVE  LET near == ByDistance(anchor, cands)
         IN  /\ near \in Seq(S) /\ Len(near) = Len(cands)
             /\ ToSet(near) = ToSet(cands)
             /\ \A p, q \in DOMAIN near : p < q => Dist(anchor, near[p]) <= Dist(anchor, near[q])
             /\ IsInjective(cands) => IsInjective(near)
<1> DEFINE near == ByDistance(anchor, cands)
<1>1. PICK from \in [DOMAIN cands -> DOMAIN cands] :
        /\ near = [p \in DOMAIN cands |-> cands[from[p]]]
        /\ \A i \in DOMAIN cands : \E p \in DOMAIN cands : from[p] = i
        /\ \A p, q \in DOMAIN cands : p < q => Precedes(anchor, cands, from[p], from[q])
  BY SortPermutes
<1> HIDE DEF near
<1>2. Len(cands) \in Nat /\ DOMAIN cands = 1 .. Len(cands) /\ cands \in [1 .. Len(cands) -> S]
  BY LenProperties
<1>3. near \in Seq(S) /\ Len(near) = Len(cands) /\ DOMAIN near = DOMAIN cands
  <2>1. near \in [1 .. Len(cands) -> S]
    BY <1>1, <1>2
  <2> QED BY <1>2, <2>1
<1>4. ToSet(near) = ToSet(cands)
  BY <1>1, <1>3 DEF ToSet
<1>5. \A p, q \in DOMAIN near : p < q => Dist(anchor, near[p]) <= Dist(anchor, near[q])
  <2> SUFFICES ASSUME NEW p \in DOMAIN cands, NEW q \in DOMAIN cands, p < q
               PROVE  Dist(anchor, cands[from[p]]) <= Dist(anchor, cands[from[q]])
    BY <1>1, <1>3
  <2>1. Precedes(anchor, cands, from[p], from[q])
    BY <1>1
  <2>2. Dist(anchor, cands[from[p]]) \in Nat /\ Dist(anchor, cands[from[q]]) \in Nat
    BY DEF Measured
  <2> QED BY <2>1, <2>2 DEF Precedes
<1>6. IsInjective(cands) => IsInjective(near)
  <2>1. \A p, q \in DOMAIN cands : p # q => from[p] # from[q]
    <3> SUFFICES ASSUME NEW p \in DOMAIN cands, NEW q \in DOMAIN cands, p < q
                 PROVE  from[p] # from[q]
      BY <1>2
    <3> QED BY <1>1, <1>2, PrecedesOrders
  <2> QED BY <1>1, <1>3, <2>1 DEF IsInjective
<1> QED BY <1>3, <1>4, <1>5, <1>6 DEF near
=============================================================================
