--------------------------- MODULE GreedyWalkProofs ---------------------------
(***************************************************************************)
(* What the sort, the merge and the walk of greedySearch.cu return, for    *)
(* any graph, tombstones, width and distances.                             *)
(***************************************************************************)
EXTENDS GreedyWalk, ListLemmas

-----------------------------------------------------------------------------
(* Two ascending rows of numbers, and the places of their members when     *)
(* they are merged.                                                        *)

Rising(n, d) == d \in [1 .. n -> Nat] /\ \A i, j \in 1 .. n : i < j => d[i] <= d[j]

(* The members of e below x, and those of d up to y.                       *)
Below(m, e, x) == {j \in 1 .. m : e[j] < x}
Upto(n, d, y) == {i \in 1 .. n : ~(y < d[i])}

LEMMA Counted ==
  ASSUME NEW n \in Nat, NEW S, S \subseteq 1 .. n
  PROVE  IsFiniteSet(S) /\ Cardinality(S) \in 0 .. n
<1>1. IsFiniteSet(1 .. n) /\ Cardinality(1 .. n) = n
  BY FS_Interval
<1>2. IsFiniteSet(S) /\ Cardinality(S) <= n
  BY <1>1, FS_Subset
<1> QED BY <1>2, FS_CardinalityType

LEMMA CountedBelow ==
  ASSUME NEW n \in Nat, NEW S, S \subseteq 1 .. n, NEW k \in 0 .. n
  PROVE  /\ 1 .. k \subseteq S => k <= Cardinality(S)
         /\ S \subseteq 1 .. k => Cardinality(S) <= k
<1>1. IsFiniteSet(1 .. k) /\ Cardinality(1 .. k) = k
  BY FS_Interval
<1>2. IsFiniteSet(S)
  BY Counted
<1>3. 1 .. k \subseteq S => k <= Cardinality(S)
  BY <1>1, <1>2, FS_Subset
<1>4. S \subseteq 1 .. k => Cardinality(S) <= k
  BY <1>1, <1>2, FS_Subset
<1> QED BY <1>3, <1>4

LEMMA MergePlaces ==
  ASSUME NEW n \in Nat, NEW m \in Nat, NEW d, NEW e, Rising(n, d), Rising(m, e),
         NEW i \in 1 .. n, NEW j \in 1 .. m
  PROVE  /\ Cardinality(Below(m, e, d[i])) \in 0 .. m
         /\ Cardinality(Upto(n, d, e[j])) \in 0 .. n
         /\ e[j] < d[i] => /\ j + Cardinality(Upto(n, d, e[j]))
                                < i + Cardinality(Below(m, e, d[i]))
         /\ ~(e[j] < d[i]) => /\ i + Cardinality(Below(m, e, d[i]))
                                   < j + Cardinality(Upto(n, d, e[j]))
<1>1. Below(m, e, d[i]) \subseteq 1 .. m /\ Upto(n, d, e[j]) \subseteq 1 .. n
  BY DEF Below, Upto
<1>2. Cardinality(Below(m, e, d[i])) \in 0 .. m /\ Cardinality(Upto(n, d, e[j])) \in 0 .. n
  BY <1>1, Counted
<1>3. ASSUME e[j] < d[i]
      PROVE  1 .. j \subseteq Below(m, e, d[i]) /\ Upto(n, d, e[j]) \subseteq 1 .. i - 1
  <2>1. \A k \in 1 .. j : k \in 1 .. m /\ e[k] <= e[j] /\ e[k] \in Nat
    BY DEF Rising
  <2>2. \A k \in 1 .. n : d[k] \in Nat /\ (i <= k => d[i] <= d[k])
    BY DEF Rising
  <2>3. e[j] \in Nat
    BY <2>1
  <2>4. 1 .. j \subseteq Below(m, e, d[i])
    BY <1>3, <2>1, <2>2 DEF Below
  <2>5. ASSUME NEW k \in Upto(n, d, e[j]) PROVE k \in 1 .. i - 1
    <3>1. k \in 1 .. n /\ ~(e[j] < d[k])
      BY DEF Upto
    <3> QED BY <1>3, <2>2, <2>3, <3>1
  <2> QED BY <2>4, <2>5
<1>4. ASSUME ~(e[j] < d[i])
      PROVE  Below(m, e, d[i]) \subseteq 1 .. j - 1 /\ 1 .. i \subseteq Upto(n, d, e[j])
  <2>1. \A k \in 1 .. i : k \in 1 .. n /\ d[k] <= d[i] /\ d[k] \in Nat
    BY DEF Rising
  <2>2. \A k \in 1 .. m : e[k] \in Nat /\ (j <= k => e[j] <= e[k])
    BY DEF Rising
  <2>3. d[i] \in Nat
    BY <2>1
  <2>4. 1 .. i \subseteq Upto(n, d, e[j])
    BY <1>4, <2>1, <2>2 DEF Upto
  <2>5. ASSUME NEW k \in Below(m, e, d[i]) PROVE k \in 1 .. j - 1
    <3>1. k \in 1 .. m /\ e[k] < d[i]
      BY DEF Below
    <3> QED BY <1>4, <2>2, <2>3, <3>1
  <2> QED BY <2>4, <2>5
<1>5. ASSUME e[j] < d[i]
      PROVE  j <= Cardinality(Below(m, e, d[i])) /\ Cardinality(Upto(n, d, e[j])) <= i - 1
  <2>1. j \in 0 .. m /\ i - 1 \in 0 .. n
    OBVIOUS
  <2> QED BY <1>1, <1>3, <1>5, <2>1, CountedBelow
<1>6. ASSUME ~(e[j] < d[i])
      PROVE  Cardinality(Below(m, e, d[i])) <= j - 1 /\ i <= Cardinality(Upto(n, d, e[j]))
  <2>1. j - 1 \in 0 .. m /\ i \in 0 .. n
    OBVIOUS
  <2> QED BY <1>1, <1>4, <1>6, <2>1, CountedBelow
<1> PICK b \in 0 .. m : b = Cardinality(Below(m, e, d[i]))
  BY <1>2
<1> PICK u \in 0 .. n : u = Cardinality(Upto(n, d, e[j]))
  BY <1>2
<1>7. e[j] < d[i] => j + u < i + b
  BY <1>5
<1>8. ~(e[j] < d[i]) => i + b < j + u
  BY <1>6
<1> QED BY <1>2, <1>7, <1>8

LEMMA CountsGrow ==
  ASSUME NEW n \in Nat, NEW m \in Nat, NEW d, NEW e, Rising(n, d), Rising(m, e)
  PROVE  /\ \A i, k \in 1 .. n : i < k =>
              Cardinality(Below(m, e, d[i])) <= Cardinality(Below(m, e, d[k]))
         /\ \A j, k \in 1 .. m : j < k =>
              Cardinality(Upto(n, d, e[j])) <= Cardinality(Upto(n, d, e[k]))
<1>1. ASSUME NEW i \in 1 .. n, NEW k \in 1 .. n, i < k
      PROVE  Cardinality(Below(m, e, d[i])) <= Cardinality(Below(m, e, d[k]))
  <2>1. Below(m, e, d[i]) \subseteq Below(m, e, d[k]) /\ Below(m, e, d[k]) \subseteq 1 .. m
    BY <1>1 DEF Rising, Below
  <2>2. IsFiniteSet(Below(m, e, d[k]))
    BY <2>1, Counted
  <2> QED BY <2>1, <2>2, FS_Subset
<1>2. ASSUME NEW j \in 1 .. m, NEW k \in 1 .. m, j < k
      PROVE  Cardinality(Upto(n, d, e[j])) <= Cardinality(Upto(n, d, e[k]))
  <2>1. Upto(n, d, e[j]) \subseteq Upto(n, d, e[k]) /\ Upto(n, d, e[k]) \subseteq 1 .. n
    BY <1>2 DEF Rising, Upto
  <2>2. IsFiniteSet(Upto(n, d, e[k]))
    BY <2>1, Counted
  <2> QED BY <2>1, <2>2, FS_Subset
<1> QED BY <1>1, <1>2

(* The members of both rows, numbered: first those of d, then those of e.  *)
Value(n, d, e, k) == IF k <= n THEN d[k] ELSE e[k - n]
PlaceOf(n, m, d, e, k) ==
  IF k <= n THEN k + Cardinality(Below(m, e, d[k]))
            ELSE (k - n) + Cardinality(Upto(n, d, e[k - n]))

(* a goes before b: it is smaller, or as large and comes first.            *)
Before(n, d, e, a, b) ==
  \/ Value(n, d, e, a) < Value(n, d, e, b)
  \/ Value(n, d, e, a) = Value(n, d, e, b) /\ a < b

LEMMA ValueType ==
  ASSUME NEW n \in Nat, NEW m \in Nat, NEW d, NEW e, Rising(n, d), Rising(m, e)
  PROVE  \A k \in 1 .. n + m : Value(n, d, e, k) \in Nat
<1> SUFFICES ASSUME NEW k \in 1 .. n + m PROVE Value(n, d, e, k) \in Nat
  OBVIOUS
<1>1. k > n => k - n \in 1 .. m
  OBVIOUS
<1> QED BY <1>1 DEF Value, Rising

LEMMA PlacesOrdered ==
  ASSUME NEW n \in Nat, NEW m \in Nat, NEW d, NEW e, Rising(n, d), Rising(m, e),
         NEW a \in 1 .. n + m, NEW b \in 1 .. n + m
  PROVE  /\ PlaceOf(n, m, d, e, a) \in 1 .. n + m
         /\ Before(n, d, e, a, b) => PlaceOf(n, m, d, e, a) < PlaceOf(n, m, d, e, b)
<1>1. \A k \in 1 .. n : Cardinality(Below(m, e, d[k])) \in 0 .. m
  BY Counted DEF Below
<1>2. \A k \in 1 .. m : Cardinality(Upto(n, d, e[k])) \in 0 .. n
  BY Counted DEF Upto
<1>3. PICK f : /\ f \in [1 .. n -> 0 .. m]
               /\ \A k \in 1 .. n : f[k] = Cardinality(Below(m, e, d[k]))
  <2> DEFINE f == [k \in 1 .. n |-> Cardinality(Below(m, e, d[k]))]
  <2>1. f \in [1 .. n -> 0 .. m]
    BY <1>1
  <2>2. \A k \in 1 .. n : f[k] = Cardinality(Below(m, e, d[k]))
    OBVIOUS
  <2> HIDE DEF f
  <2> QED BY <2>1, <2>2
<1>4. PICK g : /\ g \in [1 .. m -> 0 .. n]
               /\ \A k \in 1 .. m : g[k] = Cardinality(Upto(n, d, e[k]))
  <2> DEFINE g == [k \in 1 .. m |-> Cardinality(Upto(n, d, e[k]))]
  <2>1. g \in [1 .. m -> 0 .. n]
    BY <1>2
  <2>2. \A k \in 1 .. m : g[k] = Cardinality(Upto(n, d, e[k]))
    OBVIOUS
  <2> HIDE DEF g
  <2> QED BY <2>1, <2>2
<1>5. /\ \A i, k \in 1 .. n : i < k => f[i] <= f[k]
      /\ \A j, k \in 1 .. m : j < k => g[j] <= g[k]
  BY <1>3, <1>4, CountsGrow
<1>6. \A i \in 1 .. n, j \in 1 .. m :
        /\ e[j] < d[i] => j + g[j] < i + f[i]
        /\ ~(e[j] < d[i]) => i + f[i] < j + g[j]
  BY <1>3, <1>4, MergePlaces
<1>7. ASSUME NEW k \in 1 .. n + m
      PROVE  /\ k <= n => k \in 1 .. n /\ PlaceOf(n, m, d, e, k) = k + f[k]
                          /\ Value(n, d, e, k) = d[k]
             /\ ~(k <= n) => k - n \in 1 .. m /\ PlaceOf(n, m, d, e, k) = (k - n) + g[k - n]
                          /\ Value(n, d, e, k) = e[k - n]
  <2>1. ~(k <= n) => k - n \in 1 .. m
    OBVIOUS
  <2> QED BY <1>3, <1>4, <2>1 DEF PlaceOf, Value
<1>8. PlaceOf(n, m, d, e, a) \in 1 .. n + m
  BY <1>3, <1>4, <1>7
<1>9. ASSUME Before(n, d, e, a, b) PROVE PlaceOf(n, m, d, e, a) < PlaceOf(n, m, d, e, b)
  <2>0. d \in [1 .. n -> Nat] /\ e \in [1 .. m -> Nat]
        /\ (\A i, k \in 1 .. n : i < k => d[i] <= d[k])
        /\ (\A j, k \in 1 .. m : j < k => e[j] <= e[k])
    BY DEF Rising
  <2>1. CASE a <= n /\ b <= n
    <3>1. a < b
      BY <1>7, <1>9, <2>0, <2>1 DEF Before
    <3> QED BY <1>3, <1>5, <1>7, <2>1, <3>1
  <2>2. CASE a <= n /\ ~(b <= n)
    <3>1. ~(e[b - n] < d[a])
      BY <1>7, <1>9, <2>0, <2>2 DEF Before
    <3> QED BY <1>6, <1>7, <2>2, <3>1
  <2>3. CASE ~(a <= n) /\ b <= n
    <3>1. e[a - n] < d[b]
      BY <1>7, <1>9, <2>0, <2>3 DEF Before
    <3> QED BY <1>6, <1>7, <2>3, <3>1
  <2>4. CASE ~(a <= n) /\ ~(b <= n)
    <3>1. PICK i \in 1 .. m, j \in 1 .. m : i = a - n /\ j = b - n
      BY <1>7, <2>4
    <3>2. i < j
      BY <1>7, <1>9, <2>0, <2>4, <3>1 DEF Before
    <3>3. i + g[i] < j + g[j]
      BY <1>4, <1>5, <3>2
    <3> QED BY <1>7, <2>4, <3>1, <3>3
  <2> QED BY <2>1, <2>2, <2>3, <2>4
<1> QED BY <1>8, <1>9

(* Every place is that of one member.                                      *)
InPlaces(n, m, d, e, at) ==
  /\ at \in [1 .. n + m -> 1 .. n + m]
  /\ \A p \in 1 .. n + m : PlaceOf(n, m, d, e, at[p]) = p
  /\ \A k \in 1 .. n + m : at[PlaceOf(n, m, d, e, k)] = k
  /\ \A p, q \in 1 .. n + m : p < q => Before(n, d, e, at[p], at[q])

LEMMA PlacesTaken ==
  ASSUME NEW n \in Nat, NEW m \in Nat, NEW d, NEW e, Rising(n, d), Rising(m, e)
  PROVE  \E at : InPlaces(n, m, d, e, at)
<1> DEFINE N == n + m
           place == [k \in 1 .. N |-> PlaceOf(n, m, d, e, k)]
<1>1. N \in Nat /\ place \in [1 .. N -> 1 .. N]
  BY PlacesOrdered
<1>2. \A a, b \in 1 .. N : Before(n, d, e, a, b) => place[a] < place[b]
  BY PlacesOrdered
<1>3. \A a, b \in 1 .. N : a = b \/ Before(n, d, e, a, b) \/ Before(n, d, e, b, a)
  <2> SUFFICES ASSUME NEW a \in 1 .. N, NEW b \in 1 .. N, a # b
               PROVE  Before(n, d, e, a, b) \/ Before(n, d, e, b, a)
    OBVIOUS
  <2>1. PICK x \in Nat, y \in Nat : x = Value(n, d, e, a) /\ y = Value(n, d, e, b)
    BY ValueType
  <2> QED BY <2>1 DEF Before
<1>4. \A k \in 1 .. N : place[k] = PlaceOf(n, m, d, e, k)
  OBVIOUS
<1> HIDE DEF place, N
<1>5. \A a, b \in 1 .. N : place[a] = place[b] => a = b
  BY <1>1, <1>2, <1>3
<1>6. \A p \in 1 .. N : \E k \in 1 .. N : place[k] = p
  <2>1. IsFiniteSet(1 .. N) /\ Cardinality(1 .. N) = N
    BY <1>1, FS_Interval
  <2>2. PICK S : S = 1 .. N
    OBVIOUS
  <2>3. \A p \in 1 .. N : \E k \in S : place[k] = p
    <3>1. /\ IsFiniteSet(S) /\ Cardinality(S) = N /\ place \in [S -> 1 .. N]
          /\ \A a, b \in S : place[a] = place[b] => a = b
      BY <1>1, <1>5, <2>1, <2>2
    <3>2. N \in Nat /\ place \in [S -> 1 .. N]
      BY <1>1, <3>1
    <3> QED BY <3>1, <3>2, EveryPlaceTaken
  <2> QED BY <2>2, <2>3
<1> DEFINE at == [p \in 1 .. N |-> CHOOSE k \in 1 .. N : place[k] = p]
<1>7. at \in [1 .. N -> 1 .. N] /\ \A p \in 1 .. N : place[at[p]] = p
  BY <1>6
<1> HIDE DEF at
<1>8. \A k \in 1 .. N : at[place[k]] = k
  BY <1>1, <1>5, <1>7
<1>9. \A p, q \in 1 .. N : p < q => Before(n, d, e, at[p], at[q])
  <2> SUFFICES ASSUME NEW p \in 1 .. N, NEW q \in 1 .. N, p < q
               PROVE  Before(n, d, e, at[p], at[q])
    OBVIOUS
  <2>1. at[p] \in 1 .. N /\ at[q] \in 1 .. N /\ place[at[p]] = p /\ place[at[q]] = q
    BY <1>7
  <2>2. at[p] # at[q] /\ ~(q < p)
    BY <2>1, <1>1
  <2> QED BY <1>2, <1>3, <2>1, <2>2
<1> QED BY <1>1, <1>4, <1>7, <1>8, <1>9 DEF N, InPlaces

-----------------------------------------------------------------------------
(* The merge of a work list with the sorted neighbours.                    *)

Entry(V) == [id : V, visited : BOOLEAN]

MeasuredFrom(target, V) == \A v \in V : Dist(target, v) \in Nat

(* Nearest first.                                                          *)
InOrder(target, near) ==
  \A i, j \in DOMAIN near : i < j => Dist(target, near[i]) <= Dist(target, near[j])
Ascending(target, list) ==
  \A i, j \in DOMAIN list : i < j => Dist(target, list[i].id) <= Dist(target, list[j].id)

(* What is merged, numbered: first the entries, then the neighbours.       *)
Item(list, near, k) ==
  IF k <= Len(list) THEN list[k] ELSE [id |-> near[k - Len(list)], visited |-> FALSE]

Goes(target, list, near, a, b) ==
  LET x == Dist(target, Item(list, near, a).id)
      y == Dist(target, Item(list, near, b).id)
  IN  x < y \/ (x = y /\ a < b)

(* merged is made of the items in the order at, as many as there is room.  *)
Interleaved(target, list, near, width, at, merged) ==
  LET N == Len(list) + Len(near)
  IN  /\ at \in [1 .. N -> 1 .. N]
      /\ \A p, q \in 1 .. N : p < q => Goes(target, list, near, at[p], at[q])
      /\ \A k \in 1 .. N : \E p \in 1 .. N : at[p] = k
      /\ merged = [p \in 1 .. MergedLength(list, near, width) |-> Item(list, near, at[p])]

LEMMA LengthIs ==
  ASSUME NEW S, NEW list \in Seq(S), NEW T, NEW near \in Seq(T), NEW width \in Nat
  PROVE  /\ MergedLength(list, near, width) \in 0 .. Len(list) + Len(near)
         /\ MergedLength(list, near, width) <= width
         /\ MergedLength(list, near, width) < Len(list) + Len(near)
              => MergedLength(list, near, width) = width
         /\ Len(list) <= width => Len(list) <= MergedLength(list, near, width)
BY LenProperties DEF MergedLength

LEMMA ItemIs ==
  ASSUME NEW V, NEW list \in Seq(Entry(V)), NEW near \in Seq(V)
  PROVE  \A k \in 1 .. Len(list) + Len(near) :
           /\ Item(list, near, k) \in Entry(V)
           /\ k <= Len(list) => Item(list, near, k) = list[k]
           /\ ~(k <= Len(list)) =>
                /\ k - Len(list) \in 1 .. Len(near)
                /\ Item(list, near, k).id = near[k - Len(list)]
                /\ Item(list, near, k).visited = FALSE
<1>1. PICK n \in Nat, m \in Nat : n = Len(list) /\ m = Len(near)
  BY LenProperties
<1>2. (\A k \in 1 .. n : list[k] \in Entry(V)) /\ (\A k \in 1 .. m : near[k] \in V)
  BY <1>1, ElementOfSeq
<1>3. ASSUME NEW k \in 1 .. n + m, ~(k <= n) PROVE k - n \in 1 .. m
  BY <1>1, <1>3
<1> QED BY <1>1, <1>2, <1>3 DEF Item, Entry

LEMMA MergedIs ==
  ASSUME NEW V, NEW target, MeasuredFrom(target, V),
         NEW list \in Seq(Entry(V)), Ascending(target, list),
         NEW near \in Seq(V), InOrder(target, near), NEW width \in Nat
  PROVE  \E at : Interleaved(target, list, near, width, at, Merged(target, list, near, width))
<1>1. PICK n \in Nat, m \in Nat : n = Len(list) /\ m = Len(near)
  BY LenProperties
<1>2. /\ DOMAIN list = 1 .. n /\ DOMAIN near = 1 .. m
      /\ \A k \in 1 .. n : list[k] \in Entry(V) /\ list[k].id \in V
      /\ \A k \in 1 .. m : near[k] \in V
  <2>1. DOMAIN list = 1 .. n /\ DOMAIN near = 1 .. m
    BY <1>1, LenProperties
  <2>2. (\A k \in 1 .. n : list[k] \in Entry(V)) /\ (\A k \in 1 .. m : near[k] \in V)
    BY <1>1, ElementOfSeq
  <2>3. \A x \in Entry(V) : x.id \in V
    BY DEF Entry
  <2> QED BY <2>1, <2>2, <2>3
<1>3. PICK d : d = [i \in 1 .. n |-> Dist(target, list[i].id)]
  OBVIOUS
<1>4. PICK e : e = [j \in 1 .. m |-> Dist(target, near[j])]
  OBVIOUS
<1>5. Rising(n, d)
  BY <1>2, <1>3 DEF Rising, Ascending, MeasuredFrom
<1>6. Rising(m, e)
  BY <1>2, <1>4 DEF Rising, InOrder, MeasuredFrom
<1>7. ASSUME NEW i \in 1 .. n PROVE EntryPlace(target, list, near, i) = PlaceOf(n, m, d, e, i)
  <2>1. {j \in DOMAIN near : GoesBefore(Dist(target, near[j]), Dist(target, list[i].id))}
          = Below(m, e, d[i])
    BY <1>2, <1>3, <1>4 DEF GoesBefore, Below
  <2>2. i <= n
    BY <1>1
  <2> QED BY <2>1, <2>2 DEF EntryPlace, PlaceOf
<1>8. ASSUME NEW j \in 1 .. m PROVE NearPlace(target, list, near, j) = PlaceOf(n, m, d, e, n + j)
  <2>1. {i \in DOMAIN list : ~GoesBefore(Dist(target, near[j]), Dist(target, list[i].id))}
          = Upto(n, d, e[j])
    BY <1>2, <1>3, <1>4 DEF GoesBefore, Upto
  <2>2. ~(n + j <= n) /\ (n + j) - n = j
    BY <1>1
  <2> QED BY <2>1, <2>2 DEF NearPlace, PlaceOf
<1>9. PICK at : InPlaces(n, m, d, e, at)
  <2>1. n \in Nat /\ m \in Nat
    BY <1>1
  <2> QED BY <2>1, <1>5, <1>6, PlacesTaken
<1>9a. /\ at \in [1 .. n + m -> 1 .. n + m]
       /\ \A p \in 1 .. n + m : PlaceOf(n, m, d, e, at[p]) = p
       /\ \A k \in 1 .. n + m : at[PlaceOf(n, m, d, e, k)] = k
       /\ \A p, q \in 1 .. n + m : p < q => Before(n, d, e, at[p], at[q])
  BY <1>9 DEF InPlaces
<1> DEFINE from(p) == {i \in DOMAIN list : EntryPlace(target, list, near, i) = p}
           new(p) == {j \in DOMAIN near : NearPlace(target, list, near, j) = p}
           all == [p \in 1 .. Len(list) + Len(near) |->
                     IF new(p) # {} THEN [id |-> near[CHOOSE j \in new(p) : TRUE], visited |-> FALSE]
                     ELSE list[CHOOSE i \in from(p) : TRUE]]
<1>10. ASSUME NEW p \in 1 .. n + m
       PROVE  all[p] = Item(list, near, at[p])
  <2>1. PICK k \in 1 .. n + m : k = at[p] /\ PlaceOf(n, m, d, e, k) = p
    BY <1>9a
  <2>2. CASE k <= n
    <3>1. k \in 1 .. n /\ from(p) = {k}
      <4>1. k \in 1 .. n
        BY <1>1, <2>2
      <4>2. k \in from(p)
        BY <1>2, <1>7, <2>1, <4>1
      <4>3. ASSUME NEW i \in from(p) PROVE i = k
        <5>1. i \in 1 .. n /\ PlaceOf(n, m, d, e, i) = p
          BY <1>2, <1>7
        <5>2. i \in 1 .. n + m
          BY <1>1, <5>1
        <5> QED BY <1>9a, <2>1, <5>1, <5>2
      <4> HIDE DEF from
      <4> QED BY <4>1, <4>2, <4>3
    <3>2. new(p) = {}
      <4> SUFFICES ASSUME NEW j \in new(p) PROVE FALSE
        OBVIOUS
      <4>1. j \in 1 .. m /\ PlaceOf(n, m, d, e, n + j) = p
        BY <1>2, <1>8
      <4>2. n + j \in 1 .. n + m /\ n + j # k
        BY <1>1, <2>2, <4>1
      <4> QED BY <1>9a, <2>1, <4>1, <4>2
    <3> HIDE DEF from, new
    <3>3. all[p] = list[CHOOSE i \in {k} : TRUE]
      BY <1>1, <3>1, <3>2
    <3>4. (CHOOSE i \in {k} : TRUE) = k
      OBVIOUS
    <3> QED BY <1>1, <2>1, <2>2, <3>3, <3>4 DEF Item
  <2>3. CASE ~(k <= n)
    <3>1. PICK j \in 1 .. m : j = k - n /\ k = n + j
      <4>1. k - n \in 1 .. m /\ k = n + (k - n)
        BY <1>1, <2>1, <2>3
      <4> QED BY <4>1
    <3>2. new(p) = {j}
      <4>1. j \in new(p)
        BY <1>2, <1>8, <2>1, <3>1
      <4>2. ASSUME NEW x \in new(p) PROVE x = j
        <5>1. x \in 1 .. m /\ PlaceOf(n, m, d, e, n + x) = p
          BY <1>2, <1>8
        <5>2. n + x \in 1 .. n + m
          BY <1>1, <5>1
        <5>3. n + x = n + j
          BY <1>9a, <2>1, <3>1, <5>1, <5>2
        <5> QED BY <1>1, <5>1, <5>3
      <4> HIDE DEF new
      <4> QED BY <4>1, <4>2
    <3> HIDE DEF from, new
    <3>3. all[p] = [id |-> near[CHOOSE i \in {j} : TRUE], visited |-> FALSE]
      BY <1>1, <3>2
    <3>4. (CHOOSE i \in {j} : TRUE) = j
      OBVIOUS
    <3> QED BY <1>1, <2>1, <2>3, <3>1, <3>3, <3>4 DEF Item
  <2> QED BY <2>2, <2>3
<1>11. PICK len \in 0 .. n + m : len = MergedLength(list, near, width)
  BY <1>1, LengthIs
<1>12. Merged(target, list, near, width) = SubSeq(all, 1, len)
  BY <1>11 DEF Merged
<1> HIDE DEF all
<1>13. Merged(target, list, near, width) = [p \in 1 .. len |-> Item(list, near, at[p])]
  <2>1. SubSeq(all, 1, len) = [p \in 1 .. len |-> all[p]]
    BY <1>1, <1>11
  <2>2. \A p \in 1 .. len : all[p] = Item(list, near, at[p])
    BY <1>1, <1>10, <1>11
  <2> QED BY <1>12, <2>1, <2>2
<1>14. ASSUME NEW a \in 1 .. n + m, NEW b \in 1 .. n + m, Before(n, d, e, a, b)
       PROVE  Goes(target, list, near, a, b)
  <2>1. \A k \in 1 .. n + m : Dist(target, Item(list, near, k).id) = Value(n, d, e, k)
    <3> SUFFICES ASSUME NEW k \in 1 .. n + m
                 PROVE  Dist(target, Item(list, near, k).id) = Value(n, d, e, k)
      OBVIOUS
    <3>1. ~(k <= n) => k - n \in 1 .. m
      BY <1>1
    <3> QED BY <1>1, <1>3, <1>4, <3>1 DEF Item, Value
  <2> QED BY <1>14, <2>1 DEF Before, Goes
<1>15. \A p, q \in 1 .. n + m : p < q => Goes(target, list, near, at[p], at[q])
  BY <1>9a, <1>14
<1>16. \A k \in 1 .. n + m : \E p \in 1 .. n + m : at[p] = k
  <2>1. \A k \in 1 .. n + m : PlaceOf(n, m, d, e, k) \in 1 .. n + m
    BY <1>1, <1>5, <1>6, PlacesOrdered
  <2> QED BY <1>9a, <2>1
<1>17. n + m = Len(list) + Len(near)
  BY <1>1
<1>18. Merged(target, list, near, width)
          = [p \in 1 .. MergedLength(list, near, width) |-> Item(list, near, at[p])]
  BY <1>11, <1>13
<1>19. PICK N : N = Len(list) + Len(near) /\ N = n + m
  BY <1>17
<1>20. /\ at \in [1 .. N -> 1 .. N]
       /\ \A p, q \in 1 .. N : p < q => Goes(target, list, near, at[p], at[q])
       /\ \A k \in 1 .. N : \E p \in 1 .. N : at[p] = k
  BY <1>9a, <1>15, <1>16, <1>19
<1>21. Interleaved(target, list, near, width, at, Merged(target, list, near, width))
  BY <1>18, <1>19, <1>20 DEF Interleaved
<1> QED BY <1>21


LEMMA MergedEntries ==
  ASSUME NEW V, NEW target, MeasuredFrom(target, V),
         NEW list \in Seq(Entry(V)), NEW near \in Seq(V), NEW width \in Nat,
         NEW at, NEW merged, Interleaved(target, list, near, width, at, merged)
  PROVE  /\ merged \in Seq(Entry(V)) /\ DOMAIN merged = 1 .. Len(merged)
         /\ Len(merged) = MergedLength(list, near, width)
         /\ Len(merged) \in 0 .. Len(list) + Len(near)
         /\ \A p \in 1 .. Len(merged) : merged[p] = Item(list, near, at[p])
         /\ \A p \in 1 .. Len(list) + Len(near) : at[p] \in 1 .. Len(list) + Len(near)
         /\ \A p, q \in 1 .. Len(list) + Len(near) : at[p] = at[q] => p = q
         /\ Ascending(target, merged)
<1>1. PICK N \in Nat : N = Len(list) + Len(near)
  BY LenProperties
<1>2. PICK len \in 0 .. N : len = MergedLength(list, near, width)
  BY <1>1, LengthIs
<1>3. /\ at \in [1 .. N -> 1 .. N]
      /\ \A p, q \in 1 .. N : p < q => Goes(target, list, near, at[p], at[q])
      /\ merged = [p \in 1 .. len |-> Item(list, near, at[p])]
  BY <1>1, <1>2 DEF Interleaved
<1>4. \A k \in 1 .. N : Item(list, near, k) \in Entry(V)
  BY <1>1, ItemIs
<1>5. merged \in Seq(Entry(V)) /\ Len(merged) = len /\ DOMAIN merged = 1 .. len
  <2>1. merged \in [1 .. len -> Entry(V)]
    BY <1>2, <1>3, <1>4
  <2>2. merged \in Seq(Entry(V))
    BY <1>2, <2>1, IsASeq
  <2> QED BY <1>2, <2>1, <2>2, LenProperties
<1>6. \A p \in 1 .. len : merged[p] = Item(list, near, at[p])
  BY <1>3
<1>7. PICK d \in [1 .. N -> Nat] : \A k \in 1 .. N : d[k] = Dist(target, Item(list, near, k).id)
  <2> DEFINE d == [k \in 1 .. N |-> Dist(target, Item(list, near, k).id)]
  <2>1. \A k \in 1 .. N : Dist(target, Item(list, near, k).id) \in Nat
    BY <1>4 DEF Entry, MeasuredFrom
  <2>2. d \in [1 .. N -> Nat] /\ \A k \in 1 .. N : d[k] = Dist(target, Item(list, near, k).id)
    BY <2>1
  <2> HIDE DEF d
  <2> QED BY <2>2
<1>8. \A p, q \in 1 .. N : p < q => /\ d[at[p]] <= d[at[q]]
                                    /\ d[at[p]] = d[at[q]] => at[p] < at[q]
  <2> SUFFICES ASSUME NEW p \in 1 .. N, NEW q \in 1 .. N, p < q
               PROVE  d[at[p]] <= d[at[q]] /\ (d[at[p]] = d[at[q]] => at[p] < at[q])
    OBVIOUS
  <2>1. PICK a \in 1 .. N, b \in 1 .. N : a = at[p] /\ b = at[q]
    BY <1>3
  <2>2. Goes(target, list, near, a, b)
    BY <1>3, <2>1
  <2>3. d[a] < d[b] \/ (d[a] = d[b] /\ a < b)
    BY <1>7, <2>2 DEF Goes
  <2>4. d[a] \in Nat /\ d[b] \in Nat
    BY <1>7
  <2> QED BY <2>1, <2>3, <2>4
<1>9. \A p, q \in 1 .. N : at[p] = at[q] => p = q
  <2> SUFFICES ASSUME NEW p \in 1 .. N, NEW q \in 1 .. N, at[p] = at[q], p # q PROVE FALSE
    OBVIOUS
  <2>1. at[p] \in 1 .. N
    BY <1>3
  <2>2. p < q \/ q < p
    OBVIOUS
  <2> QED BY <1>8, <2>1, <2>2
<1>10. Ascending(target, merged)
  <2> SUFFICES ASSUME NEW p \in 1 .. len, NEW q \in 1 .. len, p < q
               PROVE  Dist(target, merged[p].id) <= Dist(target, merged[q].id)
    BY <1>5 DEF Ascending
  <2>1. p \in 1 .. N /\ q \in 1 .. N /\ at[p] \in 1 .. N /\ at[q] \in 1 .. N
    BY <1>2, <1>3
  <2>2. Dist(target, merged[p].id) = d[at[p]] /\ Dist(target, merged[q].id) = d[at[q]]
    BY <1>6, <1>7, <2>1
  <2> QED BY <1>8, <2>1, <2>2
<1> QED BY <1>1, <1>2, <1>3, <1>5, <1>6, <1>9, <1>10

(* What is lost is no nearer than what is kept.                            *)
LEMMA MergeLosesTheFarthest ==
  ASSUME NEW V, NEW target, MeasuredFrom(target, V),
         NEW list \in Seq(Entry(V)), NEW near \in Seq(V), NEW width \in Nat,
         NEW at, NEW merged, Interleaved(target, list, near, width, at, merged),
         NEW k \in 1 .. Len(list) + Len(near)
  PROVE  \/ \E p \in 1 .. Len(merged) : at[p] = k /\ merged[p] = Item(list, near, k)
         \/ /\ Len(merged) = width
            /\ \A p \in 1 .. Len(merged) :
                 Dist(target, merged[p].id) <= Dist(target, Item(list, near, k).id)
<1>1. PICK N \in Nat : N = Len(list) + Len(near)
  BY LenProperties
<1>2. /\ at \in [1 .. N -> 1 .. N]
      /\ \A p, q \in 1 .. N : p < q => Goes(target, list, near, at[p], at[q])
  BY <1>1 DEF Interleaved
<1>3. PICK p \in 1 .. N : at[p] = k
  BY <1>1 DEF Interleaved
<1>4. PICK len \in 0 .. N : /\ len = Len(merged) /\ len = MergedLength(list, near, width)
                            /\ \A q \in 1 .. len : merged[q] = Item(list, near, at[q])
  BY <1>1, MergedEntries
<1>5. CASE p <= len
  BY <1>3, <1>4, <1>5
<1>6. CASE ~(p <= len)
  <2>1. len = width
    <3>1. MergedLength(list, near, width) < Len(list) + Len(near)
            => MergedLength(list, near, width) = width
      BY LengthIs
    <3> QED BY <1>1, <1>3, <1>4, <1>6, <3>1
  <2>2. ASSUME NEW q \in 1 .. len
        PROVE  Dist(target, merged[q].id) <= Dist(target, Item(list, near, k).id)
    <3>1. q \in 1 .. N /\ q < p /\ at[q] \in 1 .. N
      BY <1>2, <1>3, <1>4, <1>6
    <3>2. Goes(target, list, near, at[q], k)
      BY <1>2, <1>3, <3>1
    <3>3. \A a \in 1 .. N : Dist(target, Item(list, near, a).id) \in Nat
      BY <1>1, ItemIs DEF Entry, MeasuredFrom
    <3>4. PICK x \in Nat, y \in Nat : /\ x = Dist(target, Item(list, near, at[q]).id)
                                      /\ y = Dist(target, Item(list, near, k).id)
      BY <1>1, <3>1, <3>3
    <3>5. x <= y
      BY <3>2, <3>4 DEF Goes
    <3> QED BY <1>4, <3>4, <3>5
  <2> QED BY <1>4, <2>1, <2>2
<1> QED BY <1>5, <1>6

(* A row of len numbers up to n that rises is 1 .. n if it is as long.     *)
Climbs(len, f) == \A p, q \in 1 .. len : p < q => f[p] < f[q]

LEMMA RisesToTheEnd ==
  ASSUME NEW n \in Nat, NEW len \in Nat, n <= len, NEW f \in [1 .. len -> 1 .. n],
         Climbs(len, f)
  PROVE  len = n /\ \A p \in 1 .. len : f[p] = p
<1>1. \A p \in 1 .. len : p <= f[p]
  <2> DEFINE Good == {k \in 0 .. len : 1 <= k => k <= f[k]}
  <2>1. 0 \in Good
    OBVIOUS
  <2>2. \A k \in 0 .. len - 1 : k \in Good => k + 1 \in Good
    <3> SUFFICES ASSUME NEW k \in 0 .. len - 1, k \in Good PROVE k + 1 <= f[k + 1]
      OBVIOUS
    <3>1. CASE k = 0
      <4>1. f[1] \in 1 .. n
        BY <3>1
      <4> QED BY <3>1, <4>1
    <3>2. CASE 1 <= k
      <4>1. k <= f[k] /\ f[k] < f[k + 1] /\ f[k] \in 1 .. n /\ f[k + 1] \in 1 .. n
        BY <3>2 DEF Climbs
      <4> QED BY <4>1
    <3> QED BY <3>1, <3>2
  <2> HIDE DEF Good
  <2>3. 0 .. len \subseteq Good
    BY <2>1, <2>2, UpTo
  <2> QED BY <2>3 DEF Good
<1>2. len = n
  <2>1. 1 <= len => len <= f[len] /\ f[len] \in 1 .. n
    BY <1>1
  <2> QED BY <2>1
<1>3. \A p \in 1 .. len : f[p] <= p
  <2> DEFINE Good == {k \in 0 .. len : k < len => f[len - k] <= len - k}
  <2>1. 0 \in Good
    <3>1. 0 < len => f[len] \in 1 .. n
      OBVIOUS
    <3> QED BY <1>2, <3>1
  <2>2. \A k \in 0 .. len - 1 : k \in Good => k + 1 \in Good
    <3> SUFFICES ASSUME NEW k \in 0 .. len - 1, k \in Good, k + 1 < len
                 PROVE  f[len - (k + 1)] <= len - (k + 1)
      OBVIOUS
    <3>1. PICK p \in 1 .. len, q \in 1 .. len : p = len - (k + 1) /\ q = len - k
      <4>1. len - (k + 1) \in 1 .. len /\ len - k \in 1 .. len
        OBVIOUS
      <4> QED BY <4>1
    <3>2. f[p] < f[q] /\ f[q] <= q /\ p = q - 1 /\ f[p] \in 1 .. n /\ f[q] \in 1 .. n
      BY <3>1 DEF Climbs
    <3> QED BY <3>1, <3>2
  <2> HIDE DEF Good
  <2>3. 0 .. len \subseteq Good
    BY <2>1, <2>2, UpTo
  <2> SUFFICES ASSUME NEW p \in 1 .. len PROVE f[p] <= p
    OBVIOUS
  <2>4. len - p \in 0 .. len /\ len - p < len /\ len - (len - p) = p
    OBVIOUS
  <2>5. len - p \in Good
    BY <2>3, <2>4
  <2> QED BY <2>4, <2>5 DEF Good
<1>4. ASSUME NEW p \in 1 .. len PROVE f[p] = p
  <2>1. f[p] \in 1 .. n /\ p <= f[p] /\ f[p] <= p
    BY <1>1, <1>3
  <2> QED BY <2>1
<1> QED BY <1>2, <1>4

(* A merge after which nothing is left to visit took nothing in.           *)
LEMMA NothingNewMerged ==
  ASSUME NEW V, NEW target, MeasuredFrom(target, V),
         NEW list \in Seq(Entry(V)), Ascending(target, list),
         NEW near \in Seq(V), InOrder(target, near),
         NEW width \in Nat, Len(list) <= width,
         Unvisited(Merged(target, list, near, width)) = {}
  PROVE  Merged(target, list, near, width) = list
<1>1. PICK at, merged : /\ Interleaved(target, list, near, width, at, merged)
                        /\ merged = Merged(target, list, near, width)
  BY MergedIs
<1>2. PICK n \in Nat, m \in Nat : n = Len(list) /\ m = Len(near)
  BY LenProperties
<1>3. /\ merged \in Seq(Entry(V)) /\ DOMAIN merged = 1 .. Len(merged)
      /\ Len(merged) = MergedLength(list, near, width)
      /\ Len(merged) \in 0 .. n + m
      /\ \A p \in 1 .. Len(merged) : merged[p] = Item(list, near, at[p])
      /\ \A p \in 1 .. n + m : at[p] \in 1 .. n + m
      /\ \A p, q \in 1 .. n + m : at[p] = at[q] => p = q
  BY <1>1, <1>2, MergedEntries
<1>4. n <= Len(merged)
  BY <1>2, <1>3, LengthIs
<1>5. PICK len \in 0 .. n + m : len = Len(merged)
  BY <1>3
<1>6. ASSUME NEW p \in 1 .. len
      PROVE  at[p] \in 1 .. n /\ merged[p] = list[at[p]]
  <2>1. p \in 1 .. n + m /\ at[p] \in 1 .. n + m /\ p \in DOMAIN merged
        /\ merged[p] = Item(list, near, at[p])
    BY <1>3, <1>5
  <2>2. merged[p].visited
    BY <1>1, <2>1 DEF Unvisited
  <2>3. at[p] <= n
    <3>1. \A k \in 1 .. n + m : ~(k <= n) => Item(list, near, k).visited = FALSE
      BY <1>2 DEF Item
    <3>2. PICK k \in 1 .. n + m : k = at[p] /\ merged[p] = Item(list, near, k)
      BY <2>1
    <3> QED BY <2>2, <3>1, <3>2
  <2> QED BY <1>2, <2>1, <2>3 DEF Item
<1>7. ASSUME NEW p \in 1 .. len, NEW q \in 1 .. len, p < q
      PROVE  at[p] < at[q]
  <2>1. PICK a \in 1 .. n, b \in 1 .. n : a = at[p] /\ b = at[q]
    BY <1>6
  <2>2. Goes(target, list, near, a, b) /\ a # b
    <3>1. p \in 1 .. n + m /\ q \in 1 .. n + m
      BY <1>5
    <3>2. \A x, y \in 1 .. Len(list) + Len(near) : x < y => Goes(target, list, near, at[x], at[y])
      BY <1>1 DEF Interleaved
    <3> QED BY <1>2, <1>3, <1>7, <2>1, <3>1, <3>2
  <2>3. PICK x \in Nat, y \in Nat : x = Dist(target, list[a].id) /\ y = Dist(target, list[b].id)
    <3>1. list[a] \in Entry(V) /\ list[b] \in Entry(V)
      BY <1>2, <2>1, ElementOfSeq
    <3> QED BY <3>1 DEF Entry, MeasuredFrom
  <2>4. x < y \/ (x = y /\ a < b)
    BY <1>2, <2>1, <2>2, <2>3 DEF Goes, Item
  <2>5. b < a => y <= x
    BY <1>2, <2>1, <2>3, LenProperties DEF Ascending
  <2> QED BY <2>1, <2>2, <2>3, <2>4, <2>5
<1>8. PICK f \in [1 .. len -> 1 .. n] : \A p \in 1 .. len : f[p] = at[p]
  <2> DEFINE f == [p \in 1 .. len |-> at[p]]
  <2>1. f \in [1 .. len -> 1 .. n] /\ \A p \in 1 .. len : f[p] = at[p]
    BY <1>6
  <2> HIDE DEF f
  <2> QED BY <2>1
<1>9. len = n /\ \A p \in 1 .. len : f[p] = p
  <2>1. n \in Nat /\ len \in Nat /\ n <= len
    BY <1>2, <1>4, <1>5
  <2>2. Climbs(len, f)
    BY <1>7, <1>8 DEF Climbs
  <2> QED BY <1>8, <2>1, <2>2, RisesToTheEnd
<1>10. \A p \in 1 .. n : merged[p] = list[p]
  BY <1>6, <1>8, <1>9
<1> QED BY <1>1, <1>2, <1>3, <1>5, <1>9, <1>10, SeqEqual

-----------------------------------------------------------------------------
(* The neighbours sorted.                                                  *)

LEMMA SortedIs ==
  ASSUME NEW target, NEW S, IsFiniteSet(S), NEW s \in Sorted(target, S)
  PROVE  /\ s \in Seq(S) /\ Len(s) = Cardinality(S) /\ Cardinality(S) \in Nat
         /\ InOrder(target, s)
         /\ IsInjective(s)
         /\ ToSet(s) = S
<1>1. PICK n \in Nat : n = Cardinality(S)
  BY FS_CardinalityType
<1>2. /\ s \in [1 .. n -> S]
      /\ \A i, j \in 1 .. n : i # j => s[i] # s[j]
      /\ \A i, j \in DOMAIN s : i < j => Dist(target, s[i]) <= Dist(target, s[j])
  BY <1>1 DEF Sorted, SetToSeqs
<1>3. s \in Seq(S) /\ Len(s) = n /\ DOMAIN s = 1 .. n
  <2>1. s \in Seq(S)
    BY <1>1, <1>2, SeqDef
  <2> QED BY <1>1, <1>2, <2>1, LenProperties
<1>4. \A x \in S : \E i \in 1 .. n : s[i] = x
  <2> SUFFICES ASSUME NEW x \in S, \A i \in 1 .. n : s[i] # x PROVE FALSE
    OBVIOUS
  <2> DEFINE Rest == S \ {x}
  <2>1. IsFiniteSet(Rest) /\ Cardinality(Rest) = n - 1
    BY <1>1, FS_RemoveElement
  <2>2. s \in [1 .. n -> Rest]
    BY <1>2
  <2>3. IsFiniteSet(1 .. n) /\ Cardinality(1 .. n) = n
    BY <1>1, FS_Interval
  <2>4. \E i, j \in 1 .. n : i # j /\ s[i] = s[j]
    <3> HIDE DEF Rest
    <3>1. Cardinality(Rest) < Cardinality(1 .. n)
      BY <1>1, <2>1, <2>3
    <3> QED BY <2>1, <2>2, <2>3, <3>1, FS_PigeonHole
  <2> QED BY <1>2, <2>4
<1>5. ToSet(s) = S
  BY <1>2, <1>3, <1>4 DEF ToSet
<1>6. IsInjective(s)
  BY <1>2, <1>3 DEF IsInjective
<1> QED BY <1>1, <1>2, <1>3, <1>5, <1>6 DEF InOrder

LEMMA SortedExists ==
  ASSUME NEW target, NEW S, IsFiniteSet(S), MeasuredFrom(target, S)
  PROVE  Sorted(target, S) # {}
<1>1. PICK n \in Nat : n = Cardinality(S)
  BY FS_CardinalityType
<1>2. PICK f : f \in Bijection(1 .. n, S)
  <2>1. ExistsBijection(1 .. n, S)
    BY <1>1, FS_CardinalityType
  <2> QED BY <2>1 DEF ExistsBijection
<1>3. /\ f \in [1 .. n -> S] /\ \A i, j \in 1 .. n : f[i] = f[j] => i = j
  BY <1>2 DEF Bijection, Injection, IsInjective
<1>4. f \in Seq(S) /\ Len(f) = n /\ DOMAIN f = 1 .. n
  <2>1. f \in Seq(S)
    BY <1>1, <1>3, SeqDef
  <2> QED BY <1>1, <1>3, <2>1, LenProperties
<1>5. Measured(target, f) /\ IsInjective(f)
  BY <1>3, <1>4 DEF Measured, MeasuredFrom, IsInjective
<1> DEFINE near == ByDistance(target, f)
<1>6. /\ near \in Seq(S) /\ Len(near) = n
      /\ \A p, q \in DOMAIN near : p < q => Dist(target, near[p]) <= Dist(target, near[q])
      /\ IsInjective(near)
  BY <1>4, <1>5, SortedList
<1> HIDE DEF near
<1>7. near \in [1 .. n -> S] /\ DOMAIN near = 1 .. n
  BY <1>6, LenProperties
<1>8. near \in SetToSeqs(S)
  BY <1>1, <1>6, <1>7 DEF SetToSeqs, IsInjective
<1> QED BY <1>6, <1>8 DEF Sorted

-----------------------------------------------------------------------------
(* The walk.                                                               *)

LEMMA NextIs ==
  ASSUME NEW V, NEW list \in Seq(Entry(V)), Unvisited(list) # {}
  PROVE  /\ NextToVisit(list) \in DOMAIN list /\ ~list[NextToVisit(list)].visited
         /\ \A j \in DOMAIN list : j < NextToVisit(list) => list[j].visited
<1>1. DOMAIN list = 1 .. Len(list) /\ Len(list) \in Nat
  BY LenProperties
<1>2. Unvisited(list) \in SUBSET Nat
  BY <1>1 DEF Unvisited
<1>3. \E i \in Unvisited(list) : \A j \in Unvisited(list) : i <= j
  BY <1>2, SmallestOf
<1>4. PICK i : /\ i = NextToVisit(list) /\ i \in Unvisited(list)
               /\ \A j \in Unvisited(list) : i <= j
  BY <1>3 DEF NextToVisit
<1>5. i \in DOMAIN list /\ ~list[i].visited
  BY <1>4 DEF Unvisited
<1>6. ASSUME NEW j \in DOMAIN list, j < i PROVE list[j].visited
  <2>1. j \notin Unvisited(list)
    BY <1>1, <1>2, <1>4, <1>6
  <2> QED BY <2>1 DEF Unvisited
<1> QED BY <1>4, <1>5, <1>6

LEMMA MarkedIs ==
  ASSUME NEW V, NEW list \in Seq(Entry(V))
  PROVE  /\ MarkNext(list) \in Seq(Entry(V))
         /\ Len(MarkNext(list)) = Len(list) /\ DOMAIN MarkNext(list) = DOMAIN list
         /\ \A i \in DOMAIN list : MarkNext(list)[i].id = list[i].id
         /\ \A i \in DOMAIN list :
              MarkNext(list)[i].visited <=>
                list[i].visited \/ (Unvisited(list) # {} /\ i = NextToVisit(list))
         /\ NextParent(list) \in V \cup {NoVertex}
         /\ Unvisited(list) # {} => NextParent(list) = list[NextToVisit(list)].id
<1>1. DOMAIN list = 1 .. Len(list) /\ Len(list) \in Nat
  BY LenProperties
<1>2. \A i \in DOMAIN list : list[i] \in Entry(V)
  BY <1>1, ElementOfSeq
<1>3. CASE Unvisited(list) = {}
  BY <1>1, <1>2, <1>3 DEF MarkNext, NextParent, Unvisited, Entry
<1>4. CASE Unvisited(list) # {}
  <2>1. PICK n \in DOMAIN list : n = NextToVisit(list)
    BY <1>4, NextIs
  <2>2. PICK e \in Entry(V) : e = [list[n] EXCEPT !.visited = TRUE] /\ e.id = list[n].id /\ e.visited
    <3>1. PICK r \in Entry(V) : r = list[n]
      BY <1>2, <2>1
    <3>2. /\ [r EXCEPT !.visited = TRUE] \in Entry(V)
          /\ [r EXCEPT !.visited = TRUE].id = r.id /\ [r EXCEPT !.visited = TRUE].visited = TRUE
      BY DEF Entry
    <3> QED BY <3>1, <3>2
  <2>3. MarkNext(list) = [list EXCEPT ![n] = e]
    BY <1>4, <2>1, <2>2 DEF MarkNext
  <2>4. /\ [list EXCEPT ![n] = e] \in Seq(Entry(V))
        /\ Len([list EXCEPT ![n] = e]) = Len(list)
        /\ \A j \in 1 .. Len(list) : [list EXCEPT ![n] = e][j] = IF j = n THEN e ELSE list[j]
    BY <1>1, <2>1, <2>2, ExceptSeq
  <2>5. PICK marked : marked = MarkNext(list)
    OBVIOUS
  <2>6. /\ marked \in Seq(Entry(V)) /\ Len(marked) = Len(list)
        /\ \A j \in 1 .. Len(list) : marked[j] = IF j = n THEN e ELSE list[j]
    BY <2>3, <2>4, <2>5
  <2>7. DOMAIN marked = DOMAIN list
    BY <1>1, <2>6, LenProperties
  <2>8. \A i \in DOMAIN list : /\ marked[i].id = list[i].id
                               /\ marked[i].visited <=> list[i].visited \/ i = n
    BY <1>1, <2>2, <2>6
  <2>9. NextParent(list) = list[n].id /\ list[n].id \in V
    BY <1>2, <1>4, <2>1 DEF NextParent, Entry
  <2> QED BY <1>4, <2>1, <2>5, <2>6, <2>7, <2>8, <2>9
<1> QED BY <1>3, <1>4

LEMMA RecordedIs ==
  ASSUME NEW V, NEW visitedSet \in Seq(V), NEW v \in V
  PROVE  /\ Recorded(visitedSet, v) \in Seq(V)
         /\ Len(visitedSet) <= MaxParents => Len(Recorded(visitedSet, v)) <= MaxParents
<1>1. MaxParents \in Nat /\ Len(visitedSet) \in Nat
  BY WalkAssumption, LenProperties DEF WalkAssumption
<1>2. Append(visitedSet, v) \in Seq(V) /\ Len(Append(visitedSet, v)) = Len(visitedSet) + 1
  BY AppendProperties
<1> QED BY <1>1, <1>2 DEF Recorded

(* U holds the start and every eligible neighbour of its members.          *)
Within(U, adj, dead, medoid, block, target) ==
  /\ IsFiniteSet(U) /\ medoid \in U
  /\ MeasuredFrom(target, U)
  /\ \A v \in U : Eligible(adj[v], block, dead) \subseteq U

WalkStates(U, target) ==
  {st \in [list : Seq(Entry(U)), parent : U \cup {NoVertex}, met : SUBSET U, visited : Seq(U)] :
     Ascending(target, st.list) /\ Len(st.visited) <= MaxParents}

LEMMA ExpandStays ==
  ASSUME NEW U, NEW adj, NEW dead, NEW medoid, NEW block, NEW target, NEW width \in Nat,
         Within(U, adj, dead, medoid, block, target),
         NEW st \in WalkStates(U, target), st.parent # NoVertex
  PROVE  Expand(adj, dead, block, target, width, st) \in WalkStates(U, target)
<1>1. /\ st.list \in Seq(Entry(U)) /\ st.parent \in U /\ st.met \subseteq U
      /\ st.visited \in Seq(U) /\ Ascending(target, st.list) /\ Len(st.visited) <= MaxParents
  BY DEF WalkStates
<1>2. MeasuredFrom(target, U)
  BY DEF Within
<1>3. PICK fresh : /\ fresh = Eligible(adj[st.parent], block, dead) \ st.met
                   /\ fresh \subseteq U /\ IsFiniteSet(fresh) /\ MeasuredFrom(target, fresh)
  <2> DEFINE fresh == Eligible(adj[st.parent], block, dead) \ st.met
  <2>1. fresh \subseteq U
    BY <1>1 DEF Within
  <2>2. IsFiniteSet(fresh)
    BY <2>1, FS_Subset DEF Within
  <2> HIDE DEF fresh
  <2>3. MeasuredFrom(target, fresh)
    BY <1>2, <2>1 DEF MeasuredFrom
  <2> QED BY <2>1, <2>2, <2>3 DEF fresh
<1>4. PICK near : near = CHOOSE s \in Sorted(target, fresh) : TRUE
  OBVIOUS
<1>5. near \in Seq(U) /\ InOrder(target, near)
  <2>1. near \in Sorted(target, fresh)
    BY <1>3, <1>4, SortedExists
  <2>2. near \in Seq(fresh) /\ InOrder(target, near)
    BY <1>3, <2>1, SortedIs
  <2> QED BY <1>3, <2>2, SeqMonotonic
<1>6. PICK list : list = Merged(target, st.list, near, width)
  OBVIOUS
<1>7. list \in Seq(Entry(U)) /\ Ascending(target, list)
  <2>1. \E at : Interleaved(target, st.list, near, width, at, list)
    BY <1>1, <1>2, <1>5, <1>6, MergedIs
  <2> QED BY <1>1, <1>2, <1>5, <2>1, MergedEntries
<1>8. MarkNext(list) \in Seq(Entry(U)) /\ NextParent(list) \in U \cup {NoVertex}
  BY <1>7, MarkedIs
<1>9. Ascending(target, MarkNext(list))
  <2>1. /\ DOMAIN MarkNext(list) = DOMAIN list
        /\ \A i \in DOMAIN list : MarkNext(list)[i].id = list[i].id
    BY <1>7, MarkedIs
  <2> QED BY <1>7, <2>1 DEF Ascending
<1>10. /\ Recorded(st.visited, st.parent) \in Seq(U)
       /\ Len(Recorded(st.visited, st.parent)) <= MaxParents
  BY <1>1, RecordedIs
<1>11. Expand(adj, dead, block, target, width, st)
         = [list    |-> MarkNext(list),
            parent  |-> NextParent(list),
            met     |-> st.met \cup fresh,
            visited |-> Recorded(st.visited, st.parent)]
  BY <1>3, <1>4, <1>6 DEF Expand
<1> QED BY <1>1, <1>3, <1>8, <1>9, <1>10, <1>11 DEF WalkStates

LEMMA StartedIn ==
  ASSUME NEW U, NEW medoid \in U, NEW target
  PROVE  Started(medoid) \in WalkStates(U, target)
<1>1. PICK e \in Entry(U) : e = [id |-> medoid, visited |-> TRUE]
  BY DEF Entry
<1>2. <<e>> \in Seq(Entry(U)) /\ DOMAIN <<e>> = {1}
  OBVIOUS
<1>3. Ascending(target, <<e>>)
  BY <1>2 DEF Ascending
<1>4. <<>> \in Seq(U) /\ Len(<<>>) = 0
  BY EmptySeq
<1>5. Started(medoid) = [list |-> <<e>>, parent |-> medoid, met |-> {}, visited |-> <<>>]
  BY <1>1 DEF Started, StartList
<1>6. 0 <= MaxParents
  BY WalkAssumption DEF WalkAssumption
<1> QED BY <1>2, <1>3, <1>4, <1>5, <1>6 DEF WalkStates

(* g is the walk, step by step.                                            *)
IsWalk(g, adj, dead, medoid, block, target, width) ==
  g = [n \in 0 .. Iterations(width) |->
         IF n = 0 THEN Started(medoid)
         ELSE Advance(adj, dead, block, target, width, g[n - 1])]

RunOf(adj, dead, medoid, block, target, width) ==
  CHOOSE g : IsWalk(g, adj, dead, medoid, block, target, width)

(* g runs over states of S, and its last one is what the walk returns.     *)
RunsIn(S, g, adj, dead, medoid, block, target, width) ==
  /\ g[0] = Started(medoid)
  /\ \A n \in 1 .. Iterations(width) : g[n] = Advance(adj, dead, block, target, width, g[n - 1])
  /\ \A n \in 0 .. Iterations(width) : g[n] \in S
  /\ Walk(adj, dead, medoid, block, target, width) = g[Iterations(width)]

LEMMA WalkRuns ==
  ASSUME NEW U, NEW adj, NEW dead, NEW medoid, NEW block, NEW target, NEW width \in Nat,
         Within(U, adj, dead, medoid, block, target)
  PROVE  RunsIn(WalkStates(U, target), RunOf(adj, dead, medoid, block, target, width),
                adj, dead, medoid, block, target, width)
<1> DEFINE N == Iterations(width)
           S == WalkStates(U, target)
           step == [n \in 1 .. N |-> [s \in S |-> Advance(adj, dead, block, target, width, s)]]
<1>1. N \in Nat /\ Started(medoid) \in S
  BY StartedIn DEF Iterations, Within
<1>2. \A s \in S : Advance(adj, dead, block, target, width, s) \in S
  BY ExpandStays DEF Advance
<1>3. PICK f : f \in [0 .. N -> S] /\ StepsFrom(Started(medoid), step, f, N, S)
  <2> PICK T : T = S
    OBVIOUS
  <2>1. step \in [1 .. N -> [T -> T]] /\ N \in Nat /\ Started(medoid) \in T
    BY <1>1, <1>2
  <2> HIDE DEF step, N, S
  <2>2. \E f : StepsFrom(Started(medoid), step, f, N, T)
    BY <2>1, StepByStep
  <2> QED BY <2>2 DEF StepsFrom
<1>4. \A n \in 1 .. N : f[n] = Advance(adj, dead, block, target, width, f[n - 1])
  <2> SUFFICES ASSUME NEW n \in 1 .. N
               PROVE  f[n] = Advance(adj, dead, block, target, width, f[n - 1])
    OBVIOUS
  <2>1. f[n - 1] \in S
    BY <1>1, <1>3
  <2>2. f[n] = step[n][f[n - 1]]
    BY <1>3 DEF StepsFrom
  <2> QED BY <2>1, <2>2
<1>5. IsWalk(f, adj, dead, medoid, block, target, width)
  <2>1. f[0] = Started(medoid) /\ DOMAIN f = 0 .. N /\ f = [n \in 0 .. N |-> f[n]]
    BY <1>3 DEF StepsFrom
  <2>2. \A n \in 0 .. N : f[n] = IF n = 0 THEN Started(medoid)
                                 ELSE Advance(adj, dead, block, target, width, f[n - 1])
    <3>1. \A n \in 0 .. N : n = 0 \/ n \in 1 .. N
      BY <1>1
    <3> QED BY <1>4, <2>1, <3>1
  <2> QED BY <2>1, <2>2 DEF IsWalk
<1> DEFINE g == RunOf(adj, dead, medoid, block, target, width)
<1>6. IsWalk(g, adj, dead, medoid, block, target, width)
  BY <1>5 DEF RunOf
<1>7. Walk(adj, dead, medoid, block, target, width) = g[N]
  BY DEF Walk, RunOf, IsWalk
<1> HIDE DEF g
<1>8. g[0] = Started(medoid)
      /\ \A n \in 1 .. N : g[n] = Advance(adj, dead, block, target, width, g[n - 1])
  BY <1>1, <1>6 DEF IsWalk
<1> HIDE DEF step
<1> DEFINE Good == {n \in 0 .. N : g[n] \in S}
<1>9. 0 \in Good
  BY <1>1, <1>8
<1>10. ASSUME NEW n \in 0 .. N - 1, n \in Good PROVE n + 1 \in Good
  <2> HIDE DEF S
  <2>1. n + 1 \in 1 .. N /\ (n + 1) - 1 = n /\ g[n] \in S
    BY <1>1, <1>10
  <2>2. g[n + 1] = Advance(adj, dead, block, target, width, g[n])
    BY <1>8, <2>1
  <2> QED BY <1>1, <1>2, <2>1, <2>2
<1> HIDE DEF Good
<1>11. 0 .. N \subseteq Good
  BY <1>1, <1>9, <1>10, UpTo
<1>12. \A n \in 0 .. N : g[n] \in S
  BY <1>11 DEF Good
<1> HIDE DEF S, N
<1>13. RunsIn(S, g, adj, dead, medoid, block, target, width)
  BY <1>7, <1>8, <1>12 DEF RunsIn, N
<1> QED BY <1>13 DEF g, S

(* The walk runs over vertices of U only.                                  *)
LEMMA WalkStays ==
  ASSUME NEW U, NEW adj, NEW dead, NEW medoid, NEW block, NEW target, NEW width \in Nat,
         Within(U, adj, dead, medoid, block, target)
  PROVE  Walk(adj, dead, medoid, block, target, width) \in WalkStates(U, target)
<1>1. Iterations(width) \in 0 .. Iterations(width)
  BY DEF Iterations
<1>2. PICK g, S : RunsIn(S, g, adj, dead, medoid, block, target, width) /\ S = WalkStates(U, target)
  BY WalkRuns
<1> QED BY <1>1, <1>2 DEF RunsIn
=============================================================================
