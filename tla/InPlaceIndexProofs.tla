------------------------- MODULE InPlaceIndexProofs -------------------------
(***************************************************************************)
(* Theorems about InPlaceIndex, for any graph, batch size, capacity and    *)
(* workload.  ScratchInv is about the threads that append, on their own    *)
(* (AppendScratch); HostInv and StoreInv are about the host thread and     *)
(* hold whatever the kernels write into the lists; GraphInv and AnswersInv *)
(* are about the lists, and rest on what walks, prunes and the scratch are *)
(* proved to do.                                                           *)
(***************************************************************************)
EXTENDS InPlaceIndex, RobustPruneProofs, GreedyWalkProofs

-----------------------------------------------------------------------------
(* The append scratch and the dirty list.                                  *)

(* What the threads that fill at v have yet to give back, one element for  *)
(* each: as long as there is any the count stands that far above P.        *)
Owed(v) == UNION {{t} \X (1 .. Overflow(t)) : t \in Filling(v)}

CountsAdd(v) ==
  /\ IsFiniteSet(Owed(v))
  /\ addScratchCount[v] <= P + Cardinality(Owed(v))
  /\ Owed(v) # {} => addScratchCount[v] = P + Cardinality(Owed(v))

(* Places are granted once, in order, and a place below the count is       *)
(* written unless the thread it was granted to is still filling.           *)
PlacesGranted(v) ==
  /\ \A t, u \in Filling(v) : t # u => Granted(t) \cap Granted(u) = {}
  /\ \A t \in Filling(v) : \A i \in Granted(t) : i < addScratchCount[v]
  /\ \A i \in 0 .. P - 1 :
       addScratch[v][i] # Stale <=>
         i < addScratchCount[v] /\ \A t \in Filling(v) : i \notin Granted(t)

PlacesInv == \A v \in Slots : CountsAdd(v) /\ PlacesGranted(v)

(* The list holds the marked vertices, each once; a vertex with additions  *)
(* is marked, or the thread that added is about to see to it.              *)
Listed == {dirtyList[i] : i \in DOMAIN dirtyList}

ListInv ==
  /\ \A i, j \in DOMAIN dirtyList : dirtyList[i] = dirtyList[j] => i = j
  /\ Listed = dirtyMark
  /\ Len(dirtyList) = Cardinality(dirtyMark)
  /\ \A v \in Slots : addScratchCount[v] > 0 =>
       v \in dirtyMark \/ \E t \in Threads : appendPc[t] # "next" /\ At(t) = v

ScratchInv == ScratchTypeOK /\ PlacesInv /\ ListInv

-----------------------------------------------------------------------------
(* A run of k pairs, counted.                                              *)

LEMMA RunSize ==
  ASSUME NEW t, NEW k \in Nat
  PROVE  IsFiniteSet({t} \X (1 .. k)) /\ Cardinality({t} \X (1 .. k)) = k
<1>1. IsFiniteSet({t}) /\ Cardinality({t}) = 1
  BY FS_Singleton
<1>2. IsFiniteSet(1 .. k) /\ Cardinality(1 .. k) = k
  BY FS_Interval
<1>3. /\ IsFiniteSet({t} \X (1 .. k))
      /\ Cardinality({t} \X (1 .. k)) = Cardinality({t}) * Cardinality(1 .. k)
  BY <1>1, <1>2, FS_Product
<1> QED BY <1>1, <1>2, <1>3

LEMMA AddRun ==
  ASSUME NEW S, IsFiniteSet(S), NEW t, NEW k \in Nat, S \cap ({t} \X (1 .. k)) = {}
  PROVE  /\ IsFiniteSet(S \cup ({t} \X (1 .. k)))
         /\ Cardinality(S \cup ({t} \X (1 .. k))) = Cardinality(S) + k
<1> DEFINE T == {t} \X (1 .. k)
<1>1. IsFiniteSet(T) /\ Cardinality(T) = k
  BY RunSize
<1>2. S \cap T = {}
  OBVIOUS
<1> HIDE DEF T
<1>3. /\ IsFiniteSet(S \cup T)
      /\ Cardinality(S \cup T) = Cardinality(S) + Cardinality(T) - Cardinality(S \cap T)
  BY <1>1, FS_Union
<1>4. Cardinality(S \cap T) = 0 /\ Cardinality(S) \in Nat
  BY <1>2, FS_EmptySet, FS_CardinalityType
<1>5. IsFiniteSet(S \cup T) /\ Cardinality(S \cup T) = Cardinality(S) + k
  BY <1>1, <1>3, <1>4
<1> QED BY <1>5 DEF T

LEMMA DropRun ==
  ASSUME NEW S, IsFiniteSet(S), NEW t, NEW k \in Nat, {t} \X (1 .. k) \subseteq S
  PROVE  /\ IsFiniteSet(S \ ({t} \X (1 .. k)))
         /\ Cardinality(S \ ({t} \X (1 .. k))) = Cardinality(S) - k
<1> DEFINE T == {t} \X (1 .. k)
<1>1. IsFiniteSet(T) /\ Cardinality(T) = k
  BY RunSize
<1>2. S \cap T = T
  OBVIOUS
<1> HIDE DEF T
<1>3. IsFiniteSet(S \ T) /\ Cardinality(S \ T) = Cardinality(S) - Cardinality(S \cap T)
  BY FS_Difference
<1>4. IsFiniteSet(S \ T) /\ Cardinality(S \ T) = Cardinality(S) - k
  BY <1>1, <1>2, <1>3
<1> QED BY <1>4 DEF T

-----------------------------------------------------------------------------
(* The types.                                                              *)

LEMMA HeadRequest ==
  ASSUME ScratchTypeOK, NEW t \in Threads, work[t] # <<>>
  PROVE  /\ Head(work[t]) \in Request /\ At(t) \in Slots /\ Adds(t) \in Seq(Slots)
         /\ Tail(work[t]) \in Seq(Request)
<1>1. work[t] \in Seq(Request)
  BY DEF ScratchTypeOK
<1>2. Head(work[t]) \in Request /\ Tail(work[t]) \in Seq(Request)
  BY <1>1
<1> QED BY <1>2 DEF Request, At, Adds

LEMMA OverflowType ==
  ASSUME ScratchTypeOK, NEW t \in Threads, appendPc[t] = "fill"
  PROVE  Overflow(t) \in Nat /\ Len(Adds(t)) \in Nat /\ base[t] \in Nat
<1>1. Len(Adds(t)) \in Nat /\ base[t] \in Nat
  BY HeadRequest DEF ScratchTypeOK
<1> QED BY <1>1, ScratchAssumption DEF Overflow, ScratchAssumption

-----------------------------------------------------------------------------
(* The places.  A vertex at which nobody starts or stops filling keeps its *)
(* part of the invariant.                                                  *)

LEMMA OtherPlaces ==
  ASSUME NEW v \in Slots, CountsAdd(v), PlacesGranted(v),
         Filling(v)' = Filling(v),
         \A u \in Filling(v) : Granted(u)' = Granted(u) /\ Overflow(u)' = Overflow(u),
         addScratchCount'[v] = addScratchCount[v], addScratch'[v] = addScratch[v]
  PROVE  CountsAdd(v)' /\ PlacesGranted(v)'
<1>1. Owed(v)' = Owed(v)
  BY DEF Owed
<1>2. CountsAdd(v)'
  BY <1>1 DEF CountsAdd
<1>3. PlacesGranted(v)'
  BY DEF PlacesGranted
<1> QED BY <1>2, <1>3

(* A run that starts takes the places from the count on, and owes what     *)
(* lies past P.                                                            *)
LEMMA ReserveKeepsPlaces ==
  ASSUME ScratchTypeOK, PlacesInv, NEW t \in Threads, Reserve(t)
  PROVE  PlacesInv'
<1>1. appendPc[t] = "next" /\ work[t] # <<>> /\ Adds(t) # <<>>
  BY DEF Reserve
<1>2. At(t) \in Slots /\ Len(Adds(t)) \in Nat /\ Len(Adds(t)) > 0
      /\ addScratchCount[At(t)] \in Nat
  BY <1>1, HeadRequest DEF ScratchTypeOK
<1> PICK w \in Slots, c \in Nat, n \in Nat :
         w = At(t) /\ c = addScratchCount[w] /\ n = Len(Adds(t)) /\ n > 0
  BY <1>2
<1> DEFINE k == IF c + n <= P THEN 0 ELSE IF c <= P THEN c + n - P ELSE n
<1>3. /\ work' = work /\ addScratch' = addScratch
      /\ appendPc' = [appendPc EXCEPT ![t] = "fill"]
      /\ base' = [base EXCEPT ![t] = c]
      /\ addScratchCount' = [addScratchCount EXCEPT ![w] = c + n]
  BY DEF Reserve, Goto
<1>4. /\ appendPc'[t] = "fill" /\ base'[t] = c
      /\ \A u \in Threads : u # t => appendPc'[u] = appendPc[u] /\ base'[u] = base[u]
      /\ addScratchCount'[w] = c + n
      /\ \A v \in Slots : v # w => addScratchCount'[v] = addScratchCount[v]
  BY <1>3 DEF ScratchTypeOK
<1>5. \A u : At(u)' = At(u) /\ Adds(u)' = Adds(u)
  BY <1>3 DEF At, Adds
<1>6. \A u \in Threads : u # t => Granted(u)' = Granted(u) /\ Overflow(u)' = Overflow(u)
  BY <1>4, <1>5 DEF Granted, Overflow
<1>7. /\ Granted(t)' = {i \in 0 .. P - 1 : c <= i /\ i < c + n}
      /\ Overflow(t)' = k
  BY <1>4, <1>5 DEF Granted, Overflow
<1>8. /\ \A v \in Slots : t \notin Filling(v)
      /\ \A v \in Slots : Filling(v)' = IF v = w THEN Filling(v) \cup {t} ELSE Filling(v)
  BY <1>1, <1>3, <1>4, <1>5 DEF Filling
<1>9. ASSUME NEW v \in Slots, v # w
      PROVE  CountsAdd(v)' /\ PlacesGranted(v)'
  <2>1. Filling(v)' = Filling(v)
    BY <1>8, <1>9
  <2>2. \A u \in Filling(v) : Granted(u)' = Granted(u) /\ Overflow(u)' = Overflow(u)
    BY <1>6, <1>8 DEF Filling
  <2>3. addScratchCount'[v] = addScratchCount[v] /\ addScratch'[v] = addScratch[v]
    BY <1>3, <1>4, <1>9
  <2> QED BY <2>1, <2>2, <2>3, OtherPlaces DEF PlacesInv
<1>10. CountsAdd(w)'
  <2>1. k \in Nat
    BY ScratchAssumption DEF ScratchAssumption
  <2>2. IsFiniteSet(Owed(w)) /\ Cardinality(Owed(w)) \in Nat
    BY FS_CardinalityType DEF PlacesInv, CountsAdd
  <2> HIDE DEF k
  <2>3. Owed(w)' = Owed(w) \cup ({t} \X (1 .. k))
    <3>1. \A u \in Filling(w) : Overflow(u)' = Overflow(u)
      BY <1>6, <1>8 DEF Filling
    <3>2. Filling(w)' = Filling(w) \cup {t} /\ Overflow(t)' = k
      BY <1>7, <1>8
    <3> QED BY <3>1, <3>2 DEF Owed
  <2>4. Owed(w) \cap ({t} \X (1 .. k)) = {}
    BY <1>8 DEF Owed
  <2>5. /\ IsFiniteSet(Owed(w)')
        /\ Cardinality(Owed(w)') = Cardinality(Owed(w)) + k
    <3>1. /\ IsFiniteSet(Owed(w) \cup ({t} \X (1 .. k)))
          /\ Cardinality(Owed(w) \cup ({t} \X (1 .. k))) = Cardinality(Owed(w)) + k
      BY <2>1, <2>2, <2>4, AddRun
    <3> QED BY <2>3, <3>1
  <2>6. Owed(w) = {} => Cardinality(Owed(w)) = 0
    BY FS_EmptySet
  <2>7. Owed(w) # {} => Cardinality(Owed(w)) > 0
    BY <2>2, FS_EmptySet
  <2>8. Owed(w)' # {} => Owed(w) # {} \/ k > 0
    BY <2>1, <2>3
  <2>9. /\ c <= P + Cardinality(Owed(w))
        /\ Owed(w) # {} => c = P + Cardinality(Owed(w))
    BY DEF PlacesInv, CountsAdd
  <2>10. /\ c + n <= P + (Cardinality(Owed(w)) + k)
         /\ Owed(w)' # {} => c + n = P + (Cardinality(Owed(w)) + k)
    BY <2>1, <2>2, <2>6, <2>7, <2>8, <2>9, ScratchAssumption, SMTT(30)
       DEF k, ScratchAssumption
  <2> QED BY <1>4, <2>5, <2>10 DEF CountsAdd
<1>11. PlacesGranted(w)'
  <2> DEFINE G == {i \in 0 .. P - 1 : c <= i /\ i < c + n}
  <2>1. PlacesGranted(w)
    BY DEF PlacesInv
  <2>2. /\ Filling(w)' = Filling(w) \cup {t} /\ t \notin Filling(w) /\ Granted(t)' = G
        /\ \A u \in Filling(w) : Granted(u)' = Granted(u)
    BY <1>6, <1>7, <1>8 DEF Filling
  <2>3. \A u \in Filling(w) : \A i \in Granted(u) : i < c /\ i \in 0 .. P - 1
    BY <2>1 DEF PlacesGranted, Granted
  <2>4. \A u, x \in Filling(w)' : u # x => Granted(u)' \cap Granted(x)' = {}
    <3>1. \A u \in Filling(w) : Granted(u) \cap G = {}
      BY <2>3
    <3> QED BY <2>1, <2>2, <3>1 DEF PlacesGranted
  <2>5. \A u \in Filling(w)' : \A i \in Granted(u)' : i < addScratchCount'[w]
    BY <1>4, <2>2, <2>3
  <2>6. ASSUME NEW i \in 0 .. P - 1
        PROVE  addScratch'[w][i] # Stale <=>
                 i < addScratchCount'[w] /\ \A u \in Filling(w)' : i \notin Granted(u)'
    <3>1. addScratch[w][i] # Stale <=> i < c /\ \A u \in Filling(w) : i \notin Granted(u)
      BY <2>1 DEF PlacesGranted
    <3>2. (\A u \in Filling(w)' : i \notin Granted(u)') <=>
            i \notin G /\ \A u \in Filling(w) : i \notin Granted(u)
      BY <2>2
    <3>3. i < c + n /\ i \notin G <=> i < c
      OBVIOUS
    <3> QED BY <1>3, <1>4, <3>1, <3>2, <3>3
  <2> QED BY <2>4, <2>5, <2>6 DEF PlacesGranted
<1> QED BY <1>9, <1>10, <1>11 DEF PlacesInv

(* What a thread owes is part of what all owe, so the count can pay it.    *)
LEMMA FillPays ==
  ASSUME ScratchTypeOK, PlacesInv, NEW t \in Threads, appendPc[t] = "fill"
  PROVE  /\ {t} \X (1 .. Overflow(t)) \subseteq Owed(At(t))
         /\ Overflow(t) > 0 => addScratchCount[At(t)] - Overflow(t) >= P
         /\ addScratchCount[At(t)] - Overflow(t) \in Nat
<1>1. /\ At(t) \in Slots /\ Overflow(t) \in Nat /\ addScratchCount[At(t)] \in Nat
      /\ t \in Filling(At(t))
  BY HeadRequest, OverflowType DEF ScratchTypeOK, Filling
<1> PICK w \in Slots, c \in Nat, k \in Nat :
         w = At(t) /\ c = addScratchCount[w] /\ k = Overflow(t)
  BY <1>1
<1>2. {t} \X (1 .. k) \subseteq Owed(w)
  BY <1>1 DEF Owed
<1>3. /\ IsFiniteSet(Owed(w)) /\ Cardinality(Owed(w)) \in Nat
      /\ Owed(w) # {} => c = P + Cardinality(Owed(w))
  BY FS_CardinalityType DEF PlacesInv, CountsAdd
<1>4. Cardinality(Owed(w)) >= k
  <2>1. Cardinality({t} \X (1 .. k)) <= Cardinality(Owed(w))
    BY <1>2, <1>3, FS_Subset
  <2> QED BY <2>1, RunSize
<1>5. k > 0 => c - k >= P
  <2>1. k > 0 => <<t, 1>> \in {t} \X (1 .. k)
    OBVIOUS
  <2>2. k > 0 => Owed(w) # {}
    BY <1>2, <2>1
  <2> QED BY <1>3, <1>4, <2>2, ScratchAssumption DEF ScratchAssumption
<1>6. c - k \in Nat
  BY <1>5, ScratchAssumption DEF ScratchAssumption
<1> QED BY <1>2, <1>5, <1>6

(* A run that ends writes what it was granted, and pays what it owes: the  *)
(* count stays at P at least if there is anything to pay.                  *)
LEMMA FillKeepsPlaces ==
  ASSUME ScratchTypeOK, PlacesInv, NEW t \in Threads, Fill(t)
  PROVE  PlacesInv'
<1>1. appendPc[t] = "fill" /\ work[t] # <<>>
  BY DEF Fill, Goto, ScratchTypeOK
<1>2. /\ At(t) \in Slots /\ Overflow(t) \in Nat /\ addScratchCount[At(t)] \in Nat
      /\ Adds(t) \in Seq(Slots) /\ base[t] \in Nat
  BY <1>1, HeadRequest, OverflowType DEF ScratchTypeOK
<1> PICK w \in Slots, c \in Nat, k \in Nat, G \in SUBSET (0 .. P - 1) :
         w = At(t) /\ c = addScratchCount[w] /\ k = Overflow(t) /\ G = Granted(t)
  BY <1>2 DEF Granted
<1>3. /\ work' = work
      /\ appendPc' = [appendPc EXCEPT ![t] = "mark"]
      /\ base' = [base EXCEPT ![t] = 0]
      /\ addScratchCount' = [addScratchCount EXCEPT ![w] = c - k]
      /\ addScratch' = [addScratch EXCEPT ![w] =
           [i \in 0 .. P - 1 |-> IF i \in G THEN Adds(t)[i - base[t] + 1] ELSE @[i]]]
  BY DEF Fill, Goto
<1>4. /\ appendPc'[t] = "mark"
      /\ \A u \in Threads : u # t => appendPc'[u] = appendPc[u] /\ base'[u] = base[u]
      /\ addScratchCount'[w] = c - k
      /\ \A v \in Slots : v # w =>
           addScratchCount'[v] = addScratchCount[v] /\ addScratch'[v] = addScratch[v]
      /\ addScratch'[w] =
           [i \in 0 .. P - 1 |-> IF i \in G THEN Adds(t)[i - base[t] + 1] ELSE addScratch[w][i]]
  BY <1>3 DEF ScratchTypeOK
<1>5. \A u : At(u)' = At(u) /\ Adds(u)' = Adds(u)
  BY <1>3 DEF At, Adds
<1>6. \A u \in Threads : u # t => Granted(u)' = Granted(u) /\ Overflow(u)' = Overflow(u)
  BY <1>4, <1>5 DEF Granted, Overflow
<1>7. /\ t \in Filling(w)
      /\ \A v \in Slots : v # w => t \notin Filling(v)
      /\ \A v \in Slots : Filling(v)' = Filling(v) \ {t}
  BY <1>1, <1>4, <1>5 DEF Filling
<1>8. ASSUME NEW v \in Slots, v # w
      PROVE  CountsAdd(v)' /\ PlacesGranted(v)'
  <2>1. Filling(v)' = Filling(v)
    BY <1>7, <1>8
  <2>2. \A u \in Filling(v) : Granted(u)' = Granted(u) /\ Overflow(u)' = Overflow(u)
    BY <1>6, <1>7, <1>8 DEF Filling
  <2>3. addScratchCount'[v] = addScratchCount[v] /\ addScratch'[v] = addScratch[v]
    BY <1>4, <1>8
  <2> QED BY <2>1, <2>2, <2>3, OtherPlaces DEF PlacesInv
<1>9. /\ IsFiniteSet(Owed(w)) /\ Cardinality(Owed(w)) \in Nat
      /\ c <= P + Cardinality(Owed(w))
      /\ Owed(w) # {} => c = P + Cardinality(Owed(w))
  BY FS_CardinalityType DEF PlacesInv, CountsAdd
<1>10. {t} \X (1 .. k) \subseteq Owed(w)
  BY <1>1, FillPays
<1>11. /\ IsFiniteSet(Owed(w) \ ({t} \X (1 .. k)))
       /\ Cardinality(Owed(w) \ ({t} \X (1 .. k))) = Cardinality(Owed(w)) - k
  BY <1>9, <1>10, DropRun
<1>12. Owed(w)' = Owed(w) \ ({t} \X (1 .. k))
  <2>1. Filling(w)' = Filling(w) \ {t} /\ \A u \in Filling(w) \ {t} : Overflow(u)' = Overflow(u)
    BY <1>6, <1>7 DEF Filling
  <2>2. Owed(w)' = UNION {{u} \X (1 .. Overflow(u)) : u \in Filling(w) \ {t}}
    BY <2>1 DEF Owed
  <2> QED BY <1>7, <2>2 DEF Owed
<1>13. k > 0 => c - k >= P
  BY <1>1, FillPays
<1>14. CountsAdd(w)'
  <2>1. IsFiniteSet(Owed(w)') /\ Cardinality(Owed(w)') = Cardinality(Owed(w)) - k
    BY <1>11, <1>12
  <2>2. Owed(w)' # {} => Owed(w) # {}
    BY <1>12
  <2>3. /\ c - k <= P + (Cardinality(Owed(w)) - k)
        /\ Owed(w) # {} => c - k = P + (Cardinality(Owed(w)) - k)
    BY <1>9, ScratchAssumption DEF ScratchAssumption
  <2> QED BY <1>4, <2>1, <2>2, <2>3 DEF CountsAdd
<1>15. PlacesGranted(w)'
  <2>1. PlacesGranted(w)
    BY DEF PlacesInv
  <2>2. /\ Filling(w)' = Filling(w) \ {t}
        /\ \A u \in Filling(w) \ {t} : Granted(u)' = Granted(u) /\ Granted(u) \cap G = {}
    BY <1>6, <1>7, <2>1 DEF Filling, PlacesGranted
  <2>3. \A i \in 0 .. P - 1 : i < c <=> i < c - k
    BY <1>13, ScratchAssumption DEF ScratchAssumption
  <2>4. \A u \in Filling(w) : \A i \in Granted(u) : i \in 0 .. P - 1 /\ i < c
    BY <2>1 DEF PlacesGranted, Granted
  <2>5. \A u, x \in Filling(w)' : u # x => Granted(u)' \cap Granted(x)' = {}
    BY <2>1, <2>2 DEF PlacesGranted
  <2>6. \A u \in Filling(w)' : \A i \in Granted(u)' : i < addScratchCount'[w]
    <3>1. ASSUME NEW u \in Filling(w) \ {t}, NEW i \in Granted(u)
          PROVE  i < c - k
      BY <2>3, <2>4
    <3> QED BY <1>4, <2>2, <3>1
  <2>7. ASSUME NEW i \in 0 .. P - 1
        PROVE  addScratch'[w][i] # Stale <=>
                 i < addScratchCount'[w] /\ \A u \in Filling(w)' : i \notin Granted(u)'
    <3>1. addScratch[w][i] # Stale <=> i < c /\ \A u \in Filling(w) : i \notin Granted(u)
      BY <2>1 DEF PlacesGranted
    <3>2. CASE i \in G
      <4>1. addScratch'[w][i] = Adds(t)[i - base[t] + 1]
        BY <1>4, <3>2
      <4>2. base[t] <= i /\ i < base[t] + Len(Adds(t))
        BY <3>2 DEF Granted
      <4>3. i - base[t] + 1 \in 1 .. Len(Adds(t))
        BY <1>2, <4>2
      <4>4. addScratch'[w][i] \in Slots
        BY <1>2, <4>1, <4>3
      <4>5. i < c - k
        BY <1>7, <2>3, <2>4, <3>2
      <4>6. \A u \in Filling(w)' : i \notin Granted(u)'
        BY <2>2, <3>2
      <4> QED BY <1>4, <4>4, <4>5, <4>6, ScratchAssumption DEF ScratchAssumption
    <3>3. CASE i \notin G
      <4>1. addScratch'[w][i] = addScratch[w][i]
        BY <1>4, <3>3
      <4>2. (\A u \in Filling(w) : i \notin Granted(u)) <=>
              \A u \in Filling(w)' : i \notin Granted(u)'
        BY <1>7, <2>2, <3>3
      <4> QED BY <1>4, <2>3, <3>1, <4>1, <4>2
    <3> QED BY <3>2, <3>3
  <2> QED BY <2>5, <2>6, <2>7 DEF PlacesGranted
<1> QED BY <1>8, <1>14, <1>15 DEF PlacesInv

(* Marking a vertex, and launching a kernel, leave the places alone.       *)
Marks(t) == Enlist(t) \/ AlreadyMarked(t)

LEMMA MarkKeepsPlaces ==
  ASSUME ScratchTypeOK, PlacesInv, NEW t \in Threads, Marks(t)
  PROVE  PlacesInv'
<1>1. /\ appendPc[t] # "fill" /\ appendPc' = [appendPc EXCEPT ![t] = "next"]
      /\ work' = [work EXCEPT ![t] = Tail(@)]
      /\ UNCHANGED <<addScratch, addScratchCount, base>>
  BY DEF Marks, Enlist, AlreadyMarked, ReadyToMark, Done
<1>2. \A u \in Threads : u # t => appendPc'[u] = appendPc[u] /\ work'[u] = work[u]
  BY <1>1 DEF ScratchTypeOK
<1>3. appendPc'[t] # "fill"
  BY <1>1 DEF ScratchTypeOK
<1>4. \A u \in Threads : u # t => /\ At(u)' = At(u) /\ Granted(u)' = Granted(u)
                                /\ Overflow(u)' = Overflow(u)
  BY <1>1, <1>2 DEF At, Adds, Granted, Overflow
<1>5. \A v \in Slots : Filling(v)' = Filling(v) /\ t \notin Filling(v)
  BY <1>1, <1>2, <1>3, <1>4 DEF Filling
<1>6. ASSUME NEW v \in Slots
      PROVE  CountsAdd(v)' /\ PlacesGranted(v)'
  <2>1. \A u \in Filling(v) : Granted(u)' = Granted(u) /\ Overflow(u)' = Overflow(u)
    BY <1>4, <1>5 DEF Filling
  <2> QED BY <1>1, <1>5, <2>1, OtherPlaces DEF PlacesInv
<1> QED BY <1>6 DEF PlacesInv

LEMMA NobodyFills ==
  ASSUME AllReturned, NEW v \in Slots
  PROVE  Filling(v) = {} /\ Owed(v) = {}
<1>1. Filling(v) = {}
  BY DEF AllReturned, Returned, Filling
<1> QED BY <1>1 DEF Owed

LEMMA LaunchKeepsPlaces ==
  ASSUME PlacesInv, AllReturned, UNCHANGED <<addScratch, addScratchCount, appendPc>>
  PROVE  PlacesInv'
<1>1. ASSUME NEW v \in Slots
      PROVE  CountsAdd(v)' /\ PlacesGranted(v)'
  <2>1. Filling(v) = {} /\ Filling(v)' = {}
    BY NobodyFills DEF AllReturned, Returned, Filling
  <2> QED BY <2>1, OtherPlaces DEF PlacesInv
<1> QED BY <1>1 DEF PlacesInv

(* Emptying the scratch of some vertices while nobody fills.               *)
LEMMA DrainKeepsPlaces ==
  ASSUME ScratchTypeOK, PlacesInv, Drain
  PROVE  PlacesInv'
<1>1. ASSUME NEW v \in Slots
      PROVE  CountsAdd(v)' /\ PlacesGranted(v)'
  <2>1. Filling(v) = {} /\ Filling(v)' = {} /\ Owed(v)' = {}
    <3>1. Filling(v) = {} /\ appendPc' = appendPc
      BY NobodyFills DEF Drain
    <3>2. Filling(v)' = {}
      BY <3>1 DEF Drain, AllReturned, Returned, Filling
    <3> QED BY <3>1, <3>2 DEF Owed
  <2>2. CASE v \in Listed
    <3>1. addScratchCount'[v] = 0 /\ addScratch'[v] = Empty
      BY <2>2 DEF Drain, Listed
    <3>2. CountsAdd(v)'
      BY <2>1, <3>1, FS_EmptySet, ScratchAssumption DEF CountsAdd, ScratchAssumption
    <3>3. PlacesGranted(v)'
      BY <2>1, <3>1 DEF PlacesGranted, Empty
    <3> QED BY <3>2, <3>3
  <2>3. CASE v \notin Listed
    <3>1. addScratchCount'[v] = addScratchCount[v] /\ addScratch'[v] = addScratch[v]
      BY <2>3 DEF Drain, Listed
    <3> QED BY <2>1, <3>1, OtherPlaces DEF PlacesInv
  <2> QED BY <2>2, <2>3
<1> QED BY <1>1 DEF PlacesInv

-----------------------------------------------------------------------------
(* The types again, now that the count is known to be able to pay.         *)

LEMMA StepKeepsTypes ==
  ASSUME ScratchTypeOK, PlacesInv, NEW t \in Threads, AppendStep(t)
  PROVE  ScratchTypeOK'
<1>1. CASE Reserve(t)
  <2>1. work[t] # <<>> /\ At(t) \in Slots /\ Len(Adds(t)) \in Nat
    BY <1>1, HeadRequest DEF Reserve
  <2>2. /\ appendPc' = [appendPc EXCEPT ![t] = "fill"]
        /\ base' = [base EXCEPT ![t] = addScratchCount[At(t)]]
        /\ addScratchCount' =
             [addScratchCount EXCEPT ![At(t)] = addScratchCount[At(t)] + Len(Adds(t))]
        /\ UNCHANGED <<addScratch, dirtyMark, dirtyList, work>>
    BY <1>1 DEF Reserve, Goto
  <2>3. base' \in [Threads -> Nat] /\ addScratchCount' \in [Slots -> Nat]
    BY <2>1, <2>2 DEF ScratchTypeOK
  <2> QED BY <2>1, <2>2, <2>3 DEF ScratchTypeOK
<1>2. CASE Fill(t)
  <2>1. appendPc[t] = "fill" /\ work[t] # <<>>
    BY <1>2 DEF Fill, Goto, ScratchTypeOK
  <2>2. /\ At(t) \in Slots /\ Adds(t) \in Seq(Slots) /\ base[t] \in Nat
        /\ addScratchCount[At(t)] - Overflow(t) \in Nat
    BY <2>1, HeadRequest, FillPays DEF ScratchTypeOK
  <2>3. /\ appendPc' = [appendPc EXCEPT ![t] = "mark"]
        /\ base' = [base EXCEPT ![t] = 0]
        /\ addScratchCount' =
             [addScratchCount EXCEPT ![At(t)] = addScratchCount[At(t)] - Overflow(t)]
        /\ UNCHANGED <<dirtyMark, dirtyList, work>>
    BY <1>2 DEF Fill, Goto
  <2>4. addScratch' \in [Slots -> [0 .. P - 1 -> Slots \cup {Stale}]]
    <3> DEFINE row == [i \in 0 .. P - 1 |-> IF i \in Granted(t) THEN Adds(t)[i - base[t] + 1]
                                           ELSE addScratch[At(t)][i]]
    <3>1. \A i \in Granted(t) : Adds(t)[i - base[t] + 1] \in Slots
      BY <2>2 DEF Granted
    <3>2. row \in [0 .. P - 1 -> Slots \cup {Stale}]
      <4>1. \A i \in 0 .. P - 1 : addScratch[At(t)][i] \in Slots \cup {Stale}
        <5>1. addScratch[At(t)] \in [0 .. P - 1 -> Slots \cup {Stale}]
          BY <2>2 DEF ScratchTypeOK
        <5> QED BY <5>1
      <4>2. ASSUME NEW i \in 0 .. P - 1
            PROVE  (IF i \in Granted(t) THEN Adds(t)[i - base[t] + 1]
                    ELSE addScratch[At(t)][i]) \in Slots \cup {Stale}
        BY <3>1, <4>1
      <4> QED BY <4>2
    <3>3. addScratch' = [addScratch EXCEPT ![At(t)] = row]
      BY <1>2 DEF Fill
    <3> QED BY <3>2, <3>3 DEF ScratchTypeOK
  <2>5. base' \in [Threads -> Nat] /\ addScratchCount' \in [Slots -> Nat]
    BY <2>2, <2>3 DEF ScratchTypeOK
  <2> QED BY <2>1, <2>3, <2>4, <2>5 DEF ScratchTypeOK
<1>3. CASE Marks(t)
  <2>1. work[t] # <<>>
    BY <1>3 DEF Marks, Enlist, AlreadyMarked, ReadyToMark, ScratchTypeOK
  <2>2. At(t) \in Slots /\ Tail(work[t]) \in Seq(Request)
    BY <2>1, HeadRequest
  <2>3. /\ appendPc' = [appendPc EXCEPT ![t] = "next"]
        /\ work' = [work EXCEPT ![t] = Tail(work[t])]
        /\ UNCHANGED <<addScratch, addScratchCount, base>>
    BY <1>3 DEF Marks, Enlist, AlreadyMarked, Done
  <2>4. dirtyMark' \subseteq Slots /\ dirtyList' \in Seq(Slots)
    <3>1. dirtyMark \subseteq Slots /\ dirtyList \in Seq(Slots) /\ Append(dirtyList, At(t)) \in Seq(Slots)
      BY <2>2 DEF ScratchTypeOK
    <3>2. /\ dirtyMark' \in {dirtyMark, dirtyMark \cup {At(t)}}
          /\ dirtyList' \in {dirtyList, Append(dirtyList, At(t))}
      BY <1>3 DEF Marks, Enlist, AlreadyMarked
    <3> QED BY <2>2, <3>1, <3>2
  <2>5. work' \in [Threads -> Seq(Request)] /\ appendPc' \in [Threads -> {"next", "fill", "mark"}]
    BY <2>2, <2>3 DEF ScratchTypeOK
  <2>6. \A u \in Threads : appendPc'[u] # "next" => work'[u] # <<>>
    BY <2>3 DEF ScratchTypeOK
  <2> QED BY <2>3, <2>4, <2>5, <2>6 DEF ScratchTypeOK
<1> QED BY <1>1, <1>2, <1>3 DEF AppendStep, Marks

LEMMA DrainKeepsTypes ==
  ASSUME ScratchTypeOK, Drain
  PROVE  ScratchTypeOK'
<1>1. addScratchCount' \in [Slots -> Nat] /\ dirtyMark' \subseteq Slots /\ dirtyList' \in Seq(Slots)
  BY DEF ScratchTypeOK, Drain
<1>2. Empty \in [0 .. P - 1 -> Slots \cup {Stale}]
  BY DEF Empty
<1>3. addScratch' \in [Slots -> [0 .. P - 1 -> Slots \cup {Stale}]]
  BY <1>2 DEF ScratchTypeOK, Drain
<1> QED BY <1>1, <1>3 DEF ScratchTypeOK, Drain

-----------------------------------------------------------------------------
(* The list.                                                               *)

(* A vertex about to be listed is one of Slots that is not marked yet, so  *)
(* the list is shorter than DirtyCap and the entry is never given back.    *)
LEMMA RoomInList ==
  ASSUME ScratchTypeOK, ListInv, NEW v \in Slots, v \notin dirtyMark
  PROVE  /\ IsFiniteSet(dirtyMark)
         /\ Cardinality(dirtyMark \cup {v}) = Cardinality(dirtyMark) + 1
         /\ Len(dirtyList) < DirtyCap
<1>1. IsFiniteSet(Slots) /\ dirtyMark \subseteq Slots
  BY ScratchAssumption DEF ScratchAssumption, ScratchTypeOK
<1>2. IsFiniteSet(dirtyMark) /\ Cardinality(dirtyMark) <= Cardinality(Slots)
      /\ (Cardinality(Slots) = Cardinality(dirtyMark) => Slots = dirtyMark)
  BY <1>1, FS_Subset
<1>3. Cardinality(dirtyMark \cup {v}) = Cardinality(dirtyMark) + 1
  BY <1>2, FS_AddElement
<1>4. Cardinality(dirtyMark) \in Nat /\ Cardinality(Slots) \in Nat
  BY <1>1, <1>2, FS_CardinalityType
<1> QED BY <1>2, <1>3, <1>4 DEF ListInv, DirtyCap

LEMMA EnlistKeepsList ==
  ASSUME ScratchTypeOK, ListInv, NEW t \in Threads, Enlist(t)
  PROVE  ListInv'
<1>1. work[t] # <<>>
  BY DEF Enlist, ReadyToMark, ScratchTypeOK
<1> PICK v \in Slots : v = At(t)
  BY <1>1, HeadRequest
<1>2. /\ v \notin dirtyMark /\ dirtyMark' = dirtyMark \cup {v}
      /\ dirtyList' = Append(dirtyList, v) /\ dirtyList \in Seq(Slots)
      /\ Cardinality(dirtyMark') = Cardinality(dirtyMark) + 1
  BY RoomInList DEF Enlist, IsFirst, ScratchTypeOK
<1>3. /\ Len(dirtyList') = Len(dirtyList) + 1 /\ dirtyList'[Len(dirtyList) + 1] = v
      /\ \A i \in 1 .. Len(dirtyList) : dirtyList'[i] = dirtyList[i]
      /\ DOMAIN dirtyList = 1 .. Len(dirtyList) /\ Len(dirtyList) \in Nat
      /\ DOMAIN dirtyList' = 1 .. Len(dirtyList) + 1
  BY <1>2
<1>4. \A i \in DOMAIN dirtyList : dirtyList[i] # v
  BY <1>2 DEF ListInv, Listed
<1>5. \A i, j \in DOMAIN dirtyList' : dirtyList'[i] = dirtyList'[j] => i = j
  BY <1>3, <1>4 DEF ListInv
<1>6. Listed' = dirtyMark'
  <2>1. {dirtyList'[i] : i \in DOMAIN dirtyList'} = Listed \cup {v}
    BY <1>3 DEF Listed
  <2> QED BY <1>2, <2>1 DEF Listed, ListInv
<1>7. Len(dirtyList') = Cardinality(dirtyMark')
  BY <1>2, <1>3 DEF ListInv
<1>8. ASSUME NEW x \in Slots, addScratchCount'[x] > 0, x # v
      PROVE  x \in dirtyMark' \/ \E u \in Threads : appendPc'[u] # "next" /\ At(u)' = x
  <2>1. addScratchCount[x] > 0
    BY <1>8 DEF Enlist
  <2>2. CASE x \in dirtyMark
    BY <1>2, <2>2
  <2>3. ASSUME NEW u \in Threads, appendPc[u] # "next", At(u) = x
        PROVE  appendPc'[u] # "next" /\ At(u)' = x
    <3>1. u # t
      BY <1>8, <2>3
    <3>2. appendPc'[u] = appendPc[u] /\ work'[u] = work[u]
      BY <3>1 DEF Enlist, Done, ScratchTypeOK
    <3> QED BY <2>3, <3>2 DEF At
  <2> QED BY <2>1, <2>2, <2>3 DEF ListInv
<1> QED BY <1>2, <1>5, <1>6, <1>7, <1>8 DEF ListInv

LEMMA AlreadyMarkedKeepsList ==
  ASSUME ScratchTypeOK, ListInv, NEW t \in Threads, AlreadyMarked(t)
  PROVE  ListInv'
<1>1. /\ At(t) \in dirtyMark
      /\ UNCHANGED <<addScratchCount, dirtyMark, dirtyList>>
  BY DEF AlreadyMarked, IsFirst
<1>2. ASSUME NEW x \in Slots, addScratchCount'[x] > 0, x \notin dirtyMark'
      PROVE  \E u \in Threads : appendPc'[u] # "next" /\ At(u)' = x
  <2>1. PICK u \in Threads : appendPc[u] # "next" /\ At(u) = x
    BY <1>1, <1>2 DEF ListInv
  <2>2. appendPc'[u] = appendPc[u] /\ work'[u] = work[u]
    BY <1>1, <1>2, <2>1 DEF AlreadyMarked, Done, ScratchTypeOK
  <2> QED BY <2>1, <2>2 DEF At
<1> QED BY <1>1, <1>2 DEF ListInv, Listed

LEMMA FillingKeepsList ==
  ASSUME ScratchTypeOK, ListInv, NEW t \in Threads, Reserve(t) \/ Fill(t)
  PROVE  ListInv'
<1>1. /\ work' = work /\ UNCHANGED <<dirtyMark, dirtyList>>
      /\ appendPc'[t] # "next"
      /\ \A u \in Threads : u # t => appendPc'[u] = appendPc[u]
      /\ \A x \in Slots : x # At(t) => addScratchCount'[x] = addScratchCount[x]
  BY DEF Reserve, Fill, Goto, ScratchTypeOK
<1>2. ASSUME NEW x \in Slots, addScratchCount'[x] > 0, x \notin dirtyMark'
      PROVE  \E u \in Threads : appendPc'[u] # "next" /\ At(u)' = x
  <2>1. \A u : At(u)' = At(u)
    BY <1>1 DEF At
  <2>2. CASE x = At(t)
    BY <1>1, <2>1, <2>2
  <2>3. CASE x # At(t)
    <3>1. PICK u \in Threads : appendPc[u] # "next" /\ At(u) = x
      BY <1>1, <1>2, <2>3 DEF ListInv
    <3> QED BY <1>1, <2>1, <2>3, <3>1
  <2> QED BY <2>2, <2>3
<1> QED BY <1>1, <1>2 DEF ListInv, Listed

LEMMA DrainKeepsList ==
  ASSUME ScratchTypeOK, ListInv, Drain
  PROVE  ListInv'
<1>1. dirtyList' = <<>> /\ dirtyMark' = {}
  BY DEF Drain, ListInv, Listed
<1>2. \A v \in Slots : addScratchCount'[v] = 0
  <2>1. \A v \in Slots : v \in Listed \/ ~(addScratchCount[v] > 0)
    BY DEF Drain, AllReturned, Returned, ListInv
  <2>2. \A v \in Slots :
          addScratchCount'[v] = IF v \in Listed THEN 0 ELSE addScratchCount[v]
    BY DEF Drain, Listed
  <2> QED BY <2>1, <2>2 DEF ScratchTypeOK
<1>3. Listed' = {} /\ Len(dirtyList') = Cardinality(dirtyMark')
  BY <1>1, FS_EmptySet DEF Listed
<1> QED BY <1>1, <1>2, <1>3 DEF ListInv

-----------------------------------------------------------------------------
(* The theorems.                                                           *)

LEMMA ScratchInitially == ScratchInit => ScratchInv
<1> SUFFICES ASSUME ScratchInit PROVE ScratchInv
  OBVIOUS
<1>1. ScratchTypeOK
  BY DEF ScratchInit, ScratchTypeOK, Empty
<1>2. PlacesInv
  <2>1. \A v \in Slots : Filling(v) = {} /\ Owed(v) = {}
    BY DEF ScratchInit, Filling, Owed
  <2>2. \A v \in Slots : addScratchCount[v] = 0 /\ addScratch[v] = Empty
    BY DEF ScratchInit
  <2>3. \A v \in Slots : CountsAdd(v)
    BY <2>1, <2>2, FS_EmptySet, ScratchAssumption DEF CountsAdd, ScratchAssumption
  <2>4. \A v \in Slots : PlacesGranted(v)
    <3>1. \A i \in 0 .. P - 1 : Empty[i] = Stale /\ ~(i < 0)
      BY DEF Empty
    <3> QED BY <2>1, <2>2, <3>1 DEF PlacesGranted
  <2> QED BY <2>3, <2>4 DEF PlacesInv
<1>3. ListInv
  BY FS_EmptySet DEF ScratchInit, ListInv, Listed
<1> QED BY <1>1, <1>2, <1>3 DEF ScratchInv

LEMMA ScratchStep == ScratchInv /\ [ScratchClient]_scratchVars => ScratchInv'
<1> SUFFICES ASSUME ScratchInv, [ScratchClient]_scratchVars PROVE ScratchInv'
  OBVIOUS
<1> USE DEF ScratchInv
<1>1. ASSUME NEW t \in Threads, AppendStep(t) PROVE ScratchInv'
  <2>1. ScratchTypeOK'
    BY <1>1, StepKeepsTypes
  <2>2. PlacesInv'
    BY <1>1, ReserveKeepsPlaces, FillKeepsPlaces, MarkKeepsPlaces DEF AppendStep, Marks
  <2>3. ListInv'
    BY <1>1, FillingKeepsList, EnlistKeepsList, AlreadyMarkedKeepsList DEF AppendStep
  <2> QED BY <2>1, <2>2, <2>3
<1>2. ASSUME AllReturned, work' \in [Threads -> Seq(Request)], Launch(work') PROVE ScratchInv'
  <2>1. ScratchTypeOK'
    BY <1>2 DEF ScratchTypeOK, Launch, AllReturned, Returned
  <2>2. PlacesInv'
    BY <1>2, LaunchKeepsPlaces DEF Launch
  <2>3. ListInv'
    BY <1>2 DEF Launch, AllReturned, Returned, ListInv, Listed
  <2> QED BY <2>1, <2>2, <2>3
<1>3. CASE Drain
  BY <1>3, DrainKeepsTypes, DrainKeepsPlaces, DrainKeepsList
<1>4. CASE UNCHANGED scratchVars
  <2>1. UNCHANGED <<addScratch, addScratchCount, dirtyMark, dirtyList, work, appendPc, base>>
    BY <1>4 DEF scratchVars
  <2>2. ScratchTypeOK'
    BY <2>1 DEF ScratchTypeOK
  <2>3. PlacesInv'
    <3>1. \A v \in Slots : Filling(v)' = Filling(v)
      BY <2>1 DEF Filling, At
    <3>2. \A t \in Threads : Granted(t)' = Granted(t) /\ Overflow(t)' = Overflow(t)
      BY <2>1 DEF Granted, Overflow, Adds
    <3>3. \A v \in Slots : CountsAdd(v)' /\ PlacesGranted(v)'
      BY <2>1, <3>1, <3>2, OtherPlaces DEF PlacesInv, Filling
    <3> QED BY <3>3 DEF PlacesInv
  <2>4. ListInv'
    BY <2>1 DEF ListInv, Listed, At
  <2> QED BY <2>2, <2>3, <2>4
<1> QED BY <1>1, <1>2, <1>3, <1>4 DEF ScratchClient

LEMMA ScratchInvariant == ScratchSpec => []ScratchInv
BY ScratchInitially, ScratchStep, PTL DEF ScratchSpec

(* The scratch, its counts, the marks and the list keep their types: what  *)
(* is given back never makes a count negative.                             *)
THEOREM ScratchTypes == ScratchSpec => []ScratchTypeOK
<1>1. ScratchInv => ScratchTypeOK
  BY DEF ScratchInv
<1> QED BY <1>1, ScratchInvariant, PTL

LEMMA PlacesFollow == ScratchInv => PlacesWritten
<1> SUFFICES ASSUME ScratchInv, NEW v \in Slots
             PROVE  /\ \A t, u \in Filling(v) : t # u => Granted(t) \cap Granted(u) = {}
                    /\ Filling(v) = {} =>
                         {i \in 0 .. P - 1 : addScratch[v][i] # Stale}
                           = 0 .. addScratchCount[v] - 1
  BY DEF PlacesWritten
<1>1. PlacesGranted(v) /\ CountsAdd(v) /\ addScratchCount[v] \in Nat
  BY DEF ScratchInv, PlacesInv, ScratchTypeOK
<1>2. ASSUME Filling(v) = {}
      PROVE  {i \in 0 .. P - 1 : addScratch[v][i] # Stale} = 0 .. addScratchCount[v] - 1
  <2>1. Owed(v) = {}
    BY <1>2 DEF Owed
  <2>2. addScratchCount[v] <= P
    BY <1>1, <2>1, FS_EmptySet, ScratchAssumption DEF CountsAdd, ScratchAssumption
  <2>3. \A i \in 0 .. P - 1 : addScratch[v][i] # Stale <=> i < addScratchCount[v]
    BY <1>1, <1>2 DEF PlacesGranted
  <2> QED BY <1>1, <2>2, <2>3, ScratchAssumption DEF ScratchAssumption
<1> QED BY <1>1, <1>2 DEF PlacesGranted

LEMMA ListFollows == ScratchInv => ListedOnce
<1> SUFFICES ASSUME ScratchInv PROVE ListedOnce
  OBVIOUS
<1>1. ASSUME AllReturned, NEW v \in Slots, v \in dirtyMark \/ addScratchCount[v] > 0
      PROVE  v \in Listed
  BY <1>1 DEF ScratchInv, ListInv, AllReturned, Returned
<1> QED BY <1>1 DEF ScratchInv, ListInv, ListedOnce, Listed

(* No two runs of additions share a place, and when nobody fills a vertex  *)
(* its count is that of the places written, in whatever order the threads  *)
(* of appendReverseCandsKernel, inNeighborRepairKernel and                 *)
(* outNeighborRepairKernel reserve, write and give back.                   *)
THEOREM PlacesHold == ScratchSpec => []PlacesWritten
BY PlacesFollow, ScratchInvariant, PTL

(* The prune kernels meet every vertex that was added to, each once: a     *)
(* vertex is entered into the dirty list once, always fits, and none with  *)
(* additions is missing when the threads have returned.                    *)
THEOREM ListHolds == ScratchSpec => []ListedOnce
BY ListFollows, ScratchInvariant, PTL

-----------------------------------------------------------------------------
(* Lists that are filtered, and lists that are added to.                   *)

IsOnly(g, list, S) ==
  g = [n \in 0 .. Len(list) |-> IF n = 0 THEN <<>> ELSE KeepIf(g[n - 1], list[n], S)]

LEMMA OnlyStepByStep ==
  ASSUME NEW T, NEW list \in Seq(T), NEW S
  PROVE  \E g : IsOnly(g, list, S) /\ Only(list, S) = g[Len(list)]
<1> DEFINE N == Len(list)
           step == [n \in 1 .. N |-> [s \in Seq(T) |-> KeepIf(s, list[n], S)]]
<1>1. N \in Nat /\ \A n \in 1 .. N : list[n] \in T
  BY EntriesOf
<1>2. \A n \in 1 .. N : \A s \in Seq(T) : KeepIf(s, list[n], S) \in Seq(T)
  BY <1>1, AppendProperties DEF KeepIf
<1>3. PICK f : f \in [0 .. N -> Seq(T)] /\ StepsFrom(<<>>, step, f, N, Seq(T))
  <2> PICK U : U = Seq(T)
    OBVIOUS
  <2> PICK first \in U : first = <<>>
    BY EmptySeq
  <2>1. step \in [1 .. N -> [U -> U]] /\ N \in Nat
    BY <1>1, <1>2
  <2> HIDE DEF step, N
  <2>2. \E f : StepsFrom(first, step, f, N, U)
    BY <2>1, StepByStep
  <2> QED BY <2>2 DEF StepsFrom
<1>4. \A n \in 1 .. N : f[n] = KeepIf(f[n - 1], list[n], S)
  <2> SUFFICES ASSUME NEW n \in 1 .. N PROVE f[n] = KeepIf(f[n - 1], list[n], S)
    OBVIOUS
  <2>1. f[n - 1] \in Seq(T)
    BY <1>1, <1>3
  <2>2. f[n] = step[n][f[n - 1]]
    BY <1>3 DEF StepsFrom
  <2> QED BY <2>1, <2>2
<1>5. IsOnly(f, list, S)
  <2>1. f[0] = <<>> /\ DOMAIN f = 0 .. N /\ f = [n \in 0 .. N |-> f[n]]
    BY <1>3 DEF StepsFrom
  <2> QED BY <1>1, <1>4, <2>1 DEF IsOnly
<1> DEFINE g == CHOOSE h : IsOnly(h, list, S)
<1>6. IsOnly(g, list, S)
  BY <1>5
<1>7. Only(list, S) = g[N]
  BY DEF Only, IsOnly
<1> QED BY <1>6, <1>7

(* What the filter has made of the first n entries.                        *)
OnlyOf(list, S, n, kept) ==
  /\ kept \in Seq(S) /\ Len(kept) <= n
  /\ ToSet(kept) = {list[m] : m \in 1 .. n} \cap S
  /\ IsInjective(list) => IsInjective(kept)

LEMMA OnlyKeeps ==
  ASSUME NEW T, NEW list \in Seq(T), NEW S
  PROVE  OnlyOf(list, S, Len(list), Only(list, S))
<1>1. PICK g : IsOnly(g, list, S) /\ Only(list, S) = g[Len(list)]
  BY OnlyStepByStep
<1>2. PICK N \in Nat : N = Len(list)
  BY EntriesOf
<1>3. g[0] = <<>> /\ \A n \in 1 .. N : g[n] = KeepIf(g[n - 1], list[n], S)
  BY <1>1, <1>2 DEF IsOnly
<1> DEFINE Good == {n \in 0 .. N : OnlyOf(list, S, n, g[n])}
<1>4. 0 \in Good
  <2>1. <<>> \in Seq(S) /\ Len(<<>>) = 0 /\ ToSet(<<>>) = {} /\ IsInjective(<<>>)
    BY EmptySeq DEF ToSet, IsInjective
  <2>2. {list[m] : m \in 1 .. 0} = {}
    OBVIOUS
  <2>3. g[0] = <<>> /\ 0 \in 0 .. N /\ 0 <= 0
    BY <1>3
  <2>4. OnlyOf(list, S, 0, <<>>)
    BY <2>1, <2>2 DEF OnlyOf
  <2> QED BY <2>3, <2>4
<1>5. ASSUME NEW n \in 0 .. N - 1, n \in Good PROVE n + 1 \in Good
  <2>1. PICK kept \in Seq(S) : kept = g[n] /\ OnlyOf(list, S, n, kept)
    BY <1>5 DEF OnlyOf
  <2>2. PICK c : c = list[n + 1]
    OBVIOUS
  <2>3. g[n + 1] = KeepIf(kept, c, S)
    BY <1>3, <2>1, <2>2
  <2>4. {list[m] : m \in 1 .. n + 1} = {list[m] : m \in 1 .. n} \cup {c}
    BY <1>2, <2>2, EntriesOf
  <2>5. n \in Nat /\ Len(kept) \in Nat
    BY LenProperties
  <2>6. CASE c \in S
    <3>1. IsInjective(list) => c \notin ToSet(kept)
      <4>1. ASSUME IsInjective(list) PROVE c \notin {list[m] : m \in 1 .. n}
        <5>1. DOMAIN list = 1 .. N
          BY <1>2, EntriesOf
        <5> QED BY <4>1, <5>1, <2>2 DEF IsInjective
      <4> QED BY <2>1, <4>1 DEF OnlyOf
    <3>2. PICK more \in Seq(S) :
            /\ more = Append(kept, c) /\ Len(more) = Len(kept) + 1
            /\ ToSet(more) = ToSet(kept) \cup {c}
            /\ IsInjective(list) => IsInjective(more)
      BY <2>1, <2>6, <3>1, OneMore DEF OnlyOf
    <3>3. g[n + 1] = more
      BY <2>3, <2>6, <3>2 DEF KeepIf
    <3>4. ToSet(more) = {list[m] : m \in 1 .. n + 1} \cap S
      BY <2>1, <2>4, <2>6, <3>2 DEF OnlyOf
    <3>5. Len(more) <= n + 1
      BY <2>1, <2>5, <3>2 DEF OnlyOf
    <3>6. OnlyOf(list, S, n + 1, more)
      BY <3>2, <3>4, <3>5 DEF OnlyOf
    <3> QED BY <3>3, <3>6
  <2>7. CASE c \notin S
    <3>1. g[n + 1] = kept
      BY <2>3, <2>7 DEF KeepIf
    <3> QED BY <2>1, <2>4, <2>5, <2>7, <3>1 DEF OnlyOf
  <2> QED BY <2>6, <2>7
<1>6. N \in Good
  <2> HIDE DEF Good
  <2>1. 0 .. N \subseteq Good
    BY <1>4, <1>5, UpTo
  <2> QED BY <2>1
<1> QED BY <1>1, <1>2, <1>6

LEMMA OnlyIs ==
  ASSUME NEW T, NEW list \in Seq(T), NEW S
  PROVE  /\ Only(list, S) \in Seq(S) /\ Only(list, S) \in Seq(T \cap S)
         /\ Len(Only(list, S)) <= Len(list)
         /\ ToSet(Only(list, S)) = ToSet(list) \cap S
         /\ IsInjective(list) => IsInjective(Only(list, S))
<1>1. OnlyOf(list, S, Len(list), Only(list, S))
  BY OnlyKeeps
<1>2. ToSet(list) = {list[m] : m \in 1 .. Len(list)} /\ ToSet(list) \subseteq T
  BY EntriesOf
<1>3. PICK kept \in Seq(S) : kept = Only(list, S)
  BY <1>1 DEF OnlyOf
<1>4. ToSet(kept) \subseteq T \cap S
  BY <1>1, <1>2, <1>3 DEF OnlyOf
<1>5. kept \in Seq(T \cap S)
  <2>1. Len(kept) \in Nat /\ kept \in [1 .. Len(kept) -> S]
    BY LenProperties
  <2>2. kept \in [1 .. Len(kept) -> T \cap S]
    BY <1>4, <2>1 DEF ToSet
  <2> QED BY <2>1, <2>2, SeqDef
<1> QED BY <1>1, <1>2, <1>3, <1>5 DEF OnlyOf

IsOnce(g, before, list) ==
  g = [n \in 0 .. Len(list) |-> IF n = 0 THEN before ELSE AddNew(g[n - 1], list[n])]

LEMMA OnceStepByStep ==
  ASSUME NEW T, NEW before \in Seq(T), NEW list \in Seq(T)
  PROVE  \E g : IsOnce(g, before, list) /\ Once(before, list) = g[Len(list)]
<1> DEFINE N == Len(list)
           step == [n \in 1 .. N |-> [s \in Seq(T) |-> AddNew(s, list[n])]]
<1>1. N \in Nat /\ \A n \in 1 .. N : list[n] \in T
  BY EntriesOf
<1>2. \A n \in 1 .. N : \A s \in Seq(T) : AddNew(s, list[n]) \in Seq(T)
  BY <1>1, AppendProperties DEF AddNew
<1>3. PICK f : f \in [0 .. N -> Seq(T)] /\ StepsFrom(before, step, f, N, Seq(T))
  <2> PICK U : U = Seq(T)
    OBVIOUS
  <2>1. step \in [1 .. N -> [U -> U]] /\ N \in Nat /\ before \in U
    BY <1>1, <1>2
  <2> HIDE DEF step, N
  <2>2. \E f : StepsFrom(before, step, f, N, U)
    BY <2>1, StepByStep
  <2> QED BY <2>2 DEF StepsFrom
<1>4. \A n \in 1 .. N : f[n] = AddNew(f[n - 1], list[n])
  <2> SUFFICES ASSUME NEW n \in 1 .. N PROVE f[n] = AddNew(f[n - 1], list[n])
    OBVIOUS
  <2>1. f[n - 1] \in Seq(T)
    BY <1>1, <1>3
  <2>2. f[n] = step[n][f[n - 1]]
    BY <1>3 DEF StepsFrom
  <2> QED BY <2>1, <2>2
<1>5. IsOnce(f, before, list)
  <2>1. f[0] = before /\ DOMAIN f = 0 .. N /\ f = [n \in 0 .. N |-> f[n]]
    BY <1>3 DEF StepsFrom
  <2> HIDE DEF step
  <2>2. \A n \in 0 .. N : f[n] = IF n = 0 THEN before ELSE AddNew(f[n - 1], list[n])
    <3> HIDE DEF N
    <3> SUFFICES ASSUME NEW n \in 0 .. N
                 PROVE  f[n] = IF n = 0 THEN before ELSE AddNew(f[n - 1], list[n])
      OBVIOUS
    <3>1. n # 0 => n \in 1 .. N
      BY <1>1
    <3> QED BY <1>4, <2>1, <3>1
  <2>3. f = [n \in 0 .. N |-> IF n = 0 THEN before ELSE AddNew(f[n - 1], list[n])]
    BY <2>1, <2>2
  <2> QED BY <2>3 DEF IsOnce
<1> DEFINE g == CHOOSE h : IsOnce(h, before, list)
<1>6. IsOnce(g, before, list)
  BY <1>5
<1>7. Once(before, list) = g[N]
  BY DEF Once, IsOnce
<1> QED BY <1>6, <1>7

(* What has become of the list when the first n entries were added.        *)
OnceOf(T, before, list, n, kept) ==
  /\ kept \in Seq(T)
  /\ ToSet(kept) = ToSet(before) \cup {list[m] : m \in 1 .. n}
  /\ IsInjective(before) => IsInjective(kept)

LEMMA OnceIs ==
  ASSUME NEW T, NEW before \in Seq(T), NEW list \in Seq(T)
  PROVE  /\ Once(before, list) \in Seq(T)
         /\ ToSet(Once(before, list)) = ToSet(before) \cup ToSet(list)
         /\ IsInjective(before) => IsInjective(Once(before, list))
<1>1. PICK g : IsOnce(g, before, list) /\ Once(before, list) = g[Len(list)]
  BY OnceStepByStep
<1>2. PICK N \in Nat : N = Len(list) /\ \A n \in 1 .. N : list[n] \in T
  BY EntriesOf
<1>3. g[0] = before /\ \A n \in 1 .. N : g[n] = AddNew(g[n - 1], list[n])
  <2>1. g = [n \in 0 .. N |-> IF n = 0 THEN before ELSE AddNew(g[n - 1], list[n])]
    BY <1>1, <1>2 DEF IsOnce
  <2>2. 0 \in 0 .. N /\ \A n \in 1 .. N : n \in 0 .. N /\ n # 0
    OBVIOUS
  <2> QED BY <2>1, <2>2
<1> DEFINE Good == {n \in 0 .. N : OnceOf(T, before, list, n, g[n])}
<1>4. 0 \in Good
  <2>1. {list[m] : m \in 1 .. 0} = {}
    OBVIOUS
  <2>2. OnceOf(T, before, list, 0, before)
    BY <2>1 DEF OnceOf
  <2> QED BY <1>3, <2>2
<1>5. ASSUME NEW n \in 0 .. N - 1, n \in Good PROVE n + 1 \in Good
  <2>1. PICK kept \in Seq(T) : kept = g[n] /\ OnceOf(T, before, list, n, kept)
    BY <1>5 DEF OnceOf
  <2>2. PICK c \in T : c = list[n + 1]
    BY <1>2
  <2>3. g[n + 1] = AddNew(kept, c)
    BY <1>3, <2>1, <2>2
  <2>4. {list[m] : m \in 1 .. n + 1} = {list[m] : m \in 1 .. n} \cup {c}
    BY <1>2, <2>2, EntriesOf
  <2>5. CASE c \notin ToSet(kept)
    <3>1. PICK more \in Seq(T) :
            /\ more = Append(kept, c)
            /\ ToSet(more) = ToSet(kept) \cup {c}
            /\ IsInjective(kept) => IsInjective(more)
      BY <2>5, OneMore
    <3>2. g[n + 1] = more
      BY <2>3, <2>5, <3>1 DEF AddNew
    <3>3. OnceOf(T, before, list, n + 1, more)
      BY <2>1, <2>4, <3>1 DEF OnceOf
    <3> QED BY <3>2, <3>3
  <2>6. CASE c \in ToSet(kept)
    <3>1. g[n + 1] = kept
      BY <2>3, <2>6 DEF AddNew
    <3>2. OnceOf(T, before, list, n + 1, kept)
      BY <2>1, <2>4, <2>6 DEF OnceOf
    <3> QED BY <3>1, <3>2
  <2> QED BY <2>5, <2>6
<1>6. N \in Good
  <2> HIDE DEF Good
  <2>1. 0 .. N \subseteq Good
    BY <1>4, <1>5, UpTo
  <2> QED BY <2>1
<1>7. ToSet(list) = {list[m] : m \in 1 .. N}
  BY <1>2, EntriesOf
<1> QED BY <1>1, <1>2, <1>6, <1>7 DEF OnceOf

-----------------------------------------------------------------------------
(* What is pending, and what is yet to be done about it.                   *)

EventIds == Pids \cup Queries \cup {NoPid}
Task == {Flush(kind) : kind \in Kinds} \cup {Push(kind, id) : kind \in Kinds, id \in EventIds}

HostTypeOK ==
  /\ todo \in Seq(Task)
  /\ pc \in {"loop", "append", "inRepair", "outRepair"}
  /\ pending \in [Kinds -> Seq(EventIds)]

(* A batch under way is that of the flush at the head.                     *)
BatchAtHead ==
  /\ pc = "append" => todo # <<>> /\ Head(todo) = Flush("insert")
  /\ pc \in {"inRepair", "outRepair"} => todo # <<>> /\ Head(todo) = Flush("delete")

(* Before the event at hand is done with, every other kind that is pending *)
(* is flushed.                                                             *)
OthersFlushed ==
  ~over /\ todo # <<>> =>
    LET n == Len(todo)
    IN  /\ \A i \in 1 .. n - 1 : todo[i].do = "flush"
        /\ \A j \in Kinds \ {todo[n].kind} :
             pending[j] # <<>> => \E i \in 1 .. n - 1 : todo[i] = Flush(j)

PendingInv == HostTypeOK /\ BatchAtHead /\ OthersFlushed /\ OneKindPending

LEMMA PendingInitially == Init => PendingInv
BY DEF Init, PendingInv, HostTypeOK, BatchAtHead, OthersFlushed, OneKindPending, AtLoop, Kinds

LEMMA TasksAre ==
  ASSUME NEW kind \in Kinds, NEW id \in EventIds
  PROVE  Flush(kind) \in Task /\ Push(kind, id) \in Task
BY DEF Task

LEMMA DueFlushIs ==
  ASSUME NEW kind \in Kinds
  PROVE  /\ DueFlush(kind) \in Seq(Task)
         /\ pending[kind] = <<>> => DueFlush(kind) = <<>>
         /\ pending[kind] # <<>> => DueFlush(kind) = <<Flush(kind)>>
<1>1. Flush(kind) \in Task
  BY TasksAre DEF EventIds
<1>2. <<>> \in Seq(Task) /\ <<Flush(kind)>> \in Seq(Task)
  BY <1>1
<1> QED BY <1>2 DEF DueFlush

AllFlushes(s) == s \in Seq(Task) /\ \A i \in 1 .. Len(s) : s[i].do = "flush"

LEMMA MoreFlushes ==
  ASSUME NEW s, AllFlushes(s), NEW t, AllFlushes(t)
  PROVE  AllFlushes(s \o t)
BY ConcatProperties, LenProperties DEF AllFlushes

LEMMA DueFlushes == \A kind \in Kinds : AllFlushes(DueFlush(kind))
<1> SUFFICES ASSUME NEW kind \in Kinds PROVE AllFlushes(DueFlush(kind))
  OBVIOUS
<1>1. DueFlush(kind) \in Seq(Task) /\ DueFlush(kind) \in {<<>>, <<Flush(kind)>>}
  BY DueFlushIs
<1>2. \A i \in 1 .. Len(DueFlush(kind)) : DueFlush(kind)[i].do = "flush"
  BY <1>1 DEF Flush
<1> QED BY <1>1, <1>2 DEF AllFlushes

LEMMA FlushedFirstFlushes ==
  ASSUME NEW kind \in Kinds
  PROVE  AllFlushes(FlushedFirst(kind))
<1>1. \A j, k \in Kinds : AllFlushes(DueFlush(j) \o DueFlush(k))
  BY DueFlushes, MoreFlushes
<1> QED BY <1>1 DEF FlushedFirst, Kinds

(* One task more or less.                                                  *)
LEMMA TailShift ==
  ASSUME NEW T, NEW s \in Seq(T), s # <<>>
  PROVE  /\ Tail(s) \in Seq(T) /\ Len(Tail(s)) = Len(s) - 1 /\ Head(s) = s[1] /\ Head(s) \in T
         /\ \A i \in 1 .. Len(s) - 1 : Tail(s)[i] = s[i + 1]
         /\ Len(s) \in Nat /\ Len(s) > 0
BY HeadTailProperties, LenProperties, EmptySeq

(* A flush of a kind that leaves it with nothing pending, or with less,    *)
(* and is then done with or stays at the head.                             *)
LEMMA FlushedKeepsOthers ==
  ASSUME HostTypeOK, OthersFlushed, NEW kind \in Kinds,
         todo # <<>>, Head(todo) = Flush(kind),
         over' = over,
         \A j \in Kinds \ {kind} : pending'[j] = pending[j],
         todo' = Tail(todo) /\ pending'[kind] = <<>>
  PROVE  OthersFlushed' /\ OneKindPending'
<1>1. /\ todo \in Seq(Task) /\ todo' \in Seq(Task) /\ Len(todo') = Len(todo) - 1
      /\ todo[1] = Flush(kind) /\ Len(todo) \in Nat /\ Len(todo) > 0
      /\ \A i \in 1 .. Len(todo) - 1 : todo'[i] = todo[i + 1]
  BY TailShift DEF HostTypeOK
<1> PICK n \in Nat : n = Len(todo)
  BY <1>1
<1> PICK last \in Task : last = todo[n]
  BY <1>1
<1>2. CASE ~over /\ n > 1
  <2>1. Len(todo') = n - 1 /\ todo'[n - 1] = last
    BY <1>1, <1>2
  <2>2. \A i \in 1 .. n - 2 : todo'[i].do = "flush"
    BY <1>1, <1>2 DEF OthersFlushed
  <2>3. ASSUME NEW j \in Kinds \ {last.kind}, pending'[j] # <<>>
        PROVE  \E i \in 1 .. n - 2 : todo'[i] = Flush(j)
    <3>1. j # kind /\ pending[j] # <<>>
      BY <2>3
    <3>2. PICK i \in 1 .. n - 1 : todo[i] = Flush(j)
      BY <1>2, <2>3, <3>1 DEF OthersFlushed
    <3>3. i # 1
      BY <1>1, <3>1, <3>2 DEF Flush
    <3>4. i - 1 \in 1 .. n - 2 /\ todo'[i - 1] = Flush(j)
      BY <1>1, <3>2, <3>3
    <3> QED BY <3>4
  <2>4. OthersFlushed'
    BY <2>1, <2>2, <2>3 DEF OthersFlushed
  <2>5. todo' # <<>>
    BY <1>1, <1>2
  <2> QED BY <2>4, <2>5 DEF OneKindPending, AtLoop
<1>3. CASE ~over /\ n = 1
  <2>1. \A j \in Kinds \ {kind} : pending[j] = <<>>
    BY <1>1, <1>3 DEF OthersFlushed, Flush
  <2>2. todo' = <<>>
    BY <1>1, <1>3
  <2> QED BY <2>1, <2>2 DEF OthersFlushed, OneKindPending
<1>4. CASE over
  BY <1>4 DEF OthersFlushed, OneKindPending, AtLoop
<1> QED BY <1>1, <1>2, <1>3, <1>4

LEMMA EventKeepsPending ==
  ASSUME PendingInv, NEW kind \in Kinds, Event(kind)
  PROVE  PendingInv'
<1>1. PICK id \in IdsOf[kind] : todo' = FlushedFirst(kind) \o <<Push(kind, id)>>
  BY DEF Event
<1>2. /\ todo = <<>> /\ ~over /\ pc = "loop"
      /\ UNCHANGED <<pc, over, pending>>
  BY DEF Event, AtLoop
<1>3. id \in EventIds
  BY <1>1, IndexAssumption DEF IndexAssumption, EventIds, Kinds
<1> DEFINE flushes == FlushedFirst(kind)
<1>4. flushes \in Seq(Task) /\ \A i \in 1 .. Len(flushes) : flushes[i].do = "flush"
  BY FlushedFirstFlushes DEF AllFlushes
<1>5. ASSUME NEW j \in Kinds \ {kind}, pending[j] # <<>>
      PROVE  \E i \in 1 .. Len(flushes) : flushes[i] = Flush(j)
  <2>1. \A k \in Kinds : /\ \E i \in 1 .. Len(DueFlush(j) \o DueFlush(k)) :
                              (DueFlush(j) \o DueFlush(k))[i] = Flush(j)
                        /\ \E i \in 1 .. Len(DueFlush(k) \o DueFlush(j)) :
                              (DueFlush(k) \o DueFlush(j))[i] = Flush(j)
    <3> SUFFICES ASSUME NEW k \in Kinds
                 PROVE  /\ \E i \in 1 .. Len(DueFlush(j) \o DueFlush(k)) :
                              (DueFlush(j) \o DueFlush(k))[i] = Flush(j)
                        /\ \E i \in 1 .. Len(DueFlush(k) \o DueFlush(j)) :
                              (DueFlush(k) \o DueFlush(j))[i] = Flush(j)
      OBVIOUS
    <3>1. DueFlush(j) = <<Flush(j)>> /\ DueFlush(j) \in Seq(Task) /\ DueFlush(k) \in Seq(Task)
      BY <1>5, DueFlushIs
    <3>2. Len(DueFlush(j)) = 1 /\ DueFlush(j)[1] = Flush(j) /\ Len(DueFlush(k)) \in Nat
      BY <3>1
    <3>3. (DueFlush(j) \o DueFlush(k))[1] = Flush(j) /\ Len(DueFlush(j) \o DueFlush(k)) = 1 + Len(DueFlush(k))
      BY <3>1, <3>2, ConcatProperties
    <3>4. /\ (DueFlush(k) \o DueFlush(j))[Len(DueFlush(k)) + 1] = Flush(j)
          /\ Len(DueFlush(k) \o DueFlush(j)) = Len(DueFlush(k)) + 1
      BY <3>1, <3>2, ConcatProperties
    <3> QED BY <3>2, <3>3, <3>4
  <2>2. CASE kind = "insert"
    BY <1>5, <2>1, <2>2 DEF FlushedFirst, Kinds
  <2>3. CASE kind = "query"
    BY <1>5, <2>1, <2>3 DEF FlushedFirst, Kinds
  <2>4. CASE kind = "delete"
    BY <1>5, <2>1, <2>4 DEF FlushedFirst, Kinds
  <2> QED BY <2>2, <2>3, <2>4 DEF Kinds
<1> PICK n \in Nat, s \in Seq(Task) : n = Len(flushes) /\ s = flushes
  BY <1>4, LenProperties
<1> HIDE DEF flushes
<1>6. /\ todo' \in Seq(Task) /\ Len(todo') = n + 1 /\ todo'[n + 1] = Push(kind, id)
      /\ \A i \in 1 .. n : todo'[i] = s[i]
  <2>1. <<Push(kind, id)>> \in Seq(Task) /\ Len(<<Push(kind, id)>>) = 1
    BY <1>3, TasksAre
  <2>2. todo' = s \o <<Push(kind, id)>>
    BY <1>1 DEF flushes
  <2> QED BY <2>1, <2>2, ConcatProperties
<1>7. OthersFlushed'
  <2>1. todo'[Len(todo')].kind = kind /\ Len(todo') - 1 = n
    BY <1>6 DEF Push
  <2>2. \A i \in 1 .. n : todo'[i].do = "flush"
    BY <1>4, <1>6
  <2>3. \A j \in Kinds \ {kind} : pending'[j] # <<>> => \E i \in 1 .. n : todo'[i] = Flush(j)
    BY <1>2, <1>5, <1>6
  <2> QED BY <2>1, <2>2, <2>3 DEF OthersFlushed
<1>8. HostTypeOK' /\ BatchAtHead' /\ OneKindPending'
  <2>1. todo' # <<>>
    BY <1>6
  <2> QED BY <1>2, <1>6, <2>1 DEF PendingInv, HostTypeOK, BatchAtHead, OneKindPending, AtLoop
<1> QED BY <1>7, <1>8 DEF PendingInv

LEMMA PushKeepsPending ==
  ASSUME PendingInv, PushEvent
  PROVE  PendingInv'
<1>1. /\ pc = "loop" /\ todo # <<>> /\ Head(todo).do = "push"
      /\ UNCHANGED <<pc, over>>
      /\ todo \in Seq(Task) /\ pending \in [Kinds -> Seq(EventIds)]
  BY DEF PushEvent, Doing, PendingInv, HostTypeOK
<1>2. /\ Head(todo) \in Task /\ Head(todo) = todo[1] /\ Len(todo) \in Nat /\ Len(todo) > 0
      /\ Tail(todo) \in Seq(Task) /\ Len(Tail(todo)) = Len(todo) - 1
  BY <1>1, TailShift
<1> PICK kind \in Kinds, id \in EventIds : kind = Head(todo).kind /\ id = Head(todo).id
  BY <1>2 DEF Task, Flush, Push, EventIds
<1>3. /\ pending' = [pending EXCEPT ![kind] = Append(@, id)]
      /\ todo' = <<Flush(kind)>> \/ todo' = Tail(todo)
  BY DEF PushEvent
<1>4. <<Flush(kind)>> \in Seq(Task) /\ Len(<<Flush(kind)>>) = 1 /\ <<Flush(kind)>>[1].kind = kind
  BY TasksAre DEF Flush, EventIds
<1>5. ~over => Len(todo) = 1
  BY <1>1, <1>2 DEF PendingInv, OthersFlushed
<1>6. ~over => \A j \in Kinds \ {kind} : pending[j] = <<>>
  <2>1. ~over => \A j \in Kinds \ {todo[Len(todo)].kind} :
                   pending[j] # <<>> => \E i \in 1 .. Len(todo) - 1 : todo[i] = Flush(j)
    BY <1>1 DEF PendingInv, OthersFlushed
  <2>2. ASSUME ~over, NEW j \in Kinds \ {kind}, pending[j] # <<>>
        PROVE  FALSE
    <3>1. Len(todo) = 1 /\ todo[Len(todo)].kind = kind
      BY <1>2, <1>5, <2>2
    <3>2. \E i \in 1 .. Len(todo) - 1 : todo[i] = Flush(j)
      BY <2>1, <2>2, <3>1
    <3>3. \A i \in Int : ~(i \in 1 .. Len(todo) - 1)
      BY <3>1
    <3> QED BY <3>2, <3>3
  <2> QED BY <2>2
<1>7. ~over => \A j \in Kinds \ {kind} : pending'[j] = <<>>
  BY <1>1, <1>3, <1>6
<1>8. HostTypeOK'
  <2>1. pending' \in [Kinds -> Seq(EventIds)]
    BY <1>1, <1>3
  <2> QED BY <1>1, <1>2, <1>3, <1>4, <2>1 DEF PendingInv, HostTypeOK
<1>9. OthersFlushed'
  <2>1. CASE ~over /\ todo' = <<Flush(kind)>>
    BY <1>4, <1>7, <2>1 DEF OthersFlushed
  <2>2. CASE ~over /\ todo' = Tail(todo)
    <3>1. todo' = <<>>
      BY <1>2, <1>5, <2>2
    <3> QED BY <3>1 DEF OthersFlushed
  <2>3. CASE over
    BY <1>1, <2>3 DEF OthersFlushed
  <2> QED BY <1>3, <2>1, <2>2, <2>3
<1>10. OneKindPending'
  BY <1>1, <1>7 DEF OneKindPending, AtLoop
<1> QED BY <1>1, <1>8, <1>9, <1>10 DEF PendingInv, BatchAtHead

(* The steps that end a flush with its kind no longer pending.             *)
LEMMA FlushedKeepsPending ==
  ASSUME PendingInv, NEW kind \in Kinds,
         todo # <<>>, Head(todo) = Flush(kind),
         over' = over, pc' = "loop",
         pending' = [pending EXCEPT ![kind] = <<>>], todo' = Tail(todo)
  PROVE  PendingInv'
<1>1. /\ pending \in [Kinds -> Seq(EventIds)] /\ todo \in Seq(Task) /\ <<>> \in Seq(EventIds)
  BY DEF PendingInv, HostTypeOK
<1>2. /\ pending'[kind] = <<>> /\ pending' \in [Kinds -> Seq(EventIds)]
      /\ \A j \in Kinds \ {kind} : pending'[j] = pending[j]
  BY <1>1
<1>3. todo' \in Seq(Task)
  BY <1>1, TailShift
<1>4. OthersFlushed' /\ OneKindPending'
  BY <1>2, FlushedKeepsOthers DEF PendingInv
<1> QED BY <1>2, <1>3, <1>4 DEF PendingInv, HostTypeOK, BatchAtHead

LEMMA HeadIs ==
  ASSUME PendingInv, NEW kind \in Kinds, Flushing(kind)
  PROVE  todo # <<>> /\ pc = "loop" /\ Head(todo) = Flush(kind)
<1>1. todo # <<>> /\ pc = "loop" /\ Head(todo).do = "flush" /\ Head(todo).kind = kind
  BY DEF Flushing, Doing
<1>2. Head(todo) \in Task
  BY <1>1, TailShift DEF PendingInv, HostTypeOK
<1> QED BY <1>1, <1>2 DEF Task, Flush, Push

(* The steps in the middle of a batch, which leave todo and pending alone. *)
LEMMA BatchKeepsPending ==
  ASSUME PendingInv, UNCHANGED <<todo, over, pending>>, todo # <<>>,
         \/ pc' = "append" /\ Head(todo) = Flush("insert")
         \/ pc' \in {"inRepair", "outRepair"} /\ Head(todo) = Flush("delete")
  PROVE  PendingInv'
BY DEF PendingInv, HostTypeOK, BatchAtHead, OthersFlushed, OneKindPending, AtLoop

(* The whole chunk is linked: what is left of the batch stays pending, and *)
(* its flush at the head.                                                  *)
LEMMA PruneKeepsPending ==
  ASSUME PendingInv, PruneInserted, ChunkLength \in Nat
  PROVE  PendingInv'
<1> DEFINE batch == pending["insert"]
           rest  == SubSeq(batch, ChunkLength + 1, Len(batch))
<1>1. todo # <<>> /\ Head(todo) = Flush("insert")
  BY DEF PendingInv, BatchAtHead, PruneInserted
<1>2. /\ pending' = [pending EXCEPT !["insert"] = rest]
      /\ todo' = IF rest = <<>> THEN Tail(todo) ELSE todo
      /\ pc' = "loop" /\ over' = over
  BY DEF PruneInserted
<1>3. pending \in [Kinds -> Seq(EventIds)] /\ batch \in Seq(EventIds) /\ "insert" \in Kinds
  BY DEF PendingInv, HostTypeOK, Kinds
<1>4. rest \in Seq(EventIds) /\ (rest # <<>> => batch # <<>>)
  <2>1. rest \in Seq(EventIds)
    BY <1>3
  <2>2. batch = <<>> => rest = <<>>
    BY SubSeqEmpty
  <2> QED BY <2>1, <2>2
<1> HIDE DEF rest, batch
<1>5. CASE rest = <<>>
  BY <1>1, <1>2, <1>3, <1>5, FlushedKeepsPending
<1>6. CASE rest # <<>>
  <2>1. todo' = todo /\ pending' \in [Kinds -> Seq(EventIds)]
    BY <1>2, <1>3, <1>4, <1>6
  <2>2. \A j \in Kinds : pending'[j] # <<>> => pending[j] # <<>>
    BY <1>2, <1>3, <1>4, <1>6 DEF batch
  <2>3. OthersFlushed'
    BY <1>2, <2>1, <2>2 DEF PendingInv, OthersFlushed
  <2> QED BY <1>1, <1>2, <2>1, <2>3
         DEF PendingInv, HostTypeOK, BatchAtHead, OneKindPending, AtLoop
<1> QED BY <1>5, <1>6

-----------------------------------------------------------------------------
(* Slots and the entry point.                                              *)

InUse == numPoints \in Nat /\ L <= numPoints /\ numPoints <= Capacity

(* The host's mirror lags behind the device while a delete is repaired.    *)
Mirrored ==
  /\ pc \in {"loop", "append"} => hostDeleted = deleted
  /\ pc \in {"inRepair", "outRepair"} => deleted = hostDeleted \cup ToSet(DeleteSlots)

EntryKept == medoid \in LiveSlots(hostDeleted) \/ emptied

HostInv == PendingInv /\ InUse /\ Mirrored /\ EntryKept

LEMMA CapacityType == Capacity \in Nat /\ L \in Nat /\ L <= Capacity
BY ScratchAssumption, IndexAssumption, FS_CardinalityType
   DEF ScratchAssumption, IndexAssumption, Capacity

LEMMA ChunkFits ==
  ASSUME HostTypeOK, InUse
  PROVE  ChunkLength \in Nat /\ numPoints + ChunkLength <= Capacity
<1>1. Len(pending["insert"]) \in Nat
  BY DEF HostTypeOK, Kinds
<1> QED BY <1>1, CapacityType DEF InUse, ChunkLength, Room

LEMMA HostInitially == Init => HostInv
<1> SUFFICES ASSUME Init PROVE HostInv
  OBVIOUS
<1>1. InUse
  BY CapacityType DEF Init, InUse
<1>2. Mirrored
  BY DEF Init, Mirrored
<1>3. EntryKept
  <2>1. medoid \in 0 .. L - 1 /\ hostDeleted = {} /\ numPoints = L
    BY IndexAssumption DEF Init, IndexAssumption
  <2> QED BY <2>1 DEF EntryKept, LiveSlots
<1> QED BY <1>1, <1>2, <1>3, PendingInitially DEF HostInv

(* Steps that leave the deletes and the entry point alone; slots are never *)
(* taken back.                                                             *)
LEMMA EntryUntouched ==
  ASSUME InUse, EntryKept, numPoints' \in Nat, numPoints <= numPoints',
         UNCHANGED <<medoid, hostDeleted, emptied>>
  PROVE  EntryKept'
<1>1. LiveSlots(hostDeleted) \subseteq LiveSlots(hostDeleted)'
  BY DEF LiveSlots, InUse
<1> QED BY <1>1 DEF EntryKept

LEMMA MirrorUntouched ==
  ASSUME Mirrored, UNCHANGED <<hostDeleted, deleted>>,
         \/ UNCHANGED <<pc, pending, pointIdToSlot>>
         \/ pc \in {"loop", "append"} /\ pc' \in {"loop", "append"}
         \/ /\ pc \in {"inRepair", "outRepair"} /\ pc' \in {"inRepair", "outRepair"}
            /\ UNCHANGED <<pending, pointIdToSlot>>
  PROVE  Mirrored'
<1>1. UNCHANGED <<pending, pointIdToSlot>> => DeleteSlots' = DeleteSlots
  BY DEF DeleteSlots, Known
<1> QED BY <1>1 DEF Mirrored

(* A delete batch is over: an entry point that was hit is replaced by the  *)
(* first live vertex, if there is one.                                     *)
LEMMA FinishKeepsEntry ==
  ASSUME InUse, Mirrored, EntryKept, FinishDelete
  PROVE  Mirrored' /\ EntryKept' /\ InUse'
<1>1. /\ hostDeleted' = hostDeleted \cup ToSet(DeleteSlots)
      /\ medoid' = IF MedoidHit(DeleteSlots) THEN FindLiveMedoid(hostDeleted') ELSE medoid
      /\ emptied' = (emptied \/ LiveSlots(hostDeleted') = {})
      /\ numPoints' = numPoints /\ deleted' = deleted
      /\ pc = "outRepair" /\ pc' = "loop"
  BY DEF FinishDelete
<1>2. Mirrored'
  BY <1>1 DEF Mirrored
<1>3. InUse'
  BY <1>1 DEF InUse
<1> PICK dead : dead = hostDeleted'
  OBVIOUS
<1>4. LiveSlots(hostDeleted)' = LiveSlots(dead)
  BY <1>1 DEF LiveSlots
<1>5. EntryKept'
  <2>1. CASE LiveSlots(dead) = {}
    BY <1>1, <2>1 DEF EntryKept
  <2>2. CASE LiveSlots(dead) # {} /\ MedoidHit(DeleteSlots)
    <3>1. LiveSlots(dead) \subseteq Nat
      BY DEF LiveSlots, InUse
    <3>2. \E x \in LiveSlots(dead) : \A u \in LiveSlots(dead) : x <= u
      BY <2>2, <3>1, SmallestOf
    <3>3. FindLiveMedoid(dead) \in LiveSlots(dead)
      BY <2>2, <3>2 DEF FindLiveMedoid
    <3>4. medoid' = FindLiveMedoid(dead)
      BY <1>1, <2>2
    <3> QED BY <1>4, <3>3, <3>4 DEF EntryKept
  <2>3. CASE LiveSlots(dead) # {} /\ ~MedoidHit(DeleteSlots)
    <3>1. medoid' = medoid
      BY <1>1, <2>3
    <3>2. medoid \in LiveSlots(hostDeleted) => medoid \in LiveSlots(dead)
      BY <1>1, <2>3 DEF LiveSlots, MedoidHit
    <3> QED BY <1>1, <1>4, <3>1, <3>2 DEF EntryKept
  <2> QED BY <2>1, <2>2, <2>3
<1> QED BY <1>2, <1>3, <1>5

-----------------------------------------------------------------------------
(* Every step.                                                             *)

LEMMA HostStep == HostInv /\ [Next]_vars => HostInv'
<1> SUFFICES ASSUME HostInv, [Next]_vars PROVE HostInv'
  OBVIOUS
<1> USE DEF HostInv
<1>0. ChunkLength \in Nat /\ numPoints + ChunkLength <= Capacity
  BY ChunkFits DEF PendingInv
<1>a. ASSUME PendingInv', UNCHANGED <<medoid, hostDeleted, emptied, numPoints, deleted>>,
             \/ UNCHANGED <<pc, pending, pointIdToSlot>>
             \/ pc \in {"loop", "append"} /\ pc' \in {"loop", "append"}
             \/ /\ pc \in {"inRepair", "outRepair"} /\ pc' \in {"inRepair", "outRepair"}
                /\ UNCHANGED <<pending, pointIdToSlot>>
      PROVE  HostInv'
  <2>1. InUse'
    BY <1>a DEF InUse
  <2>2. EntryKept'
    BY <1>a, EntryUntouched DEF InUse
  <2>3. Mirrored'
    BY <1>a, MirrorUntouched
  <2> QED BY <1>a, <2>1, <2>2, <2>3
<1>1. ASSUME NEW kind \in Kinds, Event(kind) PROVE HostInv'
  <2>1. UNCHANGED <<pc, pending, pointIdToSlot, medoid, hostDeleted, emptied, numPoints, deleted>>
    BY <1>1 DEF Event, graphVars, historyVars
  <2> QED BY <1>1, <1>a, <2>1, EventKeepsPending
<1>2. CASE EventsOver
  <2>1. UNCHANGED <<pc, pending, pointIdToSlot, medoid, hostDeleted, emptied, numPoints, deleted>>
    BY <1>2 DEF EventsOver, graphVars, historyVars
  <2>2. PendingInv'
    <3>1. \A k \in Kinds : DueFlush(k) \in Seq(Task)
      BY DueFlushIs
    <3>2. todo' \in Seq(Task)
      BY <1>2, <3>1, ConcatProperties DEF EventsOver, Kinds
    <3> QED BY <1>2, <2>1, <3>2 DEF EventsOver, AtLoop, PendingInv, HostTypeOK, BatchAtHead,
               OthersFlushed, OneKindPending
  <2> QED BY <1>a, <2>1, <2>2
<1>3. CASE PushEvent
  <2>1. UNCHANGED <<medoid, hostDeleted, emptied, numPoints, deleted>>
        /\ pc = "loop" /\ pc' = "loop"
    BY <1>3 DEF PushEvent, Doing, graphVars
  <2> QED BY <1>3, <1>a, <2>1, PushKeepsPending
<1>4. CASE GiveUp
  <2>1. UNCHANGED <<medoid, hostDeleted, emptied, numPoints, deleted>>
        /\ pc = "loop" /\ pc' = "loop"
    BY <1>4 DEF GiveUp, Flushing, Doing, graphVars, historyVars
  <2>2. PendingInv'
    BY <1>4, <2>1, HeadIs, FlushedKeepsPending DEF GiveUp, Leave, Kinds
  <2> QED BY <1>a, <2>1, <2>2
<1>5. CASE InsertChunk
  <2>1. /\ UNCHANGED <<medoid, hostDeleted, emptied, numPoints, deleted, todo, over, pending>>
        /\ pc = "loop" /\ pc' = "append" /\ todo # <<>> /\ Head(todo) = Flush("insert")
    BY <1>5, HeadIs DEF InsertChunk, historyVars, Kinds
  <2>2. PendingInv'
    BY <2>1, BatchKeepsPending
  <2> QED BY <1>a, <2>1, <2>2
<1>6. CASE PruneInserted
  <2>1. /\ UNCHANGED <<medoid, hostDeleted, emptied, deleted>>
        /\ pc = "append" /\ pc' = "loop" /\ numPoints' = numPoints + ChunkLength
    BY <1>6 DEF PruneInserted
  <2>2. PendingInv'
    BY <1>0, <1>6, PruneKeepsPending
  <2>3. InUse' /\ numPoints <= numPoints' /\ numPoints' \in Nat
    BY <1>0, <2>1, CapacityType DEF InUse
  <2>4. EntryKept' /\ Mirrored'
    BY <2>1, <2>3, EntryUntouched, MirrorUntouched
  <2> QED BY <2>2, <2>3, <2>4
<1>7. CASE NothingToDelete
  <2>1. UNCHANGED <<medoid, hostDeleted, emptied, numPoints, deleted>>
        /\ pc = "loop" /\ pc' = "loop"
    BY <1>7 DEF NothingToDelete, Flushing, Doing, graphVars, historyVars
  <2>2. PendingInv'
    BY <1>7, <2>1, HeadIs, FlushedKeepsPending DEF NothingToDelete, Kinds
  <2> QED BY <1>a, <2>1, <2>2
<1>8. CASE MarkDeleted
  <2>1. /\ UNCHANGED <<medoid, hostDeleted, emptied, numPoints, todo, over, pending, pointIdToSlot>>
        /\ deleted' = deleted \cup ToSet(DeleteSlots)
        /\ pc = "loop" /\ pc' = "inRepair" /\ todo # <<>> /\ Head(todo) = Flush("delete")
    BY <1>8, HeadIs DEF MarkDeleted, historyVars, Kinds
  <2>2. PendingInv'
    BY <2>1, BatchKeepsPending
  <2>3. Mirrored'
    <3>1. DeleteSlots' = DeleteSlots
      BY <2>1 DEF DeleteSlots, Known
    <3> QED BY <2>1, <3>1 DEF Mirrored
  <2>4. InUse' /\ EntryKept'
    BY <2>1, EntryUntouched DEF InUse
  <2> QED BY <2>2, <2>3, <2>4
<1>9. CASE LaunchOutRepair
  <2>1. /\ UNCHANGED <<medoid, hostDeleted, emptied, numPoints, deleted, todo, over, pending,
                       pointIdToSlot>>
        /\ pc = "inRepair" /\ pc' = "outRepair"
    BY <1>9 DEF LaunchOutRepair, graphVars, historyVars
  <2>2. PendingInv'
    BY <2>1, BatchKeepsPending DEF PendingInv, BatchAtHead
  <2> QED BY <1>a, <2>1, <2>2
<1>10. CASE FinishDelete
  <2>1. /\ pc = "outRepair" /\ pc' = "loop" /\ over' = over /\ todo' = Tail(todo)
        /\ pending' = [pending EXCEPT !["delete"] = <<>>]
    BY <1>10 DEF FinishDelete
  <2>2. PendingInv'
    BY <2>1, FlushedKeepsPending DEF PendingInv, BatchAtHead, Kinds
  <2> QED BY <1>10, <2>2, FinishKeepsEntry
<1>11. CASE FlushQueries
  <2>1. UNCHANGED <<medoid, hostDeleted, emptied, numPoints, deleted>>
        /\ pc = "loop" /\ pc' = "loop"
    BY <1>11 DEF FlushQueries, Flushing, Doing, graphVars
  <2>2. PendingInv'
    BY <1>11, <2>1, HeadIs, FlushedKeepsPending DEF FlushQueries, Kinds
  <2> QED BY <1>a, <2>1, <2>2
<1>12. CASE UNCHANGED <<hostVars, graphVars, historyVars>>
  <2>1. UNCHANGED <<todo, pc, over, pending, pointIdToSlot, medoid, hostDeleted, emptied,
                    numPoints, deleted>>
    BY <1>12 DEF hostVars, graphVars, historyVars
  <2>2. PendingInv'
    BY <2>1 DEF PendingInv, HostTypeOK, BatchAtHead, OthersFlushed, OneKindPending, AtLoop
  <2> QED BY <1>a, <2>1, <2>2
<1>13. CASE Kernels
  BY <1>12, <1>13 DEF Kernels
<1>14. CASE UNCHANGED vars
  BY <1>12, <1>14 DEF vars
<1> QED BY <1>1, <1>2, <1>3, <1>4, <1>5, <1>6, <1>7, <1>8, <1>9, <1>10, <1>11, <1>13, <1>14
        DEF Next, Loop, Batch

LEMMA HostInvariant == Spec => []HostInv
BY HostInitially, HostStep, PTL DEF Spec

(* fda2_executor.h:81: whatever the order of the events and the sizes of   *)
(* the batches, only one kind of operation is pending between two events.  *)
THEOREM OneKindHolds == Spec => []OneKindPending
<1>1. HostInv => OneKindPending
  BY DEF HostInv, PendingInv
<1> QED BY <1>1, HostInvariant, PTL

(* fda2_executor.h:67-70: between two kernels the mirror agrees with the   *)
(* device and searches start at a live vertex, unless everything was       *)
(* deleted at some time.                                                   *)
THEOREM EntryPointHolds == Spec => []EntryPointLive
<1>1. HostInv => EntryPointLive
  BY DEF HostInv, Mirrored, EntryKept, EntryPointLive
<1> QED BY <1>1, HostInvariant, PTL

(* No insert batch, cut to what is free, takes a slot past the capacity.   *)
THEOREM SlotsSuffice == Spec => [](numPoints <= Capacity)
<1>1. HostInv => numPoints <= Capacity
  BY DEF HostInv, InUse
<1> QED BY <1>1, HostInvariant, PTL

-----------------------------------------------------------------------------
(* Points and slots.                                                       *)

(* The slots given out: those of a chunk, from the first of its kernels.   *)
InHand == numPoints + (IF pc = "append" THEN ChunkLength ELSE 0)

(* A point that was ever inserted is mapped to the slot it has last, and   *)
(* that slot to it, although a mapping is never removed.                   *)
MapsAgree ==
  /\ slotToPointId \in [Slots -> Pids \cup {NoPid}]
  /\ DOMAIN pointIdToSlot \subseteq Pids
  /\ \A q \in DOMAIN pointIdToSlot :
       pointIdToSlot[q] \in 0 .. InHand - 1 /\ slotToPointId[pointIdToSlot[q]] = q
  /\ pc = "append" =>
       /\ ChunkLength > 0
       /\ \A i \in 1 .. ChunkLength : slotToPointId[NewSlot(i)] = pending["insert"][i]
  /\ deleted \subseteq 0 .. numPoints - 1

(* What is pending is what was asked for and still stands: a point is not  *)
(* wanted while its delete is pending, and as long as there is room the    *)
(* inserts not carried out are the pending ones.                           *)
RequestsKept ==
  /\ \A kind \in Kinds : pending[kind] \in Seq(IdsOf[kind])
  /\ \A i \in DOMAIN todo : todo[i].do = "push" => ~over /\ todo[i].id \in IdsOf[todo[i].kind]
  /\ \A q \in ToSet(pending["delete"]) : q \notin want
  /\ numPoints < Capacity => due = ToSet(pending["insert"])

StoreInv == HostInv /\ MapsAgree /\ RequestsKept

LEMMA SlotsType == Slots = 0 .. Capacity - 1
BY IndexAssumption DEF IndexAssumption

LEMMA StoreInitially == Init => MapsAgree /\ RequestsKept
<1> SUFFICES ASSUME Init PROVE MapsAgree /\ RequestsKept
  OBVIOUS
<1>1. /\ L \in Nat /\ L <= Capacity /\ Capacity \in Nat /\ Slots = 0 .. Capacity - 1
      /\ 0 .. L - 1 \subseteq Pids
  BY CapacityType, IndexAssumption DEF IndexAssumption
<1>2. MapsAgree
  BY <1>1 DEF Init, MapsAgree, InHand
<1>3. RequestsKept
  BY DEF Init, RequestsKept, Kinds, ToSet
<1> QED BY <1>2, <1>3

(* Steps that leave the slots alone, and take no chunk or keep the one.    *)
LEMMA MapsUntouched ==
  ASSUME MapsAgree, UNCHANGED <<slotToPointId, pointIdToSlot, numPoints, deleted>>,
         UNCHANGED <<pc, pending>> \/ (pc # "append" /\ pc' # "append")
  PROVE  MapsAgree'
<1>1. CASE UNCHANGED <<pc, pending>>
  <2>1. ChunkLength' = ChunkLength /\ InHand' = InHand /\ \A i : NewSlot(i)' = NewSlot(i)
    BY <1>1 DEF ChunkLength, Room, InHand, NewSlot
  <2> QED BY <1>1, <2>1 DEF MapsAgree
<1>2. CASE pc # "append" /\ pc' # "append"
  BY <1>2 DEF MapsAgree, InHand
<1> QED BY <1>1, <1>2

LEMMA TailTodo ==
  ASSUME HostTypeOK, RequestsKept, todo # <<>>, over' = over, todo' = Tail(todo)
  PROVE  \A i \in DOMAIN todo' : todo'[i].do = "push" =>
           ~over' /\ todo'[i].id \in IdsOf[todo'[i].kind]
<1>1. /\ todo \in Seq(Task) /\ Tail(todo) \in Seq(Task) /\ Len(Tail(todo)) = Len(todo) - 1
      /\ \A i \in 1 .. Len(todo) - 1 : Tail(todo)[i] = todo[i + 1]
      /\ Len(todo) \in Nat
  BY TailShift DEF HostTypeOK
<1>2. DOMAIN todo = 1 .. Len(todo) /\ DOMAIN Tail(todo) = 1 .. Len(todo) - 1
  BY <1>1, LenProperties
<1> QED BY <1>1, <1>2 DEF RequestsKept

(* A flush leaves less of its kind pending, and wants nothing new.         *)
LEMMA FlushKeepsRequests ==
  ASSUME HostTypeOK, RequestsKept, NEW kind \in Kinds, NEW rest \in Seq(IdsOf[kind]),
         ToSet(rest) \subseteq ToSet(pending[kind]),
         pending' = [pending EXCEPT ![kind] = rest],
         todo' = todo \/ (todo # <<>> /\ todo' = Tail(todo)),
         UNCHANGED <<over, want>>,
         numPoints' < Capacity => due' = ToSet(pending'["insert"])
  PROVE  RequestsKept'
<1>1. pending \in [Kinds -> Seq(EventIds)]
  BY DEF HostTypeOK
<1>2. /\ pending'[kind] = rest
      /\ \A j \in Kinds \ {kind} : pending'[j] = pending[j]
  BY <1>1
<1>3. \A j \in Kinds : pending'[j] \in Seq(IdsOf[j])
  BY <1>2 DEF RequestsKept
<1>4. "delete" \in Kinds /\ ToSet(pending'["delete"]) \subseteq ToSet(pending["delete"])
  BY <1>2 DEF Kinds
<1>5. \A i \in DOMAIN todo' : todo'[i].do = "push" =>
           ~over' /\ todo'[i].id \in IdsOf[todo'[i].kind]
  BY TailTodo DEF RequestsKept
<1> QED BY <1>3, <1>4, <1>5 DEF RequestsKept

LEMMA NothingIsFlush ==
  ASSUME NEW kind
  PROVE  <<>> \in Seq(IdsOf[kind]) /\ ToSet(<<>>) \subseteq ToSet(pending[kind]) /\ ToSet(<<>>) = {}
BY DEF ToSet

LEMMA EventKeepsRequests ==
  ASSUME HostTypeOK, RequestsKept, NEW kind \in Kinds, Event(kind)
  PROVE  RequestsKept'
<1>1. PICK id \in IdsOf[kind] : todo' = FlushedFirst(kind) \o <<Push(kind, id)>>
  BY DEF Event
<1>2. UNCHANGED <<over, pending, numPoints, want, due>> /\ ~over
  BY DEF Event, AtLoop, graphVars, historyVars
<1>3. id \in EventIds
  BY <1>1, IndexAssumption DEF IndexAssumption, EventIds, Kinds
<1>4. PICK s \in Seq(Task) : s = FlushedFirst(kind) /\ \A i \in 1 .. Len(s) : s[i].do = "flush"
  BY FlushedFirstFlushes DEF AllFlushes
<1>5. PICK last : last = <<Push(kind, id)>>
  OBVIOUS
<1>6. last \in Seq(Task) /\ Len(last) = 1 /\ last[1] = Push(kind, id)
  BY <1>3, <1>5, TasksAre
<1>7. \A i \in DOMAIN todo' : todo'[i].do = "push" => todo'[i] = Push(kind, id)
  <2>1. /\ s \o last \in Seq(Task) /\ Len(s \o last) = Len(s) + 1 /\ Len(s) \in Nat
        /\ \A i \in 1 .. Len(s) + 1 :
             (s \o last)[i] = IF i <= Len(s) THEN s[i] ELSE last[i - Len(s)]
    <3>1. /\ s \o last \in Seq(Task) /\ Len(s \o last) = Len(s) + Len(last)
          /\ \A i \in 1 .. Len(s) + Len(last) :
               (s \o last)[i] = IF i <= Len(s) THEN s[i] ELSE last[i - Len(s)]
      BY <1>6, ConcatProperties
    <3>2. Len(s) \in Nat
      BY LenProperties
    <3> QED BY <1>6, <3>1, <3>2
  <2>2. DOMAIN (s \o last) = 1 .. Len(s) + 1
    BY <2>1, LenProperties
  <2>3. todo' = s \o last
    BY <1>1, <1>4, <1>5
  <2> QED BY <1>4, <1>6, <2>1, <2>2, <2>3
<1>8. \A i \in DOMAIN todo' : todo'[i].do = "push" =>
           ~over' /\ todo'[i].id \in IdsOf[todo'[i].kind]
  BY <1>1, <1>2, <1>7 DEF Push
<1> QED BY <1>2, <1>8 DEF RequestsKept

LEMMA EndKeepsRequests ==
  ASSUME HostTypeOK, RequestsKept, EventsOver
  PROVE  RequestsKept'
<1>1. UNCHANGED <<pending, numPoints, want, due>>
  BY DEF EventsOver, graphVars, historyVars
<1>2. AllFlushes(todo')
  BY DueFlushes, MoreFlushes DEF EventsOver, Kinds
<1>3. \A i \in DOMAIN todo' : todo'[i].do = "flush"
  BY <1>2, LenProperties DEF AllFlushes
<1> QED BY <1>1, <1>3 DEF RequestsKept

(* What PushEvent does: nothing of another kind is pending then.           *)
Pushed(kind, id) ==
  /\ Head(todo) = Push(kind, id)
  /\ ~over
  /\ pending' = [pending EXCEPT ![kind] = Append(@, id)]
  /\ todo' = <<Flush(kind)>> \/ todo' = Tail(todo)
  /\ want' = CASE kind = "insert" -> want \cup {id}
               [] kind = "delete" -> want \ {id}
               [] kind = "query"  -> want
  /\ due' = IF kind = "insert" THEN due \cup {id} ELSE due
  /\ \A j \in Kinds \ {kind} : pending[j] = <<>>

LEMMA PushIs ==
  ASSUME PendingInv, RequestsKept, PushEvent
  PROVE  \E kind \in Kinds : \E id \in IdsOf[kind] : Pushed(kind, id)
<1>1. /\ todo # <<>> /\ Head(todo).do = "push" /\ todo \in Seq(Task)
  BY DEF PushEvent, Doing, PendingInv, HostTypeOK
<1>2. /\ Head(todo) \in Task /\ Head(todo) = todo[1] /\ 1 \in DOMAIN todo
      /\ Len(todo) \in Nat /\ Len(todo) > 0
  BY <1>1, TailShift, LenProperties
<1>3. PICK kind \in Kinds, id \in EventIds : Head(todo) = Push(kind, id)
  BY <1>1, <1>2 DEF Task, Flush, Push
<1>4. ~over /\ id \in IdsOf[kind]
  BY <1>1, <1>2, <1>3 DEF RequestsKept, Push
<1>5. Len(todo) = 1
  <2>1. todo[1].do = "push"
    BY <1>1, <1>2
  <2>2. ~(1 \in 1 .. Len(todo) - 1)
    BY <1>1, <1>4, <2>1 DEF PendingInv, OthersFlushed
  <2>3. \A n \in Nat : n > 0 /\ ~(1 \in 1 .. n - 1) => n = 1
    OBVIOUS
  <2> QED BY <1>2, <2>2, <2>3
<1>6. \A j \in Kinds \ {kind} : pending[j] = <<>>
  <2>1. todo[Len(todo)].kind = kind
    BY <1>2, <1>3, <1>5 DEF Push
  <2>2. \A i \in 1 .. Len(todo) - 1 : FALSE
    BY <1>5
  <2> QED BY <1>1, <1>4, <2>1, <2>2 DEF PendingInv, OthersFlushed
<1>7. Head(todo).kind = kind /\ Head(todo).id = id
  BY <1>3 DEF Push
<1> QED BY <1>3, <1>4, <1>6, <1>7 DEF PushEvent, Pushed

LEMMA PushKeepsRequests ==
  ASSUME PendingInv, RequestsKept, PushEvent
  PROVE  RequestsKept'
<1>1. UNCHANGED <<over, numPoints>> /\ todo # <<>>
  BY DEF PushEvent, Doing, graphVars
<1>2. pending \in [Kinds -> Seq(EventIds)] /\ HostTypeOK
  BY DEF PendingInv, HostTypeOK
<1>3. PICK kind \in Kinds : \E id \in IdsOf[kind] : Pushed(kind, id)
  BY PushIs
<1> PICK id \in IdsOf[kind] : Pushed(kind, id)
  BY <1>3
<1> USE DEF Pushed
<1>4. PICK batch \in Seq(IdsOf[kind]) : batch = pending[kind]
  BY DEF RequestsKept
<1>5. PICK more \in Seq(IdsOf[kind]) : more = Append(batch, id)
  BY AppendProperties
<1>6. /\ pending'[kind] = more
      /\ \A j \in Kinds \ {kind} : pending'[j] = pending[j]
  BY <1>2, <1>3, <1>4, <1>5
<1>7. ToSet(more) = ToSet(batch) \cup {id}
  <2>1. /\ Len(batch) \in Nat /\ Len(more) = Len(batch) + 1
        /\ DOMAIN batch = 1 .. Len(batch) /\ DOMAIN more = 1 .. Len(batch) + 1
        /\ \A i \in 1 .. Len(batch) : more[i] = batch[i]
        /\ more[Len(batch) + 1] = id
    BY <1>5, AppendProperties, LenProperties
  <2> QED BY <2>1 DEF ToSet
<1>8. \A j \in Kinds : pending'[j] \in Seq(IdsOf[j])
  BY <1>6 DEF RequestsKept
<1>9. \A i \in DOMAIN todo' : todo'[i].do = "push" =>
           ~over' /\ todo'[i].id \in IdsOf[todo'[i].kind]
  <2>1. CASE todo' = <<Flush(kind)>>
    BY <2>1 DEF Flush
  <2>2. CASE todo' = Tail(todo)
    BY <1>1, <1>2, <2>2, TailTodo
  <2> QED BY <1>3, <2>1, <2>2
<1>10. \A q \in ToSet(pending'["delete"]) : q \notin want'
  <2>1. CASE kind = "delete"
    BY <1>3, <1>4, <1>6, <1>7, <2>1 DEF RequestsKept
  <2>2. CASE kind # "delete"
    <3>1. pending'["delete"] = <<>>
      BY <1>3, <1>6, <2>2 DEF Kinds
    <3> QED BY <3>1 DEF ToSet
  <2> QED BY <2>1, <2>2
<1>11. numPoints' < Capacity => due' = ToSet(pending'["insert"])
  <2>1. Capacity' = Capacity
    BY DEF Capacity
  <2>2. CASE kind = "insert"
    BY <1>1, <1>3, <1>4, <1>6, <1>7, <2>2 DEF RequestsKept
  <2>3. CASE kind # "insert"
    BY <1>1, <1>3, <1>6, <2>3 DEF RequestsKept, Kinds
  <2> QED BY <2>2, <2>3
<1> QED BY <1>8, <1>9, <1>10, <1>11 DEF RequestsKept

(* A chunk that leaves a free slot is the whole batch.                     *)
LEMMA ChunkIs ==
  ASSUME HostTypeOK, InUse
  PROVE  /\ ChunkLength <= Len(pending["insert"])
         /\ numPoints + ChunkLength < Capacity => ChunkLength = Len(pending["insert"])
<1>1. Len(pending["insert"]) \in Nat
  BY DEF HostTypeOK, Kinds
<1> QED BY <1>1, CapacityType DEF InUse, ChunkLength, Room

(* A point of a chunk is mapped to the slot of the last event that names it. *)
LEMMA LastWithIs ==
  ASSUME NEW T, NEW batch \in Seq(T), NEW p \in ToSet(batch)
  PROVE  LastWith(batch, p) \in 1 .. Len(batch) /\ batch[LastWith(batch, p)] = p
<1>1. Len(batch) \in Nat /\ DOMAIN batch = 1 .. Len(batch)
  BY LenProperties
<1>2. PICK N \in Nat : N = Len(batch)
  BY <1>1
<1> DEFINE Later == {N - i : i \in {j \in 1 .. N : batch[j] = p}}
<1>3. Later \in SUBSET Nat /\ Later # {}
  BY <1>1, <1>2 DEF ToSet
<1>4. \E m \in Later : \A u \in Later : m <= u
  <2> HIDE DEF Later
  <2> QED BY <1>3, SmallestOf
<1>5. PICK i \in 1 .. N : batch[i] = p /\ \A u \in Later : N - i <= u
  BY <1>4
<1>6. ASSUME NEW j \in 1 .. N, j > i PROVE batch[j] # p
  <2>1. batch[j] = p => N - j \in Later
    BY <1>6
  <2>2. N - j < N - i
    BY <1>6
  <2> HIDE DEF Later
  <2>3. batch[j] = p => N - i <= N - j
    BY <1>5, <2>1
  <2> QED BY <2>2, <2>3
<1>7. \E k \in DOMAIN batch : batch[k] = p /\ \A j \in DOMAIN batch : j > k => batch[j] # p
  BY <1>1, <1>2, <1>5, <1>6
<1> QED BY <1>1, <1>7 DEF LastWith

(* What InsertChunk does to the maps, for a chunk that starts at first.    *)
ChunkMapped(first, n, chunk, old, new, oldIds, newIds) ==
  /\ new = [p \in DOMAIN old \cup ToSet(chunk) |->
              IF p \in ToSet(chunk) THEN first + LastWith(chunk, p) - 1 ELSE old[p]]
  /\ newIds = [s \in Slots |-> IF s >= first /\ s < first + n
                               THEN chunk[s - first + 1] ELSE oldIds[s]]

(* The maps agree on the slots before bound.                               *)
MapsOf(map, ids, bound) ==
  /\ ids \in [Slots -> Pids \cup {NoPid}]
  /\ DOMAIN map \subseteq Pids
  /\ \A q \in DOMAIN map : map[q] \in 0 .. bound - 1 /\ ids[map[q]] = q

LEMMA ChunkKeepsMaps ==
  ASSUME NEW first \in Nat, NEW n \in Nat, first + n <= Capacity,
         NEW chunk \in Seq(Pids), Len(chunk) = n,
         NEW old, NEW oldIds, MapsOf(old, oldIds, first),
         NEW new, NEW newIds, ChunkMapped(first, n, chunk, old, new, oldIds, newIds)
  PROVE  MapsOf(new, newIds, first + n) /\ \A i \in 1 .. n : newIds[first + i - 1] = chunk[i]
<1> USE DEF MapsOf
<1>1. Slots = 0 .. Capacity - 1 /\ Capacity \in Nat
  BY SlotsType, CapacityType
<1>2. \A i \in 1 .. n : chunk[i] \in Pids
  BY ElementOfSeq
<1>3. ToSet(chunk) \subseteq Pids
  BY EntriesOf
<1>4. newIds \in [Slots -> Pids \cup {NoPid}]
  <2>1. \A s \in Slots : s >= first /\ s < first + n => s - first + 1 \in 1 .. n
    BY <1>1
  <2> QED BY <1>2, <2>1 DEF ChunkMapped
<1>5. \A i \in 1 .. n : newIds[first + i - 1] = chunk[i]
  <2> SUFFICES ASSUME NEW i \in 1 .. n PROVE newIds[first + i - 1] = chunk[i]
    OBVIOUS
  <2>1. PICK s \in Slots : s = first + i - 1 /\ s >= first /\ s < first + n /\ s - first + 1 = i
    BY <1>1
  <2> QED BY <2>1 DEF ChunkMapped
<1>6. ASSUME NEW q \in DOMAIN new
      PROVE  new[q] \in 0 .. first + n - 1 /\ newIds[new[q]] = q
  <2>1. CASE q \in ToSet(chunk)
    <3>1. PICK i \in 1 .. n : i = LastWith(chunk, q) /\ chunk[i] = q
      BY <2>1, LastWithIs
    <3>2. new[q] = first + i - 1
      BY <2>1, <3>1 DEF ChunkMapped
    <3> QED BY <1>5, <3>1, <3>2
  <2>2. CASE q \notin ToSet(chunk)
    <3>1. q \in DOMAIN old /\ new[q] = old[q]
      BY <1>6, <2>2 DEF ChunkMapped
    <3>2. PICK s \in 0 .. first - 1 : s = old[q] /\ oldIds[s] = q
      BY <3>1
    <3>3. s \in Slots /\ newIds[s] = oldIds[s]
      BY <1>1 DEF ChunkMapped
    <3> QED BY <3>1, <3>2, <3>3
  <2> QED BY <2>1, <2>2
<1>7. DOMAIN new \subseteq Pids
  BY <1>3 DEF ChunkMapped
<1> QED BY <1>4, <1>5, <1>6, <1>7

LEMMA InsertKeepsMaps ==
  ASSUME HostTypeOK, InUse, MapsAgree, RequestsKept, InsertChunk
  PROVE  MapsAgree'
<1>1. ChunkLength \in Nat /\ numPoints \in Nat /\ numPoints + ChunkLength <= Capacity
      /\ ChunkLength <= Len(pending["insert"])
  BY ChunkFits, ChunkIs DEF InUse
<1>2. PICK n \in Nat : n = ChunkLength
  BY <1>1
<1>3. PICK first \in Nat : first = numPoints
  BY <1>1
<1>4. PICK batch \in Seq(Pids) : batch = pending["insert"]
  <2>1. pending["insert"] \in Seq(IdsOf["insert"]) /\ IdsOf["insert"] \subseteq Pids
    BY IndexAssumption DEF RequestsKept, Kinds, IndexAssumption
  <2>2. \A i \in 1 .. Len(pending["insert"]) : pending["insert"][i] \in Pids
    BY <2>1, ElementOfSeq
  <2>3. pending["insert"] \in [1 .. Len(pending["insert"]) -> Pids]
    BY <2>1, <2>2, LenProperties
  <2> QED BY <2>1, <2>3, SeqDef, LenProperties
<1>5. /\ SubSeq(batch, 1, n) \in Seq(Pids) /\ Len(SubSeq(batch, 1, n)) = n
      /\ \A i \in 1 .. n : SubSeq(batch, 1, n)[i] = batch[i]
  <2>1. \A i \in 1 .. n : batch[i] \in Pids
    BY <1>1, <1>2, <1>4, ElementOfSeq
  <2>2. n > 0
    BY <1>2 DEF InsertChunk
  <2> QED BY <2>1, <2>2, <1>1, <1>2, <1>4, SubSeqProperties
<1>6. PICK chunk \in Seq(Pids) :
        chunk = SubSeq(batch, 1, n) /\ Len(chunk) = n /\ \A i \in 1 .. n : chunk[i] = batch[i]
  BY <1>5
<1>7. ChunkMapped(first, n, chunk, pointIdToSlot, pointIdToSlot', slotToPointId, slotToPointId')
  BY <1>2, <1>3, <1>4, <1>6 DEF InsertChunk, ChunkMapped, NewSlot
<1>8. /\ pc # "append" /\ pc' = "append"
      /\ UNCHANGED <<pending, numPoints, deleted>> /\ ChunkLength > 0
  BY DEF InsertChunk, Flushing, Doing
<1>9. MapsOf(pointIdToSlot, slotToPointId, first)
  BY <1>3, <1>8 DEF MapsAgree, InHand, MapsOf
<1>10. /\ MapsOf(pointIdToSlot', slotToPointId', first + n)
       /\ \A i \in 1 .. n : slotToPointId'[first + i - 1] = chunk[i]
  <2>1. first + n <= Capacity
    BY <1>1, <1>2, <1>3
  <2>2. PICK old, oldIds, new, newIds :
          /\ old = pointIdToSlot /\ oldIds = slotToPointId
          /\ new = pointIdToSlot' /\ newIds = slotToPointId'
    OBVIOUS
  <2>3. MapsOf(old, oldIds, first) /\ ChunkMapped(first, n, chunk, old, new, oldIds, newIds)
    BY <1>7, <1>9, <2>2
  <2>4. n \in Nat /\ first \in Nat /\ chunk \in Seq(Pids) /\ Len(chunk) = n
    BY <1>2, <1>3, <1>6
  <2>5. MapsOf(new, newIds, first + n) /\ \A i \in 1 .. n : newIds[first + i - 1] = chunk[i]
    BY <2>1, <2>3, <2>4, ChunkKeepsMaps
  <2> QED BY <2>2, <2>5
<1>11. ChunkLength' = n /\ InHand' = first + n /\ (\A i : NewSlot(i)' = first + i - 1)
       /\ Slots' = Slots /\ Pids' = Pids
  <2>1. ChunkLength' = n
    BY <1>2, <1>8 DEF ChunkLength, Room, Capacity
  <2> QED BY <1>3, <1>8, <2>1 DEF InHand, NewSlot
<1> QED BY <1>2, <1>3, <1>4, <1>6, <1>8, <1>10, <1>11 DEF MapsAgree, MapsOf

LEMMA LinkedKeepsStore ==
  ASSUME HostTypeOK, InUse, MapsAgree, RequestsKept, BatchAtHead, PruneInserted
  PROVE  MapsAgree' /\ RequestsKept'
<1>1. /\ ChunkLength \in Nat /\ numPoints \in Nat /\ numPoints + ChunkLength <= Capacity
      /\ ChunkLength <= Len(pending["insert"]) /\ Capacity \in Nat
      /\ numPoints + ChunkLength < Capacity => ChunkLength = Len(pending["insert"])
  BY ChunkFits, ChunkIs, CapacityType DEF InUse
<1>2. /\ pc = "append" /\ pc' = "loop" /\ numPoints' = numPoints + ChunkLength
      /\ UNCHANGED <<over, pointIdToSlot, slotToPointId, deleted, want>>
      /\ todo # <<>>
  BY DEF PruneInserted, BatchAtHead
<1>3. PICK n \in Nat : n = ChunkLength
  BY <1>1
<1>4. PICK batch \in Seq(IdsOf["insert"]) : batch = pending["insert"]
  BY DEF RequestsKept, Kinds
<1>5. PICK rest : rest = SubSeq(batch, n + 1, Len(batch))
  OBVIOUS
<1>6. MapsAgree'
  <2>1. InHand' = InHand
    BY <1>2 DEF InHand
  <2>2. deleted \subseteq 0 .. numPoints - 1 => deleted \subseteq 0 .. numPoints' - 1
    BY <1>1, <1>2
  <2> QED BY <1>2, <2>1, <2>2 DEF MapsAgree
<1>7. rest \in Seq(IdsOf["insert"]) /\ ToSet(rest) \subseteq ToSet(batch)
  <2>1. CASE n = Len(batch)
    <3>1. rest = <<>>
      BY <1>5, <2>1, SubSeqEmpty
    <3> QED BY <3>1, EmptySeq DEF ToSet
  <2>2. CASE n # Len(batch)
    <3>1. n + 1 \in 1 .. Len(batch) /\ Len(batch) \in Nat
      BY <1>1, <1>3, <1>4, <2>2, LenProperties
    <3>2. PICK m \in Int, e \in Int : m = n + 1 /\ e = Len(batch)
      BY <3>1
    <3>3. /\ rest \in Seq(IdsOf["insert"]) /\ Len(rest) = Len(batch) - n
          /\ \A i \in 1 .. Len(batch) - n : rest[i] = batch[n + i]
      <4>1. \A i \in m .. e : batch[i] \in IdsOf["insert"]
        BY <1>4, <3>1, <3>2, ElementOfSeq
      <4>2. /\ rest \in Seq(IdsOf["insert"])
            /\ Len(rest) = IF m <= e THEN e - m + 1 ELSE 0
            /\ \A i \in 1 .. e - m + 1 : rest[i] = batch[m + i - 1]
        <5>1. PICK T : T = IdsOf["insert"]
          OBVIOUS
        <5>2. m \in Int /\ e \in Int /\ \A i \in m .. e : batch[i] \in T
          BY <3>2, <4>1, <5>1
        <5>3. SubSeq(batch, m, e) \in Seq(T)
          BY <5>2, SubSeqProperties
        <5>4. Len(SubSeq(batch, m, e)) = IF m <= e THEN e - m + 1 ELSE 0
          BY <5>2, SubSeqProperties
        <5>5. \A i \in 1 .. e - m + 1 : SubSeq(batch, m, e)[i] = batch[m + i - 1]
          BY <5>2, SubSeqProperties
        <5> QED BY <1>5, <3>2, <5>1, <5>3, <5>4, <5>5
      <4> QED BY <3>1, <3>2, <4>2
    <3>4. DOMAIN rest = 1 .. Len(batch) - n /\ DOMAIN batch = 1 .. Len(batch)
      BY <1>4, <3>3, LenProperties
    <3>5. \A i \in 1 .. Len(batch) - n : rest[i] \in ToSet(batch)
      BY <3>1, <3>3, <3>4 DEF ToSet
    <3> QED BY <3>3, <3>4, <3>5 DEF ToSet
  <2> QED BY <2>1, <2>2
<1>8. pending' = [pending EXCEPT !["insert"] = rest]
      /\ (todo' = todo \/ todo' = Tail(todo))
      /\ due' = due \ ToSet(SubSeq(batch, 1, n))
  BY <1>3, <1>4, <1>5 DEF PruneInserted
<1>9. numPoints' < Capacity => due' = ToSet(pending'["insert"])
  <2> SUFFICES ASSUME numPoints' < Capacity PROVE due' = ToSet(pending'["insert"])
    OBVIOUS
  <2>1. n = Len(batch) /\ due = ToSet(batch)
    BY <1>1, <1>2, <1>3, <1>4 DEF RequestsKept
  <2>2. rest = <<>> /\ SubSeq(batch, 1, n) = batch
    BY <1>5, <2>1, SubSeqEmpty, SubSeqFull
  <2>3. due' = {}
    BY <1>8, <2>1, <2>2
  <2>4. pending'["insert"] = <<>>
    BY <1>8, <2>2 DEF HostTypeOK, Kinds
  <2> QED BY <2>3, <2>4 DEF ToSet
<1>10. RequestsKept'
  <2>1. "insert" \in Kinds /\ ToSet(rest) \subseteq ToSet(pending["insert"])
    BY <1>4, <1>7 DEF Kinds
  <2> QED BY <1>2, <1>7, <1>8, <1>9, <2>1, FlushKeepsRequests
<1> QED BY <1>6, <1>10

(* The slots a delete batch marks: those its known points are mapped to.   *)
LEMMA DeleteSlotsAre ==
  ASSUME HostTypeOK
  PROVE  ToSet(DeleteSlots) = {pointIdToSlot[q] : q \in ToSet(pending["delete"]) \cap DOMAIN pointIdToSlot}
<1>1. pending["delete"] \in Seq(EventIds)
  BY DEF HostTypeOK, Kinds
<1>2. /\ Known \in Seq(EventIds \cap DOMAIN pointIdToSlot)
      /\ ToSet(Known) = ToSet(pending["delete"]) \cap DOMAIN pointIdToSlot
  BY <1>1, OnlyIs DEF Known
<1>3. ToSet(DeleteSlots) = {pointIdToSlot[q] : q \in ToSet(Known)}
  BY DEF DeleteSlots, ToSet
<1> QED BY <1>2, <1>3

LEMMA MarkKeepsMaps ==
  ASSUME HostTypeOK, InUse, MapsAgree, MarkDeleted
  PROVE  MapsAgree'
<1>1. /\ pc = "loop" /\ pc' = "inRepair"
      /\ UNCHANGED <<pointIdToSlot, slotToPointId, numPoints>>
      /\ deleted' = deleted \cup ToSet(DeleteSlots)
  BY DEF MarkDeleted, Flushing, Doing
<1>2. InHand = numPoints /\ InHand' = numPoints
  BY <1>1 DEF InHand, InUse
<1>3. ToSet(DeleteSlots) \subseteq 0 .. numPoints - 1
  BY <1>2, DeleteSlotsAre DEF MapsAgree
<1> QED BY <1>1, <1>2, <1>3 DEF MapsAgree

(* A flush that carries nothing out but empties its batch.                 *)
LEMMA EmptiedKeepsRequests ==
  ASSUME HostTypeOK, RequestsKept, NEW kind \in Kinds,
         pending' = [pending EXCEPT ![kind] = <<>>],
         todo' = todo \/ (todo # <<>> /\ todo' = Tail(todo)),
         UNCHANGED <<over, want, due, numPoints>>,
         kind = "insert" => numPoints = Capacity \/ pending["insert"] = <<>>
  PROVE  RequestsKept'
<1>1. /\ pending \in [Kinds -> Seq(EventIds)] /\ "insert" \in Kinds
      /\ <<>> \in Seq(IdsOf[kind]) /\ ToSet(<<>>) \subseteq ToSet(pending[kind])
  BY NothingIsFlush DEF HostTypeOK, Kinds
<1>2. numPoints < Capacity => due' = ToSet(pending'["insert"])
  <2>1. CASE kind = "insert"
    BY <1>1, <2>1, CapacityType DEF RequestsKept
  <2>2. CASE kind # "insert"
    <3>1. pending'["insert"] = pending["insert"]
      BY <1>1, <2>2
    <3> QED BY <3>1 DEF RequestsKept
  <2> QED BY <2>1, <2>2
<1> QED BY <1>1, <1>2, FlushKeepsRequests

LEMMA StoreStep == StoreInv /\ [Next]_vars => StoreInv'
<1> SUFFICES ASSUME StoreInv, [Next]_vars PROVE StoreInv'
  OBVIOUS
<1>0. HostInv' /\ HostInv /\ MapsAgree /\ RequestsKept
  BY HostStep DEF StoreInv
<1>00. HostTypeOK /\ InUse /\ BatchAtHead /\ PendingInv
  BY <1>0 DEF HostInv, PendingInv
<1> SUFFICES MapsAgree' /\ RequestsKept'
  BY <1>0 DEF StoreInv
<1>1. ASSUME NEW kind \in Kinds, Event(kind) PROVE MapsAgree' /\ RequestsKept'
  <2>1. UNCHANGED <<pc, pending, pointIdToSlot, slotToPointId, numPoints, deleted>>
    BY <1>1 DEF Event, graphVars
  <2> QED BY <1>0, <1>00, <1>1, <2>1, MapsUntouched, EventKeepsRequests
<1>2. CASE EventsOver
  <2>1. UNCHANGED <<pc, pending, pointIdToSlot, slotToPointId, numPoints, deleted>>
    BY <1>2 DEF EventsOver, graphVars
  <2> QED BY <1>0, <1>00, <1>2, <2>1, MapsUntouched, EndKeepsRequests
<1>3. CASE PushEvent
  <2>1. UNCHANGED <<pointIdToSlot, slotToPointId, numPoints, deleted>>
        /\ pc # "append" /\ pc' # "append"
    BY <1>3 DEF PushEvent, Doing, graphVars
  <2> QED BY <1>0, <1>00, <1>3, <2>1, MapsUntouched, PushKeepsRequests
<1>4. CASE GiveUp
  <2>1. UNCHANGED <<pointIdToSlot, slotToPointId, numPoints, deleted, over, want, due>>
        /\ pc # "append" /\ pc' # "append" /\ todo # <<>>
    BY <1>4 DEF GiveUp, Flushing, Doing, graphVars, historyVars
  <2>2. pending' = [pending EXCEPT !["insert"] = <<>>] /\ todo' = Tail(todo)
    BY <1>4 DEF GiveUp, Leave
  <2>3. numPoints = Capacity \/ pending["insert"] = <<>>
    <3>1. Room(Len(pending["insert"])) = 0
      BY <1>4 DEF GiveUp
    <3>2. PICK s \in Seq(EventIds) : s = pending["insert"]
      BY <1>00 DEF HostTypeOK, Kinds
    <3>3. Len(s) = 0 => s = <<>>
      BY <3>2, EmptySeq
    <3> QED BY <1>00, <3>1, <3>2, <3>3, CapacityType, LenProperties DEF Room, InUse
  <2> QED BY <1>0, <1>00, <2>1, <2>2, <2>3, MapsUntouched, EmptiedKeepsRequests DEF Kinds
<1>5. CASE InsertChunk
  <2>1. UNCHANGED <<todo, over, pending, numPoints, want, due>>
    BY <1>5 DEF InsertChunk, historyVars
  <2>2. RequestsKept'
    BY <1>0, <2>1 DEF RequestsKept, Capacity
  <2> QED BY <1>0, <1>00, <1>5, <2>2, InsertKeepsMaps
<1>6. CASE PruneInserted
  BY <1>0, <1>00, <1>6, LinkedKeepsStore
<1>7. CASE NothingToDelete
  <2>1. UNCHANGED <<pointIdToSlot, slotToPointId, numPoints, deleted, over, want, due>>
        /\ pc # "append" /\ pc' # "append" /\ todo # <<>>
    BY <1>7 DEF NothingToDelete, Flushing, Doing, graphVars, historyVars
  <2>2. pending' = [pending EXCEPT !["delete"] = <<>>] /\ todo' = Tail(todo)
    BY <1>7 DEF NothingToDelete
  <2> QED BY <1>0, <1>00, <2>1, <2>2, MapsUntouched, EmptiedKeepsRequests DEF Kinds
<1>8. CASE MarkDeleted
  <2>1. UNCHANGED <<todo, over, pending, numPoints, want, due>>
    BY <1>8 DEF MarkDeleted, historyVars
  <2>2. RequestsKept'
    BY <1>0, <2>1 DEF RequestsKept, Capacity
  <2> QED BY <1>0, <1>00, <1>8, <2>2, MarkKeepsMaps
<1>9. CASE LaunchOutRepair
  <2>1. UNCHANGED <<todo, over, pending, pointIdToSlot, slotToPointId, numPoints, deleted, want, due>>
        /\ pc # "append" /\ pc' # "append"
    BY <1>9 DEF LaunchOutRepair, graphVars, historyVars
  <2>2. RequestsKept'
    BY <1>0, <2>1 DEF RequestsKept, Capacity
  <2> QED BY <1>0, <2>1, <2>2, MapsUntouched
<1>10. CASE FinishDelete
  <2>1. UNCHANGED <<pointIdToSlot, slotToPointId, numPoints, deleted, over, want, due>>
        /\ pc # "append" /\ pc' # "append" /\ todo # <<>>
    BY <1>10, <1>00 DEF FinishDelete, BatchAtHead
  <2>2. pending' = [pending EXCEPT !["delete"] = <<>>] /\ todo' = Tail(todo)
    BY <1>10 DEF FinishDelete
  <2> QED BY <1>0, <1>00, <2>1, <2>2, MapsUntouched, EmptiedKeepsRequests DEF Kinds
<1>11. CASE FlushQueries
  <2>1. UNCHANGED <<pointIdToSlot, slotToPointId, numPoints, deleted, over, want, due>>
        /\ pc # "append" /\ pc' # "append" /\ todo # <<>>
    BY <1>11 DEF FlushQueries, Flushing, Doing, graphVars
  <2>2. pending' = [pending EXCEPT !["query"] = <<>>] /\ todo' = Tail(todo)
    BY <1>11 DEF FlushQueries
  <2> QED BY <1>0, <1>00, <2>1, <2>2, MapsUntouched, EmptiedKeepsRequests DEF Kinds
<1>12. CASE UNCHANGED <<hostVars, graphVars, historyVars>>
  <2>1. UNCHANGED <<todo, pc, over, pending, pointIdToSlot, slotToPointId, numPoints, deleted,
                    want, due>>
    BY <1>12 DEF hostVars, graphVars, historyVars
  <2>2. RequestsKept'
    BY <1>0, <2>1 DEF RequestsKept, Capacity
  <2> QED BY <1>0, <2>1, <2>2, MapsUntouched
<1>13. CASE Kernels
  BY <1>12, <1>13 DEF Kernels
<1>14. CASE UNCHANGED vars
  BY <1>12, <1>14 DEF vars
<1> QED BY <1>1, <1>2, <1>3, <1>4, <1>5, <1>6, <1>7, <1>8, <1>9, <1>10, <1>11, <1>13, <1>14
        DEF Next, Loop, Batch

LEMMA StoreInvariant == Spec => []StoreInv
<1>1. Init => StoreInv
  BY HostInitially, StoreInitially DEF StoreInv
<1> QED BY <1>1, StoreStep, PTL DEF Spec

(* The points a search can return, when n slots are in use.                *)
PointsOf(ids, n, dead) == {ids[s] : s \in (0 .. n - 1) \ dead}
Live == PointsOf(slotToPointId, numPoints, deleted)
Due == IF numPoints < Capacity THEN ToSet(pending["insert"]) ELSE due

(* A step of the store, on plain values.                                   *)
StoreMoves(w1, d1, l1, w2, d2, l2) ==
  \/ \E p \in Pids : /\ l2 = l1
                     /\ \/ w2 = w1 \cup {p} /\ d2 = d1 \cup {p}
                        \/ w2 = w1 \ {p} /\ d2 = d1
  \/ \E Q \in SUBSET d1 : l2 = l1 \cup Q /\ d2 = d1 \ Q /\ w2 = w1
  \/ \E Q \in SUBSET (l1 \ w1) : l2 = l1 \ Q /\ w2 = w1 /\ d2 = d1
  \/ w2 = w1 /\ d2 = d1 /\ l2 = l1

LEMMA DueIs == RequestsKept => Due = due
BY DEF RequestsKept, Due

(* The m slots from the n-th are those of the chunk; before them, dead.    *)
ChunkAt(ids, n, m, dead, chunk) ==
  /\ dead \subseteq 0 .. n - 1
  /\ DOMAIN chunk = 1 .. m
  /\ \A i \in 1 .. m : ids[n + i - 1] = chunk[i]

LEMMA LiveAfterInsert ==
  ASSUME NEW n \in Nat, NEW m \in Nat, NEW ids, NEW dead, NEW chunk,
         ChunkAt(ids, n, m, dead, chunk)
  PROVE  PointsOf(ids, n + m, dead) = PointsOf(ids, n, dead) \cup ToSet(chunk)
<1> USE DEF ChunkAt
<1>1. ASSUME NEW x \in PointsOf(ids, n + m, dead)
      PROVE  x \in PointsOf(ids, n, dead) \cup ToSet(chunk)
  <2>1. PICK s \in (0 .. n + m - 1) \ dead : x = ids[s]
    BY <1>1 DEF PointsOf
  <2>2. CASE s < n
    BY <2>1, <2>2 DEF PointsOf
  <2>3. CASE s >= n
    <3>1. PICK i \in 1 .. m : i = s - n + 1 /\ n + i - 1 = s
      BY <2>1, <2>3
    <3> QED BY <2>1, <3>1 DEF ToSet
  <2> QED BY <2>1, <2>2, <2>3
<1>2. ASSUME NEW x \in PointsOf(ids, n, dead) PROVE x \in PointsOf(ids, n + m, dead)
  BY <1>2 DEF PointsOf
<1>3. ASSUME NEW x \in ToSet(chunk) PROVE x \in PointsOf(ids, n + m, dead)
  <2>1. PICK i \in 1 .. m : x = chunk[i]
    BY <1>3 DEF ToSet
  <2>2. PICK s \in 0 .. n + m - 1 : s = n + i - 1 /\ s \notin dead
    BY <2>1
  <2> QED BY <2>1, <2>2 DEF PointsOf
<1> QED BY <1>1, <1>2, <1>3

LEMMA InsertIsApplied ==
  ASSUME StoreInv, PruneInserted
  PROVE  StoreMoves(want, due, Live, want', due', Live')
<1>1. HostTypeOK /\ InUse /\ MapsAgree /\ RequestsKept
  BY DEF StoreInv, HostInv, PendingInv
<1>2. /\ pc = "append" /\ numPoints' = numPoints + ChunkLength
      /\ UNCHANGED <<slotToPointId, deleted, want>>
      /\ due' = due \ ToSet(SubSeq(pending["insert"], 1, ChunkLength))
  BY DEF PruneInserted
<1>3. PICK n \in Nat, m \in Nat : n = numPoints /\ m = ChunkLength
  BY <1>1, ChunkFits DEF InUse
<1>4. PICK batch \in Seq(EventIds) : batch = pending["insert"] /\ m <= Len(batch)
  BY <1>1, <1>3, ChunkIs DEF HostTypeOK, Kinds
<1>5. PICK chunk : chunk = SubSeq(batch, 1, m)
  OBVIOUS
<1>6. DOMAIN chunk = 1 .. m /\ (\A i \in 1 .. m : chunk[i] = batch[i]) /\ ToSet(chunk) \subseteq ToSet(batch)
  <2>1. PICK e \in Int : e = m
    BY <1>3
  <2>2. 1 \in Int /\ e \in Int /\ \A i \in 1 .. e : batch[i] \in EventIds
    BY <1>3, <1>4, <2>1, ElementOfSeq
  <2>3. SubSeq(batch, 1, e) \in Seq(EventIds)
    BY <2>2, SubSeqProperties
  <2>4. Len(SubSeq(batch, 1, e)) = IF 1 <= e THEN e - 1 + 1 ELSE 0
    BY <2>2, SubSeqProperties
  <2>5. \A i \in 1 .. e - 1 + 1 : SubSeq(batch, 1, e)[i] = batch[1 + i - 1]
    BY <2>2, SubSeqProperties
  <2>6. DOMAIN SubSeq(batch, 1, e) = 1 .. Len(SubSeq(batch, 1, e))
    BY <2>3, LenProperties
  <2>7. DOMAIN chunk = 1 .. m
    BY <1>3, <1>5, <2>1, <2>4, <2>6
  <2>8. \A i \in 1 .. m : chunk[i] = batch[i]
    BY <1>3, <1>5, <2>1, <2>5
  <2>9. ToSet(chunk) \subseteq ToSet(batch)
    <3>1. DOMAIN batch = 1 .. Len(batch) /\ Len(batch) \in Nat
      BY <1>4, LenProperties
    <3>2. 1 .. m \subseteq 1 .. Len(batch)
      BY <1>3, <1>4, <3>1
    <3> QED BY <2>7, <2>8, <3>1, <3>2 DEF ToSet
  <2> QED BY <2>7, <2>8, <2>9
<1>7. \A i \in 1 .. m : slotToPointId[n + i - 1] = chunk[i]
  BY <1>1, <1>2, <1>3, <1>4, <1>6 DEF MapsAgree, NewSlot
<1>8. PICK ids, dead : ids = slotToPointId /\ dead = deleted
  OBVIOUS
<1>9. PointsOf(ids, n + m, dead) = PointsOf(ids, n, dead) \cup ToSet(chunk)
  <2>1. ChunkAt(ids, n, m, dead, chunk)
    BY <1>1, <1>3, <1>6, <1>7, <1>8 DEF MapsAgree, ChunkAt
  <2>2. n \in Nat /\ m \in Nat
    BY <1>3
  <2> QED BY <2>1, <2>2, LiveAfterInsert
<1>10. Live' = Live \cup ToSet(chunk)
  BY <1>2, <1>3, <1>8, <1>9 DEF Live
<1>11. due = ToSet(batch)
  <2>1. m > 0 /\ n + m <= Capacity
    BY <1>1, <1>2, <1>3, ChunkFits DEF MapsAgree
  <2>2. numPoints < Capacity
    BY <1>3, <2>1, CapacityType
  <2> QED BY <1>1, <1>4, <2>2 DEF RequestsKept
<1>12. due' = due \ ToSet(chunk) /\ want' = want
  BY <1>2, <1>3, <1>4, <1>5
<1> QED BY <1>6, <1>10, <1>11, <1>12 DEF StoreMoves

LEMMA DeleteIsApplied ==
  ASSUME StoreInv, MarkDeleted
  PROVE  StoreMoves(want, due, Live, want', due', Live')
<1>1. HostTypeOK /\ InUse /\ MapsAgree /\ RequestsKept
  BY DEF StoreInv, HostInv, PendingInv
<1>2. /\ deleted' = deleted \cup ToSet(DeleteSlots)
      /\ UNCHANGED <<slotToPointId, numPoints, want, due>>
  BY DEF MarkDeleted, historyVars
<1>3. ASSUME NEW s \in (0 .. numPoints - 1) \ deleted, s \in deleted'
      PROVE  slotToPointId[s] \notin want
  <2>1. PICK q \in ToSet(pending["delete"]) \cap DOMAIN pointIdToSlot : s = pointIdToSlot[q]
    BY <1>1, <1>2, <1>3, DeleteSlotsAre
  <2> QED BY <1>1, <2>1 DEF MapsAgree, RequestsKept
<1>4. Live' \subseteq Live /\ (Live \ Live') \subseteq (Live \ want)
  BY <1>2, <1>3 DEF Live, PointsOf
<1> PICK gone : gone = Live \ Live'
  OBVIOUS
<1>5. gone \in SUBSET (Live \ want) /\ Live' = Live \ gone
  BY <1>4
<1> QED BY <1>2, <1>5 DEF StoreMoves

LEMMA AskedIsAsked ==
  ASSUME StoreInv, PushEvent
  PROVE  StoreMoves(want, due, Live, want', due', Live')
<1>1. UNCHANGED <<slotToPointId, numPoints, deleted>>
  BY DEF PushEvent, graphVars
<1>2. Live' = Live
  BY <1>1 DEF Live
<1>3. PICK kind \in Kinds : \E id \in IdsOf[kind] : Pushed(kind, id)
  BY PushIs DEF StoreInv, HostInv
<1>4. PICK id \in IdsOf[kind] : Pushed(kind, id)
  BY <1>3
<1>5. CASE kind = "query"
  BY <1>2, <1>4, <1>5 DEF Pushed, StoreMoves
<1>6. CASE kind \in {"insert", "delete"}
  <2>1. id \in Pids
    BY <1>4, <1>6, IndexAssumption DEF IndexAssumption
  <2> QED BY <1>2, <1>4, <1>6, <2>1 DEF Pushed, StoreMoves
<1> QED BY <1>5, <1>6 DEF Kinds

LEMMA NewSlotsAreNotLive ==
  ASSUME StoreInv, InsertChunk
  PROVE  Live' = Live
<1>1. InUse
  BY DEF StoreInv, HostInv
<1>2. \A s \in 0 .. numPoints - 1 : slotToPointId'[s] = slotToPointId[s]
  BY <1>1, SlotsType, CapacityType DEF InsertChunk, StoreInv, MapsAgree, InUse
<1>3. UNCHANGED <<numPoints, deleted>>
  BY DEF InsertChunk
<1> QED BY <1>2, <1>3 DEF Live, PointsOf

LEMMA StoreStutters ==
  ASSUME UNCHANGED <<slotToPointId, numPoints, deleted, want, due>>
  PROVE  StoreMoves(want, due, Live, want', due', Live')
BY DEF StoreMoves, Live

LEMMA EveryStepMoves ==
  ASSUME StoreInv, [Next]_vars
  PROVE  StoreMoves(want, due, Live, want', due', Live')
<1>1. ASSUME NEW kind \in Kinds, Event(kind)
      PROVE  StoreMoves(want, due, Live, want', due', Live')
  BY <1>1, StoreStutters DEF Event, graphVars, historyVars
<1>2. CASE EventsOver
  BY <1>2, StoreStutters DEF EventsOver, graphVars, historyVars
<1>3. CASE GiveUp \/ NothingToDelete
  BY <1>3, StoreStutters DEF GiveUp, NothingToDelete, graphVars, historyVars
<1>4. CASE InsertChunk
  BY <1>4, NewSlotsAreNotLive DEF InsertChunk, historyVars, StoreMoves
<1>5. CASE LaunchOutRepair \/ FlushQueries
  BY <1>5, StoreStutters DEF LaunchOutRepair, FlushQueries, graphVars, historyVars
<1>6. CASE FinishDelete
  BY <1>6, StoreStutters DEF FinishDelete
<1>7. CASE Kernels
  BY <1>7, StoreStutters DEF Kernels, hostVars, graphVars, historyVars
<1>8. CASE UNCHANGED vars
  BY <1>8, StoreStutters DEF vars, hostVars, graphVars, historyVars
<1> QED BY <1>1, <1>2, <1>3, <1>4, <1>5, <1>6, <1>7, <1>8, AskedIsAsked, InsertIsApplied, DeleteIsApplied
        DEF Next, Loop, Batch

(* VectorStore: whatever the capacity and the batches, an insert makes its *)
(* point visible, a point disappears only when it is unwanted, and a       *)
(* request is dropped only for want of a free slot.                        *)
THEOREM IndexIsAStore == Spec => StoreSpec
<1>1. Init => Store!Init
  <2> SUFFICES ASSUME Init PROVE Store!Init
    OBVIOUS
  <2>1. L \in Nat /\ L <= Capacity /\ Capacity \in Nat /\ Slots = 0 .. Capacity - 1
    BY CapacityType, SlotsType
  <2>2. \A s \in 0 .. L - 1 : slotToPointId[s] = s
    BY <2>1 DEF Init
  <2>3. {slotToPointId[s] : s \in LiveSlots(deleted)} = 0 .. L - 1
    <3>1. LiveSlots(deleted) = 0 .. L - 1
      BY DEF Init, LiveSlots
    <3> QED BY <2>2, <3>1
  <2>4. pending["insert"] = <<>> /\ due = {} /\ want = 0 .. L - 1
    BY DEF Init, Kinds
  <2> QED BY <2>3, <2>4 DEF Store!Init, ToSet
<1>2. StoreInv /\ StoreInv' /\ [Next]_vars
        => [Store!Next]_<<want, IF numPoints < Capacity THEN ToSet(pending["insert"]) ELSE due,
                          {slotToPointId[s] : s \in LiveSlots(deleted)}>>
  <2> SUFFICES ASSUME StoreInv, StoreInv', [Next]_vars
               PROVE  [Store!Next]_<<want, Due, Live>>
    BY DEF Due, Live, PointsOf, LiveSlots
  <2>1. Due = due /\ Due' = due'
    BY DueIs DEF StoreInv, RequestsKept, Due
  <2>2. StoreMoves(want, Due, Live, want', Due', Live')
    BY <2>1, EveryStepMoves
  <2>3. CASE \E p \in Pids : /\ Live' = Live
                             /\ \/ want' = want \cup {p} /\ Due' = Due \cup {p}
                                \/ want' = want \ {p} /\ Due' = Due
    BY <2>3 DEF Store!Next, Store!AskInsert, Store!AskDelete, Due, Live, PointsOf, LiveSlots
  <2>4. CASE \E Q \in SUBSET Due : Live' = Live \cup Q /\ Due' = Due \ Q /\ want' = want
    BY <2>4 DEF Store!Next, Store!ApplyInserts, Due, Live, PointsOf, LiveSlots
  <2>5. CASE \E Q \in SUBSET (Live \ want) : Live' = Live \ Q /\ want' = want /\ Due' = Due
    BY <2>5 DEF Store!Next, Store!ApplyDeletes, Due, Live, PointsOf, LiveSlots
  <2> QED BY <2>2, <2>3, <2>4, <2>5 DEF StoreMoves
<1> QED BY <1>1, <1>2, StoreInvariant, PTL DEF Spec, StoreSpec, Store!Spec

-----------------------------------------------------------------------------
(* The lists of the graph.  A vertex's list names other slots in use, each *)
(* once, and at most R of them.                                            *)

ListOf(v, list, n) ==
  list \in Seq((0 .. n - 1) \ {v}) /\ Len(list) <= R /\ IsInjective(list)

LEMMA SlotDistances ==
  /\ \A v \in Slots : Dist(v, v) = 0
  /\ \A x \in Slots \cup Queries, v \in Slots : Dist(x, v) \in Nat
  /\ SearchL \in Nat /\ K \in Nat /\ DelLd \in Nat /\ DelK \in Nat /\ DelC \in Nat
BY SearchAssumption DEF SearchAssumption

LEMMA FirstSlots ==
  ASSUME NEW n \in 0 .. Capacity
  PROVE  0 .. n - 1 \subseteq Slots
BY SlotsType, CapacityType

LEMMA PrunedListOf ==
  ASSUME NEW n \in 0 .. Capacity, NEW v \in Slots, NEW cands \in Seq((0 .. n - 1) \ {v})
  PROVE  ListOf(v, Pruned(v, cands), n)
<1>1. PICK U : U = (0 .. n - 1) \ {v} /\ U \subseteq Slots
  BY FirstSlots
<1>2. cands \in Seq(U) /\ \A c \in U : Dist(c, c) = 0
  BY <1>1, SlotDistances
<1>3. Measured(v, cands)
  <2>1. \A i \in DOMAIN cands : cands[i] \in U
    BY <1>2, EntriesOf
  <2> QED BY <1>1, <2>1, SlotDistances DEF Measured
<1>4. Pruned(v, cands) \in Seq(U) /\ Len(Pruned(v, cands)) <= R
  BY <1>2, <1>3, PrunedIsAlphaRNG
<1>5. IsInjective(Pruned(v, cands))
  BY <1>2, <1>3, PrunedNamesOnce
<1> QED BY <1>1, <1>4, <1>5 DEF ListOf

LEMMA AtMostRListOf ==
  ASSUME NEW n \in 0 .. Capacity, NEW v \in Slots, NEW cands \in Seq((0 .. n - 1) \ {v}),
         IsInjective(cands)
  PROVE  ListOf(v, AtMostR(v, cands), n)
BY PrunedListOf DEF AtMostR, ListOf

(* A walk from the entry point meets slots in use only, and only live ones *)
(* when the entry point is.                                                *)
LEMMA WalkIsIn ==
  ASSUME NEW n \in 0 .. Capacity, NEW lists, \A v \in 0 .. n - 1 : lists[v] \in Seq(0 .. n - 1),
         NEW dead, NEW U \in {0 .. n - 1, (0 .. n - 1) \ dead}, medoid \in U,
         NEW block, NEW target \in Slots \cup Queries, NEW width \in Nat
  PROVE  LET walk == Walk(lists, dead, medoid, block, target, width)
         IN  walk.list \in Seq(Entry(U)) /\ walk.visited \in Seq(U)
<1>1. U \subseteq 0 .. n - 1 /\ (0 .. n - 1) \ dead \subseteq U
  OBVIOUS
<1>2. ASSUME NEW v \in U PROVE Eligible(lists[v], block, dead) \subseteq U
  <2>1. ToSet(lists[v]) \subseteq 0 .. n - 1
    BY <1>1, EntriesOf
  <2>2. Eligible(lists[v], block, dead) \subseteq ToSet(lists[v]) \ dead
    BY DEF Eligible, ToSet
  <2> QED BY <1>1, <2>1, <2>2
<1>3. MeasuredFrom(target, U)
  BY <1>1, FirstSlots, SlotDistances DEF MeasuredFrom
<1>4. IsFiniteSet(U)
  <2>1. IsFiniteSet(0 .. n - 1)
    BY FS_Interval
  <2> QED BY <1>1, <2>1, FS_Subset
<1>5. Within(U, lists, dead, medoid, block, target)
  BY <1>2, <1>3, <1>4 DEF Within
<1>6. Walk(lists, dead, medoid, block, target, width) \in WalkStates(U, target)
  BY <1>5, WalkStays
<1> QED BY <1>6 DEF WalkStates

-----------------------------------------------------------------------------
(* What the threads add are slots in use.                                  *)

AddsIn(n, requests, scratch) ==
  /\ requests \in [Threads -> Seq([at : Slots, adds : Seq(0 .. n - 1)])]
  /\ scratch \in [Slots -> [0 .. P - 1 -> (0 .. n - 1) \cup {Stale}]]

LEMMA StepKeepsAdds ==
  ASSUME ScratchTypeOK, NEW n \in 0 .. Capacity, AddsIn(n, work, addScratch),
         NEW t \in Threads, AppendStep(t)
  PROVE  AddsIn(n, work', addScratch')
<1>1. ASSUME work[t] # <<>>
      PROVE  /\ Tail(work[t]) \in Seq([at : Slots, adds : Seq(0 .. n - 1)])
             /\ Adds(t) \in Seq(0 .. n - 1) /\ At(t) \in Slots
  <2>1. PICK s \in Seq([at : Slots, adds : Seq(0 .. n - 1)]) : s = work[t]
    BY DEF AddsIn
  <2>2. Tail(s) \in Seq([at : Slots, adds : Seq(0 .. n - 1)])
        /\ Head(s) \in [at : Slots, adds : Seq(0 .. n - 1)]
    BY <1>1, <2>1, HeadTailProperties
  <2> QED BY <2>1, <2>2 DEF Adds, At
<1>2. CASE Reserve(t)
  BY <1>2 DEF Reserve
<1>3. CASE Fill(t)
  <2>1. appendPc[t] = "fill" /\ work[t] # <<>>
    BY <1>3 DEF Fill, Goto, ScratchTypeOK
  <2>2. PICK run \in Seq(0 .. n - 1), v \in Slots : run = Adds(t) /\ v = At(t)
    BY <1>1, <2>1
  <2>3. PICK b \in Nat : b = base[t]
    BY DEF ScratchTypeOK
  <2>4. ASSUME NEW i \in Granted(t) PROVE run[i - b + 1] \in 0 .. n - 1
    <3>1. i \in 0 .. P - 1 /\ b <= i /\ i < b + Len(run) /\ Len(run) \in Nat
      BY <2>2, <2>3, LenProperties DEF Granted
    <3>2. i - b + 1 \in 1 .. Len(run)
      BY <3>1, ScratchAssumption DEF ScratchAssumption
    <3> QED BY <3>2, ElementOfSeq
  <2>5. addScratch' = [addScratch EXCEPT ![v] =
          [i \in 0 .. P - 1 |-> IF i \in Granted(t) THEN run[i - b + 1] ELSE addScratch[v][i]]]
    BY <1>3, <2>2, <2>3 DEF Fill, AddsIn
  <2>6. [i \in 0 .. P - 1 |-> IF i \in Granted(t) THEN run[i - b + 1] ELSE addScratch[v][i]]
          \in [0 .. P - 1 -> (0 .. n - 1) \cup {Stale}]
    BY <2>4 DEF AddsIn
  <2>7. work' = work
    BY <1>3 DEF Fill
  <2> QED BY <2>5, <2>6, <2>7 DEF AddsIn
<1>4. CASE Enlist(t) \/ AlreadyMarked(t)
  <2>1. work' = [work EXCEPT ![t] = Tail(@)] /\ addScratch' = addScratch
    BY <1>4 DEF Enlist, AlreadyMarked, Done
  <2>2. work[t] # <<>>
    BY <1>4 DEF Enlist, AlreadyMarked, ReadyToMark, ScratchTypeOK
  <2> QED BY <1>1, <2>1, <2>2 DEF AddsIn
<1> QED BY <1>2, <1>3, <1>4 DEF AppendStep

LEMMA DrainKeepsAdds ==
  ASSUME NEW n, AddsIn(n, work, addScratch), Drain
  PROVE  AddsIn(n, work', addScratch')
<1>1. Empty \in [0 .. P - 1 -> (0 .. n - 1) \cup {Stale}]
  BY DEF Empty
<1> QED BY <1>1 DEF Drain, AddsIn

LEMMA MoreSlotsInUse ==
  ASSUME NEW n \in Nat, NEW m \in Nat, n <= m, NEW v, NEW list, ListOf(v, list, n)
  PROVE  ListOf(v, list, m)
<1>1. (0 .. n - 1) \ {v} \subseteq (0 .. m - 1) \ {v}
  OBVIOUS
<1> QED BY <1>1, SeqMonotonic DEF ListOf

(* A prune kernel reads only places that were written.                     *)
LEMMA AdditionsAre ==
  ASSUME ScratchInv, AllReturned, NEW n \in 0 .. Capacity, AddsIn(n, work, addScratch),
         NEW v \in Slots
  PROVE  Additions(v) \in Seq(0 .. n - 1)
<1>1. PICK c \in Nat : c = addScratchCount[v]
  BY DEF ScratchInv, ScratchTypeOK
<1>2. {i \in 0 .. P - 1 : addScratch[v][i] # Stale} = 0 .. c - 1
  BY <1>1, NobodyFills, PlacesFollow DEF PlacesWritten
<1>3. PICK places \in [0 .. P - 1 -> (0 .. n - 1) \cup {Stale}] : places = addScratch[v]
  BY DEF AddsIn
<1>4. ASSUME NEW i \in 1 .. c PROVE places[i - 1] \in 0 .. n - 1
  <2>1. i - 1 \in 0 .. c - 1
    OBVIOUS
  <2>2. i - 1 \in 0 .. P - 1 /\ places[i - 1] # Stale
    BY <1>2, <1>3, <2>1
  <2> QED BY <1>3, <2>2
<1>5. Additions(v) = [i \in 1 .. c |-> places[i - 1]]
  BY <1>1, <1>3 DEF Additions
<1>6. [i \in 1 .. c |-> places[i - 1]] \in [1 .. c -> 0 .. n - 1]
  BY <1>4
<1>7. PICK U : U = 0 .. n - 1
  OBVIOUS
<1>8. Additions(v) \in [1 .. c -> U]
  BY <1>5, <1>6, <1>7
<1>9. Additions(v) \in Seq(U)
  BY <1>1, <1>8, SeqDef
<1> QED BY <1>7, <1>9

-----------------------------------------------------------------------------
(* The graph between and during the kernels.                               *)

GraphOf(n, lists, dead) ==
  /\ lists \in [Slots -> Seq(0 .. n - 1)]
  /\ \A v \in Slots : ListOf(v, lists[v], n)
  /\ \A v \in dead : lists[v] = <<>>

GraphInv ==
  /\ medoid \in 0 .. numPoints - 1
  /\ GraphOf(InHand, adj, hostDeleted)
  /\ AddsIn(InHand, work, addScratch)

LEMMA AddsAreRequests ==
  ASSUME NEW n \in 0 .. Capacity, NEW requests, NEW scratch, AddsIn(n, requests, scratch)
  PROVE  requests \in [Threads -> Seq(Request)]
<1>1. Seq(0 .. n - 1) \subseteq Seq(Slots)
  BY FirstSlots, SeqMonotonic
<1>2. [at : Slots, adds : Seq(0 .. n - 1)] \subseteq Request
  BY <1>1 DEF Request
<1>3. Seq([at : Slots, adds : Seq(0 .. n - 1)]) \subseteq Seq(Request)
  BY <1>2, SeqMonotonic
<1> QED BY <1>3 DEF AddsIn

LEMMA MoreSlotsAdded ==
  ASSUME NEW n \in Nat, NEW m \in Nat, n <= m, NEW scratch,
         scratch \in [Slots -> [0 .. P - 1 -> (0 .. n - 1) \cup {Stale}]]
  PROVE  scratch \in [Slots -> [0 .. P - 1 -> (0 .. m - 1) \cup {Stale}]]
<1>1. (0 .. n - 1) \cup {Stale} \subseteq (0 .. m - 1) \cup {Stale}
  OBVIOUS
<1> QED BY <1>1

LEMMA ListsAreSlots ==
  ASSUME NEW n \in Nat, NEW v, NEW list, ListOf(v, list, n)
  PROVE  list \in Seq(0 .. n - 1)
<1>1. PICK T, U : T = (0 .. n - 1) \ {v} /\ U = 0 .. n - 1
  OBVIOUS
<1>2. list \in Seq(T) /\ T \subseteq U
  BY <1>1 DEF ListOf
<1>3. list \in Seq(U)
  BY <1>2, SeqMonotonic
<1> QED BY <1>1, <1>3

(* A list with other vertices in it is a graph's list, if for each of them *)
(* so is what is written.                                                  *)
LEMMA GraphFromLists ==
  ASSUME NEW n \in Nat, NEW lists, DOMAIN lists = Slots, lists = [v \in Slots |-> lists[v]],
         \A v \in Slots : ListOf(v, lists[v], n),
         NEW dead, \A v \in dead : lists[v] = <<>>
  PROVE  GraphOf(n, lists, dead)
<1>1. \A v \in Slots : lists[v] \in Seq(0 .. n - 1)
  BY ListsAreSlots
<1> QED BY <1>1 DEF GraphOf

(* What a new vertex keeps of the vertices its walk visited.               *)
LEMMA ForwardIs ==
  ASSUME NEW first \in Nat, first = numPoints, NEW n \in Nat, n = ChunkLength,
         first + n <= Capacity, medoid \in 0 .. first - 1,
         GraphOf(first, adj, {}), NEW i \in 1 .. n
  PROVE  NewSlot(i) \in Slots /\ ListOf(NewSlot(i), Forward(i), first)
<1>1. PICK v \in Slots : v = NewSlot(i) /\ v \notin 0 .. first - 1
  BY SlotsType, CapacityType DEF NewSlot
<1>2. PICK U : U = 0 .. first - 1
  OBVIOUS
<1>3. first \in 0 .. Capacity /\ U \subseteq Slots
  BY <1>2, FirstSlots, CapacityType
<1>4. PICK lists : lists = Written
  OBVIOUS
<1>5. \A u \in 0 .. first - 1 : lists[u] \in Seq(0 .. first - 1)
  <2>1. \A u \in U : u \notin {NewSlot(k) : k \in 1 .. ChunkLength}
    BY <1>2 DEF NewSlot
  <2>2. \A u \in U : lists[u] = adj[u]
    BY <1>3, <1>4, <2>1 DEF Written
  <2> QED BY <1>2, <1>3, <2>2 DEF GraphOf
<1>6. PICK visited : visited = Walk(lists, deleted, medoid, i - 1, v, SearchL).visited
  OBVIOUS
<1>7. visited \in Seq(U)
  BY <1>2, <1>3, <1>5, <1>6, WalkIsIn, SlotDistances
<1>8. PICK S : S = Slots \ ({v} \cup deleted)
  OBVIOUS
<1>9. ForwardCandidates(i, visited) \in Seq((0 .. first - 1) \ {v})
  <2>1. Only(visited, S) \in Seq(U \cap S)
    BY <1>7, OnlyIs
  <2>2. U \cap S \subseteq (0 .. first - 1) \ {v}
    BY <1>2, <1>8
  <2>3. Only(visited, S) \in Seq((0 .. first - 1) \ {v})
    BY <2>1, <2>2, SeqMonotonic
  <2> QED BY <1>1, <1>8, <2>3 DEF ForwardCandidates
<1>10. ListOf(v, Pruned(v, ForwardCandidates(i, visited)), first)
  BY <1>3, <1>9, PrunedListOf
<1> QED BY <1>1, <1>4, <1>6, <1>10 DEF Forward

LEMMA BackEdgesAre ==
  ASSUME NEW first \in Nat, first = numPoints, NEW n \in Nat, n = ChunkLength,
         NEW m \in Nat, m = first + n, m <= Capacity,
         NEW forward, \A i \in 1 .. n : forward[i] \in Seq(0 .. first - 1)
  PROVE  BackEdges(forward) \in [Threads -> Seq([at : Slots, adds : Seq(0 .. m - 1)])]
<1>1. PICK S : S = 0 .. m - 1
  OBVIOUS
<1> SUFFICES ASSUME NEW t \in Threads
             PROVE  BackEdges(forward)[t] \in Seq([at : Slots, adds : Seq(S)])
  BY <1>1 DEF BackEdges
<1>2. PICK a \in Nat \ {0}, c \in Nat \ {0} : a = t[1] /\ c = t[2]
  BY ThreadAssumption DEF ThreadAssumption
<1>3. CASE a <= n /\ c <= Len(forward[a])
  <2>1. a \in 1 .. n
    BY <1>2, <1>3
  <2>2. PICK list \in Seq(0 .. first - 1) : list = forward[a]
    BY <2>1
  <2>3. c \in 1 .. Len(list)
    BY <1>2, <1>3, <2>2, LenProperties
  <2>4. list[c] \in Slots
    <3>1. 0 .. first - 1 \subseteq Slots
      BY FirstSlots
    <3>2. list[c] \in 0 .. first - 1
      BY <2>3, ElementOfSeq
    <3> QED BY <3>1, <3>2
  <2>5. NewSlot(a) \in S
    BY <1>1, <2>1 DEF NewSlot
  <2>6. PICK r \in [at : Slots, adds : Seq(S)] : r = [at |-> list[c], adds |-> <<NewSlot(a)>>]
    <3>1. <<NewSlot(a)>> \in Seq(S)
      BY <2>5
    <3> QED BY <2>4, <3>1
  <2>7. BackEdges(forward)[t] = <<r>>
    BY <1>2, <1>3, <2>2, <2>6 DEF BackEdges
  <2> QED BY <2>7
<1>4. CASE ~(a <= n /\ c <= Len(forward[a]))
  <2>1. BackEdges(forward)[t] = <<>>
    BY <1>2, <1>4 DEF BackEdges
  <2> QED BY <2>1
<1> QED BY <1>3, <1>4

LEMMA InsertKeepsGraph ==
  ASSUME HostInv, MapsAgree, GraphInv, InsertChunk
  PROVE  GraphInv' /\ \E requests \in [Threads -> Seq(Request)] : Launch(requests)
<1>1. HostTypeOK /\ InUse
  BY DEF HostInv, PendingInv
<1>2. PICK first \in Nat, n \in Nat : /\ first = numPoints /\ n = ChunkLength
                                      /\ first + n <= Capacity
  BY <1>1, ChunkFits DEF InUse
<1>3. /\ pc = "loop" /\ pc' = "append"
      /\ UNCHANGED <<pending, numPoints, medoid, hostDeleted>>
  BY DEF InsertChunk, Flushing, Doing
<1>4. InHand = first /\ InHand' = first + n
  <2>1. ChunkLength' = ChunkLength
    BY <1>3 DEF ChunkLength, Room, Capacity
  <2> QED BY <1>2, <1>3, <2>1 DEF InHand
<1>5. /\ medoid \in 0 .. first - 1 /\ GraphOf(first, adj, hostDeleted)
      /\ AddsIn(first, work, addScratch)
  BY <1>2, <1>4 DEF GraphInv
<1>6. PICK forward : forward = [i \in 1 .. n |-> Forward(i)]
  OBVIOUS
<1>7. ASSUME NEW i \in 1 .. n
      PROVE  NewSlot(i) \in Slots /\ ListOf(NewSlot(i), forward[i], first)
  <2>1. GraphOf(first, adj, {})
    BY <1>5 DEF GraphOf
  <2> QED BY <1>2, <1>5, <1>6, <2>1, ForwardIs
<1>8. \A i \in 1 .. n : forward[i] \in Seq(0 .. first - 1)
  BY <1>7, ListsAreSlots
<1>9. /\ adj' = [v \in Slots |-> IF v >= first /\ v < first + n
                                 THEN forward[v - first + 1] ELSE Written[v]]
      /\ Launch(BackEdges(forward))
  BY <1>2, <1>6 DEF InsertChunk
<1>10. ASSUME NEW v \in Slots, ~(v >= first /\ v < first + n)
       PROVE  adj'[v] = adj[v]
  <2>1. v \notin {NewSlot(i) : i \in 1 .. ChunkLength}
    BY <1>2, <1>10 DEF NewSlot
  <2> QED BY <1>9, <1>10, <2>1 DEF Written
<1>11. GraphOf(first + n, adj', hostDeleted)
  <2>1. ASSUME NEW v \in Slots PROVE ListOf(v, adj'[v], first + n)
    <3>1. CASE v >= first /\ v < first + n
      <4>1. PICK i \in 1 .. n : i = v - first + 1 /\ v = NewSlot(i)
        <5>1. v \in Nat
          BY SlotsType, CapacityType
        <5>2. v - first + 1 \in 1 .. n /\ first + (v - first + 1) - 1 = v
          BY <3>1, <5>1
        <5> QED BY <1>2, <5>2 DEF NewSlot
      <4>2. adj'[v] = forward[i]
        BY <1>9, <3>1, <4>1
      <4>3. first <= first + n /\ first + n \in Nat
        OBVIOUS
      <4> QED BY <1>7, <4>1, <4>2, <4>3, MoreSlotsInUse
    <3>2. CASE ~(v >= first /\ v < first + n)
      <4>1. adj'[v] = adj[v] /\ ListOf(v, adj[v], first)
        BY <1>5, <1>10, <3>2 DEF GraphOf
      <4>2. first <= first + n /\ first + n \in Nat
        OBVIOUS
      <4> QED BY <4>1, <4>2, MoreSlotsInUse
    <3> QED BY <3>1, <3>2
  <2>2. ASSUME NEW v \in hostDeleted PROVE adj'[v] = <<>>
    <3>1. v \in 0 .. first - 1
      BY <1>2, <1>3 DEF HostInv, Mirrored, MapsAgree
    <3>2. v \in Slots /\ ~(v >= first)
      BY <1>2, <3>1, FirstSlots, CapacityType
    <3> QED BY <1>5, <1>10, <3>2 DEF GraphOf
  <2>3. DOMAIN adj' = Slots /\ adj' = [v \in Slots |-> adj'[v]] /\ first + n \in Nat
    BY <1>9
  <2> QED BY <2>1, <2>2, <2>3, GraphFromLists
<1>12. PICK m \in Nat : m = first + n
  OBVIOUS
<1>13. AddsIn(m, work', addScratch')
  <2>1. work' = BackEdges(forward) /\ addScratch' = addScratch
    BY <1>9 DEF Launch
  <2>2. work' \in [Threads -> Seq([at : Slots, adds : Seq(0 .. m - 1)])]
    BY <1>2, <1>8, <1>12, <2>1, BackEdgesAre
  <2>3. first <= m
    BY <1>12
  <2>4. addScratch' \in [Slots -> [0 .. P - 1 -> (0 .. m - 1) \cup {Stale}]]
    BY <1>5, <2>1, <2>3, MoreSlotsAdded DEF AddsIn
  <2> QED BY <2>2, <2>4 DEF AddsIn
<1>14. BackEdges(forward) \in [Threads -> Seq(Request)]
  <2>1. m \in 0 .. Capacity
    BY <1>2, <1>12, CapacityType
  <2>2. work' \in [Threads -> Seq(Request)]
    BY <1>13, <2>1, AddsAreRequests
  <2> QED BY <1>9, <2>2 DEF Launch
<1>15. GraphInv'
  BY <1>2, <1>3, <1>4, <1>5, <1>11, <1>12, <1>13 DEF GraphInv
<1> QED BY <1>9, <1>14, <1>15

-----------------------------------------------------------------------------
(* What the prune kernels leave.                                           *)

LEMMA LinkedIs ==
  ASSUME ScratchInv, AllReturned, NEW n \in 0 .. Capacity, AddsIn(n, work, addScratch),
         NEW v \in Slots, ListOf(v, adj[v], n)
  PROVE  ListOf(v, Linked(v), n)
<1>1. PICK U, S : U = (0 .. n - 1) \ {v} /\ S = (Slots \cup {Stale}) \ {v}
  OBVIOUS
<1>2. PICK more \in Seq(0 .. n - 1) : more = Additions(v)
  BY AdditionsAre
<1>3. Only(more, S) \in Seq((0 .. n - 1) \cap S)
  BY OnlyIs
<1>4. Only(more, S) \in Seq(U)
  <2>1. (0 .. n - 1) \cap S \subseteq U
    BY <1>1
  <2> QED BY <1>3, <2>1, SeqMonotonic
<1>5. adj[v] \in Seq(U) /\ IsInjective(adj[v])
  BY <1>1 DEF ListOf
<1>6. Once(adj[v], Only(more, S)) \in Seq(U) /\ IsInjective(Once(adj[v], Only(more, S)))
  BY <1>4, <1>5, OnceIs
<1>7. ListOf(v, AtMostR(v, Once(adj[v], Only(more, S))), n)
  BY <1>1, <1>6, AtMostRListOf
<1> QED BY <1>1, <1>2, <1>7 DEF Linked

LEMMA MendedIs ==
  ASSUME ScratchInv, AllReturned, NEW n \in 0 .. Capacity, AddsIn(n, work, addScratch),
         NEW v \in Slots, ListOf(v, adj[v], n)
  PROVE  ListOf(v, Mended(v), n)
<1>1. PICK U, S : U = (0 .. n - 1) \ {v} /\ S = (Slots \cup {Stale}) \ ({v} \cup deleted)
  OBVIOUS
<1>2. PICK more \in Seq(0 .. n - 1) : more = Additions(v)
  BY AdditionsAre
<1>3. n \in Nat
  BY CapacityType
<1>4. adj[v] \in Seq(0 .. n - 1)
  BY <1>3, ListsAreSlots
<1>5. PICK all \in Seq(0 .. n - 1) : all = adj[v] \o more
  BY <1>4, ConcatProperties
<1>6. Only(all, S) \in Seq((0 .. n - 1) \cap S)
  BY OnlyIs
<1>7. Only(all, S) \in Seq(U)
  <2>1. (0 .. n - 1) \cap S \subseteq U
    BY <1>1
  <2> QED BY <1>6, <2>1, SeqMonotonic
<1>8. <<>> \in Seq(U) /\ IsInjective(<<>>)
  BY EmptySeq DEF IsInjective
<1>9. Once(<<>>, Only(all, S)) \in Seq(U) /\ IsInjective(Once(<<>>, Only(all, S)))
  BY <1>7, <1>8, OnceIs
<1>10. ListOf(v, AtMostR(v, Once(<<>>, Only(all, S))), n)
  BY <1>1, <1>9, AtMostRListOf
<1> QED BY <1>1, <1>2, <1>5, <1>10 DEF Mended

LEMMA InHandIs ==
  ASSUME HostInv
  PROVE  InHand \in 0 .. Capacity /\ (pc # "append" => InHand = numPoints)
<1>1. HostTypeOK /\ InUse
  BY DEF HostInv, PendingInv
<1>2. ChunkLength \in Nat /\ numPoints + ChunkLength <= Capacity
  BY <1>1, ChunkFits
<1> QED BY <1>1, <1>2, CapacityType DEF InUse, InHand

LEMMA PruneKeepsGraph ==
  ASSUME HostInv, MapsAgree, GraphInv, ScratchInv, PruneInserted
  PROVE  GraphInv'
<1>1. PICK n \in 0 .. Capacity : n = InHand
  BY InHandIs
<1>2. /\ medoid \in 0 .. numPoints - 1 /\ GraphOf(n, adj, hostDeleted)
      /\ AddsIn(n, work, addScratch)
  BY <1>1 DEF GraphInv
<1>3. /\ pc = "append" /\ pc' = "loop" /\ Drain /\ AllReturned
      /\ UNCHANGED <<medoid, hostDeleted>>
      /\ numPoints' = numPoints + ChunkLength
      /\ adj' = [v \in Slots |->
                   IF v \in ToSet(dirtyList) /\ v \notin deleted THEN Linked(v) ELSE adj[v]]
  BY DEF PruneInserted, Drain
<1>4. InHand' = n /\ numPoints' = n
  BY <1>1, <1>3, CapacityType DEF InHand
<1>5. medoid' \in 0 .. n - 1
  <2>1. ChunkLength \in Nat /\ numPoints \in Nat
    BY ChunkFits DEF HostInv, PendingInv, InUse
  <2> QED BY <1>2, <1>3, <1>4, <2>1
<1>6. GraphOf(n, adj', hostDeleted')
  <2>1. ASSUME NEW v \in Slots PROVE ListOf(v, adj'[v], n)
    <3>1. ListOf(v, adj[v], n)
      BY <1>2 DEF GraphOf
    <3>2. ListOf(v, Linked(v), n)
      BY <1>2, <1>3, <3>1, LinkedIs
    <3> QED BY <1>3, <3>1, <3>2
  <2>2. ASSUME NEW v \in hostDeleted' PROVE adj'[v] = <<>>
    <3>1. v \in deleted
      BY <1>3 DEF HostInv, Mirrored
    <3>2. adj[v] = <<>>
      BY <1>2, <1>3 DEF GraphOf
    <3>3. v \in 0 .. n - 1 /\ v \in Slots
      <4>1. v \in 0 .. numPoints - 1 /\ numPoints \in Nat /\ ChunkLength \in Nat
        BY <3>1, ChunkFits DEF MapsAgree, HostInv, PendingInv, InUse
      <4>2. v \in 0 .. n - 1
        BY <1>3, <1>4, <4>1
      <4> QED BY <4>2, FirstSlots
    <3> QED BY <1>3, <3>1, <3>2, <3>3
  <2>3. DOMAIN adj' = Slots /\ adj' = [v \in Slots |-> adj'[v]] /\ n \in Nat
    BY <1>3, CapacityType
  <2> QED BY <2>1, <2>2, <2>3, GraphFromLists
<1>7. AddsIn(n, work', addScratch')
  BY <1>2, <1>3, DrainKeepsAdds
<1> QED BY <1>4, <1>5, <1>6, <1>7 DEF GraphInv

LEMMA FinishKeepsGraph ==
  ASSUME HostInv, MapsAgree, GraphInv, ScratchInv, FinishDelete
  PROVE  GraphInv'
<1>1. PICK n \in 0 .. Capacity : n = InHand
  BY InHandIs
<1>2. /\ medoid \in 0 .. numPoints - 1 /\ GraphOf(n, adj, hostDeleted)
      /\ AddsIn(n, work, addScratch)
  BY <1>1 DEF GraphInv
<1>3. /\ pc = "outRepair" /\ pc' = "loop" /\ Drain /\ AllReturned
      /\ UNCHANGED numPoints
      /\ hostDeleted' = hostDeleted \cup ToSet(DeleteSlots)
      /\ medoid' = IF MedoidHit(DeleteSlots) THEN FindLiveMedoid(hostDeleted') ELSE medoid
      /\ adj' = [v \in Slots |->
                   IF v \in ToSet(DeleteSlots) THEN <<>>
                   ELSE IF v \in ToSet(dirtyList) /\ v \notin deleted THEN Mended(v)
                   ELSE adj[v]]
  BY DEF FinishDelete, Drain
<1>4. InHand' = n /\ numPoints = n
  BY <1>1, <1>3, InHandIs DEF InHand, HostInv, InUse
<1>5. medoid' \in 0 .. n - 1
  <2> PICK dead : dead = hostDeleted'
    OBVIOUS
  <2>1. FindLiveMedoid(dead) \in 0 .. n - 1
    <3>1. CASE LiveSlots(dead) = {}
      BY <1>2, <1>4, <3>1 DEF FindLiveMedoid
    <3>2. CASE LiveSlots(dead) # {}
      <4>1. LiveSlots(dead) \in SUBSET Nat /\ LiveSlots(dead) \subseteq 0 .. n - 1
        BY <1>4, CapacityType DEF LiveSlots
      <4>2. \E x \in LiveSlots(dead) : \A u \in LiveSlots(dead) : x <= u
        BY <3>2, <4>1, SmallestOf
      <4> QED BY <3>2, <4>1, <4>2 DEF FindLiveMedoid
    <3> QED BY <3>1, <3>2
  <2> QED BY <1>2, <1>3, <1>4, <2>1
<1>6. GraphOf(n, adj', hostDeleted')
  <2>1. ASSUME NEW v \in Slots PROVE ListOf(v, adj'[v], n)
    <3>1. ListOf(v, adj[v], n)
      BY <1>2 DEF GraphOf
    <3>2. ListOf(v, Mended(v), n)
      BY <1>2, <1>3, <3>1, MendedIs
    <3>3. ListOf(v, <<>>, n)
      <4>1. <<>> \in Seq((0 .. n - 1) \ {v}) /\ Len(<<>>) = 0 /\ IsInjective(<<>>)
        BY EmptySeq DEF IsInjective
      <4> QED BY <4>1, RoomType DEF ListOf
    <3> QED BY <1>3, <3>1, <3>2, <3>3
  <2>2. ASSUME NEW v \in hostDeleted' PROVE adj'[v] = <<>>
    <3>1. v \in deleted
      BY <1>3 DEF HostInv, Mirrored
    <3>2. v \in Slots
      BY <1>4, <3>1, FirstSlots DEF MapsAgree
    <3>3. v \notin ToSet(DeleteSlots) => adj[v] = <<>>
      BY <1>2, <1>3 DEF GraphOf
    <3> QED BY <1>3, <3>1, <3>2, <3>3
  <2>3. DOMAIN adj' = Slots /\ adj' = [v \in Slots |-> adj'[v]] /\ n \in Nat
    BY <1>3, CapacityType
  <2> QED BY <2>1, <2>2, <2>3, GraphFromLists
<1>7. AddsIn(n, work', addScratch')
  BY <1>2, <1>3, DrainKeepsAdds
<1> QED BY <1>3, <1>4, <1>5, <1>6, <1>7 DEF GraphInv
-----------------------------------------------------------------------------
(* What the repair kernels add.                                            *)

LEMMA PrefixIs ==
  ASSUME NEW S, NEW s \in Seq(S), NEW c \in Nat
  PROVE  SubSeq(s, 1, IF Len(s) <= c THEN Len(s) ELSE c) \in Seq(S)
<1>1. PICK e \in Int : e = IF Len(s) <= c THEN Len(s) ELSE c
  BY LenProperties
<1>2. 1 \in Int /\ e \in Int /\ \A i \in 1 .. e : s[i] \in S
  BY <1>1, ElementOfSeq, LenProperties
<1>3. SubSeq(s, 1, e) \in Seq(S)
  BY <1>2, SubSeqProperties
<1> QED BY <1>1, <1>3

LEMMA ClosestIs ==
  ASSUME NEW n \in 0 .. Capacity, NEW v \in Slots, NEW candidates \in Seq(0 .. n - 1), NEW p, NEW dead
  PROVE  Closest(v, candidates, p, dead) \in Seq(0 .. n - 1)
<1>1. PICK U, S : U = 0 .. n - 1 /\ S = Slots \ ({p, v} \cup dead) /\ U \subseteq Slots
  BY FirstSlots
<1>2. PICK kept \in Seq(U) : kept = Only(candidates, S)
  <2>1. candidates \in Seq(U)
    BY <1>1
  <2>2. Only(candidates, S) \in Seq(U \cap S)
    BY <2>1, OnlyIs
  <2>3. U \cap S \subseteq U
    OBVIOUS
  <2> QED BY <2>2, <2>3, SeqMonotonic
<1>3. Measured(v, kept)
  <2>1. \A i \in DOMAIN kept : kept[i] \in U
    BY EntriesOf
  <2> QED BY <1>1, <2>1, SlotDistances DEF Measured
<1>4. PICK near \in Seq(U) : near = ByDistance(v, kept)
  BY <1>3, SortedList
<1>5. DelC \in Nat
  BY SlotDistances
<1>6. SubSeq(near, 1, IF Len(near) <= DelC THEN Len(near) ELSE DelC) \in Seq(U)
  BY <1>5, PrefixIs
<1> QED BY <1>1, <1>2, <1>4, <1>6 DEF Closest

(* The vertices a delete batch takes away, and what the walk for one of    *)
(* them finds.                                                             *)
LEMMA RepairIs ==
  ASSUME NEW n \in 0 .. Capacity, GraphOf(n, adj, {}), medoid \in 0 .. n - 1,
         NEW b \in DOMAIN DeleteSlots, DeleteSlots[b] \in Slots, NEW dead
  PROVE  /\ Repair(b, dead).visited \in Seq(0 .. n - 1)
         /\ Repair(b, dead).candidates \in Seq(0 .. n - 1)
<1>1. PICK U : U = 0 .. n - 1 /\ U \subseteq Slots
  BY FirstSlots
<1>2. PICK target \in Slots : target = DeleteSlots[b]
  OBVIOUS
<1>3. PICK walk : walk = Walk(adj, dead, medoid, b - 1, target, DelLd)
  OBVIOUS
<1>4. walk.list \in Seq(Entry(U)) /\ walk.visited \in Seq(U)
  <2>1. \A v \in 0 .. n - 1 : adj[v] \in Seq(0 .. n - 1)
    BY <1>1 DEF GraphOf
  <2> QED BY <1>1, <1>3, <2>1, WalkIsIn, SlotDistances
<1>5. PICK list \in Seq(Entry(U)), k \in Nat :
        /\ list = walk.list /\ k = (IF Len(list) <= DelK THEN Len(list) ELSE DelK) /\ k <= Len(list)
  BY <1>4, SlotDistances, LenProperties
<1>6. [i \in 1 .. k |-> list[i].id] \in Seq(U)
  <2>1. \A e \in Entry(U) : e.id \in U
    BY DEF Entry
  <2>2. \A i \in 1 .. k : list[i] \in Entry(U)
    BY <1>5, EntriesOf
  <2>3. \A i \in 1 .. k : list[i].id \in U
    BY <2>1, <2>2
  <2>4. [i \in 1 .. k |-> list[i].id] \in [1 .. k -> U]
    BY <2>3
  <2> QED BY <1>5, <2>4, SeqDef
<1>7. Repair(b, dead) = [visited |-> walk.visited, candidates |-> [i \in 1 .. k |-> list[i].id]]
  BY <1>2, <1>3, <1>5 DEF Repair
<1> QED BY <1>1, <1>4, <1>6, <1>7

LEMMA InRepairIs ==
  ASSUME NEW n \in 0 .. Capacity, GraphOf(n, adj, {}), medoid \in 0 .. n - 1,
         \A b \in DOMAIN DeleteSlots : DeleteSlots[b] \in Slots, NEW dead
  PROVE  InRepair(dead) \in [Threads -> Seq([at : Slots, adds : Seq(0 .. n - 1)])]
<1>1. PICK U : U = 0 .. n - 1 /\ U \subseteq Slots
  BY FirstSlots
<1> DEFINE repair == [b \in DOMAIN DeleteSlots |-> Repair(b, dead)]
           Needs(b, i) ==
             /\ b \in DOMAIN repair /\ i \in DOMAIN repair[b].visited
             /\ repair[b].visited[i] \notin {DeleteSlots[b]} \cup dead
             /\ DeleteSlots[b] \in ToSet(adj[repair[b].visited[i]])
           row(t) == IF Needs(t[1], t[2])
                     THEN LET z == repair[t[1]].visited[t[2]]
                          IN  <<[at |-> z, adds |-> Closest(z, repair[t[1]].candidates,
                                                            DeleteSlots[t[1]], dead)]>>
                     ELSE <<>>
<1>2. InRepair(dead) = [t \in Threads |-> row(t)]
  BY DEF InRepair
<1> DEFINE Adding == [at : Slots, adds : Seq(U)]
<1>3. ASSUME NEW t \in Threads PROVE row(t) \in Seq(Adding)
  <2>1. CASE Needs(t[1], t[2])
    <3>1. PICK b, i : b = t[1] /\ i = t[2]
      OBVIOUS
    <3>2. b \in DOMAIN DeleteSlots /\ i \in DOMAIN Repair(b, dead).visited /\ repair[b] = Repair(b, dead)
      BY <2>1, <3>1
    <3>3. PICK visited \in Seq(U), candidates \in Seq(U) :
            visited = Repair(b, dead).visited /\ candidates = Repair(b, dead).candidates
      BY <1>1, <3>2, RepairIs
    <3>4. PICK z \in U : z = visited[i]
      BY <3>2, <3>3, EntriesOf
    <3>5. PICK adds \in Seq(U) : adds = Closest(z, candidates, DeleteSlots[b], dead)
      BY <1>1, ClosestIs
    <3>6. PICK r \in Adding : r = [at |-> z, adds |-> adds]
      BY <1>1
    <3>7. row(t) = <<r>>
      BY <2>1, <3>1, <3>2, <3>3, <3>4, <3>5, <3>6
    <3> HIDE DEF row, Adding
    <3> QED BY <3>7
  <2>2. CASE ~Needs(t[1], t[2])
    <3>1. row(t) = <<>>
      BY <2>2
    <3> QED BY <3>1
  <2> QED BY <2>1, <2>2
<1> QED
  <2> HIDE DEF row
  <2> QED BY <1>1, <1>2, <1>3

LEMMA OutRepairIs ==
  ASSUME NEW n \in 0 .. Capacity, GraphOf(n, adj, {}), medoid \in 0 .. n - 1,
         \A b \in DOMAIN DeleteSlots : DeleteSlots[b] \in Slots
  PROVE  OutRepair \in [Threads -> Seq([at : Slots, adds : Seq(0 .. n - 1)])]
<1>1. PICK U : U = 0 .. n - 1 /\ U \subseteq Slots
  BY FirstSlots
<1> DEFINE Kept(t) ==
             /\ t[1] \in DOMAIN DeleteSlots
             /\ t[2] \in DOMAIN adj[DeleteSlots[t[1]]]
             /\ adj[DeleteSlots[t[1]]][t[2]] \notin {DeleteSlots[t[1]]} \cup deleted
           Near(t) == Closest(adj[DeleteSlots[t[1]]][t[2]], Repair(t[1], deleted).candidates,
                              DeleteSlots[t[1]], deleted)
           row(t) == IF Kept(t)
                     THEN [i \in DOMAIN Near(t) |->
                             [at |-> Near(t)[i], adds |-> <<adj[DeleteSlots[t[1]]][t[2]]>>]]
                     ELSE <<>>
<1>2. OutRepair = [t \in Threads |-> row(t)]
  BY DEF OutRepair
<1> DEFINE Adding == [at : Slots, adds : Seq(U)]
<1>3. ASSUME NEW t \in Threads PROVE row(t) \in Seq(Adding)
  <2>1. CASE Kept(t)
    <3>1. PICK b, p : b = t[1] /\ p = DeleteSlots[b]
      OBVIOUS
    <3>2. b \in DOMAIN DeleteSlots /\ p \in Slots
      BY <2>1, <3>1
    <3>3. PICK w \in U : w = adj[p][t[2]]
      <4>1. adj[p] \in Seq(U) /\ t[2] \in DOMAIN adj[p]
        BY <1>1, <2>1, <3>1, <3>2 DEF GraphOf
      <4> QED BY <4>1, EntriesOf
    <3>4. PICK candidates \in Seq(U) : candidates = Repair(b, deleted).candidates
      BY <1>1, <3>1, <3>2, RepairIs
    <3>5. PICK ys \in Seq(U) : ys = Closest(w, candidates, p, deleted)
      BY <1>1, ClosestIs
    <3>6. PICK k \in Nat : k = Len(ys) /\ DOMAIN ys = 1 .. k /\ \A i \in 1 .. k : ys[i] \in U
      BY EntriesOf
    <3>7. Near(t) = ys
      BY <3>1, <3>3, <3>4, <3>5
    <3>8. row(t) = [i \in 1 .. k |-> [at |-> ys[i], adds |-> <<w>>]]
      <4> HIDE DEF Near
      <4> QED BY <2>1, <3>1, <3>3, <3>6, <3>7
    <3>9. <<w>> \in Seq(U)
      OBVIOUS
    <3>10. [i \in 1 .. k |-> [at |-> ys[i], adds |-> <<w>>]] \in [1 .. k -> Adding]
      BY <1>1, <3>6, <3>9
    <3>11. [i \in 1 .. k |-> [at |-> ys[i], adds |-> <<w>>]] \in Seq(Adding)
      <4> HIDE DEF Adding
      <4> QED BY <3>6, <3>10, SeqDef
    <3> HIDE DEF row, Adding
    <3> QED BY <3>8, <3>11
  <2>2. CASE ~Kept(t)
    <3>1. row(t) = <<>>
      BY <2>2
    <3> QED BY <3>1
  <2> QED BY <2>1, <2>2
<1> QED
  <2> HIDE DEF row
  <2> QED BY <1>1, <1>2, <1>3

-----------------------------------------------------------------------------
(* Every step, for the graph and the scratch.                              *)

LEMMA GoneAreSlots ==
  ASSUME HostInv, MapsAgree, NEW b \in DOMAIN DeleteSlots
  PROVE  DeleteSlots[b] \in Slots
<1>1. pending["delete"] \in Seq(EventIds)
  BY DEF HostInv, PendingInv, HostTypeOK, Kinds
<1>2. Known \in Seq(EventIds \cap DOMAIN pointIdToSlot)
  BY <1>1, OnlyIs DEF Known
<1>3. b \in DOMAIN Known /\ DeleteSlots[b] = pointIdToSlot[Known[b]]
  BY DEF DeleteSlots
<1>4. Known[b] \in DOMAIN pointIdToSlot
  BY <1>2, <1>3, EntriesOf
<1>5. DeleteSlots[b] \in 0 .. InHand - 1
  BY <1>3, <1>4 DEF MapsAgree
<1> QED BY <1>5, InHandIs, FirstSlots

(* A repair kernel is launched, and nothing else changes in the graph.     *)
LEMMA LaunchKeepsGraph ==
  ASSUME HostInv, MapsAgree, GraphInv, NEW requests, Launch(requests),
         UNCHANGED <<numPoints, medoid, adj, hostDeleted>>, pc # "append", pc' # "append",
         requests = OutRepair \/ \E dead : requests = InRepair(dead)
  PROVE  GraphInv' /\ requests \in [Threads -> Seq(Request)]
<1>1. PICK n \in 0 .. Capacity : n = InHand /\ n = numPoints
  BY InHandIs
<1>2. /\ medoid \in 0 .. n - 1 /\ GraphOf(n, adj, hostDeleted) /\ AddsIn(n, work, addScratch)
  BY <1>1 DEF GraphInv
<1>3. GraphOf(n, adj, {})
  BY <1>2 DEF GraphOf
<1>4. requests \in [Threads -> Seq([at : Slots, adds : Seq(0 .. n - 1)])]
  BY <1>2, <1>3, GoneAreSlots, InRepairIs, OutRepairIs
<1>5. AddsIn(n, work', addScratch') /\ work' = requests
  BY <1>2, <1>4 DEF Launch, AddsIn
<1>6. InHand' = n /\ numPoints' = n
  BY <1>1, CapacityType DEF InHand
<1>7. GraphInv'
  BY <1>2, <1>5, <1>6 DEF GraphInv
<1> QED BY <1>5, <1>7, AddsAreRequests

LEMMA LaunchIsAppended ==
  ASSUME ScratchInv, NEW requests \in [Threads -> Seq(Request)], Launch(requests)
  PROVE  ScratchInv'
<1>1. ScratchClient
  BY DEF Launch, ScratchClient
<1> QED BY <1>1, ScratchStep

LEMMA GraphUntouched ==
  ASSUME HostInv, GraphInv, ScratchInv, UNCHANGED <<graphVars, scratchVars, hostDeleted>>,
         UNCHANGED <<pc, pending>> \/ (pc # "append" /\ pc' # "append")
  PROVE  GraphInv' /\ ScratchInv'
<1>1. UNCHANGED <<numPoints, medoid, adj, hostDeleted, work, addScratch>>
  BY DEF graphVars, scratchVars
<1>2. InHand' = InHand
  BY <1>1 DEF InHand, ChunkLength, Room
<1>3. GraphInv'
  BY <1>1, <1>2 DEF GraphInv
<1> QED BY <1>3, ScratchStep

LEMMA GraphInitially == Init => GraphInv /\ ScratchInv
<1> SUFFICES ASSUME Init PROVE GraphInv /\ ScratchInv
  OBVIOUS
<1>1. ScratchInv
  BY ScratchInitially DEF Init
<1>2. L \in 0 .. Capacity /\ InHand = L /\ numPoints = L
  BY CapacityType DEF Init, InHand
<1>3. medoid \in 0 .. L - 1
  BY IndexAssumption DEF Init, IndexAssumption
<1>4. GraphOf(L, adj, hostDeleted)
  <2>1. ASSUME NEW v \in Slots PROVE ListOf(v, adj[v], L)
    <3>1. adj[v] \in Seq(0 .. L - 1) /\ Len(adj[v]) <= R /\ IsInjective(adj[v]) /\ v \notin ToSet(adj[v])
      BY BaseAssumption DEF Init, BaseAssumption
    <3>2. PICK U, S : U = (0 .. L - 1) \ {v} /\ S = 0 .. L - 1
      OBVIOUS
    <3>3. PICK list \in Seq(S) : list = adj[v]
      BY <3>1, <3>2
    <3>4. \A i \in 1 .. Len(list) : list[i] \in U
      <4>1. \A i \in 1 .. Len(list) : list[i] \in S /\ list[i] \in ToSet(list)
        BY EntriesOf
      <4>2. v \notin ToSet(list)
        BY <3>1, <3>3
      <4> QED BY <3>2, <4>1, <4>2
    <3>5. list \in [1 .. Len(list) -> U] /\ Len(list) \in Nat
      BY <3>4, LenProperties
    <3>6. list \in Seq(U)
      BY <3>5, SeqDef
    <3> QED BY <3>1, <3>2, <3>3, <3>6 DEF ListOf
  <2>2. DOMAIN adj = Slots /\ adj = [v \in Slots |-> adj[v]] /\ L \in Nat /\ hostDeleted = {}
    BY CapacityType, BaseAssumption DEF Init, BaseAssumption
  <2> QED BY <2>1, <2>2, GraphFromLists
<1>5. AddsIn(L, work, addScratch)
  <2>1. Empty \in [0 .. P - 1 -> (0 .. L - 1) \cup {Stale}]
    BY DEF Empty
  <2>2. work = [t \in Threads |-> <<>>] /\ addScratch = [v \in Slots |-> Empty]
    BY DEF Init, ScratchInit
  <2>3. <<>> \in Seq([at : Slots, adds : Seq(0 .. L - 1)])
    BY EmptySeq
  <2> QED BY <2>1, <2>2, <2>3 DEF AddsIn
<1> QED BY <1>1, <1>2, <1>3, <1>4, <1>5 DEF GraphInv

LEMMA GraphStep ==
  ASSUME StoreInv, GraphInv, ScratchInv, [Next]_vars
  PROVE  GraphInv' /\ ScratchInv'
<1>0. HostInv /\ MapsAgree
  BY DEF StoreInv
<1>a. ASSUME UNCHANGED <<graphVars, scratchVars, hostDeleted>>,
             UNCHANGED <<pc, pending>> \/ (pc # "append" /\ pc' # "append")
      PROVE  GraphInv' /\ ScratchInv'
  BY <1>0, <1>a, GraphUntouched
<1>1. CASE \E kind \in Kinds : Event(kind)
  BY <1>1, <1>a DEF Event
<1>2. CASE EventsOver
  BY <1>2, <1>a DEF EventsOver
<1>3. CASE PushEvent
  BY <1>3, <1>a DEF PushEvent, Doing
<1>4. CASE GiveUp \/ NothingToDelete \/ FlushQueries
  BY <1>4, <1>a DEF GiveUp, NothingToDelete, FlushQueries, Flushing, Doing
<1>5. CASE InsertChunk
  BY <1>0, <1>5, InsertKeepsGraph, LaunchIsAppended
<1>6. CASE PruneInserted
  <2>1. ScratchClient
    BY <1>6 DEF PruneInserted, ScratchClient
  <2> QED BY <1>0, <1>6, <2>1, PruneKeepsGraph, ScratchStep
<1>7. CASE MarkDeleted
  <2>1. PICK dead : Launch(InRepair(dead))
    BY <1>7 DEF MarkDeleted
  <2>2. UNCHANGED <<numPoints, medoid, adj, hostDeleted>> /\ pc # "append" /\ pc' # "append"
    BY <1>7 DEF MarkDeleted, Flushing, Doing
  <2>3. GraphInv' /\ InRepair(dead) \in [Threads -> Seq(Request)]
    BY <1>0, <2>1, <2>2, LaunchKeepsGraph
  <2> QED BY <2>1, <2>3, LaunchIsAppended
<1>8. CASE LaunchOutRepair
  <2>1. Launch(OutRepair)
    BY <1>8 DEF LaunchOutRepair
  <2>2. UNCHANGED <<numPoints, medoid, adj, hostDeleted>> /\ pc # "append" /\ pc' # "append"
    BY <1>8 DEF LaunchOutRepair, graphVars
  <2>3. GraphInv' /\ OutRepair \in [Threads -> Seq(Request)]
    BY <1>0, <2>1, <2>2, LaunchKeepsGraph
  <2> QED BY <2>1, <2>3, LaunchIsAppended
<1>9. CASE FinishDelete
  <2>1. ScratchClient
    BY <1>9 DEF FinishDelete, ScratchClient
  <2> QED BY <1>0, <1>9, <2>1, FinishKeepsGraph, ScratchStep
<1>10. CASE Kernels
  <2>1. PICK t \in Threads : AppendStep(t)
    BY <1>10 DEF Kernels
  <2>2. UNCHANGED <<pc, pending, numPoints, medoid, adj, hostDeleted>>
    BY <1>10 DEF Kernels, hostVars, graphVars
  <2>3. InHand' = InHand
    BY <2>2 DEF InHand, ChunkLength, Room
  <2>4. AddsIn(InHand, work', addScratch')
    <3>1. PICK n \in 0 .. Capacity : n = InHand
      BY <1>0, InHandIs
    <3>2. AddsIn(n, work, addScratch)
      BY <3>1 DEF GraphInv
    <3>3. AddsIn(n, work', addScratch')
      BY <2>1, <3>2, StepKeepsAdds DEF ScratchInv
    <3> QED BY <3>1, <3>3
  <2>5. GraphInv'
    BY <2>2, <2>3, <2>4 DEF GraphInv
  <2>6. ScratchClient
    BY <2>1 DEF ScratchClient
  <2> QED BY <2>5, <2>6, ScratchStep
<1>11. CASE UNCHANGED vars
  BY <1>11, <1>a DEF vars, hostVars
<1> QED BY <1>1, <1>2, <1>3, <1>4, <1>5, <1>6, <1>7, <1>8, <1>9, <1>10, <1>11
        DEF Next, Loop, Batch
-----------------------------------------------------------------------------
(* Answers.                                                                *)

(* What was answered is a slot in use and its point; a tombstone only when *)
(* there was no live vertex to start from.                                 *)
AnswersInv ==
  \A a \in answers :
    /\ a.slot \in 0 .. numPoints - 1
    /\ slotToPointId[a.slot] = a.pid
    /\ a.dead => emptied

IndexInv == StoreInv /\ ScratchInv /\ GraphInv /\ AnswersInv

(* Slots in use keep their points.                                         *)
LEMMA AnswersKept ==
  ASSUME AnswersInv, answers' = answers, numPoints \in Nat, numPoints' \in Nat,
         numPoints <= numPoints', emptied => emptied',
         \A s \in 0 .. numPoints - 1 : slotToPointId'[s] = slotToPointId[s]
  PROVE  AnswersInv'
<1>1. \A s \in 0 .. numPoints - 1 : s \in 0 .. numPoints' - 1
  OBVIOUS
<1> QED BY <1>1 DEF AnswersInv

LEMMA FoundIs ==
  ASSUME StoreInv, GraphInv, Flushing("query"), NEW b \in DOMAIN pending["query"], NEW s \in Found(b)
  PROVE  s \in 0 .. numPoints - 1 /\ (s \in deleted => emptied)
<1>1. PICK n \in 0 .. Capacity : n = InHand /\ n = numPoints
  BY InHandIs DEF StoreInv, Flushing, Doing
<1>2. medoid \in 0 .. n - 1 /\ GraphOf(n, adj, hostDeleted)
  BY <1>1 DEF GraphInv
<1>3. PICK target \in Slots \cup Queries : target = pending["query"][b]
  <2>1. pending["query"] \in Seq(IdsOf["query"])
    BY DEF StoreInv, RequestsKept, Kinds
  <2>2. pending["query"][b] \in IdsOf["query"]
    BY <2>1, EntriesOf
  <2> QED BY <2>2, IndexAssumption DEF IndexAssumption
<1>4. hostDeleted = deleted
  BY DEF StoreInv, HostInv, Mirrored, Flushing, Doing
<1>5. PICK U \in {0 .. n - 1, (0 .. n - 1) \ deleted} :
        medoid \in U /\ (emptied \/ U = (0 .. n - 1) \ deleted)
  <2>1. medoid \in (0 .. n - 1) \ deleted \/ emptied
    BY <1>1, <1>4 DEF StoreInv, HostInv, EntryKept, LiveSlots
  <2> QED BY <1>2, <2>1
<1>6. PICK walk : walk = Walk(adj, deleted, medoid, b - 1, target, SearchL)
  OBVIOUS
<1>7. PICK list \in Seq(Entry(U)) : list = walk.list
  <2>1. \A v \in 0 .. n - 1 : adj[v] \in Seq(0 .. n - 1)
    BY <1>2, FirstSlots DEF GraphOf
  <2>2. SearchL \in Nat
    BY SlotDistances
  <2>3. walk.list \in Seq(Entry(U))
    BY <1>5, <1>6, <2>1, <2>2, WalkIsIn
  <2> QED BY <2>3
<1>8. s \in TopK(list, K)
  BY <1>3, <1>6, <1>7 DEF Found
<1>9. PICK i \in DOMAIN list : s = list[i].id
  BY <1>8 DEF TopK
<1>10. list[i] \in Entry(U)
  BY EntriesOf
<1>11. s \in U
  <2>1. \A e \in Entry(U) : e.id \in U
    BY DEF Entry
  <2> QED BY <1>9, <1>10, <2>1
<1> QED BY <1>1, <1>5, <1>11

LEMMA AnswersStep ==
  ASSUME StoreInv, StoreInv', GraphInv, AnswersInv, [Next]_vars
  PROVE  AnswersInv'
<1>0. numPoints \in Nat /\ numPoints' \in Nat
  BY DEF StoreInv, HostInv, InUse
<1>a. ASSUME UNCHANGED <<answers, numPoints, slotToPointId>>, emptied => emptied'
      PROVE  AnswersInv'
  BY <1>0, <1>a, AnswersKept
<1>1. CASE \E kind \in Kinds : Event(kind)
  BY <1>1, <1>a DEF Event, graphVars, historyVars
<1>2. CASE EventsOver \/ GiveUp \/ NothingToDelete
  BY <1>2, <1>a DEF EventsOver, GiveUp, NothingToDelete, graphVars, historyVars
<1>3. CASE PushEvent
  BY <1>3, <1>a DEF PushEvent, graphVars
<1>4. CASE InsertChunk
  <2>1. \A s \in 0 .. numPoints - 1 : slotToPointId'[s] = slotToPointId[s]
    <3>1. numPoints <= Capacity
      BY DEF StoreInv, HostInv, InUse
    <3>2. \A s \in 0 .. numPoints - 1 : s \in Slots /\ ~(s >= numPoints)
      BY <1>0, <3>1, SlotsType, CapacityType
    <3> QED BY <1>4, <3>2 DEF InsertChunk
  <2>2. UNCHANGED <<answers, numPoints, emptied>>
    BY <1>4 DEF InsertChunk, historyVars
  <2> QED BY <1>0, <2>1, <2>2, AnswersKept
<1>5. CASE PruneInserted
  <2>1. ChunkLength \in Nat
    BY ChunkFits DEF StoreInv, HostInv, PendingInv
  <2>2. UNCHANGED <<answers, slotToPointId, emptied>> /\ numPoints' = numPoints + ChunkLength
    BY <1>5 DEF PruneInserted
  <2>3. numPoints <= numPoints'
    BY <1>0, <2>1, <2>2
  <2> QED BY <1>0, <2>2, <2>3, AnswersKept
<1>6. CASE MarkDeleted \/ LaunchOutRepair
  BY <1>6, <1>a DEF MarkDeleted, LaunchOutRepair, graphVars, historyVars
<1>7. CASE FinishDelete
  BY <1>7, <1>a DEF FinishDelete
<1>8. CASE FlushQueries
  <2>1. /\ UNCHANGED <<numPoints, slotToPointId, emptied>> /\ Flushing("query")
        /\ answers' = answers \cup
             {[slot |-> s, pid |-> slotToPointId[s], dead |-> s \in deleted] :
                s \in UNION {Found(b) : b \in DOMAIN pending["query"]}}
    BY <1>8 DEF FlushQueries, graphVars
  <2>2. ASSUME NEW a \in answers', a \notin answers
        PROVE  /\ a.slot \in 0 .. numPoints - 1
               /\ slotToPointId[a.slot] = a.pid
               /\ a.dead => emptied
    <3>1. PICK s \in UNION {Found(b) : b \in DOMAIN pending["query"]} :
            a = [slot |-> s, pid |-> slotToPointId[s], dead |-> s \in deleted]
      BY <2>1, <2>2
    <3>2. PICK b \in DOMAIN pending["query"] : s \in Found(b)
      BY <3>1
    <3>3. s \in 0 .. numPoints - 1 /\ (s \in deleted => emptied)
      BY <2>1, <3>2, FoundIs
    <3>4. a.slot = s /\ a.pid = slotToPointId[s] /\ a.dead = (s \in deleted)
      BY <3>1
    <3> QED BY <3>3, <3>4
  <2> QED BY <2>1, <2>2 DEF AnswersInv
<1>9. CASE UNCHANGED <<hostVars, graphVars, historyVars>>
  BY <1>9, <1>a DEF hostVars, graphVars, historyVars
<1> QED BY <1>1, <1>2, <1>3, <1>4, <1>5, <1>6, <1>7, <1>8, <1>9
        DEF Next, Loop, Batch, Kernels, vars

LEMMA IndexStep == IndexInv /\ [Next]_vars => IndexInv'
<1> SUFFICES ASSUME IndexInv, [Next]_vars PROVE IndexInv'
  OBVIOUS
<1>1. StoreInv'
  BY StoreStep DEF IndexInv
<1> QED BY <1>1, GraphStep, AnswersStep DEF IndexInv

LEMMA IndexInvariant == Spec => []IndexInv
<1>1. Init => IndexInv
  <2>1. Init => AnswersInv
    BY DEF Init, AnswersInv
  <2> QED BY <2>1, HostInitially, StoreInitially, GraphInitially DEF IndexInv, StoreInv
<1> QED BY <1>1, IndexStep, PTL DEF Spec

(* Every variable of the executor and of the graph keeps its type: no slot *)
(* is handed out past the capacity, no list names anything but slots, and  *)
(* every id is one that was asked for.                                     *)
THEOREM IndexTyped == Spec => []TypeOK
<1>1. IndexInv => TypeOK
  <2> SUFFICES ASSUME IndexInv PROVE TypeOK
    OBVIOUS
  <2>1. HostInv /\ MapsAgree /\ RequestsKept /\ HostTypeOK /\ InUse
    BY DEF IndexInv, StoreInv, HostInv, PendingInv
  <2>2. PICK n \in 0 .. Capacity : n = InHand /\ 0 .. n - 1 \subseteq Slots
    BY <2>1, InHandIs, FirstSlots
  <2>3. todo \in Seq([do : {"flush", "push"}, kind : Kinds, id : Pids \cup Queries \cup {NoPid}])
    <3>1. Task \subseteq [do : {"flush", "push"}, kind : Kinds, id : Pids \cup Queries \cup {NoPid}]
      BY DEF Task, Flush, Push, EventIds
    <3> QED BY <2>1, <3>1, SeqMonotonic DEF HostTypeOK
  <2>4. numPoints \in L .. Capacity
    BY <2>1, CapacityType DEF InUse
  <2>5. adj \in [Slots -> Seq(Slots)] /\ medoid \in Slots
    <3>1. Seq(0 .. n - 1) \subseteq Seq(Slots)
      BY <2>2, SeqMonotonic
    <3>2. adj \in [Slots -> Seq(0 .. n - 1)]
      BY <2>2 DEF IndexInv, GraphInv, GraphOf
    <3>3. medoid \in 0 .. numPoints - 1 /\ numPoints \in 0 .. Capacity
      BY <2>4, CapacityType DEF IndexInv, GraphInv
    <3> QED BY <3>1, <3>2, <3>3, FirstSlots
  <2>6. deleted \subseteq Slots /\ hostDeleted \subseteq Slots
    <3>1. numPoints \in 0 .. Capacity
      BY <2>4, CapacityType
    <3>2. deleted \subseteq Slots
      BY <2>1, <3>1, FirstSlots DEF MapsAgree
    <3> QED BY <2>1, <3>2 DEF HostInv, Mirrored, HostTypeOK
  <2>7. \A p \in DOMAIN pointIdToSlot : pointIdToSlot[p] \in Slots
    BY <2>1, <2>2 DEF MapsAgree
  <2> QED BY <2>1, <2>3, <2>4, <2>5, <2>6, <2>7
         DEF TypeOK, IndexInv, ScratchInv, HostTypeOK, MapsAgree, RequestsKept
<1> QED BY <1>1, IndexInvariant, PTL

(* Between two flushes every list names at most R other vertices in use,   *)
(* each once, and a tombstone's is empty: whatever the graph, the batches  *)
(* and the order in which the threads of the kernels append.               *)
THEOREM GraphSound == Spec => []ListsSound
<1>1. IndexInv => ListsSound
  <2> SUFFICES ASSUME IndexInv, pc = "loop", NEW v \in 0 .. numPoints - 1
               PROVE  /\ Len(adj[v]) <= R /\ IsInjective(adj[v])
                      /\ ToSet(adj[v]) \subseteq (0 .. numPoints - 1) \ {v}
                      /\ v \in deleted => adj[v] = <<>>
    BY DEF ListsSound
  <2>1. PICK n \in 0 .. Capacity : n = InHand /\ n = numPoints
    BY InHandIs DEF IndexInv, StoreInv
  <2>2. v \in Slots
    BY <2>1, FirstSlots
  <2>3. ListOf(v, adj[v], n) /\ (v \in hostDeleted => adj[v] = <<>>)
    BY <2>1, <2>2 DEF IndexInv, GraphInv, GraphOf
  <2>4. hostDeleted = deleted
    BY DEF IndexInv, StoreInv, HostInv, Mirrored
  <2>5. ToSet(adj[v]) \subseteq (0 .. n - 1) \ {v}
    BY <2>3, EntriesOf DEF ListOf
  <2> QED BY <2>1, <2>3, <2>4, <2>5 DEF ListOf
<1> QED BY <1>1, IndexInvariant, PTL

(* No search returns a tombstone, unless the index was once without a live *)
(* vertex; and an answer still translates to the point it was when all is  *)
(* over and slots are looked up, for slots are never reused.               *)
THEOREM AnswersHold == Spec => []AnswersStand
<1>1. IndexInv => AnswersStand
  BY DEF IndexInv, AnswersInv, AnswersStand
<1> QED BY <1>1, IndexInvariant, PTL

(* The insert and delete kernels are clients of the scratch: the places    *)
(* and the list they use are sound in every run of the index.              *)
THEOREM KernelsUseScratch == Spec => [](PlacesWritten /\ ListedOnce)
<1>1. IndexInv => PlacesWritten /\ ListedOnce
  BY PlacesFollow, ListFollows DEF IndexInv
<1> QED BY <1>1, IndexInvariant, PTL
=============================================================================
