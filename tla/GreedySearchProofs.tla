-------------------------- MODULE GreedySearchProofs --------------------------
(***************************************************************************)
(* Theorems about a batch of queries searched in lockstep, for any graph,  *)
(* filter, batch, list length and check interval, and any order in which   *)
(* the blocks of a kernel return.                                          *)
(***************************************************************************)
EXTENDS GreedySearch, GreedyWalkProofs

-----------------------------------------------------------------------------
(* Merging, for what a work list names and for what it loses.              *)

(* Of the vertices let in so far, and the start m, a list names each once; *)
(* but the start may also have been let in, and is then named twice, once  *)
(* by the entry the search began with, which counts as visited.            *)
Names(list, S, m) ==
  /\ \A i \in DOMAIN list : list[i].id \in S \cup {m}
  /\ \A i, j \in DOMAIN list : i # j /\ list[i].id = list[j].id =>
       /\ list[i].id = m /\ m \in S
       /\ list[i].visited \/ list[j].visited
       /\ \A h \in DOMAIN list : list[h].id = m => h \in {i, j}
  /\ m \notin S => \A i \in DOMAIN list : list[i].id = m => list[i].visited

(* The entries of these vertices are visited.                              *)
AllVisited(list, X) == \A i \in DOMAIN list : list[i].id \in X => list[i].visited

(* A vertex of S that is not in the list is no nearer than those that are. *)
Kept(t, list, S, width) ==
  \A v \in S : v \in Ids(list) \/
    (Len(list) = width /\ \A i \in DOMAIN list : Dist(t, list[i].id) <= Dist(t, v))

(* The items of a merge: entries of the list, then neighbours.             *)
LEMMA ItemNames ==
  ASSUME NEW V, NEW list \in Seq(Entry(V)), NEW nr \in Seq(V), IsInjective(nr),
         NEW S, NEW m, Names(list, S, m), ToSet(nr) \cap S = {},
         NEW a \in 1 .. Len(list) + Len(nr), NEW b \in 1 .. Len(list) + Len(nr), a # b,
         Item(list, nr, a).id = Item(list, nr, b).id
  PROVE  /\ Item(list, nr, a).id = m /\ m \in S \cup ToSet(nr)
         /\ Item(list, nr, a).visited \/ Item(list, nr, b).visited
         /\ \A c \in 1 .. Len(list) + Len(nr) : Item(list, nr, c).id = m => c \in {a, b}
<1>1. PICK n \in Nat, k \in Nat : n = Len(list) /\ k = Len(nr)
  BY LenProperties
<1>2. DOMAIN list = 1 .. n /\ DOMAIN nr = 1 .. k
  BY <1>1, LenProperties
<1>3. ASSUME NEW x \in 1 .. n + k
      PROVE  /\ x <= n => x \in DOMAIN list /\ Item(list, nr, x) = list[x]
             /\ ~(x <= n) => /\ x - n \in DOMAIN nr /\ Item(list, nr, x).id = nr[x - n]
                             /\ nr[x - n] \in ToSet(nr)
  <2>1. ~(x <= n) => x - n \in 1 .. k
    BY <1>1
  <2>2. ~(x <= n) => nr[x - n] \in ToSet(nr)
    BY <1>2, <2>1 DEF ToSet
  <2>3. /\ x <= n => Item(list, nr, x) = list[x]
        /\ ~(x <= n) => Item(list, nr, x).id = nr[x - n]
    BY <1>1 DEF Item
  <2> QED BY <1>2, <2>1, <2>2, <2>3
<1>4. CASE a <= n /\ b <= n
  <2>1. /\ list[a].id = m /\ m \in S /\ (list[a].visited \/ list[b].visited)
        /\ \A h \in DOMAIN list : list[h].id = m => h \in {a, b}
    BY <1>1, <1>3, <1>4 DEF Names
  <2>2. ASSUME NEW c \in 1 .. n + k, Item(list, nr, c).id = m PROVE c \in {a, b}
    BY <1>3, <2>1, <2>2
  <2> QED BY <1>1, <1>3, <1>4, <2>1, <2>2
<1>5. CASE ~(a <= n) /\ ~(b <= n)
  <2>0. Item(list, nr, a).id = nr[a - n] /\ Item(list, nr, b).id = nr[b - n]
    BY <1>1, <1>3, <1>5
  <2>1. nr[a - n] = nr[b - n]
    BY <2>0
  <2>2. a - n # b - n
    BY <1>1
  <2> QED BY <1>1, <1>3, <1>5, <2>1, <2>2 DEF IsInjective
<1>6. ASSUME NEW x \in 1 .. n + k, NEW y \in 1 .. n + k, x <= n, ~(y <= n),
             Item(list, nr, x).id = Item(list, nr, y).id
      PROVE  /\ Item(list, nr, x).id = m /\ m \in S \cup ToSet(nr) /\ Item(list, nr, x).visited
             /\ \A c \in 1 .. n + k : Item(list, nr, c).id = m => c \in {x, y}
  <2>1. list[x].id \in S \cup {m} /\ list[x].id \in ToSet(nr) /\ x \in DOMAIN list
    BY <1>3, <1>6 DEF Names
  <2>2. list[x].id = m /\ m \notin S /\ m \in ToSet(nr)
    BY <2>1
  <2>3. list[x].visited /\ Item(list, nr, x) = list[x]
    BY <1>3, <1>6, <2>1, <2>2 DEF Names
  <2>4. ASSUME NEW c \in 1 .. n + k, Item(list, nr, c).id = m PROVE c \in {x, y}
    <3>1. CASE c <= n
      BY <1>3, <2>1, <2>2, <2>4, <3>1 DEF Names
    <3>2. CASE ~(c <= n)
      <4>1. nr[c - n] = nr[y - n]
        BY <1>3, <1>6, <2>2, <2>3, <2>4, <3>2
      <4>2. c - n = y - n
        BY <1>3, <1>6, <3>2, <4>1 DEF IsInjective
      <4> QED BY <4>2
    <3> QED BY <3>1, <3>2
  <2> QED BY <2>2, <2>3, <2>4
<1>7. CASE a <= n /\ ~(b <= n)
  BY <1>1, <1>6, <1>7
<1>8. CASE ~(a <= n) /\ b <= n
  BY <1>1, <1>6, <1>8
<1> QED BY <1>4, <1>5, <1>7, <1>8

(* What a merge leaves is named once, if it was.                           *)
LEMMA MergedNames ==
  ASSUME NEW V, NEW t, MeasuredFrom(t, V), NEW list \in Seq(Entry(V)), NEW nr \in Seq(V),
         NEW width \in Nat, NEW at, NEW merged, Interleaved(t, list, nr, width, at, merged),
         IsInjective(nr), NEW S, NEW m, Names(list, S, m), ToSet(nr) \cap S = {}
  PROVE  Names(merged, S \cup ToSet(nr), m)
<1>1. PICK N : N = 1 .. Len(list) + Len(nr)
  OBVIOUS
<1>2. PICK T : T = S \cup ToSet(nr)
  OBVIOUS
<1>3. /\ DOMAIN merged \subseteq N
      /\ \A p \in DOMAIN merged : merged[p] = Item(list, nr, at[p])
      /\ \A p \in N : at[p] \in N
      /\ \A p, q \in N : at[p] = at[q] => p = q
  <2>1. PICK n \in Nat, len \in Nat : n = Len(list) + Len(nr) /\ len = Len(merged) /\ len <= n
    BY MergedEntries, LenProperties
  <2> QED BY <1>1, <2>1, MergedEntries
<1>4. \A a, b \in N : a # b /\ Item(list, nr, a).id = Item(list, nr, b).id =>
        /\ Item(list, nr, a).id = m /\ m \in T
        /\ Item(list, nr, a).visited \/ Item(list, nr, b).visited
        /\ \A c \in N : Item(list, nr, c).id = m => c \in {a, b}
  BY <1>1, <1>2, ItemNames
<1>5. \A a \in N : /\ Item(list, nr, a).id \in T \cup {m}
                   /\ m \notin T /\ Item(list, nr, a).id = m => Item(list, nr, a).visited
  <2> SUFFICES ASSUME NEW a \in N
               PROVE  /\ Item(list, nr, a).id \in T \cup {m}
                      /\ m \notin T /\ Item(list, nr, a).id = m => Item(list, nr, a).visited
    OBVIOUS
  <2>1. CASE a <= Len(list)
    <3>1. Item(list, nr, a) = list[a] /\ a \in DOMAIN list
      BY <1>1, <2>1, LenProperties DEF Item
    <3> QED BY <1>2, <3>1 DEF Names
  <2>2. CASE ~(a <= Len(list))
    <3>1. a - Len(list) \in DOMAIN nr /\ Item(list, nr, a).id = nr[a - Len(list)]
      BY <1>1, <2>2, LenProperties DEF Item
    <3>2. Item(list, nr, a).id \in ToSet(nr)
      BY <3>1 DEF ToSet
    <3> QED BY <1>2, <3>2
  <2> QED BY <2>1, <2>2
<1>6. \A i, j \in DOMAIN merged : i # j /\ merged[i].id = merged[j].id =>
        /\ merged[i].id = m /\ m \in T
        /\ merged[i].visited \/ merged[j].visited
        /\ \A h \in DOMAIN merged : merged[h].id = m => h \in {i, j}
  <2> SUFFICES ASSUME NEW i \in DOMAIN merged, NEW j \in DOMAIN merged, i # j,
                      merged[i].id = merged[j].id
               PROVE  /\ merged[i].id = m /\ m \in T
                      /\ merged[i].visited \/ merged[j].visited
                      /\ \A h \in DOMAIN merged : merged[h].id = m => h \in {i, j}
    OBVIOUS
  <2>1. PICK a \in N, b \in N : a = at[i] /\ b = at[j]
    BY <1>3
  <2>2. /\ a # b /\ merged[i] = Item(list, nr, a) /\ merged[j] = Item(list, nr, b)
    BY <1>3, <2>1
  <2>3. /\ Item(list, nr, a).id = m /\ m \in T
        /\ Item(list, nr, a).visited \/ Item(list, nr, b).visited
        /\ \A c \in N : Item(list, nr, c).id = m => c \in {a, b}
    BY <1>4, <2>2
  <2>4. ASSUME NEW h \in DOMAIN merged, merged[h].id = m PROVE h \in {i, j}
    <3>1. at[h] \in {a, b}
      BY <1>3, <2>3, <2>4
    <3> QED BY <1>3, <2>1, <3>1
  <2> QED BY <2>2, <2>3, <2>4
<1> QED BY <1>2, <1>3, <1>5, <1>6 DEF Names

(* Its entries are those of the list as they were, and new ones.           *)
FromBoth(list, nr, merged) ==
  \A p \in DOMAIN merged :
    \/ \E i \in DOMAIN list : merged[p] = list[i]
    \/ merged[p].id \in ToSet(nr) /\ merged[p].visited = FALSE

LEMMA MergedVisited ==
  ASSUME NEW V, NEW t, MeasuredFrom(t, V), NEW list \in Seq(Entry(V)), NEW nr \in Seq(V),
         NEW width \in Nat, NEW at, NEW merged, Interleaved(t, list, nr, width, at, merged)
  PROVE  FromBoth(list, nr, merged)
<1>1. PICK n \in Nat, k \in Nat, len \in Nat :
        n = Len(list) /\ k = Len(nr) /\ len = Len(merged) /\ len <= n + k
  BY MergedEntries, LenProperties
<1>2. SUFFICES ASSUME NEW p \in 1 .. len
               PROVE  \/ \E i \in DOMAIN list : merged[p] = list[i]
                      \/ merged[p].id \in ToSet(nr) /\ merged[p].visited = FALSE
  <2>1. DOMAIN merged = 1 .. Len(merged)
    BY MergedEntries
  <2> QED BY <1>1, <2>1 DEF FromBoth
<1>3. PICK a \in 1 .. n + k : merged[p] = Item(list, nr, a)
  <2>1. /\ \A q \in 1 .. Len(merged) : merged[q] = Item(list, nr, at[q])
        /\ \A q \in 1 .. Len(list) + Len(nr) : at[q] \in 1 .. Len(list) + Len(nr)
    BY MergedEntries
  <2> QED BY <1>1, <2>1
<1>4. CASE a <= n
  BY <1>1, <1>3, <1>4, LenProperties DEF Item
<1>5. CASE ~(a <= n)
  <2>1. a - n \in DOMAIN nr /\ merged[p].id = nr[a - n] /\ merged[p].visited = FALSE
    BY <1>1, <1>3, <1>5, LenProperties DEF Item
  <2> QED BY <2>1 DEF ToSet
<1> QED BY <1>4, <1>5

(* A neighbour merged in before an entry pushes one out that is no nearer. *)
LEMMA MergedKeeps ==
  ASSUME NEW V, NEW t, MeasuredFrom(t, V), NEW list \in Seq(Entry(V)), NEW nr \in Seq(V),
         NEW width \in Nat, Len(list) <= width,
         NEW at, NEW merged, Interleaved(t, list, nr, width, at, merged),
         NEW S, S \subseteq V, Kept(t, list, S, width)
  PROVE  Kept(t, merged, S \cup ToSet(nr), width)
<1>1. PICK n \in Nat, k \in Nat, len \in Nat :
        /\ n = Len(list) /\ k = Len(nr) /\ len = Len(merged) /\ len <= n + k
        /\ DOMAIN list = 1 .. n /\ DOMAIN nr = 1 .. k /\ DOMAIN merged = 1 .. len
  BY MergedEntries, LenProperties
<1>2. SUFFICES ASSUME NEW v \in S \cup ToSet(nr)
               PROVE  v \in Ids(merged) \/
                      (Len(merged) = width /\ \A p \in 1 .. len : Dist(t, merged[p].id) <= Dist(t, v))
  BY <1>1 DEF Kept
<1>3. ASSUME NEW a \in 1 .. n + k, Item(list, nr, a).id = v
      PROVE  v \in Ids(merged) \/
             (Len(merged) = width /\ \A p \in 1 .. len : Dist(t, merged[p].id) <= Dist(t, v))
  <2>1. \/ \E p \in 1 .. Len(merged) : at[p] = a /\ merged[p] = Item(list, nr, a)
        \/ /\ Len(merged) = width
           /\ \A p \in 1 .. Len(merged) :
                Dist(t, merged[p].id) <= Dist(t, Item(list, nr, a).id)
    BY <1>1, MergeLosesTheFarthest
  <2> QED BY <1>1, <1>3, <2>1 DEF Ids
<1>4. CASE v \in Ids(list)
  <2>1. PICK a \in 1 .. n : v = list[a].id
    BY <1>1, <1>4 DEF Ids
  <2> QED BY <1>1, <1>3, <2>1 DEF Item
<1>5. CASE v \in ToSet(nr)
  <2>1. PICK j \in 1 .. k : v = nr[j]
    BY <1>1, <1>5 DEF ToSet
  <2>2. n + j \in 1 .. n + k /\ ~(n + j <= n) /\ (n + j) - n = j
    OBVIOUS
  <2>3. Item(list, nr, n + j).id = v
    BY <1>1, <2>1, <2>2 DEF Item
  <2> QED BY <1>3, <2>2, <2>3
<1>6. CASE v \notin Ids(list) /\ v \notin ToSet(nr)
  <2>1. n = width /\ \A i \in 1 .. n : Dist(t, list[i].id) <= Dist(t, v)
    BY <1>1, <1>6 DEF Kept
  <2>2. len = width
    <3>1. Len(merged) = MergedLength(list, nr, width)
      BY MergedEntries
    <3> QED BY <1>1, <2>1, <3>1 DEF MergedLength
  <2>3. ASSUME NEW p \in 1 .. len PROVE Dist(t, merged[p].id) <= Dist(t, v)
    <3>1. PICK a \in 1 .. n + k : a = at[p] /\ merged[p] = Item(list, nr, a)
      BY <1>1, MergedEntries
    <3>2. CASE a <= n
      BY <1>1, <2>1, <3>1, <3>2 DEF Item
    <3>3. CASE ~(a <= n)
      <4>1. /\ \A c, q \in 1 .. n + k : c < q => Goes(t, list, nr, at[c], at[q])
            /\ \A c \in 1 .. n + k : \E q \in 1 .. n + k : at[q] = c
        BY <1>1 DEF Interleaved
      <4>2. PICK pl \in [1 .. n -> 1 .. n + k] : \A c \in 1 .. n : at[pl[c]] = c
        <5>1. \A c \in 1 .. n : \E q \in 1 .. n + k : at[q] = c
          <6>1. \A c \in 1 .. n : c \in 1 .. n + k
            OBVIOUS
          <6> QED BY <4>1, <6>1
        <5> DEFINE f == [c \in 1 .. n |-> CHOOSE q \in 1 .. n + k : at[q] = c]
        <5>2. f \in [1 .. n -> 1 .. n + k] /\ \A c \in 1 .. n : at[f[c]] = c
          BY <5>1
        <5> HIDE DEF f
        <5> QED BY <5>2
      <4>3. PICK c \in 1 .. n : pl[c] > n
        <5> SUFFICES ASSUME \A c \in 1 .. n : ~(pl[c] > n) PROVE FALSE
          OBVIOUS
        <5>0. \A c \in 1 .. n : pl[c] \in 1 .. n
          OBVIOUS
        <5>1. pl \in [1 .. n -> 1 .. n] /\ \A c, e \in 1 .. n : pl[c] = pl[e] => c = e
          BY <4>2, <5>0
        <5>3. PICK c \in 1 .. n : pl[c] = p
          <6>1. p \in 1 .. n
            BY <2>1, <2>2
          <6>2. \A q \in 1 .. n : \E c \in 1 .. n : pl[c] = q
            BY <5>1, EveryPlaceUpTo
          <6> QED BY <6>1, <6>2
        <5> QED BY <3>1, <3>3, <4>2, <5>3
      <4>4. PICK pc \in 1 .. n + k : p < pc /\ p \in 1 .. n + k /\ at[pc] = c
        <5>1. p \in 1 .. n /\ pl[c] \in 1 .. n + k /\ at[pl[c]] = c
          BY <2>1, <2>2, <4>2
        <5>2. PICK pc \in 1 .. n + k : pc = pl[c] /\ n < pc
          BY <4>3, <5>1
        <5>3. p \in 1 .. n + k /\ p < pc
          BY <5>1, <5>2
        <5>4. at[pc] = c
          BY <5>1, <5>2
        <5> QED BY <5>3, <5>4
      <4>5. Goes(t, list, nr, a, c)
        BY <3>1, <4>1, <4>4
      <4>6. Item(list, nr, a).id \in V /\ Item(list, nr, c).id = list[c].id /\ list[c].id \in V
        <5>1. \A e \in Entry(V) : e.id \in V
          BY DEF Entry
        <5>2. Item(list, nr, a) \in Entry(V) /\ Item(list, nr, c) \in Entry(V)
          <6>1. c \in 1 .. Len(list) + Len(nr) /\ a \in 1 .. Len(list) + Len(nr)
            BY <1>1
          <6> QED BY <6>1, ItemIs
        <5>3. Item(list, nr, c) = list[c]
          BY <1>1 DEF Item
        <5> QED BY <5>1, <5>2, <5>3
      <4>7. v \in V
        BY <1>6
      <4>8. PICK x \in Nat, y \in Nat, z \in Nat :
              x = Dist(t, Item(list, nr, a).id) /\ y = Dist(t, list[c].id) /\ z = Dist(t, v)
        BY <4>6, <4>7 DEF MeasuredFrom
      <4>9. x <= y
        BY <4>5, <4>6, <4>8 DEF Goes
      <4>10. y <= z
        BY <2>1, <4>8
      <4> QED BY <3>1, <4>8, <4>9, <4>10
    <3> QED BY <3>2, <3>3
  <2> QED BY <1>1, <2>2, <2>3
<1> QED BY <1>4, <1>5, <1>6

-----------------------------------------------------------------------------
(* Choosing the next vertex to expand.                                     *)

(* Only the mark of the next entry changes; it is a vertex that was let    *)
(* in, was not expanded before, and has no other entry left to expand.     *)
LEMMA MarkedNames ==
  ASSUME NEW V, NEW list \in Seq(Entry(V)), NEW S, NEW m, Names(list, S, m),
         NEW X, AllVisited(list, X)
  PROVE  /\ Names(MarkNext(list), S, m) /\ AllVisited(MarkNext(list), X)
         /\ Unvisited(list) # {} => /\ NextParent(list) \in S \ X
                                    /\ AllVisited(MarkNext(list), {NextParent(list)})
<1>1. PICK marked : /\ marked = MarkNext(list)
                    /\ DOMAIN marked = DOMAIN list
                    /\ \A i \in DOMAIN list : /\ marked[i].id = list[i].id
                                              /\ list[i].visited => marked[i].visited
  BY MarkedIs
<1>2. Names(marked, S, m)
  BY <1>1 DEF Names
<1>3. AllVisited(marked, X)
  BY <1>1 DEF AllVisited
<1>4. ASSUME Unvisited(list) # {}
      PROVE  NextParent(list) \in S \ X /\ AllVisited(marked, {NextParent(list)})
  <2>1. PICK p \in DOMAIN list : p = NextToVisit(list) /\ ~list[p].visited
    BY <1>4, NextIs
  <2>2. NextParent(list) = list[p].id /\ marked[p].visited
    BY <1>1, <1>4, <2>1, MarkedIs
  <2>3. list[p].id \in S
    BY <2>1 DEF Names
  <2>4. list[p].id \notin X
    BY <2>1 DEF AllVisited
  <2>5. ASSUME NEW i \in DOMAIN marked, marked[i].id = list[p].id PROVE marked[i].visited
    <3>1. CASE i = p
      BY <2>2, <3>1
    <3>2. CASE i # p
      <4>1. list[i].visited \/ list[p].visited
        BY <1>1, <2>1, <2>5, <3>2 DEF Names
      <4> QED BY <1>1, <2>1, <2>5, <4>1
    <3> QED BY <3>1, <3>2
  <2> QED BY <2>2, <2>3, <2>4, <2>5 DEF AllVisited
<1> QED BY <1>1, <1>2, <1>3, <1>4

-----------------------------------------------------------------------------
(* One block.                                                              *)

(* What it expanded after the start: each but once.                        *)
Later(vis) == {vis[i] : i \in 2 .. Len(vis)}
ExpandedOnce(vis) == \A i, j \in 2 .. Len(vis) : vis[i] = vis[j] => i = j

(* The list of a block that let in S, and starts from m.                   *)
OwnList(m, list, S, par, vis) ==
  /\ Names(list, S, m)
  /\ Later(vis) \subseteq S /\ AllVisited(list, Later(vis)) /\ ExpandedOnce(vis)
  /\ Len(vis) # 0 /\ par # NoVertex => par \in S \ Later(vis) /\ AllVisited(list, {par})

(* Merging the last neighbours again would change nothing.                 *)
Idle(t, list, nr, width) ==
  Unvisited(list) = {} /\ Merged(t, list, nr, width) = list

(* All that was let in has been merged.                                    *)
Settled(t, m, width, list, nr, par, vis, adm) ==
  /\ OwnList(m, list, adm, par, vis)
  /\ Kept(t, list, adm, width)
  /\ par = NoVertex => Idle(t, list, nr, width)

(* The last neighbours are still to be merged.                             *)
PendingFor(S, t, m, width, list, nr, vis, adm) ==
  /\ S \subseteq adm
  /\ OwnList(m, list, S, NoVertex, vis)
  /\ Kept(t, list, S, width)
  /\ IsInjective(nr) /\ ToSet(nr) = adm \ S
Pending(t, m, width, list, nr, vis, adm) ==
  \E S : PendingFor(S, t, m, width, list, nr, vis, adm)

(* Every neighbour of what was expanded has been met.                      *)
Met(in, q, list, par, blm) ==
  \A i \in DOMAIN list : list[i].visited /\ list[i].id # par =>
    Unmet(Eligible(in.adj[list[i].id], q, in.dead), in.bits, blm) = {}

BlockTyped(in, t, list, nr, par, blm, vis, adm) ==
  /\ list \in Seq(Entry(Vertices)) /\ Ascending(t, list) /\ Len(list) <= in.searchL
  /\ nr \in Seq(Vertices) /\ InOrder(t, nr)
  /\ par \in Vertices \cup {NoVertex}
  /\ blm \subseteq Nat
  /\ vis \in Seq(Vertices) /\ Len(vis) <= MaxParents
  /\ adm \subseteq Vertices

Searching(in, q, t, list, nr, par, blm, vis, adm, phase) ==
  /\ BlockTyped(in, t, list, nr, par, blm, vis, adm)
  /\ Met(in, q, list, par, blm)
  /\ \A v \in adm : in.bits[v] \subseteq blm
  /\ phase = "merged" => Settled(t, in.medoid, in.searchL, list, nr, par, vis, adm)
  /\ phase = "filtered" =>
       /\ par = NoVertex
       /\ \/ Settled(t, in.medoid, in.searchL, list, nr, par, vis, adm)
          \/ Pending(t, in.medoid, in.searchL, list, nr, vis, adm)

LEMMA InputIs ==
  ASSUME NEW in \in InputType
  PROVE  /\ in.medoid \in Vertices /\ in.searchL \in Nat \ {0}
         /\ \A v \in Vertices : in.adj[v] \in Seq(Vertices) /\ in.bits[v] \subseteq Nat
         /\ NoVertex \notin Vertices /\ IsFiniteSet(Vertices)
         /\ \A t \in Targets : MeasuredFrom(t, Vertices)
<1>1. /\ in.medoid \in Vertices /\ in.searchL \in Nat \ {0}
      /\ in.adj \in [Vertices -> Seq(Vertices)] /\ in.bits \in [Vertices -> SUBSET Nat]
  BY DEF InputType
<1>2. NoVertex \notin Vertices /\ IsFiniteSet(Vertices) /\ \A t \in Targets : MeasuredFrom(t, Vertices)
  BY SearchAssumption DEF SearchAssumption, MeasuredFrom
<1> QED BY <1>1, <1>2

LEMMA StartIs ==
  ASSUME NEW in \in InputType, NEW q, NEW t
  PROVE  Searching(in, q, t, StartList(in.medoid), <<>>, in.medoid, {}, <<>>, {}, "merged")
<1>1. PICK m \in Vertices : m = in.medoid /\ m # NoVertex
  BY InputIs
<1>2. PICK e \in Entry(Vertices) : e = [id |-> m, visited |-> TRUE] /\ e.id = m /\ e.visited = TRUE
  <2>1. [id |-> m, visited |-> TRUE] \in Entry(Vertices)
    BY DEF Entry
  <2> QED BY <2>1
<1>3. PICK list \in Seq(Entry(Vertices)) : list = <<e>> /\ DOMAIN list = {1} /\ list[1] = e /\ Len(list) = 1
  <2>1. <<e>> \in Seq(Entry(Vertices)) /\ DOMAIN <<e>> = {1} /\ <<e>>[1] = e /\ Len(<<e>>) = 1
    OBVIOUS
  <2> QED BY <2>1
<1>4. list = StartList(in.medoid)
  BY <1>1, <1>2, <1>3 DEF StartList
<1>5. PICK nr \in Seq(Vertices) : nr = <<>> /\ DOMAIN nr = {} /\ Len(nr) = 0
  <2>1. <<>> \in Seq(Vertices) /\ DOMAIN <<>> = {} /\ Len(<<>>) = 0
    BY EmptySeq
  <2> QED BY <2>1
<1>6. BlockTyped(in, t, list, nr, m, {}, nr, {})
  <2>1. Ascending(t, list) /\ InOrder(t, nr)
    BY <1>3, <1>5 DEF Ascending, InOrder
  <2>2. Len(list) <= in.searchL /\ Len(nr) <= MaxParents
    BY <1>3, <1>5, InputIs, WalkAssumption DEF WalkAssumption
  <2> QED BY <1>1, <2>1, <2>2 DEF BlockTyped
<1>7. Met(in, q, list, m, {})
  BY <1>2, <1>3 DEF Met
<1>8. OwnList(m, list, {}, m, nr)
  <2>1. Later(nr) = {} /\ ExpandedOnce(nr)
    <3>1. 2 .. Len(nr) = {}
      BY <1>5
    <3> QED BY <3>1 DEF Later, ExpandedOnce
  <2>2. Names(list, {}, m)
    BY <1>2, <1>3 DEF Names
  <2>3. AllVisited(list, {})
    BY DEF AllVisited
  <2> QED BY <1>5, <2>1, <2>2, <2>3 DEF OwnList
<1>9. Kept(t, list, {}, in.searchL)
  BY DEF Kept
<1>10. Settled(t, m, in.searchL, list, nr, m, nr, {})
  BY <1>1, <1>8, <1>9 DEF Settled
<1> QED BY <1>1, <1>4, <1>5, <1>6, <1>7, <1>10 DEF Searching

LEMMA RecordedLater ==
  ASSUME NEW V, NEW vis \in Seq(V), NEW v \in V, ExpandedOnce(vis),
         Len(vis) # 0 => v \notin Later(vis)
  PROVE  /\ ExpandedOnce(Recorded(vis, v))
         /\ Len(vis) # 0 => Later(Recorded(vis, v)) \subseteq Later(vis) \cup {v}
         /\ Len(vis) = 0 => Later(Recorded(vis, v)) = {}
<1>1. PICK n \in Nat : n = Len(vis)
  BY LenProperties
<1>2. CASE ~(n < MaxParents)
  <2>1. Recorded(vis, v) = vis /\ n # 0
    BY <1>1, <1>2, WalkAssumption DEF Recorded, WalkAssumption
  <2> QED BY <1>1, <2>1
<1>3. CASE n < MaxParents
  <2>1. PICK w \in Seq(V) : w = Append(vis, v) /\ Len(w) = n + 1 /\ w[n + 1] = v
                            /\ \A i \in 1 .. n : w[i] = vis[i]
    <3>1. /\ Append(vis, v) \in Seq(V) /\ Len(Append(vis, v)) = n + 1
          /\ Append(vis, v)[n + 1] = v
          /\ \A i \in 1 .. n : Append(vis, v)[i] = vis[i]
      BY <1>1, AppendProperties
    <3> QED BY <3>1
  <2>2. Recorded(vis, v) = w
    BY <1>1, <1>3, <2>1 DEF Recorded
  <2>3. CASE n = 0
    <3>1. 2 .. Len(w) = {}
      BY <2>1, <2>3
    <3> QED BY <1>1, <2>2, <2>3, <3>1 DEF Later, ExpandedOnce
  <2>4. CASE n # 0
    <3>1. \A i \in 2 .. n + 1 : (i \in 2 .. n /\ w[i] = vis[i]) \/ (i = n + 1 /\ w[i] = v)
      BY <2>1, <2>4
    <3>2. \A i \in 2 .. n : vis[i] # v
      BY <1>1, <2>4 DEF Later
    <3>3. Later(w) \subseteq Later(vis) \cup {v}
      BY <1>1, <2>1, <3>1 DEF Later
    <3>4. \A i, j \in 2 .. n : vis[i] = vis[j] => i = j
      BY <1>1 DEF ExpandedOnce
    <3>5. ASSUME NEW i \in 2 .. n + 1, NEW j \in 2 .. n + 1, w[i] = w[j] PROVE i = j
      <4>1. CASE i \in 2 .. n
        BY <3>1, <3>2, <3>4, <3>5, <4>1
      <4>2. CASE i = n + 1
        BY <3>1, <3>2, <3>5, <4>2
      <4> QED BY <3>1, <4>1, <4>2
    <3> QED BY <1>1, <2>1, <2>2, <2>4, <3>3, <3>5 DEF ExpandedOnce
  <2> QED BY <2>3, <2>4
<1> QED BY <1>2, <1>3

(* A block that has nothing to expand leaves its neighbours as they are.   *)
LEMMA PassIs ==
  ASSUME NEW in, NEW q, NEW t, NEW list, NEW nr, NEW blm, NEW vis, NEW adm,
         Searching(in, q, t, list, nr, NoVertex, blm, vis, adm, "merged")
  PROVE  Searching(in, q, t, list, nr, NoVertex, blm, vis, adm, "filtered")
BY DEF Searching

LEMMA FilterIs ==
  ASSUME NEW in \in InputType, NEW q, NEW t, MeasuredFrom(t, Vertices),
         NEW list, NEW nr, NEW par, NEW blm, NEW vis, NEW adm, par # NoVertex,
         Searching(in, q, t, list, nr, par, blm, vis, adm, "merged"),
         NEW A \in Admissible(Eligible(in.adj[par], q, in.dead), in.bits, blm),
         NEW s \in Sorted(t, A)
  PROVE  Searching(in, q, t, list, s, NoVertex, BloomWith(A, in.bits, blm),
                   Recorded(vis, par), adm \cup A, "filtered")
<1>1. /\ BlockTyped(in, t, list, nr, par, blm, vis, adm)
      /\ Met(in, q, list, par, blm)
      /\ \A v \in adm : in.bits[v] \subseteq blm
      /\ OwnList(in.medoid, list, adm, par, vis) /\ Kept(t, list, adm, in.searchL)
  BY DEF Searching, Settled
<1>2. par \in Vertices
  BY <1>1 DEF BlockTyped
<1>3. PICK C : C = Eligible(in.adj[par], q, in.dead) /\ C \subseteq Vertices
  <2>1. \A i \in DOMAIN in.adj[par] : in.adj[par][i] \in Vertices
    BY <1>2, InputIs, EntriesOf
  <2> QED BY <2>1 DEF Eligible
<1>4. PICK full : full = BloomWith(A, in.bits, blm)
  OBVIOUS
<1>5. /\ A \subseteq C /\ A \subseteq Vertices
      /\ \A v \in A : ~(in.bits[v] \subseteq blm)
      /\ Unmet(C, in.bits, full) = {}
  BY <1>3, <1>4 DEF Admissible, Unmet
<1>6. /\ blm \subseteq full /\ full \subseteq Nat
      /\ \A v \in A : in.bits[v] \subseteq full
  <2>1. \A v \in A : in.bits[v] \subseteq Nat
    BY <1>5, InputIs
  <2>2. blm \subseteq Nat
    BY <1>1 DEF BlockTyped
  <2> QED BY <1>4, <2>1, <2>2 DEF BloomWith
<1>7. IsFiniteSet(A)
  BY <1>5, InputIs, FS_Subset
<1>8. s \in Seq(A) /\ InOrder(t, s) /\ IsInjective(s) /\ ToSet(s) = A
  BY <1>7, SortedIs
<1>9. PICK vis2 : vis2 = Recorded(vis, par)
  OBVIOUS
<1>10. BlockTyped(in, t, list, s, NoVertex, full, vis2, adm \cup A)
  <2>1. s \in Seq(Vertices)
    BY <1>5, <1>8, SeqMonotonic
  <2>2. vis2 \in Seq(Vertices) /\ Len(vis2) <= MaxParents
    BY <1>1, <1>2, <1>9, RecordedIs DEF BlockTyped
  <2> QED BY <1>1, <1>5, <1>6, <1>8, <2>1, <2>2 DEF BlockTyped
<1>11. Met(in, q, list, NoVertex, full)
  <2> SUFFICES ASSUME NEW i \in DOMAIN list, list[i].visited
               PROVE  Unmet(Eligible(in.adj[list[i].id], q, in.dead), in.bits, full) = {}
    BY DEF Met
  <2>1. CASE list[i].id = par
    BY <1>3, <1>5, <2>1
  <2>2. CASE list[i].id # par
    <3>1. Unmet(Eligible(in.adj[list[i].id], q, in.dead), in.bits, blm) = {}
      BY <1>1, <2>2 DEF Met
    <3> QED BY <1>6, <3>1 DEF Unmet
  <2> QED BY <2>1, <2>2
<1>12. \A v \in adm \cup A : in.bits[v] \subseteq full
  BY <1>1, <1>6
<1>13. OwnList(in.medoid, list, adm, NoVertex, vis2)
  <2>1. vis \in Seq(Vertices)
    BY <1>1 DEF BlockTyped
  <2>2. /\ Names(list, adm, in.medoid)
        /\ Later(vis) \subseteq adm /\ AllVisited(list, Later(vis)) /\ ExpandedOnce(vis)
        /\ Len(vis) # 0 => par \in adm \ Later(vis) /\ AllVisited(list, {par})
    BY <1>1 DEF OwnList
  <2>3. /\ ExpandedOnce(vis2)
        /\ Len(vis) # 0 => Later(vis2) \subseteq Later(vis) \cup {par}
        /\ Len(vis) = 0 => Later(vis2) = {}
    <3>1. Len(vis) # 0 => par \notin Later(vis)
      BY <2>2
    <3> QED BY <1>2, <1>9, <2>1, <2>2, <3>1, RecordedLater
  <2>4. Later(vis2) \subseteq adm /\ AllVisited(list, Later(vis2))
    BY <2>2, <2>3 DEF AllVisited
  <2> QED BY <2>2, <2>3, <2>4 DEF OwnList
<1>14. PendingFor(adm, t, in.medoid, in.searchL, list, s, vis2, adm \cup A)
  <2>1. A = (adm \cup A) \ adm
    BY <1>1, <1>5
  <2> QED BY <1>1, <1>8, <1>13, <2>1 DEF PendingFor
<1>15. Pending(t, in.medoid, in.searchL, list, s, vis2, adm \cup A)
  BY <1>14 DEF Pending
<1> QED BY <1>4, <1>9, <1>10, <1>11, <1>12, <1>15 DEF Searching

(* A list with nothing left to visit stays as it is.                       *)
LEMMA ThroughIs ==
  ASSUME NEW list, Unvisited(list) = {}
  PROVE  MarkNext(list) = list /\ NextParent(list) = NoVertex
BY DEF MarkNext, NextParent

LEMMA MergeIs ==
  ASSUME NEW in \in InputType, NEW q, NEW t, MeasuredFrom(t, Vertices),
         NEW list, NEW nr, NEW par, NEW blm, NEW vis, NEW adm,
         Searching(in, q, t, list, nr, par, blm, vis, adm, "filtered"),
         NEW merged, merged = Merged(t, list, nr, in.searchL)
  PROVE  /\ Searching(in, q, t, MarkNext(merged), nr, NextParent(merged), blm, vis, adm, "merged")
         /\ Unvisited(merged) = {} => /\ NextParent(merged) = NoVertex
                                      /\ Unvisited(MarkNext(merged)) = {}
<1>1. /\ BlockTyped(in, t, list, nr, NoVertex, blm, vis, adm)
      /\ Met(in, q, list, NoVertex, blm)
      /\ \A v \in adm : in.bits[v] \subseteq blm
      /\ \/ Settled(t, in.medoid, in.searchL, list, nr, NoVertex, vis, adm)
         \/ Pending(t, in.medoid, in.searchL, list, nr, vis, adm)
      /\ par = NoVertex
  BY DEF Searching
<1>2. Unvisited(merged) = {} => /\ NextParent(merged) = NoVertex
                                /\ Unvisited(MarkNext(merged)) = {}
  BY ThroughIs
<1>3. CASE Settled(t, in.medoid, in.searchL, list, nr, NoVertex, vis, adm)
  <2>1. Unvisited(list) = {} /\ merged = list
    BY <1>3 DEF Settled, Idle
  <2>2. MarkNext(merged) = list /\ NextParent(merged) = NoVertex
    BY <2>1, ThroughIs
  <2> QED BY <1>1, <1>2, <1>3, <2>2 DEF Searching
<1>4. CASE Pending(t, in.medoid, in.searchL, list, nr, vis, adm)
  <2>1. PICK S : PendingFor(S, t, in.medoid, in.searchL, list, nr, vis, adm)
    BY <1>4 DEF Pending
  <2>2. /\ list \in Seq(Entry(Vertices)) /\ Ascending(t, list) /\ Len(list) <= in.searchL
        /\ nr \in Seq(Vertices) /\ InOrder(t, nr) /\ adm \subseteq Vertices
    BY <1>1 DEF BlockTyped
  <2>3. in.searchL \in Nat
    BY InputIs
  <2>4. PICK at : Interleaved(t, list, nr, in.searchL, at, merged)
    BY <2>2, <2>3, MergedIs
  <2>5. /\ merged \in Seq(Entry(Vertices)) /\ Ascending(t, merged)
        /\ Len(merged) <= in.searchL
    <3>1. merged \in Seq(Entry(Vertices)) /\ Ascending(t, merged)
          /\ Len(merged) = MergedLength(list, nr, in.searchL)
      BY <2>2, <2>3, <2>4, MergedEntries
    <3> QED BY <2>2, <2>3, <3>1, LengthIs
  <2>6. PICK marked : marked = MarkNext(merged)
    OBVIOUS
  <2>7. PICK m : m = in.medoid
    OBVIOUS
  <2>8. PICK next \in Vertices \cup {NoVertex} : next = NextParent(merged)
    BY <2>5, MarkedIs
  <2>9. /\ S \subseteq adm /\ ToSet(nr) = adm \ S /\ IsInjective(nr)
        /\ S \cup ToSet(nr) = adm /\ ToSet(nr) \cap S = {}
        /\ OwnList(m, list, S, NoVertex, vis) /\ Kept(t, list, S, in.searchL)
    BY <2>1, <2>7 DEF PendingFor
  <2>10. /\ Names(list, S, m) /\ Later(vis) \subseteq S
         /\ AllVisited(list, Later(vis)) /\ ExpandedOnce(vis)
    BY <2>9 DEF OwnList
  <2>11. Names(merged, adm, m)
    BY <2>2, <2>3, <2>4, <2>9, <2>10, MergedNames
  <2>12. FromBoth(list, nr, merged)
    BY <2>2, <2>3, <2>4, MergedVisited
  <2>13. AllVisited(merged, Later(vis))
    BY <2>9, <2>10, <2>12 DEF AllVisited, FromBoth
  <2>14. Kept(t, merged, adm, in.searchL)
    <3>1. S \subseteq Vertices
      BY <2>2, <2>9
    <3> QED BY <2>2, <2>3, <2>4, <2>9, <3>1, MergedKeeps
  <2>15. /\ marked \in Seq(Entry(Vertices)) /\ Len(marked) = Len(merged)
         /\ DOMAIN marked = DOMAIN merged
         /\ \A i \in DOMAIN merged : marked[i].id = merged[i].id
         /\ \A i \in DOMAIN merged :
              marked[i].visited => merged[i].visited \/ marked[i].id = next
    BY <2>5, <2>6, <2>8, MarkedIs
  <2>16. /\ Names(marked, adm, m) /\ AllVisited(marked, Later(vis))
         /\ Unvisited(merged) # {} => next \in adm \ Later(vis) /\ AllVisited(marked, {next})
    BY <2>5, <2>6, <2>8, <2>11, <2>13, MarkedNames
  <2>17. next = NoVertex => Unvisited(merged) = {}
    BY <2>2, <2>16, InputIs
  <2>18. OwnList(m, marked, adm, next, vis)
    BY <2>9, <2>10, <2>16, <2>17, ThroughIs, <2>8 DEF OwnList
  <2>19. Kept(t, marked, adm, in.searchL)
    BY <2>14, <2>15 DEF Kept, Ids
  <2>20. next = NoVertex => Idle(t, marked, nr, in.searchL)
    <3> SUFFICES ASSUME next = NoVertex PROVE Idle(t, marked, nr, in.searchL)
      OBVIOUS
    <3>1. Unvisited(merged) = {} /\ marked = merged
      BY <2>6, <2>17, ThroughIs
    <3>2. merged = list
      BY <2>2, <2>3, <3>1, NothingNewMerged
    <3> QED BY <3>1, <3>2 DEF Idle
  <2>21. BlockTyped(in, t, marked, nr, next, blm, vis, adm)
    <3>1. Ascending(t, marked)
      BY <2>5, <2>15 DEF Ascending
    <3>2. Len(marked) <= in.searchL
      BY <2>5, <2>15
    <3> QED BY <1>1, <2>8, <2>15, <3>1, <3>2 DEF BlockTyped
  <2>22. Met(in, q, marked, next, blm)
    <3> SUFFICES ASSUME NEW i \in DOMAIN marked, marked[i].visited, marked[i].id # next
                 PROVE  Unmet(Eligible(in.adj[marked[i].id], q, in.dead), in.bits, blm) = {}
      BY DEF Met
    <3>1. merged[i].visited /\ marked[i].id = merged[i].id /\ i \in DOMAIN merged
      BY <2>15
    <3>2. PICK j \in DOMAIN list : merged[i] = list[j]
      BY <2>12, <3>1 DEF FromBoth
    <3>3. list[j].id # NoVertex
      <4>1. list[j] \in Entry(Vertices)
        BY <2>2, EntriesOf
      <4> QED BY <4>1, InputIs DEF Entry
    <3> QED BY <1>1, <3>1, <3>2, <3>3 DEF Met
  <2>23. Settled(t, m, in.searchL, marked, nr, next, vis, adm)
    BY <2>18, <2>19, <2>20 DEF Settled
  <2> QED BY <1>1, <1>2, <2>6, <2>7, <2>8, <2>21, <2>22, <2>23 DEF Searching
<1> QED BY <1>1, <1>3, <1>4

-----------------------------------------------------------------------------
(* The batch.                                                              *)

(* Between its filter and its merge, a block has neighbours to merge.      *)
Phase(q) ==
  IF (launch = "filter" /\ q \in ran) \/ (launch = "merge" /\ q \notin ran)
  THEN "filtered" ELSE "merged"

BlockInv(q) ==
  Searching(input, q, target(q), worklist[q], near[q], parent[q], bloom[q], visitedSet[q],
            admitted[q], Phase(q))

HostTyped ==
  /\ input \in Inputs
  /\ launch \in {"host", "filter", "merge", "done"}
  /\ ran \subseteq Blocks
  /\ iter \in 0 .. 2 * SearchL /\ inner \in 0 .. CheckInterval
  /\ nextIter \in BOOLEAN

BlocksTyped ==
  /\ worklist \in [Blocks -> Seq(Entry(Vertices))]
  /\ near \in [Blocks -> Seq(Vertices)]
  /\ parent \in [Blocks -> Vertices \cup {NoVertex}]
  /\ bloom \in [Blocks -> SUBSET Nat]
  /\ visitedSet \in [Blocks -> Seq(Vertices)]
  /\ admitted \in [Blocks -> SUBSET Vertices]

(* Without the flag, the blocks merged so far have nothing to expand.      *)
Calm(q) == parent[q] = NoVertex /\ Unvisited(worklist[q]) = {}
FlagInv ==
  /\ launch = "merge" /\ ~nextIter => \A q \in ran : Calm(q)
  /\ launch \in {"host", "done"} /\ ~nextIter => \A q \in Blocks : Calm(q)
  /\ launch = "done" => iter >= Iterations(SearchL) \/ ~nextIter

SearchInv == HostTyped /\ BlocksTyped /\ (\A q \in Blocks : BlockInv(q)) /\ FlagInv

LEMMA TargetIs ==
  ASSUME input \in Inputs
  PROVE  /\ input \in InputType
         /\ \A q \in Blocks : target(q) \in Targets /\ MeasuredFrom(target(q), Vertices)
<1>1. input \in InputType
  BY SearchAssumption DEF SearchAssumption
<1>2. input.target \in Seq(Targets)
  BY <1>1 DEF InputType
<1>3. ASSUME NEW q \in Blocks PROVE target(q) \in Targets
  <2>1. PICK n \in Nat : n = Len(input.target)
    BY <1>2, LenProperties
  <2>2. q + 1 \in 1 .. Len(input.target)
    BY <2>1 DEF Blocks
  <2> QED BY <1>2, <2>2, ElementOfSeq DEF target
<1> QED BY <1>1, <1>3, InputIs

LEMMA SearchStarts == Init => SearchInv
<1> SUFFICES ASSUME Init PROVE SearchInv
  OBVIOUS
<1>1. input \in Inputs /\ input \in InputType
  BY TargetIs DEF Init
<1>2. SearchL \in Nat \ {0} /\ CheckInterval \in Nat \ {0}
  BY <1>1, InputIs, SearchAssumption DEF SearchL, SearchAssumption
<1>3. HostTyped
  BY <1>1, <1>2 DEF Init, HostTyped
<1>4. ASSUME NEW q \in Blocks
      PROVE  /\ worklist[q] = StartList(input.medoid) /\ near[q] = <<>>
             /\ parent[q] = input.medoid /\ bloom[q] = {} /\ visitedSet[q] = <<>>
             /\ admitted[q] = {} /\ Phase(q) = "merged"
  BY DEF Init, Phase
<1>5. ASSUME NEW q \in Blocks PROVE BlockInv(q)
  BY <1>1, <1>4, StartIs DEF BlockInv
<1>6. BlocksTyped
  <2>1. StartList(input.medoid) \in Seq(Entry(Vertices))
    BY <1>1, StartIs DEF Searching, BlockTyped
  <2>2. <<>> \in Seq(Vertices)
    BY EmptySeq
  <2>3. input.medoid \in Vertices
    BY <1>1, InputIs
  <2> QED BY <2>1, <2>2, <2>3 DEF Init, BlocksTyped
<1>7. FlagInv
  BY DEF Init, FlagInv
<1> QED BY <1>3, <1>5, <1>6, <1>7 DEF SearchInv

(* The host's steps leave the blocks as they are.                          *)
LEMMA HostKeepsBlocks ==
  ASSUME SearchInv, launch = "host", launch' \in {"filter", "done"}, launch' = "filter" => ran' = {},
         UNCHANGED <<frozen, worklist, near, parent, bloom, visitedSet, admitted>>
  PROVE  BlocksTyped' /\ \A q \in Blocks' : BlockInv(q)'
<1>1. UNCHANGED <<input, worklist, near, parent, bloom, visitedSet, admitted>>
  BY DEF frozen
<1>2. Blocks' = Blocks /\ \A q \in Blocks : target(q)' = target(q)
  BY <1>1 DEF Blocks, target
<1>3. BlocksTyped'
  BY <1>1, <1>2 DEF SearchInv, BlocksTyped
<1>4. ASSUME NEW q \in Blocks PROVE BlockInv(q)'
  <2>1. Phase(q) = "merged" /\ Phase(q)' = "merged"
    BY DEF Phase
  <2>2. BlockInv(q)
    BY DEF SearchInv
  <2> QED BY <1>1, <1>2, <2>1, <2>2 DEF BlockInv
<1> QED BY <1>2, <1>3, <1>4

LEMMA IterateKeeps == SearchInv /\ Iterate => SearchInv'
<1> SUFFICES ASSUME SearchInv, Iterate PROVE SearchInv'
  OBVIOUS
<1>1. BlocksTyped' /\ \A q \in Blocks' : BlockInv(q)'
  BY HostKeepsBlocks DEF Iterate
<1>2. input' = input /\ SearchL' = SearchL /\ Blocks' = Blocks
  BY DEF Iterate, frozen, SearchL, Blocks
<1>3. PICK w \in Nat, c \in Nat \ {0}, i \in Nat, j \in Nat :
        w = SearchL /\ c = CheckInterval /\ i = iter /\ j = inner
  BY TargetIs, InputIs, SearchAssumption DEF SearchInv, HostTyped, SearchL, SearchAssumption
<1>4. iter' = i + 1 /\ i < 2 * w /\ inner' = IF j < c THEN j + 1 ELSE 1
  BY <1>3 DEF Iterate, Iterations
<1>5. iter' \in 0 .. 2 * w /\ inner' \in 0 .. c
  BY <1>4
<1>6. HostTyped'
  BY <1>2, <1>3, <1>5 DEF SearchInv, HostTyped, Iterate
<1>7. FlagInv'
  BY DEF Iterate, FlagInv
<1> QED BY <1>1, <1>6, <1>7 DEF SearchInv

LEMMA HostDoneKeeps == SearchInv /\ HostDone => SearchInv'
<1> SUFFICES ASSUME SearchInv, HostDone PROVE SearchInv'
  OBVIOUS
<1>1. BlocksTyped' /\ \A q \in Blocks' : BlockInv(q)'
  BY HostKeepsBlocks DEF HostDone
<1>2. UNCHANGED <<input, ran, iter, inner, nextIter, worklist, parent>> /\ launch' = "done"
  BY DEF HostDone, frozen
<1>3. SearchL' = SearchL /\ Blocks' = Blocks
  BY <1>2 DEF SearchL, Blocks
<1>4. HostTyped'
  BY <1>2, <1>3 DEF SearchInv, HostTyped
<1>5. FlagInv'
  <2>1. iter >= Iterations(SearchL) \/ ~nextIter
    BY DEF HostDone
  <2>2. ~nextIter => \A q \in Blocks : Calm(q)
    BY DEF SearchInv, FlagInv, HostDone
  <2>3. \A q : Calm(q)' <=> Calm(q)
    BY <1>2 DEF Calm
  <2>4. Iterations(SearchL)' = Iterations(SearchL)
    BY <1>3 DEF Iterations
  <2> QED BY <1>2, <1>3, <2>1, <2>2, <2>3, <2>4 DEF FlagInv
<1> QED BY <1>1, <1>4, <1>5 DEF SearchInv

(* A block that returns changes its own phase only.                        *)
LEMMA ReturnIs ==
  ASSUME NEW q \in Blocks, ran \subseteq Blocks, q \notin ran, Blocks' = Blocks,
         \/ launch = "filter" /\ Return(q, "merge")
         \/ launch = "merge" /\ Return(q, "host")
  PROVE  /\ ran' \subseteq Blocks
         /\ Phase(q) = IF launch = "filter" THEN "merged" ELSE "filtered"
         /\ Phase(q)' = IF launch = "filter" THEN "filtered" ELSE "merged"
         /\ \A o \in Blocks : o # q => Phase(o)' = Phase(o)
         /\ launch' \in {"host", "filter", "merge"}
         /\ launch' = "merge" => (launch = "filter" /\ ran' = {}) \/ (launch = "merge" /\ ran' = ran \cup {q})
         /\ launch' = "host" => launch = "merge" /\ ran \cup {q} = Blocks
<1>1. CASE launch = "filter" /\ Return(q, "merge")
  <2>1. CASE ran \cup {q} = Blocks
    <3>1. launch' = "merge" /\ ran' = {} /\ launch = "filter"
      BY <1>1, <2>1 DEF Return
    <3>2. \A o \in Blocks : o # q => o \in ran
      BY <2>1
    <3>3. Phase(q) = "merged" /\ \A o : Phase(o)' = "filtered"
      BY <3>1 DEF Phase
    <3>4. \A o \in Blocks : o # q => Phase(o) = "filtered"
      BY <3>1, <3>2 DEF Phase
    <3>5. \A o \in Blocks : o # q => Phase(o)' = Phase(o)
      BY <3>3, <3>4
    <3>6. Phase(q)' = "filtered" /\ ran' \subseteq Blocks
      BY <3>1, <3>3
    <3> QED BY <3>1, <3>3, <3>5, <3>6
  <2>2. CASE ran \cup {q} # Blocks
    BY <1>1, <2>2 DEF Return, Phase
  <2> QED BY <2>1, <2>2
<1>2. CASE launch = "merge" /\ Return(q, "host")
  <2>1. CASE ran \cup {q} = Blocks
    <3>1. launch' = "host" /\ ran' = {} /\ launch = "merge"
      BY <1>2, <2>1 DEF Return
    <3>2. \A o \in Blocks : o # q => o \in ran
      BY <2>1
    <3> QED BY <2>1, <3>1, <3>2 DEF Phase
  <2>2. CASE ran \cup {q} # Blocks
    BY <1>2, <2>2 DEF Return, Phase
  <2> QED BY <2>1, <2>2
<1> QED BY <1>1, <1>2

LEMMA FilterKeeps ==
  ASSUME SearchInv, NEW q \in Blocks, FilterNeighbors(q)
  PROVE  SearchInv'
<1>1. /\ UNCHANGED <<input, iter, inner, nextIter, worklist>>
      /\ launch = "filter" /\ q \notin ran /\ Return(q, "merge")
  BY DEF FilterNeighbors, frozen
<1>2. Blocks' = Blocks /\ SearchL' = SearchL /\ \A o \in Blocks : target(o)' = target(o)
  BY <1>1 DEF Blocks, SearchL, target
<1>3. HostTyped /\ BlocksTyped /\ input \in InputType /\ \A o \in Blocks : BlockInv(o)
  BY TargetIs DEF SearchInv, HostTyped
<1>4. /\ ran' \subseteq Blocks
      /\ Phase(q) = "merged" /\ Phase(q)' = "filtered"
      /\ \A o \in Blocks : o # q => Phase(o)' = Phase(o)
      /\ launch' \in {"host", "filter", "merge"}
      /\ launch' = "merge" => ran' = {}
      /\ launch' # "host"
  BY <1>1, <1>2, <1>3, ReturnIs DEF HostTyped
<1>5. HostTyped'
  BY <1>1, <1>2, <1>3, <1>4 DEF HostTyped
<1>6. FlagInv'
  BY <1>4 DEF FlagInv
<1>7. CASE parent[q] = NoVertex
  <2>1. UNCHANGED <<near, parent, bloom, visitedSet, admitted>>
    BY <1>7 DEF FilterNeighbors
  <2>2. BlocksTyped'
    BY <1>1, <1>2, <1>3, <2>1 DEF BlocksTyped
  <2>3. ASSUME NEW o \in Blocks PROVE BlockInv(o)'
    <3>1. CASE o = q
      <4>1. Searching(input, q, target(q), worklist[q], near[q], NoVertex, bloom[q],
                      visitedSet[q], admitted[q], "merged")
        BY <1>3, <1>4, <1>7 DEF BlockInv
      <4>2. Searching(input, q, target(q), worklist[q], near[q], NoVertex, bloom[q],
                      visitedSet[q], admitted[q], "filtered")
        BY <4>1, PassIs
      <4> QED BY <1>1, <1>2, <1>4, <1>7, <2>1, <3>1, <4>2 DEF BlockInv
    <3>2. CASE o # q
      BY <1>1, <1>2, <1>3, <1>4, <2>1, <3>2 DEF BlockInv
    <3> QED BY <3>1, <3>2
  <2> QED BY <1>2, <1>5, <1>6, <2>2, <2>3 DEF SearchInv
<1>8. CASE parent[q] # NoVertex
  <2>0. PICK A \in Admissible(CandidatesOf(q), input.bits, bloom[q]) :
          /\ \E s \in Sorted(target(q), A) : near' = [near EXCEPT ![q] = s]
          /\ bloom' = [bloom EXCEPT ![q] = BloomWith(A, input.bits, bloom[q])]
          /\ admitted' = [admitted EXCEPT ![q] = admitted[q] \cup A]
    BY <1>8 DEF FilterNeighbors
  <2>1. PICK s \in Sorted(target(q), A) :
          /\ near' = [near EXCEPT ![q] = s]
          /\ bloom' = [bloom EXCEPT ![q] = BloomWith(A, input.bits, bloom[q])]
          /\ admitted' = [admitted EXCEPT ![q] = admitted[q] \cup A]
    BY <2>0
  <2>2. /\ visitedSet' = [visitedSet EXCEPT ![q] = Recorded(visitedSet[q], parent[q])]
        /\ parent' = [parent EXCEPT ![q] = NoVertex]
    BY <1>8 DEF FilterNeighbors
  <2>3. Searching(input, q, target(q), worklist[q], s, NoVertex,
                  BloomWith(A, input.bits, bloom[q]), Recorded(visitedSet[q], parent[q]),
                  admitted[q] \cup A, "filtered")
    <3>1. Searching(input, q, target(q), worklist[q], near[q], parent[q], bloom[q],
                    visitedSet[q], admitted[q], "merged")
      BY <1>3, <1>4 DEF BlockInv
    <3>2. MeasuredFrom(target(q), Vertices)
      BY <1>3, TargetIs DEF HostTyped
    <3>3. A \in Admissible(Eligible(input.adj[parent[q]], q, input.dead), input.bits, bloom[q])
      BY <2>0 DEF CandidatesOf
    <3> QED BY <1>3, <1>8, <2>1, <3>1, <3>2, <3>3, FilterIs
  <2>4. BlocksTyped'
    <3>1. /\ s \in Seq(Vertices) /\ BloomWith(A, input.bits, bloom[q]) \subseteq Nat
          /\ Recorded(visitedSet[q], parent[q]) \in Seq(Vertices)
          /\ admitted[q] \cup A \subseteq Vertices
      BY <2>3 DEF Searching, BlockTyped
    <3> QED BY <1>1, <1>2, <1>3, <2>1, <2>2, <3>1 DEF BlocksTyped
  <2>5. ASSUME NEW o \in Blocks PROVE BlockInv(o)'
    <3>1. CASE o = q
      <4>1. /\ near'[q] = s /\ bloom'[q] = BloomWith(A, input.bits, bloom[q])
            /\ admitted'[q] = admitted[q] \cup A /\ parent'[q] = NoVertex
            /\ visitedSet'[q] = Recorded(visitedSet[q], parent[q])
        BY <1>3, <2>1, <2>2 DEF BlocksTyped
      <4> QED BY <1>1, <1>2, <1>4, <2>3, <3>1, <4>1 DEF BlockInv
    <3>2. CASE o # q
      <4>1. /\ near'[o] = near[o] /\ bloom'[o] = bloom[o] /\ admitted'[o] = admitted[o]
            /\ parent'[o] = parent[o] /\ visitedSet'[o] = visitedSet[o]
        BY <1>3, <2>1, <2>2, <3>2 DEF BlocksTyped
      <4> QED BY <1>1, <1>2, <1>3, <1>4, <3>2, <4>1 DEF BlockInv
    <3> QED BY <3>1, <3>2
  <2> QED BY <1>2, <1>5, <1>6, <2>4, <2>5 DEF SearchInv
<1> QED BY <1>7, <1>8

LEMMA MergeKeeps ==
  ASSUME SearchInv, NEW q \in Blocks, MergeIntoWorklist(q)
  PROVE  SearchInv'
<1>1. /\ UNCHANGED <<input, iter, inner, near, bloom, visitedSet, admitted>>
      /\ launch = "merge" /\ q \notin ran /\ Return(q, "host")
  BY DEF MergeIntoWorklist, frozen
<1>2. Blocks' = Blocks /\ SearchL' = SearchL /\ \A o \in Blocks : target(o)' = target(o)
  BY <1>1 DEF Blocks, SearchL, target
<1>3. HostTyped /\ BlocksTyped /\ input \in InputType /\ (\A o \in Blocks : BlockInv(o)) /\ FlagInv
  BY TargetIs DEF SearchInv, HostTyped
<1>4. /\ ran' \subseteq Blocks
      /\ Phase(q) = "filtered" /\ Phase(q)' = "merged"
      /\ \A o \in Blocks : o # q => Phase(o)' = Phase(o)
      /\ launch' \in {"host", "filter", "merge"}
      /\ launch' = "merge" => ran' = ran \cup {q}
      /\ launch' = "host" => ran \cup {q} = Blocks
  BY <1>1, <1>2, <1>3, ReturnIs DEF HostTyped
<1>5. PICK merged : merged = Merged(target(q), worklist[q], near[q], SearchL)
  OBVIOUS
<1>6. /\ worklist' = [worklist EXCEPT ![q] = MarkNext(merged)]
      /\ parent' = [parent EXCEPT ![q] = NextParent(merged)]
      /\ nextIter' = (nextIter \/ Unvisited(merged) # {})
  BY <1>5 DEF MergeIntoWorklist, NextIterAfter
<1>7. /\ Searching(input, q, target(q), MarkNext(merged), near[q], NextParent(merged), bloom[q],
                   visitedSet[q], admitted[q], "merged")
      /\ Unvisited(merged) = {} => /\ NextParent(merged) = NoVertex
                                   /\ Unvisited(MarkNext(merged)) = {}
  <2>1. Searching(input, q, target(q), worklist[q], near[q], parent[q], bloom[q],
                  visitedSet[q], admitted[q], "filtered")
    BY <1>3, <1>4 DEF BlockInv
  <2>2. MeasuredFrom(target(q), Vertices)
    BY <1>3, TargetIs DEF HostTyped
  <2>3. merged = Merged(target(q), worklist[q], near[q], input.searchL)
    BY <1>5 DEF SearchL
  <2> QED BY <1>3, <2>1, <2>2, <2>3, MergeIs
<1>8. /\ worklist'[q] = MarkNext(merged) /\ parent'[q] = NextParent(merged)
      /\ \A o \in Blocks : o # q => worklist'[o] = worklist[o] /\ parent'[o] = parent[o]
  BY <1>3, <1>6 DEF BlocksTyped
<1>9. HostTyped'
  BY <1>1, <1>2, <1>3, <1>4, <1>6 DEF HostTyped
<1>10. BlocksTyped'
  <2>1. MarkNext(merged) \in Seq(Entry(Vertices)) /\ NextParent(merged) \in Vertices \cup {NoVertex}
    BY <1>7 DEF Searching, BlockTyped
  <2> QED BY <1>1, <1>2, <1>3, <1>6, <2>1 DEF BlocksTyped
<1>11. ASSUME NEW o \in Blocks PROVE BlockInv(o)'
  <2>1. CASE o = q
    BY <1>1, <1>2, <1>4, <1>7, <1>8, <2>1 DEF BlockInv
  <2>2. CASE o # q
    BY <1>1, <1>2, <1>3, <1>4, <1>8, <2>2 DEF BlockInv
  <2> QED BY <2>1, <2>2
<1>12. FlagInv'
  <2>1. ASSUME ~nextIter', NEW o \in ran \cup {q} PROVE Calm(o)'
    <3>1. ~nextIter /\ Unvisited(merged) = {}
      BY <1>6, <2>1
    <3>2. CASE o = q
      <4>1. parent'[q] = NoVertex /\ Unvisited(worklist'[q]) = {}
        BY <1>7, <1>8, <3>1
      <4> QED BY <3>2, <4>1 DEF Calm, Unvisited
    <3>3. CASE o # q
      <4>1. o \in Blocks /\ Calm(o)
        BY <1>1, <1>3, <2>1, <3>1, <3>3 DEF FlagInv, HostTyped
      <4> QED BY <1>8, <3>3, <4>1 DEF Calm, Unvisited
    <3> QED BY <3>2, <3>3
  <2> QED BY <1>2, <1>4, <2>1 DEF FlagInv
<1> QED BY <1>2, <1>9, <1>10, <1>11, <1>12 DEF SearchInv

LEMMA SearchStep == SearchInv /\ [Next]_vars => SearchInv'
<1> SUFFICES ASSUME SearchInv, [Next]_vars PROVE SearchInv'
  OBVIOUS
<1>1. CASE Iterate
  BY <1>1, IterateKeeps
<1>2. CASE HostDone
  BY <1>2, HostDoneKeeps
<1>3. ASSUME NEW q \in Blocks, FilterNeighbors(q) PROVE SearchInv'
  BY <1>3, FilterKeeps
<1>4. ASSUME NEW q \in Blocks, MergeIntoWorklist(q) PROVE SearchInv'
  BY <1>4, MergeKeeps
<1>5. CASE UNCHANGED vars
  <2>1. UNCHANGED <<input, launch, ran, iter, inner, nextIter, worklist, near, parent, bloom,
                    visitedSet, admitted>>
    BY <1>5 DEF vars, frozen, hostVars
  <2> USE <2>1
  <2>2. Blocks' = Blocks /\ SearchL' = SearchL /\ (\A q : target(q)' = target(q))
        /\ (\A q : Phase(q)' = Phase(q)) /\ (\A q : Calm(q)' <=> Calm(q))
    BY DEF Blocks, SearchL, target, Phase, Calm
  <2>3. \A q : BlockInv(q)' <=> BlockInv(q)
    BY <2>2 DEF BlockInv
  <2>4. HostTyped' /\ BlocksTyped'
    BY <2>2 DEF SearchInv, HostTyped, BlocksTyped
  <2>5. FlagInv'
    BY <2>2 DEF SearchInv, FlagInv
  <2> QED BY <2>2, <2>3, <2>4, <2>5 DEF SearchInv
<1> QED BY <1>1, <1>2, <1>3, <1>4, <1>5 DEF Next, Work, Searched

LEMMA SearchInvariant == Spec => []SearchInv
<1> QED BY SearchStarts, SearchStep, PTL DEF Spec

-----------------------------------------------------------------------------
(* The properties.                                                         *)

(* greedySearchNoSyncPrealloc: the lists, the filter and the host's        *)
(* counters keep to their types and bounds: no work list outgrows SearchL, *)
(* no visited set MaxParents, and the host stops in time.                  *)
THEOREM SearchTyped == Spec => []TypeOK
<1>1. ASSUME SearchInv PROVE TypeOK
  <2>1. ASSUME NEW q \in Blocks
        PROVE  /\ worklist[q] \in Seq([id : Vertices, visited : BOOLEAN])
               /\ Len(worklist[q]) <= SearchL
               /\ near[q] \in Seq(Vertices)
               /\ parent[q] \in Vertices \cup {NoVertex}
               /\ bloom[q] \subseteq Nat
               /\ visitedSet[q] \in Seq(Vertices) /\ Len(visitedSet[q]) <= MaxParents
               /\ admitted[q] \subseteq Vertices
    <3>1. BlockInv(q)
      BY <1>1 DEF SearchInv
    <3> QED BY <3>1 DEF BlockInv, Searching, BlockTyped, Entry, SearchL
  <2> QED BY <1>1, <2>1 DEF SearchInv, HostTyped, TypeOK
<1> QED BY <1>1, SearchInvariant, PTL

(* filterNeighborsNoSync and mergeIntoWorklistNoSync: in whatever order    *)
(* blocks return and threads race for the filter, a work list is in order, *)
(* names no vertex twice but the start, and expands none twice but the     *)
(* start.                                                                  *)
THEOREM ListsInOrder == Spec => []ListInOrder
<1>1. ASSUME SearchInv, NEW q \in Blocks
      PROVE  /\ \A i, j \in DOMAIN worklist[q] : i < j =>
                  LET a == worklist[q][i].id
                      b == worklist[q][j].id
                  IN  /\ Dist(target(q), a) <= Dist(target(q), b)
                      /\ a = b => /\ a = input.medoid
                                  /\ \A h \in DOMAIN worklist[q] : worklist[q][h].id = a => h \in {i, j}
             /\ \A i, j \in DOMAIN visitedSet[q] :
                  i < j /\ visitedSet[q][i] = visitedSet[q][j] => i = 1
  <2>1. PICK list, vis, t, m : list = worklist[q] /\ vis = visitedSet[q] /\ t = target(q)
                               /\ m = input.medoid
    OBVIOUS
  <2>2. BlockInv(q) /\ Phase(q) \in {"merged", "filtered"}
    BY <1>1 DEF SearchInv, Phase
  <2>3. /\ list \in Seq(Entry(Vertices)) /\ Ascending(t, list) /\ vis \in Seq(Vertices)
        /\ \E S, par : OwnList(m, list, S, par, vis)
    BY <2>1, <2>2 DEF BlockInv, Searching, BlockTyped, Settled, Pending, PendingFor
  <2>4. PICK S : Names(list, S, m) /\ ExpandedOnce(vis)
    BY <2>3 DEF OwnList
  <2>5. DOMAIN list = 1 .. Len(list) /\ Len(list) \in Nat /\ DOMAIN vis = 1 .. Len(vis) /\ Len(vis) \in Nat
    BY <2>3, LenProperties
  <2>6. ASSUME NEW i \in DOMAIN list, NEW j \in DOMAIN list, i < j
        PROVE  /\ Dist(t, list[i].id) <= Dist(t, list[j].id)
               /\ list[i].id = list[j].id =>
                    /\ list[i].id = m
                    /\ \A h \in DOMAIN list : list[h].id = list[i].id => h \in {i, j}
    <3>1. i # j
      BY <2>5, <2>6
    <3>2. Dist(t, list[i].id) <= Dist(t, list[j].id)
      BY <2>3, <2>6 DEF Ascending
    <3> QED BY <2>4, <3>1, <3>2 DEF Names
  <2>7. ASSUME NEW i \in DOMAIN vis, NEW j \in DOMAIN vis, i < j, vis[i] = vis[j]
        PROVE  i = 1
    <3>1. i # 1 => i \in 2 .. Len(vis) /\ j \in 2 .. Len(vis) /\ i # j
      BY <2>5, <2>7
    <3> QED BY <2>4, <2>7, <3>1 DEF ExpandedOnce
  <2> QED BY <2>1, <2>6, <2>7
<1>2. ASSUME SearchInv PROVE ListInOrder
  BY <1>1, <1>2 DEF ListInOrder
<1> QED BY <1>2, SearchInvariant, PTL

(* mergeIntoWorklistNoSync loses nothing nearer than what it keeps: a      *)
(* vertex that was filtered in is in the list, or SearchL others are no    *)
(* farther.                                                                *)
THEOREM NearestKept == Spec => []KeepsTheNearest
<1>1. ASSUME SearchInv, NEW q \in Blocks, MergedBy(q), NEW v \in admitted[q] \ Ids(worklist[q])
      PROVE  /\ Len(worklist[q]) = SearchL
             /\ \A i \in 1 .. SearchL : Dist(target(q), worklist[q][i].id) <= Dist(target(q), v)
  <2>1. BlockInv(q) /\ Phase(q) = "merged"
    BY <1>1 DEF SearchInv, Phase, MergedBy
  <2>2. /\ worklist[q] \in Seq(Entry(Vertices))
        /\ Kept(target(q), worklist[q], admitted[q], SearchL)
    BY <2>1 DEF BlockInv, Searching, BlockTyped, Settled, SearchL
  <2>3. DOMAIN worklist[q] = 1 .. Len(worklist[q])
    BY <2>2, LenProperties
  <2> QED BY <1>1, <2>2, <2>3 DEF Kept
<1>2. ASSUME SearchInv PROVE KeepsTheNearest
  BY <1>1, <1>2 DEF KeepsTheNearest
<1> QED BY <1>2, SearchInvariant, PTL

(* The rounds of the other queries do not disturb a query that is through: *)
(* merging the neighbours it filtered last, once more, changes nothing.    *)
THEOREM StaleMergesHarmless == Spec => []StaleMergeIsHarmless
<1>1. ASSUME SearchInv, launch \in {"host", "done"}, NEW q \in Blocks, parent[q] = NoVertex
      PROVE  Merged(target(q), worklist[q], near[q], SearchL) = worklist[q]
  <2>1. BlockInv(q) /\ Phase(q) = "merged"
    BY <1>1 DEF SearchInv, Phase
  <2> QED BY <1>1, <2>1 DEF BlockInv, Searching, Settled, Idle, SearchL
<1>2. ASSUME SearchInv PROVE StaleMergeIsHarmless
  BY <1>1, <1>2 DEF StaleMergeIsHarmless
<1> QED BY <1>2, SearchInvariant, PTL

(* The host stops early only when no query has anything left to expand,    *)
(* though it reads the shared flag every CheckInterval rounds only: then   *)
(* every live neighbour of a listed vertex was met.                        *)
THEOREM ClosedAtTheEnd == Spec => []ClosedWhenDone
<1>1. ASSUME SearchInv, launch = "done", iter < Iterations(SearchL), NEW q \in Blocks,
             NEW v \in Ids(worklist[q])
      PROVE  /\ parent[q] = NoVertex
             /\ Unmet(Eligible(input.adj[v], q, input.dead), input.bits, bloom[q]) = {}
  <2>1. PICK w \in Nat, i \in Nat : w = Iterations(SearchL) /\ i = iter
    BY <1>1, TargetIs, InputIs DEF SearchInv, HostTyped, SearchL, Iterations
  <2>2. ~nextIter
    BY <1>1, <2>1 DEF SearchInv, FlagInv
  <2>3. Calm(q)
    BY <1>1, <2>2 DEF SearchInv, FlagInv
  <2>4. PICK n \in DOMAIN worklist[q] : v = worklist[q][n].id
    BY <1>1 DEF Ids
  <2>5. worklist[q][n].visited /\ parent[q] = NoVertex
    BY <2>3 DEF Calm, Unvisited
  <2>6. /\ worklist[q] \in Seq(Entry(Vertices))
        /\ Met(input, q, worklist[q], parent[q], bloom[q])
    BY <1>1 DEF SearchInv, BlockInv, Searching, BlockTyped
  <2>7. v # NoVertex
    <3>1. worklist[q][n] \in Entry(Vertices)
      BY <2>6, EntriesOf
    <3> QED BY <2>4, <3>1, SearchAssumption DEF Entry, SearchAssumption
  <2> QED BY <2>4, <2>5, <2>6, <2>7 DEF Met
<1>2. ASSUME SearchInv PROVE ClosedWhenDone
  BY <1>1, <1>2 DEF ClosedWhenDone
<1> QED BY <1>2, SearchInvariant, PTL

-----------------------------------------------------------------------------
(* A query in a batch, and the walk of that query by itself.               *)

ToldApart(in) == \A u, v \in Vertices : u # v => in.bits[u] \cap in.bits[v] = {}

(* The filter of a block that let in adm.                                  *)
BitsOf(in, adm) == UNION {in.bits[v] : v \in adm}

(* Where bits tell vertices apart, the filter admits all that is new.      *)
LEMMA AllNewAdmitted ==
  ASSUME NEW in \in InputType, ToldApart(in), NEW adm, adm \subseteq Vertices,
         NEW C, C \subseteq Vertices, NEW A \in Admissible(C, in.bits, BitsOf(in, adm))
  PROVE  A = C \ adm /\ BloomWith(A, in.bits, BitsOf(in, adm)) = BitsOf(in, adm \cup A)
<1>1. ASSUME NEW S, S \subseteq Vertices, NEW v \in Vertices
      PROVE  in.bits[v] \subseteq BitsOf(in, S) <=> v \in S
  <2>1. in.bits[v] # {}
    BY DEF InputType
  <2>2. PICK b : b \in in.bits[v]
    BY <2>1
  <2>3. ASSUME in.bits[v] \subseteq BitsOf(in, S) PROVE v \in S
    <3>1. PICK u \in S : b \in in.bits[u]
      BY <2>2, <2>3 DEF BitsOf
    <3> QED BY <1>1, <2>2, <3>1 DEF ToldApart
  <2>4. ASSUME v \in S PROVE in.bits[v] \subseteq BitsOf(in, S)
    BY <2>4 DEF BitsOf
  <2> QED BY <2>3, <2>4
<1>2. BloomWith(A, in.bits, BitsOf(in, adm)) = BitsOf(in, adm \cup A)
  BY DEF BloomWith, BitsOf
<1>3. A \subseteq C \ adm
  BY <1>1 DEF Admissible, Unmet
<1>4. ASSUME NEW v \in C \ adm PROVE v \in A
  <2>1. Unmet(C, in.bits, BitsOf(in, adm \cup A)) = {}
    BY <1>2 DEF Admissible
  <2>2. in.bits[v] \subseteq BitsOf(in, adm \cup A)
    BY <2>1 DEF Unmet
  <2>3. v \in adm \cup A
    BY <1>1, <1>3, <2>2
  <2> QED BY <2>3
<1> QED BY <1>2, <1>3, <1>4

(* Without ties there is one order.                                        *)
LEMMA OneOrder ==
  ASSUME NEW t, NEW V, MeasuredFrom(t, V), NoTies(t), V \subseteq Vertices,
         NEW A, A \subseteq V, IsFiniteSet(A),
         NEW s \in Sorted(t, A), NEW r \in Sorted(t, A)
  PROVE  s = r
<1>1. PICK n \in Nat : n = Cardinality(A)
  BY FS_CardinalityType
<1>2. /\ s \in Seq(A) /\ Len(s) = n /\ InOrder(t, s) /\ IsInjective(s) /\ ToSet(s) = A
      /\ r \in Seq(A) /\ Len(r) = n /\ InOrder(t, r) /\ IsInjective(r) /\ ToSet(r) = A
  BY <1>1, SortedIs
<1>3. /\ DOMAIN s = 1 .. n /\ DOMAIN r = 1 .. n
      /\ \A i \in 1 .. n : s[i] \in A /\ r[i] \in A
      /\ s = [i \in 1 .. n |-> s[i]] /\ r = [i \in 1 .. n |-> r[i]]
  <2>1. /\ DOMAIN s = 1 .. n /\ DOMAIN r = 1 .. n
        /\ s = [i \in 1 .. n |-> s[i]] /\ r = [i \in 1 .. n |-> r[i]]
    BY <1>2, LenProperties
  <2> QED BY <1>2, <2>1, ElementOfSeq
<1>4. PICK d \in [A -> Nat] : \A v \in A : d[v] = Dist(t, v)
  <2>1. [v \in A |-> Dist(t, v)] \in [A -> Nat]
    BY DEF MeasuredFrom
  <2> QED BY <2>1
<1>5. \A u, v \in A : u # v => d[u] # d[v]
  BY <1>4 DEF NoTies
<1>6. \A i, j \in 1 .. n : i < j => d[s[i]] < d[s[j]] /\ d[r[i]] < d[r[j]]
  <2> SUFFICES ASSUME NEW i \in 1 .. n, NEW j \in 1 .. n, i < j
               PROVE  d[s[i]] < d[s[j]] /\ d[r[i]] < d[r[j]]
    OBVIOUS
  <2>1. Dist(t, s[i]) <= Dist(t, s[j]) /\ Dist(t, r[i]) <= Dist(t, r[j])
    BY <1>2, <1>3 DEF InOrder
  <2>2. s[i] # s[j] /\ r[i] # r[j]
    BY <1>2, <1>3 DEF IsInjective
  <2>3. d[s[i]] <= d[s[j]] /\ d[r[i]] <= d[r[j]]
    BY <1>3, <1>4, <2>1
  <2>4. d[s[i]] # d[s[j]] /\ d[r[i]] # d[r[j]]
    BY <1>3, <1>5, <2>2
  <2> QED BY <1>3, <1>4, <2>3, <2>4
<1>7. PICK f \in [1 .. n -> 1 .. n] : \A p \in 1 .. n : r[f[p]] = s[p]
  <2>1. \A p \in 1 .. n : \E q \in 1 .. n : r[q] = s[p]
    BY <1>2, <1>3 DEF ToSet
  <2> DEFINE g == [p \in 1 .. n |-> CHOOSE q \in 1 .. n : r[q] = s[p]]
  <2>2. g \in [1 .. n -> 1 .. n] /\ \A p \in 1 .. n : r[g[p]] = s[p]
    BY <2>1
  <2> HIDE DEF g
  <2> QED BY <2>2
<1>8. \A p, q \in 1 .. n : p < q => f[p] < f[q]
  <2> SUFFICES ASSUME NEW p \in 1 .. n, NEW q \in 1 .. n, p < q PROVE f[p] < f[q]
    OBVIOUS
  <2>1. d[r[f[p]]] < d[r[f[q]]]
    BY <1>6, <1>7
  <2>2. f[p] \in 1 .. n /\ f[q] \in 1 .. n
    OBVIOUS
  <2>3. d[r[f[p]]] \in Nat /\ d[r[f[q]]] \in Nat
    BY <1>3, <2>2
  <2>4. f[q] < f[p] => d[r[f[q]]] < d[r[f[p]]]
    BY <1>6, <2>2
  <2>5. f[q] = f[p] => d[r[f[q]]] = d[r[f[p]]]
    OBVIOUS
  <2>6. PICK x \in Nat, y \in Nat, k \in Nat, l \in Nat :
          x = d[r[f[p]]] /\ y = d[r[f[q]]] /\ k = f[p] /\ l = f[q]
    <3>1. f[p] \in Nat /\ f[q] \in Nat
      BY <2>2
    <3> QED BY <2>3, <3>1
  <2>7. x < y /\ (l < k => y < x) /\ (l = k => y = x)
    BY <2>1, <2>4, <2>5, <2>6
  <2>8. x < y /\ x \in Nat /\ y \in Nat /\ k \in Nat /\ l \in Nat
    BY <2>6, <2>7
  <2>9. k < l
    BY <2>7, <2>8
  <2> QED BY <2>6, <2>9
<1>9. \A p \in 1 .. n : f[p] = p
  <2>1. PICK len \in Nat : len = n /\ n <= len
    OBVIOUS
  <2>2. n \in Nat /\ len \in Nat /\ n <= len /\ f \in [1 .. len -> 1 .. n]
    BY <1>7, <2>1
  <2>3. Climbs(len, f)
    BY <1>8, <2>1 DEF Climbs
  <2>4. len = n /\ \A p \in 1 .. len : f[p] = p
    BY <2>2, <2>3, RisesToTheEnd
  <2> QED BY <2>1, <2>4
<1>10. \A p \in 1 .. n : s[p] = r[p]
  BY <1>7, <1>9
<1> QED BY <1>3, <1>10

(* Where a query is in its walk.                                           *)
At(list, par, adm, vis) == [list |-> list, parent |-> par, met |-> adm, visited |-> vis]

(* The walk of the query of block q, and whether it is of one course only. *)
OwnRun(q) ==
  RunOf(input.adj, input.dead, input.medoid, q, target(q), SearchL)
OneCourse(q) == NoSharedBits /\ NoTies(target(q))

(* How many expansions a block has merged.                                 *)
Rounds == IF launch = "filter" THEN iter - 1 ELSE iter

AloneInv(q) ==
  OneCourse(q) =>
    /\ bloom[q] = BitsOf(input, admitted[q])
    /\ Phase(q) = "merged" =>
         OwnRun(q)[Rounds] = At(worklist[q], parent[q], admitted[q], visitedSet[q])
    /\ Phase(q) = "filtered" =>
         LET merged == Merged(target(q), worklist[q], near[q], SearchL)
         IN  OwnRun(q)[iter] = At(MarkNext(merged), NextParent(merged), admitted[q], visitedSet[q])

LockstepInv ==
  /\ launch \in {"filter", "merge"} => iter # 0
  /\ \A q \in Blocks : AloneInv(q)

RunFacts(q) ==
  RunsIn(WalkStates(Vertices, target(q)), OwnRun(q), input.adj, input.dead, input.medoid, q,
         target(q), SearchL)

LEMMA OwnRunIs ==
  ASSUME input \in Inputs, NEW q \in Blocks
  PROVE  RunFacts(q)
<1>1. input \in InputType /\ MeasuredFrom(target(q), Vertices) /\ SearchL \in Nat
  BY TargetIs, InputIs DEF SearchL
<1>2. ASSUME NEW v \in Vertices
      PROVE  Eligible(input.adj[v], q, input.dead) \subseteq Vertices
  <2>1. input.adj[v] \in Seq(Vertices)
    BY <1>1, InputIs
  <2>2. \A i \in DOMAIN input.adj[v] : input.adj[v][i] \in Vertices
    BY <2>1, EntriesOf
  <2> QED BY <2>2 DEF Eligible
<1>3. IsFiniteSet(Vertices) /\ input.medoid \in Vertices
  BY <1>1, InputIs
<1>4. Within(Vertices, input.adj, input.dead, input.medoid, q, target(q))
  BY <1>1, <1>2, <1>3 DEF Within
<1> QED BY <1>1, <1>4, WalkRuns DEF RunFacts, OwnRun

LEMMA LockstepStarts == Init => LockstepInv
<1> SUFFICES ASSUME Init PROVE LockstepInv
  OBVIOUS
<1>1. launch = "host" /\ iter = 0 /\ input \in Inputs
  BY DEF Init
<1>2. ASSUME NEW q \in Blocks PROVE AloneInv(q)
  <2>1. /\ worklist[q] = StartList(input.medoid) /\ parent[q] = input.medoid
        /\ bloom[q] = {} /\ visitedSet[q] = <<>> /\ admitted[q] = {}
    BY DEF Init
  <2>2. OwnRun(q)[0] = Started(input.medoid)
    BY <1>1, OwnRunIs DEF RunFacts, RunsIn
  <2>3. Started(input.medoid) = At(worklist[q], parent[q], admitted[q], visitedSet[q])
    BY <2>1 DEF Started, At
  <2>4. bloom[q] = BitsOf(input, admitted[q])
    BY <2>1 DEF BitsOf
  <2>5. Rounds = 0 /\ Phase(q) = "merged"
    BY <1>1 DEF Rounds, Phase
  <2> QED BY <2>2, <2>3, <2>4, <2>5 DEF AloneInv
<1> QED BY <1>1, <1>2 DEF LockstepInv

(* What a step that leaves a block alone must keep.                        *)
LEMMA SameAlone ==
  ASSUME NEW q \in Blocks, AloneInv(q),
         UNCHANGED <<input, worklist[q], near[q], parent[q], bloom[q], visitedSet[q], admitted[q]>>,
         Phase(q)' = Phase(q),
         Phase(q) = "merged" => Rounds' = Rounds,
         Phase(q) = "filtered" => iter' = iter
  PROVE  AloneInv(q)'
<1>1. /\ target(q)' = target(q) /\ SearchL' = SearchL /\ (OneCourse(q)' <=> OneCourse(q))
  BY DEF target, SearchL, OneCourse, NoSharedBits, NoTies
<1>2. OwnRun(q)' = OwnRun(q)
  BY <1>1 DEF OwnRun
<1> QED BY <1>1, <1>2 DEF AloneInv

(* The next state of the walk after rounds expansions.                     *)
LEMMA NextOfRun ==
  ASSUME SearchInv, NEW q \in Blocks, launch = "filter", iter # 0
  PROVE  OwnRun(q)[iter] = Advance(input.adj, input.dead, q, target(q), SearchL, OwnRun(q)[Rounds])
<1>1. PICK i \in 1 .. Iterations(SearchL) : i = iter
  <2>1. SearchL \in Nat
    BY TargetIs, InputIs DEF SearchInv, HostTyped, SearchL
  <2> QED BY <2>1 DEF SearchInv, HostTyped, Iterations
<1>2. RunFacts(q)
  BY OwnRunIs DEF SearchInv, HostTyped
<1>3. OwnRun(q)[i] = Advance(input.adj, input.dead, q, target(q), SearchL, OwnRun(q)[i - 1])
  BY <1>2 DEF RunFacts, RunsIn
<1> QED BY <1>1, <1>3 DEF Rounds

LEMMA FilterInStep ==
  ASSUME SearchInv, LockstepInv, NEW q \in Blocks, FilterNeighbors(q)
  PROVE  LockstepInv'
<1>1. /\ UNCHANGED <<input, iter, worklist>>
      /\ launch = "filter" /\ q \notin ran /\ Return(q, "merge")
  BY DEF FilterNeighbors, frozen
<1>2. Blocks' = Blocks /\ SearchL' = SearchL /\ \A o : target(o)' = target(o)
  BY <1>1 DEF Blocks, SearchL, target
<1>3. /\ HostTyped /\ BlocksTyped /\ input \in InputType /\ iter # 0
      /\ \A o \in Blocks : BlockInv(o) /\ AloneInv(o)
  BY <1>1, TargetIs DEF SearchInv, HostTyped, LockstepInv
<1>4. /\ Phase(q) = "merged" /\ Phase(q)' = "filtered"
      /\ \A o \in Blocks : o # q => Phase(o)' = Phase(o)
  BY <1>1, <1>2, <1>3, ReturnIs DEF HostTyped
<1>5. OwnRun(q)[iter] = Advance(input.adj, input.dead, q, target(q), SearchL, OwnRun(q)[Rounds])
  BY <1>1, <1>3, NextOfRun
<1>6. ASSUME NEW o \in Blocks, o # q PROVE AloneInv(o)'
  <2>1. UNCHANGED <<near[o], parent[o], bloom[o], visitedSet[o], admitted[o]>>
    BY <1>3, <1>6 DEF FilterNeighbors, BlocksTyped
  <2>2. Phase(o) = "merged" => Rounds' = Rounds
    <3>1. Phase(o) = "merged" => ran \cup {q} # Blocks
      BY <1>1, <1>6 DEF Phase
    <3>2. ran \cup {q} # Blocks => launch' = "filter"
      BY <1>1 DEF Return
    <3> QED BY <1>1, <3>1, <3>2 DEF Rounds
  <2> QED BY <1>1, <1>3, <1>4, <1>6, <2>1, <2>2, SameAlone
<1>7. AloneInv(q)'
  <2> SUFFICES ASSUME OneCourse(q)
               PROVE  /\ bloom'[q] = BitsOf(input, admitted'[q])
                      /\ LET merged == Merged(target(q), worklist[q], near'[q], SearchL)
                         IN  OwnRun(q)[iter]
                               = At(MarkNext(merged), NextParent(merged), admitted'[q], visitedSet'[q])
    <3>1. (OneCourse(q)' <=> OneCourse(q)) /\ OwnRun(q)' = OwnRun(q)
      BY <1>1, <1>2 DEF OneCourse, NoSharedBits, NoTies, OwnRun
    <3> QED BY <1>1, <1>2, <1>4, <3>1 DEF AloneInv
  <2>1. /\ bloom[q] = BitsOf(input, admitted[q])
        /\ OwnRun(q)[Rounds] = At(worklist[q], parent[q], admitted[q], visitedSet[q])
    BY <1>3, <1>4 DEF AloneInv
  <2>2. CASE parent[q] = NoVertex
    <3>1. UNCHANGED <<near, parent, bloom, visitedSet, admitted>>
      BY <2>2 DEF FilterNeighbors
    <3>2. OwnRun(q)[iter] = At(worklist[q], NoVertex, admitted[q], visitedSet[q])
      BY <1>5, <2>1, <2>2 DEF Advance, At
    <3>3. Idle(target(q), worklist[q], near[q], SearchL)
      BY <1>3, <1>4, <2>2 DEF BlockInv, Searching, Settled, SearchL
    <3>4. /\ Merged(target(q), worklist[q], near[q], SearchL) = worklist[q]
          /\ MarkNext(worklist[q]) = worklist[q] /\ NextParent(worklist[q]) = NoVertex
      BY <3>3, ThroughIs DEF Idle
    <3> QED BY <2>1, <3>1, <3>2, <3>4
  <2>3. CASE parent[q] # NoVertex
    <3>1. PICK A \in Admissible(CandidatesOf(q), input.bits, bloom[q]) :
            /\ \E s \in Sorted(target(q), A) : near' = [near EXCEPT ![q] = s]
            /\ bloom' = [bloom EXCEPT ![q] = BloomWith(A, input.bits, bloom[q])]
            /\ admitted' = [admitted EXCEPT ![q] = admitted[q] \cup A]
      BY <2>3 DEF FilterNeighbors
    <3>2. PICK s \in Sorted(target(q), A) : near' = [near EXCEPT ![q] = s]
      BY <3>1
    <3>3. /\ near'[q] = s /\ bloom'[q] = BloomWith(A, input.bits, bloom[q])
          /\ admitted'[q] = admitted[q] \cup A
          /\ visitedSet'[q] = Recorded(visitedSet[q], parent[q])
      BY <1>3, <2>3, <3>1, <3>2 DEF BlocksTyped, FilterNeighbors
    <3>4. PICK C : C = CandidatesOf(q) /\ C \subseteq Vertices
      <4>1. parent[q] \in Vertices
        BY <1>3, <2>3 DEF BlocksTyped
      <4>2. \A i \in DOMAIN input.adj[parent[q]] : input.adj[parent[q]][i] \in Vertices
        BY <1>3, <4>1, InputIs, EntriesOf
      <4> QED BY <4>2 DEF CandidatesOf, Eligible
    <3>5. A = C \ admitted[q] /\ BloomWith(A, input.bits, bloom[q]) = BitsOf(input, admitted[q] \cup A)
      <4>1. admitted[q] \subseteq Vertices /\ ToldApart(input)
        BY <1>3 DEF BlocksTyped, OneCourse, NoSharedBits, ToldApart
      <4>2. A \in Admissible(C, input.bits, BitsOf(input, admitted[q]))
        BY <2>1, <3>1, <3>4
      <4>3. A = C \ admitted[q]
            /\ BloomWith(A, input.bits, BitsOf(input, admitted[q])) = BitsOf(input, admitted[q] \cup A)
        BY <1>3, <3>4, <4>1, <4>2, AllNewAdmitted
      <4> QED BY <2>1, <4>3
    <3>6. s = CHOOSE r \in Sorted(target(q), A) : TRUE
      <4>1. MeasuredFrom(target(q), Vertices) /\ A \subseteq Vertices /\ NoTies(target(q))
        BY <1>3, <3>4, <3>5, TargetIs DEF HostTyped, OneCourse
      <4>2. IsFiniteSet(A)
        BY <1>3, <4>1, InputIs, FS_Subset
      <4>3. PICK r : r = CHOOSE u \in Sorted(target(q), A) : TRUE
        OBVIOUS
      <4>4. r \in Sorted(target(q), A)
        BY <3>2, <4>3
      <4> QED BY <4>1, <4>2, <4>3, <4>4, <3>2, OneOrder
    <3>7. OwnRun(q)[iter]
            = Expand(input.adj, input.dead, q, target(q), SearchL,
                     At(worklist[q], parent[q], admitted[q], visitedSet[q]))
      BY <1>5, <2>1, <2>3 DEF Advance, At
    <3>8. A = Eligible(input.adj[parent[q]], q, input.dead) \ admitted[q]
      BY <3>4, <3>5 DEF CandidatesOf
    <3>9. PICK merged : merged = Merged(target(q), worklist[q], s, SearchL)
      OBVIOUS
    <3>10. Expand(input.adj, input.dead, q, target(q), SearchL,
                  At(worklist[q], parent[q], admitted[q], visitedSet[q]))
             = At(MarkNext(merged), NextParent(merged),
                  admitted[q] \cup A, Recorded(visitedSet[q], parent[q]))
      BY <3>6, <3>8, <3>9 DEF Expand, At
    <3> QED BY <3>3, <3>5, <3>7, <3>9, <3>10
  <2> QED BY <2>2, <2>3
<1>8. launch' \in {"filter", "merge"} => iter' # 0
  BY <1>1, <1>3
<1> QED BY <1>2, <1>6, <1>7, <1>8 DEF LockstepInv

LEMMA MergeInStep ==
  ASSUME SearchInv, LockstepInv, NEW q \in Blocks, MergeIntoWorklist(q)
  PROVE  LockstepInv'
<1>1. /\ UNCHANGED <<input, iter, near, bloom, visitedSet, admitted>>
      /\ launch = "merge" /\ q \notin ran /\ Return(q, "host")
  BY DEF MergeIntoWorklist, frozen
<1>2. Blocks' = Blocks /\ SearchL' = SearchL /\ \A o : target(o)' = target(o)
  BY <1>1 DEF Blocks, SearchL, target
<1>3. /\ HostTyped /\ BlocksTyped /\ iter # 0
      /\ \A o \in Blocks : AloneInv(o)
  BY <1>1 DEF SearchInv, LockstepInv
<1>4. /\ Phase(q) = "filtered" /\ Phase(q)' = "merged"
      /\ \A o \in Blocks : o # q => Phase(o)' = Phase(o)
      /\ launch' \in {"merge", "host"}
  <2>1. launch' \in {"merge", "host"}
    BY <1>1 DEF Return
  <2> QED BY <1>1, <1>2, <1>3, <2>1, ReturnIs DEF HostTyped
<1>5. Rounds = iter /\ Rounds' = iter
  BY <1>1, <1>4 DEF Rounds
<1>6. PICK merged : merged = Merged(target(q), worklist[q], near[q], SearchL)
  OBVIOUS
<1>7. /\ worklist'[q] = MarkNext(merged) /\ parent'[q] = NextParent(merged)
      /\ \A o \in Blocks : o # q => worklist'[o] = worklist[o] /\ parent'[o] = parent[o]
  BY <1>3, <1>6 DEF BlocksTyped, MergeIntoWorklist
<1>8. ASSUME NEW o \in Blocks, o # q PROVE AloneInv(o)'
  BY <1>1, <1>3, <1>4, <1>5, <1>7, <1>8, SameAlone
<1>9. AloneInv(q)'
  <2>1. (OneCourse(q)' <=> OneCourse(q)) /\ OwnRun(q)' = OwnRun(q)
    BY <1>1, <1>2 DEF OneCourse, NoSharedBits, NoTies, OwnRun
  <2>2. OneCourse(q) =>
          /\ bloom[q] = BitsOf(input, admitted[q])
          /\ OwnRun(q)[iter] = At(MarkNext(merged), NextParent(merged), admitted[q], visitedSet[q])
    BY <1>3, <1>4, <1>6 DEF AloneInv
  <2> QED BY <1>1, <1>4, <1>5, <1>7, <2>1, <2>2 DEF AloneInv
<1> QED BY <1>1, <1>2, <1>3, <1>8, <1>9 DEF LockstepInv

LEMMA LockstepStep == SearchInv /\ LockstepInv /\ [Next]_vars => LockstepInv'
<1> SUFFICES ASSUME SearchInv, LockstepInv, [Next]_vars PROVE LockstepInv'
  OBVIOUS
<1>1. ASSUME NEW q \in Blocks, FilterNeighbors(q) PROVE LockstepInv'
  BY <1>1, FilterInStep
<1>2. ASSUME NEW q \in Blocks, MergeIntoWorklist(q) PROVE LockstepInv'
  BY <1>2, MergeInStep
<1>3. ASSUME UNCHANGED <<input, worklist, near, parent, bloom, visitedSet, admitted>>,
             \A q : Phase(q) = "merged" /\ Phase(q)' = "merged", Rounds' = Rounds,
             launch' \in {"filter", "merge"} => iter' # 0
      PROVE  LockstepInv'
  <2>1. Blocks' = Blocks
    BY <1>3 DEF Blocks
  <2>2. ASSUME NEW q \in Blocks PROVE AloneInv(q)'
    <3>1. AloneInv(q)
      BY DEF LockstepInv
    <3>2. Phase(q)' = Phase(q) /\ Phase(q) = "merged"
      BY <1>3
    <3> QED BY <1>3, <3>1, <3>2, SameAlone
  <2> QED BY <1>3, <2>1, <2>2 DEF LockstepInv
<1>4. CASE Iterate
  <2>1. UNCHANGED <<input, worklist, near, parent, bloom, visitedSet, admitted>>
    BY <1>4 DEF Iterate, frozen
  <2>2. launch = "host" /\ launch' = "filter" /\ ran' = {} /\ iter' = iter + 1 /\ iter \in Nat
    BY <1>4 DEF Iterate, SearchInv, HostTyped
  <2>3. Rounds' = Rounds /\ iter' # 0
    BY <2>2 DEF Rounds
  <2>4. \A q : Phase(q) = "merged" /\ Phase(q)' = "merged"
    BY <2>2 DEF Phase
  <2> QED BY <1>3, <2>1, <2>3, <2>4
<1>5. CASE HostDone
  <2>1. UNCHANGED <<input, worklist, near, parent, bloom, visitedSet, admitted, iter>>
    BY <1>5 DEF HostDone, frozen
  <2>2. launch = "host" /\ launch' = "done"
    BY <1>5 DEF HostDone
  <2>3. Rounds' = Rounds /\ \A q : Phase(q) = "merged" /\ Phase(q)' = "merged"
    BY <2>1, <2>2 DEF Rounds, Phase
  <2> QED BY <1>3, <2>1, <2>2, <2>3
<1>6. CASE UNCHANGED vars
  <2>1. UNCHANGED <<input, launch, ran, iter, worklist, near, parent, bloom, visitedSet, admitted>>
    BY <1>6 DEF vars, frozen, hostVars
  <2>2. Blocks' = Blocks /\ Rounds' = Rounds /\ \A q : Phase(q)' = Phase(q)
    BY <2>1 DEF Blocks, Rounds, Phase
  <2>3. ASSUME NEW q \in Blocks PROVE AloneInv(q)'
    <3>1. AloneInv(q)
      BY DEF LockstepInv
    <3> QED BY <2>1, <2>2, <3>1, SameAlone
  <2> QED BY <2>1, <2>2, <2>3 DEF LockstepInv
<1> QED BY <1>1, <1>2, <1>4, <1>5, <1>6 DEF Next, Work, Searched

LEMMA LockstepInvariant == Spec => [](SearchInv /\ LockstepInv)
<1> QED BY SearchStarts, SearchStep, LockstepStarts, LockstepStep, PTL DEF Spec

(* A walk with nothing to expand stays where it is.                        *)
LEMMA WalkRests ==
  ASSUME NEW S, NEW g, NEW adj, NEW dead, NEW medoid, NEW block, NEW t, NEW width \in Nat,
         RunsIn(S, g, adj, dead, medoid, block, t, width),
         NEW k \in 0 .. Iterations(width), g[k].parent = NoVertex
  PROVE  g[Iterations(width)] = g[k]
<1>1. PICK N \in Nat : N = Iterations(width) /\ N - k \in Nat
  BY DEF Iterations
<1>2. \A n \in 1 .. N : g[n] = Advance(adj, dead, block, t, width, g[n - 1])
  BY <1>1 DEF RunsIn
<1> DEFINE Good == {n \in 0 .. N - k : g[k + n] = g[k]}
<1>3. 0 \in Good
  BY <1>1
<1>4. ASSUME NEW n \in 0 .. (N - k) - 1, n \in Good PROVE n + 1 \in Good
  <2>1. PICK i \in 1 .. N : i = k + (n + 1) /\ i - 1 = k + n
    BY <1>1
  <2>2. g[i] = Advance(adj, dead, block, t, width, g[k])
    BY <1>2, <1>4, <2>1
  <2>3. g[i] = g[k]
    BY <2>2 DEF Advance
  <2> QED BY <1>1, <2>1, <2>3
<1> HIDE DEF Good
<1>5. PICK m \in Nat : m = N - k
  BY <1>1
<1>6. 0 .. m \subseteq Good
  <2>1. \A n \in 0 .. m - 1 : n \in Good => n + 1 \in Good
    BY <1>4, <1>5
  <2> QED BY <1>3, <2>1, UpTo
<1>7. m \in Good /\ k + m = N
  BY <1>1, <1>5, <1>6
<1> QED BY <1>1, <1>7 DEF Good

(* greedySearchNoSyncPrealloc comes, for each query of a batch, to what    *)
(* searching for it alone comes to, in any order of the blocks and however *)
(* many rounds it goes on taking part in for the sake of the others, as    *)
(* long as the filter tells vertices apart and none are equally far.       *)
THEOREM BatchIsAsIfAlone == Spec => []AsIfAlone
<1>1. ASSUME SearchInv, LockstepInv, launch = "done", NoSharedBits,
             NEW q \in Blocks, NoTies(target(q))
      PROVE  LET alone == Walk(input.adj, input.dead, input.medoid, q, target(q), SearchL)
             IN  worklist[q] = alone.list /\ visitedSet[q] = alone.visited
  <2>1. PICK N \in Nat, i \in Nat :
          N = Iterations(SearchL) /\ i = iter /\ i \in 0 .. N /\ SearchL \in Nat
    BY <1>1, TargetIs, InputIs DEF SearchInv, HostTyped, SearchL, Iterations
  <2>2. OwnRun(q)[i] = At(worklist[q], parent[q], admitted[q], visitedSet[q])
    <3>1. AloneInv(q) /\ Phase(q) = "merged" /\ Rounds = i /\ OneCourse(q)
      BY <1>1, <2>1 DEF LockstepInv, Phase, Rounds, OneCourse
    <3> QED BY <3>1 DEF AloneInv
  <2>3. PICK g, S : /\ RunsIn(S, g, input.adj, input.dead, input.medoid, q, target(q), SearchL)
                    /\ g = OwnRun(q)
    BY <1>1, OwnRunIs DEF SearchInv, HostTyped, RunFacts
  <2>4. g[i].parent = parent[q] /\ g[i].list = worklist[q] /\ g[i].visited = visitedSet[q]
    BY <2>2, <2>3 DEF At
  <2>5. g[N] = g[i]
    <3>1. CASE i = N
      BY <3>1
    <3>2. CASE i # N
      <4>1. ~nextIter
        BY <1>1, <2>1, <3>2 DEF SearchInv, FlagInv
      <4>2. parent[q] = NoVertex
        BY <1>1, <4>1 DEF SearchInv, FlagInv, Calm
      <4> QED BY <2>1, <2>3, <2>4, <4>2, WalkRests
    <3> QED BY <3>1, <3>2
  <2>6. Walk(input.adj, input.dead, input.medoid, q, target(q), SearchL) = g[N]
    BY <2>1, <2>3 DEF RunsIn
  <2> QED BY <2>4, <2>5, <2>6
<1>2. ASSUME SearchInv, LockstepInv PROVE AsIfAlone
  BY <1>1, <1>2 DEF AsIfAlone
<1> QED BY <1>2, LockstepInvariant, PTL
=============================================================================
